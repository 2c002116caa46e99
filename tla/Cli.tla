---------------------------------- MODULE Cli ----------------------------------
(***************************************************************************)
(* One command of `datatown`: src/datatown/cli.py over config.py, with the *)
(* parts of it that are processes of their own: the jq pipeline of an      *)
(* import, the transfer of an original, the inspections.                   *)
(*                                                                         *)
(* The command loads the configurations it needs, calls, and turns what it *)
(* gets, a result or an exception, into sections of output and an exit     *)
(* status.  The rest of archive_plan, of import_companies and of           *)
(* apply_migrations, which have modules of their own, returns or raises.   *)
(***************************************************************************)
EXTENDS Naturals, Sequences, FiniteSets

CONSTANTS
  MaxRecords, OutCapacity, ErrCapacity, ChunkRows, MaxPipeFaults,
  MaxUnits, PartUnits, PartAttempts, SdkAttempts,
  Tables, Partitions, MaxChanges,
  JsonFiles, CsvFiles, Window, Fractions

VARIABLES
  command,     \* the command given, "none" before
  database_url, endpoint, keys, \* what it has found in the environment variables
  at_step,     \* where the command is
  probed,      \* probes of doctor that are done, and whether they succeeded
  result,      \* what the part that was called did: "none", "returned", "raised", "escaped"
  exit,        \* exit status, or Running
  \* JqPipeline
  records, jq, signalled, next, out, err, reader, chunk, copied, verdict, pipeFaults,
  \* UploadTransfer
  stage, size, part, attempt, sent, remote, cause, failures,
  transferred, next_percentage, reported,
  \* CrunchbaseInspect
  relations, created, changing, wanted, inspector, exact, listed, stale, shared, counts,
  \* PdlInspect
  json, csv, defaults, phase, at, seen_ids, tally, firsts, probes

environment == <<database_url, endpoint, keys>>
cliVars == <<command, environment, at_step, probed, result, exit>>

Pipeline == INSTANCE JqPipeline
Transfer == INSTANCE UploadTransfer
Crunchbase == INSTANCE CrunchbaseInspect
Files == INSTANCE PdlInspect

ASSUME PipelineAssumption == Pipeline!PipelineBounds
ASSUME TransferAssumption == Transfer!TransferBounds
ASSUME CrunchbaseAssumption == Crunchbase!TablesBounds
ASSUME PdlFilesAssumption == Files!PdlFilesBounds

pipelineVars ==
  <<records, jq, signalled, next, out, err, reader, chunk, copied, verdict, pipeFaults>>
transferVars ==
  <<stage, size, part, attempt, sent, remote, cause, failures, transferred, next_percentage,
    reported>>
crunchbaseVars ==
  <<relations, created, changing, wanted, inspector, exact, listed, stale, shared, counts>>
pdlVars == <<json, csv, defaults, phase, at, seen_ids, tally, firsts, probes>>

parts == <<pipelineVars, transferVars, crunchbaseVars, pdlVars>>
vars == <<cliVars, parts>>

Running == 99
Commands ==
  {"doctor", "migrate", "crunchbase_inspect", "pdl_inspect", "pdl_archive", "import_companies"}

Init ==
  /\ command = "none" /\ at_step = "start" /\ result = "none" /\ exit = Running
  /\ database_url = "absent" /\ endpoint = "absent" /\ keys = "absent"
  /\ probed = <<>>
  /\ Pipeline!PipelineInit /\ Transfer!TransferInit
  /\ Crunchbase!CrunchbaseInit /\ Files!PdlInit

-----------------------------------------------------------------------------
(* config.py *)

\* _required_values strips what it finds.
Required(value) == value \notin {"absent", "blank"}

DatabaseConfigured == Required(database_url) /\ database_url # "malformed"

\* validate_endpoint: urlsplit raises a ValueError of its own for what it cannot parse, an
\* unclosed bracket of an IPv6 address for instance.
ValidEndpoint == endpoint \notin {"unparsable", "relative", "with_credentials"}

StorageConfigured == Required(endpoint) /\ Required(keys) /\ ValidEndpoint

Configured(c) ==
  /\ c \in {"migrate", "crunchbase_inspect", "pdl_archive", "import_companies"} => DatabaseConfigured
  /\ c = "pdl_archive" => StorageConfigured

-----------------------------------------------------------------------------
Leave(status) == at_step' = "exited" /\ exit' = status

ReadsDatabase(c) == c # "pdl_inspect"
ReadsStorage(c) == c \in {"doctor", "pdl_archive"}

FromEnvironment(c) ==
  /\ database_url' \in
       IF ReadsDatabase(c) THEN {"absent", "blank", "malformed", "good"} ELSE {database_url}
  /\ endpoint' \in
       IF ReadsStorage(c) THEN {"absent", "unparsable", "relative", "with_credentials", "good"}
       ELSE {endpoint}
  /\ keys' \in IF ReadsStorage(c) THEN {"absent", "good"} ELSE {keys}

\* _load_config catches ConfigurationError only.
EndpointEscapes(c) == ReadsStorage(c) /\ Required(keys) /\ endpoint = "unparsable"

\* A command that lacks a configuration ends before it has called anything.
Load(c) ==
  /\ command = "none"
  /\ command' = c /\ FromEnvironment(c)
  /\ \/ EndpointEscapes(c)' /\ at_step' = "answered" /\ result' = "escaped" /\ UNCHANGED exit
     \/ ~EndpointEscapes(c)' /\ Configured(c)' /\ at_step' = "ready" /\ UNCHANGED <<result, exit>>
     \/ ~EndpointEscapes(c)' /\ ~Configured(c)' /\ Leave(1) /\ UNCHANGED result
  /\ UNCHANGED probed

Become(step) == at_step' = step /\ UNCHANGED <<command, environment, probed, result, exit>>

Returns(answer) ==
  /\ at_step' = "answered" /\ result' = answer
  /\ UNCHANGED <<command, environment, probed, exit>>

BothProbed == Len(probed) = 2

\* doctor: both services, whatever the first one answered.
Probe ==
  /\ at_step = "ready" /\ command = "doctor" /\ ~BothProbed
  /\ \E ok \in BOOLEAN :
       /\ ok => IF probed = <<>> THEN DatabaseConfigured ELSE StorageConfigured
       /\ probed' = Append(probed, ok)
  /\ UNCHANGED <<command, environment, at_step, result, exit>>

Doctor ==
  /\ at_step = "ready" /\ command = "doctor" /\ BothProbed
  /\ Returns(IF probed = <<TRUE, TRUE>> THEN "returned" ELSE "raised")

\* What has a module of its own: it is one call here, that returns or raises.
Call == \E answer \in {"returned", "raised"} : Returns(answer)

Migrate == at_step = "ready" /\ command = "migrate" /\ Call

\* What precedes the parts: hashing, validation and the first transactions of archive_plan
\* and import_companies, opening a connection, looking at the files and the header.
Prepare ==
  /\ at_step = "ready" /\ command \notin {"doctor", "migrate"}
  /\ Become("prepared") \/ Returns("raised")

\* Slip: the failure of a part of the call is not passed on.
Swallowed(done) == Call

\* What follows them: it is reached only if they have succeeded.
Follows(done) == IF done THEN Call ELSE Returns("raised")

InspectCrunchbase ==
  /\ at_step = "working" /\ inspector \in {"reported", "failed", "refused"}
  /\ Returns(IF inspector = "reported" THEN "returned" ELSE "raised")

InspectFiles ==
  /\ at_step = "working" /\ phase \in {"returned", "raised", "escaped"}
  /\ Returns(phase)

Archive == at_step = "working" /\ stage \in {"stored", "failed"} /\ Follows(stage = "stored")

Import == at_step = "working" /\ reader = "done" /\ Follows(verdict = "accepted")

\* An exception becomes a message and status 1, one that is not caught a traceback and 1;
\* 1 also stands for the status of an interrupted command.
Exit ==
  /\ at_step = "answered"
  /\ Leave(IF result = "returned" THEN 0 ELSE 1)
  /\ UNCHANGED <<command, environment, probed, result>>

-----------------------------------------------------------------------------
(* The parts: each is started by its command, and takes steps while that one waits for it. *)

Begins(c) == command = c /\ at_step = "prepared" /\ Become("working")

CliStep ==
  /\ UNCHANGED parts
  /\ \/ Probe \/ Doctor \/ Migrate \/ Prepare \/ InspectCrunchbase \/ InspectFiles
     \/ Archive \/ Import \/ Exit

StartPart ==
  \/ Begins("import_companies") /\ Pipeline!Launch
     /\ UNCHANGED <<transferVars, crunchbaseVars, pdlVars>>
  \/ Begins("pdl_archive") /\ Transfer!StartTransfer
     /\ UNCHANGED <<pipelineVars, crunchbaseVars, pdlVars>>
  \/ Begins("crunchbase_inspect") /\ Crunchbase!StartInspection
     /\ UNCHANGED <<pipelineVars, transferVars, pdlVars>>
  \/ Begins("pdl_inspect") /\ Files!StartPdlInspection
     /\ UNCHANGED <<pipelineVars, transferVars, crunchbaseVars>>

PipelineAction(action) ==
  action /\ UNCHANGED <<cliVars, transferVars, crunchbaseVars, pdlVars>>
TransferAction ==
  Transfer!TransferStep /\ UNCHANGED <<cliVars, pipelineVars, crunchbaseVars, pdlVars>>
CrunchbaseAction(action) ==
  command = "crunchbase_inspect" /\ action
  /\ UNCHANGED <<cliVars, pipelineVars, transferVars, pdlVars>>
PdlAction ==
  Files!PdlStep /\ UNCHANGED <<cliVars, pipelineVars, transferVars, crunchbaseVars>>

\* An import whose jq and Python wait for each other stays where it is.
Hangs == Pipeline!Stalled /\ UNCHANGED vars

Exited == exit # Running /\ UNCHANGED vars

Next ==
  \/ \E c \in Commands : Load(c) /\ UNCHANGED parts
  \/ CliStep \/ StartPart
  \/ PipelineAction(Pipeline!PipelineStep)
  \/ TransferAction
  \/ CrunchbaseAction(Crunchbase!CrunchbaseStep)
  \/ PdlAction
  \/ Hangs \/ Exited

Spec == Init /\ [][Next]_vars

\* A command that was given goes on; jq, the SDK and the database answer; the other session
\* gets the locks it waits for and commits; faults are not scheduled.
Fairness ==
  /\ WF_vars((\E c \in Commands : Load(c) /\ UNCHANGED parts) \/ CliStep \/ StartPart)
  /\ WF_vars(PipelineAction(Pipeline!JqStep)) /\ WF_vars(PipelineAction(Pipeline!ReaderStep))
  /\ WF_vars(TransferAction) /\ WF_vars(PdlAction)
  /\ WF_vars(CrunchbaseAction(Crunchbase!InspectorStep))
  /\ WF_vars(CrunchbaseAction(Crunchbase!OtherSession))

FairSpec == Spec /\ Fairness
-----------------------------------------------------------------------------
(* Properties *)

\* Every variable has its type.
TypeOK ==
  /\ command \in Commands \cup {"none"} /\ probed \in UNION {[1 .. n -> BOOLEAN] : n \in 0 .. 2}
  /\ at_step \in {"start", "ready", "prepared", "working", "answered", "exited"}
  /\ result \in {"none", "returned", "raised", "escaped"} /\ exit \in {0, 1, Running}
  /\ Pipeline!PipelineTypeOK /\ Transfer!TransferTypeOK
  /\ Crunchbase!CrunchbaseTypeOK /\ Files!PdlTypeOK

Idle == reader = "idle" /\ stage = "idle" /\ inspector = "idle" /\ phase = "idle"

\* Exit status 0 means that the whole command was done: both services were reached, jq has
\* judged the whole file and every row of it was copied, the object is stored, every table of
\* a report accounted for.  doctor has probed both services when it ends, unless it ended in a
\* traceback over its endpoint, and nothing at all is begun on a configuration that is missing
\* or refused.
ExitTellsOutcome ==
  /\ exit = 0 =>
       /\ command = "doctor" => database_url = "good" /\ probed = <<TRUE, TRUE>>
       /\ command = "import_companies" => Pipeline!AcceptedIsWhole /\ verdict = "accepted"
       /\ command = "pdl_archive" => stage = "stored"
       /\ command = "crunchbase_inspect" => inspector = "reported" /\ Crunchbase!ReportAccounts
       /\ command = "pdl_inspect" => phase = "returned"
  /\ exit # Running /\ command = "doctor" => Len(probed) = 2 \/ EndpointEscapes(command)
  /\ database_url # "good" => Idle \/ command = "pdl_inspect"
  /\ endpoint # "good" \/ keys # "good" => stage = "idle"

OnlyDiagnosticsStall == Pipeline!OnlyDiagnosticsStall
AbortedForCause == Transfer!AbortedForCause
ReportsAscend == Transfer!ReportsAscend
NoCircularWait == Crunchbase!NoCircularWait
CalmInspectionReports == Crunchbase!CalmInspectionReports
InspectionMatchesReference == Files!InspectionMatchesReference

\* Every command ends, whatever fails in the processes and services it waits for, unless it
\* imports a file of which jq refuses more records than its stderr pipe holds diagnostics.
CommandEnds == <>(exit # Running \/ Pipeline!TooManyRefused)
=============================================================================
