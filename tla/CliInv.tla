-------------------------------- MODULE CliInv --------------------------------
(***************************************************************************)
(* The inductive invariant of Cli: one part for each process a command     *)
(* runs, and one that ties the command to the process it waits for.        *)
(***************************************************************************)
EXTENDS Cli

(* JqPipeline *)

\* A row for each accepted record so far is in the pipe, in the chunk or in PostgreSQL.
RowsConserved ==
  reader # "done" => copied + chunk + out = Cardinality(Pipeline!AcceptedOf(next - 1))

\* No more diagnostics than refused records so far.
DiagnosticsCounted == err <= Cardinality(Pipeline!RefusedOf(next - 1))

JqStatusTells ==
  /\ next <= Len(records) + 1
  /\ jq = "none" <=> reader = "idle"
  /\ reader = "idle" => next = 1
  /\ jq = "zero" => next = Len(records) + 1 /\ Len(records) \in Pipeline!AcceptedOf(Len(records))

StreamEnded == reader \in {"end_copy", "stderr"} => chunk = 0 /\ out = 0 /\ jq # "running"

VerdictFits ==
  /\ verdict = "none" <=> reader \in {"idle", "read", "write", "end_copy", "stderr"}
  /\ Pipeline!AcceptedIsWhole

PipelineInv ==
  /\ Pipeline!PipelineTypeOK
  /\ RowsConserved /\ DiagnosticsCounted /\ JqStatusTells /\ StreamEnded /\ VerdictFits

-----------------------------------------------------------------------------
(* UploadTransfer *)

Sending == {"idle", "put", "part", "complete"}

\* What the operator's count says of what was sent.
CountFits ==
  /\ stage = "idle" => part = 1 /\ sent = 0 /\ remote = 0 /\ transferred = 0
  /\ stage = "put" => size < PartUnits /\ sent <= size /\ transferred = sent
  /\ stage = "part" =>
       /\ size >= PartUnits /\ part \in 1 .. Transfer!Parts /\ remote = part - 1
       /\ sent <= Transfer!PartLength /\ transferred = (part - 1) * PartUnits + sent
  /\ stage = "complete" => size >= PartUnits /\ remote = Transfer!Parts /\ transferred = size

FailuresCounted == stage \in Sending => failures = attempt - 1

\* The threshold follows the last percentage shown, and never goes back.
LastShown ==
  next_percentage =
    IF reported = <<>> THEN 10 ELSE ((reported[Len(reported)] \div 10) + 1) * 10
Ascending == \A k \in 2 .. Len(reported) : reported[k - 1] \div 10 < reported[k] \div 10

\* What is stored was counted to its end, whatever was sent twice.
StoredCounted == stage = "stored" => transferred = size

ThresholdFits ==
  /\ LastShown /\ Ascending
  /\ stage # "idle" /\ size > 0 /\ transferred = size => next_percentage = 110

TransferInv ==
  /\ Transfer!TransferTypeOK
  /\ CountFits /\ FailuresCounted /\ ThresholdFits /\ StoredCounted /\ AbortedForCause

-----------------------------------------------------------------------------
(* CrunchbaseInspect *)

\* A count has a transaction of its own, which locks its table and partitions of it; and there
\* is a table left to count.
OneLock ==
  /\ inspector = "counting" =>
       /\ exact /\ Crunchbase!Uncounted # {}
       /\ shared \subseteq {Crunchbase!Counting} \cup Partitions[Crunchbase!Counting]
  /\ inspector # "counting" => shared = {}
  /\ inspector \notin {"counting", "reported", "failed", "refused"} =>
       \A t \in Tables : counts[t] = "none"

CrunchbaseInv ==
  /\ Crunchbase!CrunchbaseTypeOK
  /\ OneLock /\ Crunchbase!ReportAccounts

-----------------------------------------------------------------------------
(* PdlInspect *)

Counters == {"mismatches", "duplicates", "malformed", "fields"}

PdlInv ==
  /\ Files!PdlTypeOK
  /\ phase \in {"idle", "compare"} => at <= Window + 1 /\ tally["compared"] = at - 1
  /\ \A c \in Counters : tally[c] <= tally["compared"]
  /\ phase = "default" => at <= Window + 1
  /\ phase \in {"idle", "compare", "default"} => probes["made"] = 0
  /\ phase = "probe" => at <= Len(Fractions) + 1 /\ probes["made"] < at
  /\ probes["drifted"] <= probes["made"]

\* The positions a loop has passed, and what it passed there.
Passed == 1 .. at - 1

ReadUpTo(rows) ==
  /\ at - 1 <= Window /\ at - 1 <= Len(rows) /\ at - 1 <= Len(json)
  /\ \A k \in Passed : rows[k].width # "oversized" /\ json[k].shape # "broken"
WidePassed(rows) == {k \in Passed : rows[k].width = "wide"}
OthersPassed(rows) == {k \in Passed : ~Files!SameId(rows, k)}
FieldsPassed == {k \in Passed : Files!SameId(csv, k) /\ csv[k].value # json[k].value}
ProbesPassed(shapes) ==
  {k \in Passed : /\ Files!ProbedLine(Fractions[k]) <= Len(json)
                  /\ json[Files!ProbedLine(Fractions[k])].shape \in shapes}

CountsSoFar ==
  /\ ReadUpTo(csv)
  /\ seen_ids = {json[k].id : k \in Passed} /\ IsFiniteSet(seen_ids)
  /\ tally["mismatches"] = Cardinality(OthersPassed(csv))
  /\ tally["duplicates"] + Cardinality(seen_ids) = at - 1
  /\ tally["malformed"] = Cardinality(WidePassed(csv))
  /\ tally["fields"] = Cardinality(FieldsPassed)

ComparedWhole ==
  tally = Files!ComparisonReference /\ Files!Common(csv) # {} /\ ~Files!Defective(csv)

FirstsSoFar ==
  /\ ReadUpTo(defaults)
  /\ firsts = [malformed |-> Files!Least(WidePassed(defaults)),
               mismatch |-> Files!Least(OthersPassed(defaults))]

FirstsFound ==
  /\ firsts = [malformed |-> Files!Least(Files!WideRows(defaults)),
               mismatch |-> Files!Least(Files!OtherIds(defaults))]
  /\ Files!Defective(defaults) => Files!StopsEarly

ProbesSoFar ==
  probes = [made |-> Cardinality(ProbesPassed(Files!Shapes)),
            drifted |-> Cardinality(ProbesPassed({"drifted"}))]

\* What a loop has counted so far is what the reference counts up to there.
ReportInv ==
  /\ phase = "idle" => at = 1
  /\ phase \in {"idle", "compare"} => CountsSoFar /\ firsts = [malformed |-> 0, mismatch |-> 0]
  /\ phase \in {"default", "probe", "returned"} => ComparedWhole
  /\ phase = "default" => FirstsSoFar
  /\ phase \in {"probe", "returned"} => FirstsFound
  /\ phase = "probe" => ProbesSoFar
  /\ InspectionMatchesReference

-----------------------------------------------------------------------------
(* The command *)

Answered == {"answered", "exited"}

\* Environment variables have been looked up, and a command goes on only if they will do.
ConfiguredOnly ==
  /\ database_url \in {"absent", "blank", "malformed", "good"}
  /\ endpoint \in {"absent", "unparsable", "relative", "with_credentials", "good"}
  /\ keys \in {"absent", "good"}
  /\ at_step \in {"ready", "prepared", "working"} => Configured(command)
  /\ ~Idle => Configured(command)

\* One part runs, that of the command, once it is prepared.
PartFits ==
  /\ at_step \in {"start", "ready", "prepared"} => Idle
  /\ reader # "idle" => command = "import_companies"
  /\ stage # "idle" => command = "pdl_archive"
  /\ inspector # "idle" => command = "crunchbase_inspect"
  /\ phase # "idle" => command = "pdl_inspect"

DoctorFits ==
  /\ command = "none" => probed = <<>>
  /\ Len(probed) >= 1 /\ probed[1] => DatabaseConfigured
  /\ command = "doctor" /\ at_step \in Answered /\ result # "escaped" => Len(probed) = 2
  /\ command \notin {"none", "pdl_inspect"} /\ result = "escaped" => EndpointEscapes(command)

\* The command has an answer when the part it waits for has one.
AnswerFits ==
  /\ at_step = "start" <=> command = "none"
  /\ exit # Running <=> at_step = "exited"
  /\ result # "none" => at_step \in Answered
  /\ at_step = "answered" => result # "none"
  /\ exit = 0 => result = "returned"
  /\ result = "returned" =>
       /\ command = "doctor" => probed = <<TRUE, TRUE>>
       /\ command = "import_companies" => reader = "done" /\ verdict = "accepted"
       /\ command = "pdl_archive" => stage = "stored"
       /\ command = "crunchbase_inspect" => inspector = "reported"
       /\ command = "pdl_inspect" => phase = "returned"

CommandInv ==
  /\ command \in Commands \cup {"none"} /\ probed \in UNION {[1 .. n -> BOOLEAN] : n \in 0 .. 2}
  /\ at_step \in {"start", "ready", "prepared", "working", "answered", "exited"}
  /\ result \in {"none", "returned", "raised", "escaped"} /\ exit \in {0, 1, Running}
  /\ ConfiguredOnly /\ PartFits /\ DoctorFits /\ AnswerFits

IInv == PipelineInv /\ TransferInv /\ CrunchbaseInv /\ PdlInv /\ CommandInv
=============================================================================
