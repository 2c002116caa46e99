------------------------------ MODULE PdlImport ------------------------------
(***************************************************************************)
(* `datatown pdl import-companies`: src/datatown/pdl/import_companies.py.  *)
(*                                                                         *)
(* Several invocations of import_companies share one PostgreSQL database.  *)
(* An invocation is a client that sends one transaction at a time and waits *)
(* for the reply; the server commits or refuses the transaction on its own *)
(* time, also when the client has lost its connection or has been killed.  *)
(* A failed invocation opens a second session that drops the scratch table *)
(* and marks the run.  One advisory lock serialises the sessions.          *)
(*                                                                         *)
(* The id of a run and the identity of the table it stages are those of    *)
(* the invocation; a retry is another invocation.  The content of a file   *)
(* stands for its SHA-256 and, sha256 being UNIQUE in meta.dataset_files,  *)
(* for the snapshot that archived it.                                      *)
(***************************************************************************)
EXTENDS Naturals, FiniteSets

CONSTANTS
  Imports,     \* invocations of import_companies
  Contents,    \* contents a local JSONL file can have
  Archived,    \* contents recorded as an original_json of a PDL snapshot
  Malformed,   \* contents with a record the jq filter refuses, or text that is not JSON
  Rejected,    \* those jq ends with an error on: the last record is refused, or not JSON
  Duplicated,  \* contents in which two accepted records have the same id
  Rows,        \* number of records of a content the filter accepts
  Size,        \* number of bytes of a content
  Wanted,      \* --snapshot-id of each invocation, or AnySnapshot
  AnySnapshot, \* no --snapshot-id was given
  Initial,     \* the empty table made by migration 002_pdl.sql
  None,        \* no table, no file, no lock holder, NULL
  FaultKinds,  \* what may go wrong, see Fault
  MaxFaults,   \* bound on the faults of a behaviour
  MaxEdits     \* bound on the changes made to local files

ASSUME ImportsAssumption == IsFiniteSet(Imports) /\ Initial \notin Imports
ASSUME ContentsAssumption ==
  /\ Archived \subseteq Contents
  /\ Malformed \subseteq Contents /\ Rejected \subseteq Malformed
  /\ Duplicated \subseteq Contents
  /\ Rows \in [Contents -> Nat] /\ Size \in [Contents -> Nat]
  /\ Wanted \in [Imports -> Archived \cup {AnySnapshot}]
  /\ AnySnapshot \notin Contents
ASSUME NoneAssumption ==
  None \notin Imports \cup {Initial} \cup Contents \cup (Imports \X {"main", "cleanup"})
ASSUME BoundsAssumption == MaxFaults \in Nat /\ MaxEdits \in Nat

VARIABLES
  pc,       \* phase of each invocation: the transaction it waits for, or how it ended
  file,     \* content of the local file each invocation was given
  hashed,   \* content whose SHA-256 the invocation computed
  copied,   \* content and number of rows each invocation streamed into its table
  backend,  \* what the server is doing for each session
  holder,   \* session holding the advisory lock
  catalog,  \* relation and index names of schema pdl, with the table they belong to
  runs,     \* rows of meta.import_runs
  readonly, \* Supabase made new transactions read-only by default
  faults,   \* faults so far
  edits     \* changes made to local files so far

vars == <<pc, file, hashed, copied, backend, holder, catalog, runs, readonly, faults, edits>>

-----------------------------------------------------------------------------
(* Sessions, phases and names *)

Main(i) == <<i, "main">>
Cleanup(i) == <<i, "cleanup">>
Sessions == Imports \X {"main", "cleanup"}
Oids == Imports \cup {Initial}

\* Phases in which the first session is in use; in the last four run_id is assigned.
RecordedPhases == {"copying", "load", "index", "swap"}
MainPhases == {"lock", "scratch", "begin"} \cup RecordedPhases
CleanupPhases == {"flock", "fdrop", "fmark"}
Ended == {"succeeded", "aborted", "failed", "unclean", "killed"}
Phases == {"start", "resolve"} \cup MainPhases \cup CleanupPhases \cup Ended

\* What a client can be waiting for; "copying" is an open transaction fed by jq.
Requests == {"lock", "scratch", "begin", "copying", "load", "index", "swap", "mark"}
BackendStates == Requests \cup {"closed", "ok", "error"}

CurrentIndexes == {"companies_pkey", "companies_website_idx", "companies_linkedin_url_idx"}
NextIndexes ==
  {"companies_next_pkey", "companies_next_website_idx", "companies_next_linkedin_url_idx"}
Names == {"companies", "companies_next", "companies_previous"} \cup CurrentIndexes \cup NextIndexes

NoRun == [status |-> "absent", snapshot |-> None, rows |-> 0]
NoRows == [content |-> None, rows |-> 0]

\* Slip: the failure handler runs inside the `with` block of the first session.
InUseByHandler(s) ==
  pc[s[1]] \in IF s[2] = "main" THEN MainPhases \cup CleanupPhases ELSE CleanupPhases

\* Session s belongs to a client that still waits on it.
InUse(s) == pc[s[1]] \in IF s[2] = "main" THEN MainPhases ELSE CleanupPhases

Fault(kind) == kind \in FaultKinds /\ faults < MaxFaults /\ faults' = faults + 1

-----------------------------------------------------------------------------
(* DDL on the catalog.  Every name is mapped to the table it belongs to, and a *)
(* table takes its indexes along when it is dropped.                           *)

DropIfExists(c, name) ==
  IF c[name] = None THEN c ELSE [n \in Names |-> IF c[n] = c[name] THEN None ELSE c[n]]

\* Slip: the table left staged by a dead import is not dropped.
AfterPreviousDrop(c) == DropIfExists(c, "companies_previous")

\* _cleanup_scratch, and the same two statements in _record_failed_import.
AfterScratchDrop(c) == DropIfExists(DropIfExists(c, "companies_next"), "companies_previous")

\* The primary key and the two indexes need a table and names that are free.
CanIndexNames(c) == c["companies_next"] # None /\ \A n \in NextIndexes : c[n] = None

AfterIndexing(c) ==
  [n \in Names |-> IF n \in NextIndexes THEN c["companies_next"] ELSE c[n]]

\* What _swap_current_table renames: the new name, and the one it is staged under.
StagedName ==
  [companies                  |-> "companies_next",
   companies_pkey             |-> "companies_next_pkey",
   companies_website_idx      |-> "companies_next_website_idx",
   companies_linkedin_url_idx |-> "companies_next_linkedin_url_idx"]

\* Every statement finds its relation and its new name free: the current table is moved
\* to companies_previous and dropped, with its indexes, before their names are reused.
CanSwapNames(c) ==
  /\ c["companies"] # None /\ c["companies_previous"] = None
  /\ \A n \in DOMAIN StagedName : c[StagedName[n]] # None
  /\ \A n \in CurrentIndexes : c[n] \in {None, c["companies"]}

\* Slip: one index keeps its scratch name.
AfterSwapKeepingName(c) ==
  [n \in Names |-> IF n \in {"companies", "companies_pkey", "companies_website_idx"}
                   THEN c[StagedName[n]]
                   ELSE IF n = "companies_next_linkedin_url_idx" THEN c[n] ELSE None]

AfterSwap(c) ==
  [n \in Names |-> IF n \in DOMAIN StagedName THEN c[StagedName[n]] ELSE None]

-----------------------------------------------------------------------------
(* The local file and jq *)

\* Slip: the file is looked up by its size.
MatchesSize(i) ==
  /\ \E c \in Archived : Size[file[i]] = Size[c]
  /\ Wanted[i] \in {AnySnapshot, hashed[i]}

\* The first file of dataset_files that matches SHA-256, size and --snapshot-id.
Matches(i) ==
  /\ hashed[i] \in Archived
  /\ Size[file[i]] = Size[hashed[i]]
  /\ Wanted[i] \in {AnySnapshot, hashed[i]}

\* jq reads the file to its end, or to text that is not JSON, and writes a row for each
\* record it accepts.  It goes on after a refused record, and its status is that of the last
\* record: a refused one before a good one leaves no trace in it.
JqEnds(c, rows, exitZero) ==
  IF c = None THEN rows = 0 /\ ~exitZero
  ELSE IF c \in Rejected THEN rows <= Rows[c] /\ ~exitZero
  ELSE rows = Rows[c] /\ exitZero = (rows > 0)

Streamed(c) == IF c = None THEN {0} ELSE 0 .. Rows[c]

\* Slip: the exit status of jq is not checked.
AcceptedAnyStatus(rows, exitZero) == rows >= 1

Accepted(rows, exitZero) == exitZero /\ rows >= 1

-----------------------------------------------------------------------------
Init ==
  /\ pc = [i \in Imports |-> "start"]
  /\ file \in [Imports -> Contents]
  /\ hashed = [i \in Imports |-> None]
  /\ copied = [i \in Imports |-> NoRows]
  /\ backend = [s \in Sessions |-> "closed"]
  /\ holder = None
  /\ catalog = [n \in Names |-> None]
  /\ runs = [i \in Imports |-> NoRun]
  /\ readonly = FALSE
  /\ faults = 0
  /\ edits = 0

-----------------------------------------------------------------------------
(* The client.  Sending a request starts its transaction: when transactions *)
(* are read-only by default it is refused at once, unless the session was   *)
(* made READ WRITE, as the one of _record_failed_import is.                 *)

\* Slip: the second session is not made READ WRITE.
StartedByDefault(s, request) == IF readonly THEN "error" ELSE request

Started(s, request) == IF readonly /\ s[2] = "main" THEN "error" ELSE request

\* Client i, in phase p on session s, got the reply to its request.
Replied(i, p, s) == pc[i] = p /\ backend[s] = "ok"

Hash(i) ==
  /\ pc[i] = "start"
  /\ IF file[i] = None
     THEN pc' = [pc EXCEPT ![i] = "aborted"] /\ UNCHANGED hashed
     ELSE pc' = [pc EXCEPT ![i] = "resolve"] /\ hashed' = [hashed EXCEPT ![i] = file[i]]
  /\ UNCHANGED <<file, copied, backend, holder, catalog, runs, readonly, faults, edits>>

\* Match the hash and the size stat() gives now, then connect and ask for the lock.
Resolve(i) ==
  /\ pc[i] = "resolve"
  /\ IF file[i] # None /\ Matches(i)
     THEN /\ pc' = [pc EXCEPT ![i] = "lock"]
          /\ backend' = [backend EXCEPT ![Main(i)] = "lock"]
     ELSE pc' = [pc EXCEPT ![i] = "aborted"] /\ UNCHANGED backend
  /\ UNCHANGED <<file, hashed, copied, holder, catalog, runs, readonly, faults, edits>>

\* Slip: the second session does not take the advisory lock.
GiveUpUnlocked(i) ==
  IF pc[i] \in RecordedPhases
  THEN pc' = [pc EXCEPT ![i] = "fdrop"] /\ backend' = [backend EXCEPT ![Cleanup(i)] = "scratch"]
  ELSE pc' = [pc EXCEPT ![i] = "aborted"] /\ UNCHANGED backend

\* The exception handler: only an invocation that knows its run id opens the second
\* session; leaving the `with` block abandons the first one.
GiveUp(i) ==
  IF pc[i] \in RecordedPhases
  THEN pc' = [pc EXCEPT ![i] = "flock"] /\ backend' = [backend EXCEPT ![Cleanup(i)] = "lock"]
  ELSE pc' = [pc EXCEPT ![i] = "aborted"] /\ UNCHANGED backend

\* Send the next request of the first session; it names the phase.
Proceed(i, request) ==
  /\ pc' = [pc EXCEPT ![i] = request]
  /\ backend' = [backend EXCEPT ![Main(i)] = Started(Main(i), request)]

VerifyTarget(i) ==
  /\ Replied(i, "lock", Main(i))
  /\ IF catalog["companies"] # None THEN Proceed(i, "scratch") ELSE GiveUp(i)
  /\ UNCHANGED <<file, hashed, copied, holder, catalog, runs, readonly, faults, edits>>

ScratchDropped(i) ==
  /\ Replied(i, "scratch", Main(i))
  /\ Proceed(i, "begin")
  /\ UNCHANGED <<file, hashed, copied, holder, catalog, runs, readonly, faults, edits>>

RunStarted(i) ==
  /\ Replied(i, "begin", Main(i))
  /\ Proceed(i, "copying")
  /\ UNCHANGED <<file, hashed, copied, holder, catalog, runs, readonly, faults, edits>>

\* jq opens the file again and streams it; the transaction is committed only if its exit
\* status and the number of rows allow it.
StreamJsonl(i) ==
  /\ pc[i] = "copying"
  /\ backend[Main(i)] = "copying"
  /\ \E rows \in Streamed(file[i]), exitZero \in BOOLEAN :
       /\ \/ JqEnds(file[i], rows, exitZero) /\ UNCHANGED faults
          \/ ~exitZero /\ Fault("jq_dies")
       /\ IF Accepted(rows, exitZero)
          THEN /\ copied' = [copied EXCEPT ![i] = [content |-> file[i], rows |-> rows]]
               /\ pc' = [pc EXCEPT ![i] = "load"]
               /\ backend' = [backend EXCEPT ![Main(i)] = "load"]
          ELSE GiveUp(i) /\ UNCHANGED copied
  /\ UNCHANGED <<file, hashed, holder, catalog, runs, readonly, edits>>

Loaded(i) ==
  /\ Replied(i, "load", Main(i))
  /\ Proceed(i, "index")
  /\ UNCHANGED <<file, hashed, copied, holder, catalog, runs, readonly, faults, edits>>

\* The table that is now called companies_next has as many rows as were copied.
CountMatches(i) ==
  /\ catalog["companies_next"] \in Imports
  /\ copied[catalog["companies_next"]].rows = copied[i].rows

Validate(i) ==
  /\ Replied(i, "index", Main(i))
  /\ IF CountMatches(i) THEN Proceed(i, "swap") ELSE GiveUp(i)
  /\ UNCHANGED <<file, hashed, copied, holder, catalog, runs, readonly, faults, edits>>

Swapped(i) ==
  /\ Replied(i, "swap", Main(i))
  /\ pc' = [pc EXCEPT ![i] = "succeeded"]
  /\ UNCHANGED <<file, hashed, copied, backend, holder, catalog, runs, readonly, faults, edits>>

\* The server refused the transaction.
MainRefused(i) ==
  /\ pc[i] \in MainPhases
  /\ backend[Main(i)] = "error"
  /\ GiveUp(i)
  /\ UNCHANGED <<file, hashed, copied, holder, catalog, runs, readonly, faults, edits>>

\* The connection is lost or the operator interrupts, at any point before the end.
MainBroken(i) ==
  /\ pc[i] \in {"resolve"} \cup MainPhases
  /\ Fault("disconnect")
  /\ GiveUp(i)
  /\ UNCHANGED <<file, hashed, copied, holder, catalog, runs, readonly, edits>>

\* _record_failed_import
CleanupLocked(i) ==
  /\ Replied(i, "flock", Cleanup(i))
  /\ pc' = [pc EXCEPT ![i] = "fdrop"]
  /\ backend' = [backend EXCEPT ![Cleanup(i)] = Started(Cleanup(i), "scratch")]
  /\ UNCHANGED <<file, hashed, copied, holder, catalog, runs, readonly, faults, edits>>

CleanupDropped(i) ==
  /\ Replied(i, "fdrop", Cleanup(i))
  /\ pc' = [pc EXCEPT ![i] = "fmark"]
  /\ backend' = [backend EXCEPT ![Cleanup(i)] = Started(Cleanup(i), "mark")]
  /\ UNCHANGED <<file, hashed, copied, holder, catalog, runs, readonly, faults, edits>>

CleanupMarked(i) ==
  /\ Replied(i, "fmark", Cleanup(i))
  /\ pc' = [pc EXCEPT ![i] = "failed"]
  /\ UNCHANGED <<file, hashed, copied, backend, holder, catalog, runs, readonly, faults, edits>>

CleanupRefused(i) ==
  /\ pc[i] \in CleanupPhases
  /\ backend[Cleanup(i)] = "error"
  /\ pc' = [pc EXCEPT ![i] = "unclean"]
  /\ UNCHANGED <<file, hashed, copied, backend, holder, catalog, runs, readonly, faults, edits>>

CleanupBroken(i) ==
  /\ pc[i] \in CleanupPhases
  /\ Fault("cleanup_fails")
  /\ pc' = [pc EXCEPT ![i] = "unclean"]
  /\ UNCHANGED <<file, hashed, copied, backend, holder, catalog, runs, readonly, edits>>

Kill(i) ==
  /\ pc[i] \notin Ended
  /\ Fault("kill")
  /\ pc' = [pc EXCEPT ![i] = "killed"]
  /\ UNCHANGED <<file, hashed, copied, backend, holder, catalog, runs, readonly, edits>>

-----------------------------------------------------------------------------
(* The server: it never looks at the state of the client. *)

Answer(s, reply) == backend' = [backend EXCEPT ![s] = reply]

GrantLock(s) ==
  /\ backend[s] = "lock"
  /\ holder = None
  /\ holder' = s
  /\ Answer(s, "ok")
  /\ UNCHANGED <<pc, file, hashed, copied, catalog, runs, readonly, faults, edits>>

CommitScratchDrop(s) ==
  /\ backend[s] = "scratch"
  /\ catalog' = AfterScratchDrop(catalog)
  /\ Answer(s, "ok")
  /\ UNCHANGED <<pc, file, hashed, copied, holder, runs, readonly, faults, edits>>

Finished(run, status, rows) == [status |-> status, snapshot |-> run.snapshot, rows |-> rows]

\* Slips: nothing is superseded; everything is.
NotSuperseded(run) == run
AllSuperseded(run) == IF run.status = "absent" THEN run ELSE Finished(run, "failed", run.rows)

\* _start_import_run: what is still running is superseded, then the new row is inserted.
Superseded(run) == IF run.status = "running" THEN Finished(run, "failed", run.rows) ELSE run

CommitBegin(i) ==
  /\ backend[Main(i)] = "begin"
  /\ runs' = [j \in Imports |->
                IF j = i THEN [status |-> "running", snapshot |-> hashed[i], rows |-> 0]
                ELSE Superseded(runs[j])]
  /\ Answer(Main(i), "ok")
  /\ UNCHANGED <<pc, file, hashed, copied, holder, catalog, readonly, faults, edits>>

CanLoad == catalog["companies_next"] = None

CommitLoad(i) ==
  /\ backend[Main(i)] = "load"
  /\ CanLoad
  /\ catalog' = [catalog EXCEPT !["companies_next"] = i]
  /\ Answer(Main(i), "ok")
  /\ UNCHANGED <<pc, file, hashed, copied, holder, runs, readonly, faults, edits>>

CanIndex ==
  /\ CanIndexNames(catalog)
  /\ catalog["companies_next"] \in Imports
  /\ copied[catalog["companies_next"]].content \notin Duplicated

CommitIndex(i) ==
  /\ backend[Main(i)] = "index"
  /\ CanIndex
  /\ catalog' = AfterIndexing(catalog)
  /\ Answer(Main(i), "ok")
  /\ UNCHANGED <<pc, file, hashed, copied, holder, runs, readonly, faults, edits>>

CanSwap(i) == CanSwapNames(catalog) /\ runs[i].status = "running"

\* _swap_current_table: the new names and the row of the run, in one transaction.
CommitSwap(i) ==
  /\ backend[Main(i)] = "swap"
  /\ CanSwap(i)
  /\ catalog' = AfterSwap(catalog)
  /\ runs' = [runs EXCEPT ![i] = Finished(runs[i], "succeeded", copied[i].rows)]
  /\ Answer(Main(i), "ok")
  /\ UNCHANGED <<pc, file, hashed, copied, holder, readonly, faults, edits>>

\* Slips: the row is marked whatever its status; with a status the table does not know.
MarkedAlways(run) == Finished(run, "failed", run.rows)
MarkedError(run) == Finished(run, "error", run.rows)

MarkedFailed(run) == IF run.status = "running" THEN Finished(run, "failed", run.rows) ELSE run

CommitMark(i) ==
  /\ backend[Cleanup(i)] = "mark"
  /\ runs' = [runs EXCEPT ![i] = MarkedFailed(runs[i])]
  /\ Answer(Cleanup(i), "ok")
  /\ UNCHANGED <<pc, file, hashed, copied, holder, catalog, readonly, faults, edits>>

\* The statements of a transaction cannot be executed, whatever the environment does.
Unexecutable(s) ==
  \/ backend[s] \in {"copying", "load"} /\ ~CanLoad
  \/ backend[s] = "index" /\ ~CanIndex
  \/ backend[s] = "swap" /\ ~CanSwap(s[1])

Refuse(s) ==
  /\ backend[s] \in Requests
  /\ Unexecutable(s)
  /\ Answer(s, "error")
  /\ UNCHANGED <<pc, file, hashed, copied, holder, catalog, runs, readonly, faults, edits>>

\* lock_timeout, a full disk, a cancelled statement, a value COPY refuses, ...
RefuseByFault(s) ==
  /\ backend[s] \in Requests
  /\ Fault(IF s[2] = "main" THEN "refuse" ELSE "cleanup_fails")
  /\ Answer(s, "error")
  /\ UNCHANGED <<pc, file, hashed, copied, holder, catalog, runs, readonly, edits>>

\* The server notices that the client is gone; what is not committed is rolled back.
EndSession(s) ==
  /\ backend[s] # "closed"
  /\ ~InUse(s)
  /\ Answer(s, "closed")
  /\ holder' = IF holder = s THEN None ELSE holder
  /\ UNCHANGED <<pc, file, hashed, copied, catalog, runs, readonly, faults, edits>>

-----------------------------------------------------------------------------
(* The environment *)

\* `datatown migrate` applies 002_pdl.sql.
Migrate ==
  /\ catalog["companies"] = None
  /\ catalog' = [n \in Names |-> IF n \in {"companies"} \cup CurrentIndexes
                                 THEN Initial ELSE catalog[n]]
  /\ UNCHANGED <<pc, file, hashed, copied, backend, holder, runs, readonly, faults, edits>>

EditFile(i) ==
  /\ edits < MaxEdits
  /\ \E c \in (Contents \cup {None}) \ {file[i]} : file' = [file EXCEPT ![i] = c]
  /\ edits' = edits + 1
  /\ UNCHANGED <<pc, hashed, copied, backend, holder, catalog, runs, readonly, faults>>

DiskFull ==
  /\ ~readonly
  /\ Fault("disk_full")
  /\ readonly' = TRUE
  /\ UNCHANGED <<pc, file, hashed, copied, backend, holder, catalog, runs, edits>>

DiskRecovered ==
  /\ readonly
  /\ readonly' = FALSE
  /\ UNCHANGED <<pc, file, hashed, copied, backend, holder, catalog, runs, faults, edits>>

\* Every invocation has ended and the server has closed every session.
Quiescent ==
  /\ \A i \in Imports : pc[i] \in Ended
  /\ \A s \in Sessions : backend[s] = "closed"
  /\ UNCHANGED vars

-----------------------------------------------------------------------------
ClientStep(i) ==
  \/ Hash(i) \/ Resolve(i)
  \/ VerifyTarget(i) \/ ScratchDropped(i) \/ RunStarted(i) \/ StreamJsonl(i)
  \/ Loaded(i) \/ Validate(i) \/ Swapped(i) \/ MainRefused(i)
  \/ CleanupLocked(i) \/ CleanupDropped(i) \/ CleanupMarked(i) \/ CleanupRefused(i)

ClientFault(i) == MainBroken(i) \/ CleanupBroken(i) \/ Kill(i)

Commit(i) == CommitBegin(i) \/ CommitLoad(i) \/ CommitIndex(i) \/ CommitSwap(i) \/ CommitMark(i)

SessionStep(s) == GrantLock(s) \/ CommitScratchDrop(s) \/ Refuse(s) \/ EndSession(s)

Next ==
  \/ \E i \in Imports : ClientStep(i) \/ ClientFault(i) \/ Commit(i) \/ EditFile(i)
  \/ \E s \in Sessions : SessionStep(s) \/ RefuseByFault(s)
  \/ Migrate \/ DiskFull \/ DiskRecovered
  \/ Quiescent

Spec == Init /\ [][Next]_vars

\* Clients run, jq ends, the server works on every session, and the queue of the
\* advisory lock is served; faults and the environment are not scheduled.
Fairness ==
  /\ \A i \in Imports : WF_vars(ClientStep(i)) /\ WF_vars(Commit(i))
  /\ \A s \in Sessions : WF_vars(SessionStep(s))

FairSpec == Spec /\ Fairness
-----------------------------------------------------------------------------
(* Properties *)

Run == [status : {"absent", "running", "succeeded", "failed"},
        snapshot : Contents \cup {None}, rows : Nat]

\* Every variable has its type.
TypeOK ==
  /\ pc \in [Imports -> Phases]
  /\ file \in [Imports -> Contents \cup {None}]
  /\ hashed \in [Imports -> Contents \cup {None}]
  /\ copied \in [Imports -> [content : Contents \cup {None}, rows : Nat]]
  /\ backend \in [Sessions -> BackendStates]
  /\ holder \in Sessions \cup {None}
  /\ catalog \in [Names -> Oids \cup {None}]
  /\ runs \in [Imports -> Run]
  /\ readonly \in BOOLEAN
  /\ faults \in 0 .. MaxFaults
  /\ edits \in 0 .. MaxEdits

\* _start_import_run supersedes what it finds running: whatever died before, at most one
\* row of meta.import_runs is running.
AtMostOneRunning ==
  \A i, j \in Imports : runs[i].status = "running" /\ runs[j].status = "running" => i = j

Current(i) == catalog["companies"] = i

\* The run that installed pdl.companies is recorded as succeeded, with the number of rows
\* of that table, also when the client never got the reply to its COMMIT, its cleanup
\* session then tried to mark the run failed, and later runs began and died.
LedgerDescribesTable ==
  \A i \in Imports : Current(i) =>
    runs[i].status = "succeeded" /\ runs[i].rows = copied[i].rows

Installable ==
  {c \in Contents : Rows[c] >= 1 /\ c \notin Rejected /\ c \notin Duplicated}

\* pdl.companies holds every record the filter accepts of one file, never a part of them:
\* not of a file jq could not read to its end, was killed over or ended with a refused record
\* of, nor one with repeated ids, although COPY has streamed such rows into a scratch table.
\* A refused record before the last may be missing: see RefusedRecordsFail.
CompleteTable ==
  \A i \in Imports : Current(i) =>
    copied[i].content \in Installable /\ copied[i].rows = Rows[copied[i].content]

\* The current table has its primary key and indexes under the canonical names, scratch
\* names belong to the staged table only, and nothing is left under companies_previous: the
\* swap can be repeated for ever.
CanonicalCatalog ==
  /\ \A n \in CurrentIndexes : catalog[n] = catalog["companies"]
  /\ \A n \in NextIndexes : catalog[n] \in {None, catalog["companies_next"]}
  /\ catalog["companies_previous"] = None
  /\ catalog["companies_next"] # None => catalog["companies_next"] # catalog["companies"]

\* When _record_failed_import has returned, the run is not running and its table is not
\* staged, and neither comes back: no COMMIT still in flight on the abandoned session can
\* follow the cleanup, which the advisory lock orders after it.
FailedMeansClean ==
  \A i \in Imports : pc[i] = "failed" =>
    /\ runs[i].status \in {"failed", "succeeded"}
    /\ catalog["companies_next"] # i

\* If nobody changes local files, a table is current only under the archived snapshot its
\* rows were read from, and the one that was asked for.
ProvenanceOfUntouchedFiles ==
  \A i \in Imports : Current(i) /\ edits = 0 =>
    /\ copied[i].content = runs[i].snapshot
    /\ runs[i].snapshot \in Archived
    /\ Wanted[i] \in {AnySnapshot, runs[i].snapshot}

FinishedRunsKept ==
  \A i \in Imports : runs[i].status \in {"succeeded", "failed"} => runs'[i] = runs[i]

\* No step touches a run that has finished: the failure handler of an invocation whose
\* swap was committed without a reply must leave the row alone.
FinishedRunsAreFinal == [][FinishedRunsKept]_vars

StagedTableKept ==
  \A i \in Imports :
    /\ catalog["companies_next"] = i /\ pc[i] \in {"load", "index", "swap"}
    /\ catalog'["companies_next"] # i
    => catalog'["companies"] = i

\* While an import is using the table it staged, nobody else drops or replaces it: not the
\* scratch cleanup of another import, not the failure handler of one that has died.
StagingProtected == [][StagedTableKept]_vars

\* What a reader sees: the table called pdl.companies, and the ledger.
CurrentTable ==
  [run |-> catalog["companies"],
   content |-> IF catalog["companies"] \in Imports
               THEN copied[catalog["companies"]].content ELSE None]

Ledger == [i \in Imports |-> [status |-> runs[i].status, rows |-> runs[i].rows]]

Abstract == INSTANCE TableReplacement WITH table <- CurrentTable, ledger <- Ledger

\* The importer implements the abstract replacement of a table: readers of pdl.companies and
\* of meta.import_runs see both change together, from one complete table to the next.
ImplementsTableReplacement == Abstract!Spec

\* Every invocation ends and gives the advisory lock back, whatever fails: the failure
\* handler does not wait for a lock its own first session keeps.
EveryInvocationEnds ==
  <>[](holder = None /\ \A i \in Imports : pc[i] \in Ended)

\* An attempt that fails once its run is recorded ends recorded and without scratch table,
\* even when the disk is full and new transactions are read-only by default.  Stated of the
\* failure handler whose session waits for the lock, when no fault is left to cut it off (the
\* statement timeout of that wait is one of the faults).
FailureIsRecorded ==
  \A i \in Imports :
    pc[i] = "flock" /\ backend[Cleanup(i)] = "lock" /\ faults = MaxFaults ~> pc[i] = "failed"

\* No fault is left to come and nobody changes the files any more.
Calm == faults = MaxFaults /\ edits = MaxEdits /\ ~readonly

\* What earlier attempts left behind (a scratch table, indexes, a running row, a session
\* that still commits) never stops a later one: a fresh attempt with a good file succeeds.
RetrySucceeds ==
  \A i \in Imports :
    /\ pc[i] = "start" /\ Calm /\ catalog["companies"] # None
    /\ file[i] \in Archived \cap Installable /\ Wanted[i] \in {AnySnapshot, file[i]}
    ~> pc[i] = "succeeded"

\* README.md:162-164: an added, removed, or incorrectly typed field fails the import visibly
\* instead of being discarded.  Stated of the table an import has installed.
RefusedRecordsFail ==
  \A i \in Imports : Current(i) => copied[i].content \notin Malformed

\* docs/metadata.md:39-41: a database failure or an interruption records `failed`.  Stated of
\* an invocation that was not killed and has nothing in flight any more.
EndedAttemptIsRecorded ==
  \A i \in Imports :
    pc[i] = "aborted" /\ backend[Main(i)] = "closed" => runs[i].status # "running"
=============================================================================
