----------------------------- MODULE PdlImportInv -----------------------------
(***************************************************************************)
(* The inductive invariant behind the safety properties of PdlImport.  Its *)
(* core is the lock discipline: a session that can still change the        *)
(* database, even one whose client is gone, is the lock holder; from it    *)
(* follows that the table an index, swap or drop finds by name is the one  *)
(* its own invocation staged.                                              *)
(***************************************************************************)
EXTENDS PdlImport

\* States in which the server may still commit for the session, or has just done so.
Busy == (Requests \ {"lock"}) \cup {"ok"}

\* Phases an invocation can be in once it has sent the commit of its load, or its swap.
FromLoad == {"load", "index", "swap"} \cup CleanupPhases \cup (Ended \ {"aborted"})
FromSwap == FromLoad \ {"load", "index"}

LockDiscipline ==
  /\ \A s \in Sessions : backend[s] \in Busy => holder = s
  /\ \A i \in Imports : pc[i] \in MainPhases \ {"lock"} => holder = Main(i)

\* What the two sessions of an invocation can be doing in each of its phases.
PhasesOf(i) ==
  /\ pc[i] \in {"start", "resolve"} => backend[Main(i)] = "closed"
  /\ pc[i] \in MainPhases => backend[Main(i)] \in {pc[i], "ok", "error"}
  /\ pc[i] = "copying" => backend[Main(i)] # "ok"
  /\ pc[i] = "flock" => backend[Cleanup(i)] \in {"lock", "ok", "error"}
  /\ pc[i] = "fdrop" => backend[Cleanup(i)] \in {"scratch", "ok", "error"}
  /\ pc[i] = "fmark" => backend[Cleanup(i)] \in {"mark", "ok", "error"}
  /\ pc[i] \notin CleanupPhases \cup Ended => backend[Cleanup(i)] = "closed"
  /\ backend[Main(i)] \in {"load", "index", "swap"} => pc[i] \in FromLoad
  /\ backend[Main(i)] = "swap" => pc[i] \in FromSwap
  /\ pc[i] \in CleanupPhases \cup {"failed"} => backend[Main(i)] # "lock"
  /\ pc[i] \in {"fdrop", "fmark", "failed"} => backend[Main(i)] \in {"error", "closed"}

PhasesAgree == \A i \in Imports : PhasesOf(i)

\* The staged table is the one of the invocation that goes on to index it and swap it.
StagedBy(i) ==
  /\ backend[Main(i)] \in {"index", "swap"} => catalog["companies_next"] = i
  /\ pc[i] \in {"load", "index"} /\ backend[Main(i)] = "ok" => catalog["companies_next"] = i
  /\ catalog["companies_next"] = i =>
       /\ pc[i] \in FromLoad
       /\ backend[Main(i)] \in {"ok", "index", "swap", "error", "closed"}
  /\ \/ pc[i] = "fdrop" /\ backend[Cleanup(i)] = "ok"
     \/ pc[i] \in {"fmark", "failed"}
     => catalog["companies_next"] # i

StagedIsMine == catalog["companies_next"] # Initial /\ \A i \in Imports : StagedBy(i)

\* What was copied is all that the filter accepts of a file; a primary key exists over distinct ids only.
CopiedBy(i) ==
  /\ copied[i].content # None =>
       /\ copied[i].content \notin Rejected
       /\ copied[i].rows = Rows[copied[i].content] /\ copied[i].rows >= 1
  /\ \/ backend[Main(i)] \in {"load", "index", "swap"}
     \/ i \in {catalog["companies_next"], catalog["companies"]}
     => copied[i].content # None
  /\ i \in {catalog["companies_next_pkey"], catalog["companies_pkey"]}
     => copied[i].content \notin Duplicated

CopiedWhole == \A i \in Imports : CopiedBy(i)

\* The row of a run against the progress of its invocation.
RunOf(i) ==
  /\ runs[i].status # "absent" =>
       /\ pc[i] \notin {"start", "resolve", "lock", "scratch"}
       /\ backend[Main(i)] \notin {"lock", "scratch", "begin"}
  /\ \/ pc[i] = "begin" /\ backend[Main(i)] = "ok"
     \/ pc[i] \in RecordedPhases \cup CleanupPhases \cup {"failed"}
     => runs[i].status # "absent"
  /\ runs[i].status = "absent" => runs[i].rows = 0
  /\ runs[i].status = "succeeded" =>
       pc[i] \in FromSwap /\ backend[Main(i)] \in {"ok", "closed"}
  /\ \/ pc[i] = "fmark" /\ backend[Cleanup(i)] = "ok"
     \/ pc[i] = "failed"
     => runs[i].status # "running"

RunsAgree == \A i \in Imports : RunOf(i)

Selected(i) == hashed[i] \in Archived /\ Wanted[i] \in {AnySnapshot, hashed[i]}

\* Where the snapshot of a run comes from.
SnapshotOf(i) ==
  /\ backend[Main(i)] # "closed" => Selected(i)
  /\ runs[i].status # "absent" => runs[i].snapshot = hashed[i] /\ Selected(i)
  /\ edits = 0 => hashed[i] \in {None, file[i]} /\ copied[i].content \in {None, file[i]}

SnapshotsAgree == \A i \in Imports : SnapshotOf(i)

\* The inductive invariant.
IInv ==
  /\ TypeOK
  /\ LockDiscipline
  /\ PhasesAgree
  /\ StagedIsMine
  /\ CopiedWhole
  /\ CanonicalCatalog
  /\ RunsAgree
  /\ AtMostOneRunning
  /\ LedgerDescribesTable
  /\ SnapshotsAgree
=============================================================================
