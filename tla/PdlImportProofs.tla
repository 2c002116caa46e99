--------------------------- MODULE PdlImportProofs ---------------------------
(***************************************************************************)
(* Proofs about PdlImport, for every set of invocations and of contents    *)
(* and whatever the bounds on faults and edits.                            *)
(***************************************************************************)
EXTENDS PdlImportInv, TLAPS

\* The two sessions of an invocation, apart from each other and from None.
LEMMA SessionFacts ==
  /\ \A i \in Imports : Main(i) \in Sessions /\ Cleanup(i) \in Sessions
  /\ \A i, j \in Imports : Main(i) # Cleanup(j) /\ (Main(i) = Main(j) => i = j)
                           /\ (Cleanup(i) = Cleanup(j) => i = j)
  /\ \A s \in Sessions : \E i \in Imports :
       s[1] = i /\ ((s = Main(i) /\ s[2] = "main") \/ (s = Cleanup(i) /\ s[2] = "cleanup"))
  /\ None \notin Sessions /\ None \notin Imports /\ Initial \notin Imports
  /\ None # Initial /\ None \notin Contents
BY ImportsAssumption, NoneAssumption DEF Main, Cleanup, Sessions

\* What starting a request, dropping and swapping yield.
LEMMA FaultType ==
  ASSUME faults \in 0 .. MaxFaults, NEW kind, Fault(kind)
  PROVE  faults' \in 0 .. MaxFaults
BY BoundsAssumption DEF Fault

LEMMA StartedType ==
  \A s, request : request \in Requests => Started(s, request) \in {request, "error"}
BY DEF Started

LEMMA DropIfExistsType ==
  ASSUME NEW c \in [Names -> Oids \cup {None}], NEW name \in Names
  PROVE  DropIfExists(c, name) \in [Names -> Oids \cup {None}]
BY DEF DropIfExists

LEMMA ScratchDropType ==
  ASSUME NEW c \in [Names -> Oids \cup {None}]
  PROVE  AfterScratchDrop(c) \in [Names -> Oids \cup {None}]
<1>1. "companies_next" \in Names /\ "companies_previous" \in Names BY DEF Names
<1> QED BY <1>1, DropIfExistsType DEF AfterScratchDrop

LEMMA StagedNames ==
  /\ DOMAIN StagedName = {"companies"} \cup CurrentIndexes
  /\ StagedName["companies"] = "companies_next"
  /\ StagedName["companies_pkey"] = "companies_next_pkey"
  /\ StagedName["companies_website_idx"] = "companies_next_website_idx"
  /\ StagedName["companies_linkedin_url_idx"] = "companies_next_linkedin_url_idx"
BY DEF CurrentIndexes, StagedName

LEMMA SwapType ==
  ASSUME NEW c \in [Names -> Oids \cup {None}]
  PROVE  AfterSwap(c) \in [Names -> Oids \cup {None}]
BY StagedNames DEF AfterSwap, Names, CurrentIndexes, NextIndexes

\* Without a table under companies_previous, dropping the scratch tables is dropping the
\* staged one, with the indexes that belong to it.
LEMMA ScratchDropSpec ==
  ASSUME NEW c \in [Names -> Oids \cup {None}], c["companies_previous"] = None
  PROVE  AfterScratchDrop(c) =
           [n \in Names |-> IF c[n] = c["companies_next"] THEN None ELSE c[n]]
<1> DEFINE d == DropIfExists(c, "companies_next")
<1>1. "companies_next" \in Names /\ "companies_previous" \in Names BY DEF Names
<1>2. d = [n \in Names |-> IF c[n] = c["companies_next"] THEN None ELSE c[n]]
  BY <1>1 DEF DropIfExists
<1>3. d["companies_previous"] = None BY <1>1, <1>2
<1> QED BY <1>2, <1>3 DEF AfterScratchDrop, DropIfExists

\* Name by name, what the swap leaves in the catalog.
LEMMA SwapSpec ==
  ASSUME NEW c \in [Names -> Oids \cup {None}]
  PROVE  /\ AfterSwap(c)["companies"] = c["companies_next"]
         /\ AfterSwap(c)["companies_pkey"] = c["companies_next_pkey"]
         /\ AfterSwap(c)["companies_website_idx"] = c["companies_next_website_idx"]
         /\ AfterSwap(c)["companies_linkedin_url_idx"] = c["companies_next_linkedin_url_idx"]
         /\ \A n \in NextIndexes \cup {"companies_next", "companies_previous"} :
              AfterSwap(c)[n] = None
BY StagedNames DEF AfterSwap, Names, CurrentIndexes, NextIndexes

\* Every variable keeps its type.
LEMMA TypeStep == TypeOK /\ [Next]_vars => TypeOK'
<1> SUFFICES ASSUME TypeOK, [Next]_vars PROVE TypeOK' OBVIOUS
<1> USE BoundsAssumption, ContentsAssumption DEF TypeOK
<1>1. ASSUME NEW i \in Imports, ClientStep(i) PROVE TypeOK'
  <2>1. CASE Hash(i) BY <2>1 DEF Hash, Phases, Ended
  <2>2. CASE Resolve(i) BY <2>2 DEF Resolve, Phases, Ended, MainPhases, BackendStates, Requests
  <2>3. ASSUME GiveUp(i)
        PROVE  pc' \in [Imports -> Phases] /\ backend' \in [Sessions -> BackendStates]
    BY <2>3 DEF GiveUp, Phases, Ended, CleanupPhases, BackendStates, Requests
  <2>4. ASSUME NEW r \in Requests \cap Phases, Proceed(i, r)
        PROVE  pc' \in [Imports -> Phases] /\ backend' \in [Sessions -> BackendStates]
    BY <2>4, StartedType DEF Proceed, BackendStates
  <2>5. {"scratch", "begin", "copying", "index", "swap"} \subseteq Requests \cap Phases
    BY DEF Requests, Phases, MainPhases, RecordedPhases
  <2>6. CASE VerifyTarget(i) BY <2>6, <2>3, <2>4, <2>5 DEF VerifyTarget
  <2>7. CASE ScratchDropped(i) BY <2>7, <2>4, <2>5 DEF ScratchDropped
  <2>8. CASE RunStarted(i) BY <2>8, <2>4, <2>5 DEF RunStarted
  <2>9. CASE StreamJsonl(i)
    <3>1. PICK rows \in Streamed(file[i]), exitZero \in BOOLEAN :
            /\ UNCHANGED faults \/ Fault("jq_dies")
            /\ IF Accepted(rows, exitZero)
               THEN /\ copied' = [copied EXCEPT ![i] = [content |-> file[i], rows |-> rows]]
                    /\ pc' = [pc EXCEPT ![i] = "load"]
                    /\ backend' = [backend EXCEPT ![Main(i)] = "load"]
               ELSE GiveUp(i) /\ UNCHANGED copied
      BY <2>9 DEF StreamJsonl
    <3>2. rows \in Nat BY DEF Streamed
    <3>3. faults' \in 0 .. MaxFaults BY <3>1, FaultType
    <3>4. /\ pc' \in [Imports -> Phases] /\ backend' \in [Sessions -> BackendStates]
          /\ copied' \in [Imports -> [content : Contents \cup {None}, rows : Nat]]
      <4>1. "load" \in Phases /\ "load" \in BackendStates
        BY DEF Phases, MainPhases, RecordedPhases, BackendStates, Requests
      <4>2. CASE Accepted(rows, exitZero)
        <5>1. [content |-> file[i], rows |-> rows] \in [content : Contents \cup {None}, rows : Nat]
          BY <3>2
        <5>2. copied' \in [Imports -> [content : Contents \cup {None}, rows : Nat]]
          BY <4>2, <5>1, <3>1
        <5>3. pc' \in [Imports -> Phases] /\ backend' \in [Sessions -> BackendStates]
          <6>1. pc' = [pc EXCEPT ![i] = "load"] /\ backend' = [backend EXCEPT ![Main(i)] = "load"]
            BY <4>2, <3>1
          <6> QED BY <4>1, <6>1
        <5> QED BY <5>2, <5>3
      <4>3. CASE ~Accepted(rows, exitZero) BY <4>3, <3>1, <2>3
      <4> QED BY <4>2, <4>3
    <3> QED BY <3>3, <3>4, <2>9 DEF StreamJsonl
  <2>10. CASE Loaded(i) BY <2>10, <2>4, <2>5 DEF Loaded
  <2>11. CASE Validate(i) BY <2>11, <2>3, <2>4, <2>5 DEF Validate
  <2>12. CASE Swapped(i) BY <2>12 DEF Swapped, Phases, Ended
  <2>13. CASE MainRefused(i) BY <2>13, <2>3 DEF MainRefused
  <2>14. CASE CleanupLocked(i) \/ CleanupDropped(i)
    BY <2>14, StartedType
    DEF CleanupLocked, CleanupDropped, Phases, CleanupPhases, BackendStates, Requests
  <2>15. CASE CleanupMarked(i) \/ CleanupRefused(i)
    BY <2>15 DEF CleanupMarked, CleanupRefused, Phases, Ended
  <2> QED BY <1>1, <2>1, <2>2, <2>6, <2>7, <2>8, <2>9, <2>10, <2>11, <2>12, <2>13, <2>14, <2>15
          DEF ClientStep
<1>2. ASSUME NEW i \in Imports, ClientFault(i) PROVE TypeOK'
  <2>3. ASSUME GiveUp(i)
        PROVE  pc' \in [Imports -> Phases] /\ backend' \in [Sessions -> BackendStates]
    BY <2>3 DEF GiveUp, Phases, Ended, CleanupPhases, BackendStates, Requests
  <2>1. CASE MainBroken(i)
    BY <2>1, <2>3, FaultType DEF MainBroken
  <2>2. CASE CleanupBroken(i) \/ Kill(i)
    BY <2>2, FaultType DEF CleanupBroken, Kill, Phases, Ended
  <2> QED BY <1>2, <2>1, <2>2 DEF ClientFault
<1>3. ASSUME NEW i \in Imports, Commit(i) PROVE TypeOK'
  <2>1. {"ok"} \subseteq BackendStates BY DEF BackendStates
  <2>2. CASE CommitBegin(i) BY <2>1, <2>2 DEF CommitBegin, Answer, Superseded, Finished, Run
  <2>3. CASE CommitLoad(i) BY <2>1, <2>3 DEF CommitLoad, Answer, Oids
  <2>4. CASE CommitIndex(i) BY <2>1, <2>4 DEF CommitIndex, Answer, AfterIndexing, Names
  <2>5. CASE CommitSwap(i)
    <3>1. catalog' \in [Names -> Oids \cup {None}] BY <2>5, SwapType DEF CommitSwap
    <3>2. runs' \in [Imports -> Run] BY <2>5 DEF CommitSwap, Finished, Run
    <3> QED BY <2>1, <2>5, <3>1, <3>2 DEF CommitSwap, Answer
  <2>6. CASE CommitMark(i) BY <2>1, <2>6 DEF CommitMark, Answer, MarkedFailed, Finished, Run
  <2> QED BY <1>3, <2>2, <2>3, <2>4, <2>5, <2>6 DEF Commit
<1>4. ASSUME NEW s \in Sessions, SessionStep(s) \/ RefuseByFault(s) PROVE TypeOK'
  <2>1. {"ok", "error", "closed"} \subseteq BackendStates BY DEF BackendStates
  <2>2. CASE GrantLock(s) BY <2>1, <2>2 DEF GrantLock, Answer
  <2>3. CASE CommitScratchDrop(s) BY <2>1, <2>3, ScratchDropType DEF CommitScratchDrop, Answer
  <2>4. CASE Refuse(s) BY <2>1, <2>4 DEF Refuse, Answer
  <2>5. CASE RefuseByFault(s) BY <2>1, <2>5, FaultType DEF RefuseByFault, Answer
  <2>6. CASE EndSession(s) BY <2>1, <2>6 DEF EndSession, Answer
  <2> QED BY <1>4, <2>2, <2>3, <2>4, <2>5, <2>6 DEF SessionStep
<1>5. ASSUME NEW i \in Imports, EditFile(i) PROVE TypeOK'
  BY <1>5 DEF EditFile
<1>6. CASE Migrate BY <1>6 DEF Migrate, Oids
<1>7. CASE DiskFull \/ DiskRecovered BY <1>7, FaultType DEF DiskFull, DiskRecovered
<1>8. CASE UNCHANGED vars BY <1>8 DEF vars
<1>9. CASE Quiescent BY <1>8, <1>9 DEF Quiescent
<1> HIDE DEF TypeOK
<1> QED BY <1>1, <1>2, <1>3, <1>4, <1>5, <1>6, <1>7, <1>8, <1>9 DEF Next

LEMMA TypeInit == Init => TypeOK
<1> SUFFICES ASSUME Init PROVE TypeOK OBVIOUS
<1>1. "start" \in Phases /\ "closed" \in BackendStates BY DEF Phases, BackendStates
<1>2. /\ NoRows \in [content : Contents \cup {None}, rows : Nat]
      /\ NoRun \in Run
  BY DEF NoRows, NoRun, Run
<1>3. faults \in 0 .. MaxFaults /\ edits \in 0 .. MaxEdits BY BoundsAssumption DEF Init
<1> QED BY <1>1, <1>2, <1>3 DEF Init, TypeOK

\* Type correctness of the importer.
THEOREM TypeCorrect == Spec => []TypeOK
<1>1. Init => TypeOK BY TypeInit
<1>2. TypeOK /\ [Next]_vars => TypeOK' BY TypeStep
<1> QED BY <1>1, <1>2, PTL DEF Spec

-----------------------------------------------------------------------------
(* The inductive invariant, one lemma for each kind of step *)

\* An invocation that found its snapshot asks for the advisory lock.
LEMMA ResolveStep ==
  ASSUME IInv, TypeOK', NEW i \in Imports, Resolve(i)
  PROVE  IInv'
<1> USE DEF IInv, TypeOK
<1>1. LockDiscipline'
  <2>1. ASSUME NEW t \in Sessions, backend'[t] \in Busy PROVE holder' = t
    <3>1. backend' = backend \/ backend' = [backend EXCEPT ![Main(i)] = "lock"] BY DEF Resolve
    <3>2. backend'[t] = backend[t] BY <2>1, <3>1, SessionFacts DEF Busy
    <3> QED BY <2>1, <3>2 DEF Resolve, LockDiscipline
  <2>2. ASSUME NEW j \in Imports, pc'[j] \in MainPhases \ {"lock"} PROVE holder' = Main(j)
    BY <2>2 DEF Resolve, LockDiscipline, MainPhases, RecordedPhases
  <2> QED BY <2>1, <2>2 DEF LockDiscipline
<1>2. PhasesAgree'
  BY SessionFacts DEF PhasesAgree, Resolve, PhasesOf, MainPhases, RecordedPhases,
     CleanupPhases, Ended
<1>3. StagedIsMine'
  <2>1. backend[Main(i)] = "closed" /\ pc[i] = "resolve" BY DEF Resolve, PhasesAgree, PhasesOf
  <2>2. catalog["companies_next"] # i
    BY <2>1 DEF StagedIsMine, StagedBy, FromLoad, CleanupPhases, Ended
  <2>3. ASSUME NEW j \in Imports PROVE StagedBy(j)'
    <3>1. CASE j = i
      <4>1. pc'[i] \in {"lock", "aborted"} /\ backend'[Main(i)] \in {"lock", "closed"}
        BY <2>1, SessionFacts DEF Resolve
      <4> QED BY <2>2, <3>1, <4>1 DEF Resolve, StagedBy
    <3>2. CASE j # i BY <3>2, SessionFacts DEF Resolve, StagedIsMine, StagedBy
    <3> QED BY <3>1, <3>2
  <2> QED BY <2>3 DEF Resolve, StagedIsMine
<1>4. CopiedWhole' BY SessionFacts, ContentsAssumption DEF CopiedWhole, Resolve, CopiedBy
<1>5. CanonicalCatalog' BY DEF CanonicalCatalog, Resolve
<1>6. RunsAgree' BY SessionFacts DEF RunsAgree, Resolve, RunOf, RecordedPhases, CleanupPhases
<1>7. AtMostOneRunning' BY DEF AtMostOneRunning, Resolve
<1>8. LedgerDescribesTable' BY DEF LedgerDescribesTable, Resolve, Current
<1>9. SnapshotsAgree' BY SessionFacts DEF SnapshotsAgree, Resolve, Matches, SnapshotOf, Selected
<1> QED BY <1>1, <1>2, <1>3, <1>4, <1>5, <1>6, <1>7, <1>8, <1>9

\* A request of the first session follows the reply to the one before.
LEMMA ProceedStep ==
  ASSUME IInv, TypeOK', NEW i \in Imports, backend[Main(i)] = "ok",
         NEW r, <<pc[i], r>> \in {<<"lock", "scratch">>, <<"scratch", "begin">>, <<"begin", "copying">>,
                                 <<"load", "index">>, <<"index", "swap">>},
         Proceed(i, r), UNCHANGED <<file, hashed, copied, holder, catalog, runs, edits>>
  PROVE  IInv'
<1> USE DEF IInv, TypeOK
<1>1. LockDiscipline' BY SessionFacts DEF LockDiscipline, Proceed, Started, Busy, Requests
<1>2. PhasesAgree'
  BY SessionFacts DEF PhasesAgree, Proceed, Started, PhasesOf, MainPhases, RecordedPhases,
     CleanupPhases, Ended, FromLoad, FromSwap
<1>3. StagedIsMine'
  BY SessionFacts DEF StagedIsMine, Proceed, Started, StagedBy, PhasesAgree, PhasesOf,
     FromLoad, CleanupPhases, Ended
<1>4. CopiedWhole'
  BY SessionFacts, ContentsAssumption DEF CopiedWhole, Proceed, Started, CopiedBy,
     StagedIsMine, StagedBy
<1>5. CanonicalCatalog' BY DEF CanonicalCatalog, Proceed
<1>6. RunsAgree'
  BY SessionFacts DEF RunsAgree, Proceed, Started, RunOf, RecordedPhases, CleanupPhases,
     MainPhases, Ended, FromLoad, FromSwap
<1>7. AtMostOneRunning' BY DEF AtMostOneRunning, Proceed
<1>8. LedgerDescribesTable' BY DEF LedgerDescribesTable, Proceed, Current
<1>9. SnapshotsAgree' BY DEF SnapshotsAgree, Proceed, Started, SnapshotOf, Selected
<1> QED BY <1>1, <1>2, <1>3, <1>4, <1>5, <1>6, <1>7, <1>8, <1>9

\* An invocation that fails leaves its first session to the server.
LEMMA GiveUpStep ==
  ASSUME IInv, TypeOK', NEW i \in Imports, pc[i] \in {"resolve"} \cup MainPhases,
         GiveUp(i), UNCHANGED <<file, hashed, copied, holder, catalog, runs, edits>>
  PROVE  IInv'
<1> USE DEF IInv, TypeOK
<1>1. LockDiscipline'
  <2>1. ASSUME NEW t \in Sessions, backend'[t] \in Busy PROVE holder' = t
    BY <2>1, SessionFacts DEF GiveUp, LockDiscipline, Busy, Requests
  <2>2. ASSUME NEW j \in Imports, pc'[j] \in MainPhases \ {"lock"} PROVE holder' = Main(j)
    BY <2>2, SessionFacts DEF GiveUp, LockDiscipline, Busy, Requests, MainPhases, RecordedPhases, CleanupPhases
  <2> QED BY <2>1, <2>2 DEF LockDiscipline
<1>2. PhasesAgree'
  BY SessionFacts DEF PhasesAgree, GiveUp, PhasesOf, MainPhases, RecordedPhases,
     CleanupPhases, Ended, FromLoad, FromSwap
<1>3. StagedIsMine'
  BY SessionFacts DEF StagedIsMine, GiveUp, StagedBy, PhasesAgree, PhasesOf, FromLoad,
     CleanupPhases, Ended, MainPhases, RecordedPhases, LockDiscipline, Busy, Requests
<1>4. CopiedWhole' BY SessionFacts, ContentsAssumption DEF CopiedWhole, GiveUp, CopiedBy
<1>5. CanonicalCatalog' BY DEF CanonicalCatalog, GiveUp
<1>6. RunsAgree'
  BY SessionFacts DEF RunsAgree, GiveUp, RunOf, RecordedPhases, CleanupPhases, MainPhases,
     Ended, FromLoad, FromSwap
<1>7. AtMostOneRunning' BY DEF AtMostOneRunning, GiveUp
<1>8. LedgerDescribesTable' BY DEF LedgerDescribesTable, GiveUp, Current
<1>9. SnapshotsAgree' BY SessionFacts DEF SnapshotsAgree, GiveUp, SnapshotOf, Selected
<1> QED BY <1>1, <1>2, <1>3, <1>4, <1>5, <1>6, <1>7, <1>8, <1>9

\* jq ended well: the commit of the load is sent.
LEMMA CopiedStep ==
  ASSUME IInv, TypeOK', NEW i \in Imports, pc[i] = "copying", backend[Main(i)] = "copying",
         NEW rows \in Streamed(file[i]), Accepted(rows, TRUE), JqEnds(file[i], rows, TRUE),
         copied' = [copied EXCEPT ![i] = [content |-> file[i], rows |-> rows]],
         pc' = [pc EXCEPT ![i] = "load"], backend' = [backend EXCEPT ![Main(i)] = "load"],
         UNCHANGED <<file, hashed, holder, catalog, runs, edits>>
  PROVE  IInv'
<1> USE DEF IInv, TypeOK
<1>1. LockDiscipline' BY SessionFacts DEF LockDiscipline, Busy, Requests
<1>2. PhasesAgree'
  BY SessionFacts DEF PhasesAgree, PhasesOf, MainPhases, RecordedPhases, CleanupPhases, Ended,
     FromLoad, FromSwap
<1>3. StagedIsMine' BY DEF StagedIsMine, StagedBy
<1>4. CopiedWhole'
  <2>1. runs[i].status # "succeeded" BY DEF RunsAgree, RunOf
  <2>2. catalog["companies"] # i BY <2>1 DEF LedgerDescribesTable, Current
  <2>3. catalog["companies_next"] # i BY DEF StagedIsMine, StagedBy
  <2>4. i \notin {catalog["companies_next_pkey"], catalog["companies_pkey"]}
    BY <2>2, <2>3, SessionFacts DEF CanonicalCatalog, CurrentIndexes, NextIndexes
  <2>5. copied'[i].content # None =>
          /\ copied'[i].content \notin Rejected
          /\ copied'[i].rows = Rows[copied'[i].content] /\ copied'[i].rows >= 1
    BY DEF Accepted, JqEnds
  <2>6. copied'[i].content # None BY DEF JqEnds
  <2>7. ASSUME NEW j \in Imports PROVE CopiedBy(j)'
    <3>1. CASE j = i BY <2>4, <2>5, <2>6, <3>1 DEF CopiedBy
    <3>2. CASE j # i BY <3>2, SessionFacts DEF CopiedWhole, CopiedBy
    <3> QED BY <3>1, <3>2
  <2> QED BY <2>7 DEF CopiedWhole
<1>5. CanonicalCatalog' BY DEF CanonicalCatalog
<1>6. RunsAgree' BY SessionFacts DEF RunsAgree, RunOf, RecordedPhases, CleanupPhases
<1>7. AtMostOneRunning' BY DEF AtMostOneRunning
<1>8. LedgerDescribesTable'
  BY SessionFacts DEF LedgerDescribesTable, Current, StagedIsMine, StagedBy, RunsAgree, RunOf
<1>9. SnapshotsAgree' BY DEF SnapshotsAgree, JqEnds, SnapshotOf, Selected
<1> QED BY <1>1, <1>2, <1>3, <1>4, <1>5, <1>6, <1>7, <1>8, <1>9

\* The lock of the second session: nothing is in flight on the first one any more.
LEMMA CleanupLockedStep ==
  ASSUME IInv, TypeOK', NEW i \in Imports, CleanupLocked(i)
  PROVE  IInv'
<1> USE DEF IInv, TypeOK
<1>1. LockDiscipline'
  BY SessionFacts DEF LockDiscipline, CleanupLocked, Replied, Started, Busy, Requests,
     MainPhases, RecordedPhases
<1>2. PhasesAgree'
  <2>1. holder = Cleanup(i) BY SessionFacts DEF CleanupLocked, Replied, LockDiscipline, Busy
  <2>2. backend[Main(i)] \notin Busy \cup {"lock"}
    BY <2>1, SessionFacts
    DEF LockDiscipline, PhasesAgree, PhasesOf, CleanupLocked, Replied, CleanupPhases
  <2>3. backend[Main(i)] \in {"error", "closed"}
    BY <2>2, SessionFacts DEF Busy, BackendStates
  <2>4. ASSUME NEW j \in Imports PROVE PhasesOf(j)'
    <3>1. CASE j = i
      BY <2>3, <3>1, SessionFacts
      DEF CleanupLocked, Replied, Started, PhasesOf, MainPhases, RecordedPhases, CleanupPhases
    <3>2. CASE j # i
      BY <3>2, SessionFacts DEF CleanupLocked, PhasesAgree, PhasesOf
    <3> QED BY <3>1, <3>2
  <2> QED BY <2>4 DEF PhasesAgree
<1>3. StagedIsMine'
  BY SessionFacts DEF StagedIsMine, CleanupLocked, Replied, Started, StagedBy, PhasesAgree,
     PhasesOf, FromLoad, CleanupPhases, Ended
<1>4. CopiedWhole' BY DEF CopiedWhole, CleanupLocked, Replied, Started, CopiedBy
<1>5. CanonicalCatalog' BY DEF CanonicalCatalog, CleanupLocked
<1>6. RunsAgree'
  BY SessionFacts DEF RunsAgree, CleanupLocked, Replied, Started, RunOf, RecordedPhases,
     CleanupPhases, MainPhases, Ended, FromLoad, FromSwap
<1>7. AtMostOneRunning' BY DEF AtMostOneRunning, CleanupLocked
<1>8. LedgerDescribesTable' BY DEF LedgerDescribesTable, CleanupLocked, Current
<1>9. SnapshotsAgree'
  BY DEF SnapshotsAgree, CleanupLocked, Replied, Started, SnapshotOf, Selected
<1> QED BY <1>1, <1>2, <1>3, <1>4, <1>5, <1>6, <1>7, <1>8, <1>9

\* A refused transaction.
LEMMA RefusedStep ==
  ASSUME IInv, TypeOK', NEW s \in Sessions, backend[s] \in Requests,
         Answer(s, "error"), UNCHANGED <<pc, file, hashed, copied, holder, catalog, runs, edits>>
  PROVE  IInv'
<1> USE DEF IInv, TypeOK
<1>1. LockDiscipline' BY SessionFacts DEF LockDiscipline, Answer, Busy, Requests
<1>2. PhasesAgree'
  BY SessionFacts DEF PhasesAgree, Answer, PhasesOf, MainPhases, RecordedPhases,
     CleanupPhases, Ended, FromLoad, FromSwap, Requests
<1>3. StagedIsMine' BY DEF StagedIsMine, Answer, StagedBy
<1>4. CopiedWhole' BY DEF CopiedWhole, Answer, CopiedBy
<1>5. CanonicalCatalog' BY DEF CanonicalCatalog, Answer
<1>6. RunsAgree'
  BY SessionFacts DEF RunsAgree, Answer, RunOf, RecordedPhases, CleanupPhases, MainPhases,
     Ended, FromLoad, FromSwap, Requests
<1>7. AtMostOneRunning' BY DEF AtMostOneRunning, Answer
<1>8. LedgerDescribesTable' BY DEF LedgerDescribesTable, Answer, Current
<1>9. SnapshotsAgree'
  BY SessionFacts, ContentsAssumption DEF SnapshotsAgree, Answer, SnapshotOf, Selected,
     RunsAgree, RunOf, PhasesAgree, PhasesOf, MainPhases, RecordedPhases, CopiedWhole,
     CopiedBy, Requests
<1> QED BY <1>1, <1>2, <1>3, <1>4, <1>5, <1>6, <1>7, <1>8, <1>9

\* 002_pdl.sql creates the empty table.
LEMMA MigrateStep ==
  ASSUME IInv, TypeOK', Migrate
  PROVE  IInv'
<1> USE DEF IInv, TypeOK
<1>1. LockDiscipline' BY DEF LockDiscipline, Migrate
<1>2. PhasesAgree' BY DEF PhasesAgree, Migrate, PhasesOf
<1>3. StagedIsMine' BY DEF StagedIsMine, Migrate, Names, CurrentIndexes, NextIndexes, StagedBy
<1>4. CopiedWhole'
  BY SessionFacts, ContentsAssumption DEF CopiedWhole, Migrate, Names, CurrentIndexes,
     NextIndexes, CopiedBy
<1>5. CanonicalCatalog'
  BY SessionFacts DEF CanonicalCatalog, Migrate, Names, CurrentIndexes, NextIndexes,
     StagedIsMine, StagedBy
<1>6. RunsAgree' BY DEF RunsAgree, Migrate, RunOf
<1>7. AtMostOneRunning' BY DEF AtMostOneRunning, Migrate
<1>8. LedgerDescribesTable'
  BY SessionFacts DEF LedgerDescribesTable, Migrate, Names, CurrentIndexes, NextIndexes,
     Current
<1>9. SnapshotsAgree' BY DEF SnapshotsAgree, Migrate, SnapshotOf, Selected
<1> QED BY <1>1, <1>2, <1>3, <1>4, <1>5, <1>6, <1>7, <1>8, <1>9

\* Dropping the scratch tables concerns the lock holder's invocation only.
LEMMA CommitScratchDropStep ==
  ASSUME IInv, TypeOK', NEW s \in Sessions, CommitScratchDrop(s)
  PROVE  IInv'
<1> USE DEF IInv, TypeOK
<1>1. LockDiscipline'
  BY SessionFacts, ScratchDropSpec DEF LockDiscipline, CommitScratchDrop, Answer, Busy,
     Requests
<1>2. PhasesAgree'
  BY SessionFacts, ScratchDropSpec DEF PhasesAgree, CommitScratchDrop, Answer, PhasesOf,
     MainPhases, RecordedPhases, CleanupPhases, Ended
<1>3. StagedIsMine'
  <2>1. holder = s BY DEF CommitScratchDrop, LockDiscipline, Busy, Requests
  <2>2. catalog'["companies_next"] = None
    BY ScratchDropSpec DEF CommitScratchDrop, CanonicalCatalog, Names
  <2>3. ASSUME NEW i \in Imports PROVE StagedBy(i)'
    <3>1. CASE s = Main(i)
      <4>1. backend'[Main(i)] = "ok" /\ backend[Main(i)] = "scratch" /\ pc' = pc
        BY <3>1 DEF CommitScratchDrop, Answer
      <4>2. pc[i] \notin {"load", "index"}
        BY <4>1 DEF PhasesAgree, PhasesOf, MainPhases, RecordedPhases
      <4> QED BY <2>2, <4>1, <4>2, SessionFacts DEF StagedBy
    <3>2. CASE s # Main(i)
      <4>1. backend'[Main(i)] = backend[Main(i)] BY <3>2 DEF CommitScratchDrop, Answer
      <4>2. backend[Main(i)] \notin Busy BY <2>1, <3>2, SessionFacts DEF LockDiscipline
      <4> QED BY <2>2, <4>1, <4>2, SessionFacts DEF StagedBy, Busy, Requests
    <3> QED BY <3>1, <3>2
  <2> QED BY <2>2, <2>3, SessionFacts DEF StagedIsMine
<1>4. CopiedWhole'
  <2>1. \A n \in Names : catalog'[n] \in {None, catalog[n]}
    BY ScratchDropSpec DEF CommitScratchDrop, CanonicalCatalog
  <2>2. {"companies", "companies_next", "companies_pkey", "companies_next_pkey"} \subseteq Names
    BY DEF Names, CurrentIndexes, NextIndexes
  <2>3. \A i \in Imports : backend'[Main(i)] \in {"ok", backend[Main(i)]}
    BY SessionFacts DEF CommitScratchDrop, Answer
  <2> QED BY <2>1, <2>2, <2>3, SessionFacts DEF CopiedWhole, CopiedBy, CommitScratchDrop
<1>5. CanonicalCatalog'
  BY SessionFacts, ScratchDropSpec DEF CanonicalCatalog, CommitScratchDrop, Names,
     CurrentIndexes, NextIndexes
<1>6. RunsAgree'
  BY SessionFacts DEF RunsAgree, CommitScratchDrop, Answer, RunOf,
     RecordedPhases, CleanupPhases, MainPhases, Ended, FromLoad, FromSwap, Requests,
     PhasesAgree, PhasesOf
<1>7. AtMostOneRunning' BY DEF AtMostOneRunning, CommitScratchDrop
<1>8. LedgerDescribesTable'
  <2>1. catalog'["companies"] \in {None, catalog["companies"]}
    <3>1. "companies" \in Names BY DEF Names
    <3> QED BY <3>1, ScratchDropSpec DEF CommitScratchDrop, CanonicalCatalog
  <2>2. ASSUME NEW j \in Imports, Current(j)' PROVE Current(j)
    BY <2>1, <2>2, SessionFacts DEF Current
  <2> QED BY <2>2 DEF LedgerDescribesTable, CommitScratchDrop
<1>9. SnapshotsAgree'
  BY SessionFacts DEF SnapshotsAgree, CommitScratchDrop, Answer, SnapshotOf, Selected
<1> QED BY <1>1, <1>2, <1>3, <1>4, <1>5, <1>6, <1>7, <1>8, <1>9

\* The primary key and the indexes of the staged table.
LEMMA CommitIndexStep ==
  ASSUME IInv, TypeOK', NEW i \in Imports, CommitIndex(i)
  PROVE  IInv'
<1> USE DEF IInv, TypeOK
<1>1. LockDiscipline' BY SessionFacts DEF LockDiscipline, CommitIndex, Answer, Busy, Requests
<1>2. PhasesAgree'
  BY SessionFacts DEF PhasesAgree, CommitIndex, Answer, PhasesOf, MainPhases, RecordedPhases,
     CleanupPhases, Ended
<1>3. StagedIsMine'
  BY SessionFacts DEF StagedIsMine, CommitIndex, CanIndex, CanIndexNames, AfterIndexing,
     Answer, Names, CurrentIndexes, NextIndexes, StagedBy
<1>4. CopiedWhole'
  BY DEF CopiedWhole, CommitIndex, CanIndex, CanIndexNames, AfterIndexing, Answer, Names,
     CurrentIndexes, NextIndexes, CopiedBy
<1>5. CanonicalCatalog'
  BY DEF CanonicalCatalog, CommitIndex, CanIndex, CanIndexNames, AfterIndexing, Names,
     CurrentIndexes, NextIndexes
<1>6. RunsAgree'
  BY SessionFacts DEF RunsAgree, CommitIndex, Answer, RunOf, RecordedPhases, CleanupPhases,
     MainPhases, Ended, FromLoad, FromSwap, Requests, PhasesAgree, PhasesOf
<1>7. AtMostOneRunning' BY DEF AtMostOneRunning, CommitIndex
<1>8. LedgerDescribesTable'
  BY DEF LedgerDescribesTable, CommitIndex, CanIndex, CanIndexNames, AfterIndexing, Names,
     CurrentIndexes, NextIndexes, Current
<1>9. SnapshotsAgree' BY DEF SnapshotsAgree, CommitIndex, Answer, SnapshotOf, Selected
<1> QED BY <1>1, <1>2, <1>3, <1>4, <1>5, <1>6, <1>7, <1>8, <1>9

\* The swap installs the table of the invocation that asked for it.
LEMMA CommitSwapStep ==
  ASSUME IInv, TypeOK', NEW i \in Imports, CommitSwap(i)
  PROVE  IInv'
<1> USE DEF IInv, TypeOK
<1>1. LockDiscipline'
  BY SessionFacts, SwapSpec DEF LockDiscipline, CommitSwap, Finished, Answer, Busy, Requests
<1>2. PhasesAgree'
  BY SessionFacts, SwapSpec DEF PhasesAgree, CommitSwap, Finished, Answer, PhasesOf,
     MainPhases, RecordedPhases, CleanupPhases, Ended
<1>3. StagedIsMine'
  BY SessionFacts, SwapSpec DEF StagedIsMine, CommitSwap, CanSwap, CanSwapNames, Finished,
     Answer, Names, CurrentIndexes, NextIndexes, StagedBy, PhasesAgree, PhasesOf, FromLoad,
     CleanupPhases, Ended, MainPhases, RecordedPhases
<1>4. CopiedWhole'
  BY SessionFacts, ContentsAssumption, SwapSpec DEF CopiedWhole, CommitSwap, CanSwap,
     CanSwapNames, Finished, Answer, Names, CurrentIndexes, NextIndexes, CopiedBy
<1>5. CanonicalCatalog'
  <2>1. /\ catalog["companies_next"] # None
        /\ \A n \in NextIndexes : catalog[n] # None
    BY StagedNames DEF CommitSwap, CanSwap, CanSwapNames, CurrentIndexes, NextIndexes
  <2>2. \A n \in NextIndexes : catalog[n] = catalog["companies_next"]
    BY <2>1 DEF CanonicalCatalog
  <2>3. catalog' = AfterSwap(catalog) BY DEF CommitSwap
  <2>4. \A n \in CurrentIndexes : catalog'[n] = catalog["companies_next"]
    BY <2>2, <2>3, SwapSpec DEF CurrentIndexes, NextIndexes
  <2> QED BY <2>3, <2>4, SwapSpec DEF CanonicalCatalog
<1>6. RunsAgree'
  BY SessionFacts, SwapSpec DEF RunsAgree, CommitSwap, CanSwap, Finished, Answer, RunOf,
     RecordedPhases, CleanupPhases, MainPhases, Ended, FromLoad, FromSwap, Requests,
     PhasesAgree, PhasesOf
<1>7. AtMostOneRunning' BY DEF AtMostOneRunning, CommitSwap, Finished
<1>8. LedgerDescribesTable'
  BY SessionFacts, SwapSpec DEF LedgerDescribesTable, CommitSwap, CanSwap, CanSwapNames,
     Finished, Names, CurrentIndexes, NextIndexes, Current, StagedIsMine, StagedBy
<1>9. SnapshotsAgree'
  BY SessionFacts DEF SnapshotsAgree, CommitSwap, CanSwap, Finished, Answer, SnapshotOf, Selected
<1> QED BY <1>1, <1>2, <1>3, <1>4, <1>5, <1>6, <1>7, <1>8, <1>9

\* The SHA-256 of the local file.
LEMMA HashStep ==
  ASSUME IInv, TypeOK', NEW i \in Imports, Hash(i)
  PROVE  IInv'
<1> USE DEF IInv, TypeOK
<1>1. LockDiscipline'
  BY SessionFacts DEF LockDiscipline, Hash, Busy, Requests, MainPhases, RecordedPhases
<1>2. PhasesAgree'
  BY SessionFacts DEF PhasesAgree, Hash, PhasesOf, MainPhases, RecordedPhases, CleanupPhases,
     Ended
<1>3. StagedIsMine'
  BY SessionFacts DEF StagedIsMine, Hash, StagedBy, PhasesAgree, PhasesOf, FromLoad,
     CleanupPhases, Ended, MainPhases, RecordedPhases
<1>4. CopiedWhole' BY DEF CopiedWhole, Hash, CopiedBy
<1>5. CanonicalCatalog' BY DEF CanonicalCatalog, Hash
<1>6. RunsAgree' BY SessionFacts DEF RunsAgree, Hash, RunOf, RecordedPhases, CleanupPhases
<1>7. AtMostOneRunning' BY DEF AtMostOneRunning, Hash
<1>8. LedgerDescribesTable' BY DEF LedgerDescribesTable, Hash, Current
<1>9. SnapshotsAgree'
  BY SessionFacts DEF SnapshotsAgree, Hash, SnapshotOf, Selected, RunsAgree, RunOf,
     PhasesAgree, PhasesOf
<1> QED BY <1>1, <1>2, <1>3, <1>4, <1>5, <1>6, <1>7, <1>8, <1>9

\* The reply to the swap.
LEMMA SwappedStep ==
  ASSUME IInv, TypeOK', NEW i \in Imports, Swapped(i)
  PROVE  IInv'
<1> USE DEF IInv, TypeOK
<1>1. LockDiscipline' BY SessionFacts DEF LockDiscipline, Swapped, Replied, Busy, Requests
<1>2. PhasesAgree'
  BY SessionFacts DEF PhasesAgree, Swapped, Replied, PhasesOf, MainPhases, RecordedPhases,
     CleanupPhases, Ended
<1>3. StagedIsMine'
  BY SessionFacts DEF StagedIsMine, Swapped, Replied, StagedBy, PhasesAgree, PhasesOf,
     FromLoad, CleanupPhases, Ended
<1>4. CopiedWhole' BY DEF CopiedWhole, Swapped, Replied, CopiedBy
<1>5. CanonicalCatalog' BY DEF CanonicalCatalog, Swapped
<1>6. RunsAgree'
  BY SessionFacts DEF RunsAgree, Swapped, Replied, RunOf, RecordedPhases, CleanupPhases,
     MainPhases, Ended, FromLoad, FromSwap
<1>7. AtMostOneRunning' BY DEF AtMostOneRunning, Swapped
<1>8. LedgerDescribesTable' BY DEF LedgerDescribesTable, Swapped, Current
<1>9. SnapshotsAgree' BY DEF SnapshotsAgree, Swapped, Replied, SnapshotOf, Selected
<1> QED BY <1>1, <1>2, <1>3, <1>4, <1>5, <1>6, <1>7, <1>8, <1>9

\* The second session goes on to mark the run.
LEMMA CleanupDroppedStep ==
  ASSUME IInv, TypeOK', NEW i \in Imports, CleanupDropped(i)
  PROVE  IInv'
<1> USE DEF IInv, TypeOK
<1>1. LockDiscipline'
  BY SessionFacts DEF LockDiscipline, CleanupDropped, Replied, Started, Busy, Requests,
     MainPhases, RecordedPhases
<1>2. PhasesAgree'
  BY SessionFacts DEF PhasesAgree, CleanupDropped, Replied, Started, PhasesOf, MainPhases,
     RecordedPhases, CleanupPhases, Ended
<1>3. StagedIsMine' BY SessionFacts DEF StagedIsMine, CleanupDropped, Replied, Started, StagedBy
<1>4. CopiedWhole' BY DEF CopiedWhole, CleanupDropped, Replied, Started, CopiedBy
<1>5. CanonicalCatalog' BY DEF CanonicalCatalog, CleanupDropped
<1>6. RunsAgree'
  BY SessionFacts DEF RunsAgree, CleanupDropped, Replied, Started, RunOf, RecordedPhases,
     CleanupPhases, MainPhases, Ended, FromLoad, FromSwap
<1>7. AtMostOneRunning' BY DEF AtMostOneRunning, CleanupDropped
<1>8. LedgerDescribesTable' BY DEF LedgerDescribesTable, CleanupDropped, Current
<1>9. SnapshotsAgree'
  BY DEF SnapshotsAgree, CleanupDropped, Replied, Started, SnapshotOf, Selected
<1> QED BY <1>1, <1>2, <1>3, <1>4, <1>5, <1>6, <1>7, <1>8, <1>9

\* The end of the failure handler.
LEMMA CleanupEndedStep ==
  ASSUME IInv, TypeOK', NEW i \in Imports, CleanupMarked(i) \/ CleanupRefused(i) \/ CleanupBroken(i)
  PROVE  IInv'
<1> USE DEF IInv, TypeOK
<1>1. LockDiscipline'
  BY DEF LockDiscipline, CleanupMarked, CleanupRefused, CleanupBroken, MainPhases, RecordedPhases, Ended
<1>2. PhasesAgree'
  BY SessionFacts DEF PhasesAgree, CleanupMarked, CleanupRefused, CleanupBroken, Replied,
     PhasesOf, MainPhases, RecordedPhases, CleanupPhases, Ended, FromLoad, FromSwap
<1>3. StagedIsMine'
  BY SessionFacts DEF StagedIsMine, CleanupMarked, CleanupRefused, CleanupBroken, Replied,
     StagedBy, PhasesAgree, PhasesOf, FromLoad, CleanupPhases, Ended
<1>4. CopiedWhole'
  BY DEF CopiedWhole, CleanupMarked, CleanupRefused, CleanupBroken, Replied, CopiedBy
<1>5. CanonicalCatalog' BY DEF CanonicalCatalog, CleanupMarked, CleanupRefused, CleanupBroken
<1>6. RunsAgree'
  BY SessionFacts DEF RunsAgree, CleanupMarked, CleanupRefused, CleanupBroken, Replied, RunOf,
     RecordedPhases, CleanupPhases, MainPhases, Ended, FromLoad, FromSwap
<1>7. AtMostOneRunning' BY DEF AtMostOneRunning, CleanupMarked, CleanupRefused, CleanupBroken
<1>8. LedgerDescribesTable'
  BY DEF LedgerDescribesTable, CleanupMarked, CleanupRefused, CleanupBroken, Current
<1>9. SnapshotsAgree'
  BY DEF SnapshotsAgree, CleanupMarked, CleanupRefused, CleanupBroken, Replied, SnapshotOf,
     Selected
<1> QED BY <1>1, <1>2, <1>3, <1>4, <1>5, <1>6, <1>7, <1>8, <1>9

\* A killed client.
LEMMA KillStep ==
  ASSUME IInv, TypeOK', NEW i \in Imports, Kill(i)
  PROVE  IInv'
<1> USE DEF IInv, TypeOK
<1>1. LockDiscipline'
  BY SessionFacts DEF LockDiscipline, Kill, Busy, Requests, MainPhases, RecordedPhases
<1>2. PhasesAgree'
  BY SessionFacts DEF PhasesAgree, Kill, PhasesOf, MainPhases, RecordedPhases, CleanupPhases,
     Ended, FromLoad, FromSwap
<1>3. StagedIsMine'
  BY SessionFacts DEF StagedIsMine, Kill, StagedBy, PhasesAgree, PhasesOf, FromLoad,
     CleanupPhases, Ended
<1>4. CopiedWhole' BY DEF CopiedWhole, Kill, CopiedBy
<1>5. CanonicalCatalog' BY DEF CanonicalCatalog, Kill
<1>6. RunsAgree'
  BY SessionFacts DEF RunsAgree, Kill, RunOf, RecordedPhases, CleanupPhases, MainPhases,
     Ended, FromLoad, FromSwap
<1>7. AtMostOneRunning' BY DEF AtMostOneRunning, Kill
<1>8. LedgerDescribesTable' BY DEF LedgerDescribesTable, Kill, Current
<1>9. SnapshotsAgree' BY DEF SnapshotsAgree, Kill, SnapshotOf, Selected
<1> QED BY <1>1, <1>2, <1>3, <1>4, <1>5, <1>6, <1>7, <1>8, <1>9

\* The lock is granted when it is free.
LEMMA GrantLockStep ==
  ASSUME IInv, TypeOK', NEW s \in Sessions, GrantLock(s)
  PROVE  IInv'
<1> USE DEF IInv, TypeOK
<1>1. LockDiscipline' BY SessionFacts DEF LockDiscipline, GrantLock, Answer
<1>2. PhasesAgree'
  BY SessionFacts DEF PhasesAgree, GrantLock, Answer, PhasesOf, MainPhases, RecordedPhases,
     CleanupPhases, Ended
<1>3. StagedIsMine'
  BY SessionFacts DEF StagedIsMine, GrantLock, Answer, StagedBy, PhasesAgree, PhasesOf,
     FromLoad, CleanupPhases, Ended, MainPhases, RecordedPhases
<1>4. CopiedWhole' BY DEF CopiedWhole, GrantLock, Answer, CopiedBy
<1>5. CanonicalCatalog' BY DEF CanonicalCatalog, GrantLock
<1>6. RunsAgree'
  BY SessionFacts DEF RunsAgree, GrantLock, Answer, RunOf, RecordedPhases, CleanupPhases,
     MainPhases, Ended, FromLoad, FromSwap, Requests, PhasesAgree, PhasesOf
<1>7. AtMostOneRunning' BY DEF AtMostOneRunning, GrantLock
<1>8. LedgerDescribesTable' BY DEF LedgerDescribesTable, GrantLock, Current
<1>9. SnapshotsAgree' BY DEF SnapshotsAgree, GrantLock, Answer, SnapshotOf, Selected
<1> QED BY <1>1, <1>2, <1>3, <1>4, <1>5, <1>6, <1>7, <1>8, <1>9

\* The server closes an abandoned session.
LEMMA EndSessionStep ==
  ASSUME IInv, TypeOK', NEW s \in Sessions, EndSession(s)
  PROVE  IInv'
<1> USE DEF IInv, TypeOK
<1>1. LockDiscipline'
  BY SessionFacts DEF LockDiscipline, EndSession, InUse, Answer, Busy, Requests
<1>2. PhasesAgree'
  BY SessionFacts DEF PhasesAgree, EndSession, InUse, Answer, PhasesOf, MainPhases, RecordedPhases,
     CleanupPhases, Ended
<1>3. StagedIsMine' BY DEF StagedIsMine, EndSession, Answer, StagedBy
<1>4. CopiedWhole' BY DEF CopiedWhole, EndSession, Answer, CopiedBy
<1>5. CanonicalCatalog' BY DEF CanonicalCatalog, EndSession
<1>6. RunsAgree' BY DEF RunsAgree, EndSession, Answer, RunOf
<1>7. AtMostOneRunning' BY DEF AtMostOneRunning, EndSession
<1>8. LedgerDescribesTable' BY DEF LedgerDescribesTable, EndSession, Current
<1>9. SnapshotsAgree' BY DEF SnapshotsAgree, EndSession, Answer, SnapshotOf, Selected
<1> QED BY <1>1, <1>2, <1>3, <1>4, <1>5, <1>6, <1>7, <1>8, <1>9

\* A new run supersedes what was running.
LEMMA CommitBeginStep ==
  ASSUME IInv, TypeOK', NEW i \in Imports, CommitBegin(i)
  PROVE  IInv'
<1> USE DEF IInv, TypeOK
<1>1. LockDiscipline'
  BY SessionFacts DEF LockDiscipline, CommitBegin, Superseded, Finished, Answer, Busy,
     Requests
<1>2. PhasesAgree'
  BY SessionFacts DEF PhasesAgree, CommitBegin, Superseded, Finished, Answer, PhasesOf,
     MainPhases, RecordedPhases, CleanupPhases, Ended
<1>3. StagedIsMine'
  BY SessionFacts DEF StagedIsMine, CommitBegin, Superseded, Finished, Answer, StagedBy,
     PhasesAgree, PhasesOf, FromLoad, CleanupPhases, Ended, MainPhases, RecordedPhases
<1>4. CopiedWhole' BY DEF CopiedWhole, CommitBegin, Superseded, Finished, Answer, CopiedBy
<1>5. CanonicalCatalog' BY DEF CanonicalCatalog, CommitBegin, Superseded, Finished
<1>6. RunsAgree'
  BY SessionFacts DEF RunsAgree, CommitBegin, Superseded, Finished, Answer, RunOf,
     RecordedPhases, CleanupPhases, MainPhases, Ended, FromLoad, FromSwap, Requests,
     PhasesAgree, PhasesOf
<1>7. AtMostOneRunning' BY DEF AtMostOneRunning, CommitBegin, Superseded, Finished
<1>8. LedgerDescribesTable'
  BY SessionFacts DEF LedgerDescribesTable, CommitBegin, Superseded, Finished, Current,
     StagedIsMine, StagedBy, RunsAgree, RunOf
<1>9. SnapshotsAgree'
  BY DEF SnapshotsAgree, CommitBegin, Superseded, Finished, Answer, SnapshotOf, Selected
<1> QED BY <1>1, <1>2, <1>3, <1>4, <1>5, <1>6, <1>7, <1>8, <1>9

\* The staged table appears.
LEMMA CommitLoadStep ==
  ASSUME IInv, TypeOK', NEW i \in Imports, CommitLoad(i)
  PROVE  IInv'
<1> USE DEF IInv, TypeOK
<1>1. LockDiscipline' BY SessionFacts DEF LockDiscipline, CommitLoad, Answer, Busy, Requests
<1>2. PhasesAgree'
  BY SessionFacts DEF PhasesAgree, CommitLoad, Answer, PhasesOf, MainPhases, RecordedPhases,
     CleanupPhases, Ended
<1>3. StagedIsMine'
  BY SessionFacts DEF StagedIsMine, CommitLoad, CanLoad, Answer, Names, CurrentIndexes,
     NextIndexes, StagedBy, PhasesAgree, PhasesOf
<1>4. CopiedWhole'
  BY DEF CopiedWhole, CommitLoad, CanLoad, Answer, Names, CurrentIndexes, NextIndexes,
     CopiedBy
<1>5. CanonicalCatalog'
  BY SessionFacts DEF CanonicalCatalog, CommitLoad, CanLoad, Names, CurrentIndexes,
     NextIndexes, StagedIsMine, StagedBy, RunsAgree, RunOf, LedgerDescribesTable, Current
<1>6. RunsAgree'
  BY SessionFacts DEF RunsAgree, CommitLoad, Answer, RunOf, RecordedPhases, CleanupPhases,
     MainPhases, Ended, FromLoad, FromSwap, Requests, PhasesAgree, PhasesOf
<1>7. AtMostOneRunning' BY DEF AtMostOneRunning, CommitLoad
<1>8. LedgerDescribesTable'
  BY DEF LedgerDescribesTable, CommitLoad, CanLoad, Names, CurrentIndexes, NextIndexes,
     Current
<1>9. SnapshotsAgree' BY DEF SnapshotsAgree, CommitLoad, Answer, SnapshotOf, Selected
<1> QED BY <1>1, <1>2, <1>3, <1>4, <1>5, <1>6, <1>7, <1>8, <1>9

\* The failure handler marks its run.
LEMMA CommitMarkStep ==
  ASSUME IInv, TypeOK', NEW i \in Imports, CommitMark(i)
  PROVE  IInv'
<1> USE DEF IInv, TypeOK
<1>1. LockDiscipline'
  BY SessionFacts DEF LockDiscipline, CommitMark, MarkedFailed, Finished, Answer, Busy,
     Requests
<1>2. PhasesAgree'
  BY SessionFacts DEF PhasesAgree, CommitMark, MarkedFailed, Finished, Answer, PhasesOf
<1>3. StagedIsMine'
  BY SessionFacts DEF StagedIsMine, CommitMark, MarkedFailed, Finished, Answer, StagedBy,
     PhasesAgree, PhasesOf
<1>4. CopiedWhole' BY DEF CopiedWhole, CommitMark, MarkedFailed, Finished, Answer, CopiedBy
<1>5. CanonicalCatalog' BY DEF CanonicalCatalog, CommitMark, MarkedFailed, Finished
<1>6. RunsAgree'
  BY SessionFacts DEF RunsAgree, CommitMark, MarkedFailed, Finished, Answer, RunOf
<1>7. AtMostOneRunning' BY DEF AtMostOneRunning, CommitMark, MarkedFailed, Finished
<1>8. LedgerDescribesTable'
  BY DEF LedgerDescribesTable, CommitMark, MarkedFailed, Finished, Current
<1>9. SnapshotsAgree'
  BY DEF SnapshotsAgree, CommitMark, MarkedFailed, Finished, Answer, SnapshotOf, Selected
<1> QED BY <1>1, <1>2, <1>3, <1>4, <1>5, <1>6, <1>7, <1>8, <1>9

\* Somebody changes a local file.
LEMMA EditFileStep ==
  ASSUME IInv, TypeOK', NEW i \in Imports, EditFile(i)
  PROVE  IInv'
<1> USE DEF IInv, TypeOK
<1>1. LockDiscipline' BY DEF LockDiscipline, EditFile
<1>2. PhasesAgree' BY DEF PhasesAgree, EditFile, PhasesOf
<1>3. StagedIsMine' BY DEF StagedIsMine, EditFile, StagedBy
<1>4. CopiedWhole' BY DEF CopiedWhole, EditFile, CopiedBy
<1>5. CanonicalCatalog' BY DEF CanonicalCatalog, EditFile
<1>6. RunsAgree' BY DEF RunsAgree, EditFile, RunOf
<1>7. AtMostOneRunning' BY DEF AtMostOneRunning, EditFile
<1>8. LedgerDescribesTable' BY DEF LedgerDescribesTable, EditFile, Current
<1>9. SnapshotsAgree' BY DEF SnapshotsAgree, EditFile, SnapshotOf, Selected
<1> QED BY <1>1, <1>2, <1>3, <1>4, <1>5, <1>6, <1>7, <1>8, <1>9

\* Transactions become read-only by default, or writable again.
LEMMA DiskStep ==
  ASSUME IInv, TypeOK', DiskFull \/ DiskRecovered
  PROVE  IInv'
<1> USE DEF IInv, TypeOK
<1>1. LockDiscipline' BY DEF LockDiscipline, DiskFull, DiskRecovered
<1>2. PhasesAgree' BY DEF PhasesAgree, DiskFull, DiskRecovered, PhasesOf
<1>3. StagedIsMine' BY DEF StagedIsMine, DiskFull, DiskRecovered, StagedBy
<1>4. CopiedWhole' BY DEF CopiedWhole, DiskFull, DiskRecovered, CopiedBy
<1>5. CanonicalCatalog' BY DEF CanonicalCatalog, DiskFull, DiskRecovered
<1>6. RunsAgree' BY DEF RunsAgree, DiskFull, DiskRecovered, RunOf
<1>7. AtMostOneRunning' BY DEF AtMostOneRunning, DiskFull, DiskRecovered
<1>8. LedgerDescribesTable' BY DEF LedgerDescribesTable, DiskFull, DiskRecovered, Current
<1>9. SnapshotsAgree' BY DEF SnapshotsAgree, DiskFull, DiskRecovered, SnapshotOf, Selected
<1> QED BY <1>1, <1>2, <1>3, <1>4, <1>5, <1>6, <1>7, <1>8, <1>9

LEMMA InvInit == Init => IInv
<1> SUFFICES ASSUME Init PROVE IInv OBVIOUS
<1>1. TypeOK BY TypeInit
<1>2. {"companies", "companies_next", "companies_previous"} \cup CurrentIndexes \cup NextIndexes
        \subseteq Names
  BY DEF Names
<1>3. /\ \A i \in Imports : pc[i] = "start" /\ hashed[i] = None /\ copied[i] = NoRows /\ runs[i] = NoRun
      /\ \A s \in Sessions : backend[s] = "closed"
      /\ \A n \in Names : catalog[n] = None
  BY DEF Init
<1>4. LockDiscipline
  BY <1>3 DEF LockDiscipline, Busy, Requests, MainPhases, RecordedPhases
<1>5. PhasesAgree
  BY <1>3, SessionFacts DEF PhasesAgree, PhasesOf, MainPhases, RecordedPhases, CleanupPhases
<1>6. StagedIsMine
  BY <1>2, <1>3, SessionFacts DEF StagedIsMine, StagedBy
<1>7. CopiedWhole
  BY <1>2, <1>3, SessionFacts DEF CopiedWhole, CopiedBy, NoRows, CurrentIndexes, NextIndexes
<1>8. CanonicalCatalog
  BY <1>2, <1>3 DEF CanonicalCatalog
<1>9. RunsAgree
  BY <1>3, SessionFacts DEF RunsAgree, RunOf, NoRun, RecordedPhases, CleanupPhases
<1>10. AtMostOneRunning BY <1>3 DEF AtMostOneRunning, NoRun
<1>11. LedgerDescribesTable
  BY <1>2, <1>3, SessionFacts DEF LedgerDescribesTable, Current
<1>12. SnapshotsAgree
  BY <1>3, SessionFacts DEF SnapshotsAgree, SnapshotOf, NoRun, NoRows
<1> QED BY <1>1, <1>4, <1>5, <1>6, <1>7, <1>8, <1>9, <1>10, <1>11, <1>12 DEF IInv

LEMMA InvStep == IInv /\ [Next]_vars => IInv'
<1> SUFFICES ASSUME IInv, [Next]_vars PROVE IInv' OBVIOUS
<1>1. TypeOK' BY TypeStep DEF IInv
<1>2. ASSUME NEW i \in Imports, ClientStep(i) PROVE IInv'
  <2>1. CASE Hash(i) BY <1>1, <2>1, HashStep
  <2>2. CASE Resolve(i) BY <1>1, <2>2, ResolveStep
  <2>3. CASE VerifyTarget(i)
    BY <1>1, <2>3, ProceedStep, GiveUpStep DEF VerifyTarget, Replied, MainPhases
  <2>4. CASE ScratchDropped(i) BY <1>1, <2>4, ProceedStep DEF ScratchDropped, Replied
  <2>5. CASE RunStarted(i) BY <1>1, <2>5, ProceedStep DEF RunStarted, Replied
  <2>6. CASE StreamJsonl(i)
    <3>1. PICK rows \in Streamed(file[i]), exitZero \in BOOLEAN :
            /\ JqEnds(file[i], rows, exitZero) \/ ~exitZero
            /\ IF Accepted(rows, exitZero)
               THEN /\ copied' = [copied EXCEPT ![i] = [content |-> file[i], rows |-> rows]]
                    /\ pc' = [pc EXCEPT ![i] = "load"]
                    /\ backend' = [backend EXCEPT ![Main(i)] = "load"]
               ELSE GiveUp(i) /\ UNCHANGED copied
      BY <2>6 DEF StreamJsonl
    <3>2. /\ pc[i] = "copying" /\ backend[Main(i)] = "copying"
          /\ UNCHANGED <<file, hashed, holder, catalog, runs, edits>>
      BY <2>6 DEF StreamJsonl
    <3>3. CASE Accepted(rows, exitZero)
      <4>1. exitZero = TRUE BY <3>3 DEF Accepted
      <4> QED BY <1>1, <3>1, <3>2, <3>3, <4>1, CopiedStep
    <3>4. CASE ~Accepted(rows, exitZero)
      BY <1>1, <3>1, <3>2, <3>4, GiveUpStep DEF MainPhases, RecordedPhases
    <3> QED BY <3>3, <3>4
  <2>7. CASE Loaded(i) BY <1>1, <2>7, ProceedStep DEF Loaded, Replied
  <2>8. CASE Validate(i)
    BY <1>1, <2>8, ProceedStep, GiveUpStep DEF Validate, Replied, MainPhases, RecordedPhases
  <2>9. CASE Swapped(i) BY <1>1, <2>9, SwappedStep
  <2>10. CASE MainRefused(i) BY <1>1, <2>10, GiveUpStep DEF MainRefused
  <2>11. CASE CleanupLocked(i) BY <1>1, <2>11, CleanupLockedStep
  <2>12. CASE CleanupDropped(i) BY <1>1, <2>12, CleanupDroppedStep
  <2>13. CASE CleanupMarked(i) \/ CleanupRefused(i) BY <1>1, <2>13, CleanupEndedStep
  <2> QED BY <1>2, <2>1, <2>2, <2>3, <2>4, <2>5, <2>6, <2>7, <2>8, <2>9, <2>10, <2>11, <2>12, <2>13
          DEF ClientStep
<1>3. ASSUME NEW i \in Imports, ClientFault(i) PROVE IInv'
  <2>1. CASE MainBroken(i) BY <1>1, <2>1, GiveUpStep DEF MainBroken
  <2>2. CASE CleanupBroken(i) BY <1>1, <2>2, CleanupEndedStep
  <2>3. CASE Kill(i) BY <1>1, <2>3, KillStep
  <2> QED BY <1>3, <2>1, <2>2, <2>3 DEF ClientFault
<1>4. ASSUME NEW i \in Imports, Commit(i) PROVE IInv'
  BY <1>1, <1>4, CommitBeginStep, CommitLoadStep, CommitIndexStep, CommitSwapStep, CommitMarkStep
  DEF Commit
<1>5. ASSUME NEW s \in Sessions, SessionStep(s) \/ RefuseByFault(s) PROVE IInv'
  <2>1. CASE Refuse(s) \/ RefuseByFault(s)
    BY <1>1, <2>1, RefusedStep DEF Refuse, RefuseByFault
  <2> QED BY <1>1, <1>5, <2>1, GrantLockStep, CommitScratchDropStep, EndSessionStep
          DEF SessionStep
<1>6. CASE \E i \in Imports : EditFile(i) BY <1>1, <1>6, EditFileStep
<1>7. CASE Migrate BY <1>1, <1>7, MigrateStep
<1>8. CASE DiskFull \/ DiskRecovered BY <1>1, <1>8, DiskStep
<1>9. CASE UNCHANGED vars
  <2>1. LockDiscipline' /\ PhasesAgree' /\ StagedIsMine'
    BY <1>9 DEF IInv, vars, LockDiscipline, PhasesAgree, PhasesOf, StagedIsMine, StagedBy
  <2>2. CopiedWhole' /\ CanonicalCatalog' /\ RunsAgree'
    BY <1>9 DEF IInv, vars, CopiedWhole, CopiedBy, CanonicalCatalog, RunsAgree, RunOf
  <2>3. AtMostOneRunning' /\ LedgerDescribesTable' /\ SnapshotsAgree'
    BY <1>9 DEF IInv, vars, AtMostOneRunning, LedgerDescribesTable, Current, SnapshotsAgree,
                SnapshotOf, Selected
  <2> QED BY <1>1, <2>1, <2>2, <2>3 DEF IInv
<1>10. CASE Quiescent BY <1>9, <1>10 DEF Quiescent
<1> QED BY <1>2, <1>3, <1>4, <1>5, <1>6, <1>7, <1>8, <1>9, <1>10 DEF Next

\* The inductive invariant holds in every reachable state.
THEOREM Invariance == Spec => []IInv
<1>1. Init => IInv BY InvInit
<1>2. IInv /\ [Next]_vars => IInv' BY InvStep
<1> QED BY <1>1, <1>2, PTL DEF Spec

-----------------------------------------------------------------------------
(* The safety properties *)

\* At most one run is running.
THEOREM OneRunning == Spec => []AtMostOneRunning
<1>1. IInv => AtMostOneRunning BY DEF IInv
<1> QED BY <1>1, Invariance, PTL

\* The current table is the one its succeeded run describes.
THEOREM LedgerCorrect == Spec => []LedgerDescribesTable
<1>1. IInv => LedgerDescribesTable BY DEF IInv
<1> QED BY <1>1, Invariance, PTL

\* The names of the current table are canonical, so that the swap can be repeated.
THEOREM NamesCanonical == Spec => []CanonicalCatalog
<1>1. IInv => CanonicalCatalog BY DEF IInv
<1> QED BY <1>1, Invariance, PTL

LEMMA CurrentIsWhole ==
  ASSUME IInv, NEW i \in Imports, Current(i)
  PROVE  copied[i].content \in Installable /\ copied[i].rows = Rows[copied[i].content]
<1>1. catalog["companies_pkey"] = i
  BY DEF IInv, CanonicalCatalog, Current, CurrentIndexes
<1>2. /\ copied[i].content # None /\ copied[i].content \notin Rejected
      /\ copied[i].rows = Rows[copied[i].content] /\ copied[i].rows >= 1
      /\ copied[i].content \notin Duplicated
  BY <1>1 DEF IInv, CopiedWhole, CopiedBy, Current
<1>3. copied[i].content \in Contents BY <1>2 DEF IInv, TypeOK
<1> QED BY <1>2, <1>3 DEF Installable

\* The current table holds all that the filter accepts of one file, under its primary key.
THEOREM TableComplete == Spec => []CompleteTable
<1>1. IInv => CompleteTable BY CurrentIsWhole DEF CompleteTable
<1> QED BY <1>1, Invariance, PTL

\* What a failed invocation left is cleaned for good when its failure handler returns.
THEOREM FailureClean == Spec => []FailedMeansClean
<1>1. ASSUME IInv, NEW i \in Imports, pc[i] = "failed"
      PROVE  runs[i].status \in {"failed", "succeeded"} /\ catalog["companies_next"] # i
  <2>1. runs[i].status \notin {"absent", "running"} BY <1>1 DEF IInv, RunsAgree, RunOf
  <2>2. runs[i].status \in {"failed", "succeeded"}
    <3>1. runs[i] \in Run BY <1>1 DEF IInv, TypeOK
    <3> QED BY <2>1, <3>1 DEF Run
  <2>3. catalog["companies_next"] # i BY <1>1 DEF IInv, StagedIsMine, StagedBy
  <2> QED BY <2>2, <2>3
<1>2. IInv => FailedMeansClean BY <1>1 DEF FailedMeansClean
<1> QED BY <1>2, Invariance, PTL

\* Untouched files are installed under the snapshot that archived them.
THEOREM Provenance == Spec => []ProvenanceOfUntouchedFiles
<1>1. ASSUME IInv, NEW i \in Imports, Current(i), edits = 0
      PROVE  /\ copied[i].content = runs[i].snapshot
             /\ runs[i].snapshot \in Archived
             /\ Wanted[i] \in {AnySnapshot, runs[i].snapshot}
  <2>1. runs[i].status = "succeeded" BY <1>1 DEF IInv, LedgerDescribesTable
  <2>2. runs[i].snapshot = hashed[i] /\ Selected(i)
    <3>1. SnapshotOf(i) BY <1>1 DEF IInv, SnapshotsAgree
    <3> QED BY <2>1, <3>1 DEF SnapshotOf
  <2>3. hashed[i] \in {None, file[i]} /\ copied[i].content \in {None, file[i]}
    BY <1>1 DEF IInv, SnapshotsAgree, SnapshotOf
  <2>4. hashed[i] # None BY <2>2, SessionFacts, ContentsAssumption DEF Selected
  <2>5. copied[i].content # None BY <1>1 DEF IInv, CopiedWhole, CopiedBy, Current
  <2> QED BY <2>2, <2>3, <2>4, <2>5 DEF Selected
<1>2. IInv => ProvenanceOfUntouchedFiles BY <1>1 DEF ProvenanceOfUntouchedFiles
<1> QED BY <1>2, Invariance, PTL

-----------------------------------------------------------------------------
(* Which steps change the table and the ledger *)

\* Only a commit changes meta.import_runs.
LEMMA RunsFrame ==
  ASSUME [Next]_vars, ~\E i \in Imports : CommitBegin(i) \/ CommitSwap(i) \/ CommitMark(i)
  PROVE  runs' = runs
<1>1. ASSUME NEW i \in Imports, ClientStep(i) PROVE runs' = runs
  BY <1>1 DEF ClientStep, Hash, Resolve, VerifyTarget, ScratchDropped, RunStarted, StreamJsonl,
     Loaded, Validate, Swapped, MainRefused, CleanupLocked, CleanupDropped, CleanupMarked,
     CleanupRefused
<1>2. ASSUME NEW i \in Imports, ClientFault(i) PROVE runs' = runs
  BY <1>2 DEF ClientFault, MainBroken, CleanupBroken, Kill
<1>3. ASSUME NEW i \in Imports, CommitLoad(i) \/ CommitIndex(i) \/ EditFile(i) PROVE runs' = runs
  BY <1>3 DEF CommitLoad, CommitIndex, EditFile
<1>4. ASSUME NEW s \in Sessions, SessionStep(s) \/ RefuseByFault(s) PROVE runs' = runs
  BY <1>4 DEF SessionStep, GrantLock, CommitScratchDrop, Refuse, RefuseByFault, EndSession
<1>5. ASSUME Migrate \/ DiskFull \/ DiskRecovered PROVE runs' = runs
  BY <1>5 DEF Migrate, DiskFull, DiskRecovered
<1>6. ASSUME Quiescent \/ UNCHANGED vars PROVE runs' = runs
  BY <1>6 DEF Quiescent, vars
<1> QED BY <1>1, <1>2, <1>3, <1>4, <1>5, <1>6 DEF Next, Commit

\* Only commits and the migration change the catalog.
LEMMA CatalogFrame ==
  ASSUME [Next]_vars, ~Migrate, ~\E s \in Sessions : CommitScratchDrop(s),
         ~\E i \in Imports : CommitLoad(i) \/ CommitIndex(i) \/ CommitSwap(i)
  PROVE  catalog' = catalog
<1>1. ASSUME NEW i \in Imports, ClientStep(i) PROVE catalog' = catalog
  BY <1>1 DEF ClientStep, Hash, Resolve, VerifyTarget, ScratchDropped, RunStarted, StreamJsonl,
     Loaded, Validate, Swapped, MainRefused, CleanupLocked, CleanupDropped, CleanupMarked,
     CleanupRefused
<1>2. ASSUME NEW i \in Imports, ClientFault(i) PROVE catalog' = catalog
  BY <1>2 DEF ClientFault, MainBroken, CleanupBroken, Kill
<1>3. ASSUME NEW i \in Imports, CommitBegin(i) \/ CommitMark(i) \/ EditFile(i)
      PROVE  catalog' = catalog
  BY <1>3 DEF CommitBegin, CommitMark, EditFile
<1>4. ASSUME NEW s \in Sessions, SessionStep(s) \/ RefuseByFault(s), ~CommitScratchDrop(s)
      PROVE  catalog' = catalog
  BY <1>4 DEF SessionStep, GrantLock, Refuse, RefuseByFault, EndSession
<1>5. ASSUME DiskFull \/ DiskRecovered PROVE catalog' = catalog
  BY <1>5 DEF DiskFull, DiskRecovered
<1>6. ASSUME Quiescent \/ UNCHANGED vars PROVE catalog' = catalog
  BY <1>6 DEF Quiescent, vars
<1> QED BY <1>1, <1>2, <1>3, <1>4, <1>5, <1>6 DEF Next, Commit

\* A finished run is never touched again: begin and swap find other rows, and marking a run
\* failed looks at its status.
THEOREM FinalRuns == Spec => FinishedRunsAreFinal
<1>1. ASSUME IInv, NEW i \in Imports, CommitBegin(i) PROVE FinishedRunsKept
  <2>1. backend[Main(i)] = "begin" BY <1>1 DEF CommitBegin
  <2>2. runs[i].status = "absent"
    <3>1. RunOf(i) BY <1>1 DEF IInv, RunsAgree
    <3> QED BY <2>1, <3>1 DEF RunOf
  <2> QED BY <1>1, <2>2 DEF CommitBegin, Superseded, FinishedRunsKept
<1>2. ASSUME IInv, NEW i \in Imports, CommitSwap(i) PROVE FinishedRunsKept
  BY <1>2 DEF CommitSwap, CanSwap, IInv, TypeOK, FinishedRunsKept
<1>3. ASSUME IInv, NEW i \in Imports, CommitMark(i) PROVE FinishedRunsKept
  BY <1>3 DEF CommitMark, MarkedFailed, IInv, TypeOK, FinishedRunsKept
<1>4. IInv /\ [Next]_vars => [FinishedRunsKept]_vars
  BY <1>1, <1>2, <1>3, RunsFrame DEF FinishedRunsKept
<1> QED BY <1>4, Invariance, PTL DEF Spec, FinishedRunsAreFinal

\* The lock holder of a working import is its first session, so that nobody else can drop
\* what it has staged.
THEOREM Protected == Spec => StagingProtected
<1>1. ASSUME IInv, NEW s \in Sessions, CommitScratchDrop(s), NEW i \in Imports,
             catalog["companies_next"] = i, pc[i] \in {"load", "index", "swap"}
      PROVE  FALSE
  <2>1. holder = s BY <1>1 DEF CommitScratchDrop, IInv, LockDiscipline, Busy, Requests
  <2>2. holder = Main(i) BY <1>1 DEF IInv, LockDiscipline, MainPhases, RecordedPhases
  <2>3. backend[Main(i)] = "scratch" BY <1>1, <2>1, <2>2 DEF CommitScratchDrop
  <2>4. PhasesOf(i) BY <1>1 DEF IInv, PhasesAgree
  <2> QED BY <1>1, <2>3, <2>4 DEF PhasesOf, MainPhases, RecordedPhases
<1>2. ASSUME IInv, NEW j \in Imports, CommitSwap(j) PROVE StagedTableKept
  <2>1. catalog'["companies"] = catalog["companies_next"]
    BY <1>2, SwapSpec DEF CommitSwap, IInv, TypeOK
  <2> QED BY <2>1 DEF StagedTableKept
<1>3. ASSUME IInv, NEW j \in Imports, CommitLoad(j) \/ CommitIndex(j) PROVE StagedTableKept
  <2>1. CASE CommitLoad(j)
    BY <2>1, SessionFacts DEF CommitLoad, CanLoad, StagedTableKept
  <2>2. CASE CommitIndex(j)
    BY <2>2 DEF CommitIndex, AfterIndexing, StagedTableKept, Names, NextIndexes, IInv, TypeOK
  <2> QED BY <1>3, <2>1, <2>2
<1>4. ASSUME IInv, Migrate PROVE StagedTableKept
  BY <1>4 DEF Migrate, StagedTableKept, Names, CurrentIndexes, IInv, TypeOK
<1>5. ASSUME catalog' = catalog PROVE StagedTableKept
  BY <1>5 DEF StagedTableKept
<1>6. IInv /\ [Next]_vars => [StagedTableKept]_vars
  <2> SUFFICES ASSUME IInv, [Next]_vars PROVE StagedTableKept OBVIOUS
  <2>1. CASE \E s \in Sessions : CommitScratchDrop(s) BY <1>1, <2>1 DEF StagedTableKept
  <2> QED BY <1>2, <1>3, <1>4, <1>5, <2>1, CatalogFrame
<1> QED BY <1>6, Invariance, PTL DEF Spec, StagingProtected

-----------------------------------------------------------------------------
(* Refinement *)

\* The initial states of the importer are initial states of TableReplacement.
LEMMA AbstractInit == Init => Abstract!Init
BY SessionFacts DEF Init, Abstract!Init, Abstract!Absent, CurrentTable, Ledger, NoRun, Names

\* A step that changes neither the names nor the ledger changes nothing of the abstract
\* table: what a current table holds is never copied again.
LEMMA AbstractTable ==
  ASSUME IInv, TypeOK', [Next]_vars, catalog'["companies"] = catalog["companies"]
  PROVE  catalog["companies"] \in Imports =>
           copied'[catalog["companies"]] = copied[catalog["companies"]]
<1> SUFFICES ASSUME NEW i \in Imports, Current(i) PROVE copied'[i] = copied[i]
  BY DEF Current
<1>1. runs[i].status = "succeeded" BY DEF IInv, LedgerDescribesTable
<1>2. RunOf(i) BY DEF IInv, RunsAgree
<1>3. pc[i] # "copying" BY <1>1, <1>2 DEF RunOf, FromSwap, FromLoad, CleanupPhases, Ended
<1>4. ASSUME NEW j \in Imports, StreamJsonl(j) PROVE copied'[i] = copied[i]
  <2>1. i # j BY <1>3, <1>4 DEF StreamJsonl
  <2>2. copied' = copied \/ \E r : copied' = [copied EXCEPT ![j] = r]
    BY <1>4 DEF StreamJsonl
  <2> QED BY <2>1, <2>2 DEF IInv, TypeOK
<1>5. ASSUME ~\E j \in Imports : StreamJsonl(j) PROVE copied' = copied
  BY <1>5 DEF Next, ClientStep, Hash, Resolve, VerifyTarget, ScratchDropped, RunStarted, Loaded,
     Validate, Swapped, MainRefused, CleanupLocked, CleanupDropped, CleanupMarked,
     CleanupRefused, ClientFault, MainBroken, CleanupBroken, Kill, Commit, CommitBegin,
     CommitLoad, CommitIndex, CommitSwap, CommitMark, SessionStep, GrantLock,
     CommitScratchDrop, Refuse, RefuseByFault, EndSession, Migrate, EditFile, DiskFull,
     DiskRecovered, Quiescent, vars
<1> QED BY <1>4, <1>5

\* Every step of the importer is a step of TableReplacement, or changes nothing a reader sees.
LEMMA AbstractStep ==
  ASSUME IInv, TypeOK', [Next]_vars
  PROVE  Abstract!Next \/ (CurrentTable' = CurrentTable /\ Ledger' = Ledger)
<1>1. ASSUME catalog'["companies"] = catalog["companies"] PROVE CurrentTable' = CurrentTable
  BY <1>1, AbstractTable DEF CurrentTable
<1>2. ASSUME runs' = runs PROVE Ledger' = Ledger
  BY <1>2 DEF Ledger
<1>3. ASSUME NEW i \in Imports, CommitBegin(i) PROVE Abstract!Next
  <2>1. CurrentTable' = CurrentTable BY <1>1, <1>3 DEF CommitBegin
  <2>2. Ledger[i].status = "absent"
    <3>1. RunOf(i) BY DEF IInv, RunsAgree
    <3> QED BY <1>3, <3>1 DEF CommitBegin, RunOf, Ledger
  <2>3. Ledger' = [j \in Imports |-> IF j = i THEN [status |-> "running", rows |-> 0]
                                   ELSE Abstract!Fail(Ledger[j])]
    BY <1>3 DEF CommitBegin, Ledger, Superseded, Finished, Abstract!Fail
  <2>4. Abstract!Begin(i) BY <2>1, <2>2, <2>3 DEF Abstract!Begin
  <2> QED BY <2>4 DEF Abstract!Next
<1>4. ASSUME NEW i \in Imports, CommitSwap(i) PROVE Abstract!Next
  <2>1. catalog'["companies"] = i
    <3>1. catalog["companies_next"] = i BY <1>4 DEF CommitSwap, IInv, StagedIsMine, StagedBy
    <3> QED BY <1>4, <3>1, SwapSpec DEF CommitSwap, IInv, TypeOK
  <2>2. catalog["companies_next_pkey"] = i
    <3>1. catalog["companies_next_pkey"] # None
      BY <1>4, StagedNames DEF CommitSwap, CanSwap, CanSwapNames, CurrentIndexes
    <3>2. catalog["companies_next"] = i BY <1>4 DEF CommitSwap, IInv, StagedIsMine, StagedBy
    <3> QED BY <3>1, <3>2 DEF IInv, CanonicalCatalog, NextIndexes
  <2>3. /\ copied[i].content # None /\ copied[i].content \notin Rejected \cup Duplicated
        /\ copied[i].rows = Rows[copied[i].content] /\ copied[i].rows >= 1
    <3>1. CopiedBy(i) BY DEF IInv, CopiedWhole
    <3> QED BY <1>4, <2>2, <3>1 DEF CommitSwap, CopiedBy
  <2>4. copied[i].content \in Installable /\ copied' = copied
    BY <1>4, <2>3 DEF Installable, CommitSwap, IInv, TypeOK
  <2>5. CurrentTable' = [run |-> i, content |-> copied[i].content]
    BY <2>1, <2>4 DEF CurrentTable
  <2>6. Ledger' = [Ledger EXCEPT ![i] = [status |-> "succeeded", rows |-> Rows[copied[i].content]]]
    BY <1>4, <2>3 DEF CommitSwap, Ledger, Finished, IInv, TypeOK
  <2>7. CurrentTable.run # None /\ Ledger[i].status = "running"
    BY <1>4 DEF CommitSwap, CanSwap, CanSwapNames, CurrentTable, Ledger
  <2>8. Abstract!Publish(i) BY <2>4, <2>5, <2>6, <2>7 DEF Abstract!Publish
  <2> QED BY <2>8 DEF Abstract!Next
<1>5. ASSUME NEW i \in Imports, CommitMark(i)
      PROVE  Abstract!Next \/ (CurrentTable' = CurrentTable /\ Ledger' = Ledger)
  <2>1. CurrentTable' = CurrentTable BY <1>1, <1>5 DEF CommitMark
  <2>2. CASE runs[i].status = "running"
    <3>1. Ledger' = [Ledger EXCEPT ![i] = Abstract!Fail(Ledger[i])]
      BY <1>5, <2>2 DEF CommitMark, Ledger, MarkedFailed, Finished, Abstract!Fail, IInv, TypeOK
    <3>2. Abstract!Abandon(i) BY <2>1, <2>2, <3>1 DEF Abstract!Abandon, Ledger
    <3> QED BY <3>2 DEF Abstract!Next
  <2>3. CASE runs[i].status # "running"
    <3>1. runs' = runs BY <1>5, <2>3 DEF CommitMark, MarkedFailed, IInv, TypeOK
    <3> QED BY <1>2, <2>1, <3>1
  <2> QED BY <2>2, <2>3
<1>6. ASSUME Migrate PROVE Abstract!Next
  <2>1. catalog["companies"] = None /\ catalog'["companies"] = Initial /\ runs' = runs
    BY <1>6 DEF Migrate, Names
  <2>2. Abstract!Create
    BY <1>2, <2>1, SessionFacts DEF Abstract!Create, CurrentTable
  <2> QED BY <2>2 DEF Abstract!Next
<1>7. ASSUME NEW s \in Sessions, CommitScratchDrop(s)
      PROVE  CurrentTable' = CurrentTable /\ Ledger' = Ledger
  <2>1. "companies" \in Names BY DEF Names
  <2>2. catalog'["companies"] = catalog["companies"]
    BY <1>7, <2>1, ScratchDropSpec DEF CommitScratchDrop, IInv, TypeOK, CanonicalCatalog
  <2> QED BY <1>1, <1>2, <1>7, <2>2 DEF CommitScratchDrop
<1>8. ASSUME NEW i \in Imports, CommitLoad(i) \/ CommitIndex(i)
      PROVE  CurrentTable' = CurrentTable /\ Ledger' = Ledger
  <2>1. catalog'["companies"] = catalog["companies"]
    BY <1>8 DEF CommitLoad, CommitIndex, AfterIndexing, Names, NextIndexes, IInv, TypeOK
  <2>2. runs' = runs BY <1>8 DEF CommitLoad, CommitIndex
  <2> QED BY <1>1, <1>2, <2>1, <2>2
<1>9. CASE \E i \in Imports : CommitBegin(i) \/ CommitSwap(i) \/ CommitMark(i)
  BY <1>3, <1>4, <1>5, <1>9
<1>10. CASE Migrate \/ (\E s \in Sessions : CommitScratchDrop(s))
            \/ \E i \in Imports : CommitLoad(i) \/ CommitIndex(i)
  BY <1>6, <1>7, <1>8, <1>10
<1> QED BY <1>1, <1>2, <1>9, <1>10, RunsFrame, CatalogFrame

\* The importer implements TableReplacement.
THEOREM Refinement == Spec => ImplementsTableReplacement
<1>1. Init => Abstract!Init BY AbstractInit
<1>2. IInv /\ IInv' /\ [Next]_vars => [Abstract!Next]_<<CurrentTable, Ledger>>
  <2> SUFFICES ASSUME IInv, IInv', [Next]_vars
               PROVE  [Abstract!Next]_<<CurrentTable, Ledger>>
    OBVIOUS
  <2>1. TypeOK' BY DEF IInv
  <2> QED BY <2>1, AbstractStep
<1> QED BY <1>1, <1>2, Invariance, PTL DEF Spec, Abstract!Spec, ImplementsTableReplacement
=============================================================================
