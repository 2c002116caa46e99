--------------------------- MODULE PdlArchiveProofs ---------------------------
(***************************************************************************)
(* Proofs about PdlArchive, for every set of invocations, arguments, files *)
(* and contents and whatever the bounds on faults and edits; those of the  *)
(* second half, for invocations that do not overlap.                       *)
(***************************************************************************)
EXTENDS PdlArchiveInv, FiniteSetTheorems, TLAPS

-----------------------------------------------------------------------------
(* Steps *)

\* Every step of an invocation is one of these moves, apart from the count of faults: its
\* control moves, it hashes, it looks at rows, it looks at or stores an object, it inserts.
Starting(a) ==
  /\ pc[a] = "start"
  /\ Concurrent \/ \A b \in Archivers \ {a} : pc[b] \in Ended \cup {"start"}
  /\ Go(a, "stat")
  /\ UNCHANGED <<step, plan, uploaded, database, objects>>

Failing(a) ==
  /\ Active(a)
  /\ Go(a, "refused") \/ Go(a, "broken")
  /\ pending' = [pending EXCEPT ![a] = NoRows]
  /\ UNCHANGED <<step, plan, uploaded, found, snapshots, files, objects>>

Identifying(a) ==
  /\ pc[a] = "stat" /\ local[PathOf(a, step[a])].content # None
  /\ Go(a, "hash")
  /\ identity' = [identity EXCEPT ![a][step[a]] = local[PathOf(a, step[a])].version]
  /\ UNCHANGED <<step, hashed, uploaded, database, objects>>

Hashing(a) ==
  /\ pc[a] = "hash" /\ SameFile(a, step[a])
  /\ hashed' = [hashed EXCEPT ![a][step[a]] = local[PathOf(a, step[a])].content]
  /\ \/ step[a] = "original_csv" /\ Go(a, "stat") /\ At(a, "original_json") /\ UNCHANGED pending
     \/ /\ step[a] # "original_csv" /\ At(a, "original_csv")
        /\ \/ DistinctNames(a) /\ Go(a, "find") /\ UNCHANGED pending
           \/ Refuse(a)
  /\ UNCHANGED <<identity, uploaded, found, snapshots, files, objects>>

Finding(a) ==
  /\ \/ pc[a] = "find" /\ Go(a, "compare")
     \/ pc[a] = "refind" /\ Go(a, "recompare")
  /\ \/ /\ \A r \in snapshots : r.acquired # request[a].acquired
        /\ found' = [found EXCEPT ![a] = None]
     \/ \E r \in snapshots :
          /\ r.acquired = request[a].acquired /\ r = SnapshotRow(a, r.id)
          /\ found' = [found EXCEPT ![a] = r.id]
  /\ UNCHANGED <<step, plan, uploaded, pending, snapshots, files, objects>>

Comparing(a) ==
  /\ FilesAgree(a)
  /\ \/ pc[a] = "compare" /\ Go(a, "validate")
     \/ pc[a] = "recompare" /\ found[a] = None /\ Go(a, "insert_snapshot")
     \/ pc[a] = "recompare" /\ found[a] # None /\ Go(a, "insert_file")
  /\ UNCHANGED <<step, plan, uploaded, database, objects>>

Validating(a) ==
  /\ SameFile(a, step[a])
  /\ \/ pc[a] = "validate" /\ Go(a, "head")
     \/ pc[a] = "revalidate" /\ Go(a, "verify")
  /\ UNCHANGED <<step, plan, uploaded, database, objects>>

Missing(a) ==
  /\ pc[a] = "head" /\ objects[ObjectKey(a, step[a])] = None /\ Go(a, "upload")
  /\ UNCHANGED <<step, plan, uploaded, database, objects>>

Seeing(a) ==
  /\ objects[ObjectKey(a, step[a])] # None
  /\ objects[ObjectKey(a, step[a])].sha256 = Sha(a, step[a])
  /\ \/ pc[a] = "head" /\ uploaded' = uploaded
     \/ pc[a] = "verify" /\ uploaded' = [uploaded EXCEPT ![a] = @ \cup {step[a]}]
  /\ NextArtifact(a)
  /\ UNCHANGED <<plan, database, objects>>

Transferring(a) ==
  /\ pc[a] = "upload" /\ Body(a) # None /\ Put(a)
  /\ \/ step[a] = "manifest" /\ Go(a, "verify") /\ UNCHANGED pending
     \/ step[a] # "manifest" /\ Go(a, "revalidate") /\ UNCHANGED pending
     \/ Go(a, "broken") /\ UNCHANGED pending
  /\ UNCHANGED <<step, plan, uploaded, found, snapshots, files>>

InsertingSnapshot(a) ==
  /\ pc[a] = "insert_snapshot" /\ Go(a, "insert_file")
  /\ \A q \in snapshots : ~SnapshotsClash(NewSnapshot(a), q)
  /\ \A b \in Archivers \ {a} : \A q \in pending[b].snapshots : ~SnapshotsClash(NewSnapshot(a), q)
  /\ pending' = [pending EXCEPT ![a] = [snapshots |-> {NewSnapshot(a)}, files |-> {}]]
  /\ found' = [found EXCEPT ![a] = a]
  /\ UNCHANGED <<step, plan, uploaded, snapshots, files, objects>>

PassingFile(a) ==
  /\ pc[a] = "insert_file" /\ NextFile(a)
  /\ \/ NewFile(a) \in files /\ (\E q \in files : q.snapshot = found[a] /\ q.role = step[a])
        /\ UNCHANGED pending
     \/ /\ \A q \in files : ~(q.snapshot = found[a] /\ q.role = step[a])
        /\ \A q \in files \cup pending[a].files : ~FilesClash(NewFile(a), q)
        /\ \A b \in Archivers \ {a} : \A q \in pending[b].files : ~FilesClash(NewFile(a), q)
        /\ pending' = [pending EXCEPT ![a] =
             [snapshots |-> pending[a].snapshots, files |-> pending[a].files \cup {NewFile(a)}]]
  /\ UNCHANGED <<plan, uploaded, found, snapshots, files, objects>>

Committing(a) ==
  /\ pc[a] = "commit" /\ CommitRows(a)
  /\ Go(a, "succeeded") \/ Go(a, "broken")
  /\ UNCHANGED <<step, plan, uploaded, found, objects>>

Move(a) ==
  \/ Starting(a) \/ Failing(a) \/ Identifying(a) \/ Hashing(a) \/ Finding(a) \/ Comparing(a)
  \/ Validating(a) \/ Missing(a) \/ Seeing(a) \/ Transferring(a)
  \/ InsertingSnapshot(a) \/ PassingFile(a) \/ Committing(a)

\* Nobody but the environment moves.
Standing ==
  UNCHANGED <<pc, step, plan, uploaded, database, objects, request>>

\* Every step of an invocation is a move.
LEMMA MovesOf ==
  ASSUME NEW a \in Archivers, ArchiverStep(a) \/ Break(a)
  PROVE  Move(a) /\ UNCHANGED environment
<1> USE DEF environment
<1>1. CASE Begin(a) BY <1>1 DEF Begin, Starting, Move
<1>2. CASE Stat(a)
  BY <1>2 DEF Stat, Refuse, Failing, Active, Ended, Identifying, Move, plan, database
<1>3. CASE Hash(a)
  <2>1. CASE SameFile(a, step[a]) BY <1>3, <2>1 DEF Hash, Hashing, Move
  <2>2. CASE ~SameFile(a, step[a])
    BY <1>3, <2>2 DEF Hash, Refuse, Failing, Active, Ended, Move, plan
  <2> QED BY <2>1, <2>2
<1>4. ASSUME NEW phase, FindSnapshot(a, phase), pc[a] \in {"find", "refind"},
             pc[a] = "find" => phase = "compare", pc[a] = "refind" => phase = "recompare"
      PROVE  Move(a) /\ UNCHANGED environment
  <2> DEFINE found0 == {r \in snapshots : r.acquired = request[a].acquired}
  <2>1. CASE found0 = {} /\ found' = [found EXCEPT ![a] = None] /\ Go(a, phase) /\ UNCHANGED pending
    BY <1>4, <2>1 DEF FindSnapshot, Finding, Move, plan
  <2>2. ASSUME NEW r \in found0, SameSnapshot(a, r), found' = [found EXCEPT ![a] = r.id],
               Go(a, phase), UNCHANGED pending
        PROVE  Move(a) /\ UNCHANGED environment
    BY <1>4, <2>2 DEF FindSnapshot, SameSnapshot, Finding, Move, plan
  <2>3. CASE Refuse(a) /\ UNCHANGED found
    BY <1>4, <2>3 DEF FindSnapshot, Refuse, Failing, Active, Ended, Move, plan
  <2> QED BY <1>4, <2>1, <2>2, <2>3 DEF FindSnapshot
<1>5. CASE Preflight(a) \/ Refind(a)
  <2>1. CASE pc[a] = "find" /\ FindSnapshot(a, "compare") BY <1>4, <2>1
  <2>2. CASE pc[a] = "refind" /\ FindSnapshot(a, "recompare") BY <1>4, <2>2
  <2>3. CASE pc[a] = "compare" /\ CompareFiles(a, "validate")
    BY <2>3 DEF CompareFiles, Refuse, Comparing, Failing, Active, Ended, Move, plan, database
  <2>4. CASE pc[a] = "recompare"
             /\ CompareFiles(a, IF found[a] = None THEN "insert_snapshot" ELSE "insert_file")
    BY <2>4 DEF CompareFiles, Refuse, Comparing, Failing, Active, Ended, Move, plan, database
  <2> QED BY <1>5, <2>1, <2>2, <2>3, <2>4 DEF Preflight, Refind
<1>6. CASE ValidateBefore(a) \/ ValidateAfter(a)
  BY <1>6
  DEF ValidateBefore, ValidateAfter, Validate, Refuse, Validating, Failing, Active, Ended, Move,
      plan, database
<1>7. CASE Head(a)
  BY <1>7
  DEF Head, RemoteMatches, Refuse, Missing, Seeing, Failing, Active, Ended, Move, plan, database
<1>8. CASE Upload(a)
  BY <1>8 DEF Upload, Uploaded, Refuse, Transferring, Failing, Active, Ended, Move, plan, Go
<1>9. CASE Verify(a)
  BY <1>9 DEF Verify, RemoteMatches, Refuse, Seeing, Failing, Active, Ended, Move, plan, database
<1>10. CASE InsertSnapshot(a)
  BY <1>10
  DEF InsertSnapshot, MayInsert, WaitsFor, Refuse, InsertingSnapshot, Failing, Active, Ended,
      Move, plan
<1>11. CASE InsertFile(a)
  <2> DEFINE existing == {q \in files : q.snapshot = found[a] /\ q.role = step[a]}
  <2>1. CASE existing # {} /\ existing = {NewFile(a)} /\ NextFile(a) /\ UNCHANGED pending
    <3>1. NewFile(a) \in existing BY <2>1
    <3> QED BY <1>11, <2>1, <3>1 DEF InsertFile, PassingFile, Move, plan
  <2>2. CASE /\ existing = {}
             /\ ~ \E q \in files \cup pending[a].files : FilesClash(NewFile(a), q)
             /\ MayInsert(a)
             /\ NextFile(a)
             /\ pending' = [pending EXCEPT ![a] =
                  [snapshots |-> pending[a].snapshots,
                   files |-> pending[a].files \cup {NewFile(a)}]]
    BY <1>11, <2>2 DEF InsertFile, MayInsert, WaitsFor, PassingFile, Move, plan
  <2>3. CASE Refuse(a) /\ UNCHANGED step
    BY <1>11, <2>3 DEF InsertFile, Refuse, Failing, Active, Ended, Move, plan
  <2> QED BY <1>11, <2>1, <2>2, <2>3 DEF InsertFile
<1>12. CASE Commit(a) BY <1>12 DEF Commit, Committing, Move, plan
<1>13. CASE DeadlockDetected(a)
  <2>1. pc[a] \in {"insert_snapshot", "insert_file"} BY <1>13 DEF DeadlockDetected, WaitsFor
  <2> QED BY <1>13, <2>1 DEF DeadlockDetected, Refuse, Failing, Active, Ended, Move, plan
<1>14. CASE Break(a)
  <2>1. CASE pending' = [pending EXCEPT ![a] = NoRows] /\ UNCHANGED <<snapshots, files, objects>>
    BY <1>14, <2>1 DEF Break, Failing, Active, Move, plan
  <2>2. CASE pc[a] = "upload" /\ Body(a) # None /\ Put(a) /\ UNCHANGED <<pending, snapshots, files>>
    BY <1>14, <2>2 DEF Break, Transferring, Move, plan
  <2>3. CASE pc[a] = "commit" /\ CommitRows(a) /\ UNCHANGED objects
    BY <1>14, <2>3 DEF Break, Committing, Move, plan
  <2> QED BY <1>14, <2>1, <2>2, <2>3 DEF Break
<1> QED BY <1>1, <1>2, <1>3, <1>5, <1>6, <1>7, <1>8, <1>9, <1>10, <1>11, <1>12, <1>13, <1>14
        DEF ArchiverStep

\* A step is a move, or a change of a file, or nothing.
LEMMA Moves ==
  ASSUME [Next]_vars
  PROVE  \/ \E a \in Archivers : Move(a) /\ UNCHANGED <<request, local, edits>>
         \/ Standing /\ \E p \in Paths : EditFile(p)
         \/ Standing /\ UNCHANGED <<local, edits>>
<1>1. CASE \E a \in Archivers : ArchiverStep(a) \/ Break(a) BY <1>1, MovesOf DEF environment
<1>2. CASE \E p \in Paths : EditFile(p) BY <1>2 DEF EditFile, Standing
<1>3. CASE UNCHANGED vars BY <1>3 DEF vars, environment, Standing
<1> QED BY <1>1, <1>2, <1>3 DEF Next, Quiescent

-----------------------------------------------------------------------------
(* Types *)

LEMMA StepFacts ==
  /\ Roles = {"original_csv", "original_json"} /\ Steps = Roles \cup {"manifest"}
  /\ "original_csv" \in Roles /\ "original_json" \in Roles /\ "manifest" \in Steps \ Roles
  /\ Roles \subseteq Steps
BY DEF Roles, Steps

\* The arguments name local files and make keys of the bucket.
LEMMA ArgumentFacts ==
  ASSUME TypeOK, NEW a \in Archivers
  PROVE  /\ request[a] \in Requests /\ request[a].acquired \in Acquired
         /\ \A role \in Roles : PathOf(a, role) \in Paths
         /\ \A s \in Steps : ObjectKey(a, s) \in Keys
<1>1. request[a] \in Requests BY DEF TypeOK
<1>2. request[a].path \in [Roles -> Paths] /\ request[a].acquired \in Acquired
  BY <1>1, RequestsAssumption
<1>3. \A role \in Roles : PathOf(a, role) \in Paths BY <1>2 DEF PathOf
<1>4. \A s \in Steps : (IF s = "manifest" THEN ManifestName ELSE Filename[PathOf(a, s)]) \in Filenames
  BY <1>3, StepFacts DEF Filenames
<1> QED BY <1>1, <1>2, <1>3, <1>4 DEF ObjectKey, Keys

\* Arguments do not change, and neither do the keys they make.
LEMMA Fixed ==
  ASSUME request' = request
  PROVE  /\ \A a, s : ObjectKey(a, s)' = ObjectKey(a, s)
         /\ \A a, role : PathOf(a, role)' = PathOf(a, role)
         /\ \A a, id : SnapshotRow(a, id)' = SnapshotRow(a, id)
         /\ \A a : DistinctNames(a)' <=> DistinctNames(a)
BY DEF ObjectKey, PathOf, SnapshotRow, DistinctNames

LEMMA Arguments ==
  ASSUME [Next]_vars
  PROVE  request' = request
BY Moves DEF Standing

\* A move is of one invocation.
LEMMA Frame ==
  ASSUME TypeOK, NEW a \in Archivers, Move(a)
  PROVE  \A b \in Archivers \ {a} :
           /\ pc'[b] = pc[b] /\ step'[b] = step[b] /\ identity'[b] = identity[b]
           /\ hashed'[b] = hashed[b] /\ uploaded'[b] = uploaded[b] /\ found'[b] = found[b]
           /\ pending'[b] = pending[b]
<1> SUFFICES ASSUME NEW b \in Archivers \ {a}
             PROVE  /\ pc'[b] = pc[b] /\ step'[b] = step[b] /\ identity'[b] = identity[b]
                    /\ hashed'[b] = hashed[b] /\ uploaded'[b] = uploaded[b]
                    /\ found'[b] = found[b] /\ pending'[b] = pending[b]
  OBVIOUS
<1> USE DEF TypeOK, Go, At, plan, database
<1>1. CASE Starting(a) \/ Failing(a) \/ Identifying(a) \/ Validating(a) \/ Missing(a)
  BY <1>1 DEF Starting, Failing, Identifying, Validating, Missing
<1>2. CASE Hashing(a) BY <1>2 DEF Hashing, Refuse
<1>3. CASE Finding(a) \/ Comparing(a) BY <1>3 DEF Finding, Comparing
<1>4. CASE Seeing(a) BY <1>4 DEF Seeing, NextArtifact
<1>5. CASE Transferring(a) BY <1>5 DEF Transferring
<1>6. CASE InsertingSnapshot(a) \/ Committing(a) BY <1>6 DEF InsertingSnapshot, Committing, CommitRows
<1>7. CASE PassingFile(a) BY <1>7 DEF PassingFile, NextFile
<1> QED BY <1>1, <1>2, <1>3, <1>4, <1>5, <1>6, <1>7 DEF Move

\* The rows an invocation with all hashes inserts are rows of the tables.
LEMMA RowTypes ==
  ASSUME TypeOK, NEW a \in Archivers, NEW id \in Archivers
  PROVE  /\ SnapshotRow(a, id) \in SnapshotRows
         /\ \A role \in Roles : HashedAll(a) => FileRow(a, role, id) \in FileRows
         /\ HashedAll(a) => Manifest(a) \in Manifests
         /\ HashedAll(a) => \A role \in Roles : hashed[a][role] \in Contents
<1>1. /\ request[a] \in Requests /\ request[a].acquired \in Acquired
      /\ \A s \in Steps : ObjectKey(a, s) \in Keys
  BY ArgumentFacts
<1>2. request[a].url \in {r.url : r \in Requests} BY <1>1
<1>3. [role \in Roles |-> ObjectKey(a, role)] \in [Roles -> Keys] BY <1>1, StepFacts
<1>4. SnapshotRow(a, id) \in SnapshotRows BY <1>1, <1>2, StepFacts DEF SnapshotRow, SnapshotRows
<1>5. ASSUME NEW role \in Roles, HashedAll(a) PROVE FileRow(a, role, id) \in FileRows
  BY <1>1, <1>5, StepFacts DEF HashedAll, FileRow, FileRows
<1>6. ASSUME HashedAll(a) PROVE Manifest(a) \in Manifests
  BY <1>1, <1>2, <1>3, <1>6 DEF HashedAll, Manifest, Manifests
<1> QED BY <1>4, <1>5, <1>6 DEF HashedAll

\* The object an upload stores.
LEMMA PutSpec ==
  ASSUME IInv, NEW a \in Archivers, Transferring(a)
  PROVE  /\ ObjectKey(a, step[a]) \in Keys
         /\ objects' \in [Keys -> Objects \cup {None}]
         /\ objects'[ObjectKey(a, step[a])] \in Objects
         /\ objects'[ObjectKey(a, step[a])].body = Body(a)
         /\ objects'[ObjectKey(a, step[a])].sha256 = Sha(a, step[a])
         /\ \A k \in Keys \ {ObjectKey(a, step[a])} : objects'[k] = objects[k]
<1> DEFINE key == ObjectKey(a, step[a])
           object == [body |-> Body(a), sha256 |-> Sha(a, step[a])]
<1>1. TypeOK /\ HashedAll(a) /\ step[a] \in Steps
  BY DEF IInv, PlanFits, Transferring, Planned, Storing, TypeOK
<1>2. /\ Manifest(a) \in Manifests /\ \A role \in Roles : hashed[a][role] \in Contents
      /\ key \in Keys /\ \A role \in Roles : PathOf(a, role) \in Paths
  BY <1>1, RowTypes, ArgumentFacts
<1>3. Sha(a, step[a]) \in Contents \cup Manifests BY <1>1, <1>2, StepFacts DEF Sha
<1>4. Body(a) \in Contents \cup Manifests
  <2>1. CASE step[a] = "manifest" BY <1>2, <2>1 DEF Body
  <2>2. CASE step[a] # "manifest"
    <3>1. PathOf(a, step[a]) \in Paths BY <1>1, <1>2, <2>2, StepFacts
    <3>2. local[PathOf(a, step[a])].content \in Contents \cup {None} BY <1>1, <3>1 DEF TypeOK
    <3> QED BY <2>2, <3>2 DEF Body, Transferring
  <2> QED BY <2>1, <2>2
<1>5. object \in Objects BY <1>3, <1>4 DEF Objects
<1>6. object.body = Body(a) /\ object.sha256 = Sha(a, step[a]) OBVIOUS
<1>7. objects' = [objects EXCEPT ![key] = object] BY DEF Transferring, Put
<1>8. objects \in [Keys -> Objects \cup {None}] BY <1>1 DEF TypeOK
<1> HIDE DEF object, key
<1>9. objects'[key] = object /\ objects' \in [Keys -> Objects \cup {None}]
  BY <1>2, <1>5, <1>7, <1>8
<1>10. \A k \in Keys \ {key} : objects'[k] = objects[k] BY <1>7, <1>8
<1> QED BY <1>2, <1>5, <1>6, <1>9, <1>10 DEF key

\* What a transaction of an invocation with all hashes inserts has the type of the tables.
LEMMA PendingTypes ==
  ASSUME IInv, NEW a \in Archivers, Move(a)
  PROVE  pending' \in [Archivers -> [snapshots : SUBSET SnapshotRows, files : SUBSET FileRows]]
<1>1. TypeOK BY DEF IInv
<1>2. pending \in [Archivers -> [snapshots : SUBSET SnapshotRows, files : SUBSET FileRows]]
  BY <1>1 DEF TypeOK
<1>3. NoRows \in [snapshots : SUBSET SnapshotRows, files : SUBSET FileRows] BY DEF NoRows
<1>4. CASE UNCHANGED pending BY <1>2, <1>4
<1>5. CASE pending' = [pending EXCEPT ![a] = NoRows] BY <1>2, <1>3, <1>5
<1>6. CASE InsertingSnapshot(a)
  <2>1. NewSnapshot(a) \in SnapshotRows BY <1>1, RowTypes DEF NewSnapshot
  <2>2. [snapshots |-> {NewSnapshot(a)}, files |-> {}]
          \in [snapshots : SUBSET SnapshotRows, files : SUBSET FileRows]
    BY <2>1
  <2> QED BY <1>2, <1>6, <2>2 DEF InsertingSnapshot
<1>7. CASE PassingFile(a)
  <2>1. HashedAll(a) /\ step[a] \in Roles
    BY <1>7 DEF PassingFile, IInv, PlanFits, StepFits, Planned, Recording
  <2>2. found[a] \in Archivers
    BY <1>7 DEF PassingFile, IInv, Transactions, Inserting, Repeating
  <2>3. NewFile(a) \in FileRows BY <1>1, <2>1, <2>2, RowTypes DEF NewFile
  <2>4. pending[a].snapshots \in SUBSET SnapshotRows /\ pending[a].files \in SUBSET FileRows
    BY <1>2
  <2>5. [snapshots |-> pending[a].snapshots, files |-> pending[a].files \cup {NewFile(a)}]
          \in [snapshots : SUBSET SnapshotRows, files : SUBSET FileRows]
    BY <2>3, <2>4
  <2>6. CASE pending' = [pending EXCEPT ![a] = [snapshots |-> pending[a].snapshots,
                                                files |-> pending[a].files \cup {NewFile(a)}]]
    BY <1>2, <2>5, <2>6
  <2> QED BY <1>4, <1>7, <2>6 DEF PassingFile
<1> QED BY <1>4, <1>5, <1>6, <1>7
        DEF Move, Starting, Failing, Identifying, Hashing, Finding, Comparing, Validating, Missing,
            Seeing, Transferring, Committing, CommitRows, Refuse, database

\* Every variable keeps its type.
LEMMA TypeStep == IInv /\ [Next]_vars => TypeOK'
<1> SUFFICES ASSUME IInv, [Next]_vars PROVE TypeOK' OBVIOUS
<1> USE ArchiveBounds
<1>1. TypeOK BY DEF IInv
<1>2. faults' \in 0 .. MaxFaults
  <2>1. CASE \E a \in Archivers : Break(a) BY <2>1, <1>1 DEF Break, TypeOK
  <2>2. (\E a \in Archivers : Break(a)) \/ UNCHANGED faults
    BY DEF Next, ArchiverStep, Begin, Stat, Hash, Preflight, Refind, FindSnapshot, CompareFiles,
           ValidateBefore, ValidateAfter, Validate, Head, Upload, Verify, InsertSnapshot, InsertFile,
           Commit, DeadlockDetected, EditFile, Quiescent, vars
  <2> QED BY <1>1, <2>1, <2>2 DEF TypeOK
<1>3. edits' \in 0 .. MaxEdits
      /\ local' \in [Paths -> [content : Contents \cup {None}, version : 0 .. edits']]
  <2>1. CASE \E p \in Paths : EditFile(p)
    <3>1. PICK p \in Paths : EditFile(p) BY <2>1
    <3>2. PICK c \in Contents \cup {None} :
            local' = [local EXCEPT ![p] = [content |-> c, version |-> edits']]
      BY <3>1 DEF EditFile
    <3>3. edits' \in 0 .. MaxEdits /\ edits' \in 0 .. edits' /\ 0 .. edits \subseteq 0 .. edits'
      BY <1>1, <3>1 DEF EditFile, TypeOK
    <3>4. [content |-> c, version |-> edits'] \in [content : Contents \cup {None}, version : 0 .. edits']
      BY <3>3
    <3>5. local \in [Paths -> [content : Contents \cup {None}, version : 0 .. edits']]
      <4>1. \A v \in [content : Contents \cup {None}, version : 0 .. edits] :
              v \in [content : Contents \cup {None}, version : 0 .. edits']
        BY <3>3
      <4> QED BY <1>1, <4>1 DEF TypeOK
    <3> QED BY <3>2, <3>3, <3>4, <3>5
  <2>2. CASE UNCHANGED <<local, edits>> BY <1>1, <2>2 DEF TypeOK
  <2> QED BY <2>1, <2>2, Moves
<1>4. request' \in [Archivers -> Requests] BY <1>1, Arguments DEF TypeOK
<1>5. ASSUME NEW a \in Archivers, Move(a), UNCHANGED <<request, local, edits>> PROVE TypeOK'
  <2>1. pc' \in [Archivers -> Phases]
    <3>1. UNCHANGED pc \/ \E phase \in Phases : pc' = [pc EXCEPT ![a] = phase]
      <4>1. CASE Starting(a) \/ Failing(a) \/ Identifying(a) \/ Hashing(a) \/ Finding(a)
        BY <4>1 DEF Starting, Failing, Identifying, Hashing, Finding, Refuse, Go, Phases, Ended
      <4>2. CASE Comparing(a) \/ Validating(a) \/ Missing(a) \/ Transferring(a)
        BY <4>2 DEF Comparing, Validating, Missing, Transferring, Go, Phases, Ended
      <4>3. CASE Seeing(a) BY <4>3 DEF Seeing, NextArtifact, Go, Phases
      <4>4. CASE InsertingSnapshot(a) \/ PassingFile(a) \/ Committing(a)
        BY <4>4 DEF InsertingSnapshot, PassingFile, NextFile, Committing, Go, Phases, Ended
      <4> QED BY <1>5, <4>1, <4>2, <4>3, <4>4 DEF Move
    <3> QED BY <1>1, <3>1 DEF TypeOK
  <2>2. step' \in [Archivers -> Steps]
    BY <1>1, <1>5, StepFacts
    DEF Move, Starting, Failing, Identifying, Hashing, Finding, Comparing, Validating, Missing,
        Seeing, NextArtifact, Transferring, InsertingSnapshot, PassingFile, NextFile, Committing,
        At, TypeOK
  <2>3. identity' \in [Archivers -> [Roles -> Nat \cup {None}]]
    <3>1. CASE Identifying(a)
      <4>1. step[a] \in Roles BY <1>5, <3>1 DEF Identifying, IInv, StepFits
      <4>2. local[PathOf(a, step[a])].version \in Nat
        BY <1>1, <4>1, ArgumentFacts DEF TypeOK
      <4>3. [identity[a] EXCEPT ![step[a]] = local[PathOf(a, step[a])].version]
              \in [Roles -> Nat \cup {None}]
        BY <1>1, <4>1, <4>2 DEF TypeOK
      <4> QED BY <1>1, <3>1, <4>3 DEF Identifying, TypeOK
    <3>2. CASE UNCHANGED identity BY <1>1, <3>2 DEF TypeOK
    <3> QED BY <1>5, <3>1, <3>2
            DEF Move, Starting, Failing, Hashing, Finding, Comparing, Validating, Missing, Seeing,
                Transferring, InsertingSnapshot, PassingFile, Committing, plan
  <2>4. hashed' \in [Archivers -> [Roles -> Contents \cup {None}]]
    <3>1. CASE Hashing(a)
      <4>1. step[a] \in Roles BY <1>5, <3>1 DEF Hashing, IInv, StepFits
      <4>2. local[PathOf(a, step[a])].content \in Contents \cup {None}
        BY <1>1, <4>1, ArgumentFacts DEF TypeOK
      <4>3. [hashed[a] EXCEPT ![step[a]] = local[PathOf(a, step[a])].content]
              \in [Roles -> Contents \cup {None}]
        BY <1>1, <4>1, <4>2 DEF TypeOK
      <4> QED BY <1>1, <3>1, <4>3 DEF Hashing, TypeOK
    <3>2. CASE UNCHANGED hashed BY <1>1, <3>2 DEF TypeOK
    <3> QED BY <1>5, <3>1, <3>2
            DEF Move, Starting, Failing, Identifying, Finding, Comparing, Validating, Missing, Seeing,
                Transferring, InsertingSnapshot, PassingFile, Committing, plan
  <2>5. uploaded' \in [Archivers -> SUBSET Steps]
    <3>1. CASE Seeing(a)
      <4>1. uploaded[a] \cup {step[a]} \in SUBSET Steps BY <1>1 DEF TypeOK
      <4>2. CASE uploaded' = [uploaded EXCEPT ![a] = @ \cup {step[a]}]
        BY <1>1, <4>1, <4>2 DEF TypeOK
      <4> QED BY <1>1, <3>1, <4>2 DEF Seeing, TypeOK
    <3>2. CASE UNCHANGED uploaded BY <1>1, <3>2 DEF TypeOK
    <3> QED BY <1>5, <3>1, <3>2
            DEF Move, Starting, Failing, Identifying, Hashing, Finding, Comparing, Validating, Missing,
                Transferring, InsertingSnapshot, PassingFile, Committing
  <2>6. found' \in [Archivers -> Archivers \cup {None}]
    <3>1. CASE Finding(a)
      <4>1. \A r \in snapshots : r.id \in Archivers BY <1>1 DEF TypeOK, SnapshotRows
      <4> QED BY <1>1, <3>1, <4>1 DEF Finding, TypeOK
    <3> QED BY <1>1, <1>5, <3>1
            DEF Move, Starting, Failing, Identifying, Hashing, Comparing, Validating, Missing, Seeing,
                Transferring, InsertingSnapshot, PassingFile, Committing, TypeOK, database
  <2>7. pending' \in [Archivers -> [snapshots : SUBSET SnapshotRows, files : SUBSET FileRows]]
    BY <1>5, PendingTypes
  <2>8. snapshots' \subseteq SnapshotRows /\ files' \subseteq FileRows
    <3>1. CASE Committing(a)
      <4>1. pending[a].snapshots \subseteq SnapshotRows /\ pending[a].files \subseteq FileRows
        BY <1>1 DEF TypeOK
      <4> QED BY <1>1, <3>1, <4>1 DEF Committing, CommitRows, TypeOK
    <3> QED BY <1>1, <1>5, <3>1
            DEF Move, Starting, Failing, Identifying, Hashing, Finding, Comparing, Validating, Missing,
                Seeing, Transferring, InsertingSnapshot, PassingFile, TypeOK, database
  <2>9. objects' \in [Keys -> Objects \cup {None}]
    <3>1. CASE Transferring(a) BY <3>1, PutSpec
    <3> QED BY <1>1, <1>5, <3>1
            DEF Move, Starting, Failing, Identifying, Hashing, Finding, Comparing, Validating, Missing,
                Seeing, InsertingSnapshot, PassingFile, Committing, TypeOK
  <2> QED BY <1>2, <1>3, <1>4, <2>1, <2>2, <2>3, <2>4, <2>5, <2>6, <2>7, <2>8, <2>9 DEF TypeOK
<1>6. CASE Standing BY <1>1, <1>2, <1>3, <1>6 DEF Standing, plan, database, TypeOK
<1> QED BY <1>5, <1>6, Moves

-----------------------------------------------------------------------------
(* Whatever invocations overlap *)

\* The artifact fits the phase, and what depends on the hashes comes after them.
LEMMA StepFitsStep == IInv /\ [Next]_vars => StepFits'
<1> SUFFICES ASSUME IInv, [Next]_vars PROVE StepFits' OBVIOUS
<1>1. TypeOK /\ StepFits BY DEF IInv
<1>2. ASSUME NEW a \in Archivers, Move(a) PROVE StepFits'
  <2>1. /\ pc'[a] \in {"stat", "hash", "validate", "revalidate", "insert_file"} => step'[a] \in Roles
        /\ pc'[a] \in {"start", "find", "compare", "refind", "recompare", "insert_snapshot"} =>
             step'[a] = "original_csv"
        /\ pc'[a] = "commit" => step'[a] = "original_json"
    <3> USE <1>1, StepFacts DEF TypeOK, StepFits, Go, At
    <3>1. CASE Starting(a) BY <3>1 DEF Starting
    <3>2. CASE Failing(a) BY <3>2 DEF Failing
    <3>3. CASE Identifying(a) BY <3>3 DEF Identifying
    <3>4. CASE Hashing(a) BY <3>4 DEF Hashing, Refuse
    <3>5. CASE Finding(a) BY <3>5 DEF Finding
    <3>6. CASE Comparing(a) BY <3>6 DEF Comparing
    <3>7. CASE Validating(a) BY <3>7 DEF Validating
    <3>8. CASE Missing(a) BY <3>8 DEF Missing
    <3>9. CASE Seeing(a) BY <3>9 DEF Seeing, NextArtifact
    <3>10. CASE Transferring(a) BY <3>10 DEF Transferring
    <3>11. CASE InsertingSnapshot(a) BY <3>11 DEF InsertingSnapshot
    <3>12. CASE PassingFile(a) BY <3>12 DEF PassingFile, NextFile
    <3>13. CASE Committing(a) BY <3>13 DEF Committing
    <3> QED BY <1>2, <3>1, <3>2, <3>3, <3>4, <3>5, <3>6, <3>7, <3>8, <3>9, <3>10, <3>11, <3>12,
               <3>13 DEF Move
  <2> QED BY <1>1, <1>2, <2>1, Frame DEF StepFits
<1>3. CASE Standing BY <1>1, <1>3 DEF Standing, StepFits
<1> QED BY <1>2, <1>3, Moves

LEMMA PlanFitsStep == IInv /\ [Next]_vars => PlanFits'
<1> SUFFICES ASSUME IInv, [Next]_vars PROVE PlanFits' OBVIOUS
<1>1. TypeOK /\ StepFits /\ PlanFits BY DEF IInv
<1>2. request' = request BY Arguments
<1>3. \A a : DistinctNames(a)' <=> DistinctNames(a) BY <1>2, Fixed
<1>4. ASSUME NEW a \in Archivers, Move(a), UNCHANGED <<request, local, edits>> PROVE PlanFits'
  <2>1. /\ pc'[a] \in {"start", "stat", "hash"} =>
             hashed'[a][step'[a]] = None /\ hashed'[a]["original_json"] = None
        /\ pc'[a] \in {"stat", "hash"} /\ step'[a] = "original_json" =>
             hashed'[a]["original_csv"] \in Contents
        /\ pc'[a] \in {"start", "stat", "hash", "find", "compare"} => uploaded'[a] = {}
        /\ pc'[a] \in Planned \/ uploaded'[a] # {} =>
             hashed'[a] \in [Roles -> Contents] /\ DistinctNames(a)
    <3> USE DEF Go, At, plan, Planned, Storing, Recording, HashedAll
    <3> USE <1>1 DEF TypeOK, PlanFits
    <3>1. CASE Starting(a) BY <3>1 DEF Starting, StepFits
    <3>2. CASE Failing(a) BY <3>2 DEF Failing
    <3>3. CASE Identifying(a) BY <3>3 DEF Identifying
    <3>4. CASE Hashing(a)
      <4>1. step[a] \in Roles BY <3>4 DEF Hashing, StepFits
      <4>2. local[PathOf(a, step[a])].content \in Contents
        <5>1. PathOf(a, step[a]) \in Paths BY <4>1, ArgumentFacts
        <5>2. local[PathOf(a, step[a])].content \in Contents \cup {None} BY <5>1
        <5> QED BY <3>4, <5>2 DEF Hashing, SameFile
      <4>3. hashed'[a] = [hashed[a] EXCEPT ![step[a]] = local[PathOf(a, step[a])].content]
        BY <3>4 DEF Hashing
      <4>4. hashed[a] \in [Roles -> Contents \cup {None}] /\ hashed[a][step[a]] = None
            /\ uploaded'[a] = {}
        BY <3>4 DEF Hashing
      <4>5. CASE step[a] = "original_csv"
        <5>1. hashed[a]["original_json"] = None
          BY <3>4 DEF Hashing
        <5> QED BY <3>4, <4>2, <4>3, <4>4, <4>5, <5>1, StepFacts DEF Hashing
      <4>6. CASE step[a] = "original_json"
        <5>1. hashed'[a] \in [Roles -> Contents] BY <3>4, <4>2, <4>3, <4>4, <4>6, StepFacts DEF Hashing
        <5> QED BY <3>4, <4>4, <4>6, <5>1, StepFacts DEF Hashing, Refuse
      <4> QED BY <4>1, <4>5, <4>6, StepFacts
    <3>5. CASE Finding(a) BY <3>5 DEF Finding
    <3>6. CASE Comparing(a) BY <3>6 DEF Comparing, database
    <3>7. CASE Validating(a) BY <3>7 DEF Validating
    <3>8. CASE Missing(a) BY <3>8 DEF Missing
    <3>9. CASE Seeing(a)
      <4>1. pc[a] \in {"head", "verify"} /\ hashed' = hashed BY <3>9 DEF Seeing
      <4>2. pc'[a] \in {"validate", "head", "refind"} BY <3>9 DEF Seeing, NextArtifact
      <4> QED BY <4>1, <4>2
    <3>10. CASE Transferring(a) BY <3>10 DEF Transferring
    <3>11. CASE InsertingSnapshot(a) BY <3>11 DEF InsertingSnapshot
    <3>12. CASE PassingFile(a) BY <3>12 DEF PassingFile, NextFile
    <3>13. CASE Committing(a) BY <3>13 DEF Committing
    <3> QED BY <1>4, <3>1, <3>2, <3>3, <3>4, <3>5, <3>6, <3>7, <3>8, <3>9, <3>10, <3>11, <3>12,
               <3>13 DEF Move
  <2> QED BY <1>1, <1>3, <1>4, <2>1, Frame DEF PlanFits, HashedAll
<1>5. CASE Standing BY <1>1, <1>3, <1>5 DEF Standing, plan, PlanFits, HashedAll
<1> QED BY <1>4, <1>5, Moves

\* The hashes of a plan are final once both files are hashed, and so are the rows made of them.
LEMMA HashedKept ==
  ASSUME TypeOK, [Next]_vars, NEW a \in Archivers, pc[a] # "hash"
  PROVE  /\ hashed'[a] = hashed[a]
         /\ \A role, id : FileRow(a, role, id)' = FileRow(a, role, id)
         /\ \A s : Sha(a, s)' = Sha(a, s)
         /\ \A f : Collides(a, f)' <=> Collides(a, f)
<1>1. request' = request BY Arguments
<1>2. hashed'[a] = hashed[a]
  <2>1. ASSUME NEW b \in Archivers, Move(b) PROVE hashed'[a] = hashed[a]
    <3>1. CASE b = a
      BY <2>1, <3>1
      DEF Move, Starting, Failing, Identifying, Hashing, Finding, Comparing, Validating, Missing,
          Seeing, Transferring, InsertingSnapshot, PassingFile, Committing, plan
    <3> QED BY <2>1, <3>1, Frame
  <2> QED BY <2>1, Moves DEF Standing, plan
<1>3. \A s : ObjectKey(a, s)' = ObjectKey(a, s) BY <1>1, Fixed
<1>4. \A role, id : FileRow(a, role, id)' = FileRow(a, role, id) BY <1>2, <1>3 DEF FileRow
<1>5. Manifest(a)' = Manifest(a) BY <1>1, <1>2, <1>3 DEF Manifest
<1> QED BY <1>2, <1>3, <1>4, <1>5 DEF Sha, Collides

\* Only a commit changes the tables, and only a transfer changes the bucket.
LEMMA TablesAndBucket ==
  ASSUME [Next]_vars
  PROVE  /\ (\E a \in Archivers : Committing(a)) \/ UNCHANGED <<snapshots, files>>
         /\ (\E a \in Archivers : Transferring(a)) \/ UNCHANGED objects
BY Moves
DEF Move, Starting, Failing, Identifying, Hashing, Finding, Comparing, Validating, Missing,
    Seeing, Transferring, InsertingSnapshot, PassingFile, Committing, database, Standing

\* A commit records a new snapshot with both files, or nothing.
LEMMA CommitSpec ==
  ASSUME IInv, NEW a \in Archivers, Committing(a)
  PROVE  /\ Passed(a) = Roles /\ pending'[a] = NoRows /\ objects' = objects
         /\ pc[a] = "commit" /\ pc'[a] \in {"succeeded", "broken"}
         /\ \/ /\ Inserting(a)
               /\ snapshots' = snapshots \cup {SnapshotRow(a, a)}
               /\ files' = files \cup {FileRow(a, role, a) : role \in Roles}
            \/ Repeating(a) /\ UNCHANGED <<snapshots, files>>
<1>1. TypeOK /\ (Inserting(a) \/ Repeating(a)) BY DEF IInv, Transactions, Committing
<1>2. Passed(a) = Roles BY DEF Committing, Passed
<1>3. /\ pending'[a] = NoRows /\ pc'[a] \in {"succeeded", "broken"}
      /\ snapshots' = snapshots \cup pending[a].snapshots /\ files' = files \cup pending[a].files
  BY <1>1 DEF Committing, CommitRows, Go, TypeOK
<1>4. CASE Inserting(a) BY <1>2, <1>3, <1>4 DEF Inserting, Committing
<1>5. CASE Repeating(a) BY <1>2, <1>3, <1>5 DEF Repeating, NoRows, Committing
<1> QED BY <1>1, <1>2, <1>3, <1>4, <1>5 DEF Committing

\* What is recorded stays, and so does that something is stored.
LEMMA Growing ==
  ASSUME IInv, [Next]_vars
  PROVE  /\ snapshots \subseteq snapshots' /\ files \subseteq files'
         /\ \A k \in Keys : objects[k] # None => objects'[k] # None
<1>1. snapshots \subseteq snapshots' /\ files \subseteq files'
  BY TablesAndBucket DEF Committing, CommitRows
<1>2. ASSUME NEW k \in Keys, objects[k] # None PROVE objects'[k] # None
  <2>1. ASSUME NEW a \in Archivers, Transferring(a) PROVE objects'[k] # None
    BY <1>2, <2>1, PutSpec, ManifestsAssumption
  <2> QED BY <1>2, <2>1, TablesAndBucket
<1> QED BY <1>1, <1>2

\* Every change of a file gives it an identity no plan has.
LEMMA EditSpec ==
  ASSUME TypeOK, NEW p \in Paths, EditFile(p)
  PROVE  /\ edits \in Nat /\ edits' = edits + 1
         /\ \A q \in Paths : local'[q] = local[q] \/ local'[q].version = edits + 1
<1>1. edits \in Nat /\ edits' = edits + 1 BY ArchiveBounds DEF EditFile, TypeOK
<1>2. PICK c : local' = [local EXCEPT ![p] = [content |-> c, version |-> edits']]
  BY DEF EditFile
<1>3. \A q \in Paths \ {p} : local'[q] = local[q] BY <1>2 DEF TypeOK
<1>4. local'[p] = [content |-> c, version |-> edits'] BY <1>2 DEF TypeOK
<1>5. local'[p].version = edits' BY <1>4
<1> QED BY <1>1, <1>3, <1>5

LEMMA IdentityTellsStep == IInv /\ [Next]_vars => IdentityTells'
<1> SUFFICES ASSUME IInv, [Next]_vars, NEW a \in Archivers, NEW role \in Roles,
                    hashed'[a][role] # None
             PROVE  /\ identity'[a][role] \in 0 .. edits'
                    /\ local'[PathOf(a, role)].version = identity'[a][role] =>
                         local'[PathOf(a, role)].content = hashed'[a][role]
  BY Arguments, Fixed DEF IdentityTells
<1> DEFINE p == PathOf(a, role)
<1>1. TypeOK /\ IdentityTells /\ PlanFits /\ StepFits BY DEF IInv
<1>2. p \in Paths /\ edits \in Nat /\ local[p].version \in 0 .. edits
  BY <1>1, ArgumentFacts, ArchiveBounds DEF TypeOK
<1>3. CASE hashed'[a] = hashed[a] /\ identity'[a] = identity[a]
  <2>1. /\ identity[a][role] \in 0 .. edits
        /\ local[p].version = identity[a][role] => local[p].content = hashed[a][role]
    BY <1>1, <1>3 DEF IdentityTells
  <2>2. CASE UNCHANGED <<local, edits>> BY <1>3, <2>1, <2>2
  <2>3. CASE \E q \in Paths : EditFile(q)
    <3>1. /\ edits' = edits + 1
          /\ local'[p] = local[p] \/ local'[p].version = edits + 1
      BY <1>1, <1>2, <2>3, EditSpec
    <3> HIDE DEF p
    <3>2. identity[a][role] \in 0 .. edits' /\ identity[a][role] # edits + 1
      BY <1>2, <2>1, <3>1
    <3>3. \/ local'[p] = local[p]
          \/ local'[p].version # identity'[a][role]
      BY <1>3, <3>1, <3>2
    <3> QED BY <1>3, <2>1, <3>2, <3>3 DEF p
  <2> QED BY <2>2, <2>3, Moves
<1>4. CASE Identifying(a) /\ UNCHANGED <<local, edits>>
  <2>1. step[a] \in Roles /\ hashed[a][step[a]] = None /\ hashed' = hashed
    BY <1>1, <1>4 DEF Identifying, StepFits, PlanFits
  <2>2. role # step[a] BY <2>1
  <2>3. identity'[a][role] = identity[a][role] BY <1>1, <1>4, <2>1, <2>2 DEF Identifying, TypeOK
  <2> QED BY <1>1, <1>4, <2>1, <2>3 DEF IdentityTells
<1>5. CASE Hashing(a) /\ UNCHANGED <<local, edits>>
  <2>1. step[a] \in Roles /\ identity' = identity BY <1>1, <1>5 DEF Hashing, StepFits
  <2>2. CASE role = step[a]
    <3>1. hashed'[a][role] = local[p].content BY <1>1, <1>5, <2>1, <2>2 DEF Hashing, TypeOK
    <3>2. local[p].version = identity[a][role] BY <1>5, <2>2 DEF Hashing, SameFile
    <3> QED BY <1>2, <1>5, <2>1, <3>1, <3>2
  <2>3. CASE role # step[a]
    <3>1. hashed'[a][role] = hashed[a][role] BY <1>1, <1>5, <2>1, <2>3 DEF Hashing, TypeOK
    <3> QED BY <1>1, <1>5, <2>1, <3>1 DEF IdentityTells
  <2> QED BY <2>2, <2>3
<1>6. ASSUME NEW b \in Archivers, Move(b)
      PROVE  (hashed'[a] = hashed[a] /\ identity'[a] = identity[a]) \/ Identifying(a) \/ Hashing(a)
  <2>1. CASE b = a
    BY <1>6, <2>1
    DEF Move, Starting, Failing, Finding, Comparing, Validating, Missing,
        Seeing, Transferring, InsertingSnapshot, PassingFile, Committing, plan
  <2> QED BY <1>1, <1>6, <2>1, Frame
<1>7. (hashed'[a] = hashed[a] /\ identity'[a] = identity[a]) \/ Identifying(a) \/ Hashing(a)
  BY <1>6, Moves DEF Standing, plan
<1>8. Identifying(a) \/ Hashing(a) => UNCHANGED <<local, edits>>
  <2>1. Standing => pc'[a] = pc[a] BY DEF Standing
  <2>2. Identifying(a) \/ Hashing(a) => pc'[a] # pc[a]
    BY <1>1 DEF Identifying, Hashing, Refuse, Go, TypeOK
  <2> QED BY <2>1, <2>2, Moves
<1> QED BY <1>3, <1>4, <1>5, <1>7, <1>8

\* Who has no transaction left and is not on the way to insert has nothing to lose; the
\* transaction of the others is not touched by a move of somebody else.
LEMMA TransactionOfOthers ==
  ASSUME IInv, [Next]_vars, NEW b \in Archivers,
         pc'[b] = pc[b], step'[b] = step[b], found'[b] = found[b], pending'[b] = pending[b],
         hashed'[b] = hashed[b]
  PROVE  /\ pc'[b] \notin {"insert_file", "commit"} => pending'[b] = NoRows
         /\ pc'[b] \in {"insert_file", "commit"} => Inserting(b)' \/ Repeating(b)'
         /\ pc'[b] = "recompare" => found'[b] = None \/ FoundRecorded(b)'
         /\ pc'[b] = "insert_snapshot" => found'[b] = None
<1>1. TypeOK /\ Transactions BY DEF IInv
<1>2. request' = request /\ snapshots \subseteq snapshots' /\ files \subseteq files'
  BY Arguments, Growing
<1>3. Passed(b)' = Passed(b) BY DEF Passed
<1>4. \A id : SnapshotRow(b, id)' = SnapshotRow(b, id) BY <1>2, Fixed
<1>5. \A role, id : FileRow(b, role, id)' = FileRow(b, role, id)
  <2>1. \A s : ObjectKey(b, s)' = ObjectKey(b, s) BY <1>2, Fixed
  <2> QED BY <2>1 DEF FileRow
<1>6. Inserting(b) => Inserting(b)'
  <2>1. {FileRow(b, role, b)' : role \in Passed(b)'} = {FileRow(b, role, b) : role \in Passed(b)}
    BY <1>3, <1>5
  <2>2. SnapshotRow(b, b)' = SnapshotRow(b, b) BY <1>4
  <2> QED BY <2>1, <2>2 DEF Inserting
<1>7. Repeating(b) => Repeating(b)' BY <1>2, <1>3, <1>4, <1>5 DEF Repeating
<1>8. FoundRecorded(b) => FoundRecorded(b)' BY <1>2, <1>4 DEF FoundRecorded
<1> QED BY <1>1, <1>6, <1>7, <1>8 DEF Transactions

\* No committed row is of a snapshot that is still to be inserted.
LEMMA NotYetRecorded ==
  ASSUME IInv, NEW a \in Archivers, pc[a] \notin Ended
  PROVE  /\ \A s \in snapshots : s.id # a
         /\ \A f \in files : f.snapshot # a
BY DEF IInv, Owned, Ended

\* A file the snapshot has is the one requested, unless the snapshot is a new one.
LEMMA PassingSpec ==
  ASSUME IInv, NEW a \in Archivers, PassingFile(a)
  PROVE  \/ Repeating(a) /\ NewFile(a) \in files /\ UNCHANGED pending
         \/ /\ Inserting(a)
            /\ \A q \in files \cup pending[a].files : ~FilesClash(NewFile(a), q)
            /\ \A b \in Archivers \ {a} : \A q \in pending[b].files : ~FilesClash(NewFile(a), q)
            /\ pending' = [pending EXCEPT ![a] =
                 [snapshots |-> pending[a].snapshots, files |-> pending[a].files \cup {NewFile(a)}]]
<1>1. /\ (Inserting(a) \/ Repeating(a)) /\ pc[a] = "insert_file" /\ step[a] \in Roles
      /\ Owned /\ pc[a] \notin Ended
  BY DEF PassingFile, IInv, Transactions, StepFits, Ended
<1>2. CASE Inserting(a)
  <2>1. \A q \in files : q.snapshot # found[a] BY <1>1, <1>2, NotYetRecorded DEF Inserting, PassingFile, Ended
  <2> QED BY <1>2, <2>1 DEF PassingFile
<1>3. CASE Repeating(a)
  <2>1. PICK id \in Archivers : found[a] = id /\ SnapshotRow(a, id) \in snapshots
    BY <1>3 DEF Repeating
  <2>2. SnapshotRow(a, id).id = id BY DEF SnapshotRow
  <2>3. \E q \in files : q.snapshot = found[a] /\ q.role = step[a]
    BY <1>1, <2>1, <2>2 DEF Owned
  <2> QED BY <1>3, <2>3 DEF PassingFile
<1> QED BY <1>1, <1>2, <1>3

\* A transaction inserts a snapshot with its files, or has found all of it.
LEMMA TransactionsStep == IInv /\ [Next]_vars => Transactions'
<1> SUFFICES ASSUME IInv, [Next]_vars PROVE Transactions' OBVIOUS
<1>1. TypeOK /\ Transactions /\ StepFits BY DEF IInv
<1>2. request' = request /\ snapshots \subseteq snapshots' /\ files \subseteq files'
  BY Arguments, Growing
<1>3. \A a, id : SnapshotRow(a, id)' = SnapshotRow(a, id) BY <1>2, Fixed
<1>4. ASSUME NEW a \in Archivers, Move(a)
      PROVE  /\ pc'[a] \notin {"insert_file", "commit"} => pending'[a] = NoRows
             /\ pc'[a] \in {"insert_file", "commit"} => Inserting(a)' \/ Repeating(a)'
             /\ pc'[a] = "recompare" => found'[a] = None \/ FoundRecorded(a)'
             /\ pc'[a] = "insert_snapshot" => found'[a] = None
  <2> USE DEF TypeOK, Go
  <2>1. CASE Failing(a) BY <1>1, <2>1 DEF Failing
  <2>2. CASE Starting(a) \/ Identifying(a) \/ Validating(a) \/ Missing(a)
    BY <1>1, <2>2 DEF Starting, Identifying, Validating, Missing, Transactions, database
  <2>3. CASE Hashing(a) BY <1>1, <2>3 DEF Hashing, Refuse, Transactions
  <2>4. CASE Seeing(a) BY <1>1, <2>4 DEF Seeing, NextArtifact, Transactions, database
  <2>5. CASE Transferring(a) BY <1>1, <2>5 DEF Transferring, Transactions
  <2>6. CASE Finding(a)
    <3>1. pc'[a] \in {"compare", "recompare"} /\ pending'[a] = NoRows
      BY <1>1, <2>6 DEF Finding, Transactions
    <3>2. found'[a] = None \/ FoundRecorded(a)'
      <4>1. CASE found' = [found EXCEPT ![a] = None] BY <1>1, <4>1
      <4>2. ASSUME NEW r \in snapshots, r = SnapshotRow(a, r.id), found' = [found EXCEPT ![a] = r.id]
            PROVE  FoundRecorded(a)'
        <5>1. r.id \in Archivers /\ found'[a] = r.id BY <1>1, <4>2 DEF SnapshotRows
        <5> DEFINE id == r.id
        <5>2. SnapshotRow(a, id)' \in snapshots' BY <1>2, <1>3, <4>2
        <5> QED BY <5>1, <5>2 DEF FoundRecorded
      <4> QED BY <2>6, <4>1, <4>2 DEF Finding
    <3> QED BY <3>1, <3>2
  <2>7. CASE Comparing(a)
    <3>1. pending'[a] = NoRows /\ found'[a] = found[a] /\ step'[a] = step[a]
      BY <1>1, <2>7 DEF Comparing, Transactions, database
    <3>2. CASE pc'[a] \in {"validate", "insert_snapshot"}
      BY <1>1, <2>7, <3>1, <3>2 DEF Comparing
    <3>3. CASE pc'[a] = "insert_file" /\ pc[a] = "recompare" /\ found[a] # None
      <4>1. FoundRecorded(a) /\ step'[a] = "original_csv"
        BY <1>1, <3>1, <3>3 DEF Transactions, StepFits
      <4>2. Passed(a)' = {} BY <3>3, <4>1 DEF Passed
      <4>3. Repeating(a)' BY <1>2, <1>3, <3>1, <4>1, <4>2 DEF Repeating, FoundRecorded
      <4> QED BY <3>3, <4>3
    <3> QED BY <1>1, <2>7, <3>2, <3>3 DEF Comparing
  <2>8. CASE InsertingSnapshot(a)
    <3>1. /\ pc'[a] = "insert_file" /\ found'[a] = a /\ step'[a] = "original_csv"
          /\ pending'[a] = [snapshots |-> {NewSnapshot(a)}, files |-> {}]
      BY <1>1, <2>8 DEF InsertingSnapshot, StepFits
    <3>2. Passed(a)' = {} BY <3>1 DEF Passed
    <3>3. Inserting(a)' BY <1>3, <3>1, <3>2 DEF Inserting, NewSnapshot
    <3> QED BY <3>1, <3>3
  <2>9. CASE PassingFile(a)
    <3>1. /\ pc'[a] \in {"insert_file", "commit"} /\ found'[a] = found[a] /\ pc[a] = "insert_file"
          /\ step[a] \in Roles
          /\ Passed(a)' = Passed(a) \cup {step[a]}
      <4>1. /\ pc[a] = "insert_file" /\ step[a] \in Roles /\ found'[a] = found[a]
            /\ \/ step[a] = "original_csv" /\ step'[a] = "original_json" /\ pc'[a] = pc[a]
               \/ step[a] = "original_json" /\ pc'[a] = "commit"
        BY <1>1, <2>9, StepFacts DEF PassingFile, NextFile, At, StepFits
      <4> QED BY <4>1, StepFacts DEF Passed
    <3>2. \A role, id : FileRow(a, role, id)' = FileRow(a, role, id)
      BY <1>1, <3>1, HashedKept
    <3>3. CASE Repeating(a) /\ NewFile(a) \in files /\ UNCHANGED pending
      <4>1. Repeating(a)'
        BY <1>2, <1>3, <3>1, <3>2, <3>3 DEF Repeating, NewFile
      <4> QED BY <3>1, <4>1
    <3>4. CASE /\ Inserting(a)
               /\ pending' = [pending EXCEPT ![a] =
                    [snapshots |-> pending[a].snapshots,
                     files |-> pending[a].files \cup {NewFile(a)}]]
      <4>1. pending'[a] = [snapshots |-> pending[a].snapshots,
                           files |-> pending[a].files \cup {NewFile(a)}]
        BY <1>1, <3>4
      <4>2. pending[a].snapshots = {SnapshotRow(a, a)}
            /\ pending[a].files = {FileRow(a, role, a) : role \in Passed(a)} /\ found[a] = a
        BY <3>4 DEF Inserting
      <4>3. pending[a].files \cup {NewFile(a)} = {FileRow(a, role, a) : role \in Passed(a)'}
        BY <3>1, <4>2 DEF NewFile
      <4>4. {FileRow(a, role, a) : role \in Passed(a)'} = {FileRow(a, role, a)' : role \in Passed(a)'}
        BY <3>2
      <4>5. Inserting(a)' BY <1>3, <3>1, <4>1, <4>2, <4>3, <4>4 DEF Inserting
      <4> QED BY <3>1, <4>5
    <3> QED BY <2>9, <3>3, <3>4, PassingSpec
  <2>10. CASE Committing(a) BY <1>1, <2>10, CommitSpec
  <2> QED BY <1>4, <2>1, <2>2, <2>3, <2>4, <2>5, <2>6, <2>7, <2>8, <2>9, <2>10 DEF Move
<1>5. ASSUME NEW a \in Archivers, Move(a) PROVE Transactions'
  <2>1. ASSUME NEW b \in Archivers \ {a}
        PROVE  /\ pc'[b] \notin {"insert_file", "commit"} => pending'[b] = NoRows
               /\ pc'[b] \in {"insert_file", "commit"} => Inserting(b)' \/ Repeating(b)'
               /\ pc'[b] = "recompare" => found'[b] = None \/ FoundRecorded(b)'
               /\ pc'[b] = "insert_snapshot" => found'[b] = None
    BY <1>1, <1>5, <2>1, Frame, TransactionOfOthers
  <2> QED BY <1>4, <1>5, <2>1, <1>3 DEF Transactions
<1>6. CASE Standing
  <2>1. \A b \in Archivers : /\ pc'[b] = pc[b] /\ step'[b] = step[b] /\ found'[b] = found[b]
                             /\ pending'[b] = pending[b] /\ hashed'[b] = hashed[b]
    BY <1>6 DEF Standing, plan, database
  <2> QED BY <1>3, <2>1, TransactionOfOthers DEF Transactions
<1> QED BY <1>5, <1>6, Moves

\* A recorded snapshot is whole, and is that of an invocation that has ended.
LEMMA OwnedStep == IInv /\ [Next]_vars => Owned'
<1> SUFFICES ASSUME IInv, [Next]_vars PROVE Owned' OBVIOUS
<1>1. TypeOK /\ Owned BY DEF IInv
<1>2. \A b \in Archivers : pc[b] \in {"succeeded", "broken"} => pc'[b] = pc[b]
  <2> SUFFICES ASSUME NEW b \in Archivers, pc[b] \in {"succeeded", "broken"} PROVE pc'[b] = pc[b]
    OBVIOUS
  <2>1. ~Move(b)
    BY DEF Move, Starting, Failing, Active, Ended, Identifying, Hashing, Finding, Comparing,
           Validating, Missing, Seeing, Transferring, InsertingSnapshot, PassingFile, Committing
  <2>2. ASSUME NEW a \in Archivers, Move(a) PROVE pc'[b] = pc[b]
    BY <1>1, <2>1, <2>2, Frame
  <2> QED BY <2>2, Moves DEF Standing
<1>3. ASSUME NEW a \in Archivers, Committing(a), Inserting(a),
             snapshots' = snapshots \cup {SnapshotRow(a, a)},
             files' = files \cup {FileRow(a, role, a) : role \in Roles}
      PROVE  Owned'
  <2>1. SnapshotRow(a, a).id = a /\ pc'[a] \in {"succeeded", "broken"}
    BY <1>3, CommitSpec DEF SnapshotRow
  <2>2. \A role \in Roles : FileRow(a, role, a).snapshot = a /\ FileRow(a, role, a).role = role
    BY DEF FileRow
  <2>3. \A s \in snapshots : s.id \in Archivers BY <1>1 DEF TypeOK, SnapshotRows
  <2>4. \A s \in snapshots' : pc'[s.id] \in {"succeeded", "broken"}
    BY <1>1, <1>2, <1>3, <2>1, <2>3 DEF Owned
  <2>5. \A f \in files' : \E s \in snapshots' : s.id = f.snapshot
    BY <1>1, <1>3, <2>1, <2>2 DEF Owned
  <2>6. \A s \in snapshots', role \in Roles : \E f \in files' : f.snapshot = s.id /\ f.role = role
    BY <1>1, <1>3, <2>1, <2>2 DEF Owned
  <2> QED BY <2>4, <2>5, <2>6 DEF Owned
<1>4. CASE UNCHANGED <<snapshots, files>>
  <2>1. \A s \in snapshots : s.id \in Archivers BY <1>1 DEF TypeOK, SnapshotRows
  <2> QED BY <1>1, <1>2, <1>4, <2>1 DEF Owned
<1> QED BY <1>3, <1>4, CommitSpec, TablesAndBucket

\* Rows that wait to be committed clash neither with each other nor with committed ones.
LEMMA UniqueSnapshotsStep == IInv /\ [Next]_vars => UniqueSnapshots'
<1> SUFFICES ASSUME IInv, [Next]_vars PROVE UniqueSnapshots' OBVIOUS
<1>1. TypeOK /\ UniqueSnapshots /\ Transactions BY DEF IInv
<1>2. \A r, q : SnapshotsClash(r, q) <=> SnapshotsClash(q, r) BY DEF SnapshotsClash
<1>3. NoRows.snapshots = {} BY DEF NoRows
<1>4. ASSUME \A b \in Archivers : pending'[b].snapshots \subseteq pending[b].snapshots,
             UNCHANGED snapshots
      PROVE  UniqueSnapshots'
  BY <1>1, <1>4 DEF UniqueSnapshots, SnapshotsClash
<1>5. ASSUME NEW a \in Archivers, InsertingSnapshot(a) PROVE UniqueSnapshots'
  <2>1. /\ pending'[a] = [snapshots |-> {NewSnapshot(a)}, files |-> {}]
        /\ \A b \in Archivers \ {a} : pending'[b] = pending[b]
        /\ snapshots' = snapshots
    BY <1>1, <1>5 DEF InsertingSnapshot, TypeOK
  <2>2. pending'[a].snapshots = {NewSnapshot(a)} BY <2>1
  <2>3. /\ \A q \in snapshots : ~SnapshotsClash(NewSnapshot(a), q)
        /\ \A b \in Archivers \ {a} : \A q \in pending[b].snapshots : ~SnapshotsClash(NewSnapshot(a), q)
    BY <1>5 DEF InsertingSnapshot
  <2>4. \A r, q \in snapshots' : SnapshotsClash(r, q) => r = q BY <1>1, <2>1 DEF UniqueSnapshots
  <2>5. \A b \in Archivers : \A r \in pending'[b].snapshots, q \in snapshots' : ~SnapshotsClash(r, q)
    BY <1>1, <2>1, <2>2, <2>3 DEF UniqueSnapshots
  <2>6. \A b, c \in Archivers : \A r \in pending'[b].snapshots, q \in pending'[c].snapshots :
          SnapshotsClash(r, q) => b = c
    BY <1>1, <1>2, <2>1, <2>2, <2>3 DEF UniqueSnapshots
  <2> QED BY <2>4, <2>5, <2>6 DEF UniqueSnapshots, SnapshotsClash
<1>6. ASSUME NEW a \in Archivers, Committing(a) PROVE UniqueSnapshots'
  <2>1. /\ pending'[a] = NoRows /\ \A b \in Archivers \ {a} : pending'[b] = pending[b]
        /\ snapshots' = snapshots \cup pending[a].snapshots
    BY <1>1, <1>6 DEF Committing, CommitRows, TypeOK
  <2>2. \A r, q \in pending[a].snapshots : r = q
    <3>1. Inserting(a) => pending[a].snapshots = {SnapshotRow(a, a)} BY DEF Inserting
    <3>2. Repeating(a) => pending[a].snapshots = {} BY <1>3 DEF Repeating
    <3> QED BY <1>6, <3>1, <3>2, CommitSpec
  <2>3. \A r, q \in snapshots' : SnapshotsClash(r, q) => r = q
    BY <1>1, <1>2, <2>1, <2>2 DEF UniqueSnapshots
  <2>4. \A b \in Archivers : \A r \in pending'[b].snapshots, q \in snapshots' : ~SnapshotsClash(r, q)
    BY <1>1, <1>2, <1>3, <2>1 DEF UniqueSnapshots
  <2>5. \A b, c \in Archivers : \A r \in pending'[b].snapshots, q \in pending'[c].snapshots :
          SnapshotsClash(r, q) => b = c
    BY <1>1, <1>3, <2>1 DEF UniqueSnapshots
  <2> QED BY <2>3, <2>4, <2>5 DEF UniqueSnapshots, SnapshotsClash
<1>7. ASSUME NEW a \in Archivers, PassingFile(a) PROVE UniqueSnapshots'
  <2>1. \A b \in Archivers : pending'[b].snapshots = pending[b].snapshots
    <3>1. CASE pending' = [pending EXCEPT ![a] = [snapshots |-> pending[a].snapshots,
                                                  files |-> pending[a].files \cup {NewFile(a)}]]
      <4>1. pending'[a] = [snapshots |-> pending[a].snapshots,
                           files |-> pending[a].files \cup {NewFile(a)}]
        BY <1>1, <3>1 DEF TypeOK
      <4>2. pending'[a].snapshots = pending[a].snapshots BY <4>1
      <4> QED BY <1>1, <3>1, <4>2 DEF TypeOK
    <3> QED BY <1>7, <3>1 DEF PassingFile
  <2> QED BY <1>4, <1>7, <2>1 DEF PassingFile
<1>8. ASSUME NEW a \in Archivers, Move(a), ~InsertingSnapshot(a), ~PassingFile(a), ~Committing(a)
      PROVE  UniqueSnapshots'
  <2>1. UNCHANGED snapshots /\ (UNCHANGED pending \/ pending' = [pending EXCEPT ![a] = NoRows])
    BY <1>8
    DEF Move, Starting, Failing, Identifying, Hashing, Refuse, Finding, Comparing, Validating,
        Missing, Seeing, Transferring, database
  <2>2. \A b \in Archivers : pending'[b].snapshots \subseteq pending[b].snapshots
    BY <1>1, <1>3, <2>1 DEF TypeOK
  <2> QED BY <1>4, <2>1, <2>2
<1>9. CASE Standing BY <1>4, <1>9 DEF Standing, database
<1> QED BY <1>5, <1>6, <1>7, <1>8, <1>9, Moves

LEMMA UniqueFilesStep == IInv /\ [Next]_vars => UniqueFiles'
<1> SUFFICES ASSUME IInv, [Next]_vars PROVE UniqueFiles' OBVIOUS
<1>1. TypeOK /\ UniqueFiles BY DEF IInv
<1>2. \A r, q : FilesClash(r, q) <=> FilesClash(q, r) BY DEF FilesClash
<1>3. NoRows.files = {} BY DEF NoRows
<1>4. ASSUME \A b \in Archivers : pending'[b].files \subseteq pending[b].files, UNCHANGED files
      PROVE  UniqueFiles'
  BY <1>1, <1>4 DEF UniqueFiles, FilesClash
<1>5. ASSUME NEW a \in Archivers, InsertingSnapshot(a) PROVE UniqueFiles'
  <2>1. /\ pending'[a] = [snapshots |-> {NewSnapshot(a)}, files |-> {}]
        /\ \A b \in Archivers \ {a} : pending'[b] = pending[b]
        /\ files' = files
    BY <1>1, <1>5 DEF InsertingSnapshot, TypeOK
  <2>2. pending'[a].files = {} BY <2>1
  <2> QED BY <1>4, <2>1, <2>2
<1>6. ASSUME NEW a \in Archivers, Committing(a) PROVE UniqueFiles'
  <2>1. /\ pending'[a] = NoRows /\ \A b \in Archivers \ {a} : pending'[b] = pending[b]
        /\ files' = files \cup pending[a].files
    BY <1>1, <1>6 DEF Committing, CommitRows, TypeOK
  <2>2. \A r, q \in files' : FilesClash(r, q) => r = q
    BY <1>1, <1>2, <2>1 DEF UniqueFiles
  <2>3. \A b \in Archivers : \A r \in pending'[b].files, q \in files' : ~FilesClash(r, q)
    BY <1>1, <1>2, <1>3, <2>1 DEF UniqueFiles
  <2>4. \A b, c \in Archivers : \A r \in pending'[b].files, q \in pending'[c].files :
          FilesClash(r, q) => b = c /\ r = q
    BY <1>1, <1>3, <2>1 DEF UniqueFiles
  <2> QED BY <2>2, <2>3, <2>4 DEF UniqueFiles, FilesClash
<1>7. ASSUME NEW a \in Archivers, PassingFile(a) PROVE UniqueFiles'
  <2>1. CASE UNCHANGED pending BY <1>4, <1>7, <2>1 DEF PassingFile
  <2>2. CASE /\ \A q \in files \cup pending[a].files : ~FilesClash(NewFile(a), q)
             /\ \A b \in Archivers \ {a} : \A q \in pending[b].files : ~FilesClash(NewFile(a), q)
             /\ pending' = [pending EXCEPT ![a] =
                  [snapshots |-> pending[a].snapshots, files |-> pending[a].files \cup {NewFile(a)}]]
    <3>1. /\ pending'[a] = [snapshots |-> pending[a].snapshots,
                            files |-> pending[a].files \cup {NewFile(a)}]
          /\ \A b \in Archivers \ {a} : pending'[b] = pending[b]
          /\ files' = files
      BY <1>1, <1>7, <2>2 DEF PassingFile, TypeOK
    <3>2. pending'[a].files = pending[a].files \cup {NewFile(a)} BY <3>1
    <3>3. \A b \in Archivers : \A q \in pending[b].files : ~FilesClash(NewFile(a), q) BY <2>2
    <3>4. \A b \in Archivers : \A r \in pending'[b].files :
            r \in pending[b].files \/ (r = NewFile(a) /\ b = a)
      BY <3>1, <3>2
    <3>5. \A r, q \in files' : FilesClash(r, q) => r = q BY <1>1, <3>1 DEF UniqueFiles
    <3>6. \A b \in Archivers : \A r \in pending'[b].files, q \in files' : ~FilesClash(r, q)
      BY <1>1, <2>2, <3>1, <3>4 DEF UniqueFiles
    <3>7. ASSUME NEW b \in Archivers, NEW c \in Archivers,
                 NEW r \in pending'[b].files, NEW q \in pending'[c].files, FilesClash(r, q)
          PROVE  b = c /\ r = q
      <4>1. CASE r \in pending[b].files /\ q \in pending[c].files
        BY <1>1, <3>7, <4>1 DEF UniqueFiles
      <4> QED BY <1>2, <3>3, <3>4, <3>7, <4>1
    <3> QED BY <3>5, <3>6, <3>7 DEF UniqueFiles, FilesClash
  <2> QED BY <1>7, <2>1, <2>2 DEF PassingFile
<1>8. ASSUME NEW a \in Archivers, Move(a), ~InsertingSnapshot(a), ~PassingFile(a), ~Committing(a)
      PROVE  UniqueFiles'
  <2>1. UNCHANGED files /\ (UNCHANGED pending \/ pending' = [pending EXCEPT ![a] = NoRows])
    BY <1>8
    DEF Move, Starting, Failing, Identifying, Hashing, Refuse, Finding, Comparing, Validating,
        Missing, Seeing, Transferring, database
  <2>2. \A b \in Archivers : pending'[b].files \subseteq pending[b].files
    BY <1>1, <1>3, <2>1 DEF TypeOK
  <2> QED BY <1>4, <2>1, <2>2
<1>9. CASE Standing BY <1>4, <1>9 DEF Standing, database
<1> QED BY <1>5, <1>6, <1>7, <1>8, <1>9, Moves

\* An object that carries the hash of a manifest was stored as that manifest.
LEMMA ManifestsToldStep == IInv /\ [Next]_vars => ManifestsTold'
<1> SUFFICES ASSUME IInv, [Next]_vars PROVE ManifestsTold' OBVIOUS
<1>1. TypeOK /\ ManifestsTold BY DEF IInv
<1>2. ASSUME NEW a \in Archivers, Transferring(a) PROVE ManifestsTold'
  <2> DEFINE key == ObjectKey(a, step[a])
  <2>1. HashedAll(a) /\ step[a] \in Steps
    BY <1>1, <1>2 DEF IInv, PlanFits, Transferring, Planned, Storing, TypeOK
  <2>2. /\ objects'[key].body = Body(a) /\ objects'[key].sha256 = Sha(a, step[a])
        /\ \A k \in Keys \ {key} : objects'[k] = objects[k]
    BY <1>2, PutSpec
  <2>3. CASE step[a] = "manifest"
    <3>1. Body(a) = Sha(a, step[a]) BY <2>3 DEF Body, Sha
    <3> QED BY <1>1, <2>2, <3>1 DEF ManifestsTold
  <2>4. CASE step[a] # "manifest"
    <3>1. Sha(a, step[a]) \in Contents BY <1>1, <2>1, <2>4, RowTypes, StepFacts DEF Sha
    <3>2. Sha(a, step[a]) \notin Manifests BY <3>1, ManifestsAssumption
    <3> QED BY <1>1, <2>2, <3>2 DEF ManifestsTold
  <2> QED BY <2>3, <2>4
<1>3. CASE UNCHANGED objects BY <1>1, <1>3 DEF ManifestsTold
<1> QED BY <1>2, <1>3, TablesAndBucket

\* The artifacts that are done, one more when the next is taken up.
LEMMA DoneGrows ==
  ASSUME IInv, [Next]_vars, NEW a \in Archivers, NEW s \in Done(a)'
  PROVE  s \in Done(a) \/ (Seeing(a) /\ s = step[a])
<1>1. TypeOK /\ StepFits BY DEF IInv
<1> USE DEF Done, Storing, Recording, Go, At
<1>2. CASE pc'[a] = pc[a] /\ step'[a] = step[a] BY <1>2
<1>3. CASE Seeing(a)
  BY <1>1, <1>3, StepFacts DEF Seeing, NextArtifact, TypeOK
<1>4. CASE Starting(a) \/ Failing(a) \/ Identifying(a) BY <1>1, <1>4 DEF Starting, Failing, Identifying, TypeOK
<1>5. CASE Hashing(a) BY <1>1, <1>5 DEF Hashing, Refuse, TypeOK
<1>6. CASE Finding(a) BY <1>1, <1>6 DEF Finding, TypeOK
<1>7. CASE Comparing(a) BY <1>1, <1>7 DEF Comparing, StepFits, TypeOK
<1>8. CASE Validating(a) \/ Missing(a) BY <1>1, <1>8 DEF Validating, Missing, TypeOK
<1>9. CASE Transferring(a) BY <1>1, <1>9 DEF Transferring, TypeOK
<1>10. CASE InsertingSnapshot(a) \/ Committing(a) BY <1>1, <1>10 DEF InsertingSnapshot, Committing, TypeOK
<1>11. CASE PassingFile(a) BY <1>1, <1>11 DEF PassingFile, NextFile, TypeOK
<1>12. ASSUME NEW b \in Archivers, Move(b), b # a PROVE pc'[a] = pc[a] /\ step'[a] = step[a]
  BY <1>1, <1>12, Frame
<1>13. Standing => pc'[a] = pc[a] /\ step'[a] = step[a] BY DEF Standing
<1> QED BY <1>2, <1>3, <1>4, <1>5, <1>6, <1>7, <1>8, <1>9, <1>10, <1>11, <1>12, <1>13, Moves DEF Move

\* What an invocation saw in the store is there, though it may have been replaced.
LEMMA DoneStoredStep == IInv /\ [Next]_vars => DoneStored'
<1> SUFFICES ASSUME IInv, [Next]_vars PROVE DoneStored' OBVIOUS
<1> SUFFICES ASSUME NEW a \in Archivers, NEW s \in Done(a)'
             PROVE  objects'[ObjectKey(a, s)] # None
  <2>1. \A b, t : ObjectKey(b, t)' = ObjectKey(b, t) BY Arguments, Fixed
  <2> QED BY <2>1 DEF DoneStored
<1>1. TypeOK /\ DoneStored BY DEF IInv
<1>2. s \in Steps
  <2>1. Done(a)' \subseteq Steps BY StepFacts DEF Done
  <2> QED BY <2>1
<1>3. ObjectKey(a, s) \in Keys BY <1>1, <1>2, ArgumentFacts
<1>4. objects[ObjectKey(a, s)] # None
  BY <1>1, DoneGrows DEF DoneStored, Seeing
<1> QED BY <1>3, <1>4, Growing

\* The objects of committed rows were seen by the invocation that inserted them.
LEMMA StoredStep == IInv /\ [Next]_vars => NoRowWithoutObject'
<1> SUFFICES ASSUME IInv, [Next]_vars PROVE NoRowWithoutObject' OBVIOUS
<1>1. TypeOK /\ NoRowWithoutObject BY DEF IInv
<1>2. \A f \in files : f.key \in Keys BY <1>1 DEF TypeOK, FileRows
<1>3. \A s \in snapshots : s.manifest \in Keys BY <1>1 DEF TypeOK, SnapshotRows
<1>4. (\A f \in files : objects'[f.key] # None) /\ \A s \in snapshots : objects'[s.manifest] # None
  BY <1>1, <1>2, <1>3, Growing DEF NoRowWithoutObject
<1>5. ASSUME NEW a \in Archivers, Committing(a),
             snapshots' = snapshots \cup {SnapshotRow(a, a)},
             files' = files \cup {FileRow(a, role, a) : role \in Roles}
      PROVE  NoRowWithoutObject'
  <2>1. \A s \in Steps : objects[ObjectKey(a, s)] # None
    BY <1>5, CommitSpec DEF IInv, DoneStored, Done, Recording
  <2>2. \A s \in Steps : objects'[ObjectKey(a, s)] # None
    BY <1>1, <2>1, ArgumentFacts, Growing
  <2>3. SnapshotRow(a, a).manifest = ObjectKey(a, "manifest") BY DEF SnapshotRow
  <2>4. \A role \in Roles : FileRow(a, role, a).key = ObjectKey(a, role) BY DEF FileRow
  <2> QED BY <1>4, <1>5, <2>2, <2>3, <2>4, StepFacts DEF NoRowWithoutObject
<1>6. CASE UNCHANGED <<snapshots, files>> BY <1>4, <1>6 DEF NoRowWithoutObject
<1> QED BY <1>5, <1>6, CommitSpec, TablesAndBucket

\* Success is reported of rows that are committed and stay.
LEMMA SucceededStep == IInv /\ [Next]_vars => SucceededIsRecorded'
<1> SUFFICES ASSUME IInv, [Next]_vars, NEW a \in Archivers, pc'[a] = "succeeded"
             PROVE  /\ SnapshotRow(a, found[a])' \in snapshots'
                    /\ \A role \in Roles : FileRow(a, role, found[a])' \in files'
  BY DEF SucceededIsRecorded
<1>1. TypeOK /\ SucceededIsRecorded BY DEF IInv
<1>2. pc[a] \in {"succeeded", "commit"} /\ found'[a] = found[a] /\ (pc[a] = "commit" => Committing(a))
  <2>1. CASE Move(a)
    <3>1. Committing(a)
      BY <1>1, <2>1
      DEF Move, Starting, Failing, Identifying, Hashing, Refuse, Finding, Comparing, Validating,
          Missing, Seeing, NextArtifact, Transferring, InsertingSnapshot, PassingFile, NextFile,
          Active, Ended, Go, TypeOK
    <3> QED BY <3>1 DEF Committing
  <2>2. CASE pc'[a] = pc[a] /\ found'[a] = found[a] BY <2>2
  <2>3. ASSUME NEW b \in Archivers, Move(b), b # a PROVE pc'[a] = pc[a] /\ found'[a] = found[a]
    BY <1>1, <2>3, Frame
  <2>4. Standing => pc'[a] = pc[a] /\ found'[a] = found[a] BY DEF Standing, database
  <2> QED BY <2>1, <2>2, <2>3, <2>4, Moves
<1>3. /\ \A id : SnapshotRow(a, id)' = SnapshotRow(a, id)
      /\ \A role, id : FileRow(a, role, id)' = FileRow(a, role, id)
  BY <1>1, <1>2, Arguments, Fixed, HashedKept
<1>4. snapshots \subseteq snapshots' /\ files \subseteq files' BY Growing
<1> SUFFICES ASSUME NEW id, id = found[a]
             PROVE  SnapshotRow(a, id) \in snapshots' /\ \A role \in Roles : FileRow(a, role, id) \in files'
  BY <1>2, <1>3 DEF SnapshotRow, FileRow
<1>5. CASE pc[a] = "succeeded"
  BY <1>1, <1>4, <1>5 DEF SucceededIsRecorded
<1>6. CASE Committing(a)
  <2>1. CASE /\ Inserting(a)
             /\ snapshots' = snapshots \cup {SnapshotRow(a, a)}
             /\ files' = files \cup {FileRow(a, role, a) : role \in Roles}
    BY <2>1 DEF Inserting
  <2>2. CASE Repeating(a) BY <1>4, <1>6, <2>2, CommitSpec DEF Repeating
  <2> QED BY <1>6, <2>1, <2>2, CommitSpec
<1> QED BY <1>2, <1>5, <1>6

\* At the start nothing is hashed, stored or recorded.
LEMMA InitiallyIInv == Init => IInv
<1> SUFFICES ASSUME Init PROVE IInv OBVIOUS
<1>1. TypeOK
  <2>1. "start" \in Phases /\ "original_csv" \in Steps BY StepFacts DEF Phases
  <2>2. NoRows \in [snapshots : SUBSET SnapshotRows, files : SUBSET FileRows] BY DEF NoRows
  <2>3. \A p \in Paths : [content |-> Original[p], version |-> 0]
                           \in [content : Contents \cup {None}, version : 0 .. 0]
    BY FilesAssumption
  <2>4. local \in [Paths -> [content : Contents \cup {None}, version : 0 .. edits]]
    BY <2>3 DEF Init
  <2>5. faults \in 0 .. MaxFaults /\ edits \in 0 .. MaxEdits BY ArchiveBounds DEF Init
  <2> QED BY <2>1, <2>2, <2>4, <2>5 DEF Init, TypeOK
<1>2. StepFits /\ PlanFits
  BY StepFacts DEF Init, StepFits, PlanFits, Planned, Storing, Recording
<1>3. IdentityTells BY DEF Init, IdentityTells
<1>4. Transactions BY DEF Init, Transactions
<1>5. Owned BY DEF Init, Owned
<1>6. NoRows.snapshots = {} /\ NoRows.files = {} BY DEF NoRows
<1>7. UniqueSnapshots /\ UniqueFiles BY <1>6 DEF Init, UniqueSnapshots, UniqueFiles
<1>8. ManifestsTold BY DEF Init, ManifestsTold
<1>9. DoneStored BY DEF Init, DoneStored, Done, Storing, Recording
<1>10. NoRowWithoutObject /\ SucceededIsRecorded BY DEF Init, NoRowWithoutObject, SucceededIsRecorded
<1> QED BY <1>1, <1>2, <1>3, <1>4, <1>5, <1>7, <1>8, <1>9, <1>10 DEF IInv

LEMMA IInvStep == IInv /\ [Next]_vars => IInv'
BY TypeStep, StepFitsStep, PlanFitsStep, IdentityTellsStep, TransactionsStep, OwnedStep,
   UniqueSnapshotsStep, UniqueFilesStep, ManifestsToldStep, DoneStoredStep, StoredStep,
   SucceededStep
DEF IInv

\* The invariant is inductive, whatever invocations overlap.
THEOREM Inductive == Spec => []IInv
BY InitiallyIInv, IInvStep, PTL DEF Spec

\* Every variable has its type.
THEOREM TypeCorrect == Spec => []TypeOK
<1>1. IInv => TypeOK BY DEF IInv
<1> QED BY <1>1, Inductive, PTL

LEMMA PairCardinality ==
  ASSUME NEW x, NEW y, x # y
  PROVE  Cardinality({x, y}) = 2
<1>1. IsFiniteSet({x}) /\ Cardinality({x}) = 1 BY FS_Singleton
<1>2. Cardinality({x} \cup {y}) = IF y \in {x} THEN Cardinality({x}) ELSE Cardinality({x}) + 1
  BY <1>1, FS_AddElement
<1>3. {x} \cup {y} = {x, y} OBVIOUS
<1> QED BY <1>1, <1>2, <1>3

\* A snapshot is recorded with exactly one file of each role, and no file without a snapshot.
THEOREM RecordedWhole == Spec => []SnapshotsWhole
<1>1. IInv => SnapshotsWhole
  <2> SUFFICES ASSUME IInv PROVE SnapshotsWhole OBVIOUS
  <2>1. TypeOK /\ Owned /\ UniqueFiles BY DEF IInv
  <2>2. ASSUME NEW s \in snapshots
        PROVE  {f.role : f \in FilesOf(s)} = Roles /\ Cardinality(FilesOf(s)) = Cardinality(Roles)
    <3>1. PICK csv \in files : csv.snapshot = s.id /\ csv.role = "original_csv"
      BY <2>1, StepFacts DEF Owned
    <3>2. PICK json \in files : json.snapshot = s.id /\ json.role = "original_json"
      BY <2>1, StepFacts DEF Owned
    <3>3. \A f \in files : f.role = "original_csv" \/ f.role = "original_json"
      BY <2>1, StepFacts DEF TypeOK, FileRows
    <3>4. FilesOf(s) = {csv, json}
      BY <2>1, <3>1, <3>2, <3>3 DEF FilesOf, UniqueFiles, FilesClash
    <3>5. csv # json BY <3>1, <3>2
    <3>6. Cardinality({csv, json}) = 2 BY <3>5, PairCardinality
    <3>7. Cardinality(Roles) = 2
      <4>1. "original_csv" # "original_json" OBVIOUS
      <4>2. Cardinality({"original_csv", "original_json"}) = 2 BY <4>1, PairCardinality
      <4> QED BY <4>2, StepFacts
    <3>8. {f.role : f \in FilesOf(s)} = Roles BY <3>1, <3>2, <3>4, StepFacts
    <3> QED BY <3>4, <3>6, <3>7, <3>8
  <2> QED BY <2>1, <2>2 DEF SnapshotsWhole, Owned
<1> QED BY <1>1, Inductive, PTL

\* No row of either table claims that a missing object was archived.
THEOREM RowsHaveObjects == Spec => []NoRowWithoutObject
<1>1. IInv => NoRowWithoutObject BY DEF IInv
<1> QED BY <1>1, Inductive, PTL

\* Success means that the snapshot and both files are recorded as requested and hashed.
THEOREM SuccessIsRecorded == Spec => []SucceededIsRecorded
<1>1. IInv => SucceededIsRecorded BY DEF IInv
<1> QED BY <1>1, Inductive, PTL

\* 001_meta.sql: the rows that are committed, and those that wait to be, respect the unique
\* keys; a commit never fails for them.
THEOREM KeysAreUnique == Spec => [](UniqueSnapshots /\ UniqueFiles)
<1>1. IInv => UniqueSnapshots /\ UniqueFiles BY DEF IInv
<1> QED BY <1>1, Inductive, PTL

\* What is recorded is never changed or removed, and a key that is occupied stays occupied.
THEOREM ArchiveGrows ==
  Spec => [][/\ snapshots \subseteq snapshots' /\ files \subseteq files'
             /\ \A k \in Keys : objects[k] # None => objects'[k] # None]_vars
<1>1. IInv /\ [Next]_vars =>
        [/\ snapshots \subseteq snapshots' /\ files \subseteq files'
         /\ \A k \in Keys : objects[k] # None => objects'[k] # None]_vars
  BY Growing
<1> QED BY <1>1, Inductive, PTL DEF Spec

-----------------------------------------------------------------------------
(* When invocations do not overlap *)

\* An invocation moves, or all it has stays as it is.
LEMMA MovedOrNot ==
  ASSUME TypeOK, [Next]_vars, NEW a \in Archivers
  PROVE  \/ Move(a) /\ UNCHANGED <<local, edits>>
         \/ /\ pc'[a] = pc[a] /\ step'[a] = step[a] /\ identity'[a] = identity[a]
            /\ hashed'[a] = hashed[a] /\ uploaded'[a] = uploaded[a] /\ found'[a] = found[a]
<1>1. ASSUME NEW b \in Archivers, Move(b), b # a
      PROVE  /\ pc'[a] = pc[a] /\ step'[a] = step[a] /\ identity'[a] = identity[a]
             /\ hashed'[a] = hashed[a] /\ uploaded'[a] = uploaded[a] /\ found'[a] = found[a]
  BY <1>1, Frame
<1>2. Standing => /\ pc'[a] = pc[a] /\ step'[a] = step[a] /\ identity'[a] = identity[a]
                  /\ hashed'[a] = hashed[a] /\ uploaded'[a] = uploaded[a] /\ found'[a] = found[a]
  BY DEF Standing, plan, database
<1> QED BY <1>1, <1>2, Moves

\* Who moves is active, or starts.
LEMMA MovesActive ==
  ASSUME NEW a \in Archivers, Move(a)
  PROVE  Active(a) \/ Starting(a)
BY DEF Move, Failing, Active, Ended, Identifying, Hashing, Finding, Comparing, Validating, Missing,
       Seeing, Transferring, InsertingSnapshot, PassingFile, Committing

LEMMA OneActiveStep ==
  ASSUME ~Concurrent, IInv, OneActive, [Next]_vars
  PROVE  OneActive'
<1>1. TypeOK BY DEF IInv
<1>2. ASSUME NEW a \in Archivers, Move(a) PROVE OneActive'
  <2>1. \A b \in Archivers \ {a} : ~Active(b)
    BY <1>2, MovesActive DEF Starting, OneActive, Active
  <2>2. \A b \in Archivers \ {a} : pc'[b] = pc[b] BY <1>1, <1>2, Frame
  <2> QED BY <2>1, <2>2 DEF OneActive, Active
<1>3. CASE Standing BY <1>3 DEF Standing, OneActive, Active
<1> QED BY <1>2, <1>3, Moves

\* While an invocation is active, nobody else stores or records anything.
LEMMA Undisturbed ==
  ASSUME SerialInv, [Next]_vars, NEW a \in Archivers, Active(a)
  PROVE  /\ Committing(a) \/ UNCHANGED <<snapshots, files>>
         /\ Transferring(a) \/ UNCHANGED objects
<1>1. \A b \in Archivers : Active(b) => b = a BY DEF SerialInv, OneActive
<1>2. \A b \in Archivers : Committing(b) \/ Transferring(b) => Active(b)
  BY DEF Committing, Transferring, Active, Ended
<1> QED BY <1>1, <1>2, TablesAndBucket

\* Nothing that is stored is replaced: the key was vacant, and still is.
LEMMA Kept ==
  ASSUME IInv, SerialInv, [Next]_vars
  PROVE  ObjectsKept
<1>1. ASSUME NEW a \in Archivers, Transferring(a) PROVE ObjectsKept
  <2>1. objects[ObjectKey(a, step[a])] = None BY <1>1 DEF SerialInv, StillVacant, Transferring
  <2>2. \A k \in Keys \ {ObjectKey(a, step[a])} : objects'[k] = objects[k] BY <1>1, PutSpec
  <2> QED BY <2>1, <2>2 DEF ObjectsKept
<1> QED BY <1>1, TablesAndBucket DEF ObjectsKept

LEMMA StillVacantStep ==
  ASSUME IInv, SerialInv, [Next]_vars
  PROVE  StillVacant'
<1>1. TypeOK /\ StillVacant BY DEF IInv, SerialInv
<1>2. \A a, s : ObjectKey(a, s)' = ObjectKey(a, s) BY Arguments, Fixed
<1> SUFFICES ASSUME NEW a \in Archivers, pc'[a] = "upload"
             PROVE  objects'[ObjectKey(a, step[a])'] = None
  BY DEF StillVacant
<1>3. CASE Move(a)
  <2>1. Missing(a)
    BY <1>1, <1>3
    DEF Move, Starting, Failing, Identifying, Hashing, Refuse, Finding, Comparing, Validating,
        Seeing, NextArtifact, Transferring, InsertingSnapshot, PassingFile, NextFile, Committing,
        Go, TypeOK
  <2>2. step'[a] = step[a] /\ objects' = objects /\ objects[ObjectKey(a, step[a])] = None
    BY <2>1 DEF Missing
  <2> DEFINE s == step[a]
  <2>3. ObjectKey(a, step[a])' = ObjectKey(a, step[a]) BY <2>2, Arguments DEF ObjectKey, PathOf
  <2> QED BY <2>2, <2>3
<1>4. CASE pc'[a] = pc[a] /\ step'[a] = step[a] /\ ~Move(a)
  <2>1. Active(a) /\ ~Transferring(a) BY <1>4 DEF Active, Ended, Move
  <2>2. objects' = objects BY <2>1, Undisturbed
  <2>3. ObjectKey(a, step[a])' = ObjectKey(a, step[a]) BY <1>4, Arguments DEF ObjectKey, PathOf
  <2> QED BY <1>1, <1>4, <2>2, <2>3 DEF StillVacant
<1> QED BY <1>1, <1>3, <1>4, MovedOrNot

\* An artifact that is done carries its hash and keeps it.
LEMMA DoneMatchesStep ==
  ASSUME IInv, SerialInv, [Next]_vars
  PROVE  DoneMatches'
<1>1. TypeOK /\ DoneMatches /\ DoneStored BY DEF IInv, SerialInv
<1> SUFFICES ASSUME NEW a \in Archivers, NEW s \in Done(a)'
             PROVE  objects'[ObjectKey(a, s)].sha256 = Sha(a, s)'
  <2>1. \A b, t : ObjectKey(b, t)' = ObjectKey(b, t) BY Arguments, Fixed
  <2> QED BY <2>1 DEF DoneMatches
<1>2. s \in Done(a) \/ (Seeing(a) /\ s = step[a]) BY DoneGrows
<1>3. pc[a] # "hash" BY <1>2 DEF Done, Storing, Recording, Seeing
<1>4. Sha(a, s)' = Sha(a, s) BY <1>1, <1>3, HashedKept
<1>5. s \in Steps
  <2>1. Done(a)' \subseteq Steps BY StepFacts DEF Done
  <2> QED BY <2>1
<1>6. objects[ObjectKey(a, s)] # None /\ objects[ObjectKey(a, s)].sha256 = Sha(a, s)
  BY <1>1, <1>2 DEF DoneStored, DoneMatches, Seeing
<1>7. objects'[ObjectKey(a, s)] = objects[ObjectKey(a, s)]
  BY <1>1, <1>5, <1>6, ArgumentFacts, Kept DEF ObjectsKept
<1> QED BY <1>4, <1>6, <1>7

\* A file that has the identity of the plan now had it before.
LEMMA SameFileBack ==
  ASSUME IInv, [Next]_vars, NEW a \in Archivers, NEW role \in Roles, hashed[a][role] # None,
         identity'[a] = identity[a], SameFile(a, role)'
  PROVE  SameFile(a, role)
<1> DEFINE p == PathOf(a, role)
<1>1. TypeOK /\ IdentityTells BY DEF IInv
<1>2. p \in Paths /\ edits \in Nat BY <1>1, ArgumentFacts, ArchiveBounds DEF TypeOK
<1>3. PathOf(a, role)' = p BY Arguments, Fixed
<1>4. identity[a][role] \in 0 .. edits BY <1>1 DEF IdentityTells
<1>5. local'[p].content # None /\ local'[p].version = identity[a][role] BY <1>3 DEF SameFile
<1>6. CASE UNCHANGED local BY <1>5, <1>6 DEF SameFile
<1>7. CASE \E q \in Paths : EditFile(q)
  <2>1. local'[p] = local[p] \/ local'[p].version = edits + 1 BY <1>1, <1>2, <1>7, EditSpec
  <2> HIDE DEF p
  <2>2. identity[a][role] # edits + 1 BY <1>2, <1>4
  <2>3. local'[p] = local[p] BY <1>5, <2>1, <2>2
  <2> QED BY <1>5, <2>3 DEF SameFile, p
<1> QED BY <1>6, <1>7, Moves

\* An object with the hashed bytes keeps them, as the hashes of the plan are final.
LEMMA HoldsKept ==
  ASSUME IInv, SerialInv, [Next]_vars, NEW a \in Archivers, NEW role \in Roles,
         pc[a] # "hash", HoldsHashed(a, role)
  PROVE  HoldsHashed(a, role)'
<1>1. TypeOK BY DEF IInv
<1>2. ObjectKey(a, role)' = ObjectKey(a, role) /\ ObjectKey(a, role) \in Keys
  BY <1>1, Arguments, Fixed, ArgumentFacts, StepFacts
<1>3. objects'[ObjectKey(a, role)] = objects[ObjectKey(a, role)]
  BY <1>2, Kept DEF ObjectsKept, HoldsHashed
<1>4. hashed'[a] = hashed[a] BY <1>1, HashedKept
<1> QED BY <1>2, <1>3, <1>4 DEF HoldsHashed

\* A transfer stores the bytes of the file, which are the hashed ones if the file is the same
\* after it.
LEMMA TransferHolds ==
  ASSUME IInv, [Next]_vars, NEW a \in Archivers, Transferring(a), UNCHANGED local,
         step[a] \in Roles, SameFile(a, step[a])
  PROVE  HoldsHashed(a, step[a])'
<1> DEFINE role == step[a]
           p == PathOf(a, role)
<1>1. TypeOK /\ IdentityTells /\ HashedAll(a)
  BY DEF IInv, PlanFits, Transferring, Planned, Storing
<1>2. hashed[a][role] \in Contents BY <1>1 DEF HashedAll
<1>3. hashed[a][role] # None BY <1>2, FilesAssumption
<1>4. local[p].content = hashed[a][role]
  BY <1>1, <1>3 DEF IdentityTells, SameFile
<1>5. Body(a) = hashed[a][role] BY <1>4, StepFacts DEF Body
<1>6. /\ objects'[ObjectKey(a, role)].body = Body(a) /\ objects'[ObjectKey(a, role)] # None
  BY PutSpec, ManifestsAssumption
<1>7. hashed'[a] = hashed[a] /\ step'[a] = step[a] BY DEF Transferring, plan
<1>8. ObjectKey(a, step[a])' = ObjectKey(a, step[a]) BY <1>7, Arguments DEF ObjectKey, PathOf
<1> QED BY <1>5, <1>6, <1>7, <1>8 DEF HoldsHashed

\* What was uploaded, validated and verified holds the hashed bytes.
LEMMA UploadsHoldStep ==
  ASSUME IInv, SerialInv, [Next]_vars
  PROVE  UploadsHold'
<1>1. TypeOK /\ UploadsHold /\ PlanFits /\ StepFits BY DEF IInv, SerialInv
<1> SUFFICES ASSUME NEW a \in Archivers
             PROVE  /\ \A role \in Roles \cap uploaded'[a] : HoldsHashed(a, role)'
                    /\ \A role \in Roles :
                         /\ pc'[a] = "revalidate" /\ step'[a] = role /\ SameFile(a, role)' =>
                              HoldsHashed(a, role)'
                         /\ pc'[a] = "verify" /\ step'[a] = role => HoldsHashed(a, role)'
  <2>1. \A b \in Archivers : pc'[b] = "revalidate" => step'[b] \in Roles
    BY StepFitsStep DEF StepFits
  <2> QED BY <2>1 DEF UploadsHold, HoldsHashed, SameFile, ObjectKey, PathOf
<1>2. ASSUME NEW role \in Roles, role \in uploaded'[a] PROVE HoldsHashed(a, role)'
  <2>1. role \in uploaded[a] \/ (pc[a] = "verify" /\ role = step[a])
    <3>1. CASE Seeing(a) BY <1>1, <1>2, <3>1 DEF Seeing, TypeOK
    <3>2. CASE uploaded'[a] = uploaded[a] BY <1>2, <3>2
    <3>3. Move(a) => Seeing(a) \/ uploaded' = uploaded
      BY DEF Move, Starting, Failing, Identifying, Hashing, Finding, Comparing, Validating, Missing,
             Transferring, InsertingSnapshot, PassingFile, Committing
    <3> QED BY <1>1, <3>1, <3>2, <3>3, MovedOrNot
  <2>2. CASE role \in uploaded[a]
    <3>1. pc[a] # "hash" /\ HoldsHashed(a, role) BY <1>1, <2>2 DEF PlanFits, UploadsHold
    <3> QED BY <3>1, HoldsKept
  <2>3. CASE pc[a] = "verify" /\ role = step[a]
    <3>1. HoldsHashed(a, role) BY <1>1, <2>3 DEF UploadsHold
    <3> QED BY <2>3, <3>1, HoldsKept
  <2> QED BY <2>1, <2>2, <2>3
<1>3. ASSUME NEW role \in Roles, pc[a] = "revalidate", step[a] = role, SameFile(a, role)
      PROVE  HoldsHashed(a, role)'
  BY <1>1, <1>3, HoldsKept DEF UploadsHold
<1>4. ASSUME NEW role \in Roles, pc'[a] = "revalidate", step'[a] = role, SameFile(a, role)'
      PROVE  HoldsHashed(a, role)'
  <2>1. CASE Move(a) /\ UNCHANGED <<local, edits>>
    <3>1. Transferring(a)
      BY <1>1, <1>4, <2>1
      DEF Move, Starting, Failing, Identifying, Hashing, Refuse, Finding, Comparing, Validating,
          Missing, Seeing, NextArtifact, InsertingSnapshot, PassingFile, NextFile, Committing,
          Go, TypeOK
    <3>2. step[a] = role /\ identity'[a] = identity[a] BY <1>4, <3>1 DEF Transferring, plan
    <3>3. PathOf(a, role)' = PathOf(a, role) BY Arguments, Fixed
    <3>4. SameFile(a, role) BY <1>4, <2>1, <3>2, <3>3 DEF SameFile
    <3>5. HoldsHashed(a, step[a])' BY <2>1, <3>1, <3>2, <3>4, TransferHolds
    <3>6. step'[a] = step[a] BY <3>1 DEF Transferring
    <3> QED BY <3>2, <3>5, <3>6 DEF HoldsHashed, ObjectKey, PathOf
  <2>2. CASE pc'[a] = pc[a] /\ step'[a] = step[a] /\ identity'[a] = identity[a]
    <3>1. hashed[a][role] # None
      <4>1. hashed[a][role] \in Contents
        BY <1>1, <1>4, <2>2 DEF PlanFits, HashedAll, Planned, Storing
      <4> QED BY <4>1, FilesAssumption
    <3> QED BY <1>3, <1>4, <2>2, <3>1, SameFileBack
  <2> QED BY <1>1, <2>1, <2>2, MovedOrNot
<1>5. ASSUME NEW role \in Roles, pc'[a] = "verify", step'[a] = role
      PROVE  HoldsHashed(a, role)'
  <2>1. CASE Move(a)
    <3>1. Validating(a) \/ (Transferring(a) /\ step[a] = "manifest")
      BY <1>1, <1>5, <2>1
      DEF Move, Starting, Failing, Identifying, Hashing, Refuse, Finding, Comparing, Missing,
          Seeing, NextArtifact, Transferring, InsertingSnapshot, PassingFile, NextFile, Committing,
          Go, TypeOK
    <3>2. ~Transferring(a) \/ step[a] # "manifest"
      BY <1>5, StepFacts DEF Transferring
    <3>3. pc[a] = "revalidate" /\ step[a] = role /\ SameFile(a, step[a])
      BY <1>1, <1>5, <3>1, <3>2 DEF Validating, Go, TypeOK
    <3> QED BY <1>3, <3>3
  <2>2. CASE pc'[a] = pc[a] /\ step'[a] = step[a]
    <3>1. pc[a] = "verify" /\ HoldsHashed(a, role) BY <1>1, <1>5, <2>2 DEF UploadsHold
    <3> QED BY <3>1, HoldsKept
  <2> QED BY <1>1, <2>1, <2>2, MovedOrNot
<1> QED BY <1>2, <1>4, <1>5

\* Rows are found as they were before the uploads: nobody else has committed any.
LEMMA FoundIsCurrentStep ==
  ASSUME IInv, SerialInv, [Next]_vars
  PROVE  FoundIsCurrent'
<1>1. TypeOK /\ FoundIsCurrent BY DEF IInv, SerialInv
<1>2. request' = request BY Arguments
<1> SUFFICES ASSUME NEW a \in Archivers,
                    pc'[a] \in {"compare", "recompare", "refind"} \cup Storing
             PROVE  IF found'[a] = None THEN \A r \in snapshots' : r.acquired # request[a].acquired
                    ELSE \E r \in snapshots' : r.id = found'[a] /\ r.acquired = request[a].acquired
  BY <1>2 DEF FoundIsCurrent, Storing
<1>3. pc[a] \in {"find", "compare", "recompare", "refind"} \cup Storing
  <2>1. CASE Move(a)
    BY <1>1, <2>1
    DEF Move, Starting, Failing, Identifying, Hashing, Refuse, Finding, Comparing, Validating,
        Missing, Seeing, NextArtifact, Transferring, InsertingSnapshot, PassingFile, NextFile,
        Committing, Go, TypeOK, Storing
  <2> QED BY <1>1, <2>1, MovedOrNot
<1>4. snapshots' = snapshots
  <2>1. Active(a) /\ ~Committing(a) BY <1>3 DEF Active, Ended, Storing, Committing
  <2> QED BY <2>1, Undisturbed
<1>5. CASE Finding(a)
  <2>1. \A r \in snapshots : r.id # None
    BY <1>1, ArchiverAssumption DEF TypeOK, SnapshotRows
  <2>2. CASE /\ \A r \in snapshots : r.acquired # request[a].acquired
             /\ found' = [found EXCEPT ![a] = None]
    BY <1>1, <1>4, <2>2 DEF TypeOK
  <2>3. ASSUME NEW r \in snapshots, r.acquired = request[a].acquired,
               found' = [found EXCEPT ![a] = r.id]
        PROVE  found'[a] # None
               /\ \E q \in snapshots' : q.id = found'[a] /\ q.acquired = request[a].acquired
    BY <1>1, <1>4, <2>1, <2>3 DEF TypeOK
  <2> QED BY <1>5, <2>2, <2>3 DEF Finding
<1>6. CASE found'[a] = found[a] /\ pc[a] # "find"
  BY <1>1, <1>3, <1>4, <1>6 DEF FoundIsCurrent
<1>7. Finding(a) \/ (found'[a] = found[a] /\ pc[a] # "find")
  <2>1. CASE Move(a)
    BY <1>1, <1>3, <2>1
    DEF Move, Starting, Failing, Identifying, Hashing, Refuse, Comparing, Validating,
        Missing, Seeing, Transferring, InsertingSnapshot, PassingFile, Committing, Storing, Go,
        database, TypeOK
  <2>2. CASE pc'[a] = pc[a] /\ found'[a] = found[a] BY <2>2 DEF Storing
  <2> QED BY <1>1, <2>1, <2>2, MovedOrNot
<1> QED BY <1>5, <1>6, <1>7

\* What the first comparison ruled out stays ruled out until the rows are inserted.
LEMMA NoCollisionStep ==
  ASSUME IInv, SerialInv, [Next]_vars
  PROVE  NoCollision'
<1>1. TypeOK /\ NoCollision /\ FoundIsCurrent /\ UniqueSnapshots /\ Transactions
  BY DEF IInv, SerialInv
<1> SUFFICES ASSUME NEW a \in Archivers, pc'[a] \in Storing \cup Recording,
                    NEW f \in files', Collides(a, f)'
             PROVE  f.snapshot = found'[a]
  BY DEF NoCollision, Storing, Recording
<1>2. pc[a] \in {"compare"} \cup Storing \cup Recording
  <2>1. CASE Move(a)
    BY <1>1, <2>1
    DEF Move, Starting, Failing, Identifying, Hashing, Refuse, Finding, Comparing, Validating,
        Missing, Seeing, NextArtifact, Transferring, InsertingSnapshot, PassingFile, NextFile,
        Committing, Go, TypeOK, Storing, Recording
  <2> QED BY <1>1, <2>1, MovedOrNot
<1>3. ~Committing(a) BY <1>1 DEF Committing, Go, TypeOK, Storing, Recording
<1>4. files' = files /\ snapshots' = snapshots
  <2>1. Active(a) BY <1>2 DEF Active, Ended, Storing, Recording
  <2> QED BY <1>3, <2>1, Undisturbed
<1>5. Collides(a, f)
  <2>1. pc[a] # "hash" BY <1>2 DEF Storing, Recording
  <2> QED BY <1>1, <2>1, HashedKept
<1>6. CASE Comparing(a) /\ pc[a] = "compare"
  <2>1. f = FileRow(a, ComparedRole(a, f), found[a]) BY <1>4, <1>5, <1>6 DEF Comparing, FilesAgree
  <2>2. f.snapshot = found[a] BY <2>1 DEF FileRow
  <2> QED BY <1>6, <2>2 DEF Comparing, database
<1>7. CASE pc[a] # "compare"
  <2>1. f.snapshot = found[a] BY <1>1, <1>2, <1>4, <1>5, <1>7 DEF NoCollision
  <2>2. f.snapshot \in Archivers BY <1>1, <1>4 DEF TypeOK, FileRows
  <2>3. found[a] # None BY <2>1, <2>2, ArchiverAssumption
  <2>4. CASE Finding(a)
    <3>1. pc[a] = "refind" BY <1>1, <1>2, <2>4 DEF Finding, Storing, Recording
    <3>2. PICK r \in snapshots : r.id = found[a] /\ r.acquired = request[a].acquired
      BY <1>1, <2>3, <3>1 DEF FoundIsCurrent
    <3>3. \A q \in snapshots : q.acquired = request[a].acquired => q = r
      BY <1>1, <3>2 DEF UniqueSnapshots, SnapshotsClash
    <3>4. found' = [found EXCEPT ![a] = r.id] BY <2>4, <3>2, <3>3 DEF Finding
    <3> QED BY <1>1, <2>1, <3>2, <3>4 DEF TypeOK
  <2>5. CASE InsertingSnapshot(a)
    BY <1>1, <2>3, <2>5 DEF InsertingSnapshot, Transactions
  <2>6. Finding(a) \/ InsertingSnapshot(a) \/ found'[a] = found[a]
    <3>1. Move(a) => Finding(a) \/ InsertingSnapshot(a) \/ found' = found
      BY DEF Move, Starting, Failing, Identifying, Hashing, Comparing, Validating, Missing,
             Seeing, Transferring, PassingFile, Committing, database
    <3> QED BY <1>1, <3>1, MovedOrNot
  <2> QED BY <2>1, <2>4, <2>5, <2>6
<1>8. pc[a] = "compare" => Comparing(a)
  <2>1. CASE Move(a)
    BY <1>1, <2>1
    DEF Move, Starting, Failing, Identifying, Hashing, Finding, Validating,
        Missing, Seeing, Transferring, InsertingSnapshot, PassingFile, Committing, Go,
        TypeOK, Storing, Recording, Active, Ended
  <2> QED BY <1>1, <2>1, MovedOrNot DEF Storing, Recording
<1> QED BY <1>6, <1>7, <1>8

\* The objects of recorded rows are not replaced, and rows are recorded of objects that carry
\* what the rows say.
LEMMA RecordedIsArchivedStep ==
  ASSUME IInv, SerialInv, [Next]_vars
  PROVE  RecordedIsArchived'
<1>1. /\ TypeOK /\ NoRowWithoutObject /\ RecordedIsArchived /\ DoneMatches /\ DoneStored
      /\ ManifestsTold
  BY DEF IInv, SerialInv
<1> DEFINE Lists(s, rows) ==
             LET manifest == objects'[s.manifest].body IN
             /\ objects'[s.manifest] # None
             /\ manifest.acquired = s.acquired /\ manifest.url = s.url
             /\ \A f \in rows : f.snapshot = s.id =>
                  f.sha256 = manifest.sha256[f.role] /\ f.key = manifest.key[f.role]
<1>2. \A f \in files : objects'[f.key] # None /\ objects'[f.key].sha256 = f.sha256
  <2>1. \A f \in files : f.key \in Keys BY <1>1 DEF TypeOK, FileRows
  <2> QED BY <1>1, <2>1, Kept DEF RecordedIsArchived, ObjectsKept
<1>3. \A s \in snapshots : Lists(s, files)
  <2>1. \A s \in snapshots : s.manifest \in Keys BY <1>1 DEF TypeOK, SnapshotRows
  <2>2. \A s \in snapshots : ManifestLists(s) BY <1>1 DEF RecordedIsArchived
  <2>3. \A s \in snapshots : objects'[s.manifest] = objects[s.manifest]
    BY <2>1, <2>2, Kept DEF ObjectsKept, ManifestLists
  <2> QED BY <2>2, <2>3 DEF ManifestLists, FilesOf
<1> SUFFICES /\ \A f \in files' : objects'[f.key] # None /\ objects'[f.key].sha256 = f.sha256
             /\ \A s \in snapshots' : Lists(s, files')
  BY DEF RecordedIsArchived, ManifestLists, FilesOf
<1>4. ASSUME NEW a \in Archivers, Committing(a), Inserting(a),
             snapshots' = snapshots \cup {SnapshotRow(a, a)},
             files' = files \cup {FileRow(a, role, a) : role \in Roles}
      PROVE  /\ \A f \in files' : objects'[f.key] # None /\ objects'[f.key].sha256 = f.sha256
             /\ \A s \in snapshots' : Lists(s, files')
  <2>1. /\ objects' = objects /\ pc[a] = "commit" BY <1>4, CommitSpec
  <2>2. \A s \in Steps : objects[ObjectKey(a, s)] # None /\ objects[ObjectKey(a, s)].sha256 = Sha(a, s)
    BY <1>1, <2>1 DEF DoneMatches, DoneStored, Done, Recording
  <2>3. /\ \A s \in snapshots : s.id # a
        /\ \A f \in files : f.snapshot # a
    BY <2>1, NotYetRecorded DEF Ended
  <2>4. \A role \in Roles :
          /\ FileRow(a, role, a).key = ObjectKey(a, role) /\ FileRow(a, role, a).role = role
          /\ FileRow(a, role, a).sha256 = hashed[a][role] /\ FileRow(a, role, a).snapshot = a
    BY DEF FileRow
  <2>5. \A role \in Roles : Sha(a, role) = hashed[a][role] BY StepFacts DEF Sha
  <2>6. \A role \in Roles :
          /\ objects'[FileRow(a, role, a).key] # None
          /\ objects'[FileRow(a, role, a).key].sha256 = FileRow(a, role, a).sha256
    BY <2>1, <2>2, <2>4, <2>5, StepFacts
  <2> DEFINE row == SnapshotRow(a, a)
             key == ObjectKey(a, "manifest")
  <2>7. /\ row.id = a /\ row.acquired = request[a].acquired /\ row.url = request[a].url
        /\ row.manifest = key
    BY DEF SnapshotRow
  <2>8. objects[key] # None /\ objects[key].body = Manifest(a)
    <3>1. objects[key] # None /\ objects[key].sha256 = Manifest(a) BY <2>2, StepFacts DEF Sha
    <3>2. HashedAll(a) BY <2>1 DEF IInv, PlanFits, Planned, Recording
    <3>3. Manifest(a) \in Manifests BY <1>1, <3>2, RowTypes
    <3>4. key \in Keys BY <1>1, ArgumentFacts, StepFacts
    <3> QED BY <1>1, <3>1, <3>3, <3>4 DEF ManifestsTold
  <2>9. /\ Manifest(a).acquired = request[a].acquired /\ Manifest(a).url = request[a].url
        /\ \A role \in Roles : Manifest(a).key[role] = ObjectKey(a, role)
        /\ \A role \in Roles : Manifest(a).sha256[role] = hashed[a][role]
    BY DEF Manifest
  <2> HIDE DEF key
  <2>10. Lists(row, files')
    <3>1. \A f \in files' : f.snapshot = a => \E role \in Roles : f = FileRow(a, role, a)
      BY <1>4, <2>3
    <3> HIDE DEF row
    <3>2. objects'[row.manifest] # None /\ objects'[row.manifest].body = Manifest(a)
      BY <2>1, <2>7, <2>8
    <3>3. \A f \in files' : f.snapshot = row.id =>
            f.sha256 = Manifest(a).sha256[f.role] /\ f.key = Manifest(a).key[f.role]
      BY <2>4, <2>7, <2>9, <3>1
    <3> QED BY <2>7, <2>9, <3>2, <3>3
  <2>11. \A s \in snapshots : Lists(s, files')
    <3>1. \A s \in snapshots, f \in files' : f.snapshot = s.id => f \in files
      BY <1>4, <2>3, <2>4
    <3> QED BY <1>3, <3>1
  <2> QED BY <1>2, <1>4, <2>6, <2>10, <2>11
<1> QED BY <1>2, <1>3, <1>4, CommitSpec, TablesAndBucket

\* At the start nothing is active, stored or recorded.
LEMMA InitiallySerialInv == Init => SerialInv
<1> SUFFICES ASSUME Init PROVE SerialInv OBVIOUS
<1> USE DEF Init
<1>1. OneActive BY DEF OneActive, Active
<1>2. StillVacant /\ DoneMatches BY DEF StillVacant, DoneMatches, Done, Storing, Recording
<1>3. UploadsHold BY DEF UploadsHold
<1>4. FoundIsCurrent /\ NoCollision BY DEF FoundIsCurrent, NoCollision, Storing, Recording
<1>5. RecordedIsArchived BY DEF RecordedIsArchived
<1> QED BY <1>1, <1>2, <1>3, <1>4, <1>5 DEF SerialInv

LEMMA SerialInvStep ==
  ASSUME ~Concurrent, IInv, SerialInv, [Next]_vars
  PROVE  SerialInv'
<1>1. OneActive' BY OneActiveStep DEF SerialInv
<1> QED BY <1>1, StillVacantStep, DoneMatchesStep, UploadsHoldStep, FoundIsCurrentStep,
           NoCollisionStep, RecordedIsArchivedStep
        DEF SerialInv

\* With the invariant of all behaviours, the serial one is inductive.
THEOREM SerialInductive == ASSUME ~Concurrent PROVE Spec => []SerialInv
BY InitiallySerialInv, SerialInvStep, Inductive, PTL DEF Spec

\* When invocations do not overlap, every row stays archived: its object has its hash, and the
\* manifest lists what the rows say, after any later invocations, retries and interruptions.
THEOREM RecordedStaysArchived == ASSUME ~Concurrent PROVE Spec => []RecordedIsArchived
<1>1. SerialInv => RecordedIsArchived BY DEF SerialInv
<1> QED BY <1>1, SerialInductive, PTL

\* What an invocation has uploaded and verified holds the bytes it hashed, although the file
\* can be changed while it is transferred.
THEOREM UploadsHoldTheHashed == ASSUME ~Concurrent PROVE Spec => []UploadedIsHashed
<1>1. SerialInv => UploadedIsHashed BY DEF SerialInv, UploadsHold, UploadedIsHashed, HoldsHashed
<1> QED BY <1>1, SerialInductive, PTL

\* repository.py:189: hashes and object keys that are recorded for another snapshot are found
\* before anything is uploaded.
THEOREM CollisionsPrecedeUploads == ASSUME ~Concurrent PROVE Spec => []UploadsAreNew
<1>1. IInv /\ SerialInv => UploadsAreNew
  BY DEF IInv, TypeOK, SerialInv, PlanFits, NoCollision, UploadsAreNew, Storing, Recording, Phases
<1> QED BY <1>1, Inductive, SerialInductive, PTL

\* README.md:139: no object is ever replaced.
THEOREM NothingIsReplaced == ASSUME ~Concurrent PROVE Spec => NeverReplaces
<1>1. IInv /\ SerialInv /\ [Next]_vars => [ObjectsKept]_vars BY Kept
<1> QED BY <1>1, Inductive, SerialInductive, PTL DEF Spec, NeverReplaces

-----------------------------------------------------------------------------
(* Refinement: ImplementsWriteOnce *)

LEMMA AbstractInit == Init => Abstract!Init
BY DEF Init, Abstract!Init, Recorded

\* A transfer, completed or broken off after its bytes, stores one object at a vacant key.
LEMMA TransferStores ==
  ASSUME IInv, SerialInv, NEW a \in Archivers, Transferring(a)
  PROVE  Abstract!Next
<1> DEFINE key == ObjectKey(a, step[a])
<1>1. objects[key] = None BY DEF SerialInv, StillVacant, Transferring
<1>2. key \in Keys /\ objects'[key] # None BY PutSpec, ManifestsAssumption
<1>3. objects' = [objects EXCEPT ![key] = objects'[key]]
  BY <1>2 DEF Transferring, Put, IInv, TypeOK
<1>4. Recorded' = Recorded BY DEF Transferring, Recorded, RecordOf, FilesOf
<1>5. Abstract!Store(key) BY <1>1, <1>2, <1>3, <1>4 DEF Abstract!Store
<1> QED BY <1>2, <1>5 DEF Abstract!Next

\* A commit records one snapshot, of keys and hashes no other has, after its objects.
LEMMA CommitRecords ==
  ASSUME IInv, SerialInv, [Next]_vars, NEW a \in Archivers, Committing(a), Inserting(a),
         snapshots' = snapshots \cup {SnapshotRow(a, a)},
         files' = files \cup {FileRow(a, role, a) : role \in Roles}
  PROVE  Abstract!Next
<1> DEFINE row == SnapshotRow(a, a)
           rows == {FileRow(a, role, a) : role \in Roles}
           new == [manifest |-> row.manifest, acquired |-> row.acquired,
                   files |-> {[key |-> f.key, sha256 |-> f.sha256] : f \in rows}]
<1>1. /\ UniqueSnapshots /\ UniqueFiles /\ objects' = objects /\ Passed(a) = Roles /\ pc[a] = "commit"
  BY CommitSpec DEF IInv
<1>2. pending[a].snapshots = {row} /\ pending[a].files = rows BY <1>1 DEF Inserting
<1>3. (\A s \in snapshots : s.id # a) /\ (\A f \in files : f.snapshot # a)
  BY <1>1, NotYetRecorded DEF Ended
<1>4. row.id = a BY DEF SnapshotRow
<1>5. \A f \in rows : f.snapshot = a BY DEF FileRow
<1> HIDE DEF row, rows
<1>6. \A q \in snapshots : row.acquired # q.acquired /\ row.manifest # q.manifest
  BY <1>1, <1>2 DEF UniqueSnapshots, SnapshotsClash
<1>7. \A f \in rows, g \in files : f.key # g.key /\ f.sha256 # g.sha256
  BY <1>1, <1>2 DEF UniqueFiles, FilesClash
<1>8. snapshots' = snapshots \cup {row} /\ files' = files \cup rows BY DEF row, rows
<1>9. ASSUME NEW s, s = row PROVE RecordOf(s)' = new
  <2>1. {f \in files' : f.snapshot = s.id} = rows BY <1>3, <1>4, <1>5, <1>8, <1>9
  <2> QED BY <1>9, <2>1 DEF RecordOf, FilesOf
<1>10. \A s \in snapshots : RecordOf(s)' = RecordOf(s)
  <2>1. \A s \in snapshots : {f \in files' : f.snapshot = s.id} = {f \in files : f.snapshot = s.id}
    BY <1>3, <1>5, <1>8
  <2> QED BY <2>1 DEF RecordOf, FilesOf
<1>11. Recorded' = Recorded \cup {new}
  <2>1. Recorded' = {RecordOf(s)' : s \in snapshots'} BY DEF Recorded
  <2> QED BY <1>8, <1>9, <1>10, <2>1 DEF Recorded
<1>12. \A q \in Recorded : Abstract!Disjoint(new, q)
  BY <1>6, <1>7 DEF Recorded, RecordOf, FilesOf, Abstract!Disjoint
<1>13. Abstract!Stored(new)
  <2>1. \A f \in rows : objects[f.key] # None /\ objects[f.key].sha256 = f.sha256
    BY <1>1, <1>8, RecordedIsArchivedStep DEF RecordedIsArchived
  <2>2. objects[row.manifest] # None
    BY <1>1, <1>8, StoredStep DEF NoRowWithoutObject
  <2> QED BY <2>1, <2>2 DEF Abstract!Stored
<1>14. new \notin Recorded BY <1>6 DEF Recorded, RecordOf
<1> HIDE DEF new
<1> QED BY <1>1, <1>11, <1>12, <1>13, <1>14 DEF Abstract!Next, Abstract!Record

\* Every step of invocations that do not overlap stores one object, records one snapshot, or
\* changes neither.
LEMMA AbstractStep ==
  ASSUME IInv, SerialInv, [Next]_vars
  PROVE  [Abstract!Next]_<<objects, Recorded>>
<1>1. CASE UNCHANGED <<objects, snapshots, files>>
  BY <1>1 DEF Recorded, RecordOf, FilesOf
<1>2. ASSUME NEW a \in Archivers, Committing(a) PROVE [Abstract!Next]_<<objects, Recorded>>
  BY <1>1, <1>2, CommitSpec, CommitRecords
<1>3. ASSUME NEW a \in Archivers, Transferring(a) PROVE Abstract!Next
  BY <1>3, TransferStores
<1> QED BY <1>1, <1>2, <1>3, TablesAndBucket

\* When invocations do not overlap, the bucket and the metadata are an archive that is written
\* once, in which a snapshot is recorded in one step and after its objects.
THEOREM Refinement == ASSUME ~Concurrent PROVE Spec => ImplementsWriteOnce
<1>1. Init => Abstract!Init BY AbstractInit
<1>2. IInv /\ SerialInv /\ [Next]_vars => [Abstract!Next]_<<objects, Recorded>>
  BY AbstractStep
<1> QED BY <1>1, <1>2, Inductive, SerialInductive, PTL DEF Spec, Abstract!Spec, ImplementsWriteOnce
=============================================================================
