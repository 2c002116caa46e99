---------------------------- MODULE PdlArchiveInv ----------------------------
(***************************************************************************)
(* The inductive invariant of PdlArchive: what holds of the rows, objects  *)
(* and files whatever invocations overlap, and what holds in addition when *)
(* they do not.                                                            *)
(***************************************************************************)
EXTENDS PdlArchive

Active(a) == pc[a] \notin Ended \cup {"start"}

Storing == {"validate", "head", "upload", "revalidate", "verify"}
Recording == {"refind", "recompare", "insert_snapshot", "insert_file", "commit"}
Planned == {"find", "compare"} \cup Storing \cup Recording

\* The artifact an invocation is at fits its phase.
StepFits ==
  \A a \in Archivers :
    /\ pc[a] \in {"stat", "hash", "validate", "revalidate", "insert_file"} => step[a] \in Roles
    /\ pc[a] \in {"start", "find", "compare", "refind", "recompare", "insert_snapshot"} =>
         step[a] = "original_csv"
    /\ pc[a] = "commit" => step[a] = "original_json"

HashedAll(a) == hashed[a] \in [Roles -> Contents] /\ DistinctNames(a)

\* Who works on the store or the database has the hashes of both files, and nothing was
\* uploaded without them.
PlanFits ==
  \A a \in Archivers :
    /\ pc[a] \in {"start", "stat", "hash"} =>
         hashed[a][step[a]] = None /\ hashed[a]["original_json"] = None
    /\ pc[a] \in {"stat", "hash"} /\ step[a] = "original_json" =>
         hashed[a]["original_csv"] \in Contents
    /\ pc[a] \in {"start", "stat", "hash", "find", "compare"} => uploaded[a] = {}
    /\ pc[a] \in Planned \/ uploaded[a] # {} => HashedAll(a)

\* A file that has the identity of the plan has the hashed content.
IdentityTells ==
  \A a \in Archivers, role \in Roles :
    hashed[a][role] # None =>
      /\ identity[a][role] \in 0 .. edits
      /\ local[PathOf(a, role)].version = identity[a][role] =>
           local[PathOf(a, role)].content = hashed[a][role]

\* Files of its snapshot a transaction has passed.
Passed(a) ==
  IF pc[a] = "commit" THEN Roles ELSE IF step[a] = "original_csv" THEN {} ELSE {"original_csv"}

\* A transaction that inserts a snapshot has inserted the files it has passed; one that found
\* the snapshot found them, and inserts nothing.
Inserting(a) ==
  /\ found[a] = a
  /\ pending[a] = [snapshots |-> {SnapshotRow(a, a)},
                   files |-> {FileRow(a, role, a) : role \in Passed(a)}]
Repeating(a) ==
  /\ pending[a] = NoRows
  /\ \E id \in Archivers :
       /\ found[a] = id /\ SnapshotRow(a, id) \in snapshots
       /\ \A role \in Passed(a) : FileRow(a, role, id) \in files

\* The snapshot a transaction works with is recorded as it was requested.
FoundRecorded(a) == \E id \in Archivers : found[a] = id /\ SnapshotRow(a, id) \in snapshots

Transactions ==
  \A a \in Archivers :
    /\ pc[a] \notin {"insert_file", "commit"} => pending[a] = NoRows
    /\ pc[a] \in {"insert_file", "commit"} => Inserting(a) \/ Repeating(a)
    /\ pc[a] = "recompare" => found[a] = None \/ FoundRecorded(a)
    /\ pc[a] = "insert_snapshot" => found[a] = None

\* A recorded snapshot is that of an invocation that has ended, and has both its files.
Owned ==
  /\ \A s \in snapshots : pc[s.id] \in {"succeeded", "broken"}
  /\ \A f \in files : \E s \in snapshots : s.id = f.snapshot
  /\ \A s \in snapshots, role \in Roles :
       \E f \in files : f.snapshot = s.id /\ f.role = role

\* The unique keys, also of rows not yet committed.
UniqueSnapshots ==
  /\ \A r, q \in snapshots : SnapshotsClash(r, q) => r = q
  /\ \A a \in Archivers : \A r \in pending[a].snapshots, q \in snapshots : ~SnapshotsClash(r, q)
  /\ \A a, b \in Archivers : \A r \in pending[a].snapshots, q \in pending[b].snapshots :
       SnapshotsClash(r, q) => a = b
UniqueFiles ==
  /\ \A r, q \in files : FilesClash(r, q) => r = q
  /\ \A a \in Archivers : \A r \in pending[a].files, q \in files : ~FilesClash(r, q)
  /\ \A a, b \in Archivers : \A r \in pending[a].files, q \in pending[b].files :
       FilesClash(r, q) => a = b /\ r = q

\* What carries the hash of a manifest is that manifest.
ManifestsTold ==
  \A k \in Keys : objects[k] # None /\ objects[k].sha256 \in Manifests =>
    objects[k].body = objects[k].sha256

\* Artifacts an invocation has seen in the store.
Done(a) ==
  IF pc[a] \in Recording THEN Steps
  ELSE IF pc[a] \notin Storing THEN {}
  ELSE IF step[a] = "original_csv" THEN {}
  ELSE IF step[a] = "original_json" THEN {"original_csv"} ELSE Roles

DoneStored == \A a \in Archivers : \A s \in Done(a) : objects[ObjectKey(a, s)] # None

\* Whatever invocations overlap.
IInv ==
  /\ TypeOK /\ StepFits /\ PlanFits /\ IdentityTells /\ Transactions /\ Owned
  /\ UniqueSnapshots /\ UniqueFiles /\ ManifestsTold /\ DoneStored
  /\ NoRowWithoutObject /\ SucceededIsRecorded

-----------------------------------------------------------------------------
(* When invocations do not overlap *)

OneActive == \A a, b \in Archivers : Active(a) /\ Active(b) => a = b

\* Nobody else has taken the key that was seen to be vacant.
StillVacant == \A a \in Archivers : pc[a] = "upload" => objects[ObjectKey(a, step[a])] = None

DoneMatches ==
  \A a \in Archivers : \A s \in Done(a) : objects[ObjectKey(a, s)].sha256 = Sha(a, s)

HoldsHashed(a, role) ==
  /\ objects[ObjectKey(a, role)] # None
  /\ objects[ObjectKey(a, role)].body = hashed[a][role]

\* What was uploaded is what was hashed, if the file passes the validation that follows.
UploadsHold ==
  \A a \in Archivers :
    /\ \A role \in Roles \cap uploaded[a] : HoldsHashed(a, role)
    /\ pc[a] = "revalidate" /\ SameFile(a, step[a]) => HoldsHashed(a, step[a])
    /\ pc[a] = "verify" /\ step[a] \in Roles => HoldsHashed(a, step[a])

\* The snapshot found before the uploads is still the one to be found after them.
FoundIsCurrent ==
  \A a \in Archivers : pc[a] \in {"compare", "recompare", "refind"} \cup Storing =>
    IF found[a] = None THEN \A r \in snapshots : r.acquired # request[a].acquired
    ELSE \E r \in snapshots : r.id = found[a] /\ r.acquired = request[a].acquired

\* No requested file is recorded for another snapshot, from the first comparison on.
NoCollision ==
  \A a \in Archivers : pc[a] \in Storing \cup Recording =>
    \A f \in files : Collides(a, f) => f.snapshot = found[a]

SerialInv ==
  /\ OneActive /\ StillVacant /\ DoneMatches /\ UploadsHold /\ FoundIsCurrent
  /\ NoCollision /\ RecordedIsArchived
=============================================================================
