------------------------------ MODULE PdlArchive ------------------------------
(***************************************************************************)
(* `datatown pdl archive`: src/datatown/pdl/archive.py and the metadata    *)
(* repository it writes to, src/datatown/metadata/repository.py.           *)
(*                                                                         *)
(* An invocation hashes two local files, checks meta.dataset_snapshots and *)
(* meta.dataset_files in a read-only transaction, puts the files and a     *)
(* manifest into the object store, each after looking whether its key is   *)
(* occupied, and records the snapshot in one transaction.  A retry is      *)
(* another invocation with the same arguments.                             *)
(*                                                                         *)
(* A content stands for its SHA-256; a manifest, which is a function of the *)
(* arguments and the hashes, is the record of what it lists.  The uuid of a *)
(* snapshot is the invocation that generated it.  Source, dataset and      *)
(* description are constants of the program and left out.                  *)
(***************************************************************************)
EXTENDS Naturals, FiniteSets

CONSTANTS
  Archivers,    \* invocations of `pdl archive`
  Requests,     \* arguments an invocation can be given, see RequestType
  Paths,        \* local files
  Filename,     \* base name of each path
  Contents,     \* contents of local files
  Original,     \* content of each path at the start
  Size,         \* number of bytes of a content
  Acquired,     \* acquisition timestamps
  DayOf,        \* UTC date of a timestamp
  ManifestName, \* manifest.json
  None,         \* no file, no object, NULL
  Concurrent,   \* whether invocations are ever started while others run
  MaxFaults,    \* bound on the faults of a behaviour
  MaxEdits      \* bound on the changes made to local files

Roles == {"original_csv", "original_json"}
Steps == Roles \cup {"manifest"}

ASSUME RequestsAssumption ==
  /\ \A r \in Requests : r.path \in [Roles -> Paths] /\ r.acquired \in Acquired
ASSUME FilesAssumption ==
  Original \in [Paths -> Contents] /\ Size \in [Contents -> Nat] /\ None \notin Contents
ASSUME ArchiverAssumption == None \notin Archivers /\ IsFiniteSet(Archivers)
ASSUME ArchiveBounds == MaxFaults \in Nat /\ MaxEdits \in Nat /\ Concurrent \in BOOLEAN

VARIABLES
  pc,        \* phase of each invocation
  request,   \* its arguments: the two paths, --acquired-at and --source-url
  step,      \* artifact it is at: one of the originals, then the manifest
  identity,  \* stat() identity of its files when they were hashed
  hashed,    \* content whose SHA-256 is in its plan
  uploaded,  \* artifacts it has put into the store and verified
  found,     \* id of the snapshot row it works with
  pending,   \* rows its transaction has inserted and not committed
  snapshots, \* committed rows of meta.dataset_snapshots
  files,     \* committed rows of meta.dataset_files
  objects,   \* the bucket
  local,     \* local files: content and stat() identity
  faults,    \* faults so far
  edits      \* changes made to local files so far

database == <<found, pending, snapshots, files>>
plan == <<identity, hashed>>
environment == <<request, local, edits>>
vars == <<pc, step, plan, uploaded, database, objects, environment, faults>>

-----------------------------------------------------------------------------
(* The plan *)

Filenames == {Filename[p] : p \in Paths} \cup {ManifestName}
Keys == {DayOf[t] : t \in Acquired} \X Filenames

PathOf(a, role) == request[a].path[role]

\* The object prefix has the date only, not the time, of the acquisition.
ObjectKey(a, s) ==
  <<DayOf[request[a].acquired], IF s = "manifest" THEN ManifestName ELSE Filename[PathOf(a, s)]>>

Manifest(a) ==
  [acquired |-> request[a].acquired, url |-> request[a].url,
   key |-> [role \in Roles |-> ObjectKey(a, role)], sha256 |-> hashed[a]]

\* Manifests that can be built, and what the bucket can hold under a key.
Manifests ==
  [acquired : Acquired, url : {r.url : r \in Requests}, key : [Roles -> Keys],
   sha256 : [Roles -> Contents]]
Objects == [body : Contents \cup Manifests, sha256 : Contents \cup Manifests]

\* No original is itself the manifest of a snapshot.
ASSUME ManifestsAssumption == Contents \cap Manifests = {} /\ None \notin Objects

\* What the sha256 metadata of the object has to be.
Sha(a, s) == IF s = "manifest" THEN Manifest(a) ELSE hashed[a][s]

\* Slip: the manifest is recorded under its name without the prefix.
SnapshotRowUnprefixed(a, id) ==
  [id |-> id, acquired |-> request[a].acquired, url |-> request[a].url,
   manifest |-> ManifestName]

SnapshotRow(a, id) ==
  [id |-> id, acquired |-> request[a].acquired, url |-> request[a].url,
   manifest |-> ObjectKey(a, "manifest")]

FileRow(a, role, id) ==
  [snapshot |-> id, role |-> role, key |-> ObjectKey(a, role), sha256 |-> hashed[a][role]]

DistinctNames(a) == ObjectKey(a, "original_csv") # ObjectKey(a, "original_json")

-----------------------------------------------------------------------------
(* Metadata repository *)

\* Slips: the row of an earlier invocation is never taken for the one requested; always.
NeverSame(a, row) == FALSE
AlwaysSame(a, row) == TRUE

\* _compare_snapshot_row, of a row selected by its acquisition timestamp.
SameSnapshot(a, row) == row = SnapshotRow(a, row.id)

\* Rows that have the sha256 or the object key of a requested file.
Collides(a, row) ==
  \E role \in Roles : row.sha256 = hashed[a][role] \/ row.key = ObjectKey(a, role)

\* The first requested file a colliding row is compared with.
ComparedRole(a, row) ==
  IF row.sha256 = hashed[a]["original_csv"] \/ row.key = ObjectKey(a, "original_csv")
  THEN "original_csv" ELSE "original_json"

\* Slip: a hash recorded under another snapshot is taken for a repeat.
FilesAgreeUnlessNew(a) ==
  \A row \in files : Collides(a, row) /\ found[a] # None =>
    row = FileRow(a, ComparedRole(a, row), found[a])

\* The second half of _preflight_on_connection: no requested file is assigned to another
\* snapshot, and what the snapshot already has is what is requested.
FilesAgree(a) ==
  \A row \in files :
    /\ Collides(a, row) =>
         found[a] # None /\ row = FileRow(a, ComparedRole(a, row), found[a])
    /\ found[a] # None /\ row.snapshot = found[a] => row = FileRow(a, row.role, found[a])

\* UNIQUE constraints of 001_meta.sql.
SnapshotsClash(r, q) == r.acquired = q.acquired \/ r.manifest = q.manifest
FilesClash(r, q) ==
  \/ r.key = q.key \/ r.sha256 = q.sha256
  \/ r.snapshot = q.snapshot /\ r.role = q.role

NoRows == [snapshots |-> {}, files |-> {}]

-----------------------------------------------------------------------------
Ended == {"succeeded", "refused", "broken"}
Phases ==
  {"start", "stat", "hash", "find", "compare", "validate", "head", "upload", "revalidate",
   "verify", "refind", "recompare", "insert_snapshot", "insert_file", "commit"} \cup Ended

Init ==
  /\ pc = [a \in Archivers |-> "start"]
  /\ request \in [Archivers -> Requests]
  /\ step = [a \in Archivers |-> "original_csv"]
  /\ identity = [a \in Archivers |-> [role \in Roles |-> None]]
  /\ hashed = [a \in Archivers |-> [role \in Roles |-> None]]
  /\ uploaded = [a \in Archivers |-> {}]
  /\ found = [a \in Archivers |-> None]
  /\ pending = [a \in Archivers |-> NoRows]
  /\ snapshots = {} /\ files = {}
  /\ objects = [k \in Keys |-> None]
  /\ local = [p \in Paths |-> [content |-> Original[p], version |-> 0]]
  /\ faults = 0 /\ edits = 0

Go(a, phase) == pc' = [pc EXCEPT ![a] = phase]
At(a, s) == step' = [step EXCEPT ![a] = s]

\* Leaving the `with` block rolls back what is pending.
Refuse(a) == Go(a, "refused") /\ pending' = [pending EXCEPT ![a] = NoRows]

-----------------------------------------------------------------------------
(* build_archive_plan *)

\* Rows, objects and files are looked at once the files are hashed; nobody else runs
\* then unless invocations are concurrent.
Begin(a) ==
  /\ pc[a] = "start"
  /\ Concurrent \/ \A b \in Archivers \ {a} : pc[b] \in Ended \cup {"start"}
  /\ Go(a, "stat")
  /\ UNCHANGED <<step, plan, uploaded, database, objects, environment, faults>>

Stat(a) ==
  LET p == PathOf(a, step[a]) IN
  /\ pc[a] = "stat"
  /\ IF local[p].content = None
     THEN Refuse(a) /\ UNCHANGED identity
     ELSE /\ Go(a, "hash")
          /\ identity' = [identity EXCEPT ![a][step[a]] = local[p].version]
          /\ UNCHANGED pending
  /\ UNCHANGED <<step, hashed, uploaded, found, snapshots, files, objects, environment, faults>>

\* The file has the identity it had, so it was not changed in between.
SameFile(a, role) ==
  /\ local[PathOf(a, role)].content # None
  /\ local[PathOf(a, role)].version = identity[a][role]

Hash(a) ==
  LET p == PathOf(a, step[a]) IN
  /\ pc[a] = "hash"
  /\ IF SameFile(a, step[a])
     THEN /\ hashed' = [hashed EXCEPT ![a][step[a]] = local[p].content]
          /\ IF step[a] = "original_csv"
             THEN Go(a, "stat") /\ At(a, "original_json") /\ UNCHANGED pending
             ELSE /\ At(a, "original_csv")
                  /\ IF DistinctNames(a) THEN Go(a, "find") /\ UNCHANGED pending ELSE Refuse(a)
     ELSE Refuse(a) /\ UNCHANGED <<hashed, step>>
  /\ UNCHANGED <<identity, uploaded, found, snapshots, files, objects, environment, faults>>

-----------------------------------------------------------------------------
(* preflight_snapshot, and the same two selections at the start of record_snapshot *)

FindSnapshot(a, next) ==
  LET rows == {r \in snapshots : r.acquired = request[a].acquired} IN
  /\ \/ rows = {} /\ found' = [found EXCEPT ![a] = None] /\ Go(a, next) /\ UNCHANGED pending
     \/ \E r \in rows :
          IF SameSnapshot(a, r)
          THEN found' = [found EXCEPT ![a] = r.id] /\ Go(a, next) /\ UNCHANGED pending
          ELSE Refuse(a) /\ UNCHANGED found
  /\ UNCHANGED <<step, plan, uploaded, snapshots, files, objects, environment, faults>>

CompareFiles(a, next) ==
  /\ IF FilesAgree(a) THEN Go(a, next) /\ UNCHANGED pending ELSE Refuse(a)
  /\ UNCHANGED <<step, plan, uploaded, found, snapshots, files, objects, environment, faults>>

Preflight(a) ==
  \/ pc[a] = "find" /\ FindSnapshot(a, "compare")
  \/ pc[a] = "compare" /\ CompareFiles(a, "validate")

-----------------------------------------------------------------------------
(* _ensure_file_object and _ensure_manifest_object *)

\* Slip: an object is recognised by its key alone.
AnyObject(a, s, object) == TRUE

\* _verify_remote_object: the sha256 metadata and the size.  The size of a manifest
\* follows from its hash.
RemoteMatches(a, s, object) ==
  /\ object.sha256 = Sha(a, s)
  /\ s # "manifest" => Size[object.body] = Size[Sha(a, s)]

\* Slip: the loop does not advance past an object that is already there.
SameStep(a) ==
  Go(a, IF step[a] = "manifest" THEN "head" ELSE "validate") /\ UNCHANGED step

\* Slip: the metadata is recorded before the manifest is uploaded.
RecordedEarly(a) ==
  \/ step[a] = "original_csv"  /\ At(a, "original_json") /\ Go(a, "validate")
  \/ step[a] = "original_json" /\ At(a, "original_csv")  /\ Go(a, "refind")

\* The next artifact; the manifest, which has no local file to validate, is the last.
NextArtifact(a) ==
  \/ step[a] = "original_csv"  /\ At(a, "original_json") /\ Go(a, "validate")
  \/ step[a] = "original_json" /\ At(a, "manifest")      /\ Go(a, "head")
  \/ step[a] = "manifest"      /\ At(a, "original_csv")  /\ Go(a, "refind")

Validate(a, next) ==
  /\ IF SameFile(a, step[a]) THEN Go(a, next) /\ UNCHANGED pending ELSE Refuse(a)
  /\ UNCHANGED <<step, plan, uploaded, found, snapshots, files, objects, environment, faults>>

ValidateBefore(a) == pc[a] = "validate" /\ Validate(a, "head")

\* Slip: it is not asked whether the key is occupied.
HeadSkipped(a) ==
  /\ pc[a] = "head" /\ Go(a, "upload")
  /\ UNCHANGED <<step, plan, uploaded, database, objects, environment, faults>>

Head(a) ==
  LET object == objects[ObjectKey(a, step[a])] IN
  /\ pc[a] = "head"
  /\ IF object = None THEN Go(a, "upload") /\ UNCHANGED <<step, pending>>
     ELSE IF RemoteMatches(a, step[a], object) THEN NextArtifact(a) /\ UNCHANGED pending
     ELSE Refuse(a) /\ UNCHANGED step
  /\ UNCHANGED <<plan, uploaded, found, snapshots, files, objects, environment, faults>>

\* upload_file reads the path again; the metadata has the planned hash.
Body(a) ==
  IF step[a] = "manifest" THEN Manifest(a) ELSE local[PathOf(a, step[a])].content

Put(a) ==
  objects' = [objects EXCEPT ![ObjectKey(a, step[a])] =
                [body |-> Body(a), sha256 |-> Sha(a, step[a])]]

\* Slip: the file is not validated after the transfer.
UploadedUnseen(a) == Go(a, "verify")

Uploaded(a) == Go(a, IF step[a] = "manifest" THEN "verify" ELSE "revalidate")

Upload(a) ==
  /\ pc[a] = "upload"
  /\ IF Body(a) = None
     THEN Refuse(a) /\ UNCHANGED objects
     ELSE Put(a) /\ Uploaded(a) /\ UNCHANGED pending
  /\ UNCHANGED <<step, plan, uploaded, found, snapshots, files, environment, faults>>

ValidateAfter(a) == pc[a] = "revalidate" /\ Validate(a, "verify")

Verify(a) ==
  LET object == objects[ObjectKey(a, step[a])] IN
  /\ pc[a] = "verify"
  /\ IF object # None /\ RemoteMatches(a, step[a], object)
     THEN /\ NextArtifact(a) /\ UNCHANGED pending
          /\ uploaded' = [uploaded EXCEPT ![a] = @ \cup {step[a]}]
     ELSE Refuse(a) /\ UNCHANGED <<step, uploaded>>
  /\ UNCHANGED <<plan, found, snapshots, files, objects, environment, faults>>

-----------------------------------------------------------------------------
(* record_snapshot: one READ COMMITTED transaction.  An insertion that clashes with a *)
(* committed row fails, one that clashes with a row not yet committed waits.          *)

Refind(a) ==
  \/ pc[a] = "refind" /\ FindSnapshot(a, "recompare")
  \/ pc[a] = "recompare"
     /\ CompareFiles(a, IF found[a] = None THEN "insert_snapshot" ELSE "insert_file")

NewSnapshot(a) == SnapshotRow(a, a)
NewFile(a) == FileRow(a, step[a], found[a])

\* The insertion of a waits until b commits or rolls back.
WaitsFor(a, b) ==
  /\ a # b
  /\ \/ pc[a] = "insert_snapshot"
        /\ \E q \in pending[b].snapshots : SnapshotsClash(NewSnapshot(a), q)
     \/ pc[a] = "insert_file" /\ \E q \in pending[b].files : FilesClash(NewFile(a), q)

MayInsert(a) == \A b \in Archivers : ~WaitsFor(a, b)

\* Slip: the row of the snapshot is committed by itself.
InsertSnapshotAlone(a) ==
  /\ pc[a] = "insert_snapshot"
  /\ ~ \E q \in snapshots : SnapshotsClash(NewSnapshot(a), q)
  /\ snapshots' = snapshots \cup {NewSnapshot(a)}
  /\ found' = [found EXCEPT ![a] = a]
  /\ Go(a, "insert_file")
  /\ UNCHANGED <<step, plan, uploaded, pending, files, objects, environment, faults>>

InsertSnapshot(a) ==
  /\ pc[a] = "insert_snapshot"
  /\ IF \E q \in snapshots : SnapshotsClash(NewSnapshot(a), q)
     THEN Refuse(a) /\ UNCHANGED found
     ELSE /\ MayInsert(a)
          /\ pending' = [pending EXCEPT ![a] = [snapshots |-> {NewSnapshot(a)}, files |-> {}]]
          /\ found' = [found EXCEPT ![a] = a]
          /\ Go(a, "insert_file")
  /\ UNCHANGED <<step, plan, uploaded, snapshots, files, objects, environment, faults>>

NextFile(a) ==
  IF step[a] = "original_csv" THEN At(a, "original_json") /\ UNCHANGED pc
  ELSE Go(a, "commit") /\ UNCHANGED step

\* A file the snapshot already has is compared, any other is inserted.
InsertFile(a) ==
  LET existing == {q \in files : q.snapshot = found[a] /\ q.role = step[a]} IN
  /\ pc[a] = "insert_file"
  /\ \/ existing # {} /\ existing = {NewFile(a)} /\ NextFile(a) /\ UNCHANGED pending
     \/ /\ existing = {}
        /\ ~ \E q \in files \cup pending[a].files : FilesClash(NewFile(a), q)
        /\ MayInsert(a)
        /\ NextFile(a)
        /\ pending' = [pending EXCEPT ![a] =
             [snapshots |-> pending[a].snapshots, files |-> pending[a].files \cup {NewFile(a)}]]
     \/ /\ IF existing = {}
           THEN \E q \in files \cup pending[a].files : FilesClash(NewFile(a), q)
           ELSE existing # {NewFile(a)}
        /\ Refuse(a) /\ UNCHANGED step
  /\ UNCHANGED <<plan, uploaded, found, snapshots, files, objects, environment, faults>>

\* PostgreSQL aborts a transaction of a circle of waiting ones.
DeadlockDetected(a) ==
  /\ \E circle \in SUBSET Archivers :
       a \in circle /\ \A b \in circle : \E c \in circle : WaitsFor(b, c)
  /\ Refuse(a)
  /\ UNCHANGED <<step, plan, uploaded, found, snapshots, files, objects, environment, faults>>

CommitRows(a) ==
  /\ snapshots' = snapshots \cup pending[a].snapshots
  /\ files' = files \cup pending[a].files
  /\ pending' = [pending EXCEPT ![a] = NoRows]

Commit(a) ==
  /\ pc[a] = "commit"
  /\ CommitRows(a)
  /\ Go(a, "succeeded")
  /\ UNCHANGED <<step, plan, uploaded, found, objects, environment, faults>>

-----------------------------------------------------------------------------
(* The environment *)

\* An error of the object store, the database or the network, or the end of the process:
\* what was sent last may have been done nevertheless.
Break(a) ==
  /\ pc[a] \notin Ended \cup {"start"}
  /\ faults < MaxFaults /\ faults' = faults + 1
  /\ Go(a, "broken")
  /\ \/ pending' = [pending EXCEPT ![a] = NoRows] /\ UNCHANGED <<snapshots, files, objects>>
     \/ /\ pc[a] = "upload" /\ Body(a) # None
        /\ Put(a) /\ UNCHANGED <<pending, snapshots, files>>
     \/ pc[a] = "commit" /\ CommitRows(a) /\ UNCHANGED objects
  /\ UNCHANGED <<step, plan, uploaded, found, environment>>

\* Every change, also back to an earlier content, changes the identity.
EditFile(p) ==
  /\ edits < MaxEdits /\ edits' = edits + 1
  /\ \E c \in (Contents \cup {None}) \ {local[p].content} :
       local' = [local EXCEPT ![p] = [content |-> c, version |-> edits']]
  /\ UNCHANGED <<pc, step, plan, uploaded, database, objects, request, faults>>

Quiescent == (\A a \in Archivers : pc[a] \in Ended) /\ UNCHANGED vars

-----------------------------------------------------------------------------
ArchiverStep(a) ==
  \/ Begin(a) \/ Stat(a) \/ Hash(a) \/ Preflight(a)
  \/ ValidateBefore(a) \/ Head(a) \/ Upload(a) \/ ValidateAfter(a) \/ Verify(a)
  \/ Refind(a) \/ InsertSnapshot(a) \/ InsertFile(a) \/ Commit(a) \/ DeadlockDetected(a)

Next ==
  \/ \E a \in Archivers : ArchiverStep(a) \/ Break(a)
  \/ \E p \in Paths : EditFile(p)
  \/ Quiescent

Spec == Init /\ [][Next]_vars

\* Invocations run, the object store and the database answer, and PostgreSQL looks for
\* deadlocks; faults and changes of files are not scheduled.
FairSpec == Spec /\ \A a \in Archivers : WF_vars(ArchiverStep(a))
-----------------------------------------------------------------------------
(* Properties *)

SnapshotRows ==
  [id : Archivers, acquired : Acquired, url : {r.url : r \in Requests}, manifest : Keys]
FileRows == [snapshot : Archivers, role : Roles, key : Keys, sha256 : Contents]

\* Every variable has its type.
TypeOK ==
  /\ pc \in [Archivers -> Phases]
  /\ request \in [Archivers -> Requests]
  /\ step \in [Archivers -> Steps]
  /\ identity \in [Archivers -> [Roles -> Nat \cup {None}]]
  /\ hashed \in [Archivers -> [Roles -> Contents \cup {None}]]
  /\ uploaded \in [Archivers -> SUBSET Steps]
  /\ found \in [Archivers -> Archivers \cup {None}]
  /\ pending \in [Archivers -> [snapshots : SUBSET SnapshotRows, files : SUBSET FileRows]]
  /\ snapshots \subseteq SnapshotRows
  /\ files \subseteq FileRows
  /\ objects \in [Keys -> Objects \cup {None}]
  /\ local \in [Paths -> [content : Contents \cup {None}, version : 0 .. edits]]
  /\ faults \in 0 .. MaxFaults
  /\ edits \in 0 .. MaxEdits

FilesOf(s) == {f \in files : f.snapshot = s.id}

\* A snapshot is never recorded in part: it has one file of each role, and every file has a
\* snapshot, whatever concurrent invocations collide with, wait for or lose.
SnapshotsWhole ==
  /\ \A s \in snapshots :
       {f.role : f \in FilesOf(s)} = Roles /\ Cardinality(FilesOf(s)) = Cardinality(Roles)
  /\ \A f \in files : \E s \in snapshots : s.id = f.snapshot

\* docs/metadata.md:59-61: an interruption cannot leave a metadata row claiming that missing
\* objects were archived.
NoRowWithoutObject ==
  /\ \A f \in files : objects[f.key] # None
  /\ \A s \in snapshots : objects[s.manifest] # None

\* An invocation that reports success has its snapshot and both files recorded exactly as it
\* requested and hashed them, whether it inserted the rows or found them.
SucceededIsRecorded ==
  \A a \in Archivers : pc[a] = "succeeded" =>
    /\ SnapshotRow(a, found[a]) \in snapshots
    /\ \A role \in Roles : FileRow(a, role, found[a]) \in files

\* What the manifest lists is what the rows of the snapshot say.
ManifestLists(s) ==
  LET manifest == objects[s.manifest].body IN
  /\ objects[s.manifest] # None
  /\ manifest.acquired = s.acquired /\ manifest.url = s.url
  /\ \A f \in FilesOf(s) : f.sha256 = manifest.sha256[f.role] /\ f.key = manifest.key[f.role]

\* When invocations do not overlap, what is recorded stays archived: the object of every
\* file carries its hash, and the manifest lists what the rows say, also after later
\* invocations for the same day, retries and interruptions at any point.
RecordedIsArchived ==
  /\ \A f \in files : objects[f.key] # None /\ objects[f.key].sha256 = f.sha256
  /\ \A s \in snapshots : ManifestLists(s)

\* What an invocation has uploaded and verified itself holds the bytes that were hashed,
\* although the file can be changed during the transfer.
UploadedIsHashed ==
  \A a \in Archivers : \A role \in Roles \cap uploaded[a] :
    objects[ObjectKey(a, role)].body = hashed[a][role]

\* repository.py:189: an invocation that gets as far as an upload has no hash or object key
\* that is recorded for another snapshot.
UploadsAreNew ==
  \A a \in Archivers : pc[a] \notin Ended /\ uploaded[a] # {} =>
    \A f \in files : Collides(a, f) => f.snapshot = found[a]

\* A recorded snapshot with its files, as one value.
RecordOf(s) ==
  [manifest |-> s.manifest, acquired |-> s.acquired,
   files |-> {[key |-> f.key, sha256 |-> f.sha256] : f \in FilesOf(s)}]
Recorded == {RecordOf(s) : s \in snapshots}

Abstract == INSTANCE WriteOnceArchive WITH store <- objects, recorded <- Recorded

\* Invocations that do not overlap implement a store written once, in which a snapshot
\* is recorded in one step and after its objects.
ImplementsWriteOnce == Abstract!Spec

\* Every invocation ends, also when transactions wait for each other in a circle.
EveryInvocationEnds == \A a \in Archivers : pc[a] = "stat" ~> pc[a] \in Ended

\* Two originals that can be archived together.
Archivable(r) ==
  LET csv == r.path["original_csv"]  json == r.path["original_json"] IN
  /\ Filename[csv] # Filename[json] /\ ManifestName \notin {Filename[csv], Filename[json]}
  /\ Original[csv] # Original[json]

\* docs/metadata.md:60-61: re-running the same command reuses the verified objects and completes
\* the remaining steps, wherever the earlier ones were interrupted.
RetrySucceeds ==
  \A a \in Archivers :
    /\ pc[a] = "start" /\ faults = MaxFaults /\ edits = 0 /\ MaxEdits = 0
    /\ \A b \in Archivers \ {a} : pc[b] \in Ended /\ request[b] = request[a]
    /\ Archivable(request[a])
    ~> pc[a] = "succeeded"

ObjectsKept == \A k \in Keys : objects[k] # None => objects'[k] = objects[k]

\* README.md:139: it never replaces an object at an occupied key.
NeverReplaces == [][ObjectsKept]_vars

\* docs/metadata.md:12-13, 60-61: a row records the SHA-256 of its file, and a re-run reuses
\* verified objects.  Stated of the bytes of the object.
RecordedBytesAreHashed == \A f \in files : objects[f.key] # None => objects[f.key].body = f.sha256

\* repository.py:189: metadata collisions are rejected before uploading large artifacts.
\* Stated of the manifest key, which is UNIQUE.
CollisionsRejectedFirst ==
  \A a \in Archivers : pc[a] \notin Ended /\ uploaded[a] # {} =>
    ~ \E s \in snapshots : SnapshotsClash(NewSnapshot(a), s) /\ ~SameSnapshot(a, s)
=============================================================================
