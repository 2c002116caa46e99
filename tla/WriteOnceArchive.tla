--------------------------- MODULE WriteOnceArchive ---------------------------
(***************************************************************************)
(* What `datatown pdl archive` promises of the bucket and of the metadata, *)
(* without invocations, transactions or local files: an object is stored   *)
(* once and never replaced, and a snapshot is recorded in one step, when   *)
(* its manifest and all its files are stored under the hashes it gives.    *)
(***************************************************************************)
CONSTANTS Keys, None

VARIABLES
  store,    \* object at each key, or None
  recorded  \* recorded snapshots: timestamp, manifest key, and keys and hashes of the files

Init ==
  /\ store = [k \in Keys |-> None]
  /\ recorded = {}

Store(k) ==
  /\ store[k] = None /\ store'[k] # None
  /\ store' = [store EXCEPT ![k] = store'[k]]
  /\ UNCHANGED recorded

Stored(snapshot) ==
  /\ store[snapshot.manifest] # None
  /\ \A f \in snapshot.files : store[f.key] # None /\ store[f.key].sha256 = f.sha256

Disjoint(r, q) ==
  /\ r.manifest # q.manifest /\ r.acquired # q.acquired
  /\ \A f \in r.files, g \in q.files : f.key # g.key /\ f.sha256 # g.sha256

Record ==
  /\ \E r \in recorded' \ recorded :
       /\ Stored(r)
       /\ \A q \in recorded : Disjoint(r, q)
       /\ recorded' = recorded \cup {r}
  /\ UNCHANGED store

Next == Record \/ \E k \in Keys : Store(k)

Spec == Init /\ [][Next]_<<store, recorded>>
=============================================================================
