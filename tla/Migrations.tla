------------------------------ MODULE Migrations ------------------------------
(***************************************************************************)
(* `datatown migrate`: src/datatown/metadata/migrations.py.                *)
(*                                                                         *)
(* A runner reads meta.schema_migrations and applies the pending files of  *)
(* its bundle in one transaction, under an advisory lock that ends with    *)
(* the transaction.  Runners may have different versions of the package.   *)
(* A migration is the version in the name of its file and its text, which  *)
(* stands for the name and the SHA-256.                                    *)
(***************************************************************************)
EXTENDS Naturals, Sequences, FiniteSets

CONSTANTS
  Runners,  \* invocations of `migrate`
  Bundles,  \* versions of the package: sequences of migrations, sorted by name
  Versions, \* version prefixes of file names
  Texts,    \* texts a migration can have
  None,     \* no text, no lock holder
  MaxFaults \* bound on the faults of a behaviour

Migration == [version : Versions, text : Texts]

ASSUME RunnersAssumption == IsFiniteSet(Runners) /\ None \notin Runners
ASSUME BundlesAssumption ==
  /\ Bundles \subseteq Seq(Migration) \ {<<>>} /\ None \notin Texts
\* Files are sorted by name and a name starts with its version, so any two bundles have the
\* versions they share in the same order, the files of one version next to each other.
ASSUME BundlesSorted ==
  \A b, c \in Bundles : \A i, j \in DOMAIN b : \A k, l \in DOMAIN c :
    /\ i < j /\ b[i].version # b[j].version
    /\ b[i].version = c[k].version /\ b[j].version = c[l].version
    => k < l
ASSUME MigrationBounds == MaxFaults \in Nat

VARIABLES
  pc,       \* phase of each runner
  bundle,   \* what discover_migrations finds for it
  applied,  \* the rows it has read, by version
  at,       \* index of the migration it is at
  pending,  \* migrations its transaction has executed and inserted
  lock,     \* holder of the advisory lock
  rows,     \* committed rows of meta.schema_migrations, by version
  executed, \* migrations whose effects are committed, in their order
  faults    \* faults so far

vars == <<pc, bundle, applied, at, pending, lock, rows, executed, faults>>

Ended == {"succeeded", "refused", "broken"}
NoRows == [v \in Versions |-> None]

Init ==
  /\ pc = [r \in Runners |-> "lock"]
  /\ bundle \in [Runners -> Bundles]
  /\ applied = [r \in Runners |-> NoRows]
  /\ at = [r \in Runners |-> 1]
  /\ pending = [r \in Runners |-> <<>>]
  /\ lock = None
  /\ rows = NoRows
  /\ executed = <<>>
  /\ faults = 0

Go(r, phase) == pc' = [pc EXCEPT ![r] = phase]

Inserted(r) == {pending[r][i] : i \in DOMAIN pending[r]}
VersionsOf(migrations) == {m.version : m \in migrations}

\* Slip: a session-level lock, which the end of a transaction does not release.
UnlockNever(r) == UNCHANGED lock

\* The transaction of r ends; its lock ends with it.
Unlock(r) == lock' = IF lock = r THEN None ELSE lock

RollBack(r) ==
  /\ pending' = [pending EXCEPT ![r] = <<>>]
  /\ Unlock(r) /\ UNCHANGED <<rows, executed>>

RowsWith(migrations) ==
  [v \in Versions |-> IF v \in VersionsOf(migrations)
                      THEN (CHOOSE m \in migrations : m.version = v).text ELSE rows[v]]

\* Slip: the rows are committed and the effects of the files are not.
CommitRows(r) ==
  /\ rows' = RowsWith(Inserted(r))
  /\ pending' = [pending EXCEPT ![r] = <<>>]
  /\ Unlock(r) /\ UNCHANGED executed

CommitAll(r) ==
  /\ rows' = RowsWith(Inserted(r))
  /\ executed' = executed \o pending[r]
  /\ pending' = [pending EXCEPT ![r] = <<>>]
  /\ Unlock(r)

-----------------------------------------------------------------------------
\* Slip: nobody waits for the lock.
AlwaysAvailable == TRUE

Available == lock = None

TakeLock(r) ==
  /\ pc[r] = "lock" /\ Available
  /\ lock' = r /\ Go(r, "read")
  /\ UNCHANGED <<bundle, applied, at, pending, rows, executed, faults>>

\* The state tables are created if they do not exist, and read.
ReadApplied(r) ==
  /\ pc[r] = "read"
  /\ applied' = [applied EXCEPT ![r] = rows]
  /\ Go(r, "apply")
  /\ UNCHANGED <<bundle, at, pending, lock, rows, executed, faults>>

Current(r) == bundle[r][at[r]]

\* The primary key of meta.schema_migrations.
VersionTaken(r) ==
  rows[Current(r).version] # None \/ Current(r).version \in VersionsOf(Inserted(r))

\* Slip: the text of an applied version is not compared.
AcceptedByVersion(r) == applied[r][Current(r).version] # None

\* The row of this version names the same text.
AlreadyApplied(r) == applied[r][Current(r).version] = Current(r).text

Pending(r) == applied[r][Current(r).version] = None

Advance(r) == at' = [at EXCEPT ![r] = @ + 1]

Skip(r) ==
  /\ pc[r] = "apply" /\ at[r] <= Len(bundle[r])
  /\ AlreadyApplied(r)
  /\ Advance(r)
  /\ UNCHANGED <<pc, bundle, applied, pending, lock, rows, executed, faults>>

\* Slips: the files executed last come first; the version is forgotten.
Prepended(done, m) == <<m>> \o done
RecordedText(done, m) == Append(done, m.text)

Recorded(done, m) == Append(done, m)

Apply(r) ==
  /\ pc[r] = "apply" /\ at[r] <= Len(bundle[r])
  /\ Pending(r) /\ ~VersionTaken(r)
  /\ pending' = [pending EXCEPT ![r] = Recorded(@, Current(r))]
  /\ Advance(r)
  /\ UNCHANGED <<pc, bundle, applied, lock, rows, executed, faults>>

\* A changed file, or a second file of one version.
Refuse(r) ==
  /\ pc[r] = "apply" /\ at[r] <= Len(bundle[r])
  /\ IF Pending(r) THEN VersionTaken(r) ELSE ~AlreadyApplied(r)
  /\ RollBack(r) /\ Go(r, "refused")
  /\ UNCHANGED <<bundle, applied, at, faults>>

Commit(r) ==
  /\ pc[r] = "apply" /\ at[r] > Len(bundle[r])
  /\ CommitAll(r) /\ Go(r, "succeeded")
  /\ UNCHANGED <<bundle, applied, at, faults>>

\* A statement or the connection fails, or the process ends; a COMMIT may have been executed.
Break(r) ==
  /\ pc[r] \notin Ended
  /\ faults < MaxFaults /\ faults' = faults + 1
  /\ \/ RollBack(r)
     \/ pc[r] = "apply" /\ at[r] > Len(bundle[r]) /\ CommitAll(r)
  /\ Go(r, "broken")
  /\ UNCHANGED <<bundle, applied, at>>

Quiescent == (\A r \in Runners : pc[r] \in Ended) /\ UNCHANGED vars

RunnerStep(r) ==
  TakeLock(r) \/ ReadApplied(r) \/ Skip(r) \/ Apply(r) \/ Refuse(r) \/ Commit(r)

Next == (\E r \in Runners : RunnerStep(r) \/ Break(r)) \/ Quiescent

Spec == Init /\ [][Next]_vars

\* Runners run and PostgreSQL serves the queue of the lock; faults are not scheduled.
FairSpec == Spec /\ \A r \in Runners : WF_vars(RunnerStep(r))
-----------------------------------------------------------------------------
(* Properties *)

\* Every variable has its type.
TypeOK ==
  /\ pc \in [Runners -> {"lock", "read", "apply"} \cup Ended]
  /\ bundle \in [Runners -> Bundles]
  /\ applied \in [Runners -> [Versions -> Texts \cup {None}]]
  /\ at \in [Runners -> Nat \ {0}]
  /\ pending \in [Runners -> Seq(Migration)]
  /\ lock \in Runners \cup {None}
  /\ rows \in [Versions -> Texts \cup {None}]
  /\ executed \in Seq(Migration)
  /\ faults \in 0 .. MaxFaults

\* What schema_migrations says is what was executed, and each version was executed once:
\* neither a failure in the middle of a bundle nor a lost COMMIT separates them.
LedgerIsExecuted ==
  /\ \A i \in DOMAIN executed : rows[executed[i].version] = executed[i].text
  /\ \A v \in Versions : rows[v] # None =>
       Cardinality({i \in DOMAIN executed : executed[i].version = v}) = 1

\* docs/metadata.md:27-29: a runner that reports success leaves every file of its bundle
\* applied with the text it has, also when others ran in between.
SucceededIsCurrent ==
  \A r \in Runners : pc[r] = "succeeded" =>
    \A i \in DOMAIN bundle[r] : rows[bundle[r][i].version] = bundle[r][i].text

\* A runner is turned down only for a changed file or a repeated version, never because
\* another one applied the same files at the same time.
RefusedForCause ==
  \A r \in Runners : pc[r] = "refused" =>
    \/ \E i \in DOMAIN bundle[r] : rows[bundle[r][i].version] \notin {None, bundle[r][i].text}
    \/ \E i, j \in DOMAIN bundle[r] : i # j /\ bundle[r][i].version = bundle[r][j].version

\* A package never adds a file in front of one that an older package has.
GrowingAtTheEnd ==
  \A b, c \in Bundles : \A i, j \in DOMAIN c :
    i < j /\ c[j].version \in {b[k].version : k \in DOMAIN b}
    => c[i].version \in {b[k].version : k \in DOMAIN b}

\* docs/metadata.md:27-29, "in order": as long as packages grow at the end, files of one
\* bundle are executed in its order, also when several runners with different bundles did it.
ExecutedInOrder ==
  GrowingAtTheEnd =>
    \A b \in Bundles : \A i, j \in DOMAIN b : \A p, q \in DOMAIN executed :
      /\ i < j /\ b[i].version # b[j].version
      /\ executed[p].version = b[i].version /\ executed[q].version = b[j].version
      => p < q

\* Every runner ends: the lock of one that failed in the middle does not stay.
EveryRunnerEnds == \A r \in Runners : <>(pc[r] \in Ended)
=============================================================================
