--------------------------- MODULE MigrationsProofs ---------------------------
(***************************************************************************)
(* Proofs about Migrations, for every set of runners and of bundles and    *)
(* whatever the bound on faults.                                           *)
(***************************************************************************)
EXTENDS Migrations, SequenceTheorems, FiniteSetTheorems, TLAPS

-----------------------------------------------------------------------------
(* The inductive invariant *)

\* Who is inside a transaction past the lock holds the lock, so there is one at a time; what
\* it has executed and not committed is gone when it ends.
OneTransaction ==
  \A r \in Runners :
    /\ pc[r] \in {"read", "apply"} => lock = r
    /\ pc[r] # "apply" => pending[r] = <<>>
    /\ pc[r] \in {"lock", "read"} => at[r] = 1

\* What a transaction read is what is committed: nobody else commits meanwhile.
ReadIsCurrent == \A r \in Runners : pc[r] = "apply" => applied[r] = rows

DistinctVersions(done) ==
  \A i, j \in DOMAIN done : done[i].version = done[j].version => i = j

\* The files before the current one are recorded, or executed by this transaction.
HandledSoFar ==
  \A r \in Runners : pc[r] = "apply" =>
    \A k \in DOMAIN bundle[r] : k < at[r] =>
      \/ rows[bundle[r][k].version] = bundle[r][k].text
      \/ \E i \in DOMAIN pending[r] : pending[r][i] = bundle[r][k]

\* What a transaction has executed are new versions, taken from its bundle in their order.
PendingFromBundle ==
  \A r \in Runners :
    /\ DistinctVersions(pending[r])
    /\ \A i \in DOMAIN pending[r] :
         /\ rows[pending[r][i].version] = None
         /\ \E k \in DOMAIN bundle[r] : k < at[r] /\ pending[r][i] = bundle[r][k]
    /\ \A i, j \in DOMAIN pending[r] : i < j =>
         \E k, l \in DOMAIN bundle[r] :
           k < l /\ pending[r][i] = bundle[r][k] /\ pending[r][j] = bundle[r][l]

\* LedgerIsExecuted without counting.
Ledger ==
  /\ \A i \in DOMAIN executed : rows[executed[i].version] = executed[i].text
  /\ DistinctVersions(executed)
  /\ \A v \in Versions : rows[v] # None => \E i \in DOMAIN executed : executed[i].version = v

\* Whatever was executed came with the whole bundle it belonged to.
ExecutedWhole ==
  \A i \in DOMAIN executed : \E b \in Bundles :
    /\ \E k \in DOMAIN b : b[k].version = executed[i].version
    /\ \A k \in DOMAIN b : rows[b[k].version] # None

IInv ==
  /\ TypeOK /\ OneTransaction /\ ReadIsCurrent /\ HandledSoFar /\ PendingFromBundle
  /\ Ledger /\ ExecutedWhole /\ SucceededIsCurrent /\ RefusedForCause /\ ExecutedInOrder

-----------------------------------------------------------------------------
(* Sequences of migrations, and what a commit leaves *)

\* A sequence of migrations, index by index.
LEMMA SequenceFacts ==
  ASSUME NEW s \in Seq(Migration)
  PROVE  /\ Len(s) \in Nat /\ DOMAIN s = 1 .. Len(s)
         /\ \A k \in DOMAIN s : /\ s[k] \in Migration
                                /\ s[k].version \in Versions /\ s[k].text \in Texts
                                /\ s[k].text # None
<1>1. Len(s) \in Nat /\ DOMAIN s = 1 .. Len(s) BY LenProperties
<1>2. \A k \in DOMAIN s : s[k] \in Migration BY <1>1, ElementOfSeq
<1> QED BY <1>1, <1>2, BundlesAssumption DEF Migration

\* The bundle of a runner, and the file it is at.
LEMMA BundleFacts ==
  ASSUME TypeOK, NEW r \in Runners
  PROVE  /\ bundle[r] \in Seq(Migration) /\ pending[r] \in Seq(Migration)
         /\ at[r] \in Nat \ {0}
         /\ at[r] <= Len(bundle[r]) => Current(r) \in Migration /\ at[r] \in DOMAIN bundle[r]
<1>1. bundle[r] \in Seq(Migration) /\ pending[r] \in Seq(Migration) /\ at[r] \in Nat \ {0}
  BY BundlesAssumption DEF TypeOK
<1>2. Len(bundle[r]) \in Nat /\ DOMAIN bundle[r] = 1 .. Len(bundle[r]) BY <1>1, SequenceFacts
<1> QED BY <1>1, <1>2, SequenceFacts DEF Current

\* Inserting migrations of distinct versions sets the row of each, and no other.
LEMMA RowsWithSpec ==
  ASSUME TypeOK, NEW r \in Runners, DistinctVersions(pending[r])
  PROVE  /\ RowsWith(Inserted(r)) \in [Versions -> Texts \cup {None}]
         /\ \A i \in DOMAIN pending[r] :
              RowsWith(Inserted(r))[pending[r][i].version] = pending[r][i].text
         /\ \A v \in Versions :
              \/ \E i \in DOMAIN pending[r] : pending[r][i].version = v
              \/ RowsWith(Inserted(r))[v] = rows[v]
<1> DEFINE M == Inserted(r)
           chosen(v) == CHOOSE m \in M : m.version = v
<1>1. \A i \in DOMAIN pending[r] : pending[r][i] \in Migration /\ pending[r][i].version \in Versions
  BY BundleFacts, SequenceFacts
<1>2. \A m \in M : \E i \in DOMAIN pending[r] : m = pending[r][i] BY DEF Inserted
<1>3. \A v \in VersionsOf(M) : chosen(v) \in M /\ chosen(v).version = v
  BY DEF VersionsOf
<1>4. ASSUME NEW i \in DOMAIN pending[r]
      PROVE  pending[r][i].version \in VersionsOf(M) /\ chosen(pending[r][i].version) = pending[r][i]
  <2>1. pending[r][i] \in M /\ pending[r][i].version \in VersionsOf(M) BY DEF Inserted, VersionsOf
  <2>2. chosen(pending[r][i].version) \in M
        /\ chosen(pending[r][i].version).version = pending[r][i].version
    BY <2>1, <1>3
  <2> HIDE DEF chosen
  <2>3. PICK j \in DOMAIN pending[r] : chosen(pending[r][i].version) = pending[r][j]
    BY <2>2, <1>2
  <2> QED BY <2>1, <2>2, <2>3 DEF DistinctVersions
<1>5. \A v \in VersionsOf(M) : \E i \in DOMAIN pending[r] : pending[r][i].version = v
  BY <1>2 DEF VersionsOf
<1>6. RowsWith(M) = [v \in Versions |-> IF v \in VersionsOf(M) THEN chosen(v).text ELSE rows[v]]
  BY DEF RowsWith
<1> HIDE DEF chosen, M
<1>7. \A v \in VersionsOf(M) : chosen(v).text \in Texts
  BY <1>3, <1>2, <1>1 DEF Migration
<1>8. RowsWith(M) \in [Versions -> Texts \cup {None}] BY <1>6, <1>7 DEF TypeOK
<1>9. \A i \in DOMAIN pending[r] : RowsWith(M)[pending[r][i].version] = pending[r][i].text
  BY <1>1, <1>4, <1>6
<1>10. \A v \in Versions : \/ \E i \in DOMAIN pending[r] : pending[r][i].version = v
                           \/ RowsWith(M)[v] = rows[v]
  BY <1>5, <1>6
<1> QED BY <1>8, <1>9, <1>10 DEF M

\* A commit: the whole bundle is recorded, what was recorded stays, and what was executed is
\* appended.
LEMMA CommitSpec ==
  ASSUME IInv, NEW r \in Runners, pc[r] = "apply", at[r] > Len(bundle[r]), CommitAll(r)
  PROVE  /\ rows' \in [Versions -> Texts \cup {None}]
         /\ \A v \in Versions : rows[v] # None => rows'[v] = rows[v]
         /\ \A v \in Versions : rows'[v] # None =>
              rows[v] # None \/ \E i \in DOMAIN pending[r] : pending[r][i].version = v
         /\ \A i \in DOMAIN pending[r] : rows'[pending[r][i].version] = pending[r][i].text
         /\ \A k \in DOMAIN bundle[r] : rows'[bundle[r][k].version] = bundle[r][k].text
         /\ executed' \in Seq(Migration)
         /\ DOMAIN executed' = 1 .. (Len(executed) + Len(pending[r]))
         /\ \A i \in DOMAIN executed : executed'[i] = executed[i]
         /\ \A i \in DOMAIN executed' \ DOMAIN executed :
              /\ i > Len(executed)
              /\ i - Len(executed) \in DOMAIN pending[r]
              /\ executed'[i] = pending[r][i - Len(executed)]
         /\ \A i \in DOMAIN pending[r] : /\ i + Len(executed) \in DOMAIN executed'
                                         /\ executed'[i + Len(executed)] = pending[r][i]
<1>1. TypeOK /\ DistinctVersions(pending[r]) BY DEF IInv, PendingFromBundle
<1>2. rows' = RowsWith(Inserted(r)) /\ executed' = executed \o pending[r] BY DEF CommitAll
<1>3. executed \in Seq(Migration) /\ pending[r] \in Seq(Migration) BY <1>1 DEF TypeOK
<1>4. /\ Len(executed) \in Nat /\ DOMAIN executed = 1 .. Len(executed)
      /\ Len(pending[r]) \in Nat /\ DOMAIN pending[r] = 1 .. Len(pending[r])
  BY <1>3, LenProperties
<1>5. /\ executed' \in Seq(Migration) /\ Len(executed') = Len(executed) + Len(pending[r])
      /\ \A i \in 1 .. Len(executed) + Len(pending[r]) :
           executed'[i] = IF i <= Len(executed) THEN executed[i] ELSE pending[r][i - Len(executed)]
  BY <1>2, <1>3, ConcatProperties
<1>6. DOMAIN executed' = 1 .. (Len(executed) + Len(pending[r])) BY <1>5, LenProperties
<1>7. /\ \A i \in DOMAIN executed : executed'[i] = executed[i]
      /\ \A i \in DOMAIN executed' \ DOMAIN executed :
           /\ i > Len(executed)
           /\ i - Len(executed) \in DOMAIN pending[r]
           /\ executed'[i] = pending[r][i - Len(executed)]
      /\ \A i \in DOMAIN pending[r] : /\ i + Len(executed) \in DOMAIN executed'
                                      /\ executed'[i + Len(executed)] = pending[r][i]
  BY <1>4, <1>5, <1>6
<1>8. /\ rows' \in [Versions -> Texts \cup {None}]
      /\ \A i \in DOMAIN pending[r] : rows'[pending[r][i].version] = pending[r][i].text
      /\ \A v \in Versions : \/ \E i \in DOMAIN pending[r] : pending[r][i].version = v
                             \/ rows'[v] = rows[v]
  BY <1>1, <1>2, RowsWithSpec
<1>9. \A i \in DOMAIN pending[r] : rows[pending[r][i].version] = None
  BY DEF IInv, PendingFromBundle
<1>10. ASSUME NEW k \in DOMAIN bundle[r]
       PROVE  rows'[bundle[r][k].version] = bundle[r][k].text
  <2>1. bundle[r] \in Seq(Migration) /\ at[r] \in Nat BY <1>1, BundleFacts
  <2>2. /\ k \in 1 .. Len(bundle[r]) /\ Len(bundle[r]) \in Nat
        /\ bundle[r][k].version \in Versions /\ bundle[r][k].text # None
    BY <2>1, SequenceFacts
  <2>3. k < at[r] BY <2>1, <2>2
  <2>4. \/ rows[bundle[r][k].version] = bundle[r][k].text
        \/ \E i \in DOMAIN pending[r] : pending[r][i] = bundle[r][k]
    BY <2>3 DEF IInv, HandledSoFar
  <2> QED BY <2>2, <2>4, <1>8, <1>9
<1> QED BY <1>5, <1>6, <1>7, <1>8, <1>9, <1>10

-----------------------------------------------------------------------------
(* Steps *)

\* Every step is one of these; a fault ends a transaction as a rollback or as a commit does.
Reading(r) ==
  /\ pc[r] = "read" /\ Go(r, "apply") /\ applied' = [applied EXCEPT ![r] = rows]
  /\ UNCHANGED <<bundle, at, pending, lock, rows, executed>>
Locking(r) ==
  /\ pc[r] = "lock" /\ Go(r, "read") /\ lock = None /\ lock' = r
  /\ UNCHANGED <<bundle, applied, at, pending, rows, executed>>
Handling(r) ==
  /\ pc[r] = "apply" /\ at[r] <= Len(bundle[r]) /\ Advance(r)
  /\ \/ AlreadyApplied(r) /\ pending' = pending
     \/ /\ Pending(r) /\ ~VersionTaken(r)
        /\ pending' = [pending EXCEPT ![r] = Append(@, Current(r))]
  /\ UNCHANGED <<pc, bundle, applied, lock, rows, executed>>
RollingBack(r) ==
  /\ RollBack(r)
  /\ \/ Go(r, "broken") /\ pc[r] \notin Ended
     \/ /\ Go(r, "refused") /\ pc[r] = "apply" /\ at[r] <= Len(bundle[r])
        /\ IF Pending(r) THEN VersionTaken(r) ELSE ~AlreadyApplied(r)
  /\ UNCHANGED <<bundle, applied, at>>
Committing(r) ==
  /\ pc[r] = "apply" /\ at[r] > Len(bundle[r]) /\ CommitAll(r)
  /\ Go(r, "succeeded") \/ Go(r, "broken")
  /\ UNCHANGED <<bundle, applied, at>>

\* The steps, without the count of faults.
LEMMA Steps ==
  ASSUME [Next]_vars
  PROVE  \/ \E r \in Runners :
              Reading(r) \/ Locking(r) \/ Handling(r) \/ RollingBack(r) \/ Committing(r)
         \/ UNCHANGED <<pc, bundle, applied, at, pending, lock, rows, executed>>
<1>1. ASSUME NEW r \in Runners, RunnerStep(r) \/ Break(r)
      PROVE  Reading(r) \/ Locking(r) \/ Handling(r) \/ RollingBack(r) \/ Committing(r)
  <2>1. CASE TakeLock(r) BY <2>1 DEF TakeLock, Available, Locking
  <2>2. CASE ReadApplied(r) BY <2>2 DEF ReadApplied, Reading
  <2>3. CASE Skip(r) BY <2>3 DEF Skip, Handling
  <2>4. CASE Apply(r) BY <2>4 DEF Apply, Recorded, Handling
  <2>5. CASE Refuse(r) BY <2>5 DEF Refuse, RollingBack
  <2>6. CASE Commit(r) BY <2>6 DEF Commit, Committing
  <2>7. CASE Break(r) BY <2>7 DEF Break, RollingBack, Committing
  <2> QED BY <1>1, <2>1, <2>2, <2>3, <2>4, <2>5, <2>6, <2>7 DEF RunnerStep
<1> QED BY <1>1 DEF Next, Quiescent, vars

\* Every variable keeps its type.
LEMMA TypeStep == IInv /\ [Next]_vars => TypeOK'
<1> SUFFICES ASSUME IInv, [Next]_vars PROVE TypeOK' OBVIOUS
<1> USE MigrationBounds
<1>1. TypeOK BY DEF IInv
<1>2. faults' \in 0 .. MaxFaults
  <2>1. CASE \E r \in Runners : Break(r) BY <2>1, <1>1 DEF Break, TypeOK
  <2>2. CASE UNCHANGED faults BY <2>2, <1>1 DEF TypeOK
  <2>3. (\E r \in Runners : Break(r)) \/ UNCHANGED faults
    BY DEF Next, RunnerStep, TakeLock, ReadApplied, Skip, Apply, Refuse, Commit, Quiescent, vars
  <2> QED BY <2>1, <2>2, <2>3
<1>3. ASSUME NEW r \in Runners, Reading(r) PROVE TypeOK'
  BY <1>1, <1>2, <1>3 DEF Reading, Go, TypeOK
<1>4. ASSUME NEW r \in Runners, Locking(r) PROVE TypeOK'
  BY <1>1, <1>2, <1>4 DEF Locking, Go, TypeOK
<1>5. ASSUME NEW r \in Runners, Handling(r) PROVE TypeOK'
  <2>1. at[r] \in Nat \ {0} /\ pending[r] \in Seq(Migration) /\ Current(r) \in Migration
    BY <1>1, <1>5, BundleFacts DEF Handling
  <2>2. Append(pending[r], Current(r)) \in Seq(Migration) BY <2>1, AppendProperties
  <2>3. pending' \in [Runners -> Seq(Migration)] BY <1>1, <1>5, <2>2 DEF Handling, TypeOK
  <2>4. at' \in [Runners -> Nat \ {0}] BY <1>1, <1>5, <2>1 DEF Handling, Advance, TypeOK
  <2> QED BY <1>1, <1>2, <1>5, <2>3, <2>4 DEF Handling, TypeOK
<1>6. <<>> \in Seq(Migration) BY EmptySeq
<1>7. ASSUME NEW r \in Runners, RollingBack(r) PROVE TypeOK'
  BY <1>1, <1>2, <1>6, <1>7 DEF RollingBack, RollBack, Unlock, Go, Ended, TypeOK
<1>8. ASSUME NEW r \in Runners, Committing(r) PROVE TypeOK'
  <2>1. rows' \in [Versions -> Texts \cup {None}] /\ executed' \in Seq(Migration)
    BY <1>8, CommitSpec DEF Committing
  <2>2. /\ pending' \in [Runners -> Seq(Migration)] /\ lock' \in Runners \cup {None}
        /\ pc' \in [Runners -> {"lock", "read", "apply"} \cup Ended]
    BY <1>1, <1>6, <1>8 DEF Committing, CommitAll, Unlock, Go, Ended, TypeOK
  <2> QED BY <1>1, <1>2, <1>8, <2>1, <2>2 DEF Committing, TypeOK
<1>9. CASE UNCHANGED <<pc, bundle, applied, at, pending, lock, rows, executed>>
  BY <1>1, <1>2, <1>9 DEF TypeOK
<1> QED BY <1>3, <1>4, <1>5, <1>7, <1>8, <1>9, Steps

\* The lock is with the one transaction that is past it.
LEMMA OneTransactionStep == IInv /\ [Next]_vars => OneTransaction'
<1> SUFFICES ASSUME IInv, [Next]_vars PROVE OneTransaction' OBVIOUS
<1> USE RunnersAssumption DEF OneTransaction, TypeOK
<1>1. TypeOK /\ OneTransaction BY DEF IInv
<1>3. ASSUME NEW r \in Runners, Reading(r) PROVE OneTransaction'
  BY <1>1, <1>3 DEF Reading, Go
<1>4. ASSUME NEW r \in Runners, Locking(r) PROVE OneTransaction'
  BY <1>1, <1>4 DEF Locking, Go
<1>5. ASSUME NEW r \in Runners, Handling(r) PROVE OneTransaction'
  BY <1>1, <1>5 DEF Handling, Advance
<1>7. ASSUME NEW r \in Runners, RollingBack(r) PROVE OneTransaction'
  BY <1>1, <1>7 DEF RollingBack, RollBack, Unlock, Go, Ended
<1>8. ASSUME NEW r \in Runners, Committing(r) PROVE OneTransaction'
  BY <1>1, <1>8 DEF Committing, CommitAll, Unlock, Go, Ended
<1>9. CASE UNCHANGED <<pc, bundle, applied, at, pending, lock, rows, executed>>
  BY <1>1, <1>9
<1> QED BY <1>3, <1>4, <1>5, <1>7, <1>8, <1>9, Steps

\* While one transaction is past the lock, no other is.
LEMMA Alone ==
  ASSUME IInv, NEW r \in Runners, pc[r] \in {"read", "apply"}
  PROVE  \A q \in Runners \ {r} : pc[q] \notin {"read", "apply"} /\ pending[q] = <<>>
BY DEF IInv, OneTransaction

\* What the transaction has read stays current, and what it has passed is handled.
LEMMA HandledStep == IInv /\ [Next]_vars => ReadIsCurrent' /\ HandledSoFar'
<1> SUFFICES ASSUME IInv, [Next]_vars PROVE ReadIsCurrent' /\ HandledSoFar' OBVIOUS
<1> USE DEF ReadIsCurrent, HandledSoFar
<1>1. TypeOK /\ OneTransaction /\ ReadIsCurrent /\ HandledSoFar BY DEF IInv
<1>3. ASSUME NEW r \in Runners, Reading(r) PROVE ReadIsCurrent' /\ HandledSoFar'
  <2>1. at[r] = 1 BY <1>1, <1>3 DEF Reading, OneTransaction
  <2>2. \A k \in DOMAIN bundle[r] : ~(k < 1)
    BY <1>1, BundleFacts, SequenceFacts
  <2>3. ReadIsCurrent' BY <1>1, <1>3 DEF Reading, Go, TypeOK
  <2>4. HandledSoFar' BY <1>1, <1>3, <2>1, <2>2 DEF Reading, Go, TypeOK
  <2> QED BY <2>3, <2>4
<1>4. ASSUME NEW r \in Runners, Locking(r) PROVE ReadIsCurrent' /\ HandledSoFar'
  BY <1>1, <1>4 DEF Locking, Go, TypeOK
<1>5. ASSUME NEW r \in Runners, Handling(r) PROVE ReadIsCurrent' /\ HandledSoFar'
  <2>1. /\ at[r] \in Nat \ {0} /\ at[r] \in DOMAIN bundle[r] /\ bundle[r] \in Seq(Migration)
        /\ pending[r] \in Seq(Migration) /\ Current(r) \in Migration
    BY <1>1, <1>5, BundleFacts DEF Handling
  <2>2. applied[r] = rows BY <1>1, <1>5 DEF Handling
  <2>3. DOMAIN bundle[r] = 1 .. Len(bundle[r]) /\ Len(bundle[r]) \in Nat BY <2>1, SequenceFacts
  <2>4. ReadIsCurrent' BY <1>1, <1>5 DEF Handling
  <2>5. \A q \in Runners \ {r} : pc'[q] # "apply" BY <1>5, Alone DEF Handling
  <2>6. at'[r] = at[r] + 1 BY <1>1, <1>5 DEF Handling, Advance, TypeOK
  <2>7. CASE AlreadyApplied(r) /\ pending' = pending
    <3>1. rows[bundle[r][at[r]].version] = bundle[r][at[r]].text
      BY <2>2, <2>7 DEF AlreadyApplied, Current
    <3>2. \A k \in DOMAIN bundle[r] : k < at'[r] => k < at[r] \/ k = at[r] BY <2>1, <2>3, <2>6
    <3> QED BY <1>1, <1>5, <2>4, <2>5, <2>7, <3>1, <3>2 DEF Handling
  <2>8. CASE pending' = [pending EXCEPT ![r] = Append(@, Current(r))]
    <3>1. pending'[r] = Append(pending[r], Current(r)) BY <1>1, <2>8 DEF TypeOK
    <3>2. /\ Len(pending[r]) \in Nat /\ DOMAIN pending[r] = 1 .. Len(pending[r])
          /\ DOMAIN pending'[r] = 1 .. Len(pending[r]) + 1
          /\ \A i \in 1 .. Len(pending[r]) : pending'[r][i] = pending[r][i]
          /\ pending'[r][Len(pending[r]) + 1] = Current(r)
      BY <2>1, <3>1, AppendProperties, LenProperties
    <3>3. \A k \in DOMAIN bundle[r] : k < at'[r] => k < at[r] \/ k = at[r] BY <2>1, <2>3, <2>6
    <3>4. ASSUME NEW k \in DOMAIN bundle[r], k < at'[r]
          PROVE  \/ rows'[bundle'[r][k].version] = bundle'[r][k].text
                 \/ \E i \in DOMAIN pending'[r] : pending'[r][i] = bundle'[r][k]
      <4>1. CASE k = at[r]
        <5>1. Len(pending[r]) + 1 \in DOMAIN pending'[r] BY <3>2
        <5>2. pending'[r][Len(pending[r]) + 1] = bundle'[r][k]
          BY <1>5, <3>2, <4>1 DEF Handling, Current
        <5> QED BY <5>1, <5>2
      <4>2. CASE k < at[r]
        <5>1. \/ rows[bundle[r][k].version] = bundle[r][k].text
              \/ \E i \in DOMAIN pending[r] : pending[r][i] = bundle[r][k]
          BY <1>1, <1>5, <4>2 DEF Handling
        <5>2. \A i \in DOMAIN pending[r] : i \in DOMAIN pending'[r] BY <3>2
        <5> QED BY <1>5, <3>2, <5>1, <5>2 DEF Handling
      <4> QED BY <3>3, <3>4, <4>1, <4>2
    <3> QED BY <1>5, <2>4, <2>5, <3>4 DEF Handling
  <2> QED BY <1>5, <2>7, <2>8 DEF Handling
<1>7. ASSUME NEW r \in Runners, RollingBack(r) PROVE ReadIsCurrent' /\ HandledSoFar'
  <2>1. /\ pc'[r] \in {"broken", "refused"} /\ \A q \in Runners \ {r} : pc'[q] = pc[q]
        /\ \A q \in Runners \ {r} : pending'[q] = pending[q]
        /\ UNCHANGED <<bundle, applied, at, rows>>
    BY <1>1, <1>7 DEF RollingBack, RollBack, Go, TypeOK
  <2> QED BY <1>1, <2>1
<1>8. ASSUME NEW r \in Runners, Committing(r) PROVE ReadIsCurrent' /\ HandledSoFar'
  <2>1. \A q \in Runners : pc'[q] # "apply"
    BY <1>1, <1>8, Alone DEF Committing, Go, TypeOK
  <2> QED BY <2>1
<1>9. CASE UNCHANGED <<pc, bundle, applied, at, pending, lock, rows, executed>>
  BY <1>1, <1>9
<1> QED BY <1>3, <1>4, <1>5, <1>7, <1>8, <1>9, Steps

\* A file that is appended to what a transaction has executed.
LEMMA AppendedSpec ==
  ASSUME TypeOK, NEW r \in Runners, at[r] <= Len(bundle[r]),
         pending' = [pending EXCEPT ![r] = Append(@, Current(r))]
  PROVE  /\ Len(pending[r]) \in Nat /\ DOMAIN pending[r] = 1 .. Len(pending[r])
         /\ DOMAIN pending'[r] = 1 .. Len(pending[r]) + 1
         /\ \A i \in 1 .. Len(pending[r]) : pending'[r][i] = pending[r][i]
         /\ pending'[r][Len(pending[r]) + 1] = bundle[r][at[r]]
         /\ \A q \in Runners \ {r} : pending'[q] = pending[q]
<1>1. pending[r] \in Seq(Migration) /\ Current(r) \in Migration BY BundleFacts
<1>2. pending'[r] = Append(pending[r], Current(r)) /\ \A q \in Runners \ {r} : pending'[q] = pending[q]
  BY DEF TypeOK
<1> QED BY <1>1, <1>2, AppendProperties, LenProperties DEF Current

\* A transaction executes new versions only, in the order of its bundle.
LEMMA PendingStep == IInv /\ [Next]_vars => PendingFromBundle'
<1> SUFFICES ASSUME IInv, [Next]_vars PROVE PendingFromBundle' OBVIOUS
<1>1. TypeOK /\ OneTransaction /\ ReadIsCurrent /\ PendingFromBundle BY DEF IInv
<1>2. \A q \in Runners : pending'[q] = <<>> => DOMAIN pending'[q] = {}
  BY EmptySeq, LenProperties
<1>3. ASSUME NEW r \in Runners, Reading(r) \/ Locking(r) PROVE PendingFromBundle'
  BY <1>1, <1>3 DEF Reading, Locking, PendingFromBundle, DistinctVersions
<1>5. ASSUME NEW r \in Runners, Handling(r) PROVE PendingFromBundle'
  <2>1. /\ at[r] \in Nat \ {0} /\ at[r] \in DOMAIN bundle[r] /\ bundle[r] \in Seq(Migration)
        /\ pending[r] \in Seq(Migration) /\ Current(r) \in Migration
    BY <1>1, <1>5, BundleFacts DEF Handling
  <2>2. /\ at'[r] = at[r] + 1 /\ \A q \in Runners \ {r} : at'[q] = at[q]
        /\ bundle' = bundle /\ rows' = rows
    BY <1>1, <1>5 DEF Handling, Advance, TypeOK
  <2>3. DOMAIN bundle[r] = 1 .. Len(bundle[r]) /\ Len(bundle[r]) \in Nat BY <2>1, SequenceFacts
  <2>4. \A k \in DOMAIN bundle[r] : k < at[r] => k < at'[r] BY <2>1, <2>2, <2>3
  <2>5. CASE pending' = pending
    BY <1>1, <2>2, <2>4, <2>5 DEF PendingFromBundle, DistinctVersions
  <2>6. CASE /\ Pending(r) /\ ~VersionTaken(r)
             /\ pending' = [pending EXCEPT ![r] = Append(@, Current(r))]
    <3> DEFINE n == Len(pending[r]) + 1
    <3>1. /\ n \in Nat /\ DOMAIN pending[r] = 1 .. n - 1 /\ DOMAIN pending'[r] = 1 .. n
          /\ \A i \in 1 .. n - 1 : pending'[r][i] = pending[r][i]
          /\ pending'[r][n] = bundle[r][at[r]]
          /\ \A q \in Runners \ {r} : pending'[q] = pending[q]
      <4>1. /\ Len(pending[r]) \in Nat /\ DOMAIN pending[r] = 1 .. Len(pending[r])
            /\ DOMAIN pending'[r] = 1 .. Len(pending[r]) + 1
            /\ \A i \in 1 .. Len(pending[r]) : pending'[r][i] = pending[r][i]
            /\ pending'[r][Len(pending[r]) + 1] = bundle[r][at[r]]
            /\ \A q \in Runners \ {r} : pending'[q] = pending[q]
        BY <1>1, <1>5, <2>6, AppendedSpec DEF Handling
      <4>2. n \in Nat /\ n - 1 = Len(pending[r]) BY <4>1
      <4> QED BY <4>1, <4>2
    <3> HIDE DEF n
    <3>2. \A i \in DOMAIN pending'[r] : i \in DOMAIN pending[r] \/ i = n BY <3>1
    <3>3. /\ rows[bundle[r][at[r]].version] = None
          /\ \A i \in DOMAIN pending[r] : pending[r][i].version # bundle[r][at[r]].version
      BY <2>6 DEF VersionTaken, VersionsOf, Inserted, Current
    <3>4. DistinctVersions(pending'[r])
      <4>1. \A i \in DOMAIN pending[r] : pending'[r][i] = pending[r][i] BY <3>1
      <4>2. \A i, j \in DOMAIN pending[r] : pending[r][i].version = pending[r][j].version => i = j
        BY <1>1 DEF PendingFromBundle, DistinctVersions
      <4> QED BY <3>1, <3>2, <3>3, <4>1, <4>2 DEF DistinctVersions
    <3>5. ASSUME NEW i \in DOMAIN pending'[r]
          PROVE  /\ rows'[pending'[r][i].version] = None
                 /\ \E k \in DOMAIN bundle'[r] : k < at'[r] /\ pending'[r][i] = bundle'[r][k]
      <4>1. CASE i = n
        <5>1. at[r] < at'[r] BY <2>1, <2>2
        <5> QED BY <2>1, <2>2, <3>1, <3>3, <4>1, <5>1
      <4>2. CASE i \in DOMAIN pending[r]
        BY <1>1, <2>2, <2>4, <3>1, <4>2 DEF PendingFromBundle
      <4> QED BY <3>2, <4>1, <4>2
    <3>6. ASSUME NEW i \in DOMAIN pending'[r], NEW j \in DOMAIN pending'[r], i < j
          PROVE  \E k, l \in DOMAIN bundle'[r] :
                   k < l /\ pending'[r][i] = bundle'[r][k] /\ pending'[r][j] = bundle'[r][l]
      <4>1. i \in DOMAIN pending[r] BY <3>1, <3>6
      <4>2. CASE j = n
        <5>1. PICK k \in DOMAIN bundle[r] : k < at[r] /\ pending[r][i] = bundle[r][k]
          BY <1>1, <4>1 DEF PendingFromBundle
        <5>2. at[r] \in DOMAIN bundle[r] /\ pending'[r][j] = bundle[r][at[r]]
          BY <2>1, <3>1, <4>2
        <5>3. pending'[r][i] = bundle[r][k] BY <3>1, <4>1, <5>1
        <5> QED BY <2>2, <5>1, <5>2, <5>3
      <4>3. CASE j \in DOMAIN pending[r]
        BY <1>1, <2>2, <3>1, <3>6, <4>1, <4>3 DEF PendingFromBundle
      <4> QED BY <3>2, <4>2, <4>3
    <3>7. \A q \in Runners \ {r} : pending'[q] = pending[q] /\ at'[q] = at[q] BY <2>2, <3>1
    <3> QED BY <1>1, <2>2, <3>4, <3>5, <3>6, <3>7 DEF PendingFromBundle
  <2> QED BY <1>5, <2>5, <2>6 DEF Handling
<1>7. ASSUME NEW r \in Runners, RollingBack(r) PROVE PendingFromBundle'
  <2>1. /\ pending'[r] = <<>> /\ \A q \in Runners \ {r} : pending'[q] = pending[q]
        /\ UNCHANGED <<bundle, at, rows>>
    BY <1>1, <1>7 DEF RollingBack, RollBack, TypeOK
  <2> QED BY <1>1, <1>2, <2>1 DEF PendingFromBundle, DistinctVersions
<1>8. ASSUME NEW r \in Runners, Committing(r) PROVE PendingFromBundle'
  <2>1. \A q \in Runners : pending'[q] = <<>>
    BY <1>1, <1>8, Alone DEF Committing, CommitAll, TypeOK
  <2> QED BY <1>2, <2>1 DEF PendingFromBundle, DistinctVersions
<1>9. CASE UNCHANGED <<pc, bundle, applied, at, pending, lock, rows, executed>>
  BY <1>1, <1>9 DEF PendingFromBundle, DistinctVersions
<1> QED BY <1>3, <1>5, <1>7, <1>8, <1>9, Steps

\* Nothing but a commit touches what is recorded and executed.
LEMMA CommitOrNot ==
  ASSUME [Next]_vars
  PROVE  (\E r \in Runners : Committing(r)) \/ UNCHANGED <<rows, executed, bundle>>
BY Steps DEF Reading, Locking, Handling, RollingBack, RollBack

\* Rows and effects are committed together, each version once.
LEMMA LedgerStep == IInv /\ [Next]_vars => Ledger' /\ ExecutedWhole'
<1> SUFFICES ASSUME IInv, [Next]_vars PROVE Ledger' /\ ExecutedWhole' OBVIOUS
<1>1. TypeOK /\ PendingFromBundle /\ Ledger /\ ExecutedWhole BY DEF IInv
<1>2. ASSUME NEW r \in Runners, Committing(r) PROVE Ledger' /\ ExecutedWhole'
  <2> DEFINE n == Len(executed)
  <2>1. /\ rows' \in [Versions -> Texts \cup {None}]
        /\ \A v \in Versions : rows[v] # None => rows'[v] = rows[v]
        /\ \A v \in Versions : rows'[v] # None =>
             rows[v] # None \/ \E i \in DOMAIN pending[r] : pending[r][i].version = v
        /\ \A i \in DOMAIN pending[r] : rows'[pending[r][i].version] = pending[r][i].text
        /\ \A k \in DOMAIN bundle[r] : rows'[bundle[r][k].version] = bundle[r][k].text
        /\ executed' \in Seq(Migration)
        /\ DOMAIN executed' = 1 .. (n + Len(pending[r]))
        /\ \A i \in DOMAIN executed : executed'[i] = executed[i]
        /\ \A i \in DOMAIN executed' \ DOMAIN executed :
             /\ i > n /\ i - n \in DOMAIN pending[r] /\ executed'[i] = pending[r][i - n]
        /\ \A i \in DOMAIN pending[r] : i + n \in DOMAIN executed' /\ executed'[i + n] = pending[r][i]
    BY <1>2, CommitSpec DEF Committing
  <2>2. /\ n \in Nat /\ DOMAIN executed = 1 .. n
        /\ \A i \in DOMAIN executed : executed[i].version \in Versions /\ executed[i].text # None
    BY <1>1, SequenceFacts DEF TypeOK
  <2>3. /\ DOMAIN pending[r] = 1 .. Len(pending[r]) /\ Len(pending[r]) \in Nat
        /\ \A i \in DOMAIN pending[r] : pending[r][i].version \in Versions /\ pending[r][i].text # None
    BY <1>1, BundleFacts, SequenceFacts
  <2>4. bundle[r] \in Bundles /\ bundle' = bundle
        /\ \A k \in DOMAIN bundle[r] : bundle[r][k].version \in Versions /\ bundle[r][k].text # None
    BY <1>1, <1>2, BundleFacts, SequenceFacts DEF TypeOK, Committing
  <2> HIDE DEF n
  <2>5. \A i \in DOMAIN executed' :
          \/ i \in DOMAIN executed /\ executed'[i] = executed[i]
          \/ i > n /\ i - n \in DOMAIN pending[r] /\ executed'[i] = pending[r][i - n]
    BY <2>1
  <2>6. \A i \in DOMAIN executed' : rows'[executed'[i].version] = executed'[i].text
    BY <1>1, <2>1, <2>2, <2>5 DEF Ledger
  <2>7. DistinctVersions(executed')
    <3> SUFFICES ASSUME NEW i \in DOMAIN executed', NEW j \in DOMAIN executed',
                        executed'[i].version = executed'[j].version
                 PROVE  i = j
      BY DEF DistinctVersions
    <3>1. \A p \in DOMAIN executed, q \in DOMAIN pending[r] :
            executed[p].version # pending[r][q].version
      BY <1>1, <2>2 DEF Ledger, PendingFromBundle
    <3>2. CASE i \in DOMAIN executed /\ j \in DOMAIN executed
      BY <1>1, <2>1, <3>2 DEF Ledger, DistinctVersions
    <3>3. CASE i - n \in DOMAIN pending[r] /\ j - n \in DOMAIN pending[r] /\ i > n /\ j > n
      <4>1. executed'[i] = pending[r][i - n] /\ executed'[j] = pending[r][j - n]
        BY <2>1, <2>2, <3>3
      <4>2. i - n = j - n BY <1>1, <3>3, <4>1 DEF PendingFromBundle, DistinctVersions
      <4>3. i \in Nat /\ j \in Nat BY <2>1, <2>2, <2>3
      <4> QED BY <4>2, <4>3, <2>2
    <3> QED BY <2>5, <3>1, <3>2, <3>3
  <2>8. \A v \in Versions : rows'[v] # None => \E i \in DOMAIN executed' : executed'[i].version = v
    <3>1. DOMAIN executed \subseteq DOMAIN executed' BY <2>1, <2>2, <2>3
    <3> QED BY <1>1, <2>1, <3>1 DEF Ledger
  <2>9. ExecutedWhole'
    <3> SUFFICES ASSUME NEW i \in DOMAIN executed'
                 PROVE  \E b \in Bundles :
                          /\ \E k \in DOMAIN b : b[k].version = executed'[i].version
                          /\ \A k \in DOMAIN b : rows'[b[k].version] # None
      BY DEF ExecutedWhole
    <3>1. CASE i \in DOMAIN executed /\ executed'[i] = executed[i]
      <4>1. PICK b \in Bundles : /\ \E k \in DOMAIN b : b[k].version = executed[i].version
                                 /\ \A k \in DOMAIN b : rows[b[k].version] # None
        BY <1>1, <3>1 DEF ExecutedWhole
      <4>2. \A k \in DOMAIN b : b[k].version \in Versions BY SequenceFacts, BundlesAssumption
      <4> QED BY <2>1, <3>1, <4>1, <4>2
    <3>2. CASE i - n \in DOMAIN pending[r] /\ executed'[i] = pending[r][i - n]
      <4>1. \E k \in DOMAIN bundle[r] : pending[r][i - n] = bundle[r][k]
        BY <1>1, <3>2 DEF PendingFromBundle
      <4>2. \A k \in DOMAIN bundle[r] : rows'[bundle[r][k].version] # None BY <2>1, <2>4
      <4> QED BY <2>4, <3>2, <4>1, <4>2
    <3> QED BY <2>5, <3>1, <3>2
  <2> QED BY <2>6, <2>7, <2>8, <2>9 DEF Ledger
<1>3. CASE UNCHANGED <<rows, executed, bundle>>
  BY <1>1, <1>3 DEF Ledger, ExecutedWhole, DistinctVersions
<1> QED BY <1>2, <1>3, CommitOrNot

\* A recorded row stays what it is.
LEMMA RowsKept ==
  ASSUME IInv, [Next]_vars, NEW v \in Versions, rows[v] # None
  PROVE  rows'[v] = rows[v]
<1>1. ASSUME NEW r \in Runners, Committing(r) PROVE rows'[v] = rows[v]
  BY <1>1, CommitSpec DEF Committing
<1> QED BY <1>1, CommitOrNot

\* Runners that have ended found what they report, and it lasts.
LEMMA OutcomeStep == IInv /\ [Next]_vars => SucceededIsCurrent' /\ RefusedForCause'
<1> SUFFICES ASSUME IInv, [Next]_vars PROVE SucceededIsCurrent' /\ RefusedForCause' OBVIOUS
<1>1. TypeOK /\ SucceededIsCurrent /\ RefusedForCause /\ ReadIsCurrent BY DEF IInv
<1>2. bundle' = bundle /\ \A r \in Runners : \A k \in DOMAIN bundle[r] :
        bundle[r][k].version \in Versions /\ bundle[r][k].text # None
  BY <1>1, CommitOrNot, BundleFacts, SequenceFacts DEF Committing
<1>3. ASSUME NEW r \in Runners, pc[r] = "succeeded", pc'[r] = "succeeded"
      PROVE  \A k \in DOMAIN bundle[r] : rows'[bundle[r][k].version] = bundle[r][k].text
  BY <1>1, <1>2, <1>3, RowsKept DEF SucceededIsCurrent
<1>4. ASSUME NEW r \in Runners, pc[r] = "refused", pc'[r] = "refused"
      PROVE  \/ \E i \in DOMAIN bundle[r] : rows'[bundle[r][i].version] \notin {None, bundle[r][i].text}
             \/ \E i, j \in DOMAIN bundle[r] : i # j /\ bundle[r][i].version = bundle[r][j].version
  BY <1>1, <1>2, <1>4, RowsKept DEF RefusedForCause
<1>5. ASSUME NEW r \in Runners, pc[r] # "succeeded", pc'[r] = "succeeded"
      PROVE  \A k \in DOMAIN bundle[r] : rows'[bundle[r][k].version] = bundle[r][k].text
  <2>1. Committing(r)
    BY <1>1, <1>5, Steps
    DEF Reading, Locking, Handling, RollingBack, Committing, Go, TypeOK
  <2> QED BY <2>1, CommitSpec DEF Committing
<1>6. ASSUME NEW r \in Runners, pc[r] # "refused", pc'[r] = "refused"
      PROVE  \/ \E i \in DOMAIN bundle[r] : rows'[bundle[r][i].version] \notin {None, bundle[r][i].text}
             \/ \E i, j \in DOMAIN bundle[r] : i # j /\ bundle[r][i].version = bundle[r][j].version
  <2>1. /\ pc[r] = "apply" /\ at[r] <= Len(bundle[r]) /\ rows' = rows
        /\ IF Pending(r) THEN VersionTaken(r) ELSE ~AlreadyApplied(r)
    BY <1>1, <1>6, Steps
    DEF Reading, Locking, Handling, RollingBack, Committing, RollBack, Go, TypeOK
  <2>2. applied[r] = rows /\ at[r] \in DOMAIN bundle[r] /\ at[r] \in Nat
        /\ bundle[r] \in Seq(Migration)
    BY <1>1, <2>1, BundleFacts DEF ReadIsCurrent
  <2>3. CASE ~Pending(r) /\ ~AlreadyApplied(r)
    BY <2>1, <2>2, <2>3 DEF Pending, AlreadyApplied, Current
  <2>4. CASE Pending(r) /\ VersionTaken(r)
    <3>1. PICK i \in DOMAIN pending[r] : pending[r][i].version = bundle[r][at[r]].version
      BY <2>2, <2>4 DEF Pending, VersionTaken, VersionsOf, Inserted, Current
    <3>2. PICK k \in DOMAIN bundle[r] : k < at[r] /\ pending[r][i] = bundle[r][k]
      BY DEF IInv, PendingFromBundle
    <3>3. k # at[r] BY <2>2, <3>2
    <3> QED BY <2>2, <3>1, <3>2, <3>3
  <2> QED BY <2>1, <2>3, <2>4
<1>7. SucceededIsCurrent' BY <1>2, <1>3, <1>5 DEF SucceededIsCurrent
<1>8. RefusedForCause' BY <1>2, <1>4, <1>6 DEF RefusedForCause
<1> QED BY <1>7, <1>8

\* What a runner commits comes after what others have: its bundle has the new versions in the
\* order of every other bundle, and no older bundle has a version behind a new one.
LEMMA OrderStep == IInv /\ [Next]_vars => ExecutedInOrder'
<1> SUFFICES ASSUME IInv, [Next]_vars, GrowingAtTheEnd,
                    NEW b \in Bundles, NEW i \in DOMAIN b, NEW j \in DOMAIN b,
                    NEW p \in DOMAIN executed', NEW q \in DOMAIN executed',
                    i < j, b[i].version # b[j].version,
                    executed'[p].version = b[i].version, executed'[q].version = b[j].version
             PROVE  p < q
  BY DEF ExecutedInOrder, GrowingAtTheEnd
<1>1. TypeOK /\ ExecutedInOrder /\ ExecutedWhole /\ PendingFromBundle BY DEF IInv
<1>2. ASSUME NEW r \in Runners, Committing(r) PROVE p < q
  <2> DEFINE n == Len(executed)
  <2>1. /\ DOMAIN executed' = 1 .. (n + Len(pending[r]))
        /\ \A x \in DOMAIN executed : executed'[x] = executed[x]
        /\ \A x \in DOMAIN executed' \ DOMAIN executed :
             /\ x > n /\ x - n \in DOMAIN pending[r] /\ executed'[x] = pending[r][x - n]
    BY <1>2, CommitSpec DEF Committing
  <2>2. n \in Nat /\ DOMAIN executed = 1 .. n BY <1>1, SequenceFacts DEF TypeOK
  <2>3. DOMAIN pending[r] = 1 .. Len(pending[r]) /\ Len(pending[r]) \in Nat
    BY <1>1, BundleFacts, SequenceFacts
  <2>4. bundle[r] \in Bundles BY <1>1 DEF TypeOK
  <2>5. bundle[r] \in Seq(Migration) BY <1>1, BundleFacts
  <2>6. DOMAIN bundle[r] = 1 .. Len(bundle[r]) /\ Len(bundle[r]) \in Nat BY <2>5, SequenceFacts
  <2>7. p \in Nat /\ q \in Nat BY <2>1, <2>2, <2>3
  <2> HIDE DEF n
  <2>8. CASE p \in DOMAIN executed /\ q \in DOMAIN executed
    BY <1>1, <2>1, <2>8 DEF ExecutedInOrder
  <2>9. CASE p \in DOMAIN executed /\ q \notin DOMAIN executed
    <3>1. q > n /\ p <= n BY <2>1, <2>2, <2>9
    <3> QED BY <2>2, <2>7, <3>1
  <2>10. CASE p \notin DOMAIN executed /\ q \in DOMAIN executed
    <3>1. p - n \in DOMAIN pending[r] /\ executed'[p] = pending[r][p - n] BY <2>1, <2>10
    <3>2. rows[b[i].version] = None BY <1>1, <3>1 DEF PendingFromBundle
    <3>3. PICK c \in Bundles : /\ \E k \in DOMAIN c : c[k].version = executed[q].version
                               /\ \A k \in DOMAIN c : rows[c[k].version] # None
      BY <1>1, <2>10 DEF ExecutedWhole
    <3>4. b[j].version \in {c[k].version : k \in DOMAIN c} BY <2>1, <2>10, <3>3
    <3>5. b[i].version \in {c[k].version : k \in DOMAIN c} BY <3>4 DEF GrowingAtTheEnd
    <3> QED BY <3>2, <3>3, <3>5
  <2>11. CASE p \notin DOMAIN executed /\ q \notin DOMAIN executed
    <3>1. /\ p - n \in DOMAIN pending[r] /\ executed'[p] = pending[r][p - n]
          /\ q - n \in DOMAIN pending[r] /\ executed'[q] = pending[r][q - n]
      BY <2>1, <2>11
    <3>2. SUFFICES ASSUME q <= p PROVE FALSE BY <2>7
    <3>3. q # p OBVIOUS
    <3>4. q - n < p - n BY <2>2, <2>7, <3>2, <3>3
    <3>5. PICK k, l \in DOMAIN bundle[r] :
            k < l /\ pending[r][q - n] = bundle[r][k] /\ pending[r][p - n] = bundle[r][l]
      BY <1>1, <3>1, <3>4 DEF PendingFromBundle
    <3>6. l < k BY <2>4, <3>1, <3>5, BundlesSorted
    <3> QED BY <2>6, <3>5, <3>6
  <2> QED BY <2>8, <2>9, <2>10, <2>11
<1>3. CASE UNCHANGED <<rows, executed, bundle>> BY <1>1, <1>3 DEF ExecutedInOrder
<1> QED BY <1>2, <1>3, CommitOrNot

-----------------------------------------------------------------------------
(* Theorems *)

\* Before anybody runs, nothing is read, executed or recorded.
LEMMA InitiallyIInv == Init => IInv
<1> SUFFICES ASSUME Init PROVE IInv OBVIOUS
<1>1. <<>> \in Seq(Migration) /\ DOMAIN <<>> = {} BY EmptySeq, LenProperties
<1>2. TypeOK BY <1>1, MigrationBounds DEF Init, TypeOK, NoRows
<1>3. OneTransaction /\ ReadIsCurrent /\ HandledSoFar /\ SucceededIsCurrent /\ RefusedForCause
  BY RunnersAssumption
  DEF Init, OneTransaction, ReadIsCurrent, HandledSoFar, SucceededIsCurrent, RefusedForCause
<1>4. PendingFromBundle BY <1>1 DEF Init, PendingFromBundle, DistinctVersions
<1>5. Ledger BY <1>1 DEF Init, Ledger, DistinctVersions, NoRows
<1>6. ExecutedWhole /\ ExecutedInOrder BY <1>1 DEF Init, ExecutedWhole, ExecutedInOrder
<1> QED BY <1>2, <1>3, <1>4, <1>5, <1>6 DEF IInv

\* The invariant is inductive.
THEOREM Inductive == Spec => []IInv
<1>1. IInv /\ [Next]_vars => IInv'
  BY TypeStep, OneTransactionStep, HandledStep, PendingStep, LedgerStep, OutcomeStep, OrderStep
  DEF IInv
<1> QED BY <1>1, InitiallyIInv, PTL DEF Spec

\* Every variable has its type, whatever runners do and wherever they fail.
THEOREM TypeCorrect == Spec => []TypeOK
<1>1. IInv => TypeOK BY DEF IInv
<1> QED BY <1>1, Inductive, PTL

\* migrations.py:62-101: two transactions of the runner never overlap past the lock.
THEOREM TransactionsExclude ==
  Spec => [](\A r, q \in Runners :
               pc[r] \in {"read", "apply"} /\ pc[q] \in {"read", "apply"} => r = q)
<1>1. IInv => \A r, q \in Runners :
                pc[r] \in {"read", "apply"} /\ pc[q] \in {"read", "apply"} => r = q
  BY DEF IInv, OneTransaction
<1> QED BY <1>1, Inductive, PTL

\* The rows and the effects of migrations are committed together, and each version once.
THEOREM LedgerIsExact == Spec => []LedgerIsExecuted
<1>1. IInv => LedgerIsExecuted
  <2> SUFFICES ASSUME IInv PROVE LedgerIsExecuted OBVIOUS
  <2>1. Ledger BY DEF IInv
  <2>2. ASSUME NEW v \in Versions, rows[v] # None
        PROVE  Cardinality({i \in DOMAIN executed : executed[i].version = v}) = 1
    <3>1. PICK x \in DOMAIN executed : executed[x].version = v BY <2>1, <2>2 DEF Ledger
    <3>2. {i \in DOMAIN executed : executed[i].version = v} = {x}
      BY <2>1, <3>1 DEF Ledger, DistinctVersions
    <3> QED BY <3>2, FS_Singleton
  <2> QED BY <2>1, <2>2 DEF Ledger, LedgerIsExecuted
<1> QED BY <1>1, Inductive, PTL

\* A runner that reports success leaves its bundle applied, text by text.
THEOREM SuccessIsCurrent == Spec => []SucceededIsCurrent
<1>1. IInv => SucceededIsCurrent BY DEF IInv
<1> QED BY <1>1, Inductive, PTL

\* A runner is turned down for a changed file or a repeated version, never because another
\* one ran at the same time.
THEOREM RefusalHasCause == Spec => []RefusedForCause
<1>1. IInv => RefusedForCause BY DEF IInv
<1> QED BY <1>1, Inductive, PTL

\* While packages grow at the end, migrations are executed in the order of every bundle.
THEOREM OrderKept == Spec => []ExecutedInOrder
<1>1. IInv => ExecutedInOrder BY DEF IInv
<1> QED BY <1>1, Inductive, PTL

\* Nothing that was recorded or executed is taken back or changed.
THEOREM HistoryGrows ==
  Spec => [][/\ \A v \in Versions : rows[v] # None => rows'[v] = rows[v]
             /\ \A i \in DOMAIN executed : i \in DOMAIN executed' /\ executed'[i] = executed[i]]_vars
<1>1. IInv /\ [Next]_vars =>
        [/\ \A v \in Versions : rows[v] # None => rows'[v] = rows[v]
         /\ \A i \in DOMAIN executed : i \in DOMAIN executed' /\ executed'[i] = executed[i]]_vars
  <2> SUFFICES ASSUME IInv, [Next]_vars
               PROVE  /\ \A v \in Versions : rows[v] # None => rows'[v] = rows[v]
                      /\ \A i \in DOMAIN executed :
                           i \in DOMAIN executed' /\ executed'[i] = executed[i]
    OBVIOUS
  <2>1. ASSUME NEW r \in Runners, Committing(r), NEW i \in DOMAIN executed
        PROVE  i \in DOMAIN executed' /\ executed'[i] = executed[i]
    <3>1. /\ DOMAIN executed' = 1 .. (Len(executed) + Len(pending[r]))
          /\ executed'[i] = executed[i]
      BY <2>1, CommitSpec DEF Committing
    <3>2. /\ Len(executed) \in Nat /\ DOMAIN executed = 1 .. Len(executed) /\ Len(pending[r]) \in Nat
      BY BundleFacts, SequenceFacts DEF IInv, TypeOK
    <3> QED BY <3>1, <3>2
  <2> QED BY <2>1, RowsKept, CommitOrNot
<1> QED BY <1>1, Inductive, PTL DEF Spec
=============================================================================
