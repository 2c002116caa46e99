---------------------------- MODULE InspectionProofs ----------------------------
(***************************************************************************)
(* Proofs about CrunchbaseInspect and PdlInspect, as parts of Cli: for     *)
(* every set of tables and number of commits beside the inspection, and    *)
(* for all files, windows and offsets.                                     *)
(***************************************************************************)
EXTENDS CliInv, SequenceTheorems, FiniteSetTheorems, WellFoundedInduction, TLAPS

-----------------------------------------------------------------------------
(* Counting the positions of a sequence *)

LEMMA CountBelow ==
  ASSUME NEW n \in Nat, NEW S, S \subseteq 1 .. n
  PROVE  IsFiniteSet(S) /\ Cardinality(S) \in 0 .. n
<1>1. IsFiniteSet(1 .. n) /\ Cardinality(1 .. n) = n BY FS_Interval
<1>2. IsFiniteSet(S) /\ Cardinality(S) <= Cardinality(1 .. n) BY <1>1, FS_Subset
<1>3. Cardinality(S) \in Nat BY <1>2, FS_CardinalityType
<1> QED BY <1>1, <1>2, <1>3

\* Counting goes on with the next position.
LEMMA CountMore ==
  ASSUME NEW n \in Nat \ {0}, NEW S, S \subseteq 1 .. n - 1
  PROVE  Cardinality(S) \in Nat /\ Cardinality(S \cup {n}) = Cardinality(S) + 1
<1>1. IsFiniteSet(1 .. n - 1) BY FS_Interval
<1>2. IsFiniteSet(S) BY <1>1, FS_Subset
<1>3. Cardinality(S) \in Nat BY <1>2, FS_CardinalityType
<1>4. n \notin S OBVIOUS
<1>5. Cardinality(S \cup {n}) = Cardinality(S) + 1 BY <1>2, <1>4, FS_AddElement
<1> QED BY <1>3, <1>5

-----------------------------------------------------------------------------
(* CrunchbaseInspect *)

LEMMA CrunchbaseMoves ==
  ASSUME [Next]_vars
  PROVE  Crunchbase!StartInspection \/ Crunchbase!CrunchbaseStep \/ UNCHANGED crunchbaseVars
BY DEF Next, vars, parts, CliStep, StartPart, PipelineAction, TransferAction, CrunchbaseAction,
       PdlAction, Hangs, Exited

\* There is a first one among some tables.
LEMMA FirstTable ==
  ASSUME NEW S, S \subseteq Nat, S # {}
  PROVE  Crunchbase!Min(S) \in S
<1> DEFINE R == {ss \in Nat \X Nat : ss[1] < ss[2]}
<1>1. IsWellFoundedOn(R, Nat) BY NatLessThanWellFounded DEF OpToRel
<1>2. PICK n \in S : \A m \in S : <<m, n>> \notin R BY <1>1, WFMin
<1>3. \A m \in S : n <= m
  <2> SUFFICES ASSUME NEW m \in S PROVE n <= m OBVIOUS
  <2>1. n \in Nat /\ m \in Nat OBVIOUS
  <2>2. ~(m < n)
    <3>1. SUFFICES ASSUME m < n PROVE FALSE OBVIOUS
    <3>2. <<m, n>> \in Nat \X Nat /\ <<m, n>>[1] = m /\ <<m, n>>[2] = n BY <2>1
    <3>3. <<m, n>> \in R BY <3>1, <3>2
    <3> QED BY <1>2, <3>3
  <2> QED BY <2>1, <2>2
<1> HIDE DEF R
<1> QED BY <1>3 DEF Crunchbase!Min

LEMMA CountingFacts ==
  ASSUME Crunchbase!Uncounted # {}
  PROVE  /\ Crunchbase!Counting \in Crunchbase!Uncounted
         /\ Crunchbase!Counting \in Tables /\ Crunchbase!Counting \in Nat \ {0}
         /\ Crunchbase!Uncounted \subseteq Crunchbase!Listed
<1>1. Crunchbase!Uncounted \subseteq Tables
  BY DEF Crunchbase!Uncounted, Crunchbase!Listed
<1>2. Tables \subseteq Nat \ {0} BY CrunchbaseAssumption DEF Crunchbase!TablesBounds
<1>3. Crunchbase!Counting \in Crunchbase!Uncounted
  BY <1>1, <1>2, FirstTable DEF Crunchbase!Counting
<1> QED BY <1>1, <1>2, <1>3 DEF Crunchbase!Uncounted, Crunchbase!Listed

LEMMA CrunchbaseTyped ==
  ASSUME CrunchbaseInv
  PROVE  /\ relations \in [Tables -> Nat] /\ listed \in [Tables -> Nat] /\ created \in Nat
         /\ MaxChanges \in Nat \ {0} /\ Tables \subseteq Nat \ {0}
<1>1. MaxChanges \in Nat \ {0} /\ Tables \subseteq Nat \ {0}
  BY CrunchbaseAssumption DEF Crunchbase!TablesBounds
<1>2. 0 .. MaxChanges \subseteq Nat /\ 1 .. MaxChanges \subseteq Nat BY <1>1
<1> QED BY <1>1, <1>2 DEF CrunchbaseInv, Crunchbase!CrunchbaseTypeOK

\* The other session changes nothing the inspection has read.
LEMMA OtherSessionInv ==
  ASSUME CrunchbaseInv,
         \/ Crunchbase!OtherSession \/ Crunchbase!RollBack
         \/ \E t \in Tables : Crunchbase!LockWanted(t)
  PROVE  CrunchbaseInv'
<1> USE DEF Crunchbase!OtherSession, Crunchbase!LockGranted, Crunchbase!CommitChanges,
            Crunchbase!RollBack, Crunchbase!LockWanted, Crunchbase!inspectionVars
<1>1. UNCHANGED <<inspector, exact, listed, shared, counts>> OBVIOUS
<1>2. /\ Crunchbase!Listed' = Crunchbase!Listed /\ Crunchbase!Uncounted' = Crunchbase!Uncounted
      /\ Crunchbase!Counting' = Crunchbase!Counting
  BY <1>1 DEF Crunchbase!Listed, Crunchbase!Uncounted, Crunchbase!Counting
<1>3. Crunchbase!CrunchbaseTypeOK'
  <2>1. changing' \subseteq Tables /\ wanted' \in Tables \cup {0}
    BY DEF CrunchbaseInv, Crunchbase!CrunchbaseTypeOK
  <2>2. stale' \in BOOLEAN
    <3>1. stale \in BOOLEAN BY DEF CrunchbaseInv, Crunchbase!CrunchbaseTypeOK
    <3>2. stale' = stale \/ stale' = (inspector \in {"primary_keys", "indexes"}) OBVIOUS
    <3>3. (inspector \in {"primary_keys", "indexes"}) \in BOOLEAN OBVIOUS
    <3> QED BY <3>1, <3>2, <3>3, Zenon
  <2>3. created' \in 1 .. MaxChanges /\ relations' \in [Tables -> 0 .. MaxChanges]
    <3>1. CASE Crunchbase!CommitChanges
      <4>1. created + 1 \in 1 .. MaxChanges /\ created' = created + 1 /\ 0 \in 0 .. MaxChanges
        BY <3>1, CrunchbaseTyped
      <4>2. relations \in [Tables -> 0 .. MaxChanges]
        BY DEF CrunchbaseInv, Crunchbase!CrunchbaseTypeOK
      <4>3. created + 1 \in 0 .. MaxChanges BY <4>1, CrunchbaseTyped
      <4> QED BY <3>1, <4>1, <4>2, <4>3
    <3>2. CASE ~Crunchbase!CommitChanges
      BY <3>2 DEF CrunchbaseInv, Crunchbase!CrunchbaseTypeOK
    <3> QED BY <3>1, <3>2
  <2> QED BY <1>1, <2>1, <2>2, <2>3 DEF CrunchbaseInv, Crunchbase!CrunchbaseTypeOK
<1>4. OneLock' BY <1>1, <1>2 DEF CrunchbaseInv, OneLock
<1>5. Crunchbase!ReportAccounts'
  BY <1>1, <1>2 DEF CrunchbaseInv, Crunchbase!ReportAccounts
<1> QED BY <1>3, <1>4, <1>5 DEF CrunchbaseInv

\* The statements that read the catalog hold no lock, and count nothing.
LEMMA CatalogInv ==
  ASSUME CrunchbaseInv,
         \/ Crunchbase!StartInspection \/ Crunchbase!ReadSchemas \/ Crunchbase!ReadRelations
         \/ Crunchbase!ReadSizes \/ Crunchbase!ReadDetails
  PROVE  CrunchbaseInv'
<1> USE DEF Crunchbase!StartInspection, Crunchbase!ReadSchemas, Crunchbase!ReadRelations,
            Crunchbase!ReadSizes, Crunchbase!ReadDetails, Crunchbase!ReadNames
<1>1. UNCHANGED <<relations, created, changing, wanted, shared, counts>>
  BY DEF Crunchbase!publicVars
<1>2. inspector \notin {"counting", "reported", "failed", "refused"} OBVIOUS
<1>3. shared = {} /\ \A t \in Tables : counts[t] = "none"
  BY <1>2 DEF CrunchbaseInv, OneLock
<1>4. Crunchbase!Uncounted' = Crunchbase!Listed'
  BY <1>1, <1>3 DEF Crunchbase!Uncounted, Crunchbase!Listed
<1>5. listed' = listed \/ listed' = relations OBVIOUS
<1>6. exact' \in BOOLEAN /\ stale' \in BOOLEAN
  BY DEF CrunchbaseInv, Crunchbase!CrunchbaseTypeOK
<1>7. Crunchbase!CrunchbaseTypeOK'
  <2>1. {"schemas", "relations", "sizes", "columns", "primary_keys", "indexes", "counting"}
          = {Crunchbase!Statements[k] : k \in DOMAIN Crunchbase!Statements}
    BY DEF Crunchbase!Statements
  <2>2. inspector' \in {Crunchbase!Statements[k] : k \in DOMAIN Crunchbase!Statements}
                         \cup {"idle", "reported", "failed", "refused"}
    BY <2>1
  <2> QED BY <1>1, <1>5, <1>6, <2>2 DEF CrunchbaseInv, Crunchbase!CrunchbaseTypeOK
<1>8. inspector' = "counting" => exact /\ exact' = exact /\ Crunchbase!Listed' # {}
  BY DEF Crunchbase!Listed
<1>9. OneLock' BY <1>1, <1>3, <1>4, <1>8 DEF OneLock
<1>10. Crunchbase!ReportAccounts'
  <2>1. inspector' = "reported" =>
          exact' = exact /\ listed' = listed /\ ~(exact /\ Crunchbase!Listed # {})
    OBVIOUS
  <2>2. listed' = listed => Crunchbase!Listed' = Crunchbase!Listed BY DEF Crunchbase!Listed
  <2> QED BY <1>4, <2>1, <2>2 DEF Crunchbase!ReportAccounts
<1> QED BY <1>7, <1>9, <1>10 DEF CrunchbaseInv

\* The transaction of a count locks its table and partitions of it, or finds the table gone.
LEMMA LockTableInv ==
  ASSUME CrunchbaseInv, Crunchbase!LockTable
  PROVE  CrunchbaseInv'
<1>1. PICK t \in Tables :
        /\ inspector = "counting" /\ t \in Crunchbase!Counts(Crunchbase!Counting)
        /\ UNCHANGED <<relations, created, changing, wanted, exact, listed, stale, counts>>
        /\ \/ inspector' = "failed" /\ shared' = {}
           \/ shared' = shared \cup {t} /\ inspector' = inspector
  BY DEF Crunchbase!LockTable, Crunchbase!Wants, Crunchbase!publicVars
<1>2. /\ exact /\ Crunchbase!Uncounted # {}
      /\ shared \subseteq {Crunchbase!Counting} \cup Partitions[Crunchbase!Counting]
  BY <1>1 DEF CrunchbaseInv, OneLock
<1>3. t \in {Crunchbase!Counting} \cup Partitions[Crunchbase!Counting]
  BY <1>1 DEF Crunchbase!Counts
<1>4. /\ Crunchbase!Listed' = Crunchbase!Listed /\ Crunchbase!Uncounted' = Crunchbase!Uncounted
      /\ Crunchbase!Counting' = Crunchbase!Counting
  BY <1>1 DEF Crunchbase!Listed, Crunchbase!Uncounted, Crunchbase!Counting
<1>5. Crunchbase!CrunchbaseTypeOK' BY <1>1 DEF CrunchbaseInv, Crunchbase!CrunchbaseTypeOK
<1>6. OneLock' BY <1>1, <1>2, <1>3, <1>4 DEF OneLock
<1>7. Crunchbase!ReportAccounts' BY <1>1 DEF Crunchbase!ReportAccounts
<1> QED BY <1>5, <1>6, <1>7 DEF CrunchbaseInv

\* What the database refuses ends the inspection.
LEMMA StatementRefusedInv ==
  ASSUME CrunchbaseInv, Crunchbase!StatementRefused
  PROVE  CrunchbaseInv'
<1>1. /\ inspector' = "refused" /\ shared' = {} /\ stale' = FALSE
      /\ UNCHANGED <<relations, created, changing, wanted, exact, listed, counts>>
  BY DEF Crunchbase!StatementRefused, Crunchbase!publicVars
<1> QED BY <1>1 DEF CrunchbaseInv, Crunchbase!CrunchbaseTypeOK, OneLock, Crunchbase!ReportAccounts

\* Its end releases the lock, whether it has counted or was canceled.
LEMMA ConcludeInv ==
  ASSUME CrunchbaseInv, Crunchbase!Counted \/ Crunchbase!TimedOut
  PROVE  CrunchbaseInv'
<1> DEFINE t == Crunchbase!Counting
<1>1. PICK outcome \in {"exact", "timed out"} :
        /\ counts' = [counts EXCEPT ![t] = outcome]
        /\ shared' = {} /\ inspector = "counting"
        /\ inspector' = IF Crunchbase!Uncounted = {t} THEN "reported" ELSE "counting"
        /\ UNCHANGED <<relations, created, changing, wanted, exact, listed, stale>>
  BY DEF Crunchbase!Counted, Crunchbase!TimedOut, Crunchbase!Caught, Crunchbase!Conclude,
         Crunchbase!ReleaseLocks, Crunchbase!publicVars
<1>2. exact /\ Crunchbase!Uncounted # {} BY <1>1 DEF CrunchbaseInv, OneLock
<1>3. t \in Crunchbase!Uncounted /\ t \in Tables BY <1>2, CountingFacts
<1> HIDE DEF t
<1>4. counts \in [Tables -> {"none", "exact", "timed out"}]
  BY DEF CrunchbaseInv, Crunchbase!CrunchbaseTypeOK
<1>5. Crunchbase!Listed' = Crunchbase!Listed BY <1>1 DEF Crunchbase!Listed
<1>6. Crunchbase!Uncounted' = Crunchbase!Uncounted \ {t}
  BY <1>1, <1>3, <1>4 DEF Crunchbase!Uncounted, Crunchbase!Listed
<1>7. Crunchbase!CrunchbaseTypeOK'
  <2>1. counts' \in [Tables -> {"none", "exact", "timed out"}] BY <1>1, <1>4
  <2>2. inspector' \in {"reported", inspector} BY <1>1
  <2> QED BY <1>1, <2>1, <2>2 DEF CrunchbaseInv, Crunchbase!CrunchbaseTypeOK
<1>8. OneLock' BY <1>1, <1>2, <1>3, <1>6 DEF OneLock
<1>9. Crunchbase!ReportAccounts' BY <1>1, <1>2, <1>6 DEF Crunchbase!ReportAccounts
<1> QED BY <1>7, <1>8, <1>9 DEF CrunchbaseInv

LEMMA CrunchbaseInvStep == CrunchbaseInv /\ [Next]_vars => CrunchbaseInv'
<1> SUFFICES ASSUME CrunchbaseInv, [Next]_vars PROVE CrunchbaseInv' OBVIOUS
<1>1. CASE Crunchbase!CrunchbaseStep
  BY <1>1, CatalogInv, LockTableInv, ConcludeInv, StatementRefusedInv, OtherSessionInv
  DEF Crunchbase!CrunchbaseStep, Crunchbase!InspectorStep
<1>2. CASE UNCHANGED crunchbaseVars
  <2>1. UNCHANGED <<relations, created, changing, wanted, inspector, exact, listed, stale, shared,
                    counts>>
    BY <1>2 DEF crunchbaseVars
  <2>2. /\ Crunchbase!Listed' = Crunchbase!Listed /\ Crunchbase!Uncounted' = Crunchbase!Uncounted
        /\ Crunchbase!Counting' = Crunchbase!Counting
    BY <2>1 DEF Crunchbase!Listed, Crunchbase!Uncounted, Crunchbase!Counting
  <2>3. Crunchbase!CrunchbaseTypeOK' BY <2>1 DEF CrunchbaseInv, Crunchbase!CrunchbaseTypeOK
  <2>4. OneLock' BY <2>1, <2>2 DEF CrunchbaseInv, OneLock
  <2>5. Crunchbase!ReportAccounts' BY <2>1, <2>2 DEF CrunchbaseInv, Crunchbase!ReportAccounts
  <2> QED BY <2>3, <2>4, <2>5 DEF CrunchbaseInv
<1> QED BY <1>1, <1>2, CatalogInv, CrunchbaseMoves

LEMMA CrunchbaseInitially == Init => CrunchbaseInv
<1> SUFFICES ASSUME Init PROVE CrunchbaseInv OBVIOUS
<1> USE DEF Init, Crunchbase!CrunchbaseInit
<1>1. MaxChanges \in Nat \ {0} BY CrunchbaseAssumption DEF Crunchbase!TablesBounds
<1>2. Crunchbase!CrunchbaseTypeOK
  <2>1. /\ relations \in [Tables -> 0 .. MaxChanges] /\ listed \in [Tables -> 0 .. MaxChanges]
        /\ created \in 1 .. MaxChanges
    BY <1>1 DEF Crunchbase!Nothing
  <2>2. counts \in [Tables -> {"none", "exact", "timed out"}] OBVIOUS
  <2>3. inspector \in {Crunchbase!Statements[k] : k \in DOMAIN Crunchbase!Statements}
                       \cup {"idle", "reported", "failed", "refused"}
    OBVIOUS
  <2> QED BY <2>1, <2>2, <2>3 DEF Crunchbase!CrunchbaseTypeOK
<1>3. OneLock BY DEF OneLock
<1> QED BY <1>2, <1>3 DEF CrunchbaseInv, Crunchbase!ReportAccounts

-----------------------------------------------------------------------------
(* PdlInspect *)

LEMMA PdlMoves ==
  ASSUME [Next]_vars
  PROVE  Files!StartPdlInspection \/ Files!PdlStep \/ UNCHANGED pdlVars
BY DEF Next, vars, parts, CliStep, StartPart, PipelineAction, TransferAction, CrunchbaseAction,
       PdlAction, Hangs, Exited

LEMMA PdlTyped ==
  ASSUME PdlInv
  PROVE  /\ Window \in Nat \ {0} /\ Len(Fractions) \in Nat
         /\ at \in Nat \ {0} /\ at <= Window + Len(Fractions) + 1
         /\ tally["compared"] \in 0 .. Window
         /\ \A c \in Counters : tally[c] \in 0 .. Window /\ tally[c] <= tally["compared"]
         /\ probes["made"] \in 0 .. Len(Fractions) /\ probes["drifted"] \in 0 .. Len(Fractions)
<1>1. Window \in Nat \ {0} /\ Fractions \in Seq(0 .. 99)
  BY PdlFilesAssumption DEF Files!PdlFilesBounds
<1>2. Len(Fractions) \in Nat BY <1>1
<1> QED BY <1>1, <1>2 DEF PdlInv, Files!PdlTypeOK, Counters

LEMMA OneFacts ==
  ASSUME NEW condition
  PROVE  Files!One(condition) \in {0, 1}
BY DEF Files!One

LEMMA Tallied ==
  ASSUME NEW t \in Nat, NEW u \in {0, 1}, NEW n \in Nat, t <= n - 1
  PROVE  t + u \in 0 .. n
OBVIOUS

LEMMA StartPdlInspectionInv ==
  ASSUME PdlInv, Files!StartPdlInspection
  PROVE  PdlInv'
<1>1. /\ phase = "idle" /\ phase' = "compare" /\ json' \in JsonFiles
      /\ \E file \in CsvFiles : csv' = file.escaping /\ defaults' = file.default
      /\ UNCHANGED <<at, seen_ids, tally, firsts, probes>>
  BY DEF Files!StartPdlInspection
<1>2. json' \in Seq(Files!JsonLine) /\ csv' \in Seq(Files!CsvRow) /\ defaults' \in Seq(Files!CsvRow)
  BY <1>1, PdlFilesAssumption DEF Files!PdlFilesBounds
<1>3. Files!PdlTypeOK' BY <1>1, <1>2 DEF PdlInv, Files!PdlTypeOK
<1> QED BY <1>1, <1>3 DEF PdlInv

LEMMA EndsInv ==
  ASSUME PdlInv, NEW how \in {"returned", "raised", "escaped"}, Files!Ends(how)
  PROVE  PdlInv'
<1>1. phase' = how /\ UNCHANGED <<json, csv, defaults, at, seen_ids, tally, firsts, probes>>
  BY DEF Files!Ends, Files!pdlFiles
<1> QED BY <1>1 DEF PdlInv, Files!PdlTypeOK

\* A counter of the comparison counts records that were compared.
LEMMA CompareFilesInv ==
  ASSUME PdlInv, Files!CompareFiles
  PROVE  PdlInv'
<1>1. /\ phase = "compare" /\ at <= Window /\ at <= Len(csv) /\ at <= Len(json)
  BY DEF Files!CompareFiles, Files!PairLeft, Files!RowLeft
<1>2. CASE Files!SameId(csv, at) /\ csv[at].value = Files!Unreadable
  BY <1>2, EndsInv DEF Files!CompareFiles
<1>3. CASE ~(Files!SameId(csv, at) /\ csv[at].value = Files!Unreadable)
  <2> DEFINE a == Files!One(~Files!SameId(csv, at))
             b == Files!One(json[at].id \in seen_ids)
             c == Files!One(csv[at].width = "wide")
             d == Files!One(Files!SameId(csv, at) /\ csv[at].value # json[at].value)
  <2>1. /\ tally' = [compared |-> tally.compared + 1, mismatches |-> tally.mismatches + a,
                     duplicates |-> tally.duplicates + b, malformed |-> tally.malformed + c,
                     fields |-> tally.fields + d]
        /\ seen_ids' = seen_ids \cup {json[at].id} /\ at' = at + 1
        /\ UNCHANGED <<json, csv, defaults, phase, firsts, probes>>
    BY <1>3 DEF Files!CompareFiles, Files!pdlFiles
  <2>2. a \in {0, 1} /\ b \in {0, 1} /\ c \in {0, 1} /\ d \in {0, 1} BY OneFacts
  <2> HIDE DEF a, b, c, d
  <2>3. at \in Nat /\ Window \in Nat /\ Len(Fractions) \in Nat BY PdlTyped
  <2>4. tally["compared"] = at - 1 BY <1>1 DEF PdlInv
  <2>5. /\ tally'["compared"] = at /\ tally'["mismatches"] = tally["mismatches"] + a
        /\ tally'["duplicates"] = tally["duplicates"] + b
        /\ tally'["malformed"] = tally["malformed"] + c /\ tally'["fields"] = tally["fields"] + d
        /\ DOMAIN tally' = {"compared", "mismatches", "duplicates", "malformed", "fields"}
        /\ tally' = [x \in DOMAIN tally' |-> tally'[x]]
    BY <2>1, <2>3, <2>4
  <2>6. \A x \in Counters : tally[x] \in Nat /\ tally[x] <= at - 1 BY <2>4, PdlTyped
  <2>7. \A x \in Counters : tally'[x] \in 0 .. Window /\ tally'[x] <= at
    <3>1. /\ tally["mismatches"] \in Nat /\ tally["mismatches"] <= at - 1
          /\ tally["duplicates"] \in Nat /\ tally["duplicates"] <= at - 1
          /\ tally["malformed"] \in Nat /\ tally["malformed"] <= at - 1
          /\ tally["fields"] \in Nat /\ tally["fields"] <= at - 1
      BY <2>6 DEF Counters
    <3>2. /\ tally'["mismatches"] \in 0 .. at /\ tally'["duplicates"] \in 0 .. at
          /\ tally'["malformed"] \in 0 .. at /\ tally'["fields"] \in 0 .. at
      <4>1. tally["mismatches"] + a \in 0 .. at BY <2>2, <2>3, <3>1, Tallied
      <4>2. tally["duplicates"] + b \in 0 .. at BY <2>2, <2>3, <3>1, Tallied
      <4>3. tally["malformed"] + c \in 0 .. at BY <2>2, <2>3, <3>1, Tallied
      <4>4. tally["fields"] + d \in 0 .. at BY <2>2, <2>3, <3>1, Tallied
      <4> QED BY <2>5, <4>1, <4>2, <4>3, <4>4
    <3> QED BY <1>1, <2>3, <3>2 DEF Counters
  <2>8. tally' \in [{"compared", "mismatches", "duplicates", "malformed", "fields"} -> 0 .. Window]
    BY <1>1, <2>3, <2>5, <2>7 DEF Counters
  <2>9. json[at].id \in Nat
    <3>1. json \in Seq(Files!JsonLine) BY DEF PdlInv, Files!PdlTypeOK
    <3>2. json[at] \in Files!JsonLine BY <1>1, <2>3, <3>1, PdlTyped, ElementOfSeq
    <3> QED BY <3>2 DEF Files!JsonLine
  <2>10. at' \in 1 .. Window + Len(Fractions) + 1 BY <1>1, <2>1, <2>3
  <2>11. Files!PdlTypeOK' BY <2>1, <2>8, <2>9, <2>10 DEF PdlInv, Files!PdlTypeOK
  <2>12. at' <= Window + 1 /\ tally'["compared"] = at' - 1 BY <1>1, <2>1, <2>3, <2>5
  <2>13. \A x \in Counters : tally'[x] <= tally'["compared"] BY <2>5, <2>7
  <2> QED BY <1>1, <2>1, <2>11, <2>12, <2>13 DEF PdlInv
<1> QED BY <1>2, <1>3

\* The loops begin at the first row and the first fraction.
LEMMA LoopBeginsInv ==
  ASSUME PdlInv, Files!CompareEnds \/ Files!DefaultEnds
  PROVE  PdlInv'
<1>1. CASE Files!Ends("raised") BY <1>1, EndsInv
<1>2. CASE ~Files!Ends("raised")
  <2>1. /\ phase \in {"compare", "default"} /\ at' = 1
        /\ phase' = IF phase = "compare" THEN "default" ELSE "probe"
        /\ UNCHANGED <<json, csv, defaults, seen_ids, tally, firsts, probes>>
    BY <1>2 DEF Files!CompareEnds, Files!DefaultEnds, Files!pdlFiles
  <2>2. at' \in 1 .. Window + Len(Fractions) + 1 BY <2>1, PdlTyped
  <2>3. Files!PdlTypeOK' BY <2>1, <2>2 DEF PdlInv, Files!PdlTypeOK
  <2>4. probes["made"] = 0 BY <2>1 DEF PdlInv
  <2>5. at' <= Window + 1 /\ at' <= Len(Fractions) + 1 /\ 0 < at' BY <2>1, PdlTyped
  <2> QED BY <2>1, <2>3, <2>4, <2>5 DEF PdlInv
<1> QED BY <1>1, <1>2

LEMMA DefaultIssuesInv ==
  ASSUME PdlInv, Files!DefaultParserIssues
  PROVE  PdlInv'
<1>1. /\ phase = "default" /\ at <= Window /\ at' = at + 1
      /\ UNCHANGED <<json, csv, defaults, phase, seen_ids, tally, probes>>
  BY DEF Files!DefaultParserIssues, Files!PairLeft, Files!RowLeft, Files!pdlFiles
<1>2. PICK a \in {firsts.malformed, at}, b \in {firsts.mismatch, at} :
        firsts' = [malformed |-> a, mismatch |-> b]
  BY DEF Files!DefaultParserIssues, Files!First
<1>3. firsts \in [{"malformed", "mismatch"} -> 0 .. Window]
  BY DEF PdlInv, Files!PdlTypeOK
<1>4. a \in 0 .. Window /\ b \in 0 .. Window BY <1>1, <1>2, <1>3, PdlTyped
<1>5. firsts' \in [{"malformed", "mismatch"} -> 0 .. Window] BY <1>2, <1>4
<1>6. at' \in 1 .. Window + Len(Fractions) + 1 /\ at' <= Window + 1 BY <1>1, PdlTyped
<1>7. Files!PdlTypeOK' BY <1>1, <1>5, <1>6 DEF PdlInv, Files!PdlTypeOK
<1> QED BY <1>1, <1>6, <1>7 DEF PdlInv

\* A probe of which a schema was read counts as made.
LEMMA ProbeInv ==
  ASSUME PdlInv, Files!ProbeJsonOffsets
  PROVE  PdlInv'
<1>1. CASE Files!Ends("raised") BY <1>1, EndsInv
<1>2. CASE ~Files!Ends("raised")
  <2> DEFINE p == Files!SeekLine(Files!Offset(Fractions[at]))
             a == Files!One(p # Files!EndOfFile)
             b == Files!One(p # Files!EndOfFile /\ Files!ShapeAt(p) = "drifted")
  <2>1. /\ phase = "probe" /\ at <= Len(Fractions) /\ at' = at + 1
        /\ probes' = [made |-> probes.made + a, drifted |-> probes.drifted + b]
        /\ UNCHANGED <<json, csv, defaults, phase, seen_ids, tally, firsts>>
    BY <1>2 DEF Files!ProbeJsonOffsets, Files!pdlFiles
  <2>2. a \in {0, 1} /\ b \in {0, 1} /\ b <= a BY DEF Files!One
  <2> HIDE DEF a, b, p
  <2>3. /\ at \in Nat /\ Len(Fractions) \in Nat /\ Window \in Nat
        /\ probes["made"] \in Nat /\ probes["drifted"] \in Nat
    BY PdlTyped
  <2>4. probes["made"] < at /\ probes["drifted"] <= probes["made"] BY <2>1 DEF PdlInv
  <2>5. /\ probes'["made"] = probes["made"] + a /\ probes'["drifted"] = probes["drifted"] + b
        /\ DOMAIN probes' = {"made", "drifted"} /\ probes' = [x \in DOMAIN probes' |-> probes'[x]]
    BY <2>1
  <2>6. /\ probes'["made"] < at' /\ probes'["drifted"] <= probes'["made"]
        /\ probes'["made"] \in 0 .. Len(Fractions) /\ probes'["drifted"] \in 0 .. Len(Fractions)
    BY <2>1, <2>2, <2>3, <2>4, <2>5
  <2>7. probes' \in [{"made", "drifted"} -> 0 .. Len(Fractions)] BY <2>5, <2>6
  <2>8. at' \in 1 .. Window + Len(Fractions) + 1 /\ at' <= Len(Fractions) + 1 BY <2>1, <2>3
  <2>9. Files!PdlTypeOK' BY <2>1, <2>7, <2>8 DEF PdlInv, Files!PdlTypeOK
  <2> QED BY <2>1, <2>6, <2>8, <2>9 DEF PdlInv
<1> QED BY <1>1, <1>2

LEMMA PdlInvStep == PdlInv /\ [Next]_vars => PdlInv'
<1> SUFFICES ASSUME PdlInv, [Next]_vars PROVE PdlInv' OBVIOUS
<1>1. CASE Files!PdlStep
  <2>1. CASE \/ Files!ReaderFails("compare", csv) \/ Files!Broken("compare", csv)
             \/ Files!DefaultFails \/ Files!ProbesEnd
    BY <2>1, EndsInv
    DEF Files!ReaderFails, Files!Broken, Files!DefaultFails, Files!ProbesEnd
  <2> QED BY <1>1, <2>1, CompareFilesInv, LoopBeginsInv, DefaultIssuesInv, ProbeInv
          DEF Files!PdlStep
<1>2. CASE UNCHANGED pdlVars BY <1>2 DEF pdlVars, PdlInv, Files!PdlTypeOK
<1> QED BY <1>1, <1>2, StartPdlInspectionInv, PdlMoves

LEMMA PdlInitially == Init => PdlInv
<1> SUFFICES ASSUME Init PROVE PdlInv OBVIOUS
<1>1. /\ json = <<>> /\ csv = <<>> /\ defaults = <<>> /\ phase = "idle" /\ at = 1 /\ seen_ids = {}
      /\ tally = [compared |-> 0, mismatches |-> 0, duplicates |-> 0, malformed |-> 0, fields |-> 0]
      /\ firsts = [malformed |-> 0, mismatch |-> 0] /\ probes = [made |-> 0, drifted |-> 0]
  BY DEF Init, Files!PdlInit
<1>2. Window \in Nat \ {0} /\ Fractions \in Seq(0 .. 99)
  BY PdlFilesAssumption DEF Files!PdlFilesBounds
<1>3. Len(Fractions) \in Nat BY <1>2
<1>4. /\ tally \in [{"compared", "mismatches", "duplicates", "malformed", "fields"} -> 0 .. Window]
      /\ \A c \in Counters : tally[c] = 0 /\ tally["compared"] = 0
  BY <1>1, <1>2 DEF Counters
<1>5. /\ firsts \in [{"malformed", "mismatch"} -> 0 .. Window]
      /\ probes \in [{"made", "drifted"} -> 0 .. Len(Fractions)]
      /\ probes["made"] = 0 /\ probes["drifted"] = 0
  BY <1>1, <1>2, <1>3
<1>6. at \in 1 .. Window + Len(Fractions) + 1 BY <1>1, <1>2, <1>3
<1>7. Files!PdlTypeOK BY <1>1, <1>4, <1>5, <1>6 DEF Files!PdlTypeOK
<1> QED BY <1>1, <1>2, <1>4, <1>5, <1>7 DEF PdlInv

-----------------------------------------------------------------------------
\* The inspection keeps its invariant whatever the other session does.
THEOREM CrunchbaseInductive == Spec => []CrunchbaseInv
<1>1. Init => CrunchbaseInv BY CrunchbaseInitially
<1>2. CrunchbaseInv /\ [Next]_vars => CrunchbaseInv' BY CrunchbaseInvStep
<1> QED BY <1>1, <1>2, PTL DEF Spec

\* crunchbase/inspect.py:217-229: a transaction for each count, so that none holds one table
\* while it waits for another, unless that is a partition of it.
THEOREM NoDeadlock == Spec => []NoCircularWait
<1>1. ASSUME CrunchbaseInv PROVE NoCircularWait
  <2>1. SUFFICES ASSUME inspector = "counting", Partitions[Crunchbase!Counting] = {},
                        wanted \in shared, NEW t \in changing, Crunchbase!Wants(t)
                 PROVE  FALSE
    BY DEF NoCircularWait, Crunchbase!NoCircularWait
  <2>2. shared \subseteq {Crunchbase!Counting} BY <2>1, <1>1 DEF CrunchbaseInv, OneLock
  <2>3. t = Crunchbase!Counting /\ t \notin shared
    BY <2>1 DEF Crunchbase!Wants, Crunchbase!Counts
  <2> QED BY <2>1, <2>2, <2>3
<1> QED BY <1>1, CrunchbaseInductive, PTL
=============================================================================
