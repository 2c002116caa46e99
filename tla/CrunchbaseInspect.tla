--------------------------- MODULE CrunchbaseInspect ---------------------------
(***************************************************************************)
(* inspect_crunchbase of src/datatown/crunchbase/inspect.py, beside a      *)
(* session that changes tables of the schema `public`.                     *)
(*                                                                         *)
(* The catalog is read by five statements of one READ COMMITTED            *)
(* transaction, each with its own snapshot.  Every exact count is a        *)
(* transaction of its own with a statement timeout, which also bounds its  *)
(* waits for locks: that of the table, and those of its partitions.  A     *)
(* table is a number that is never used again, 0 where a name has none.    *)
(***************************************************************************)
EXTENDS Naturals, FiniteSetsExt

CONSTANTS
  Tables,     \* names of tables: numbers, in the order of the names
  Partitions, \* the partitions of each table, if it is partitioned
  MaxChanges  \* bound on the commits of the other session

\* What the constants are.
TablesBounds ==
  /\ Tables \subseteq Nat \ {0} /\ IsFiniteSet(Tables)
  /\ Partitions \in [Tables -> SUBSET Tables] /\ MaxChanges \in Nat \ {0}

VARIABLES
  relations, \* the table each name stands for
  created,   \* commits of the other session so far; a table has the number of its commit
  changing,  \* tables the other session has locked exclusively
  wanted,    \* the table it waits to lock, 0 if none
  inspector, \* statement inspect_crunchbase is at
  exact,     \* --exact-counts
  listed,    \* what the relations query has seen
  stale,     \* the other session has committed since the statement took its snapshot
  shared,    \* tables the transaction of inspect_crunchbase has locked
  counts     \* the outcome of each exact count

publicVars == <<relations, created, changing, wanted>>
inspectionVars == <<inspector, exact, listed, stale, shared, counts>>
crunchbaseVars == <<publicVars, inspectionVars>>

Statements == <<"schemas", "relations", "sizes", "columns", "primary_keys", "indexes", "counting">>
Nothing == [t \in Tables |-> 0]

CrunchbaseInit ==
  /\ relations = [t \in Tables |-> 1] /\ created = 1
  /\ changing = {} /\ wanted = 0
  /\ inspector = "idle" /\ exact = FALSE
  /\ listed = Nothing /\ stale = FALSE /\ shared = {}
  /\ counts = [t \in Tables |-> "none"]

StartInspection ==
  /\ inspector = "idle"
  /\ inspector' = "schemas" /\ exact' \in BOOLEAN
  /\ UNCHANGED <<publicVars, listed, stale, shared, counts>>

-----------------------------------------------------------------------------
(* The other session: it locks tables one after the other, and commits. *)

LockWanted(t) ==
  /\ wanted = 0 /\ t \notin changing /\ created < MaxChanges
  /\ wanted' = t
  /\ UNCHANGED <<relations, created, changing, inspectionVars>>

LockGranted ==
  /\ wanted # 0 /\ wanted \notin shared
  /\ changing' = changing \cup {wanted} /\ wanted' = 0
  /\ UNCHANGED <<relations, created, inspectionVars>>

\* Each locked table was altered, dropped, or replaced by another of its name.  The statements
\* that look up definitions find the latest ones, not those of their snapshot.
CommitChanges ==
  /\ wanted = 0 /\ changing # {} /\ created < MaxChanges
  /\ \E dropped \in SUBSET changing, replaced \in SUBSET changing :
       relations' = [t \in Tables |-> IF t \in replaced THEN created + 1
                                      ELSE IF t \in dropped THEN 0 ELSE relations[t]]
  /\ created' = created + 1 /\ changing' = {}
  /\ stale' = (inspector \in {"primary_keys", "indexes"})
  /\ UNCHANGED <<wanted, inspector, exact, listed, shared, counts>>

\* It waits for a table that the inspection has locked, and is rolled back over it.
RollBack ==
  /\ wanted \in shared
  /\ wanted' = 0 /\ changing' = {}
  /\ UNCHANGED <<relations, created, inspectionVars>>

-----------------------------------------------------------------------------
(* inspect_crunchbase *)

Listed == {t \in Tables : listed[t] # 0}
Uncounted == {t \in Listed : counts[t] = "none"}

\* A lock request waits behind the holder of the table, and behind one that waits for it.
Blocked(t) == t \in changing \/ t = wanted

ReadNames(statement, then) ==
  /\ inspector = statement
  /\ inspector' = then /\ stale' = FALSE
  /\ UNCHANGED <<publicVars, exact, shared, counts>>

ReadSchemas == ReadNames("schemas", "relations") /\ UNCHANGED listed

\* The relations query: its snapshot, and then the sizes of tables, for which it opens each.
ReadRelations == ReadNames("relations", "sizes") /\ listed' = relations

\* A table that has gone has the size NULL, which is no integer: the report fails (at the end
\* of the five statements).
ReadSizes ==
  /\ \A t \in Listed : ~Blocked(t)
  /\ ReadNames("sizes", IF \A t \in Listed : relations[t] = listed[t] THEN "columns" ELSE "failed")
  /\ UNCHANGED listed

\* The definition of a primary key or an index that has gone since the snapshot is NULL, which
\* is no text: it fails the report like the size of a table that has gone.
ReadDetails ==
  /\ \/ ReadNames("columns", "primary_keys") \/ ReadNames("primary_keys", "indexes")
     \/ ReadNames("indexes", IF exact /\ Listed # {} THEN "counting" ELSE "reported")
     \/ stale /\ \E statement \in {"primary_keys", "indexes"} : ReadNames(statement, "failed")
  /\ UNCHANGED listed

\* The tables are counted in the order of their names.
Counting == Min(Uncounted)

\* Slip: all counts share one transaction, whose locks it keeps.
KeepLocks == UNCHANGED shared

ReleaseLocks == shared' = {}

\* The transaction of a count ends.
Conclude(outcome) ==
  /\ counts' = [counts EXCEPT ![Counting] = outcome]
  /\ ReleaseLocks
  /\ inspector' = IF Uncounted = {Counting} THEN "reported" ELSE "counting"
  /\ UNCHANGED <<publicVars, exact, listed, stale>>

\* What the count of a table locks: the table, then those of its partitions there are.
Counts(t) == {t} \cup {p \in Partitions[t] : relations[p] # 0}

\* The next lock the count waits for.
Wants(t) == t \in Counts(Counting) \ shared /\ (t = Counting \/ Counting \in shared)

\* The name is looked up and the table locked; nobody has to have it under this name now.
LockTable ==
  /\ inspector = "counting"
  /\ \E t \in Tables :
       /\ Wants(t) /\ ~Blocked(t)
       /\ IF relations[t] = 0
          THEN inspector' = "failed" /\ shared' = {}
          ELSE shared' = shared \cup {t} /\ UNCHANGED inspector
  /\ UNCHANGED <<publicVars, exact, listed, stale, counts>>

Counted == inspector = "counting" /\ Counts(Counting) \subseteq shared /\ Conclude("exact")

\* Slip: the exception is not caught.
Uncaught ==
  /\ inspector' = "failed" /\ shared' = {}
  /\ UNCHANGED <<publicVars, exact, listed, stale, counts>>

Caught == Conclude("timed out")

\* QueryCanceled, in the wait for a lock or in the count.
TimedOut == inspector = "counting" /\ Caught

\* Any other error of the database fails the report: no permission, a lost connection, a
\* deadlock that PostgreSQL detects.
StatementRefused ==
  /\ inspector \notin {"idle", "reported", "failed", "refused"}
  /\ inspector' = "refused" /\ shared' = {} /\ stale' = FALSE
  /\ UNCHANGED <<publicVars, exact, listed, counts>>

InspectorStep ==
  ReadSchemas \/ ReadRelations \/ ReadSizes \/ ReadDetails \/ LockTable \/ Counted \/ TimedOut

OtherSession == LockGranted \/ CommitChanges

CrunchbaseStep ==
  \/ InspectorStep \/ StatementRefused
  \/ OtherSession \/ RollBack \/ \E t \in Tables : LockWanted(t)

-----------------------------------------------------------------------------
(* Properties *)

\* Every variable has its type.
CrunchbaseTypeOK ==
  /\ relations \in [Tables -> 0 .. MaxChanges] /\ created \in 1 .. MaxChanges
  /\ changing \subseteq Tables /\ wanted \in Tables \cup {0}
  /\ inspector \in {Statements[k] : k \in DOMAIN Statements}
                    \cup {"idle", "reported", "failed", "refused"}
  /\ exact \in BOOLEAN /\ stale \in BOOLEAN /\ listed \in [Tables -> 0 .. MaxChanges]
  /\ shared \subseteq Tables /\ counts \in [Tables -> {"none", "exact", "timed out"}]

\* The inspection is no part of a circle of sessions that wait for each other's tables, except
\* over the partitions of the one table it is counting, which one statement locks together:
\* that circle is left to PostgreSQL.
NoCircularWait ==
  inspector = "counting" /\ wanted \in shared /\ Partitions[Counting] = {} =>
    ~ \E t \in changing : Wants(t)

\* A report with exact counts accounts for every table it lists.
ReportAccounts ==
  inspector = "reported" => Uncounted = (IF exact THEN {} ELSE Listed)

\* Neither a lock nor a count that takes too long costs the operator the report: an inspection
\* that begins when nobody changes tables any more reports, unless the database refuses it a
\* statement.
CalmInspectionReports ==
  (inspector = "schemas" /\ created = MaxChanges) ~> inspector \in {"reported", "refused"}
=============================================================================
