--------------------------- MODULE TableReplacement ---------------------------
(***************************************************************************)
(* What the importer promises of pdl.companies and meta.import_runs,       *)
(* without sessions, locks, scratch tables or files: a run is begun, then  *)
(* either publishes a complete table and its own success in one step, or   *)
(* is given up; the current table always belongs to a run that succeeded.  *)
(***************************************************************************)
EXTENDS Naturals

CONSTANTS Imports, Installable, Rows, Initial, None

VARIABLES
  table,  \* the current table: the run that installed it and its content
  ledger  \* status and number of rows of each run

Absent == [status |-> "absent", rows |-> 0]

Init ==
  /\ table = [run |-> None, content |-> None]
  /\ ledger = [i \in Imports |-> Absent]

Create ==
  /\ table.run = None
  /\ table' = [run |-> Initial, content |-> None]
  /\ UNCHANGED ledger

Fail(row) == IF row.status = "running" THEN [status |-> "failed", rows |-> row.rows] ELSE row

Begin(i) ==
  /\ ledger[i].status = "absent"
  /\ ledger' = [j \in Imports |-> IF j = i THEN [status |-> "running", rows |-> 0]
                                  ELSE Fail(ledger[j])]
  /\ UNCHANGED table

Publish(i) ==
  /\ table.run # None
  /\ ledger[i].status = "running"
  /\ \E c \in Installable :
       /\ table' = [run |-> i, content |-> c]
       /\ ledger' = [ledger EXCEPT ![i] = [status |-> "succeeded", rows |-> Rows[c]]]

Abandon(i) ==
  /\ ledger[i].status = "running"
  /\ ledger' = [ledger EXCEPT ![i] = Fail(ledger[i])]
  /\ UNCHANGED table

Next == Create \/ \E i \in Imports : Begin(i) \/ Publish(i) \/ Abandon(i)

Spec == Init /\ [][Next]_<<table, ledger>>
=============================================================================
