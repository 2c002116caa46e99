--------------------------------- MODULE MCCli ---------------------------------
(* A small instance of every command for TLC. *)
EXTENDS Cli

Line(id, shape, bytes) == [id |-> id, value |-> 1, shape |-> shape, bytes |-> bytes]
Row(id, value, width) == [id |-> id, value |-> value, width |-> width]
UpTo(n, S) == UNION {[1 .. k -> S] : k \in 0 .. n}

\* Two ids, a long line, a line with other fields and one that is not JSON.
MCJsonFiles ==
  UpTo(3, {Line(1, "record", 1), Line(2, "record", 4), Line(1, "drifted", 2),
           Line(2, "broken", 2)})

\* Rows that agree with them, have another value, no integer, or too many cells.
MCCsvFiles ==
  [escaping : UpTo(2, {Row(1, 1, "exact"), Row(1, 2, "exact"), Row(2, 0, "exact"),
                       Row(2, 1, "wide")})
              \cup {<<Row(1, 1, "exact"), Row(2, 1, "wide"), Row(1, 1, "oversized")>>,
                    <<Row(1, 1, "exact"), Row(1, 1, "oversized")>>},
   default : UpTo(2, {Row(1, 1, "exact"), Row(2, 1, "wide")})
             \cup {<<Row(1, 1, "exact"), Row(2, 1, "wide"), Row(1, 1, "oversized")>>,
                   <<Row(2, 1, "wide"), Row(1, 1, "oversized")>>}]

\* The first table has the last one as a partition.
MCPartitions == [t \in {1, 2, 3} |-> IF t = 1 THEN {3} ELSE {}]

MCFractions == <<0, 25, 50, 75, 99>>
=============================================================================
