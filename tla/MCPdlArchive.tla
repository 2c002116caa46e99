----------------------------- MODULE MCPdlArchive -----------------------------
(* Small instances of PdlArchive for TLC. *)
EXTENDS PdlArchive

CONSTANTS a1, a2, csv1, json1, csv2, json2, csv3, json3, x, y, z, w

MCPaths == {csv1, json1, csv2, json2, csv3, json3}

\* A second download with one file of the same name and one of the same content, and a
\* third that has nothing in common with the first.
MCFilename ==
  [p \in MCPaths |-> IF p \in {csv1, csv2} THEN "companies.csv"
                     ELSE IF p = json1 THEN "companies.json"
                     ELSE IF p = json2 THEN "other.json"
                     ELSE IF p = csv3 THEN "more.csv" ELSE "more.json"]
MCOriginal ==
  [p \in MCPaths |-> IF p = csv1 THEN x ELSE IF p \in {json1, json2} THEN y
                     ELSE IF p \in {csv2, csv3} THEN z ELSE w]
MCSize == [c \in {x, y, z, w} |-> IF c \in {z, w} THEN 1 ELSE 2]

\* Two timestamps of one day, and one of the next.
MCAcquired == {11, 12, 20}
MCDayOf == [t \in MCAcquired |-> IF t = 20 THEN 2 ELSE 1]

Request(c, j, t) ==
  [path |-> [role \in Roles |-> IF role = "original_csv" THEN c ELSE j],
   acquired |-> t, url |-> None]
First == Request(csv1, json1, 11)

\* The same again, with another URL; for another day; of other downloads.
MCRequests ==
  {First, [First EXCEPT !.url = "url"], Request(csv1, json1, 20),
   Request(csv2, json2, 11), Request(csv3, json3, 12)}

\* Also for another time of the day, and with the two files exchanged.
ManyRequests == MCRequests \cup
  {Request(csv1, json1, 12), Request(csv2, json2, 20), Request(json2, csv2, 12)}

OnlyFirst == {First}
=============================================================================
