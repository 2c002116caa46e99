------------------------------ MODULE PdlInspect ------------------------------
(***************************************************************************)
(* inspect_pdl_files of src/datatown/pdl/inspect.py: two streams compared  *)
(* record by record, the CSV read once more by the default dialect, and    *)
(* the JSONL file probed at byte offsets.  The results are compared with   *)
(* definitions over the whole files.                                       *)
(*                                                                         *)
(* A line of JSON has an id, the value of one other field, a shape and a   *)
(* length in bytes; a CSV row has what a csv.DictReader makes of it.       *)
(***************************************************************************)
EXTENDS Naturals, Sequences, FiniteSetsExt

CONSTANTS
  JsonFiles, \* JSONL files: sequences of lines
  CsvFiles,  \* CSV files: the rows the escaping reader finds, and those the default one does
  Window,    \* --compare-records
  Fractions  \* JSON_OFFSET_FRACTIONS, in percent

Shapes == {"record", "drifted", "broken"}
Unreadable == 0 \* a CSV value that has no integer
CsvRow == [id : Nat, value : Nat, width : {"exact", "wide", "oversized"}]

JsonLine == [id : Nat, value : Nat \ {Unreadable}, shape : Shapes, bytes : Nat \ {0}]

\* What the constants are.
PdlFilesBounds ==
  /\ JsonFiles \subseteq Seq(JsonLine)
  /\ CsvFiles \subseteq [escaping : Seq(CsvRow), default : Seq(CsvRow)]
  /\ Window \in Nat \ {0} /\ Fractions \in Seq(0 .. 99)

VARIABLES
  json, csv, defaults, \* the files, the CSV as each reader sees it
  phase,    \* the loop it is in, or how it ended
  at,       \* position in that loop
  seen_ids, \* seen_json_ids
  tally,    \* the counters of the comparison
  firsts,   \* first_malformed_row and first_id_mismatch, 0 for None
  probes    \* probes and schema_mismatches

pdlFiles == <<json, csv, defaults>>
pdlVars == <<pdlFiles, phase, at, seen_ids, tally, firsts, probes>>

PdlInit ==
  /\ json = <<>> /\ csv = <<>> /\ defaults = <<>>
  /\ phase = "idle" /\ at = 1 /\ seen_ids = {}
  /\ tally = [compared |-> 0, mismatches |-> 0, duplicates |-> 0, malformed |-> 0, fields |-> 0]
  /\ firsts = [malformed |-> 0, mismatch |-> 0]
  /\ probes = [made |-> 0, drifted |-> 0]

StartPdlInspection ==
  /\ phase = "idle"
  /\ json' \in JsonFiles
  /\ \E file \in CsvFiles : csv' = file.escaping /\ defaults' = file.default
  /\ phase' = "compare"
  /\ UNCHANGED <<at, seen_ids, tally, firsts, probes>>

Ends(how) == phase' = how /\ UNCHANGED <<pdlFiles, at, seen_ids, tally, firsts, probes>>
-----------------------------------------------------------------------------
(* islice(zip(reader, json_source), Window): the reader is asked before the JSON. *)

RowLeft(rows) == at <= Window /\ at <= Len(rows)
TooLarge(rows) == RowLeft(rows) /\ rows[at].width = "oversized"
PairLeft(rows) == RowLeft(rows) /\ ~TooLarge(rows) /\ at <= Len(json)

\* csv.Error is neither an OSError nor a ValueError.
ReaderFails(loop, rows) == phase = loop /\ TooLarge(rows) /\ Ends("escaped")

Broken(loop, rows) ==
  /\ phase = loop /\ PairLeft(rows) /\ json[at].shape = "broken"
  /\ Ends("raised")

SameId(rows, k) == rows[k].id = json[k].id
One(condition) == IF condition THEN 1 ELSE 0

CompareFiles ==
  /\ phase = "compare" /\ PairLeft(csv) /\ json[at].shape # "broken"
  /\ IF SameId(csv, at) /\ csv[at].value = Unreadable THEN Ends("raised")
     ELSE /\ tally' =
               [compared |-> tally.compared + 1,
                mismatches |-> tally.mismatches + One(~SameId(csv, at)),
                duplicates |-> tally.duplicates + One(json[at].id \in seen_ids),
                malformed |-> tally.malformed + One(csv[at].width = "wide"),
                fields |-> tally.fields +
                           One(SameId(csv, at) /\ csv[at].value # json[at].value)]
          /\ seen_ids' = seen_ids \cup {json[at].id}
          /\ at' = at + 1
          /\ UNCHANGED <<pdlFiles, phase, firsts, probes>>

CompareEnds ==
  /\ phase = "compare" /\ ~PairLeft(csv) /\ ~TooLarge(csv)
  /\ IF tally.compared = 0 THEN Ends("raised")
     ELSE /\ phase' = "default" /\ at' = 1
          /\ UNCHANGED <<pdlFiles, seen_ids, tally, firsts, probes>>

First(position, condition) == IF position = 0 /\ condition THEN at ELSE position
BothFound == firsts.malformed # 0 /\ firsts.mismatch # 0

DefaultParserIssues ==
  /\ phase = "default" /\ ~BothFound /\ PairLeft(defaults) /\ json[at].shape # "broken"
  /\ firsts' = [malformed |-> First(firsts.malformed, defaults[at].width = "wide"),
                mismatch |-> First(firsts.mismatch, ~SameId(defaults, at))]
  /\ at' = at + 1
  /\ UNCHANGED <<pdlFiles, phase, seen_ids, tally, probes>>

DefaultFails ==
  ~BothFound /\ (ReaderFails("default", defaults) \/ Broken("default", defaults))

DefaultEnds ==
  /\ phase = "default"
  /\ BothFound \/ (~PairLeft(defaults) /\ ~TooLarge(defaults))
  /\ phase' = "probe" /\ at' = 1
  /\ UNCHANGED <<pdlFiles, seen_ids, tally, firsts, probes>>

-----------------------------------------------------------------------------
(* _probe_json_offsets *)

\* Where line n begins; the last one is the end of the file.
LineStart[n \in 1 .. Len(json) + 1] ==
  IF n = 1 THEN 0 ELSE LineStart[n - 1] + json[n - 1].bytes

EndOfFile == LineStart[Len(json) + 1]
Offset(percent) == (EndOfFile * percent) \div 100

AfterReadline(position) ==
  Min({LineStart[n] : n \in {m \in DOMAIN LineStart : LineStart[m] > position}})

\* Slip: what follows the offset is taken for a line.
SeekOnly(offset) == offset

\* seek(offset), and a readline() that drops the rest of the line it falls into.
SeekLine(offset) == IF offset = 0 THEN 0 ELSE AfterReadline(offset)

\* What readline() returns at a position: a line, or a fragment of one.
Fragment == "broken"
ShapeAt(position) ==
  IF \E n \in 1 .. Len(json) : LineStart[n] = position
  THEN json[CHOOSE n \in 1 .. Len(json) : LineStart[n] = position].shape ELSE Fragment

ProbeJsonOffsets ==
  /\ phase = "probe" /\ at <= Len(Fractions)
  /\ LET position == SeekLine(Offset(Fractions[at])) IN
     IF position # EndOfFile /\ ShapeAt(position) = "broken" THEN Ends("raised")
     ELSE /\ at' = at + 1
          /\ probes' = [made |-> probes.made + One(position # EndOfFile),
                        drifted |-> probes.drifted +
                          One(position # EndOfFile /\ ShapeAt(position) = "drifted")]
          /\ UNCHANGED <<pdlFiles, phase, seen_ids, tally, firsts>>

ProbesEnd == phase = "probe" /\ at > Len(Fractions) /\ Ends("returned")

PdlStep ==
  \/ ReaderFails("compare", csv) \/ Broken("compare", csv) \/ CompareFiles \/ CompareEnds
  \/ DefaultParserIssues \/ DefaultFails \/ DefaultEnds
  \/ ProbeJsonOffsets \/ ProbesEnd

-----------------------------------------------------------------------------
(* Properties *)

\* Every variable has its type.
PdlTypeOK ==
  /\ json \in Seq(JsonLine) /\ csv \in Seq(CsvRow) /\ defaults \in Seq(CsvRow)
  /\ phase \in {"idle", "compare", "default", "probe", "returned", "raised", "escaped"}
  /\ at \in 1 .. Window + Len(Fractions) + 1
  /\ seen_ids \subseteq Nat
  /\ tally \in [{"compared", "mismatches", "duplicates", "malformed", "fields"} -> 0 .. Window]
  /\ firsts \in [{"malformed", "mismatch"} -> 0 .. Window]
  /\ probes \in [{"made", "drifted"} -> 0 .. Len(Fractions)]

\* The positions two files have in common, and those of the rows that are read for them.
Common(rows) == 1 .. Min({Window, Len(rows), Len(json)})
RowsRead(rows) == 1 .. Min({Window, Len(rows), Len(json) + 1})
Least(positions) == IF positions = {} THEN 0 ELSE Min(positions)

WideRows(rows) == {k \in Common(rows) : rows[k].width = "wide"}
OtherIds(rows) == {k \in Common(rows) : ~SameId(rows, k)}

ComparisonReference ==
  [compared |-> Cardinality(Common(csv)),
   mismatches |-> Cardinality(OtherIds(csv)),
   duplicates |-> Cardinality(Common(csv)) - Cardinality({json[k].id : k \in Common(csv)}),
   malformed |-> Cardinality(WideRows(csv)),
   fields |-> Cardinality({k \in Common(csv) : SameId(csv, k) /\ csv[k].value # json[k].value})]

\* The line after the one that has the byte at the offset; the first one for the beginning.
ProbedLine(percent) ==
  IF Offset(percent) = 0 THEN 1
  ELSE 1 + Max({n \in 1 .. Len(json) : LineStart[n] <= Offset(percent)})

ProbedLines(shapes) ==
  {k \in 1 .. Len(Fractions) : /\ ProbedLine(Fractions[k]) <= Len(json)
                               /\ json[ProbedLine(Fractions[k])].shape \in shapes}

\* A line or row that cannot be read, among those a loop gets to.
Defective(rows) ==
  \/ \E k \in RowsRead(rows) : rows[k].width = "oversized"
  \/ \E k \in Common(rows) : json[k].shape = "broken"

StopsEarly ==
  WideRows(defaults) # {} /\ OtherIds(defaults) # {}

\* The inspection of two files that can be read reports what a reader of the whole files
\* would count in their common window, the first defects of the default dialect, and whole
\* lines at the offsets; it fails only for a row or line that is defective.
InspectionMatchesReference ==
  /\ phase = "returned" =>
       /\ tally = ComparisonReference
       /\ firsts = [malformed |-> Least(WideRows(defaults)), mismatch |-> Least(OtherIds(defaults))]
       /\ probes = [made |-> Cardinality(ProbedLines(Shapes)),
                    drifted |-> Cardinality(ProbedLines({"drifted"}))]
       /\ ~Defective(csv) /\ (Defective(defaults) => StopsEarly)
  /\ phase \in {"raised", "escaped"} =>
       \/ Common(csv) = {} \/ Defective(csv) \/ Defective(defaults)
       \/ \E k \in Common(csv) : SameId(csv, k) /\ csv[k].value = Unreadable
       \/ ProbedLines({"broken"}) # {}
=============================================================================
