----------------------------- MODULE MCPdlImport -----------------------------
(* Small instances of PdlImport for TLC. *)
EXTENDS PdlImportInv

CONSTANTS i1, i2, good, other, bad, gap, dup, stray

\* Four files are archived.  `bad` ends with a record the filter refuses, `gap` has one before
\* its last record, `dup` repeats an id; `stray` has the size of `good`.
MCContents == {good, bad, gap, dup, stray}
MCArchived == MCContents \ {stray}
MCRows == [c \in MCContents |-> IF c \in {bad, gap} THEN 1 ELSE 2]
MCSize == [c \in MCContents |-> IF c = gap THEN 3 ELSE 2]
MCWanted == [i \in Imports |-> IF i = i2 THEN good ELSE AnySnapshot]

\* An archive without the defective files, for runs about what happens after the import
\* has begun.
FewContents == {good, other, dup}
FewRows == [c \in FewContents |-> IF c = other THEN 1 ELSE 2]
NoWanted == [i \in Imports |-> AnySnapshot]
=============================================================================
