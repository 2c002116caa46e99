---------------------------- MODULE MCMigrations ----------------------------
(* Small instances of Migrations for TLC. *)
EXTENDS Migrations

CONSTANTS r1, r2, r3, meta, pdl, later, changed

M(v, t) == [version |-> v, text |-> t]

\* Three versions of the package, two in which the first file was changed, and one with two
\* files of the same version.
MCBundles ==
  {<<M(1, meta)>>, <<M(1, meta), M(2, pdl)>>, <<M(1, meta), M(2, pdl), M(3, later)>>,
   <<M(1, changed)>>, <<M(1, changed), M(2, pdl)>>,
   <<M(1, meta), M(2, pdl), M(2, later)>>}
=============================================================================
