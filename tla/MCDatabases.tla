---------------------------- MODULE MCDatabases ----------------------------
(* Databases for TLC: the previews are alike.                                *)
EXTENDS Databases, TLC

Symmetry == Permutations(Previews)
=============================================================================
