----------------------------- MODULE MCMigrate -----------------------------
(* The sessions of the Migrate runs, interchangeable in the safety run. *)
EXTENDS Migrate, TLC
CONSTANTS s1, s2
MCSessions == {s1, s2}
MCSymmetry == Permutations(MCSessions)
=============================================================================
