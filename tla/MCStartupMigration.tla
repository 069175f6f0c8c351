------------------------- MODULE MCStartupMigration -------------------------
(***************************************************************************)
(* Small instances of StartupMigration.                                    *)
(***************************************************************************)
EXTENDS StartupMigration, TLC

Symmetry == Permutations(User)
=============================================================================
