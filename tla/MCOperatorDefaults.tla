------------------------ MODULE MCOperatorDefaults ------------------------
(***************************************************************************)
(* Small instances of OperatorDefaults: a short and a long identity.       *)
(***************************************************************************)
EXTENDS OperatorDefaults, TLC

CONSTANTS brief, full

Identities == {brief, full}

Sizes == [v \in Identities |-> IF v = brief THEN 1 ELSE 2]

Symmetry == Permutations(User) \cup Permutations(Client)
=============================================================================
