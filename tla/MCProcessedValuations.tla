----------------------- MODULE MCProcessedValuations -----------------------
(***************************************************************************)
(* Small instances of ProcessedValuations, and of RowLists for the lists   *)
(* of its rows and of those of the commands. They share no state; a        *)
(* behaviour is one of them at work.                                       *)
(***************************************************************************)
EXTENDS ProcessedValuations, RowLists, TLC

Symmetry == Permutations(User) \cup Permutations(Value)
                \cup Permutations(Client)

SessionsIdle == rows = <<>> /\ request = [c \in Client |-> NoRequest] /\ raced = {}

ListIdle ==
    /\ listed = <<>> /\ at = "through" /\ pageNo = 1 /\ total = 0
    /\ shown = {} /\ owed = {}

SavedInit ==
    \/ Init /\ ListIdle
    \/ SessionsIdle /\ ListInit

SavedNext ==
    \/ ListIdle /\ Next /\ UNCHANGED listVars
    \/ SessionsIdle /\ ListNext /\ UNCHANGED vars

savedVars == <<vars, listVars>>

SavedSpec == SavedInit /\ [][SavedNext]_savedVars
=============================================================================
