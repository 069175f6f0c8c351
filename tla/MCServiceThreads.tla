------------------------- MODULE MCServiceThreads -------------------------
(***************************************************************************)
(* Small instances of ServiceThreads: uploads, def handlers, and work that *)
(* needs a thread only.                                                    *)
(***************************************************************************)
EXTENDS ServiceThreads

CONSTANTS r1, r2, r3, poll

Mixed == [r \in {r1, r2, r3} |-> CASE r = r1 -> {"extract", "submit"}
                                   [] r = r2 -> {"handler"}
                                   [] r = r3 -> {"plain", "handler"}]
=============================================================================
