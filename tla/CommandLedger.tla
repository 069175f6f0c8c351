--------------------------- MODULE CommandLedger ---------------------------
(***************************************************************************)
(* What the voice-command pipeline promises, without sessions, races or    *)
(* crashes: every completed voice message is settled at most once, and all *)
(* it creates and deletes happens in the very step that records it.        *)
(*                                                                         *)
(* The ledger lists every row ever inserted, in created_at order, with the *)
(* message it came from and how it went away.  Field values of rows are    *)
(* not part of the promise.                                                *)
(***************************************************************************)
EXTENDS CommandRows, FiniteSets

VARIABLES voice, processed, ledger

ledgerVars == <<voice, processed, ledger>>

Entry(row) == [table |-> row.table, vm |-> row.vm, live |-> row.live,
               dropper |-> row.dropper]

Live == {i \in DOMAIN ledger : ledger[i].live}

Init ==
    /\ voice = [m \in Msg |-> None]
    /\ processed = [m \in Msg |-> None]
    /\ ledger = <<>>

\* The transcriber completes a message.
Complete(m) ==
    /\ voice[m] = None
    /\ \E t \in Transcripts : voice' = [voice EXCEPT ![m] = t]
    /\ UNCHANGED <<processed, ledger>>

Unsettled(m) == voice[m] # None /\ processed[m] = None

\* Message m takes effect, together with the records of some blank messages.
\* It deletes at most as many rows as it has delete commands.
Settle(m) ==
    /\ Unsettled(m) /\ ~voice[m].blank
    /\ \E B \in SUBSET {b \in Msg : Unsettled(b) /\ voice[b].blank} :
          processed' = [r \in Msg |-> IF r = m THEN Outcome(voice[m])
                                      ELSE IF r \in B THEN "no_commands"
                                      ELSE processed[r]]
    /\ \E D \in SUBSET Live :
          /\ Cardinality(D) <= Cardinality(DeleteSteps(voice[m]))
          /\ ledger' =
                [i \in DOMAIN ledger |->
                    IF i \in D
                    THEN [ledger[i] EXCEPT !.live = FALSE, !.dropper = m]
                    ELSE ledger[i]]
                \o [i \in DOMAIN Births(m, voice[m]) |->
                       Entry(Births(m, voice[m])[i])]
    /\ UNCHANGED voice

\* Message m is given up: it leaves no row and takes none.
Reject(m) ==
    /\ Unsettled(m) /\ ~voice[m].blank
    /\ processed' = [processed EXCEPT ![m] = "error"]
    /\ UNCHANGED <<voice, ledger>>

\* A REST caller deletes a row.
Remove(i) ==
    /\ i \in Live
    /\ ledger' = [ledger EXCEPT ![i].live = FALSE]
    /\ UNCHANGED <<voice, processed>>

Next ==
    \/ \E m \in Msg : Complete(m) \/ Settle(m) \/ Reject(m)
    \/ \E i \in DOMAIN ledger : Remove(i)

Spec == Init /\ [][Next]_ledgerVars
=============================================================================
