------------------------ MODULE ProcessedValuations ------------------------
(***************************************************************************)
(* The saved valuations (app/valuation_statement/processed.py): POST,      *)
(* PATCH and DELETE, each a session of its own with a query and a commit,  *)
(* any number of them at the same time.                                    *)
(*                                                                         *)
(* The commit of a PATCH emits an UPDATE of the columns whose value        *)
(* differs from the loaded row, at READ COMMITTED.                         *)
(***************************************************************************)
EXTENDS Naturals, Sequences

CONSTANTS
    User,     \* callers, as the proxy names them
    Value,    \* what extracted_values and final_values may be
    Client,   \* requests that may be in progress at the same time
    None,     \* a field the PATCH does not send, a column it does not write
    MaxRows   \* how many valuations are ever created

ASSUME NoneAssumption == None \notin User \cup Value

ASSUME MaxRowsAssumption == MaxRows \in Nat

VARIABLES
    rows,      \* processed_valuations, oldest first; a deleted row is not live
    request,   \* the requests between their query and their commit
    raced      \* history: rows written to while another PATCH had them loaded

vars == <<rows, request, raced>>

Row == [owner : User, extracted : Value, final : Value, edited : BOOLEAN,
        live : BOOLEAN]

\* The columns the UPDATE of a PATCH names: new values, or None.
Request == [kind : {"none", "patch", "delete"}, user : User \cup {None},
            id : Nat, extracted : Value \cup {None}, final : Value \cup {None},
            edited : {"kept", "yes", "no"}]

NoRequest == [kind |-> "none", user |-> None, id |-> 0, extracted |-> None,
              final |-> None, edited |-> "kept"]

\* Rows hold values for every field, whatever a PATCH leaves out
\* (ProcessedValuation).
TypeOK ==
    /\ rows \in Seq(Row)
    /\ request \in [Client -> Request]
    /\ raced \in SUBSET DOMAIN rows

Init ==
    /\ rows = <<>>
    /\ request = [c \in Client |-> NoRequest]
    /\ raced = {}

-----------------------------------------------------------------------------

CreateValuation(u, extracted, final) ==
    /\ Len(rows) < MaxRows
    /\ rows' = Append(rows, [owner |-> u, extracted |-> extracted,
                             final |-> final, edited |-> final # extracted,
                             live |-> TRUE])
    /\ UNCHANGED <<request, raced>>

\* Mutant: the row is looked up by its id only.
Anyones(u) == {i \in DOMAIN rows : rows[i].live}

Owned(u) == {i \in DOMAIN rows : rows[i].live /\ rows[i].owner = u}

\* Mutant: fields the PATCH does not send are cleared.
Sent(new, old) == new

Given(new, old) == IF new = None THEN old ELSE new

\* What the UPDATE says about a column that was old and is to be new.
Changed(new, old) == IF Given(new, old) = old THEN None ELSE new

\* Mutant: the flag follows final_values only.
FlagOfFinal(row, extracted, final) ==
    IF final = None THEN "kept"
    ELSE IF (final # row.extracted) = row.edited THEN "kept"
    ELSE IF row.edited THEN "no" ELSE "yes"

\* row.was_manually_edited = row.final_values != row.extracted_values.
FlagAfter(row, extracted, final) ==
    LET edited == Given(final, row.final) # Given(extracted, row.extracted) IN
    IF edited = row.edited THEN "kept" ELSE IF edited THEN "yes" ELSE "no"

LoadForUpdate(c, u, i, extracted, final) ==
    /\ request[c].kind = "none"
    /\ i \in Owned(u)
    /\ request' = [request EXCEPT
          ![c] = [kind |-> "patch", user |-> u, id |-> i,
                  extracted |-> Changed(extracted, rows[i].extracted),
                  final |-> Changed(final, rows[i].final),
                  edited |-> FlagAfter(rows[i], extracted, final)]]
    /\ UNCHANGED <<rows, raced>>

\* The UPDATE of the named columns; it finds its row or the request fails.
Write(row, r) ==
    [row EXCEPT !.extracted = Given(r.extracted, @),
                !.final = Given(r.final, @),
                !.edited = IF r.edited = "kept" THEN @ ELSE r.edited = "yes"]

CommitUpdate(c) ==
    LET i == request[c].id IN
    /\ request[c].kind = "patch"
    /\ rows' = IF rows[i].live
               THEN [rows EXCEPT ![i] = Write(@, request[c])] ELSE rows
    /\ request' = [request EXCEPT ![c] = NoRequest]
    /\ raced' = IF \E d \in Client \ {c} : /\ request[d].kind = "patch"
                                           /\ request[d].id = i
                THEN raced \cup {i} ELSE raced

LoadForDelete(c, u, i) ==
    /\ request[c].kind = "none"
    /\ i \in Owned(u)
    /\ request' = [request EXCEPT
          ![c] = [NoRequest EXCEPT !.kind = "delete", !.user = u, !.id = i]]
    /\ UNCHANGED <<rows, raced>>

CommitDelete(c) ==
    /\ request[c].kind = "delete"
    /\ rows' = [rows EXCEPT ![request[c].id].live = FALSE]
    /\ request' = [request EXCEPT ![c] = NoRequest]
    /\ UNCHANGED raced

\* The process dies, or the database refuses the commit.
Abandon(c) ==
    /\ request[c].kind # "none"
    /\ request' = [request EXCEPT ![c] = NoRequest]
    /\ UNCHANGED <<rows, raced>>

Next ==
    \/ \E u \in User, extracted, final \in Value :
          CreateValuation(u, extracted, final)
    \/ \E c \in Client :
          \/ \E u \in User, i \in DOMAIN rows :
                \/ \E extracted, final \in Value \cup {None} :
                      LoadForUpdate(c, u, i, extracted, final)
                \/ LoadForDelete(c, u, i)
          \/ CommitUpdate(c) \/ CommitDelete(c) \/ Abandon(c)

Spec == Init /\ [][Next]_vars

-----------------------------------------------------------------------------

\* A row changes, or goes away, only by a request of its owner, and its owner
\* never changes: callers cannot mutate each other's valuations.
OwnersOnly ==
    [][\A i \in DOMAIN rows : rows'[i] # rows[i] =>
          /\ rows'[i].owner = rows[i].owner
          /\ \E c \in Client : /\ request[c].user = rows[i].owner
                               /\ request[c].id = i
                               /\ request'[c] # request[c]]_vars

\* was_manually_edited says whether the values committed for the document
\* diverge from the extracted ones (ProcessedValuation).  Only two PATCHes that
\* overlap on a row can make it wrong: deletes, failures and requests on other
\* rows never do.
FlagTruthfulUnlessRaced ==
    \A i \in DOMAIN rows \ raced :
        rows[i].live => (rows[i].edited <=> rows[i].final # rows[i].extracted)
=============================================================================
