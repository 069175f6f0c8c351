------------------------------ MODULE RowLists ------------------------------
(***************************************************************************)
(* A caller who reads a list page by page as far as its total goes, while  *)
(* others write: GET /tasks and GET /notes with their filters              *)
(* (app/routes.py), and the caller's own valuations                        *)
(* (app/valuation_statement/processed.py), newest first.                   *)
(*                                                                         *)
(* Every page is a count and a query of its own, at READ COMMITTED. A row  *)
(* gets its created_at at the flush and is seen from its commit on.        *)
(***************************************************************************)
EXTENDS Naturals, Sequences, FiniteSets

CONSTANTS
    PageSize,   \* rows of a page
    MaxListed   \* how many rows are ever created

ASSUME ListBounds == PageSize \in Nat \ {0} /\ MaxListed \in Nat

VARIABLES
    listed,  \* of each row, in the order of created_at: is it on the list
    at,      \* what the reader does next: "count", "query" or nothing, "through"
    pageNo,  \* the page the reader is at
    total,   \* the total that was last counted
    shown,   \* the rows the reader was shown
    owed     \* history: the rows that the reading began with and must not miss

listVars == <<listed, at, pageNo, total, shown, owed>>

\* A row is "pending" (flushed, not committed), "on", or "off" (deleted, or not
\* what is asked for).
OnList == {i \in DOMAIN listed : listed[i] = "on"}

ListInit ==
    /\ \E n \in 0 .. MaxListed : listed \in [1 .. n -> {"on", "off"}]
    /\ at = "count"
    /\ pageNo = 1
    /\ total = 0
    /\ shown = {}
    /\ owed = OnList

-----------------------------------------------------------------------------
\* The writers.

FlushRow ==
    /\ Len(listed) < MaxListed
    /\ listed' = Append(listed, "pending")
    /\ UNCHANGED <<at, pageNo, total, shown, owed>>

\* A row is committed, or comes to match the filter.  Between a count and the
\* query of its page, it makes the total stale, and the last page is not asked for.
Enter(i) ==
    /\ listed[i] \in {"pending", "off"}
    /\ listed' = [listed EXCEPT ![i] = "on"]
    /\ owed' = IF at = "query" THEN {} ELSE owed
    /\ UNCHANGED <<at, pageNo, total, shown>>

\* Of the rows on the list, those that are newer than row i.
Newer(i) == {j \in OnList : j > i}

\* The rows of page n.  Mutant: pages are counted from 0.
PageFromZero(n) ==
    {i \in OnList : Cardinality(Newer(i)) \in n * PageSize .. (n + 1) * PageSize - 1}

\* The rows of page n.
PageRows(n) ==
    {i \in OnList : Cardinality(Newer(i)) \in (n - 1) * PageSize .. n * PageSize - 1}

\* A row is deleted, or no longer matches the filter.  If its page has been
\* read, all later rows move up, the first of them to a page that was read.
Leave(i) ==
    /\ listed[i] = "on"
    /\ listed' = [listed EXCEPT ![i] = "off"]
    /\ owed' = IF Cardinality(Newer(i)) < (pageNo - 1) * PageSize THEN {} ELSE owed \ {i}
    /\ UNCHANGED <<at, pageNo, total, shown>>

-----------------------------------------------------------------------------
\* The reader.

CountRows ==
    /\ at = "count"
    /\ total' = Cardinality(OnList)
    /\ at' = "query"
    /\ UNCHANGED <<listed, pageNo, shown, owed>>

QueryPage ==
    /\ at = "query"
    /\ shown' = shown \cup PageRows(pageNo)
    /\ IF pageNo * PageSize < total THEN at' = "count" /\ pageNo' = pageNo + 1
                                    ELSE at' = "through" /\ UNCHANGED pageNo
    /\ UNCHANGED <<listed, total, owed>>

ListNext ==
    \/ FlushRow
    \/ \E i \in DOMAIN listed : Enter(i) \/ Leave(i)
    \/ CountRows
    \/ QueryPage

ListSpec == ListInit /\ [][ListNext]_listVars

-----------------------------------------------------------------------------

\* Whoever reads a list to its end is shown every row that was on it from the
\* beginning to the end, however rows are created, committed late, edited and
\* deleted meanwhile.  Two races alone can hide one: a row of a page that was
\* read leaves the list, or a row enters it between a count and the query of
\* its page (list_tasks, list_notes, list_processed_valuations).
ListShowsAll == at = "through" => owed \subseteq shown
=============================================================================
