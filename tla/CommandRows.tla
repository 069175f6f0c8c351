---------------------------- MODULE CommandRows ----------------------------
(***************************************************************************)
(* The data of the voice-command pipeline: what a parsed transcription     *)
(* asks for, the rows of commander_tasks and commander_notes, and what one *)
(* UPDATE statement writes to a row.                                       *)
(*                                                                         *)
(* A session loads a row, assigns attributes, and at commit the ORM emits  *)
(* an UPDATE that names only the columns whose value differs from the      *)
(* loaded one (updated_at always differs).  An Edit keeps both ends of     *)
(* that difference.                                                        *)
(***************************************************************************)
EXTENDS Naturals, Sequences

CONSTANTS
    Msg,          \* identifiers of voice_messages rows
    Status,       \* values the free-text status column takes
    Transcripts,  \* what the transcriber may deliver
    None          \* SQL NULL, and "nothing yet"

ASSUME StatusAssumption == {"open", "closed"} \subseteq Status

Table == {"task", "note"}

ParseStatus == {"success", "no_commands", "error"}

ASSUME NoneAssumption == None \notin Msg \cup Status \cup ParseStatus

\* A command that reads, updates or deletes the row numbered target; status
\* is the value an update's status dimension carries, None without one.
Command == [op     : {"read", "update", "delete"},
            table  : Table,
            target : Nat,
            status : Status \cup {None}]

\* blank: a NULL or empty transcription.  sound: every value of the created
\* rows fits its column, so that the flush accepts them.
Transcript == [blank : BOOLEAN, sound : BOOLEAN, tasks : Nat, notes : Nat,
               commands : Seq(Command)]

Found(t) == t.tasks + t.notes + Len(t.commands)

ASSUME TranscriptsAssumption ==
    /\ Transcripts \subseteq Transcript
    /\ None \notin Transcripts
    /\ \A t \in Transcripts : t.blank => Found(t) = 0

Outcome(t) == IF Found(t) > 0 THEN "success" ELSE "no_commands"

DeleteSteps(t) == {k \in DOMAIN t.commands : t.commands[k].op = "delete"}

-----------------------------------------------------------------------------

\* closed: closed_at is set.  A deleted row stays in the sequence, not live;
\* dropper then is the message whose command deleted it, None for a caller
\* of the REST interface.
Row == [table : Table, vm : Msg, status : Status, closed : BOOLEAN,
        live : BOOLEAN, dropper : Msg \cup {None}]

NewRow(m, tbl) == [table |-> tbl, vm |-> m, status |-> "open",
                   closed |-> FALSE, live |-> TRUE, dropper |-> None]

\* The rows message m inserts, in the order created_at gives them.
Births(m, t) == [i \in 1..(t.tasks + t.notes) |->
                    NewRow(m, IF i <= t.tasks THEN "task" ELSE "note")]

\* from, wasClosed: the loaded status and closed_at.  to, stamp: the values
\* the attributes hold now; stamp "kept" is the loaded closed_at.
Edit == [from : Status, wasClosed : BOOLEAN, to : Status,
         stamp : {"kept", "now", "null"}]

Load(row) == [from |-> row.status, wasClosed |-> row.closed,
              to |-> row.status, stamp |-> "kept"]

\* Mutant: reopening a task leaves closed_at as it is.
StampNeverCleared(old, new, stamp) ==
    IF old # "closed" /\ new = "closed" THEN "now" ELSE stamp

StampFor(old, new, stamp) ==
    IF (old = "closed") <=> (new = "closed") THEN stamp
    ELSE IF new = "closed" THEN "now" ELSE "null"

\* task.status = s, with the closed_at rule that goes with it.
Assign(e, s) == [e EXCEPT !.to = s, !.stamp = StampFor(e.to, s, e.stamp)]

\* Mutant: a missing status is assigned like any other.
AssignAlways(e, s) == Assign(e, s)

\* An update's status dimension, when it has one.
AssignIfGiven(e, s) == IF s = None THEN e ELSE Assign(e, s)

\* The UPDATE statement: only the columns that differ from the loaded row.
Write(row, e) ==
    [row EXCEPT
        !.status = IF e.to # e.from THEN e.to ELSE @,
        !.closed = \/ e.stamp = "now"
                   \/ @ /\ ~(e.stamp = "null" /\ e.wasClosed)]

\* The DELETE statement of message m; a row already gone stays as it is.
Drop(row, m) ==
    IF row.live THEN [row EXCEPT !.live = FALSE, !.dropper = m] ELSE row
=============================================================================
