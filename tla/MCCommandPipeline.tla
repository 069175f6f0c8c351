------------------------- MODULE MCCommandPipeline -------------------------
(***************************************************************************)
(* Small instances of CommandPipeline: what people dictate in each run.    *)
(***************************************************************************)
EXTENDS CommandPipeline, TLC

Says(tasks, notes, commands) ==
    [blank |-> FALSE, sound |-> TRUE, tasks |-> tasks, notes |-> notes,
     commands |-> commands]

SetTask(n, s) == [op |-> "update", table |-> "task", target |-> n,
                  status |-> s]
DropTask(n) == [op |-> "delete", table |-> "task", target |-> n,
                status |-> None]
ReadNote(n) == [op |-> "read", table |-> "note", target |-> n,
                status |-> None]
EditNote(n) == [op |-> "update", table |-> "note", target |-> n,
                status |-> None]
DropNote(n) == [op |-> "delete", table |-> "note", target |-> n,
                status |-> None]

Blank == [Says(0, 0, <<>>) EXCEPT !.blank = TRUE]
Overlong == [Says(1, 0, <<>>) EXCEPT !.sound = FALSE]

TwoStatuses == {"open", "closed"}

\* The column is free text: any third string behaves like "waiting".
ThreeStatuses == {"open", "closed", "waiting"}

\* Exactly-once, losses and statuses: creates and deletes of both tables,
\* numbers out of range, tasks closed and reopened, and titles that do not fit.
LedgerTranscripts ==
    { Says(1, 1, <<>>),
      Says(1, 0, <<DropTask(1), DropTask(2)>>),
      Says(0, 0, <<SetTask(1, "closed")>>),
      Says(0, 0, <<SetTask(1, "open"), DropNote(1), ReadNote(1)>>),
      Says(0, 0, <<EditNote(1), DropNote(1)>>),
      Overlong }

\* Nothing said, something to do, and something that may fail.
SpokenTranscripts ==
    { Blank, Says(1, 0, <<SetTask(1, "closed")>>), Overlong }

BlankTranscripts == { Blank, Says(1, 0, <<>>) }

Symmetry == Permutations(Msg)
=============================================================================
