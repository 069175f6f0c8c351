-------------------------- MODULE CommandPipeline --------------------------
(***************************************************************************)
(* The voice-command pipeline of app/poller.py with everything that runs   *)
(* beside it: any number of polling passes (the background loop of         *)
(* app/main.py and POST /process, each with a session of its own), the     *)
(* PATCH and DELETE handlers of app/routes.py, and the transcriber.        *)
(*                                                                         *)
(* Sessions do not autoflush (app/database.py), so whatever a pass adds,   *)
(* edits or deletes stays in the session until the commit of a message;    *)
(* the flush and the commit are one step here.  The database is PostgreSQL *)
(* at READ COMMITTED: each query sees what is committed when it runs.      *)
(***************************************************************************)
EXTENDS CommandRows, FiniteSets

CONSTANTS
    Poller,       \* polling passes that may run at the same time
    Loop,         \* the one of them that the background task repeats
    Client,       \* REST requests that may be in progress at the same time
    MaxFaults,    \* how often the database fails a session, per message
    MaxRestarts   \* how often the service crashes and restarts

ASSUME PollerAssumption == Loop \in Poller

ASSUME BoundsAssumption == MaxFaults \in Nat /\ MaxRestarts \in Nat

VARIABLES
    voice,        \* voice_messages: the transcription, None until completed
    processed,    \* commander_processed: parse_status, None without a record
    rows,         \* commander_tasks and commander_notes, oldest row first
    session,      \* the passes, each with its uncommitted work
    request,      \* the REST requests between their query and their commit
    faults,       \* database failures so far, by the message they hit
    restarts      \* crashes so far

vars == <<voice, processed, rows, session, request, faults, restarts>>

-----------------------------------------------------------------------------

\* todo: fetched and not yet taken.  blanks: records of blank messages added
\* and not committed.  step: the next command of message cur to execute.
\* edits, drops: the loaded rows D the session has changed, and has deleted.
Session(D) == [at     : {"idle", "next", "message", "recover"},
               todo   : SUBSET Msg,
               cur    : Msg \cup {None},
               step   : Nat,
               blanks : SUBSET Msg,
               edits  : [D -> Edit],
               drops  : SUBSET DOMAIN rows]

Request == [kind : {"none", "patch", "delete"}, id : Nat, edit : Edit]

\* A session that holds nothing uncommitted.
Clean(at, todo, cur) == [at |-> at, todo |-> todo, cur |-> cur, step |-> 0,
                         blanks |-> {}, edits |-> <<>>, drops |-> {}]

IdleSession == Clean("idle", {}, None)

NoRequest == [kind |-> "none", id |-> 0,
              edit |-> [from |-> "open", wasClosed |-> FALSE, to |-> "open",
                        stamp |-> "kept"]]

\* The tables hold what their columns allow, and a pass edits rows that exist:
\* whatever numbering its queries used (CommanderTask, CommanderNote).
TypeOK ==
    /\ voice \in [Msg -> Transcripts \cup {None}]
    /\ processed \in [Msg -> ParseStatus \cup {None}]
    /\ rows \in Seq(Row)
    /\ DOMAIN session = Poller
    /\ \A p \in Poller :
          /\ session[p] \in Session(DOMAIN session[p].edits)
          /\ DOMAIN session[p].edits \subseteq DOMAIN rows
    /\ request \in [Client -> Request]
    /\ faults \in [Msg -> Nat]
    /\ restarts \in Nat

Init ==
    /\ voice = [m \in Msg |-> None]
    /\ processed = [m \in Msg |-> None]
    /\ rows = <<>>
    /\ session = [p \in Poller |-> IdleSession]
    /\ request = [c \in Client |-> NoRequest]
    /\ faults = [m \in Msg |-> 0]
    /\ restarts = 0

-----------------------------------------------------------------------------
\* The transcriber.

Complete(m) ==
    /\ voice[m] = None
    /\ \E t \in Transcripts : voice' = [voice EXCEPT ![m] = t]
    /\ UNCHANGED <<processed, rows, session, request, faults, restarts>>

-----------------------------------------------------------------------------
\* A polling pass.

\* The rows of a table and the number a spoken command knows them by.
Live(tbl) == {i \in DOMAIN rows : rows[i].live /\ rows[i].table = tbl}

Numbered(tbl, n) ==
    {i \in Live(tbl) : Cardinality({j \in Live(tbl) : j <= i}) = n}

Fetch(p) ==
    /\ session[p].at = "idle"
    /\ session' = [session EXCEPT
          ![p].at = "next",
          ![p].todo = {m \in Msg : voice[m] # None /\ processed[m] = None}]
    /\ UNCHANGED <<voice, processed, rows, request, faults, restarts>>

\* A blank transcription: its record is added, the commit is left to others.
TakeBlank(p, m) ==
    /\ session[p].at = "next" /\ m \in session[p].todo
    /\ voice[m].blank
    /\ session' = [session EXCEPT ![p].todo = @ \ {m},
                                  ![p].blanks = @ \cup {m}]
    /\ UNCHANGED <<voice, processed, rows, request, faults, restarts>>

TakeMessage(p, m) ==
    /\ session[p].at = "next" /\ m \in session[p].todo
    /\ ~voice[m].blank
    /\ session' = [session EXCEPT ![p].at = "message",
                                  ![p].todo = @ \ {m},
                                  ![p].cur = m,
                                  ![p].step = 1]
    /\ UNCHANGED <<voice, processed, rows, request, faults, restarts>>

Executing(p) ==
    /\ session[p].at = "message"
    /\ session[p].step \in DOMAIN voice[session[p].cur].commands

CurrentCommand(p) == voice[session[p].cur].commands[session[p].step]

\* The row the current command is about, as a set of at most one.
Target(p) == Numbered(CurrentCommand(p).table, CurrentCommand(p).target)

\* A read, or a number out of range.
SkipCommand(p) ==
    /\ Executing(p)
    /\ CurrentCommand(p).op = "read" \/ Target(p) = {}
    /\ session' = [session EXCEPT ![p].step = @ + 1]
    /\ UNCHANGED <<voice, processed, rows, request, faults, restarts>>

\* The identity map hands back an object already edited by this message;
\* assignments to an object it has marked deleted are never flushed.
EditAfter(p, i) ==
    LET cached == IF i \in DOMAIN session[p].edits
                  THEN session[p].edits[i] ELSE Load(rows[i])
    IN  AssignIfGiven(cached, IF rows[i].table = "task"
                              THEN CurrentCommand(p).status ELSE None)

UpdateTarget(p) ==
    /\ Executing(p)
    /\ CurrentCommand(p).op = "update"
    /\ \E i \in Target(p) :
          session' = [session EXCEPT
             ![p].step = @ + 1,
             ![p].edits = IF i \in session[p].drops THEN @
                          ELSE [j \in DOMAIN @ \cup {i} |->
                                   IF j = i THEN EditAfter(p, i) ELSE @[j]]]
    /\ UNCHANGED <<voice, processed, rows, request, faults, restarts>>

DeleteTarget(p) ==
    /\ Executing(p)
    /\ CurrentCommand(p).op = "delete"
    /\ \E i \in Target(p) :
          session' = [session EXCEPT
             ![p].step = @ + 1,
             ![p].drops = @ \cup {i},
             ![p].edits = [j \in DOMAIN @ \ {i} |-> @[j]]]
    /\ UNCHANGED <<voice, processed, rows, request, faults, restarts>>

\* All commands executed: db.commit() is next.
AtCommit(p) ==
    /\ session[p].at = "message"
    /\ session[p].step \notin DOMAIN voice[session[p].cur].commands

\* The unique constraint on voice_message_id, for every pending record.
Unrecorded(ms) == \A m \in ms : processed[m] = None

\* An UPDATE that matches no row is a StaleDataError; a DELETE only warns.
NoneStale(p) == \A i \in DOMAIN session[p].edits : rows[i].live

\* Mutant: no unique constraint on voice_message_id.
CommittableTwice(p) == voice[session[p].cur].sound /\ NoneStale(p)

Committable(p) ==
    /\ voice[session[p].cur].sound
    /\ Unrecorded(session[p].blanks \cup {session[p].cur})
    /\ NoneStale(p)

\* The rows once the session's UPDATE and DELETE statements have run.
Flushed(p) ==
    [i \in DOMAIN rows |->
        IF i \in session[p].drops THEN Drop(rows[i], session[p].cur)
        ELSE IF i \in DOMAIN session[p].edits
             THEN Write(rows[i], session[p].edits[i])
        ELSE rows[i]]

\* The session after a commit or a rollback that ends the message.
NextMessage(p) ==
    [session EXCEPT ![p] = Clean("next", @.todo, None)]

CommitMessage(p) ==
    LET m == session[p].cur IN
    /\ AtCommit(p) /\ Committable(p)
    /\ processed' = [r \in Msg |->
                        IF r = m THEN Outcome(voice[m])
                        ELSE IF r \in session[p].blanks THEN "no_commands"
                        ELSE processed[r]]
    /\ rows' = Flushed(p) \o Births(m, voice[m])
    /\ session' = NextMessage(p)
    /\ UNCHANGED <<voice, request, faults, restarts>>

\* db.rollback() expunges everything the session held, the records of the
\* blank messages included.
RolledBack(p) ==
    [session EXCEPT ![p] = Clean("recover", @.todo, @.cur)]

CommitRefused(p) ==
    /\ AtCommit(p) /\ ~Committable(p)
    /\ session' = RolledBack(p)
    /\ UNCHANGED <<voice, processed, rows, request, faults, restarts>>

\* A query or the commit of a message fails for the database's own reasons.
MessageFault(p) ==
    LET m == session[p].cur IN
    /\ session[p].at = "message"
    /\ faults[m] < MaxFaults
    /\ faults' = [faults EXCEPT ![m] = @ + 1]
    /\ session' = RolledBack(p)
    /\ UNCHANGED <<voice, processed, rows, request, restarts>>

\* Mutant: the record of the failure replaces one that is there.
RecordErrorOver(p) ==
    /\ session[p].at = "recover"
    /\ processed' = [processed EXCEPT ![session[p].cur] = "error"]
    /\ session' = NextMessage(p)
    /\ UNCHANGED <<voice, rows, request, faults, restarts>>

\* Mutant: a failed message is only rolled back.
RecordNothing(p) ==
    /\ session[p].at = "recover"
    /\ session' = NextMessage(p)
    /\ UNCHANGED <<voice, processed, rows, request, faults, restarts>>

RecordError(p) ==
    LET m == session[p].cur IN
    /\ session[p].at = "recover"
    /\ Unrecorded({m})
    /\ processed' = [processed EXCEPT ![m] = "error"]
    /\ session' = NextMessage(p)
    /\ UNCHANGED <<voice, rows, request, faults, restarts>>

\* The record of the failure is itself refused: another pass was first.
RecordErrorRefused(p) ==
    /\ session[p].at = "recover"
    /\ ~Unrecorded({session[p].cur})
    /\ session' = NextMessage(p)
    /\ UNCHANGED <<voice, processed, rows, request, faults, restarts>>

RecordErrorFault(p) ==
    LET m == session[p].cur IN
    /\ session[p].at = "recover"
    /\ faults[m] < MaxFaults
    /\ faults' = [faults EXCEPT ![m] = @ + 1]
    /\ session' = NextMessage(p)
    /\ UNCHANGED <<voice, processed, rows, request, restarts>>

\* The pass returns and its session is closed, uncommitted records with it.
FinishPass(p) ==
    /\ session[p].at = "next" /\ session[p].todo = {}
    /\ session' = [session EXCEPT ![p] = IdleSession]
    /\ UNCHANGED <<voice, processed, rows, request, faults, restarts>>

-----------------------------------------------------------------------------
\* The REST handlers: a query, then a commit.

\* body.status is None when the field is not sent.
LoadTaskForUpdate(c, i, status) ==
    /\ request[c].kind = "none"
    /\ i \in Live("task")
    /\ request' = [request EXCEPT
          ![c] = [kind |-> "patch", id |-> i,
                  edit |-> AssignIfGiven(Load(rows[i]), status)]]
    /\ UNCHANGED <<voice, processed, rows, session, faults, restarts>>

LoadNoteForUpdate(c, i) ==
    /\ request[c].kind = "none"
    /\ i \in Live("note")
    /\ request' = [request EXCEPT
          ![c] = [kind |-> "patch", id |-> i, edit |-> Load(rows[i])]]
    /\ UNCHANGED <<voice, processed, rows, session, faults, restarts>>

\* The UPDATE finds its row or is a StaleDataError, answered with a 500.
CommitUpdate(c) ==
    LET i == request[c].id IN
    /\ request[c].kind = "patch"
    /\ rows' = IF rows[i].live
               THEN [rows EXCEPT ![i] = Write(@, request[c].edit)]
               ELSE rows
    /\ request' = [request EXCEPT ![c] = NoRequest]
    /\ UNCHANGED <<voice, processed, session, faults, restarts>>

LoadForDelete(c, i) ==
    /\ request[c].kind = "none"
    /\ i \in DOMAIN rows /\ rows[i].live
    /\ request' = [request EXCEPT
          ![c] = [kind |-> "delete", id |-> i, edit |-> NoRequest.edit]]
    /\ UNCHANGED <<voice, processed, rows, session, faults, restarts>>

CommitDelete(c) ==
    LET i == request[c].id IN
    /\ request[c].kind = "delete"
    /\ rows' = [rows EXCEPT ![i].live = FALSE]
    /\ request' = [request EXCEPT ![c] = NoRequest]
    /\ UNCHANGED <<voice, processed, session, faults, restarts>>

-----------------------------------------------------------------------------

\* The process dies and comes back: what was not committed is gone.
Restart ==
    /\ restarts < MaxRestarts
    /\ restarts' = restarts + 1
    /\ session' = [p \in Poller |-> IdleSession]
    /\ request' = [c \in Client |-> NoRequest]
    /\ UNCHANGED <<voice, processed, rows, faults>>

\* The steps a pass takes by itself.
Poll(p) ==
    \/ Fetch(p)
    \/ \E m \in Msg : TakeBlank(p, m) \/ TakeMessage(p, m)
    \/ SkipCommand(p) \/ UpdateTarget(p) \/ DeleteTarget(p)
    \/ CommitMessage(p) \/ CommitRefused(p)
    \/ RecordError(p) \/ RecordErrorRefused(p)
    \/ FinishPass(p)

Serve(c) ==
    \/ \E i \in DOMAIN rows, s \in Status \cup {None} :
          LoadTaskForUpdate(c, i, s)
    \/ \E i \in DOMAIN rows : LoadNoteForUpdate(c, i) \/ LoadForDelete(c, i)
    \/ CommitUpdate(c) \/ CommitDelete(c)

Next ==
    \/ \E m \in Msg : Complete(m)
    \/ \E p \in Poller : Poll(p) \/ MessageFault(p) \/ RecordErrorFault(p)
    \/ \E c \in Client : Serve(c)
    \/ Restart

\* The background task polls for ever; nobody has to call POST /process.
Fairness == WF_vars(Poll(Loop))

Spec == Init /\ [][Next]_vars

FairSpec == Spec /\ Fairness

-----------------------------------------------------------------------------

\* Every message settles at most once, whatever number of passes fetched it
\* and wherever the service crashed, and all it creates and deletes lands in
\* the step that records it (the commit of poll_transcriptions).
Ledger == INSTANCE CommandLedger WITH
    ledger <- [i \in DOMAIN rows |->
                  [table |-> rows[i].table, vm |-> rows[i].vm,
                   live |-> rows[i].live, dropper |-> rows[i].dropper]]

ExactlyOnce == Ledger!Spec

\* A message is given up ("error", never retried) only for a reason of its
\* own: its values do not fit, a row it updates has gone, or the database
\* failed while it was being processed.  A race with another pass over the
\* same message, or a crash, is no such reason.
LossHasCause ==
    \A m \in Msg : processed[m] = "error" =>
        \/ ~voice[m].sound
        \/ \E k \in DOMAIN voice[m].commands :
              voice[m].commands[k].op = "update"
        \/ faults[m] > 0

\* closed_at is set on a closed task, and only there.
StampFits(row) == row.closed <=> row.status = "closed"

\* The row is no longer the one the edit was loaded from.
Overtaken(row, e) == row.status # e.from \/ row.closed # e.wasClosed

\* The edit closes the task, or reopens it.
Crosses(e) == ~(e.from = "closed" <=> e.to = "closed")

\* An edit after which closed_at may contradict the status.
Spoils(row, e) ==
    /\ StampFits(row) => Overtaken(row, e)
    /\ Crosses(e) => /\ Overtaken(row, e)
                     /\ ~(e.wasClosed <=> e.from = "closed")

\* Whatever strings PATCH requests and spoken commands write to the status and
\* however they interleave (update_task, _execute_task_command), closed_at and
\* status of a task part only in the commit of an edit that another commit has
\* overtaken, and whoever closes or reopens a task makes them fit again, unless
\* he had loaded a task on which they contradicted each other already.  They do
\* part: one who moves a task between two statuses other than "closed" leaves
\* closed_at alone, even if it was closed since it was loaded.
StampFollowsStatus ==
    [][\A i \in DOMAIN rows' :
          rows'[i].live /\ ~StampFits(rows'[i]) =>
             /\ i \in DOMAIN rows
             /\ \/ rows'[i] = rows[i]
                \/ \E p \in Poller : /\ CommitMessage(p)
                                     /\ i \in DOMAIN session[p].edits
                                     /\ Spoils(rows[i], session[p].edits[i])
                \/ \E c \in Client : /\ CommitUpdate(c)
                                     /\ request[c].id = i
                                     /\ Spoils(rows[i], request[c].edit)]_vars

\* Every completed message that says something is recorded in the end, success
\* or not, as long as the background task keeps polling (poll_transcriptions
\* and its except branches).
EveryMessageRecorded ==
    \A m \in Msg :
        voice[m] # None /\ ~voice[m].blank ~> processed[m] # None
=============================================================================
