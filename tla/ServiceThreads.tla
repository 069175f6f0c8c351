--------------------------- MODULE ServiceThreads ---------------------------
(***************************************************************************)
(* What the requests and the polling loop of the service wait for: the one *)
(* event-loop thread, a thread of the pool (a token of its limiter), and a *)
(* connection of the engine (app/database.py, app/main.py, the handlers).  *)
(*                                                                         *)
(* A def handler, a synchronous dependency and a background task run on    *)
(* the pool; the coroutine that awaits them gives the token back when the  *)
(* loop resumes it. An async def handler and the polling pass run on the   *)
(* loop. A session takes a connection at its first query and gives it back *)
(* at a commit, a rollback or its close; whoever finds none waits, with    *)
(* its thread, until there is one or the pool's timeout is over.           *)
(***************************************************************************)
EXTENDS Naturals, FiniteSets

CONSTANTS
    Request,      \* requests that may be in progress at the same time
    Wants,        \* what each of them may be for
    Poll,         \* the background polling task
    None,         \* nobody
    Threads,      \* tokens of the thread pool's limiter
    Connections,  \* pool_size + max_overflow of the engine
    MaxParts      \* files of an upload, commits of a handler, messages of a pass

ASSUME TaskAssumption == /\ Poll \notin Request
                         /\ None \notin Request \cup {Poll}

\* plain: work without a query, that of /decide included.
Kinds == {"plain", "handler", "extract", "submit"}

ASSUME WantsAssumption == Wants \in [Request -> SUBSET Kinds]

ASSUME BoundsAssumption == /\ Threads \in Nat \ {0}
                           /\ Connections \in Nat \ {0}
                           /\ MaxParts \in Nat \ {0}

VARIABLES
    kind,   \* what the latest request of each client was for
    stage,  \* the part of its work each task is at; "out" between requests
    step,   \* what a task is doing there
    left,   \* parts of that work still to come
    loop,   \* the task that the event-loop thread executes, or None
    token,  \* the tasks that hold a thread of the pool
    conn    \* the tasks whose session holds a connection

vars == <<kind, stage, step, left, loop, token, conn>>

Task == Request \cup {Poll}

PoolStages == {"enter", "compute", "handle", "validate", "read", "mark", "work", "record",
               "finish", "fail"}

LoopStages == {"extract", "persist", "defaults", "save", "reload", "pass"}

\* get_db closes the session on a thread that has a limiter of its own; the
\* exit of an accepted submission is followed by its background task.
ExitStages == {"exit", "accept"}

\* queued: for the loop and a token; connecting: with its thread, for a
\* connection; returned: the thread is done and the loop is to resume the coroutine.
Steps == {"queued", "running", "connecting", "returned"}

TypeOK ==
    /\ kind \in [Request -> Kinds]
    /\ stage \in [Task -> PoolStages \cup LoopStages \cup ExitStages \cup {"out"}]
    /\ step \in [Task -> Steps]
    /\ left \in [Task -> 0 .. MaxParts]
    /\ loop \in Task \cup {None}
    /\ \A t \in Task : loop = t <=> stage[t] \in LoopStages
    /\ token \subseteq Request /\ Cardinality(token) <= Threads
    /\ conn \subseteq Task /\ Cardinality(conn) <= Connections

Init ==
    /\ kind = [r \in Request |-> "plain"]
    /\ stage = [t \in Task |-> "out"]
    /\ step = [t \in Task |-> "returned"]
    /\ left = [t \in Task |-> 0]
    /\ loop = None
    /\ token = {}
    /\ conn = {}

\* Task t goes on to stage s.
Go(t, s, p) ==
    /\ stage' = [stage EXCEPT ![t] = s]
    /\ step' = [step EXCEPT ![t] = p]

\* Nothing is left of it.
Done(t) == Go(t, "out", "returned") /\ left' = [left EXCEPT ![t] = 0]

-----------------------------------------------------------------------------
\* The thread pool.

\* The synchronous dependencies come first, get_db among them.
Arrive(r) ==
    /\ stage[r] = "out"
    /\ \E k \in Wants[r], n \in 1 .. MaxParts :
          /\ kind' = [kind EXCEPT ![r] = k]
          /\ left' = [left EXCEPT ![r] = n]
          /\ Go(r, IF k = "plain" THEN "compute" ELSE "enter", "queued")
    /\ UNCHANGED <<loop, token, conn>>

\* Mutant: threads are started without a limit.
StartUnlimited(r) ==
    /\ step[r] = "queued" /\ loop = None
    /\ token' = token \cup {r}
    /\ Go(r, stage[r], IF stage[r] \in {"handle", "mark"} THEN "connecting" ELSE "running")
    /\ UNCHANGED <<kind, left, loop, conn>>

\* A handler and a job begin with a query.
Start(r) ==
    /\ step[r] = "queued" /\ loop = None
    /\ Cardinality(token) < Threads
    /\ token' = token \cup {r}
    /\ Go(r, stage[r], IF stage[r] \in {"handle", "mark"} THEN "connecting" ELSE "running")
    /\ UNCHANGED <<kind, left, loop, conn>>

Return(r) ==
    /\ stage[r] \in {"enter", "compute", "validate", "read"} /\ step[r] = "running"
    /\ Go(r, stage[r], "returned")
    /\ UNCHANGED <<kind, left, loop, token, conn>>

\* The loop resumes the coroutine of r, which gives its token back.
Resumed(r) ==
    /\ stage[r] \in PoolStages \cup ExitStages /\ step[r] = "returned"
    /\ loop = None
    /\ token' = token \ {r}

ResumePlain(r) ==
    /\ Resumed(r)
    /\ stage[r] = "compute"
    /\ IF left[r] = 1
       THEN Done(r)
       ELSE Go(r, "compute", "queued") /\ left' = [left EXCEPT ![r] = @ - 1]
    /\ UNCHANGED <<kind, loop, conn>>

\* The handler has the bytes of its next upload and goes on, on the loop.
OnLoop(r) ==
    /\ loop' = r
    /\ IF kind[r] = "extract" THEN Go(r, "extract", "running")
                              ELSE Go(r, "save", "connecting")

\* An upload is read from memory, or on the pool if it was spooled to disk.
NextUpload(r) ==
    \/ OnLoop(r)
    \/ loop' = None /\ Go(r, "read", "queued")

ResumeEnter(r) ==
    /\ Resumed(r)
    /\ stage[r] = "enter"
    /\ IF kind[r] = "handler" THEN Go(r, "handle", "queued") /\ UNCHANGED loop
                              ELSE NextUpload(r)
    /\ UNCHANGED <<kind, left, conn>>

\* The response of a def handler is validated against its response_model, which is
\* another call to the pool, with the session still open. An error, a response object
\* and a handler without a response_model skip it.
ResumeHandle(r) ==
    /\ Resumed(r)
    /\ stage[r] = "handle"
    /\ Go(r, "validate", "queued") \/ Go(r, "exit", "running")
    /\ UNCHANGED <<kind, left, loop, conn>>

ResumeValidate(r) ==
    /\ Resumed(r)
    /\ stage[r] = "validate"
    /\ Go(r, "exit", "running")
    /\ UNCHANGED <<kind, left, loop, conn>>

ResumeRead(r) ==
    /\ Resumed(r)
    /\ stage[r] = "read"
    /\ OnLoop(r)
    /\ UNCHANGED <<kind, left, conn>>

Close(r) ==
    /\ stage[r] \in ExitStages /\ step[r] = "running"
    /\ conn' = conn \ {r}
    /\ Go(r, stage[r], "returned")
    /\ UNCHANGED <<kind, left, loop, token>>

\* The response is sent, and then the background task is started.
ResumeExit(r) ==
    /\ Resumed(r)
    /\ stage[r] \in ExitStages
    /\ IF stage[r] = "accept" THEN Go(r, "mark", "queued") /\ UNCHANGED left ELSE Done(r)
    /\ UNCHANGED <<kind, loop, conn>>

-----------------------------------------------------------------------------
\* The connection pool.

Connect(t) ==
    /\ step[t] = "connecting" /\ Cardinality(conn) < Connections
    /\ conn' = conn \cup {t}
    /\ Go(t, stage[t], "running")
    /\ UNCHANGED <<kind, left, loop, token>>

\* No connection within the pool's timeout.
TimedOut(t) == step[t] = "connecting" /\ Cardinality(conn) = Connections

\* t has its connection, and works with it at stage s.
Works(t, s) == stage[t] = s /\ step[t] = "running" /\ t \in conn

\* t is through with stage s: it has committed, or got no connection at all.
Through(t, s) ==
    /\ stage[t] = s
    /\ \/ Works(t, s) /\ conn' = conn \ {t}
       \/ TimedOut(t) /\ UNCHANGED conn

-----------------------------------------------------------------------------
\* def handlers.

\* Mutant: another query in a session of its own, with the first one open.
SecondSession(r) ==
    /\ Works(r, "handle") /\ left[r] > 1
    /\ left' = [left EXCEPT ![r] = @ - 1]
    /\ Go(r, "handle", "connecting")
    /\ UNCHANGED <<kind, loop, token, conn>>

\* A commit, and another query: the refresh of a row, the next message.
HandleCommit(r) ==
    /\ Works(r, "handle") /\ left[r] > 1
    /\ conn' = conn \ {r}
    /\ left' = [left EXCEPT ![r] = @ - 1]
    /\ Go(r, "handle", "connecting")
    /\ UNCHANGED <<kind, loop, token>>

\* What the handler has queried since its last commit keeps the connection.
HandleReturn(r) ==
    /\ stage[r] = "handle"
    /\ \/ Works(r, "handle") /\ conn' \in {conn, conn \ {r}}
       \/ TimedOut(r) /\ UNCHANGED conn
    /\ left' = [left EXCEPT ![r] = 0]
    /\ Go(r, "handle", "returned")
    /\ UNCHANGED <<kind, loop, token>>

-----------------------------------------------------------------------------
\* /extract and /extract-async, on the loop.

\* The end of the handler: the session is closed, on a thread of its own.
Leave(r, s) == loop' = None /\ Go(r, s, "running")

\* The extractor, OCR included, ends or raises.
Extract(r) ==
    /\ stage[r] = "extract"
    /\ \/ Go(r, "persist", "connecting") /\ UNCHANGED loop
       \/ Leave(r, "exit")
    /\ UNCHANGED <<kind, left, token, conn>>

\* The last file is followed by the defaults, which may need a query.
Persist(r) ==
    /\ Through(r, "persist")
    /\ IF left[r] > 1
       THEN left' = [left EXCEPT ![r] = @ - 1] /\ NextUpload(r)
       ELSE /\ \/ Go(r, "defaults", "connecting") /\ UNCHANGED loop
               \/ Leave(r, "exit")
            /\ UNCHANGED left
    /\ UNCHANGED <<kind, token>>

LoadDefaults(r) ==
    /\ stage[r] = "defaults"
    /\ Works(r, "defaults") \/ TimedOut(r)
    /\ Leave(r, "exit")
    /\ UNCHANGED <<kind, left, token, conn>>

Save(r) ==
    /\ Works(r, "save")
    /\ conn' = conn \ {r}
    /\ Go(r, "reload", "connecting")
    /\ UNCHANGED <<kind, left, loop, token>>

Reload(r) ==
    /\ Works(r, "reload")
    /\ Leave(r, "accept")
    /\ UNCHANGED <<kind, left, token, conn>>

\* Mutant: a submission is tried again until it is saved.
SubmitAgain(r) ==
    /\ stage[r] \in {"save", "reload"} /\ TimedOut(r)
    /\ Go(r, "save", "connecting")
    /\ UNCHANGED <<kind, left, loop, token, conn>>

SubmitTimeOut(r) ==
    /\ stage[r] \in {"save", "reload"} /\ TimedOut(r)
    /\ Leave(r, "exit")
    /\ UNCHANGED <<kind, left, token, conn>>

-----------------------------------------------------------------------------
\* The background job, on one thread of the pool from beginning to end.

\* Mutant: "running" is left to the commit at the end.
MarkLate(r) ==
    /\ Works(r, "mark")
    /\ Go(r, "work", "running")
    /\ UNCHANGED <<kind, left, loop, token, conn>>

Mark(r) ==
    /\ Works(r, "mark")
    /\ conn' = conn \ {r}
    /\ Go(r, "work", "running")
    /\ UNCHANGED <<kind, left, loop, token>>

Work(r) ==
    /\ stage[r] = "work"
    /\ Go(r, "record", "connecting") \/ Go(r, "fail", "connecting")
    /\ UNCHANGED <<kind, left, loop, token, conn>>

Record(r) ==
    /\ Through(r, "record")
    /\ IF left[r] > 1
       THEN left' = [left EXCEPT ![r] = @ - 1] /\ Go(r, "work", "running")
       ELSE Go(r, "finish", "connecting") /\ UNCHANGED left
    /\ UNCHANGED <<kind, loop, token>>

Finish(r) ==
    /\ Works(r, "finish")
    /\ conn' = conn \ {r}
    /\ Go(r, "finish", "returned")
    /\ UNCHANGED <<kind, left, loop, token>>

JobTimeOut(r) ==
    /\ stage[r] \in {"mark", "finish"} /\ TimedOut(r)
    /\ Go(r, "fail", "connecting")
    /\ UNCHANGED <<kind, left, loop, token, conn>>

Fail(r) ==
    /\ Through(r, "fail")
    /\ Go(r, "fail", "returned")
    /\ UNCHANGED <<kind, left, loop, token>>

ResumeJob(r) ==
    /\ Resumed(r)
    /\ stage[r] \in {"finish", "fail"}
    /\ Done(r)
    /\ UNCHANGED <<kind, loop, conn>>

-----------------------------------------------------------------------------
\* The polling loop.

PollBegin ==
    /\ stage[Poll] = "out" /\ step[Poll] = "returned" /\ loop = None
    /\ loop' = Poll
    /\ \E n \in 1 .. MaxParts : left' = [left EXCEPT ![Poll] = n]
    /\ Go(Poll, "pass", "connecting")
    /\ UNCHANGED <<kind, token, conn>>

\* A message is committed, or fails, and another one follows.
PollNext ==
    /\ Through(Poll, "pass") /\ left[Poll] > 1
    /\ left' = [left EXCEPT ![Poll] = @ - 1]
    /\ Go(Poll, "pass", "connecting")
    /\ UNCHANGED <<kind, loop, token>>

\* Mutant: an error of the pass ends the task.
PollEndOnce ==
    /\ Through(Poll, "pass")
    /\ loop' = None
    /\ Go(Poll, "out", IF Poll \in conn THEN "returned" ELSE "queued")
    /\ UNCHANGED <<kind, left, token>>

\* The session is closed, whatever happened, and the task sleeps.
PollEnd ==
    /\ Through(Poll, "pass")
    /\ loop' = None
    /\ Done(Poll)
    /\ UNCHANGED <<kind, token>>

-----------------------------------------------------------------------------

Resume(r) ==
    \/ ResumePlain(r) \/ ResumeEnter(r) \/ ResumeHandle(r) \/ ResumeValidate(r)
    \/ ResumeRead(r) \/ ResumeExit(r) \/ ResumeJob(r)

\* What a request does once it has what it needs, or waits for a connection.
Run(r) ==
    \/ Return(r) \/ Connect(r) \/ HandleCommit(r) \/ HandleReturn(r) \/ Close(r)
    \/ Extract(r) \/ Persist(r) \/ LoadDefaults(r)
    \/ Save(r) \/ Reload(r) \/ SubmitTimeOut(r)
    \/ Mark(r) \/ Work(r) \/ Record(r) \/ Finish(r) \/ JobTimeOut(r) \/ Fail(r)

Serve(r) == Start(r) \/ Resume(r) \/ Run(r)

Polling == PollBegin \/ Connect(Poll) \/ PollNext \/ PollEnd

Next == (\E r \in Request : Arrive(r) \/ Serve(r)) \/ Polling

\* Threads run. The event loop and the limiter serve their waiters in the order
\* of arrival, so each has its turn however often it is taken by others.
Fairness == (\A r \in Request : SF_vars(Serve(r))) /\ SF_vars(Polling)

Spec == Init /\ [][Next]_vars /\ Fairness

-----------------------------------------------------------------------------

Busy == {t \in Task : stage[t] # "out"}

\* t can do nothing before another task does something, or a timeout is over.
Blocked(t) ==
    \/ step[t] = "connecting" /\ Cardinality(conn) = Connections
    \/ step[t] = "returned" /\ loop # None
    \/ step[t] = "queued" /\ (loop # None \/ Cardinality(token) = Threads)

\* t has its result, and needs the loop or a thread only to give up its connection.
Returning(t) == stage[t] \in {"handle", "validate"} /\ step[t] \in {"queued", "returned"}

\* Everybody can wait for everybody, with no more than the pool's timeout to end it,
\* but only so: all connections belong to def handlers that have returned and have
\* yet to be validated or closed, and what they need for that is held by those who
\* wait for a connection: the event loop (a pass, an upload), or else every thread
\* of the pool. Nobody who holds a connection waits for one, and no extraction, read
\* of an upload or background job has a part in it but by waiting for one (get_db,
\* _background_polling_loop, _extract_one).
StuckOnlyForConnections ==
    Busy # {} /\ (\A t \in Busy : Blocked(t)) =>
        /\ Cardinality(conn) = Connections /\ \A t \in conn : Returning(t)
        /\ IF loop # None
           THEN step[loop] = "connecting"
           ELSE /\ Cardinality(token) = Threads
                /\ \A t \in token : step[t] = "connecting"

\* However long an extraction takes, on the loop or in a job, it keeps no
\* connection from the others (the commits before and after each file).
OcrHoldsNoConnection ==
    \A t \in Task : stage[t] \in {"extract", "work"} => t \notin conn

\* Every request is answered and every job comes to its end, even when all
\* threads and connections are taken for ever by newer ones.
EveryoneAnswered == \A r \in Request : stage[r] # "out" ~> stage[r] = "out"

\* The background polling is never stopped for good (_background_polling_loop).
PollingGoesOn == []<>(stage[Poll] = "pass")
=============================================================================
