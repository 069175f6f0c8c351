---------------------- MODULE ServiceThreadsProofs ----------------------
(***************************************************************************)
(* The threads and connections of the service are given out and come back  *)
(* as they should, for any number of requests, threads and connections.    *)
(* The induction needs where a task can be while it holds something: then  *)
(* whoever holds a connection is at work with it or only waits to give it  *)
(* up, and everybody waits only if those it waits for want a connection.   *)
(***************************************************************************)
EXTENDS ServiceThreads, FiniteSetTheorems, TLAPS

Stages == PoolStages \cup LoopStages \cup ExitStages \cup {"out"}

\* Where a task may wait for a connection.
Querying ==
    {"handle", "mark", "record", "finish", "fail",
     "persist", "defaults", "save", "reload", "pass"}

\* What t holds and waits for says at which stage it is, and how far with it.
Sound(t) ==
    /\ stage[t] \in LoopStages => step[t] \in {"running", "connecting"}
    /\ step[t] = "queued" => stage[t] \in PoolStages
    /\ step[t] = "connecting" => stage[t] \in Querying
    /\ t \in token => stage[t] \in PoolStages /\ step[t] # "queued"
    /\ t \in conn => \/ step[t] = "running" /\ stage[t] \in Querying \cup ExitStages
                     \/ step[t] = "returned" /\ stage[t] = "handle"
                     \/ step[t] # "connecting" /\ stage[t] = "validate"
    /\ stage[t] = "compute" => left[t] \in 1 .. MaxParts

IInv ==
    /\ TypeOK
    /\ IsFiniteSet(token) /\ IsFiniteSet(conn)
    /\ \A t \in Task : Sound(t)

-----------------------------------------------------------------------------
\* What every action does: one task goes on, and nobody else's share changes.

LeftMoves(t) ==
    /\ left' \in [Task -> 0 .. MaxParts]
    /\ \A u \in Task \ {t} : left'[u] = left[u]

LoopMoves(t, s) ==
    IF s \in LoopStages THEN loop' = t /\ loop \in {None, t}
                        ELSE loop' = IF loop = t THEN None ELSE loop

TokenMoves(t) ==
    \/ token' = token
    \/ token' = token \ {t}
    \/ t \in Request /\ Cardinality(token) < Threads /\ token' = token \cup {t}

ConnMoves(t) ==
    \/ conn' = conn
    \/ conn' = conn \ {t}
    \/ Cardinality(conn) < Connections /\ conn' = conn \cup {t}

Moves(t, s, p) ==
    /\ Go(t, s, p) /\ s \in Stages /\ p \in Steps
    /\ kind' \in [Request -> Kinds]
    /\ LeftMoves(t) /\ LoopMoves(t, s) /\ TokenMoves(t) /\ ConnMoves(t)
    /\ Sound(t)'

\* A bounded set stays bounded without an element, or with one for which there
\* is room.
LEMMA Bounds ==
    ASSUME NEW S, IsFiniteSet(S), NEW n \in Nat, Cardinality(S) <= n, NEW x
    PROVE  /\ IsFiniteSet(S \ {x}) /\ Cardinality(S \ {x}) <= n
           /\ Cardinality(S) < n =>
                 IsFiniteSet(S \cup {x}) /\ Cardinality(S \cup {x}) <= n
<1>1. Cardinality(S) \in Nat
  BY FS_CardinalityType
<1>2. /\ IsFiniteSet(S \ {x})
      /\ Cardinality(S \ {x}) = IF x \in S THEN Cardinality(S) - 1 ELSE Cardinality(S)
  BY FS_RemoveElement
<1>3. /\ IsFiniteSet(S \cup {x})
      /\ Cardinality(S \cup {x}) = IF x \in S THEN Cardinality(S) ELSE Cardinality(S) + 1
  BY FS_AddElement
<1> QED
  BY <1>1, <1>2, <1>3

\* Whatever one task does, the others are as sound as before.
LEMMA MovesPreserve ==
    ASSUME IInv, NEW t \in Task, NEW s, NEW p, Moves(t, s, p)
    PROVE  IInv'
<1>1. /\ stage' \in [Task -> Stages] /\ stage'[t] = s
      /\ \A u \in Task \ {t} : stage'[u] = stage[u]
  BY DEF IInv, TypeOK, Moves, Go, Stages
<1>2. /\ step' \in [Task -> Steps] /\ step'[t] = p
      /\ \A u \in Task \ {t} : step'[u] = step[u]
  BY DEF IInv, TypeOK, Moves, Go
<1>3. kind' \in [Request -> Kinds]
  BY DEF Moves
<1>4. /\ left' \in [Task -> 0 .. MaxParts]
      /\ \A u \in Task \ {t} : left'[u] = left[u]
  BY DEF Moves, LeftMoves
<1>5. /\ loop' \in Task \cup {None}
      /\ \A u \in Task : loop' = u <=> stage'[u] \in LoopStages
  <2>1. /\ loop \in Task \cup {None} /\ None \notin Task
        /\ \A u \in Task : loop = u <=> stage[u] \in LoopStages
    BY TaskAssumption DEF IInv, TypeOK, Task
  <2>2. CASE s \in LoopStages
    BY <1>1, <2>1, <2>2 DEF Moves, LoopMoves
  <2>3. CASE s \notin LoopStages
    BY <1>1, <2>1, <2>3 DEF Moves, LoopMoves
  <2> QED
    BY <2>2, <2>3
<1>6. /\ token' \subseteq Request /\ IsFiniteSet(token') /\ Cardinality(token') <= Threads
      /\ \A u \in Task \ {t} : u \in token' <=> u \in token
  <2>1. /\ token \subseteq Request /\ IsFiniteSet(token) /\ Cardinality(token) <= Threads
        /\ Threads \in Nat
    BY BoundsAssumption DEF IInv, TypeOK
  <2>2. /\ IsFiniteSet(token \ {t}) /\ Cardinality(token \ {t}) <= Threads
        /\ Cardinality(token) < Threads =>
              IsFiniteSet(token \cup {t}) /\ Cardinality(token \cup {t}) <= Threads
    BY <2>1, Bounds
  <2>3. TokenMoves(t)
    BY DEF Moves
  <2> QED
    BY <2>1, <2>2, <2>3 DEF TokenMoves
<1>7. /\ conn' \subseteq Task /\ IsFiniteSet(conn') /\ Cardinality(conn') <= Connections
      /\ \A u \in Task \ {t} : u \in conn' <=> u \in conn
  <2>1. /\ conn \subseteq Task /\ IsFiniteSet(conn) /\ Cardinality(conn) <= Connections
        /\ Connections \in Nat
    BY BoundsAssumption DEF IInv, TypeOK
  <2>2. /\ IsFiniteSet(conn \ {t}) /\ Cardinality(conn \ {t}) <= Connections
        /\ Cardinality(conn) < Connections =>
              IsFiniteSet(conn \cup {t}) /\ Cardinality(conn \cup {t}) <= Connections
    BY <2>1, Bounds
  <2>3. ConnMoves(t)
    BY DEF Moves
  <2> QED
    BY <2>1, <2>2, <2>3 DEF ConnMoves
<1>8. ASSUME NEW u \in Task PROVE Sound(u)'
  <2>1. CASE u = t
    BY <2>1 DEF Moves
  <2>2. CASE u # t
    BY <1>1, <1>2, <1>4, <1>6, <1>7, <2>2 DEF IInv, Sound
  <2> QED
    BY <2>1, <2>2
<1> QED
  BY <1>1, <1>2, <1>3, <1>4, <1>5, <1>6, <1>7, <1>8 DEF IInv, TypeOK, Stages

-----------------------------------------------------------------------------
\* What the induction says of the one task that an action is about.

LEMMA Shape ==
    ASSUME IInv, NEW t \in Task
    PROVE  /\ stage[t] \in Stages /\ step[t] \in Steps
           /\ left[t] \in 0 .. MaxParts
           /\ loop = t <=> stage[t] \in LoopStages
           /\ t # None
           /\ Sound(t)
           /\ stage \in [Task -> Stages] /\ step \in [Task -> Steps]
           /\ left \in [Task -> 0 .. MaxParts]
           /\ kind \in [Request -> Kinds]
           /\ MaxParts \in Nat \ {0}
  BY TaskAssumption, BoundsAssumption DEF IInv, TypeOK, Stages, Task

\* The thread pool and the connection pool.
LEMMA PoolPreserves ==
    ASSUME IInv, NEW r \in Request,
           \/ Arrive(r) \/ Start(r) \/ Return(r) \/ Connect(r)
           \/ Close(r)
    PROVE  IInv'
<1> r \in Task
  BY DEF Task
<1> USE Shape DEF Sound, LoopMoves, TokenMoves, ConnMoves, LeftMoves, Go, Moves,
           PoolStages, LoopStages, ExitStages, Stages, Steps, Querying
<1>1. CASE Arrive(r)
  <2>1. PICK k \in Wants[r], n \in 1 .. MaxParts :
           /\ kind' = [kind EXCEPT ![r] = k]
           /\ left' = [left EXCEPT ![r] = n]
           /\ Go(r, IF k = "plain" THEN "compute" ELSE "enter", "queued")
    BY <1>1 DEF Arrive
  <2>2. k \in Kinds
    BY WantsAssumption
  <2>3. kind' \in [Request -> Kinds] /\ LeftMoves(r) /\ left'[r] \in 1 .. MaxParts
    BY <2>1, <2>2
  <2>4. CASE k = "plain"
    <3>1. Moves(r, "compute", "queued")
      BY <1>1, <2>1, <2>3, <2>4 DEF Arrive
    <3> QED
      BY <3>1, MovesPreserve
  <2>5. CASE k # "plain"
    <3>1. Moves(r, "enter", "queued")
      BY <1>1, <2>1, <2>3, <2>5 DEF Arrive
    <3> QED
      BY <3>1, MovesPreserve
  <2> QED
    BY <2>4, <2>5
<1>2. CASE Start(r)
  <2>1. Moves(r, stage[r], IF stage[r] \in {"handle", "mark"} THEN "connecting" ELSE "running")
    BY <1>2 DEF Start
  <2> QED
    BY <2>1, MovesPreserve
<1>3. CASE Return(r)
  <2>1. Moves(r, stage[r], "returned")
    BY <1>3 DEF Return
  <2> QED
    BY <2>1, MovesPreserve
<1>4. CASE Connect(r)
  <2>1. Moves(r, stage[r], "running")
    BY <1>4 DEF Connect
  <2> QED
    BY <2>1, MovesPreserve
<1>5. CASE Close(r)
  <2>1. Moves(r, stage[r], "returned")
    BY <1>5 DEF Close
  <2> QED
    BY <2>1, MovesPreserve
<1> QED
  BY <1>1, <1>2, <1>3, <1>4, <1>5

\* The loop resumes a coroutine.
LEMMA ResumePreserves ==
    ASSUME IInv, NEW r \in Request,
           \/ ResumePlain(r) \/ ResumeEnter(r) \/ ResumeHandle(r)
           \/ ResumeValidate(r) \/ ResumeRead(r) \/ ResumeExit(r)
           \/ ResumeJob(r)
    PROVE  IInv'
<1> r \in Task
  BY DEF Task
<1> USE Shape DEF Sound, LoopMoves, TokenMoves, ConnMoves, LeftMoves, Go, Moves,
           PoolStages, LoopStages, ExitStages, Stages, Steps, Querying
<1>1. CASE ResumePlain(r)
  <2>1. CASE left[r] = 1
    <3>1. Moves(r, "out", "returned")
      BY <1>1, <2>1 DEF ResumePlain, Resumed, Done
    <3> QED
      BY <3>1, MovesPreserve
  <2>2. CASE left[r] # 1
    <3>1. Moves(r, "compute", "queued")
      BY <1>1, <2>2 DEF ResumePlain, Resumed, Done
    <3> QED
      BY <3>1, MovesPreserve
  <2> QED
    BY <1>1, <2>1, <2>2 DEF ResumePlain, Done
<1>2. CASE ResumeEnter(r)
  <2>1. CASE stage'[r] = "handle"
    <3>1. Moves(r, "handle", "queued")
      BY <1>2, <2>1 DEF ResumeEnter, Resumed, NextUpload, OnLoop
    <3> QED
      BY <3>1, MovesPreserve
  <2>2. CASE stage'[r] = "read"
    <3>1. Moves(r, "read", "queued")
      BY <1>2, <2>2 DEF ResumeEnter, Resumed, NextUpload, OnLoop
    <3> QED
      BY <3>1, MovesPreserve
  <2>3. CASE stage'[r] = "extract"
    <3>1. Moves(r, "extract", "running")
      BY <1>2, <2>3 DEF ResumeEnter, Resumed, NextUpload, OnLoop
    <3> QED
      BY <3>1, MovesPreserve
  <2>4. CASE stage'[r] = "save"
    <3>1. Moves(r, "save", "connecting")
      BY <1>2, <2>4 DEF ResumeEnter, Resumed, NextUpload, OnLoop
    <3> QED
      BY <3>1, MovesPreserve
  <2> QED
    BY <1>2, <2>1, <2>2, <2>3, <2>4 DEF ResumeEnter, Resumed, NextUpload, OnLoop
<1>3. CASE ResumeHandle(r)
  <2>1. CASE stage'[r] = "validate"
    <3>1. Moves(r, "validate", "queued")
      BY <1>3, <2>1 DEF ResumeHandle, Resumed
    <3> QED
      BY <3>1, MovesPreserve
  <2>2. CASE stage'[r] # "validate"
    <3>1. Moves(r, "exit", "running")
      BY <1>3, <2>2 DEF ResumeHandle, Resumed
    <3> QED
      BY <3>1, MovesPreserve
  <2> QED
    BY <2>1, <2>2
<1>4. CASE ResumeRead(r)
  <2>1. CASE kind[r] = "extract"
    <3>1. Moves(r, "extract", "running")
      BY <1>4, <2>1 DEF ResumeRead, Resumed, OnLoop
    <3> QED
      BY <3>1, MovesPreserve
  <2>2. CASE kind[r] # "extract"
    <3>1. Moves(r, "save", "connecting")
      BY <1>4, <2>2 DEF ResumeRead, Resumed, OnLoop
    <3> QED
      BY <3>1, MovesPreserve
  <2> QED
    BY <1>4, <2>1, <2>2 DEF ResumeRead
<1>5. CASE ResumeExit(r)
  <2>1. CASE stage[r] = "accept"
    <3>1. Moves(r, "mark", "queued")
      BY <1>5, <2>1 DEF ResumeExit, Resumed, Done
    <3> QED
      BY <3>1, MovesPreserve
  <2>2. CASE stage[r] # "accept"
    <3>1. Moves(r, "out", "returned")
      BY <1>5, <2>2 DEF ResumeExit, Resumed, Done
    <3> QED
      BY <3>1, MovesPreserve
  <2> QED
    BY <1>5, <2>1, <2>2 DEF ResumeExit, Done
<1>6. CASE ResumeJob(r)
  <2>1. Moves(r, "out", "returned")
    BY <1>6 DEF ResumeJob, Resumed, Done
  <2> QED
    BY <2>1, MovesPreserve
<1>7. CASE ResumeValidate(r)
  <2>1. Moves(r, "exit", "running")
    BY <1>7 DEF ResumeValidate, Resumed
  <2> QED
    BY <2>1, MovesPreserve
<1> QED
  BY <1>1, <1>2, <1>3, <1>4, <1>5, <1>6, <1>7

\* The handlers, on a thread of the pool and on the loop.
LEMMA HandlersPreserve ==
    ASSUME IInv, NEW r \in Request,
           \/ HandleCommit(r) \/ HandleReturn(r) \/ Extract(r)
           \/ Persist(r) \/ LoadDefaults(r) \/ Save(r) \/ Reload(r)
           \/ SubmitTimeOut(r)
    PROVE  IInv'
<1> r \in Task
  BY DEF Task
<1> USE Shape DEF Sound, LoopMoves, TokenMoves, ConnMoves, LeftMoves, Go, Moves,
           PoolStages, LoopStages, ExitStages, Stages, Steps, Querying
<1>1. CASE HandleCommit(r)
  <2>1. Moves(r, "handle", "connecting")
    BY <1>1 DEF HandleCommit, Works, TimedOut, Through
  <2> QED
    BY <2>1, MovesPreserve
<1>2. CASE HandleReturn(r)
  <2>1. Moves(r, "handle", "returned")
    BY <1>2 DEF HandleReturn, Works, TimedOut, Through
  <2> QED
    BY <2>1, MovesPreserve
<1>3. CASE Extract(r)
  <2>1. CASE stage'[r] = "persist"
    <3>1. Moves(r, "persist", "connecting")
      BY <1>3, <2>1 DEF Extract, Leave
    <3> QED
      BY <3>1, MovesPreserve
  <2>2. CASE stage'[r] # "persist"
    <3>1. Moves(r, "exit", "running")
      BY <1>3, <2>2 DEF Extract, Leave
    <3> QED
      BY <3>1, MovesPreserve
  <2> QED
    BY <1>3, <2>1, <2>2 DEF Extract
<1>4. CASE Persist(r)
  <2>1. CASE stage'[r] = "defaults"
    <3>1. Moves(r, "defaults", "connecting")
      BY <1>4, <2>1 DEF Persist, Works, TimedOut, Through, Leave, NextUpload, OnLoop
    <3> QED
      BY <3>1, MovesPreserve
  <2>2. CASE stage'[r] = "exit"
    <3>1. Moves(r, "exit", "running")
      BY <1>4, <2>2 DEF Persist, Works, TimedOut, Through, Leave, NextUpload, OnLoop
    <3> QED
      BY <3>1, MovesPreserve
  <2>3. CASE stage'[r] = "read"
    <3>1. Moves(r, "read", "queued")
      BY <1>4, <2>3 DEF Persist, Works, TimedOut, Through, Leave, NextUpload, OnLoop
    <3> QED
      BY <3>1, MovesPreserve
  <2>4. CASE stage'[r] = "extract"
    <3>1. Moves(r, "extract", "running")
      BY <1>4, <2>4 DEF Persist, Works, TimedOut, Through, Leave, NextUpload, OnLoop
    <3> QED
      BY <3>1, MovesPreserve
  <2>5. CASE stage'[r] = "save"
    <3>1. Moves(r, "save", "connecting")
      BY <1>4, <2>5 DEF Persist, Works, TimedOut, Through, Leave, NextUpload, OnLoop
    <3> QED
      BY <3>1, MovesPreserve
  <2> QED
    BY <1>4, <2>1, <2>2, <2>3, <2>4, <2>5 DEF Persist, Through, Leave, NextUpload, OnLoop
<1>5. CASE LoadDefaults(r)
  <2>1. Moves(r, "exit", "running")
    BY <1>5 DEF LoadDefaults, Works, TimedOut, Through, Leave
  <2> QED
    BY <2>1, MovesPreserve
<1>6. CASE Save(r)
  <2>1. Moves(r, "reload", "connecting")
    BY <1>6 DEF Save, Works, TimedOut, Through
  <2> QED
    BY <2>1, MovesPreserve
<1>7. CASE Reload(r)
  <2>1. Moves(r, "accept", "running")
    BY <1>7 DEF Reload, Works, TimedOut, Through, Leave
  <2> QED
    BY <2>1, MovesPreserve
<1>8. CASE SubmitTimeOut(r)
  <2>1. Moves(r, "exit", "running")
    BY <1>8 DEF SubmitTimeOut, Works, TimedOut, Through, Leave
  <2> QED
    BY <2>1, MovesPreserve
<1> QED
  BY <1>1, <1>2, <1>3, <1>4, <1>5, <1>6, <1>7, <1>8

\* The background jobs.
LEMMA JobsPreserve ==
    ASSUME IInv, NEW r \in Request,
           \/ Mark(r) \/ Work(r) \/ Record(r) \/ Finish(r)
           \/ JobTimeOut(r) \/ Fail(r)
    PROVE  IInv'
<1> r \in Task
  BY DEF Task
<1> USE Shape DEF Sound, LoopMoves, TokenMoves, ConnMoves, LeftMoves, Go, Moves,
           PoolStages, LoopStages, ExitStages, Stages, Steps, Querying
<1>1. CASE Mark(r)
  <2>1. Moves(r, "work", "running")
    BY <1>1 DEF Mark, Works, TimedOut, Through
  <2> QED
    BY <2>1, MovesPreserve
<1>2. CASE Work(r)
  <2>1. CASE stage'[r] = "record"
    <3>1. Moves(r, "record", "connecting")
      BY <1>2, <2>1 DEF Work
    <3> QED
      BY <3>1, MovesPreserve
  <2>2. CASE stage'[r] # "record"
    <3>1. Moves(r, "fail", "connecting")
      BY <1>2, <2>2 DEF Work
    <3> QED
      BY <3>1, MovesPreserve
  <2> QED
    BY <1>2, <2>1, <2>2 DEF Work
<1>3. CASE Record(r)
  <2>1. CASE left[r] > 1
    <3>1. Moves(r, "work", "running")
      BY <1>3, <2>1 DEF Record, Works, TimedOut, Through
    <3> QED
      BY <3>1, MovesPreserve
  <2>2. CASE ~(left[r] > 1)
    <3>1. Moves(r, "finish", "connecting")
      BY <1>3, <2>2 DEF Record, Works, TimedOut, Through
    <3> QED
      BY <3>1, MovesPreserve
  <2> QED
    BY <1>3, <2>1, <2>2 DEF Record
<1>4. CASE Finish(r)
  <2>1. Moves(r, "finish", "returned")
    BY <1>4 DEF Finish, Works, TimedOut, Through
  <2> QED
    BY <2>1, MovesPreserve
<1>5. CASE JobTimeOut(r)
  <2>1. Moves(r, "fail", "connecting")
    BY <1>5 DEF JobTimeOut, Works, TimedOut, Through
  <2> QED
    BY <2>1, MovesPreserve
<1>6. CASE Fail(r)
  <2>1. Moves(r, "fail", "returned")
    BY <1>6 DEF Fail, Works, TimedOut, Through
  <2> QED
    BY <2>1, MovesPreserve
<1> QED
  BY <1>1, <1>2, <1>3, <1>4, <1>5, <1>6

\* The polling loop.
LEMMA PollingPreserves ==
    ASSUME IInv,
           \/ PollBegin \/ Connect(Poll) \/ PollNext \/ PollEnd
    PROVE  IInv'
<1> Poll \in Task
  BY DEF Task
<1> USE Shape DEF Sound, LoopMoves, TokenMoves, ConnMoves, LeftMoves, Go, Moves,
           PoolStages, LoopStages, ExitStages, Stages, Steps, Querying
<1>1. CASE PollBegin
  <2>1. Moves(Poll, "pass", "connecting")
    BY <1>1 DEF PollBegin, Works, TimedOut, Through
  <2> QED
    BY <2>1, MovesPreserve
<1>2. CASE Connect(Poll)
  <2>1. Moves(Poll, stage[Poll], "running")
    BY <1>2 DEF Connect, Works, TimedOut, Through
  <2> QED
    BY <2>1, MovesPreserve
<1>3. CASE PollNext
  <2>1. Moves(Poll, "pass", "connecting")
    BY <1>3 DEF PollNext, Works, TimedOut, Through
  <2> QED
    BY <2>1, MovesPreserve
<1>4. CASE PollEnd
  <2>1. Moves(Poll, "out", "returned")
    BY <1>4 DEF PollEnd, Done, Works, TimedOut, Through
  <2> QED
    BY <2>1, MovesPreserve
<1> QED
  BY <1>1, <1>2, <1>3, <1>4

LEMMA Inductive ==
    ASSUME IInv, [Next]_vars
    PROVE  IInv'
<1>1. CASE UNCHANGED vars
  BY <1>1 DEF vars, IInv, TypeOK, Sound
<1>2. ASSUME NEW r \in Request, Arrive(r) \/ Serve(r)
      PROVE  IInv'
  BY <1>2, PoolPreserves, ResumePreserves, HandlersPreserve, JobsPreserve
     DEF Serve, Resume, Run
<1>3. CASE Polling
  BY <1>3, PollingPreserves DEF Polling
<1> QED
  BY <1>1, <1>2, <1>3 DEF Next

LEMMA Initially == Init => IInv
<1> SUFFICES ASSUME Init
             PROVE  IInv
  OBVIOUS
<1>1. IsFiniteSet({}) /\ Cardinality({}) = 0
  BY FS_EmptySet
<1>2. TypeOK
  BY <1>1, TaskAssumption, BoundsAssumption
     DEF Init, TypeOK, Task, Kinds, Steps, PoolStages, LoopStages, ExitStages
<1>3. ASSUME NEW t \in Task PROVE Sound(t)
  BY DEF Init, Sound, LoopStages
<1> QED
  BY <1>1, <1>2, <1>3 DEF Init, IInv

LEMMA Invariance == Spec => []IInv
  BY Initially, Inductive, PTL DEF Spec

-----------------------------------------------------------------------------

\* No request and no pass is ever at two places, no thread and no connection
\* is given out twice, and the loop executes who is at work on it and nobody else.
THEOREM TypeCorrect == Spec => []TypeOK
<1>1. IInv => TypeOK
  BY DEF IInv
<1> QED
  BY <1>1, Invariance, PTL

\* Whoever extracts, on the loop or in a job, holds no connection meanwhile.
THEOREM NoConnectionDuringOcr == Spec => []OcrHoldsNoConnection
<1>1. IInv => OcrHoldsNoConnection
  BY DEF IInv, Sound, OcrHoldsNoConnection, Querying, ExitStages
<1> QED
  BY <1>1, Invariance, PTL

\* A thread that somebody holds is at work, waits for a connection, or waits
\* for the loop; a connection that somebody holds is in use, or its holder is
\* returning.  So when all wait, follow what each waits for: it goes round by
\* the connections, and by the loop or else by every thread of the pool.
THEOREM OnlyConnectionsAreStuck == Spec => []StuckOnlyForConnections
<1> DEFINE held == Cardinality(conn)
           taken == Cardinality(token)
<1>1. ASSUME IInv, Busy # {}, \A t \in Busy : Blocked(t)
      PROVE  /\ held = Connections /\ \A t \in conn : Returning(t)
             /\ IF loop # None
                THEN step[loop] = "connecting"
                ELSE taken = Threads /\ \A t \in token : step[t] = "connecting"
  <2>1. \A t \in Task : Sound(t) /\ (stage[t] # "out" => Blocked(t))
    BY <1>1 DEF IInv, Busy
  <2>2. conn \subseteq Task /\ token \subseteq Task
    BY <1>1 DEF IInv, TypeOK, Task
  <2>3. \A t \in Task : step[t] \in Steps
    BY <1>1, Shape
  <2>4. \A t \in conn : Returning(t)
    BY <2>1, <2>2, <2>3
       DEF Sound, Blocked, Returning, Querying, ExitStages, Steps
  <2>5. \A t \in Task : stage[t] # "out" =>
           \/ step[t] = "connecting" /\ held = Connections
           \/ step[t] = "returned" /\ loop # None
           \/ step[t] = "queued" /\ (loop # None \/ taken = Threads)
    BY <2>1 DEF Blocked
  <2>6. CASE loop # None
    <3>1. loop \in Task /\ stage[loop] \in LoopStages
      BY <1>1, <2>6 DEF IInv, TypeOK
    <3>2. step[loop] = "connecting" /\ held = Connections
      BY <2>1, <2>5, <3>1 DEF Sound, LoopStages
    <3> QED
      BY <2>4, <2>6, <3>2
  <2>7. CASE loop = None
    <3>1. \A t \in token : step[t] = "connecting" /\ held = Connections
      BY <2>1, <2>2, <2>5, <2>7 DEF Sound, PoolStages
    <3>2. held = Connections /\ taken = Threads
      <4>1. held = Connections \/ taken = Threads
        BY <1>1, <2>5, <2>7 DEF Busy
      <4>2. taken = Threads => held = Connections
        <5>1. taken = Threads => token # {}
          BY FS_EmptySet, BoundsAssumption
        <5> QED
          BY <3>1, <5>1
      <4>3. held = Connections => taken = Threads
        <5>1. held = Connections => conn # {}
          BY FS_EmptySet, BoundsAssumption
        <5>2. \A t \in conn : stage[t] # "out" /\ step[t] # "connecting"
          BY <2>4 DEF Returning
        <5> QED
          BY <2>2, <2>5, <2>7, <5>1, <5>2
      <4> QED
        BY <4>1, <4>2, <4>3
    <3> QED
      BY <2>4, <2>7, <3>1, <3>2
  <2> QED
    BY <2>6, <2>7
<1>2. IInv => StuckOnlyForConnections
  BY <1>1 DEF StuckOnlyForConnections
<1> QED
  BY <1>2, Invariance, PTL
=============================================================================
