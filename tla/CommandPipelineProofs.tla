----------------------- MODULE CommandPipelineProofs -----------------------
(***************************************************************************)
(* Theorems about CommandPipeline, for any messages, passes, requests,     *)
(* transcriptions and bounds: the state of a pass is what its place says,  *)
(* a message is not given up without a cause, closed_at and status part by *)
(* an overtaken edit only, and the pipeline implements the ledger.         *)
(***************************************************************************)
EXTENDS CommandPipeline, SequenceTheorems, FiniteSetTheorems, TLAPS

-----------------------------------------------------------------------------
\* The data.

LEMMA BirthsType ==
    ASSUME NEW m \in Msg, NEW t \in Transcripts
    PROVE  /\ Births(m, t) \in Seq(Row)
           /\ Len(Births(m, t)) = t.tasks + t.notes
  <1>1. t \in Transcript
    BY TranscriptsAssumption
  <1>2. \A tbl \in Table : NewRow(m, tbl) \in Row
    BY StatusAssumption DEF NewRow, Row
  <1>3. t.tasks + t.notes \in Nat
    BY <1>1 DEF Transcript
  <1>4. \A i \in 1..(t.tasks + t.notes) :
           NewRow(m, IF i <= t.tasks THEN "task" ELSE "note") \in Row
    BY <1>2 DEF Table
  <1>5. QED
    BY <1>3, <1>4 DEF Births

LEMMA LoadType == \A row \in Row : Load(row) \in Edit
  BY DEF Load, Row, Edit

LEMMA AssignIfGivenType ==
    ASSUME NEW e \in Edit, NEW s \in Status \cup {None}
    PROVE  AssignIfGiven(e, s) \in Edit
  <1>1. StampFor(e.to, s, e.stamp) \in {"kept", "now", "null"}
    BY DEF StampFor, Edit
  <1>2. QED
    BY <1>1 DEF AssignIfGiven, Assign, Edit

LEMMA WriteType ==
    ASSUME NEW row \in Row, NEW e \in Edit
    PROVE  /\ Write(row, e) \in Row
           /\ Write(row, e).table = row.table
           /\ Write(row, e).vm = row.vm
           /\ Write(row, e).live = row.live
           /\ Write(row, e).dropper = row.dropper
  BY DEF Write, Row, Edit

LEMMA ParseStatusType == \A t \in Transcripts : Outcome(t) \in ParseStatus
  BY DEF Outcome, ParseStatus

-----------------------------------------------------------------------------
\* Type correctness.

LEMMA FlushedType ==
    ASSUME TypeOK, NEW p \in Poller, session[p].cur \in Msg
    PROVE  /\ Flushed(p) \in Seq(Row)
           /\ Len(Flushed(p)) = Len(rows)
           /\ DOMAIN Flushed(p) = DOMAIN rows
  <1>1. /\ rows \in Seq(Row)
        /\ DOMAIN rows = 1..Len(rows)
        /\ Len(rows) \in Nat
        /\ \A i \in DOMAIN rows : rows[i] \in Row
    BY DEF TypeOK
  <1>2. \A i \in DOMAIN session[p].edits : session[p].edits[i] \in Edit
    BY DEF TypeOK, Session
  <1>3. ASSUME NEW i \in DOMAIN rows
        PROVE  Flushed(p)[i] \in Row
    <2>1. CASE i \in session[p].drops
      BY <1>1, <1>3, <2>1 DEF Flushed, Drop, Row
    <2>2. CASE i \notin session[p].drops /\ i \in DOMAIN session[p].edits
      <3>1. Flushed(p)[i] = Write(rows[i], session[p].edits[i])
        BY <1>3, <2>2 DEF Flushed
      <3>2. QED
        BY <1>1, <1>2, <1>3, <2>2, <3>1, WriteType
    <2>3. CASE i \notin session[p].drops /\ i \notin DOMAIN session[p].edits
      BY <1>1, <1>3, <2>3 DEF Flushed
    <2>4. QED
      BY <2>1, <2>2, <2>3
  <1>4. DOMAIN Flushed(p) = 1..Len(rows)
    BY <1>1 DEF Flushed
  <1>5. Flushed(p) = [i \in 1..Len(rows) |-> Flushed(p)[i]]
    BY <1>1 DEF Flushed
  <1>6. QED
    BY <1>1, <1>3, <1>4, <1>5

\* A row another step may add leaves every session well typed.
LEMMA SessionGrows ==
    ASSUME TypeOK, UNCHANGED session, DOMAIN rows \subseteq DOMAIN rows'
    PROVE  /\ DOMAIN session' = Poller
           /\ \A p \in Poller :
                 /\ (session[p] \in Session(DOMAIN session[p].edits))'
                 /\ (DOMAIN session[p].edits \subseteq DOMAIN rows)'
  BY DEF TypeOK, Session

\* The obligations on the record of one pass, for a step of that pass.
LEMMA SessionStep ==
    ASSUME TypeOK, NEW p \in Poller, NEW s,
           session' = [session EXCEPT ![p] = s],
           DOMAIN rows \subseteq DOMAIN rows',
           DOMAIN s.edits \subseteq DOMAIN rows,
           s \in Session(DOMAIN s.edits)
    PROVE  /\ DOMAIN session' = Poller
           /\ \A q \in Poller :
                 /\ (session[q] \in Session(DOMAIN session[q].edits))'
                 /\ (DOMAIN session[q].edits \subseteq DOMAIN rows)'
  <1>1. DOMAIN session' = Poller /\ session'[p] = s
    BY DEF TypeOK
  <1>2. \A q \in Poller \ {p} : session'[q] = session[q]
    BY DEF TypeOK
  <1>3. s \in Session(DOMAIN s.edits)' /\ DOMAIN s.edits \subseteq DOMAIN rows'
    BY DEF Session
  <1>4. ASSUME NEW q \in Poller \ {p}
        PROVE  /\ session[q] \in Session(DOMAIN session[q].edits)'
               /\ DOMAIN session[q].edits \subseteq DOMAIN rows'
    BY <1>4 DEF TypeOK, Session
  <1>5. QED
    BY <1>1, <1>2, <1>3, <1>4

\* What a message being processed has: a transcription, and bounds on what
\* its session holds.
LEMMA EditAfterType ==
    ASSUME TypeOK, NEW p \in Poller, Executing(p), session[p].cur \in Msg,
           voice[session[p].cur] \in Transcripts, NEW i \in DOMAIN rows
    PROVE  EditAfter(p, i) \in Edit
  <1>1. /\ rows[i] \in Row
        /\ \A j \in DOMAIN session[p].edits : session[p].edits[j] \in Edit
    BY DEF TypeOK, Session
  <1>2. CurrentCommand(p) \in Command
    BY TranscriptsAssumption DEF Executing, CurrentCommand, Transcript
  <1>3. CurrentCommand(p).status \in Status \cup {None}
    BY <1>2 DEF Command
  <1>4. QED
    BY <1>1, <1>3, LoadType, AssignIfGivenType DEF EditAfter

\* The part of the inductive invariant that says what a session is doing: it
\* works on a completed message that is not blank, and only then.
Working ==
    \A p \in Poller :
        /\ \A m \in session[p].todo \cup session[p].blanks : voice[m] # None
        /\ \A m \in session[p].blanks : voice[m].blank
        /\ session[p].at \in {"message", "recover"} =>
              /\ session[p].cur \in Msg
              /\ voice[session[p].cur] # None
              /\ ~voice[session[p].cur].blank
        /\ session[p].at # "message" =>
              session[p].edits = <<>> /\ session[p].drops = {}
        /\ session[p].at \in {"idle", "recover"} => session[p].blanks = {}

\* A step of one pass that leaves voice, rows and the requests alone.
LEMMA PassStepType ==
    ASSUME TypeOK, NEW p \in Poller, NEW s,
           session' = [session EXCEPT ![p] = s],
           s \in Session(DOMAIN s.edits), DOMAIN s.edits \subseteq DOMAIN rows,
           UNCHANGED <<voice, rows, request, restarts>>,
           processed' \in [Msg -> ParseStatus \cup {None}],
           faults' \in [Msg -> Nat]
    PROVE  TypeOK'
  <1>1. /\ DOMAIN session' = Poller
        /\ \A q \in Poller :
              /\ (session[q] \in Session(DOMAIN session[q].edits))'
              /\ (DOMAIN session[q].edits \subseteq DOMAIN rows)'
    BY SessionStep
  <1>2. QED
    BY <1>1 DEF TypeOK, Request

\* A step of one request that may rewrite rows but adds none.
LEMMA RequestStepType ==
    ASSUME TypeOK, NEW c \in Client, NEW r \in Request,
           request' = [request EXCEPT ![c] = r],
           rows' \in Seq(Row), DOMAIN rows' = DOMAIN rows,
           UNCHANGED <<voice, processed, session, faults, restarts>>
    PROVE  TypeOK'
  <1>1. /\ DOMAIN session' = Poller
        /\ \A q \in Poller :
              /\ (session[q] \in Session(DOMAIN session[q].edits))'
              /\ (DOMAIN session[q].edits \subseteq DOMAIN rows)'
    BY SessionGrows
  <1>2. QED
    BY <1>1 DEF TypeOK, Request

\* Rewriting one row, when there is such a row.
LEMMA RowsExcept ==
    ASSUME NEW rs \in Seq(Row), NEW i, NEW row, i \in DOMAIN rs => row \in Row
    PROVE  /\ [rs EXCEPT ![i] = row] \in Seq(Row)
           /\ DOMAIN [rs EXCEPT ![i] = row] = DOMAIN rs
           /\ Len([rs EXCEPT ![i] = row]) = Len(rs)
  <1>1. DOMAIN rs = 1..Len(rs) /\ Len(rs) \in Nat
    OBVIOUS
  <1>2. [rs EXCEPT ![i] = row]
            = [j \in 1..Len(rs) |-> IF j = i THEN row ELSE rs[j]]
    BY <1>1
  <1>3. \A j \in 1..Len(rs) : (IF j = i THEN row ELSE rs[j]) \in Row
    BY <1>1
  <1> DEFINE f == [j \in 1..Len(rs) |-> IF j = i THEN row ELSE rs[j]]
  <1>4. f \in Seq(Row) /\ DOMAIN f = DOMAIN rs /\ Len(f) = Len(rs)
    BY <1>1, <1>3
  <1>5. QED
    BY <1>2, <1>4

LEMMA CleanType ==
    ASSUME NEW at \in {"idle", "next", "recover"}, NEW ms \in SUBSET Msg,
           NEW m \in Msg \cup {None}
    PROVE  /\ DOMAIN Clean(at, ms, m).edits = {}
           /\ Clean(at, ms, m) \in Session(DOMAIN Clean(at, ms, m).edits)
  <1>1. Clean(at, ms, m).edits = <<>>
    BY DEF Clean
  <1>2. DOMAIN Clean(at, ms, m).edits = {}
    BY <1>1
  <1>3. Clean(at, ms, m) \in Session({})
    BY DEF Clean, Session
  <1>4. QED
    BY <1>2, <1>3

LEMMA InitTypeOK == Init => TypeOK
  <1> SUFFICES ASSUME Init PROVE TypeOK
    OBVIOUS
  <1>1. \A p \in Poller : session[p] = IdleSession
    BY DEF Init
  <1>2. \A p \in Poller :
           /\ session[p] \in Session(DOMAIN session[p].edits)
           /\ DOMAIN session[p].edits \subseteq DOMAIN rows
    BY <1>1, CleanType DEF IdleSession
  <1>3. NoRequest \in Request
    BY StatusAssumption DEF NoRequest, Request, Edit
  <1>4. QED
    BY <1>2, <1>3 DEF Init, TypeOK

LEMMA RolledBackType ==
    ASSUME TypeOK, NEW p \in Poller, session' = RolledBack(p),
           UNCHANGED <<voice, processed, rows, request, restarts>>,
           faults' \in [Msg -> Nat]
    PROVE  TypeOK'
  <1> DEFINE s == Clean("recover", session[p].todo, session[p].cur)
  <1>1. session[p].todo \in SUBSET Msg /\ session[p].cur \in Msg \cup {None}
    BY DEF Session, TypeOK
  <1>2. session' = [session EXCEPT ![p] = s]
    BY DEF RolledBack
  <1>3. processed' \in [Msg -> ParseStatus \cup {None}]
    BY DEF TypeOK
  <1>4. QED
    BY <1>1, <1>2, <1>3, CleanType, PassStepType

LEMMA NextMessageType ==
    ASSUME TypeOK, NEW p \in Poller, session' = NextMessage(p),
           UNCHANGED <<voice, rows, request, restarts>>,
           processed' \in [Msg -> ParseStatus \cup {None}],
           faults' \in [Msg -> Nat]
    PROVE  TypeOK'
  <1> DEFINE s == Clean("next", session[p].todo, None)
  <1>1. session[p].todo \in SUBSET Msg
    BY DEF Session, TypeOK
  <1>2. session' = [session EXCEPT ![p] = s]
    BY DEF NextMessage
  <1>3. QED
    BY <1>1, <1>2, CleanType, PassStepType

THEOREM TypeStep == TypeOK /\ Working /\ [Next]_vars => TypeOK'
  <1> SUFFICES ASSUME TypeOK, Working, [Next]_vars
               PROVE  TypeOK'
    OBVIOUS
  <1>0. /\ processed \in [Msg -> ParseStatus \cup {None}]
        /\ faults \in [Msg -> Nat]
        /\ rows \in Seq(Row)
        /\ \A i \in DOMAIN rows : rows[i] \in Row
        /\ \A p \in Poller : /\ session[p] \in Session(DOMAIN session[p].edits)
                             /\ DOMAIN session[p].edits \subseteq DOMAIN rows
    BY DEF TypeOK
  <1>1. ASSUME NEW m \in Msg, Complete(m)
        PROVE  TypeOK'
    <2>1. /\ DOMAIN session' = Poller
          /\ \A p \in Poller :
                /\ (session[p] \in Session(DOMAIN session[p].edits))'
                /\ (DOMAIN session[p].edits \subseteq DOMAIN rows)'
      BY <1>1, SessionGrows DEF Complete
    <2>2. QED
      BY <1>1, <2>1 DEF Complete, TypeOK, Request
  <1>2. ASSUME NEW p \in Poller, Fetch(p)
        PROVE  TypeOK'
    <2> DEFINE s == [session[p] EXCEPT
                        !.at = "next",
                        !.todo = {m \in Msg : voice[m] # None
                                              /\ processed[m] = None}]
    <2>1. session' = [session EXCEPT ![p] = s]
      BY <1>2 DEF Fetch
    <2>2. s \in Session(DOMAIN s.edits) /\ s.edits = session[p].edits
      BY <1>0 DEF Session
    <2> HIDE DEF s
    <2>3. QED
      BY <1>0, <1>2, <2>1, <2>2, PassStepType DEF Fetch
  <1>3. ASSUME NEW p \in Poller, NEW m \in Msg, TakeBlank(p, m)
        PROVE  TypeOK'
    <2> DEFINE s == [session[p] EXCEPT !.todo = @ \ {m},
                                       !.blanks = @ \cup {m}]
    <2>1. session' = [session EXCEPT ![p] = s]
      BY <1>3 DEF TakeBlank
    <2>2. s \in Session(DOMAIN s.edits) /\ s.edits = session[p].edits
      BY <1>0 DEF Session
    <2> HIDE DEF s
    <2>3. QED
      BY <1>0, <1>3, <2>1, <2>2, PassStepType DEF TakeBlank
  <1>4. ASSUME NEW p \in Poller, NEW m \in Msg, TakeMessage(p, m)
        PROVE  TypeOK'
    <2> DEFINE s == [session[p] EXCEPT !.at = "message", !.todo = @ \ {m},
                                       !.cur = m, !.step = 1]
    <2>1. session' = [session EXCEPT ![p] = s]
      BY <1>4 DEF TakeMessage
    <2>2. s \in Session(DOMAIN s.edits) /\ s.edits = session[p].edits
      BY <1>0 DEF Session
    <2> HIDE DEF s
    <2>3. QED
      BY <1>0, <1>4, <2>1, <2>2, PassStepType DEF TakeMessage
  <1>5. ASSUME NEW p \in Poller, SkipCommand(p)
        PROVE  TypeOK'
    <2> DEFINE s == [session[p] EXCEPT !.step = @ + 1]
    <2>1. session' = [session EXCEPT ![p] = s]
      BY <1>5 DEF SkipCommand
    <2>2. session[p].step + 1 \in Nat
      BY <1>0 DEF Session
    <2>3. s \in Session(DOMAIN s.edits) /\ s.edits = session[p].edits
      BY <1>0, <2>2 DEF Session
    <2> HIDE DEF s
    <2>4. QED
      BY <1>0, <2>3, <1>5, <2>1, <2>2, PassStepType DEF SkipCommand
  <1>6. ASSUME NEW p \in Poller, UpdateTarget(p)
        PROVE  TypeOK'
    <2>1. PICK i \in Target(p) :
             session' = [session EXCEPT
                ![p].step = @ + 1,
                ![p].edits = IF i \in session[p].drops THEN @
                             ELSE [j \in DOMAIN @ \cup {i} |->
                                     IF j = i THEN EditAfter(p, i) ELSE @[j]]]
      BY <1>6 DEF UpdateTarget
    <2>2. i \in DOMAIN rows
      BY DEF Target, Numbered, Live
    <2>3. EditAfter(p, i) \in Edit
      BY <1>6, <2>2, EditAfterType DEF UpdateTarget, Executing, Working, TypeOK
    <2> DEFINE e == IF i \in session[p].drops THEN session[p].edits
                    ELSE [j \in DOMAIN session[p].edits \cup {i} |->
                             IF j = i THEN EditAfter(p, i)
                             ELSE session[p].edits[j]]
               s == [session[p] EXCEPT !.step = @ + 1, !.edits = e]
    <2>4. session' = [session EXCEPT ![p] = s]
      BY <2>1
    <2>5. e \in [DOMAIN e -> Edit] /\ DOMAIN e \subseteq DOMAIN rows
      BY <1>0, <2>2, <2>3 DEF Session
    <2> HIDE DEF e
    <2>6. s.edits = e /\ session[p].step + 1 \in Nat
      BY <1>0 DEF Session
    <2>7. s \in Session(DOMAIN e)
      BY <1>0, <2>5, <2>6 DEF Session
    <2> HIDE DEF s
    <2>8. QED
      BY <1>0, <2>7, <1>6, <2>4, <2>5, <2>6, PassStepType DEF UpdateTarget
  <1>7. ASSUME NEW p \in Poller, DeleteTarget(p)
        PROVE  TypeOK'
    <2>1. PICK i \in Target(p) :
             session' = [session EXCEPT
                ![p].step = @ + 1,
                ![p].drops = @ \cup {i},
                ![p].edits = [j \in DOMAIN @ \ {i} |-> @[j]]]
      BY <1>7 DEF DeleteTarget
    <2>2. i \in DOMAIN rows
      BY DEF Target, Numbered, Live
    <2> DEFINE e == [j \in DOMAIN session[p].edits \ {i} |->
                        session[p].edits[j]]
               s == [session[p] EXCEPT !.step = @ + 1, !.drops = @ \cup {i},
                                       !.edits = e]
    <2>3. session' = [session EXCEPT ![p] = s]
      BY <2>1
    <2>4. e \in [DOMAIN e -> Edit] /\ DOMAIN e \subseteq DOMAIN rows
      BY <1>0 DEF Session
    <2> HIDE DEF e
    <2>5. /\ s.edits = e /\ session[p].step + 1 \in Nat
          /\ session[p].drops \cup {i} \in SUBSET DOMAIN rows
      BY <1>0, <2>2 DEF Session
    <2>6. s \in Session(DOMAIN e)
      BY <1>0, <2>4, <2>5 DEF Session
    <2> HIDE DEF s
    <2>7. QED
      BY <1>0, <2>6, <1>7, <2>3, <2>4, <2>5, PassStepType DEF DeleteTarget
  <1>8. ASSUME NEW p \in Poller, CommitMessage(p)
        PROVE  TypeOK'
    <2> DEFINE m == session[p].cur
    <2>1. m \in Msg /\ voice[m] \in Transcripts
      BY <1>8 DEF CommitMessage, AtCommit, Working, TypeOK
    <2>2. /\ Flushed(p) \in Seq(Row)
          /\ Len(Flushed(p)) = Len(rows)
          /\ Births(m, voice[m]) \in Seq(Row)
      BY <2>1, FlushedType, BirthsType
    <2>3. rows' = Flushed(p) \o Births(m, voice[m])
      BY <1>8 DEF CommitMessage
    <2>4. rows' \in Seq(Row) /\ DOMAIN rows \subseteq DOMAIN rows'
      BY <1>0, <2>2, <2>3
    <2>5. processed' \in [Msg -> ParseStatus \cup {None}]
      <3>1. Outcome(voice[m]) \in ParseStatus /\ "no_commands" \in ParseStatus
        BY <2>1 DEF Outcome, ParseStatus
      <3>2. QED
        BY <1>0, <1>8, <2>1, <3>1 DEF CommitMessage
    <2> DEFINE s == Clean("next", session[p].todo, None)
    <2>6. session' = [session EXCEPT ![p] = s]
      BY <1>8 DEF CommitMessage, NextMessage
    <2>7. s \in Session(DOMAIN s.edits) /\ DOMAIN s.edits = {}
      BY <1>0, CleanType DEF Session
    <2> HIDE DEF s
    <2>8. /\ DOMAIN session' = Poller
          /\ \A q \in Poller :
                /\ (session[q] \in Session(DOMAIN session[q].edits))'
                /\ (DOMAIN session[q].edits \subseteq DOMAIN rows)'
      BY <2>4, <2>6, <2>7, SessionStep
    <2>9. QED
      BY <1>8, <2>4, <2>5, <2>8 DEF CommitMessage, TypeOK, Request
  <1>9. ASSUME NEW p \in Poller, CommitRefused(p)
        PROVE  TypeOK'
    BY <1>0, <1>9, RolledBackType DEF CommitRefused
  <1>10. ASSUME NEW p \in Poller, MessageFault(p)
         PROVE  TypeOK'
    BY <1>0, <1>10, RolledBackType DEF MessageFault, Working
  <1>11. ASSUME NEW p \in Poller, RecordError(p)
         PROVE  TypeOK'
    BY <1>0, <1>11, NextMessageType DEF RecordError, ParseStatus
  <1>12. ASSUME NEW p \in Poller, RecordErrorRefused(p)
         PROVE  TypeOK'
    BY <1>0, <1>12, NextMessageType DEF RecordErrorRefused
  <1>13. ASSUME NEW p \in Poller, RecordErrorFault(p)
         PROVE  TypeOK'
    BY <1>0, <1>13, NextMessageType DEF RecordErrorFault, Working
  <1>14. ASSUME NEW p \in Poller, FinishPass(p)
         PROVE  TypeOK'
    <2>1. IdleSession \in Session(DOMAIN IdleSession.edits)
          /\ DOMAIN IdleSession.edits = {}
      BY CleanType DEF IdleSession
    <2>2. QED
      BY <1>0, <1>14, <2>1, PassStepType DEF FinishPass
  <1>15. ASSUME NEW c \in Client, NEW i \in DOMAIN rows,
                NEW st \in Status \cup {None}, LoadTaskForUpdate(c, i, st)
         PROVE  TypeOK'
    <2> DEFINE r == [kind |-> "patch", id |-> i,
                     edit |-> AssignIfGiven(Load(rows[i]), st)]
    <2>1. r \in Request
      BY <1>0, LoadType, AssignIfGivenType DEF Request
    <2>2. QED
      BY <1>0, <1>15, <2>1, RequestStepType DEF LoadTaskForUpdate
  <1>16. ASSUME NEW c \in Client, NEW i \in DOMAIN rows,
                LoadNoteForUpdate(c, i)
         PROVE  TypeOK'
    <2> DEFINE r == [kind |-> "patch", id |-> i, edit |-> Load(rows[i])]
    <2>1. r \in Request
      BY <1>0, LoadType DEF Request
    <2>2. QED
      BY <1>0, <1>16, <2>1, RequestStepType DEF LoadNoteForUpdate
  <1>17. NoRequest \in Request
    BY StatusAssumption DEF NoRequest, Request, Edit
  <1>18. ASSUME NEW c \in Client, NEW i \in DOMAIN rows, LoadForDelete(c, i)
         PROVE  TypeOK'
    <2> DEFINE r == [kind |-> "delete", id |-> i, edit |-> NoRequest.edit]
    <2>1. i \in Nat
      BY <1>0
    <2>2. r \in Request
      BY <1>17, <2>1 DEF Request
    <2>3. QED
      BY <1>0, <1>18, <2>2, RequestStepType DEF LoadForDelete
  <1>19. ASSUME NEW c \in Client, CommitUpdate(c)
         PROVE  TypeOK'
    <2> DEFINE i == request[c].id
    <2>1. request[c].edit \in Edit
      BY DEF TypeOK, Request
    <2>2. \A row \in Row : Write(row, request[c].edit) \in Row
      BY <2>1, WriteType
    <2>3. CASE ~rows[i].live
      BY <1>0, <1>17, <1>19, <2>3, RequestStepType DEF CommitUpdate
    <2>4. CASE rows[i].live
      <3>1. rows' = [rows EXCEPT ![i] = Write(rows[i], request[c].edit)]
        BY <1>19, <2>4 DEF CommitUpdate
      <3>2. rows' \in Seq(Row) /\ DOMAIN rows' = DOMAIN rows
        BY <1>0, <2>2, <3>1, RowsExcept
      <3>3. QED
        BY <1>17, <1>19, <3>2, RequestStepType DEF CommitUpdate
    <2>5. QED
      BY <2>3, <2>4
  <1>20. ASSUME NEW c \in Client, CommitDelete(c)
         PROVE  TypeOK'
    <2> DEFINE i == request[c].id
    <2>1. \A row \in Row : [row EXCEPT !.live = FALSE] \in Row
      BY DEF Row
    <2>2. rows' = [rows EXCEPT ![i] = [rows[i] EXCEPT !.live = FALSE]]
      BY <1>20 DEF CommitDelete
    <2>3. rows' \in Seq(Row) /\ DOMAIN rows' = DOMAIN rows
      BY <1>0, <2>1, <2>2, RowsExcept
    <2>4. QED
      BY <1>17, <1>20, <2>3, RequestStepType DEF CommitDelete
  <1>21. ASSUME Restart
         PROVE  TypeOK'
    <2>1. \A p \in Poller : session'[p] = IdleSession
      BY <1>21 DEF Restart
    <2>2. \A p \in Poller :
             /\ (session[p] \in Session(DOMAIN session[p].edits))'
             /\ (DOMAIN session[p].edits \subseteq DOMAIN rows)'
      BY <1>21, <2>1, CleanType DEF IdleSession, Restart, Session
    <2>3. QED
      BY <1>17, <1>21, <2>2 DEF Restart, TypeOK, Request
  <1>22. ASSUME UNCHANGED vars
         PROVE  TypeOK'
    BY <1>22 DEF vars, TypeOK, Session, Request
  <1>23. QED
    BY <1>1, <1>2, <1>3, <1>4, <1>5, <1>6, <1>7, <1>8, <1>9, <1>10, <1>11,
       <1>12, <1>13, <1>14, <1>15, <1>16, <1>18, <1>19, <1>20, <1>21, <1>22
       DEF Next, Poll, Serve

\* What a step of pass p, to session record s, has to show of Working.
LEMMA WorkingPass ==
    ASSUME Working, NEW p \in Poller, DOMAIN session = Poller, NEW s,
           session' = [session EXCEPT ![p] = s], voice' = voice,
           \A m \in s.todo \cup s.blanks : voice[m] # None,
           \A m \in s.blanks : voice[m].blank,
           s.at \in {"message", "recover"} =>
              s.cur \in Msg /\ voice[s.cur] # None /\ ~voice[s.cur].blank,
           s.at # "message" => s.edits = <<>> /\ s.drops = {},
           s.at \in {"idle", "recover"} => s.blanks = {}
    PROVE  Working'
  <1>1. /\ session'[p] = s
        /\ \A q \in Poller \ {p} : session'[q] = session[q]
    OBVIOUS
  <1>2. QED
    BY <1>1 DEF Working

LEMMA CleanWorking ==
    ASSUME Working, NEW p \in Poller, DOMAIN session = Poller,
           NEW at, NEW ms, NEW m, voice' = voice,
           session' = [session EXCEPT ![p] = Clean(at, ms, m)],
           \A n \in ms : voice[n] # None,
           at \in {"message", "recover"} =>
              m \in Msg /\ voice[m] # None /\ ~voice[m].blank
    PROVE  Working'
  <1> DEFINE s == Clean(at, ms, m)
  <1>1. /\ s.at = at /\ s.todo = ms /\ s.cur = m
        /\ s.blanks = {} /\ s.edits = <<>> /\ s.drops = {}
    BY DEF Clean
  <1> HIDE DEF s
  <1>2. session' = [session EXCEPT ![p] = s]
    BY DEF s
  <1>3. QED
    BY <1>1, <1>2, WorkingPass

LEMMA CleanWorks ==
    ASSUME TypeOK, Working, NEW p \in Poller, voice' = voice,
           \/ session' = RolledBack(p) /\ session[p].at \in {"message", "recover"}
           \/ session' = NextMessage(p)
           \/ session' = [session EXCEPT ![p] = IdleSession]
    PROVE  Working'
  <1>1. DOMAIN session = Poller /\ \A m \in session[p].todo : voice[m] # None
    BY DEF TypeOK, Working
  <1>2. CASE session' = RolledBack(p) /\ session[p].at \in {"message", "recover"}
    <2>1. session' = [session EXCEPT
             ![p] = Clean("recover", session[p].todo, session[p].cur)]
      BY <1>2 DEF RolledBack
    <2>2. /\ session[p].cur \in Msg
          /\ voice[session[p].cur] # None
          /\ ~voice[session[p].cur].blank
      BY <1>2 DEF Working
    <2>3. QED
      BY <1>1, <2>1, <2>2, CleanWorking
  <1>3. CASE session' = NextMessage(p)
    <2>1. session' = [session EXCEPT
             ![p] = Clean("next", session[p].todo, None)]
      BY <1>3 DEF NextMessage
    <2>2. QED
      BY <1>1, <2>1, CleanWorking
  <1>4. CASE session' = [session EXCEPT ![p] = IdleSession]
    <2>1. session' = [session EXCEPT ![p] = Clean("idle", {}, None)]
      BY <1>4 DEF IdleSession
    <2> DEFINE ms == {}
    <2>2. \A n \in ms : voice[n] # None
      OBVIOUS
    <2>3. session' = [session EXCEPT ![p] = Clean("idle", ms, None)]
      BY <2>1
    <2> HIDE DEF ms
    <2>4. QED
      BY <1>1, <2>2, <2>3, CleanWorking
  <1>5. QED
    BY <1>2, <1>3, <1>4

THEOREM WorkingStep == TypeOK /\ Working /\ [Next]_vars => Working'
  <1> SUFFICES ASSUME TypeOK, Working, [Next]_vars
               PROVE  Working'
    OBVIOUS
  <1>0. DOMAIN session = Poller
    BY DEF TypeOK
  <1>1. ASSUME NEW m \in Msg, Complete(m)
        PROVE  Working'
    <2>1. voice[m] = None /\ session' = session
      BY <1>1 DEF Complete
    <2>2. \A n \in Msg : voice[n] # None => voice'[n] = voice[n]
      BY <1>1, <2>1 DEF Complete, TypeOK
    <2>3. \A p \in Poller : session[p].todo \cup session[p].blanks \subseteq Msg
      BY DEF TypeOK, Session
    <2>4. QED
      BY <2>1, <2>2, <2>3 DEF Working
  <1>2. ASSUME NEW p \in Poller, Fetch(p)
        PROVE  Working'
    <2> DEFINE s == [session[p] EXCEPT
                        !.at = "next",
                        !.todo = {m \in Msg : voice[m] # None
                                              /\ processed[m] = None}]
    <2>1. session' = [session EXCEPT ![p] = s] /\ voice' = voice
      BY <1>2 DEF Fetch
    <2>2. /\ s.at = "next" /\ s.blanks = {} /\ s.edits = <<>>
          /\ s.drops = {} /\ \A m \in s.todo : voice[m] # None
      BY <1>2 DEF Fetch, Working, TypeOK, Session
    <2> HIDE DEF s
    <2>3. QED
      BY <1>0, <2>1, <2>2, WorkingPass
  <1>3. ASSUME NEW p \in Poller, NEW m \in Msg, TakeBlank(p, m)
        PROVE  Working'
    <2> DEFINE s == [session[p] EXCEPT !.todo = @ \ {m},
                                       !.blanks = @ \cup {m}]
    <2>1. session' = [session EXCEPT ![p] = s] /\ voice' = voice
      BY <1>3 DEF TakeBlank
    <2>2. /\ s.at = "next" /\ s.edits = <<>> /\ s.drops = {}
          /\ \A n \in s.todo \cup s.blanks : voice[n] # None
          /\ \A n \in s.blanks : voice[n].blank
      BY <1>3 DEF TakeBlank, Working, TypeOK, Session
    <2> HIDE DEF s
    <2>3. QED
      BY <1>0, <2>1, <2>2, WorkingPass
  <1>4. ASSUME NEW p \in Poller, NEW m \in Msg, TakeMessage(p, m)
        PROVE  Working'
    <2> DEFINE s == [session[p] EXCEPT !.at = "message", !.todo = @ \ {m},
                                       !.cur = m, !.step = 1]
    <2>1. session' = [session EXCEPT ![p] = s] /\ voice' = voice
      BY <1>4 DEF TakeMessage
    <2>2. /\ s.at = "message" /\ s.cur = m
          /\ voice[m] # None /\ ~voice[m].blank
          /\ \A n \in s.todo \cup s.blanks : voice[n] # None
          /\ \A n \in s.blanks : voice[n].blank
      BY <1>4 DEF TakeMessage, Working, TypeOK, Session
    <2> HIDE DEF s
    <2>3. QED
      BY <1>0, <2>1, <2>2, WorkingPass
  <1>5. ASSUME NEW p \in Poller,
               SkipCommand(p) \/ UpdateTarget(p) \/ DeleteTarget(p)
        PROVE  Working'
    <2>1. /\ session[p].at = "message" /\ voice' = voice
          /\ DOMAIN session' = Poller
          /\ \A q \in Poller \ {p} : session'[q] = session[q]
      BY <1>0, <1>5 DEF SkipCommand, UpdateTarget, DeleteTarget, Executing
    <2>2. /\ session'[p].at = session[p].at
          /\ session'[p].todo = session[p].todo
          /\ session'[p].cur = session[p].cur
          /\ session'[p].blanks = session[p].blanks
      <3>1. CASE SkipCommand(p)
        BY <1>0, <3>1 DEF SkipCommand, TypeOK, Session
      <3>2. CASE UpdateTarget(p)
        BY <1>0, <3>2 DEF UpdateTarget, TypeOK, Session
      <3>3. CASE DeleteTarget(p)
        BY <1>0, <3>3 DEF DeleteTarget, TypeOK, Session
      <3>4. QED
        BY <1>5, <3>1, <3>2, <3>3
    <2>3. QED
      BY <2>1, <2>2 DEF Working
  <1>6. ASSUME NEW p \in Poller, CommitRefused(p) \/ MessageFault(p)
        PROVE  Working'
    BY <1>6, CleanWorks DEF CommitRefused, MessageFault, AtCommit
  <1>7. ASSUME NEW p \in Poller,
               \/ CommitMessage(p) \/ RecordError(p)
               \/ RecordErrorRefused(p) \/ RecordErrorFault(p)
        PROVE  Working'
    BY <1>7, CleanWorks DEF CommitMessage, RecordError, RecordErrorRefused,
                            RecordErrorFault
  <1>8. ASSUME NEW p \in Poller, FinishPass(p)
        PROVE  Working'
    BY <1>8, CleanWorks DEF FinishPass
  <1>9. ASSUME NEW c \in Client, Serve(c)
        PROVE  Working'
    <2>1. session' = session /\ voice' = voice
      BY <1>9 DEF Serve, LoadTaskForUpdate, LoadNoteForUpdate, LoadForDelete,
                  CommitUpdate, CommitDelete
    <2>2. QED
      BY <2>1 DEF Working
  <1>10. ASSUME Restart
         PROVE  Working'
    BY <1>10 DEF Restart, Working, IdleSession, Clean
  <1>11. ASSUME UNCHANGED vars
         PROVE  Working'
    BY <1>11 DEF vars, Working
  <1>12. QED
    BY <1>1, <1>2, <1>3, <1>4, <1>5, <1>6, <1>7, <1>8, <1>9, <1>10, <1>11
       DEF Next, Poll

-----------------------------------------------------------------------------
\* What a step leaves alone.

\* What a step does to voice, processed, faults and session.
LEMMA StepEffects ==
    ASSUME [Next]_vars
    PROVE  /\ \/ voice' = voice
              \/ \E m \in Msg : Complete(m)
           /\ \/ processed' = processed
              \/ \E p \in Poller : CommitMessage(p) \/ RecordError(p)
           /\ \/ faults' = faults
              \/ \E p \in Poller : MessageFault(p) \/ RecordErrorFault(p)
           /\ \/ session' = session
              \/ Restart
              \/ \E p \in Poller : Poll(p) \/ MessageFault(p)
                                   \/ RecordErrorFault(p)
  BY DEF Next, vars, Complete, Poll, Serve, Fetch, TakeBlank, TakeMessage,
         SkipCommand, UpdateTarget, DeleteTarget, CommitMessage,
         CommitRefused, MessageFault, RecordError, RecordErrorRefused,
         RecordErrorFault, FinishPass, Restart, LoadTaskForUpdate,
         LoadNoteForUpdate, LoadForDelete, CommitUpdate, CommitDelete

LEMMA VoiceStable ==
    ASSUME TypeOK, [Next]_vars, NEW m \in Msg, voice[m] # None
    PROVE  voice'[m] = voice[m]
  BY StepEffects DEF Complete, TypeOK

\* The session of a pass changes by its own steps and by a restart only.
LEMMA PassLocal ==
    ASSUME TypeOK, [Next]_vars, NEW p \in Poller
    PROVE  \/ session'[p] = session[p]
           \/ session'[p] = IdleSession
           \/ Poll(p) \/ MessageFault(p) \/ RecordErrorFault(p)
  <1>1. CASE Restart
    BY <1>1 DEF Restart
  <1>2. ASSUME NEW q \in Poller, q # p,
               Poll(q) \/ MessageFault(q) \/ RecordErrorFault(q)
        PROVE  session'[p] = session[p]
    BY <1>2 DEF TypeOK, Poll, Fetch, TakeBlank, TakeMessage, SkipCommand,
       UpdateTarget, DeleteTarget, CommitMessage, CommitRefused, MessageFault,
       RecordError, RecordErrorRefused, RecordErrorFault, FinishPass,
       NextMessage, RolledBack
  <1>3. QED
    BY <1>1, <1>2, StepEffects

-----------------------------------------------------------------------------

\* Whatever the constants, every variable keeps its type: in particular a
\* session never holds an edit of a row that was never inserted, and every
\* record of a message carries one of the three parse statuses.
THEOREM TypeCorrect == Spec => []TypeOK
  <1>1. Init => TypeOK /\ Working
    BY InitTypeOK DEF Init, Working, IdleSession, Clean
  <1>2. TypeOK /\ Working /\ [Next]_vars => TypeOK' /\ Working'
    BY TypeStep, WorkingStep
  <1>3. QED
    BY <1>1, <1>2, PTL DEF Spec

-----------------------------------------------------------------------------
\* No spoken message is given up without a cause of its own, provided no
\* transcription is blank.  (With blank ones the invariant fails: the run
\* pipeline_blank_loss shows how.)

NoBlanks == \A t \in Transcripts : ~t.blank

Cause(m) ==
    \/ ~voice[m].sound
    \/ \E k \in DOMAIN voice[m].commands : voice[m].commands[k].op = "update"
    \/ faults[m] > 0

\* LossHasCause made inductive: a pass that is about to record an error has
\* the cause already, unless the message is recorded and it will be refused;
\* and a session holds edits only for a message with an update command.
LossInv ==
    /\ \A m \in Msg : processed[m] # None => voice[m] # None
    /\ \A m \in Msg : processed[m] = "error" => Cause(m)
    /\ \A p \in Poller :
          session[p].at = "recover" =>
             Cause(session[p].cur) \/ processed[session[p].cur] # None
    /\ \A p \in Poller :
          session[p].at = "message" /\ DOMAIN session[p].edits # {} =>
             Cause(session[p].cur)

\* A completed message keeps its transcription, its causes and its record.
LEMMA CauseStable ==
    ASSUME TypeOK, Working, [Next]_vars, NEW m \in Msg, voice[m] # None
    PROVE  /\ voice'[m] = voice[m]
           /\ Cause(m) => Cause(m)'
           /\ processed[m] # None => processed'[m] # None
  <1>1. voice'[m] = voice[m]
    BY VoiceStable
  <1>2. faults[m] > 0 => faults'[m] > 0
    <2>1. CASE faults' = faults
      BY <2>1
    <2>2. ASSUME NEW p \in Poller, MessageFault(p) \/ RecordErrorFault(p)
          PROVE  faults[m] > 0 => faults'[m] > 0
      <3>1. faults' = [faults EXCEPT ![session[p].cur] = @ + 1]
        BY <2>2 DEF MessageFault, RecordErrorFault
      <3>2. faults[m] \in Nat
        BY DEF TypeOK
      <3>3. QED
        BY <3>1, <3>2 DEF TypeOK
    <2>3. QED
      BY <2>1, <2>2, StepEffects
  <1>3. processed[m] # None => processed'[m] # None
    <2>1. \A s \in ParseStatus : s # None
      BY NoneAssumption
    <2>2. ASSUME NEW p \in Poller, CommitMessage(p)
          PROVE  processed[m] # None => processed'[m] # None
      <3>1. processed'[m] \in {processed[m], "no_commands",
                               Outcome(voice[session[p].cur])}
        BY <2>2 DEF CommitMessage, TypeOK
      <3>2. {"no_commands", Outcome(voice[session[p].cur])} \subseteq ParseStatus
        BY DEF Outcome, ParseStatus
      <3>3. QED
        BY <2>1, <3>1, <3>2
    <2>3. ASSUME NEW p \in Poller, RecordError(p)
          PROVE  processed[m] # None => processed'[m] # None
      BY <2>1, <2>3 DEF RecordError, TypeOK, ParseStatus
    <2>4. QED
      BY <2>2, <2>3, StepEffects
  <1>4. QED
    BY <1>1, <1>2, <1>3 DEF Cause

\* A pass reaches "recover" with a cause or with its message recorded.
LEMMA RolledBackHasCause ==
    ASSUME NoBlanks, TypeOK, Working, LossInv, NEW p \in Poller,
           CommitRefused(p) \/ MessageFault(p), NEW m, m = session[p].cur
    PROVE  Cause(m)' \/ processed'[m] # None
  <1>1. m \in Msg /\ voice[m] # None /\ session[p].at = "message"
    BY DEF Working, CommitRefused, MessageFault, AtCommit
  <1>2. CASE CommitRefused(p)
    <2>1. voice' = voice /\ faults' = faults /\ processed' = processed
      BY <1>2 DEF CommitRefused
    <2>2. session[p].blanks = {}
      BY <1>1 DEF Working, TypeOK, NoBlanks, Session
    <2>3. CASE ~voice[m].sound
      BY <2>1, <2>3 DEF Cause
    <2>4. CASE ~Unrecorded(session[p].blanks \cup {m})
      BY <2>1, <2>2, <2>4 DEF Unrecorded
    <2>5. CASE ~NoneStale(p)
      <3>1. Cause(m)
        BY <1>1, <2>5 DEF NoneStale, LossInv
      <3>2. QED
        BY <2>1, <3>1 DEF Cause
    <2>6. QED
      BY <1>2, <2>3, <2>4, <2>5 DEF CommitRefused, Committable
  <1>3. CASE MessageFault(p)
    <2>1. faults'[m] = faults[m] + 1 /\ faults[m] \in Nat
      BY <1>1, <1>3 DEF MessageFault, TypeOK
    <2>2. QED
      BY <1>1, <2>1 DEF Cause
  <1>4. QED
    BY <1>1, <1>2, <1>3

THEOREM LossStep ==
    ASSUME NoBlanks, TypeOK, Working, LossInv, [Next]_vars
    PROVE  LossInv'
  <1>0. \A s \in ParseStatus : s # None
    BY NoneAssumption
  <1>1. ASSUME NEW m \in Msg, processed'[m] # None
        PROVE  voice'[m] # None
    <2>1. voice[m] # None => voice'[m] # None
      BY CauseStable
    <2>2. CASE processed[m] # None
      BY <2>1, <2>2 DEF LossInv
    <2>3. ASSUME NEW p \in Poller, CommitMessage(p), processed[m] = None
          PROVE  voice[m] # None
      <3>1. m = session[p].cur \/ m \in session[p].blanks
        BY <1>1, <2>3 DEF CommitMessage, TypeOK
      <3>2. QED
        BY <2>3, <3>1 DEF Working, CommitMessage, AtCommit
    <2>4. ASSUME NEW p \in Poller, RecordError(p), processed[m] = None
          PROVE  voice[m] # None
      <3>1. m = session[p].cur
        BY <1>1, <2>4 DEF RecordError, TypeOK
      <3>2. QED
        BY <2>4, <3>1 DEF Working, RecordError
    <2>5. QED
      BY <1>1, <2>1, <2>2, <2>3, <2>4, StepEffects
  <1>2. ASSUME NEW m \in Msg, processed'[m] = "error"
        PROVE  Cause(m)'
    <2>1. CASE processed[m] = "error"
      <3>1. voice[m] # None /\ Cause(m)
        BY <1>0, <2>1 DEF LossInv, ParseStatus
      <3>2. QED
        BY <3>1, CauseStable
    <2>2. ASSUME NEW p \in Poller, CommitMessage(p), processed[m] # "error"
          PROVE  FALSE
      <3>1. processed'[m] \in {processed[m], "no_commands",
                               Outcome(voice[session[p].cur])}
        BY <2>2 DEF CommitMessage, TypeOK
      <3>2. QED
        BY <1>2, <2>2, <3>1 DEF Outcome
    <2>3. ASSUME NEW p \in Poller, RecordError(p), processed[m] # "error"
          PROVE  Cause(m)'
      <3>1. m = session[p].cur /\ processed[m] = None
        BY <1>2, <2>3 DEF RecordError, TypeOK, Unrecorded
      <3>2. Cause(m) /\ voice[m] # None
        BY <2>3, <3>1 DEF RecordError, LossInv, Working
      <3>3. QED
        BY <3>2, CauseStable
    <2>4. QED
      BY <1>2, <2>1, <2>2, <2>3, StepEffects
  <1>3. ASSUME NEW p \in Poller, session'[p] = session[p]
        PROVE  /\ (session[p].at = "recover" =>
                     Cause(session[p].cur) \/ processed[session[p].cur] # None)'
               /\ (session[p].at = "message" /\ DOMAIN session[p].edits # {} =>
                     Cause(session[p].cur))'
    BY <1>3, CauseStable DEF LossInv, Working
  <1>4. ASSUME NEW p \in Poller, Poll(p) \/ MessageFault(p) \/ RecordErrorFault(p)
        PROVE  /\ (session[p].at = "recover" =>
                     Cause(session[p].cur) \/ processed[session[p].cur] # None)'
               /\ (session[p].at = "message" /\ DOMAIN session[p].edits # {} =>
                     Cause(session[p].cur))'
    <2>0. DOMAIN session = Poller
      BY DEF TypeOK
    <2>1. CASE CommitRefused(p) \/ MessageFault(p)
      <3>1. session'[p] = Clean("recover", session[p].todo, session[p].cur)
        BY <2>0, <2>1 DEF CommitRefused, MessageFault, RolledBack
      <3>2. session'[p].at = "recover" /\ session'[p].cur = session[p].cur
        BY <3>1 DEF Clean
      <3>3. QED
        BY <2>1, <3>2, RolledBackHasCause
    <2>2. CASE \/ CommitMessage(p) \/ RecordError(p) \/ RecordErrorRefused(p)
               \/ RecordErrorFault(p) \/ FinishPass(p)
      <3>1. session'[p].at \in {"next", "idle"}
        BY <2>0, <2>2 DEF CommitMessage, RecordError, RecordErrorRefused,
              RecordErrorFault, FinishPass, NextMessage, Clean, IdleSession
      <3>2. QED
        BY <3>1
    <2>3. CASE Fetch(p) \/ \E m \in Msg : TakeBlank(p, m)
      <3>1. session'[p].at = "next"
        BY <2>0, <2>3 DEF Fetch, TakeBlank, TypeOK, Session
      <3>2. QED
        BY <3>1
    <2>4. CASE \E m \in Msg : TakeMessage(p, m)
      <3>1. session'[p].at = "message" /\ session'[p].edits = <<>>
        BY <2>0, <2>4 DEF TakeMessage, TypeOK, Session, Working
      <3>2. QED
        BY <3>1
    <2>5. CASE SkipCommand(p) \/ UpdateTarget(p) \/ DeleteTarget(p)
      <3>1. /\ session[p].at = "message"
            /\ session[p].cur \in Msg /\ voice[session[p].cur] # None
        BY <2>5 DEF SkipCommand, UpdateTarget, DeleteTarget, Executing, Working
      <3>2. CASE UpdateTarget(p)
        <4>1. Cause(session[p].cur)
          BY <3>2 DEF UpdateTarget, Executing, CurrentCommand, Cause
        <4>2. session'[p].cur = session[p].cur /\ session'[p].at = "message"
          BY <2>0, <3>1, <3>2 DEF UpdateTarget, TypeOK, Session
        <4>3. QED
          BY <3>1, <4>1, <4>2, CauseStable
      <3>3. CASE SkipCommand(p) \/ DeleteTarget(p)
        <4>1. /\ session'[p].cur = session[p].cur /\ session'[p].at = "message"
              /\ DOMAIN session'[p].edits \subseteq DOMAIN session[p].edits
          <5>1. CASE SkipCommand(p)
            BY <2>0, <3>1, <5>1 DEF SkipCommand, TypeOK, Session
          <5>2. CASE DeleteTarget(p)
            <6>1. PICK i \in Target(p) :
                     session' = [session EXCEPT
                        ![p].step = @ + 1,
                        ![p].drops = @ \cup {i},
                        ![p].edits = [j \in DOMAIN @ \ {i} |-> @[j]]]
              BY <5>2 DEF DeleteTarget
            <6>2. QED
              BY <2>0, <3>1, <6>1 DEF TypeOK, Session
          <5>3. QED
            BY <3>3, <5>1, <5>2
        <4>2. DOMAIN session'[p].edits # {} => Cause(session[p].cur)
          BY <3>1, <4>1 DEF LossInv
        <4>3. QED
          BY <3>1, <4>1, <4>2, CauseStable
      <3>4. QED
        BY <2>5, <3>2, <3>3
    <2>6. QED
      BY <1>4, <2>1, <2>2, <2>3, <2>4, <2>5 DEF Poll
  <1>5. ASSUME NEW p \in Poller
        PROVE  \/ session'[p] = session[p]
               \/ session'[p].at = "idle"
               \/ Poll(p) \/ MessageFault(p) \/ RecordErrorFault(p)
    BY PassLocal DEF IdleSession, Clean
  <1>6. QED
    BY <1>1, <1>2, <1>3, <1>4, <1>5 DEF LossInv

\* Without blank transcriptions, for any number of passes, faults and
\* restarts, a message is recorded as an error only when its own values do
\* not fit, it updates a row, or the database failed on it.
THEOREM LossTheorem == ASSUME NoBlanks PROVE Spec => []LossHasCause
  <1>1. Init => TypeOK /\ Working /\ LossInv
    BY InitTypeOK, NoneAssumption
       DEF Init, Working, LossInv, IdleSession, Clean, ParseStatus
  <1>2. TypeOK /\ Working /\ LossInv /\ [Next]_vars
           => TypeOK' /\ Working' /\ LossInv'
    BY TypeStep, WorkingStep, LossStep
  <1>3. LossInv => LossHasCause
    BY DEF LossInv, Cause, LossHasCause
  <1>4. QED
    BY <1>1, <1>2, <1>3, PTL DEF Spec

-----------------------------------------------------------------------------
\* closed_at and status part only in the commit of an overtaken edit, for any
\* strings as statuses and any number of them set by one transcription.

\* An edit that says of closed_at what it says of the status: it keeps it when
\* the task is neither closed nor reopened, and otherwise goes by the new status.
Stamped(e) ==
    /\ e.stamp = "kept" => ~Crosses(e)
    /\ e.stamp = "now" => e.to = "closed"
    /\ e.stamp = "null" => e.to # "closed"

\* StampFollowsStatus needs no more: every pending edit is stamped.
StampInv ==
    /\ \A p \in Poller : \A i \in DOMAIN session[p].edits :
          Stamped(session[p].edits[i])
    /\ \A c \in Client : Stamped(request[c].edit)

LEMMA LoadStamped == \A row \in Row : Stamped(Load(row))
  BY DEF Load, Stamped, Crosses, Row

LEMMA AssignStamped ==
    ASSUME NEW e \in Edit, Stamped(e), NEW s \in Status \cup {None}
    PROVE  Stamped(AssignIfGiven(e, s))
  BY DEF AssignIfGiven, Assign, StampFor, Stamped, Crosses, Edit

\* A stamped edit leaves a contradiction behind only if it spoils the row.
LEMMA WriteFits ==
    ASSUME NEW row \in Row, NEW e \in Edit, Stamped(e),
           ~StampFits(Write(row, e))
    PROVE  Spoils(row, e)
  <1>1. /\ Write(row, e).status = IF e.to # e.from THEN e.to ELSE row.status
        /\ Write(row, e).closed <=>
              \/ e.stamp = "now"
              \/ row.closed /\ ~(e.stamp = "null" /\ e.wasClosed)
    BY DEF Write, Row
  <1>2. row.closed \in BOOLEAN /\ e.wasClosed \in BOOLEAN
        /\ e.stamp \in {"kept", "now", "null"}
    BY DEF Row, Edit
  <1>3. CASE e.stamp = "kept"
    BY <1>1, <1>2, <1>3 DEF Stamped, Crosses, StampFits, Spoils, Overtaken
  <1>4. CASE e.stamp = "now"
    BY <1>1, <1>2, <1>4 DEF Stamped, Crosses, StampFits, Spoils, Overtaken
  <1>5. CASE e.stamp = "null"
    BY <1>1, <1>2, <1>5 DEF Stamped, Crosses, StampFits, Spoils, Overtaken
  <1>6. QED
    BY <1>2, <1>3, <1>4, <1>5

-----------------------------------------------------------------------------

\* The commit of a message: each row is new, as it was, deleted or written.
LEMMA CommitFits ==
    ASSUME TypeOK, Working, StampInv, NEW p \in Poller, CommitMessage(p),
           NEW i \in DOMAIN rows', rows'[i].live, ~StampFits(rows'[i])
    PROVE  /\ i \in DOMAIN rows
           /\ \/ rows'[i] = rows[i]
              \/ /\ i \in DOMAIN session[p].edits
                 /\ Spoils(rows[i], session[p].edits[i])
  <1> DEFINE m == session[p].cur
             old == Flushed(p)
             new == Births(m, voice[m])
  <1>1. m \in Msg /\ voice[m] \in Transcripts
    BY DEF CommitMessage, AtCommit, Working, TypeOK
  <1>2. /\ old \in Seq(Row) /\ Len(old) = Len(rows)
        /\ new \in Seq(Row)
        /\ DOMAIN old = DOMAIN rows
        /\ rows \in Seq(Row)
    BY <1>1, FlushedType, BirthsType DEF TypeOK
  <1>3. rows' = old \o new
    BY DEF CommitMessage
  <1>4. \A j \in DOMAIN new : StampFits(new[j])
    BY DEF Births, NewRow, StampFits
  <1>5. ASSUME NEW j \in DOMAIN rows, old[j].live, ~StampFits(old[j])
        PROVE  \/ old[j] = rows[j]
               \/ /\ j \in DOMAIN session[p].edits
                  /\ Spoils(rows[j], session[p].edits[j])
    <2>1. rows[j] \in Row
      BY <1>2
    <2>2. CASE j \in session[p].drops
      BY <1>5, <2>1, <2>2 DEF Flushed, Drop, Row
    <2>3. CASE j \notin session[p].drops /\ j \in DOMAIN session[p].edits
      <3>1. old[j] = Write(rows[j], session[p].edits[j])
        BY <2>3 DEF Flushed
      <3>2. session[p].edits[j] \in Edit /\ Stamped(session[p].edits[j])
        BY <2>3 DEF StampInv, TypeOK, Session
      <3>3. QED
        BY <1>5, <2>1, <2>3, <3>1, <3>2, WriteFits
    <2>4. CASE j \notin session[p].drops /\ j \notin DOMAIN session[p].edits
      BY <2>4 DEF Flushed
    <2>5. QED
      BY <2>2, <2>3, <2>4
  <1> HIDE DEF old, new
  <1>6. \/ i \in DOMAIN old /\ rows'[i] = old[i]
        \/ i - Len(old) \in DOMAIN new /\ rows'[i] = new[i - Len(old)]
    BY <1>2, <1>3
  <1>7. i \in DOMAIN rows /\ rows'[i] = old[i]
    BY <1>2, <1>4, <1>6
  <1>8. QED
    BY <1>5, <1>7

\* The commit of a request writes one row, if it is still there.
LEMMA RequestFits ==
    ASSUME TypeOK, StampInv, NEW c \in Client,
           CommitUpdate(c) \/ CommitDelete(c),
           NEW i \in DOMAIN rows', rows'[i].live, ~StampFits(rows'[i])
    PROVE  /\ i \in DOMAIN rows
           /\ \/ rows'[i] = rows[i]
              \/ /\ CommitUpdate(c) /\ request[c].id = i
                 /\ Spoils(rows[i], request[c].edit)
  <1>0. rows \in Seq(Row) /\ \A j \in DOMAIN rows : rows[j] \in Row
    BY DEF TypeOK
  <1>1. CASE CommitUpdate(c) /\ rows[request[c].id].live
    <2> DEFINE k == request[c].id
               w == Write(rows[k], request[c].edit)
    <2>1. rows' = [rows EXCEPT ![k] = w]
      BY <1>1 DEF CommitUpdate
    <2>2. request[c].edit \in Edit /\ Stamped(request[c].edit)
      BY DEF StampInv, TypeOK, Request
    <2>3. i \in DOMAIN rows /\ (i # k => rows'[i] = rows[i])
          /\ (i = k => rows'[i] = w)
      BY <2>1
    <2>4. i = k => Spoils(rows[i], request[c].edit)
      BY <1>0, <2>2, <2>3, WriteFits
    <2>5. QED
      BY <1>1, <2>3, <2>4
  <1>2. CASE CommitUpdate(c) /\ ~rows[request[c].id].live
    BY <1>2 DEF CommitUpdate
  <1>3. CASE CommitDelete(c)
    <2> DEFINE k == request[c].id
    <2>1. rows' = [rows EXCEPT ![k] = [rows[k] EXCEPT !.live = FALSE]]
      BY <1>3 DEF CommitDelete
    <2>2. \A j \in DOMAIN rows' : rows'[j].live => rows'[j] = rows[j]
      BY <1>0, <2>1 DEF Row
    <2>3. DOMAIN rows' = DOMAIN rows
      BY <2>1
    <2>4. QED
      BY <2>2, <2>3
  <1>4. QED
    BY <1>1, <1>2, <1>3

-----------------------------------------------------------------------------

\* What StampInv says of the edits of one pass.
EditsInv(p) == \A i \in DOMAIN session[p].edits : Stamped(session[p].edits[i])

\* The commands of a message keep its edits stamped.
LEMMA CommandStamped ==
    ASSUME TypeOK, Working, StampInv, NEW p \in Poller,
           UpdateTarget(p) \/ SkipCommand(p) \/ DeleteTarget(p)
    PROVE  EditsInv(p)'
  <1> DEFINE e == session[p].edits
  <1>1. /\ DOMAIN session = Poller
        /\ session[p] \in Session(DOMAIN e)
        /\ \A j \in DOMAIN e : e[j] \in Edit /\ Stamped(e[j])
    BY DEF TypeOK, Session, StampInv
  <1>2. CASE UpdateTarget(p)
    <2>1. PICK i \in Target(p) :
             session' = [session EXCEPT
                ![p].step = @ + 1,
                ![p].edits = IF i \in session[p].drops THEN @
                             ELSE [j \in DOMAIN @ \cup {i} |->
                                     IF j = i THEN EditAfter(p, i) ELSE @[j]]]
      BY <1>2 DEF UpdateTarget
    <2>2. i \in DOMAIN rows /\ rows[i] \in Row
      BY DEF Target, Numbered, Live, TypeOK
    <2>3. CurrentCommand(p).status \in Status \cup {None}
      <3>1. /\ voice[session[p].cur] \in Transcripts
            /\ session[p].step \in DOMAIN voice[session[p].cur].commands
        BY <1>2 DEF UpdateTarget, Executing, Working, TypeOK
      <3>2. CurrentCommand(p) \in Command
        BY <3>1, TranscriptsAssumption DEF CurrentCommand, Transcript
      <3>3. QED
        BY <3>2 DEF Command
    <2> DEFINE cached == IF i \in DOMAIN e THEN e[i] ELSE Load(rows[i])
               st == IF rows[i].table = "task"
                     THEN CurrentCommand(p).status ELSE None
    <2>4. cached \in Edit /\ Stamped(cached) /\ st \in Status \cup {None}
      BY <1>1, <2>2, <2>3, LoadStamped, LoadType
    <2>5. EditAfter(p, i) = AssignIfGiven(cached, st)
      BY DEF EditAfter
    <2> HIDE DEF cached, st
    <2>6. Stamped(EditAfter(p, i))
      BY <2>4, <2>5, AssignStamped
    <2>7. session'[p].edits = IF i \in session[p].drops THEN e
                              ELSE [j \in DOMAIN e \cup {i} |->
                                      IF j = i THEN EditAfter(p, i) ELSE e[j]]
      BY <1>1, <2>1 DEF Session
    <2>8. QED
      BY <1>1, <2>6, <2>7 DEF EditsInv
  <1>3. CASE SkipCommand(p)
    BY <1>1, <1>3 DEF SkipCommand, Session, EditsInv
  <1>4. CASE DeleteTarget(p)
    <2>1. PICK i \in Target(p) :
             session' = [session EXCEPT
                ![p].step = @ + 1,
                ![p].drops = @ \cup {i},
                ![p].edits = [j \in DOMAIN @ \ {i} |-> @[j]]]
      BY <1>4 DEF DeleteTarget
    <2>2. QED
      BY <1>1, <2>1 DEF Session, EditsInv
  <1>5. QED
    BY <1>2, <1>3, <1>4

\* Every step keeps every pending edit stamped.
THEOREM StampStep ==
    ASSUME TypeOK, Working, StampInv, [Next]_vars
    PROVE  StampInv'
  <1>1. ASSUME NEW p \in Poller
        PROVE  EditsInv(p)'
    <2>1. CASE DOMAIN session'[p].edits = {}
      BY <2>1 DEF EditsInv
    <2>2. CASE session'[p] = session[p]
      BY <2>2 DEF EditsInv, StampInv
    <2>3. CASE UpdateTarget(p) \/ SkipCommand(p) \/ DeleteTarget(p)
      BY <2>3, CommandStamped
    <2>4. CASE \/ CommitRefused(p) \/ MessageFault(p) \/ CommitMessage(p)
               \/ RecordError(p) \/ RecordErrorRefused(p)
               \/ RecordErrorFault(p) \/ FinishPass(p)
               \/ session'[p] = IdleSession
      <3>0. \/ session' = RolledBack(p) \/ session' = NextMessage(p)
            \/ session'[p] = IdleSession
        BY <2>4 DEF TypeOK, CommitMessage, CommitRefused, MessageFault,
              RecordError, RecordErrorRefused, RecordErrorFault, FinishPass
      <3>1. session'[p].edits = <<>>
        <4>1. \A at, ms, m : Clean(at, ms, m).edits = <<>>
          BY DEF Clean
        <4>2. DOMAIN session = Poller
          BY DEF TypeOK
        <4>3. CASE session' = RolledBack(p)
          BY <4>1, <4>2, <4>3 DEF RolledBack
        <4>4. CASE session' = NextMessage(p)
          BY <4>1, <4>2, <4>4 DEF NextMessage
        <4>5. CASE session'[p] = IdleSession
          <5>1. IdleSession.edits = <<>>
            BY <4>1 DEF IdleSession
          <5>2. QED
            BY <4>5, <5>1
        <4>6. QED
          BY <3>0, <4>3, <4>4, <4>5
      <3>2. QED
        BY <2>1, <3>1
    <2>5. CASE Fetch(p) \/ \E m \in Msg : TakeBlank(p, m) \/ TakeMessage(p, m)
      <3>0. /\ session[p] \in Session(DOMAIN session[p].edits)
            /\ DOMAIN session = Poller
        BY DEF TypeOK
      <3>1. session'[p].edits = <<>>
        <4>1. session[p].edits = <<>>
          BY <2>5 DEF Fetch, TakeBlank, TakeMessage, Working
        <4>2. CASE Fetch(p)
          BY <3>0, <4>1, <4>2 DEF Fetch, Session
        <4>3. CASE \E m \in Msg : TakeBlank(p, m)
          BY <3>0, <4>1, <4>3 DEF TakeBlank, Session
        <4>4. CASE \E m \in Msg : TakeMessage(p, m)
          BY <3>0, <4>1, <4>4 DEF TakeMessage, Session
        <4>5. QED
          BY <2>5, <4>2, <4>3, <4>4
      <3>2. QED
        BY <2>1, <3>1
    <2>6. QED
      BY <2>2, <2>3, <2>4, <2>5, PassLocal DEF Poll
  <1>2. ASSUME NEW c \in Client
        PROVE  Stamped(request'[c].edit)
    <2>1. CASE request'[c] = request[c]
      BY <2>1 DEF StampInv
    <2>2. CASE request'[c].edit = NoRequest.edit
      BY <2>2 DEF NoRequest, Stamped, Crosses
    <2>3. ASSUME NEW i \in DOMAIN rows, NEW s \in Status \cup {None},
                 LoadTaskForUpdate(c, i, s)
          PROVE  Stamped(request'[c].edit)
      <3>1. rows[i] \in Row
        BY DEF TypeOK
      <3>2. request'[c].edit = AssignIfGiven(Load(rows[i]), s)
        BY <2>3 DEF LoadTaskForUpdate, TypeOK
      <3>3. QED
        BY <3>1, <3>2, LoadStamped, LoadType, AssignStamped
    <2>4. ASSUME NEW i \in DOMAIN rows, LoadNoteForUpdate(c, i)
          PROVE  Stamped(request'[c].edit)
      <3>1. request'[c].edit = Load(rows[i])
        BY <2>4 DEF LoadNoteForUpdate, TypeOK
      <3>2. QED
        BY <3>1, LoadStamped DEF TypeOK
    <2>5. \/ request'[c] = request[c] \/ request'[c].edit = NoRequest.edit
          \/ \E i \in DOMAIN rows, s \in Status \cup {None} :
                LoadTaskForUpdate(c, i, s)
          \/ \E i \in DOMAIN rows : LoadNoteForUpdate(c, i)
      <3>1. CASE Restart
        BY <3>1 DEF Restart
      <3>2. ASSUME NEW d \in Client, Serve(d), d # c
            PROVE  request'[c] = request[c]
        BY <3>2 DEF Serve, LoadTaskForUpdate, LoadNoteForUpdate,
           LoadForDelete, CommitUpdate, CommitDelete, TypeOK
      <3>3. ASSUME CommitUpdate(c) \/ CommitDelete(c)
                   \/ \E i \in DOMAIN rows : LoadForDelete(c, i)
            PROVE  request'[c].edit = NoRequest.edit
        BY <3>3 DEF LoadForDelete, CommitUpdate, CommitDelete, TypeOK
      <3>4. request' = request \/ Restart \/ \E d \in Client : Serve(d)
        BY DEF Next, vars, Complete, Poll, Fetch, TakeBlank, TakeMessage,
         SkipCommand, UpdateTarget, DeleteTarget, CommitMessage,
         CommitRefused, MessageFault, RecordError, RecordErrorRefused,
         RecordErrorFault, FinishPass
      <3>5. QED
        BY <3>1, <3>2, <3>3, <3>4 DEF Serve
    <2>6. QED
      BY <2>1, <2>2, <2>3, <2>4, <2>5
  <1>3. QED
    BY <1>1, <1>2 DEF StampInv, EditsInv

\* For any statuses, transcriptions, passes, PATCH requests, faults and
\* restarts: closed_at and status of a task part only in the commit of an edit
\* overtaken by another commit, and closing or reopening a task makes them fit
\* unless it was loaded with the two in contradiction.
THEOREM StampTheorem == Spec => StampFollowsStatus
  <1>1. Init => TypeOK /\ Working /\ StampInv
    <2>1. Init => TypeOK
      BY InitTypeOK
    <2>2. Init => Working
      BY DEF Init, Working, IdleSession, Clean
    <2>3. Init => StampInv
      BY DEF Init, StampInv, IdleSession, Clean, NoRequest, Stamped, Crosses
    <2>4. QED
      BY <2>1, <2>2, <2>3
  <1>2. TypeOK /\ Working /\ StampInv /\ [Next]_vars
           => TypeOK' /\ Working' /\ StampInv'
    BY TypeStep, WorkingStep, StampStep
  <1> DEFINE Follows(i) ==
                /\ i \in DOMAIN rows
                /\ \/ rows'[i] = rows[i]
                   \/ \E p \in Poller : /\ CommitMessage(p)
                                        /\ i \in DOMAIN session[p].edits
                                        /\ Spoils(rows[i], session[p].edits[i])
                   \/ \E c \in Client : /\ CommitUpdate(c)
                                        /\ request[c].id = i
                                        /\ Spoils(rows[i], request[c].edit)
  <1>3. ASSUME TypeOK, Working, StampInv, [Next]_vars,
               NEW i \in DOMAIN rows', rows'[i].live, ~StampFits(rows'[i])
        PROVE  Follows(i)
    <2>1. \/ rows' = rows
          \/ \E p \in Poller : CommitMessage(p)
          \/ \E c \in Client : CommitUpdate(c) \/ CommitDelete(c)
      BY <1>3 DEF Next, vars, Complete, Poll, Serve, Fetch, TakeBlank,
         TakeMessage, SkipCommand, UpdateTarget, DeleteTarget, CommitRefused,
         MessageFault, RecordError, RecordErrorRefused, RecordErrorFault,
         FinishPass, Restart, LoadTaskForUpdate, LoadNoteForUpdate,
         LoadForDelete
    <2>2. QED
      BY <1>3, <2>1, CommitFits, RequestFits
  <1>4. TypeOK /\ Working /\ StampInv /\ [Next]_vars =>
           [\A i \in DOMAIN rows' :
               rows'[i].live /\ ~StampFits(rows'[i]) => Follows(i)]_vars
    BY <1>3
  <1>5. QED
    BY <1>1, <1>2, <1>4, PTL DEF Spec, StampFollowsStatus

-----------------------------------------------------------------------------
\* The pipeline implements the ledger: under any interleaving of passes,
\* requests, faults and restarts, every message is settled at most once, and
\* its rows appear and disappear in the step that records it.

\* The delete commands the message of pass p has already executed.
DeletesDone(p) ==
    {k \in DeleteSteps(voice[session[p].cur]) : k < session[p].step}

DropsInv(p) ==
    /\ IsFiniteSet(session[p].drops)
    /\ session[p].at = "message" =>
          Cardinality(session[p].drops) <= Cardinality(DeletesDone(p))

\* A session marks at most one row deleted per delete command executed.
DropsBound == \A p \in Poller : DropsInv(p)

LEMMA StepsFinite ==
    ASSUME NEW t \in Transcripts
    PROVE  /\ IsFiniteSet(DeleteSteps(t))
           /\ DeleteSteps(t) \subseteq Nat
  <1>1. t.commands \in Seq(Command)
    BY TranscriptsAssumption DEF Transcript
  <1>2. DOMAIN t.commands = 1..Len(t.commands) /\ Len(t.commands) \in Nat
    BY <1>1
  <1>3. IsFiniteSet(1..Len(t.commands))
    BY <1>2, FS_Interval
  <1>4. DeleteSteps(t) \subseteq 1..Len(t.commands)
    BY <1>2 DEF DeleteSteps
  <1>5. QED
    BY <1>3, <1>4, FS_Subset

LEMMA CurrentMessage ==
    ASSUME TypeOK, Working, NEW p \in Poller, session[p].at = "message"
    PROVE  /\ session[p].cur \in Msg
           /\ voice[session[p].cur] \in Transcripts
           /\ session[p].step \in Nat
           /\ IsFiniteSet(DeletesDone(p))
           /\ Cardinality(DeletesDone(p)) \in Nat
  <1>1. /\ session[p].cur \in Msg
        /\ voice[session[p].cur] \in Transcripts
        /\ session[p].step \in Nat
    BY DEF Working, TypeOK, Session
  <1>2. DeletesDone(p) \subseteq DeleteSteps(voice[session[p].cur])
    BY DEF DeletesDone
  <1>3. IsFiniteSet(DeletesDone(p))
    BY <1>1, <1>2, StepsFinite, FS_Subset
  <1>4. QED
    BY <1>1, <1>3, FS_CardinalityType

LEMMA DeleteCounted ==
    ASSUME TypeOK, Working, NEW p \in Poller, DropsInv(p), DeleteTarget(p)
    PROVE  DropsInv(p)'
  <1> DEFINE k == session[p].step
             t == voice[session[p].cur]
  <1>1. PICK i \in Target(p) :
           session' = [session EXCEPT
              ![p].step = @ + 1,
              ![p].drops = @ \cup {i},
              ![p].edits = [j \in DOMAIN @ \ {i} |-> @[j]]]
    BY DEF DeleteTarget
  <1>2. /\ session[p].at = "message" /\ k \in DeleteSteps(t) /\ voice' = voice
    BY DEF DeleteTarget, Executing, CurrentCommand, DeleteSteps
  <1>3. /\ session'[p].cur = session[p].cur
        /\ session'[p].step = k + 1
        /\ session'[p].drops = session[p].drops \cup {i}
    BY <1>1 DEF TypeOK, Session
  <1>4. /\ k \in Nat /\ t \in Transcripts
        /\ IsFiniteSet(DeletesDone(p)) /\ Cardinality(DeletesDone(p)) \in Nat
    BY <1>2, CurrentMessage
  <1>5. DeletesDone(p)' = DeletesDone(p) \cup {k} /\ k \notin DeletesDone(p)
    BY <1>2, <1>3, <1>4, StepsFinite DEF DeletesDone
  <1>6. Cardinality(DeletesDone(p))' = Cardinality(DeletesDone(p)) + 1
    BY <1>4, <1>5, FS_AddElement
  <1>7. /\ IsFiniteSet(session[p].drops)
        /\ Cardinality(session[p].drops) \in Nat
        /\ Cardinality(session[p].drops) <= Cardinality(DeletesDone(p))
    BY <1>2, FS_CardinalityType DEF DropsInv
  <1>8. /\ IsFiniteSet(session'[p].drops)
        /\ Cardinality(session'[p].drops) <= Cardinality(session[p].drops) + 1
    <2> DEFINE D == session[p].drops
    <2>1. /\ IsFiniteSet(D \cup {i})
          /\ Cardinality(D \cup {i}) =
                IF i \in D THEN Cardinality(D) ELSE Cardinality(D) + 1
      BY <1>7, FS_AddElement
    <2>2. Cardinality(D \cup {i}) <= Cardinality(D) + 1
      <3> HIDE DEF D
      <3>1. Cardinality(D) \in Nat
        BY <1>7 DEF D
      <3>2. QED
        BY <2>1, <3>1
    <2>3. QED
      BY <1>3, <2>1, <2>2
  <1>9. Cardinality(session'[p].drops) \in Nat
    BY <1>8, FS_CardinalityType
  <1>10. QED
    BY <1>4, <1>6, <1>7, <1>8, <1>9 DEF DropsInv

\* A step to a longer prefix of the commands that marks nothing deleted.
LEMMA OthersCounted ==
    ASSUME TypeOK, Working, NEW p \in Poller, DropsInv(p),
           SkipCommand(p) \/ UpdateTarget(p)
    PROVE  DropsInv(p)'
  <1>1. /\ session[p].at = "message" /\ voice' = voice
        /\ session'[p].cur = session[p].cur
        /\ session'[p].step = session[p].step + 1
        /\ session'[p].drops = session[p].drops
    <2>1. CASE SkipCommand(p)
      BY <2>1 DEF SkipCommand, Executing, TypeOK, Session
    <2>2. CASE UpdateTarget(p)
      <3>1. PICK i \in Target(p) :
               session' = [session EXCEPT
                  ![p].step = @ + 1,
                  ![p].edits = IF i \in session[p].drops THEN @
                               ELSE [j \in DOMAIN @ \cup {i} |->
                                     IF j = i THEN EditAfter(p, i) ELSE @[j]]]
        BY <2>2 DEF UpdateTarget
      <3>2. QED
        BY <2>2, <3>1 DEF UpdateTarget, Executing, TypeOK, Session
    <2>3. QED
      BY <2>1, <2>2
  <1>2. /\ session[p].step \in Nat /\ voice[session[p].cur] \in Transcripts
        /\ IsFiniteSet(DeletesDone(p)) /\ Cardinality(DeletesDone(p)) \in Nat
    BY <1>1, CurrentMessage
  <1>3. /\ DeletesDone(p) \subseteq DeletesDone(p)'
        /\ DeletesDone(p)' \subseteq DeleteSteps(voice[session[p].cur])
    BY <1>1, <1>2, StepsFinite DEF DeletesDone
  <1>4. /\ IsFiniteSet(DeletesDone(p)')
        /\ Cardinality(DeletesDone(p)) <= Cardinality(DeletesDone(p)')
    BY <1>2, <1>3, StepsFinite, FS_Subset
  <1>5. Cardinality(DeletesDone(p)') \in Nat
    BY <1>4, FS_CardinalityType
  <1>6. IsFiniteSet(session[p].drops) /\ Cardinality(session[p].drops) \in Nat
    BY FS_CardinalityType DEF DropsInv
  <1>7. QED
    BY <1>1, <1>2, <1>4, <1>5, <1>6 DEF DropsInv

THEOREM DropsStep ==
    ASSUME TypeOK, Working, DropsBound, [Next]_vars
    PROVE  DropsBound'
  <1> SUFFICES ASSUME NEW p \in Poller
               PROVE  DropsInv(p)'
    BY DEF DropsBound
  <1>0. /\ DropsInv(p)
        /\ DOMAIN session = Poller
        /\ session[p] \in Session(DOMAIN session[p].edits)
    BY DEF DropsBound, TypeOK
  <1>1. ASSUME session'[p].drops = {}
        PROVE  DropsInv(p)'
    <2>1. IsFiniteSet({}) /\ Cardinality({}) = 0
      BY FS_EmptySet
    <2>2. ASSUME session'[p].at = "message"
          PROVE  Cardinality(DeletesDone(p)') \in Nat
      <3>1. TypeOK' /\ Working'
        BY TypeStep, WorkingStep
      <3>2. voice'[session'[p].cur] \in Transcripts
        BY <2>2, <3>1 DEF TypeOK, Working
      <3>3. DeletesDone(p)' \subseteq DeleteSteps(voice'[session'[p].cur])
        BY DEF DeletesDone
      <3>4. QED
        BY <3>2, <3>3, StepsFinite, FS_Subset, FS_CardinalityType
    <2>3. QED
      BY <1>1, <2>1, <2>2 DEF DropsInv
  <1>2. CASE session'[p] = session[p] /\ session[p].at = "message"
    <2>1. voice'[session[p].cur] = voice[session[p].cur]
      BY <1>2, VoiceStable DEF Working
    <2>2. QED
      BY <1>0, <1>2, <2>1 DEF DropsInv, DeletesDone
  <1>3. CASE session'[p] = session[p] /\ session[p].at # "message"
    BY <1>1, <1>3 DEF Working
  <1>4. CASE DeleteTarget(p)
    BY <1>0, <1>4, DeleteCounted
  <1>5. CASE SkipCommand(p) \/ UpdateTarget(p)
    BY <1>0, <1>5, OthersCounted
  <1>6. CASE \/ CommitRefused(p) \/ MessageFault(p) \/ CommitMessage(p)
             \/ RecordError(p) \/ RecordErrorRefused(p)
             \/ RecordErrorFault(p) \/ FinishPass(p)
             \/ session'[p] = IdleSession
    <2>1. \A at, ms, m : Clean(at, ms, m).drops = {}
      BY DEF Clean
    <2>2. \/ session' = RolledBack(p) \/ session' = NextMessage(p)
          \/ session'[p] = IdleSession
      BY <1>0, <1>6 DEF CommitMessage, CommitRefused, MessageFault,
         RecordError, RecordErrorRefused, RecordErrorFault, FinishPass
    <2>3. CASE session' = RolledBack(p)
      BY <1>0, <1>1, <2>1, <2>3 DEF RolledBack
    <2>4. CASE session' = NextMessage(p)
      BY <1>0, <1>1, <2>1, <2>4 DEF NextMessage
    <2>5. CASE session'[p] = IdleSession
      <3>1. IdleSession.drops = {}
        BY <2>1 DEF IdleSession
      <3>2. QED
        BY <1>1, <2>5, <3>1
    <2>6. QED
      BY <2>2, <2>3, <2>4, <2>5
  <1>7. CASE Fetch(p) \/ \E m \in Msg : TakeBlank(p, m) \/ TakeMessage(p, m)
    <2>1. session[p].drops = {}
      BY <1>7 DEF Fetch, TakeBlank, TakeMessage, Working
    <2>2. CASE Fetch(p)
      BY <1>0, <1>1, <2>1, <2>2 DEF Fetch, Session
    <2>3. CASE \E m \in Msg : TakeBlank(p, m)
      BY <1>0, <1>1, <2>1, <2>3 DEF TakeBlank, Session
    <2>4. CASE \E m \in Msg : TakeMessage(p, m)
      BY <1>0, <1>1, <2>1, <2>4 DEF TakeMessage, Session
    <2>5. QED
      BY <1>7, <2>2, <2>3, <2>4
  <1>8. QED
    BY <1>2, <1>3, <1>4, <1>5, <1>6, <1>7, PassLocal DEF Poll

-----------------------------------------------------------------------------
\* The rows as the ledger sees them.

EntryOf(row) == [table |-> row.table, vm |-> row.vm, live |-> row.live,
                 dropper |-> row.dropper]

LedgerOf(rs) == [i \in DOMAIN rs |-> EntryOf(rs[i])]

Entries == {EntryOf(row) : row \in Row}

LEMMA LedgerOfType ==
    ASSUME NEW rs \in Seq(Row)
    PROVE  /\ LedgerOf(rs) \in Seq(Entries)
           /\ Len(LedgerOf(rs)) = Len(rs)
           /\ DOMAIN LedgerOf(rs) = 1..Len(rs)
           /\ \A i \in 1..Len(rs) : LedgerOf(rs)[i] = EntryOf(rs[i])
  <1>1. DOMAIN rs = 1..Len(rs) /\ Len(rs) \in Nat
    OBVIOUS
  <1>2. \A i \in 1..Len(rs) : EntryOf(rs[i]) \in Entries
    BY <1>1 DEF Entries
  <1>3. QED
    BY <1>1, <1>2 DEF LedgerOf

\* The ledger of the old rows and of the new ones, one after the other.
LEMMA LedgerOfConcat ==
    ASSUME NEW rs \in Seq(Row), NEW new \in Seq(Row)
    PROVE  LedgerOf(rs \o new) = LedgerOf(rs) \o LedgerOf(new)
  <1>1. /\ rs \o new \in Seq(Row)
        /\ Len(rs \o new) = Len(rs) + Len(new)
        /\ \A i \in 1 .. Len(rs) + Len(new) :
              (rs \o new)[i] = IF i <= Len(rs) THEN rs[i]
                               ELSE new[i - Len(rs)]
    BY ConcatProperties
  <1>2. /\ LedgerOf(rs) \o LedgerOf(new) \in Seq(Entries)
        /\ Len(LedgerOf(rs) \o LedgerOf(new)) = Len(rs) + Len(new)
        /\ \A i \in 1 .. Len(rs) + Len(new) :
              (LedgerOf(rs) \o LedgerOf(new))[i] =
                 IF i <= Len(rs) THEN LedgerOf(rs)[i]
                 ELSE LedgerOf(new)[i - Len(rs)]
    <2> DEFINE a == LedgerOf(rs)
               b == LedgerOf(new)
    <2>1. /\ a \in Seq(Entries) /\ Len(a) = Len(rs)
          /\ b \in Seq(Entries) /\ Len(b) = Len(new)
      BY LedgerOfType
    <2> HIDE DEF a, b
    <2>2. /\ a \o b \in Seq(Entries)
          /\ Len(a \o b) = Len(a) + Len(b)
          /\ \A i \in 1 .. Len(a) + Len(b) :
                (a \o b)[i] = IF i <= Len(a) THEN a[i] ELSE b[i - Len(a)]
      BY <2>1, ConcatProperties
    <2>3. QED
      BY <2>1, <2>2 DEF a, b
  <1>3. ASSUME NEW i \in 1 .. Len(rs) + Len(new)
        PROVE  LedgerOf(rs \o new)[i] = (LedgerOf(rs) \o LedgerOf(new))[i]
    <2>1. Len(rs) \in Nat /\ Len(new) \in Nat
      OBVIOUS
    <2>2. LedgerOf(rs \o new)[i] = EntryOf((rs \o new)[i])
      BY <1>1, LedgerOfType
    <2>3. CASE i <= Len(rs)
      <3>1. i \in 1..Len(rs)
        BY <2>1, <2>3
      <3>2. QED
        BY <1>1, <1>2, <2>2, <2>3, <3>1, LedgerOfType
    <2>4. CASE ~(i <= Len(rs))
      <3>1. i - Len(rs) \in 1..Len(new)
        BY <2>1, <2>4
      <3>2. QED
        BY <1>1, <1>2, <2>2, <2>4, <3>1, LedgerOfType
    <2>5. QED
      BY <2>3, <2>4
  <1>4. /\ LedgerOf(rs \o new) \in Seq(Entries)
        /\ Len(LedgerOf(rs \o new)) = Len(rs) + Len(new)
    BY <1>1, LedgerOfType
  <1>5. QED
    BY <1>2, <1>3, <1>4, SeqEqual

\* The statements of a session change the ledger only at its drops.
LEMMA FlushedLedger ==
    ASSUME TypeOK, NEW p \in Poller, session[p].cur \in Msg
    PROVE  LET D == {i \in session[p].drops : rows[i].live} IN
           LedgerOf(Flushed(p)) =
              [i \in DOMAIN rows |->
                 IF i \in D THEN [EntryOf(rows[i]) EXCEPT
                                     !.live = FALSE,
                                     !.dropper = session[p].cur]
                 ELSE EntryOf(rows[i])]
  <1> DEFINE m == session[p].cur
             D == {i \in session[p].drops : rows[i].live}
  <1>1. rows \in Seq(Row) /\ \A i \in DOMAIN rows : rows[i] \in Row
    BY DEF TypeOK
  <1>2. DOMAIN Flushed(p) = DOMAIN rows
    BY FlushedType
  <1>3. ASSUME NEW i \in DOMAIN rows
        PROVE  EntryOf(Flushed(p)[i]) =
                  IF i \in D THEN [EntryOf(rows[i]) EXCEPT !.live = FALSE,
                                                           !.dropper = m]
                  ELSE EntryOf(rows[i])
    <2>0. rows[i] \in Row
      BY <1>1
    <2>1. CASE i \in D
      <3>1. Flushed(p)[i] = [rows[i] EXCEPT !.live = FALSE, !.dropper = m]
        BY <2>1 DEF Flushed, Drop
      <3>2. QED
        BY <2>0, <2>1, <3>1 DEF EntryOf, Row
    <2>2. CASE i \in session[p].drops /\ ~rows[i].live
      BY <2>2 DEF Flushed, Drop
    <2>3. CASE i \notin session[p].drops /\ i \in DOMAIN session[p].edits
      <3>1. Flushed(p)[i] = Write(rows[i], session[p].edits[i])
        BY <2>3 DEF Flushed
      <3>2. session[p].edits[i] \in Edit
        BY <2>3 DEF TypeOK, Session
      <3>3. QED
        BY <2>0, <2>3, <3>1, <3>2, WriteType DEF EntryOf
    <2>4. CASE i \notin session[p].drops /\ i \notin DOMAIN session[p].edits
      BY <2>4 DEF Flushed
    <2>5. QED
      BY <2>1, <2>2, <2>3, <2>4
  <1>4. QED
    BY <1>2, <1>3 DEF LedgerOf

-----------------------------------------------------------------------------
\* Every step of the pipeline is a step of the ledger, or leaves it alone.

\* The ledger's operators on transcripts are the pipeline's own.
LEMMA SameOperators ==
    /\ \A S : Ledger!Cardinality(S) = Cardinality(S)
    /\ \A t : Ledger!Outcome(t) = Outcome(t)
    /\ \A t : Ledger!DeleteSteps(t) = DeleteSteps(t)
    /\ \A m, t : Ledger!Births(m, t) = Births(m, t)
  <1>1. \A S : Ledger!Cardinality(S) = Cardinality(S)
    BY DEF Ledger!Cardinality, Cardinality
  <1>2. \A t : Ledger!Outcome(t) = Outcome(t)
    BY DEF Ledger!Outcome, Outcome, Ledger!Found, Found
  <1>3. \A t : Ledger!DeleteSteps(t) = DeleteSteps(t)
    BY DEF Ledger!DeleteSteps, DeleteSteps
  <1>4. \A m, t : Ledger!Births(m, t) = Births(m, t)
    BY DEF Ledger!Births, Births, Ledger!NewRow, NewRow
  <1>5. QED
    BY <1>1, <1>2, <1>3, <1>4

LEMMA CommitSettles ==
    ASSUME TypeOK, Working, DropsBound, NEW p \in Poller, CommitMessage(p)
    PROVE  \E m \in Msg : Ledger!Settle(m)
  <1>1. PICK m \in Msg : m = session[p].cur
    BY DEF CommitMessage, AtCommit, Working
  <1>2. /\ voice[m] \in Transcripts /\ ~voice[m].blank /\ voice[m] # None
        /\ voice' = voice
        /\ rows \in Seq(Row)
    BY <1>1 DEF CommitMessage, AtCommit, Working, TypeOK
  <1> DEFINE B == session[p].blanks
             D == {i \in session[p].drops : rows[i].live}
             new == Births(m, voice[m])
  <1>3. \A r \in B \cup {m} : processed[r] = None
    BY <1>1 DEF CommitMessage, Committable, Unrecorded
  <1>4. B \in SUBSET {b \in Msg : Ledger!Unsettled(b) /\ voice[b].blank}
    BY <1>3 DEF Working, TypeOK, Session, Ledger!Unsettled
  <1>5. processed' = [r \in Msg |-> IF r = m THEN Outcome(voice[m])
                                    ELSE IF r \in B THEN "no_commands"
                                    ELSE processed[r]]
    BY <1>1 DEF CommitMessage
  <1>6. D \in SUBSET Ledger!Live
    BY DEF Ledger!Live, TypeOK, Session
  <1>7. Cardinality(D) <= Cardinality(DeleteSteps(voice[m]))
    <2>1. session[p].at = "message" /\ DropsInv(p)
      BY DEF CommitMessage, AtCommit, DropsBound
    <2>2. /\ IsFiniteSet(session[p].drops)
          /\ Cardinality(session[p].drops) <= Cardinality(DeletesDone(p))
      BY <2>1 DEF DropsInv
    <2>3. /\ IsFiniteSet(D)
          /\ Cardinality(D) <= Cardinality(session[p].drops)
      BY <2>2, FS_Subset
    <2>4. Cardinality(DeletesDone(p)) <= Cardinality(DeleteSteps(voice[m]))
      BY <1>1, <1>2, StepsFinite, FS_Subset DEF DeletesDone
    <2>5. /\ Cardinality(D) \in Nat
          /\ Cardinality(session[p].drops) \in Nat
          /\ Cardinality(DeletesDone(p)) \in Nat
          /\ Cardinality(DeleteSteps(voice[m])) \in Nat
      BY <1>2, <2>1, <2>2, <2>3, StepsFinite, CurrentMessage, FS_CardinalityType
    <2>6. QED
      BY <2>2, <2>3, <2>4, <2>5
  <1>8. /\ Flushed(p) \in Seq(Row) /\ new \in Seq(Row)
        /\ rows' = Flushed(p) \o new
    BY <1>1, <1>2, FlushedType, BirthsType DEF CommitMessage
  <1>9. LedgerOf(rows') = LedgerOf(Flushed(p)) \o LedgerOf(new)
    BY <1>8, LedgerOfConcat
  <1>10. LedgerOf(Flushed(p)) =
            [i \in DOMAIN rows |->
               IF i \in D THEN [EntryOf(rows[i]) EXCEPT !.live = FALSE,
                                                        !.dropper = m]
               ELSE EntryOf(rows[i])]
    BY <1>1, FlushedLedger
  <1>11. LedgerOf(Flushed(p)) =
            [i \in DOMAIN LedgerOf(rows) |->
               IF i \in D THEN [LedgerOf(rows)[i] EXCEPT !.live = FALSE,
                                                         !.dropper = m]
               ELSE LedgerOf(rows)[i]]
    BY <1>10 DEF LedgerOf
  <1>12. LedgerOf(new) = [i \in DOMAIN new |-> Ledger!Entry(new[i])]
    BY DEF LedgerOf, EntryOf, Ledger!Entry
  <1> HIDE DEF B, D, new
  <1>13. LedgerOf(rows') =
            [i \in DOMAIN LedgerOf(rows) |->
               IF i \in D THEN [LedgerOf(rows)[i] EXCEPT !.live = FALSE,
                                                         !.dropper = m]
               ELSE LedgerOf(rows)[i]]
            \o [i \in DOMAIN new |-> Ledger!Entry(new[i])]
    BY <1>9, <1>11, <1>12
  <1>14. /\ Ledger!Unsettled(m)
         /\ new = Births(m, voice[m])
    BY <1>2, <1>3 DEF Ledger!Unsettled, new
  <1>15. \E D1 \in SUBSET Ledger!Live :
            /\ Cardinality(D1) <= Cardinality(DeleteSteps(voice[m]))
            /\ LedgerOf(rows') =
                 [i \in DOMAIN LedgerOf(rows) |->
                    IF i \in D1
                    THEN [LedgerOf(rows)[i] EXCEPT !.live = FALSE,
                                                   !.dropper = m]
                    ELSE LedgerOf(rows)[i]]
                 \o [i \in DOMAIN Births(m, voice[m]) |->
                        Ledger!Entry(Births(m, voice[m])[i])]
    BY <1>6, <1>7, <1>13, <1>14
  <1>16. \E B1 \in SUBSET {b \in Msg : Ledger!Unsettled(b) /\ voice[b].blank} :
            processed' = [r \in Msg |-> IF r = m THEN Outcome(voice[m])
                                         ELSE IF r \in B1 THEN "no_commands"
                                         ELSE processed[r]]
    BY <1>4, <1>5
  <1>17. Ledger!Settle(m)
    BY <1>2, <1>14, <1>15, <1>16, SameOperators
       DEF Ledger!Settle, LedgerOf, EntryOf
  <1>18. QED
    BY <1>17

LEMMA RecordErrorRejects ==
    ASSUME TypeOK, Working, NEW p \in Poller, RecordError(p)
    PROVE  \E m \in Msg : Ledger!Reject(m)
  <1>1. /\ session[p].cur \in Msg /\ voice[session[p].cur] # None
        /\ ~voice[session[p].cur].blank
    BY DEF RecordError, Working
  <1>2. Ledger!Reject(session[p].cur)
    BY <1>1 DEF RecordError, Unrecorded, Ledger!Reject, Ledger!Unsettled
  <1>3. QED
    BY <1>1, <1>2

LEMMA CommitDeleteRemoves ==
    ASSUME TypeOK, NEW c \in Client, CommitDelete(c)
    PROVE  \/ LedgerOf(rows') = LedgerOf(rows)
           \/ \E i \in DOMAIN LedgerOf(rows) : Ledger!Remove(i)
  <1>0. PICK i \in Nat : i = request[c].id
    BY DEF TypeOK, Request
  <1>1. /\ rows' = [rows EXCEPT ![i].live = FALSE]
        /\ rows \in Seq(Row)
        /\ \A j \in DOMAIN rows : rows[j] \in Row
        /\ UNCHANGED <<voice, processed>>
    BY <1>0 DEF CommitDelete, TypeOK
  <1>2. CASE i \in DOMAIN rows /\ rows[i].live
    <2>1. /\ i \in DOMAIN LedgerOf(rows) /\ i \in Ledger!Live
      BY <1>2 DEF LedgerOf, Ledger!Live
    <2>2. /\ DOMAIN LedgerOf(rows') = DOMAIN rows
          /\ \A j \in DOMAIN rows : LedgerOf(rows')[j] =
                IF j = i THEN [EntryOf(rows[i]) EXCEPT !.live = FALSE]
                ELSE EntryOf(rows[j])
      BY <1>1, <1>2 DEF LedgerOf, EntryOf, Row
    <2>3. LedgerOf(rows') = [LedgerOf(rows) EXCEPT ![i].live = FALSE]
      BY <1>2, <2>2 DEF LedgerOf
    <2>4. Ledger!Remove(i)
      BY <1>1, <2>1, <2>3 DEF Ledger!Remove, LedgerOf, EntryOf
    <2>5. QED
      BY <2>1, <2>4
  <1>3. CASE ~(i \in DOMAIN rows /\ rows[i].live)
    <2>1. /\ DOMAIN LedgerOf(rows') = DOMAIN rows
          /\ \A j \in DOMAIN rows : LedgerOf(rows')[j] = EntryOf(rows[j])
      BY <1>1, <1>3 DEF LedgerOf, EntryOf, Row
    <2>2. QED
      BY <2>1 DEF LedgerOf
  <1>4. QED
    BY <1>2, <1>3

LEMMA CommitUpdateHides ==
    ASSUME TypeOK, NEW c \in Client, CommitUpdate(c)
    PROVE  LedgerOf(rows') = LedgerOf(rows)
  <1> DEFINE i == request[c].id
  <1>1. /\ \/ rows' = rows
           \/ rows' = [rows EXCEPT ![i] = Write(rows[i], request[c].edit)]
        /\ request[c].edit \in Edit
        /\ \A j \in DOMAIN rows : rows[j] \in Row
    BY DEF CommitUpdate, TypeOK, Request
  <1> HIDE DEF i
  <1>2. CASE rows' = [rows EXCEPT ![i] = Write(rows[i], request[c].edit)]
    <2>1. i \in DOMAIN rows =>
             EntryOf(Write(rows[i], request[c].edit)) = EntryOf(rows[i])
      BY <1>1, WriteType DEF EntryOf
    <2>2. /\ DOMAIN rows' = DOMAIN rows
          /\ \A j \in DOMAIN rows : EntryOf(rows'[j]) = EntryOf(rows[j])
      BY <1>2, <2>1 DEF EntryOf
    <2>3. QED
      BY <2>2 DEF LedgerOf
  <1>3. QED
    BY <1>1, <1>2

LEMMA CompleteCompletes ==
    ASSUME NEW m \in Msg, Complete(m)
    PROVE  Ledger!Complete(m)
  BY DEF Complete, Ledger!Complete

THEOREM LedgerStep ==
    ASSUME TypeOK, Working, DropsBound, [Next]_vars
    PROVE  [Ledger!Next]_(Ledger!ledgerVars)
  <1> SUFFICES \/ Ledger!Next
               \/ voice' = voice /\ processed' = processed
                  /\ LedgerOf(rows') = LedgerOf(rows)
    BY DEF Ledger!ledgerVars, LedgerOf, EntryOf
  <1>1. CASE \E m \in Msg : Complete(m)
    BY <1>1, CompleteCompletes DEF Ledger!Next
  <1>2. CASE \E p \in Poller : CommitMessage(p)
    BY <1>2, CommitSettles DEF Ledger!Next
  <1>3. CASE \E p \in Poller : RecordError(p)
    BY <1>3, RecordErrorRejects DEF Ledger!Next
  <1>4. CASE \E c \in Client : CommitDelete(c)
    <2>1. PICK c \in Client : CommitDelete(c)
      BY <1>4
    <2>2. UNCHANGED <<voice, processed>>
      BY <2>1 DEF CommitDelete
    <2>3. \/ LedgerOf(rows') = LedgerOf(rows)
          \/ \E i \in DOMAIN LedgerOf(rows) : Ledger!Remove(i)
      BY <2>1, CommitDeleteRemoves
    <2>4. QED
      BY <2>2, <2>3 DEF Ledger!Next, LedgerOf, EntryOf
  <1>5. CASE \E c \in Client : CommitUpdate(c)
    BY <1>5, CommitUpdateHides DEF CommitUpdate
  <1>6. CASE UNCHANGED <<voice, processed, rows>>
    BY <1>6
  <1>7. QED
    BY <1>1, <1>2, <1>3, <1>4, <1>5, <1>6
       DEF Next, vars, Poll, Serve, Fetch, TakeBlank, TakeMessage,
           SkipCommand, UpdateTarget, DeleteTarget, CommitRefused,
           MessageFault, RecordErrorRefused, RecordErrorFault, FinishPass,
           Restart, LoadTaskForUpdate, LoadNoteForUpdate, LoadForDelete

\* For any number of messages, passes, requests, faults and restarts, the
\* pipeline implements CommandLedger: a message takes effect at most once,
\* and its rows are inserted and deleted in the commit that records it.
THEOREM RefinementTheorem == Spec => ExactlyOnce
  <1>1. Init => TypeOK /\ Working /\ DropsBound
    <2>1. Init => TypeOK /\ Working
      BY InitTypeOK DEF Init, Working, IdleSession, Clean
    <2>2. Init => DropsBound
      <3>1. IdleSession.drops = {} /\ IdleSession.at = "idle"
        BY DEF IdleSession, Clean
      <3>2. IsFiniteSet({})
        BY FS_EmptySet
      <3>3. QED
        BY <3>1, <3>2 DEF Init, DropsBound, DropsInv
    <2>3. QED
      BY <2>1, <2>2
  <1>2. Init => Ledger!Init
    BY DEF Init, Ledger!Init
  <1>3. TypeOK /\ Working /\ DropsBound /\ [Next]_vars
           => TypeOK' /\ Working' /\ DropsBound'
    BY TypeStep, WorkingStep, DropsStep
  <1>4. TypeOK /\ Working /\ DropsBound /\ [Next]_vars
           => [Ledger!Next]_(Ledger!ledgerVars)
    BY LedgerStep
  <1>5. QED
    BY <1>1, <1>2, <1>3, <1>4, PTL DEF Spec, ExactlyOnce, Ledger!Spec
==============================================================================
