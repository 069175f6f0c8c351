------------------------ MODULE ExtractionJobsProofs ------------------------
(***************************************************************************)
(* What the database says of an extraction is true, for any submissions,   *)
(* requests and files, any retention, and any number of failures and       *)
(* restarts.  The induction needs what a worker has done by the place it   *)
(* is at, and that a job's row is written by its own worker only, which    *)
(* gives it an outcome in its last step.                                   *)
(***************************************************************************)
EXTENDS ExtractionJobs, TLAPS

\* The files a run has gone through were sound, and so is the one whose
\* diagnostic it is about to write.  A run that has not begun has no log.
Through(r) ==
    /\ Len(work[r].log) <= Len(work[r].files)
    /\ \A k \in DOMAIN work[r].log : work[r].files[k] = "sound"
    /\ work[r].at = "persist" =>
          /\ NextFile(r) \in DOMAIN work[r].files
          /\ work[r].files[NextFile(r)] = "sound"
    /\ work[r].at = "none" => work[r].log = <<>>

\* DiagnosticsSurvive, JobRowTruthful and FailureHasCause for one run.
Survives(r) ==
    \A k \in DOMAIN work[r].log :
        work[r].log[k] # Lost /\ work[r].log[k] + Retention >= day =>
            [run |-> r, file |-> k, day |-> work[r].log[k]] \in diagnostics

Truthful(j) ==
    /\ job[j].result <=> job[j].status = "done"
    /\ job[j].error <=> job[j].status = "failed"
    /\ job[j].status = "done" =>
          /\ Len(work[j].log) = Len(work[j].files)
          /\ \A k \in DOMAIN work[j].files : work[j].files[k] = "sound"

Cause(j) ==
    \/ \E k \in DOMAIN work[j].files : work[j].files[k] = "broken"
    \/ faults[j] > 0

\* No outcome before the last step, no failure without a cause, and no file in a
\* job that the validation refuses.
Open(j) ==
    /\ work[j].at # "over" => job[j].status \notin {"done", "failed"}
    /\ work[j].at = "mark" \/ job[j].status = "failed" => Cause(j)
    /\ \A k \in DOMAIN work[j].files : work[j].files[k] # "refused"

Sound(r) ==
    /\ Through(r) /\ Survives(r)
    /\ r \in Job => Truthful(r) /\ Open(r)

IInv == TypeOK /\ \A r \in Run : Sound(r)

-----------------------------------------------------------------------------

LEMMA Shape ==
    ASSUME IInv, NEW r \in Run
    PROVE  /\ work[r] \in Worker
           /\ work[r].files \in Seq(File)
           /\ work[r].log \in Seq(Nat \cup {Lost})
           /\ faults[r] \in Nat
           /\ r \in Job => job[r] \in JobRow
           /\ Sound(r)
<1>1. work[r] \in Worker /\ faults[r] \in Nat /\ (r \in Job => job[r] \in JobRow)
  BY DEF IInv, TypeOK
<1>2. work[r].files \in Uploads \cup {<<>>} /\ work[r].log \in Seq(Nat \cup {Lost})
  BY <1>1 DEF Worker
<1>3. work[r].files \in Seq(File)
  <2>1. CASE work[r].files = <<>>
    BY <2>1
  <2>2. CASE work[r].files \in Uploads
    BY <2>2, UploadsAssumption
  <2> QED
    BY <1>2, <2>1, <2>2
<1> QED
  BY <1>1, <1>2, <1>3 DEF IInv

\* What one run does leaves the others as sound as they were: it writes to no
\* row of theirs and sweeps no diagnostic inside the window.
LEMMA OthersKept ==
    ASSUME IInv, TypeOK', NEW r \in Run, Sound(r)', day' = day,
           \A q \in Run \ {r} : work'[q] = work[q] /\ faults'[q] = faults[q],
           \A j \in Job \ {r} : job'[j] = job[j],
           \A d \in diagnostics : Kept(d) => d \in diagnostics'
    PROVE  IInv'
<1>1. ASSUME NEW q \in Run, q # r PROVE Sound(q)'
  <2>1. Through(q)' /\ (q \in Job => Truthful(q)' /\ Open(q)')
    BY <1>1 DEF IInv, Sound, Through, NextFile, Truthful, Open, Cause
  <2>2. Survives(q)'
    <3> SUFFICES ASSUME NEW k \in DOMAIN work[q].log, work[q].log[k] # Lost,
                        work[q].log[k] + Retention >= day
                 PROVE  [run |-> q, file |-> k, day |-> work[q].log[k]] \in diagnostics'
      BY <1>1 DEF Survives
    <3> QED
      BY <1>1 DEF IInv, Sound, Survives, Kept
  <2> QED
    BY <2>1, <2>2 DEF Sound
<1> QED
  BY <1>1 DEF IInv

-----------------------------------------------------------------------------
\* The effects of the actions on the worker and the row of their run.

Place == {"none", "queued", "extract", "persist", "mark", "unmarked", "unqueued", "over"}

Others(r) == \A q \in Run \ {r} : work'[q] = work[q]

LEMMA GoToEffect ==
    ASSUME TypeOK, NEW r \in Run, NEW a \in Place, GoTo(r, a)
    PROVE  /\ work' \in [Run -> Worker] /\ Others(r)
           /\ work'[r].at = a
           /\ work'[r].files = work[r].files /\ work'[r].log = work[r].log
  BY DEF TypeOK, GoTo, Worker, Place, Others

LEMMA AcceptEffect ==
    ASSUME TypeOK, NEW r \in Run, NEW a \in Place, NEW files \in Uploads,
           work' = [work EXCEPT ![r].at = a, ![r].files = files]
    PROVE  /\ work' \in [Run -> Worker] /\ Others(r)
           /\ work'[r].at = a
           /\ work'[r].files = files /\ work'[r].log = work[r].log
  BY DEF TypeOK, Worker, Place, Others

LEMMA LoggedEffect ==
    ASSUME TypeOK, NEW r \in Run, NEW entry \in Nat \cup {Lost}, Logged(r, entry)
    PROVE  /\ work' \in [Run -> Worker] /\ Others(r)
           /\ work'[r].at = "extract"
           /\ work'[r].files = work[r].files /\ work'[r].log = Append(work[r].log, entry)
<1> DEFINE w == [work[r] EXCEPT !.at = "extract", !.log = Append(@, entry)]
<1>1. work[r] \in Worker /\ Append(work[r].log, entry) \in Seq(Nat \cup {Lost})
  BY DEF TypeOK, Worker
<1>2. /\ w \in Worker /\ w.at = "extract" /\ w.files = work[r].files
      /\ w.log = Append(work[r].log, entry)
  BY <1>1 DEF Worker
<1>3. work' = [work EXCEPT ![r] = w]
  BY DEF Logged
<1> HIDE DEF w
<1> QED
  BY <1>2, <1>3 DEF TypeOK, Others

LEMMA FaultEffect ==
    ASSUME TypeOK, NEW r \in Run, Fault(r)
    PROVE  /\ faults' \in [Run -> Nat] /\ faults'[r] > 0
           /\ \A q \in Run \ {r} : faults'[q] = faults[q]
  BY DEF TypeOK, Fault

\* A job's worker gives its row the status s.
LEMMA StatusEffect ==
    ASSUME TypeOK, NEW j \in Job, NEW s \in {"pending", "running"},
           job' = [job EXCEPT ![j].status = s]
    PROVE  /\ job' \in [Job -> JobRow] /\ \A i \in Job \ {j} : job'[i] = job[i]
           /\ job'[j].status = s
           /\ job'[j].result = job[j].result /\ job'[j].error = job[j].error
  BY DEF TypeOK, JobRow

-----------------------------------------------------------------------------
\* The requests.

LEMMA SubmitKeeps ==
    ASSUME IInv, NEW r \in Job, NEW files \in Uploads, Submit(r, files)
    PROVE  IInv'
<1> r \in Run
  BY DEF Run
<1>1. /\ work' \in [Run -> Worker] /\ Others(r) /\ work'[r].at = "queued"
      /\ work'[r].files = files /\ work'[r].log = work[r].log
      /\ job' \in [Job -> JobRow] /\ \A i \in Job \ {r} : job'[i] = job[i]
      /\ job'[r].status = "pending"
      /\ job'[r].result = job[r].result /\ job'[r].error = job[r].error
  BY AcceptEffect, StatusEffect DEF IInv, Place, Run, Submit
<1>2. TypeOK'
  BY <1>1 DEF IInv, TypeOK, Submit
<1>3. Sound(r)'
  <2>1. Through(r)'
    BY <1>1, Shape DEF Sound, Through, NextFile, Submit
  <2>2. Survives(r)'
    BY <1>1, Shape DEF Sound, Survives, Submit
  <2>3. ASSUME r \in Job PROVE Truthful(r)' /\ Open(r)'
    BY <1>1, <2>3, Shape DEF Sound, Through, Truthful, Open, Cause, JobRow, Submit
  <2> QED
    BY <2>1, <2>2, <2>3 DEF Sound
<1> QED
  BY <1>1, <1>2, <1>3, OthersKept DEF Others, Submit

LEMMA SubmitFaultKeeps ==
    ASSUME IInv, NEW r \in Job, NEW files \in Uploads, SubmitFault(r, files)
    PROVE  IInv'
<1> r \in Run
  BY DEF Run
<1>1. /\ work' \in [Run -> Worker] /\ Others(r) /\ work'[r].at = "unqueued"
      /\ work'[r].files = files /\ work'[r].log = work[r].log
      /\ job' \in [Job -> JobRow] /\ \A i \in Job \ {r} : job'[i] = job[i]
      /\ job'[r].status = "pending"
      /\ job'[r].result = job[r].result /\ job'[r].error = job[r].error
      /\ faults' \in [Run -> Nat] /\ faults'[r] > 0
      /\ \A q \in Run \ {r} : faults'[q] = faults[q]
  <2>1. TypeOK /\ Fault(r)
    BY DEF IInv, SubmitFault
  <2>2. /\ work' \in [Run -> Worker] /\ Others(r) /\ work'[r].at = "unqueued"
        /\ work'[r].files = files /\ work'[r].log = work[r].log
    BY <2>1, AcceptEffect DEF Place, SubmitFault
  <2>3. /\ job' \in [Job -> JobRow] /\ \A i \in Job \ {r} : job'[i] = job[i]
        /\ job'[r].status = "pending"
        /\ job'[r].result = job[r].result /\ job'[r].error = job[r].error
    BY <2>1, StatusEffect DEF SubmitFault
  <2> QED
    BY <2>1, <2>2, <2>3, FaultEffect
<1>2. TypeOK'
  BY <1>1 DEF IInv, TypeOK, SubmitFault
<1>3. Sound(r)'
  <2>1. Through(r)'
    BY <1>1, Shape DEF Sound, Through, NextFile, SubmitFault
  <2>2. Survives(r)'
    BY <1>1, Shape DEF Sound, Survives, SubmitFault
  <2>3. ASSUME r \in Job PROVE Truthful(r)' /\ Open(r)'
    BY <1>1, <2>3, Shape DEF Sound, Through, Truthful, Open, Cause, JobRow, SubmitFault
  <2> QED
    BY <2>1, <2>2, <2>3 DEF Sound
<1> QED
  BY <1>1, <1>2, <1>3, OthersKept DEF Others, SubmitFault

LEMMA ReceiveKeeps ==
    ASSUME IInv, NEW r \in Call, NEW files \in Uploads, Receive(r, files)
    PROVE  IInv'
<1> r \in Run /\ r \notin Job
  BY RunAssumption DEF Run
<1>1. /\ work' \in [Run -> Worker] /\ Others(r) /\ work'[r].at = "extract"
      /\ work'[r].files = files /\ work'[r].log = work[r].log
  BY AcceptEffect DEF IInv, Place, Run, Receive
<1>2. TypeOK'
  BY <1>1 DEF IInv, TypeOK, Receive
<1>3. Sound(r)'
  <2>1. Through(r)'
    BY <1>1, Shape DEF Sound, Through, NextFile, Receive
  <2>2. Survives(r)'
    BY <1>1, Shape DEF Sound, Survives, Receive
  <2>3. ASSUME r \in Job PROVE Truthful(r)' /\ Open(r)'
    BY <1>1, <2>3, Shape DEF Sound, Through, Truthful, Open, Cause, JobRow, Receive
  <2> QED
    BY <2>1, <2>2, <2>3 DEF Sound
<1> QED
  BY <1>1, <1>2, <1>3, OthersKept DEF Others, Receive

-----------------------------------------------------------------------------
\* The files.

LEMMA ExtractFileKeeps ==
    ASSUME IInv, NEW r \in Run, ExtractFile(r)
    PROVE  IInv'
<1>1. /\ work' \in [Run -> Worker] /\ Others(r) /\ work'[r].at = "persist"
      /\ work'[r].files = work[r].files /\ work'[r].log = work[r].log
  BY GoToEffect DEF IInv, Place, ExtractFile
<1>2. TypeOK'
  BY <1>1 DEF IInv, TypeOK, ExtractFile
<1>3. Sound(r)'
  <2>1. Through(r)'
    BY <1>1, Shape DEF Sound, Through, NextFile, ExtractFile, Extracting
  <2>2. Survives(r)'
    BY <1>1, Shape DEF Sound, Survives, ExtractFile, Extracting
  <2>3. ASSUME r \in Job PROVE Truthful(r)' /\ Open(r)'
    BY <1>1, <2>3, Shape
       DEF Sound, Through, Truthful, Open, Cause, JobRow, ExtractFile, Extracting
  <2> QED
    BY <2>1, <2>2, <2>3 DEF Sound
<1> QED
  BY <1>1, <1>2, <1>3, OthersKept DEF Others, ExtractFile

LEMMA BreakOffKeeps ==
    ASSUME IInv, NEW r \in Run, BreakOff(r)
    PROVE  IInv'
<1>1. /\ work' \in [Run -> Worker] /\ Others(r)
      /\ work'[r].at = (IF r \in Job THEN "mark" ELSE "over")
      /\ work'[r].files = work[r].files /\ work'[r].log = work[r].log
  BY GoToEffect DEF IInv, Place, BreakOff
<1>2. TypeOK'
  BY <1>1 DEF IInv, TypeOK, BreakOff
<1>3. Sound(r)'
  <2>1. Through(r)'
    BY <1>1, Shape DEF Sound, Through, NextFile, BreakOff, Extracting
  <2>2. Survives(r)'
    BY <1>1, Shape DEF Sound, Survives, BreakOff, Extracting
  <2>3. ASSUME r \in Job PROVE Truthful(r)' /\ Open(r)'
    BY <1>1, <2>3, Shape
       DEF Sound, Through, Truthful, Open, Cause, NextFile, File, BreakOff, Extracting
  <2> QED
    BY <2>1, <2>2, <2>3 DEF Sound
<1> QED
  BY <1>1, <1>2, <1>3, OthersKept DEF Others, BreakOff

LEMMA PersistFaultKeeps ==
    ASSUME IInv, NEW r \in Run, PersistFault(r)
    PROVE  IInv'
<1>1. /\ work' \in [Run -> Worker] /\ Others(r) /\ work'[r].at = "extract"
      /\ work'[r].files = work[r].files /\ work'[r].log = Append(work[r].log, Lost)
  BY LoggedEffect DEF IInv, PersistFault
<1>2. TypeOK'
  BY <1>1 DEF IInv, TypeOK, PersistFault
<1>3. Sound(r)'
  <2>1. Through(r)'
    BY <1>1, Shape DEF Sound, Through, NextFile, PersistFault
  <2>2. Survives(r)'
    BY <1>1, Shape DEF Sound, Survives, PersistFault
  <2>3. ASSUME r \in Job PROVE Truthful(r)' /\ Open(r)'
    BY <1>1, <2>3, Shape DEF Sound, Truthful, Open, Cause, JobRow, PersistFault
  <2> QED
    BY <2>1, <2>2, <2>3 DEF Sound
<1> QED
  BY <1>1, <1>2, <1>3, OthersKept DEF Others, PersistFault

\* The new diagnostic is inside the window, and the sweep that follows it spares
\* what is inside.
LEMMA PersistDiagnosticKeeps ==
    ASSUME IInv, NEW r \in Run, PersistDiagnostic(r)
    PROVE  IInv'
<1> DEFINE new == [run |-> r, file |-> NextFile(r), day |-> day]
<1>1. /\ work' \in [Run -> Worker] /\ Others(r) /\ work'[r].at = "extract"
      /\ work'[r].files = work[r].files /\ work'[r].log = Append(work[r].log, day)
  BY LoggedEffect DEF IInv, TypeOK, PersistDiagnostic
<1>2. day \in Nat /\ Retention \in Nat /\ Lost \notin Nat /\ NextFile(r) \in Nat
  BY Shape, CalendarAssumption DEF IInv, TypeOK, NextFile
<1>3. diagnostics' = {d \in diagnostics \cup {new} : Kept(d)} /\ new \in diagnostics'
  BY <1>2 DEF PersistDiagnostic, Kept
<1>4. TypeOK'
  BY <1>1, <1>2, <1>3 DEF IInv, TypeOK, PersistDiagnostic, Diagnostic
<1>5. Sound(r)'
  <2>1. Through(r)'
    BY <1>1, Shape DEF Sound, Through, NextFile, PersistDiagnostic
  <2>2. Survives(r)'
    <3> SUFFICES ASSUME NEW k \in DOMAIN work'[r].log, work'[r].log[k] # Lost,
                        work'[r].log[k] + Retention >= day
                 PROVE  [run |-> r, file |-> k, day |-> work'[r].log[k]] \in diagnostics'
      BY DEF Survives, PersistDiagnostic
    <3>1. CASE k = NextFile(r)
      BY <1>1, <1>3, <3>1, Shape DEF NextFile
    <3>2. CASE k # NextFile(r)
      <4>1. k \in DOMAIN work[r].log /\ work'[r].log[k] = work[r].log[k]
        BY <1>1, <3>2, Shape DEF NextFile
      <4>2. [run |-> r, file |-> k, day |-> work[r].log[k]] \in diagnostics
        BY <4>1, Shape DEF Sound, Survives
      <4> QED
        BY <1>3, <4>1, <4>2 DEF Kept
    <3> QED
      BY <3>1, <3>2
  <2>3. ASSUME r \in Job PROVE Truthful(r)' /\ Open(r)'
    BY <1>1, <2>3, Shape DEF Sound, Truthful, Open, Cause, JobRow, PersistDiagnostic
  <2> QED
    BY <2>1, <2>2, <2>3 DEF Sound
<1> QED
  BY <1>1, <1>3, <1>4, <1>5, OthersKept DEF Others, PersistDiagnostic

-----------------------------------------------------------------------------
\* The end.

LEMMA RespondKeeps ==
    ASSUME IInv, NEW r \in Call, Respond(r)
    PROVE  IInv'
<1> r \in Run /\ r \notin Job
  BY RunAssumption DEF Run
<1>1. /\ work' \in [Run -> Worker] /\ Others(r) /\ work'[r].at = "over"
      /\ work'[r].files = work[r].files /\ work'[r].log = work[r].log
  BY GoToEffect DEF IInv, Place, Respond
<1>2. TypeOK'
  BY <1>1 DEF IInv, TypeOK, Respond
<1>3. Sound(r)'
  <2>1. Through(r)'
    BY <1>1, Shape DEF Sound, Through, NextFile, Respond
  <2>2. Survives(r)'
    BY <1>1, Shape DEF Sound, Survives, Respond
  <2>3. ASSUME r \in Job PROVE Truthful(r)' /\ Open(r)'
    BY <1>1, <2>3, Shape DEF Sound, Through, Truthful, Open, Cause, JobRow, Respond
  <2> QED
    BY <2>1, <2>2, <2>3 DEF Sound
<1> QED
  BY <1>1, <1>2, <1>3, OthersKept DEF Others, Respond

LEMMA JobFaultKeeps ==
    ASSUME IInv, NEW r \in Job, JobFault(r)
    PROVE  IInv'
<1> r \in Run
  BY DEF Run
<1>1. /\ work' \in [Run -> Worker] /\ Others(r) /\ work'[r].at = "mark"
      /\ work'[r].files = work[r].files /\ work'[r].log = work[r].log
      /\ faults' \in [Run -> Nat] /\ faults'[r] > 0
      /\ \A q \in Run \ {r} : faults'[q] = faults[q]
  BY GoToEffect, FaultEffect DEF IInv, Place, JobFault
<1>2. TypeOK'
  BY <1>1 DEF IInv, TypeOK, JobFault
<1>3. Sound(r)'
  <2>1. Through(r)'
    BY <1>1, Shape DEF Sound, Through, NextFile, JobFault, Finished
  <2>2. Survives(r)'
    BY <1>1, Shape DEF Sound, Survives, JobFault, Finished
  <2>3. ASSUME r \in Job PROVE Truthful(r)' /\ Open(r)'
    BY <1>1, <2>3, Shape
       DEF Sound, Through, Truthful, Open, Cause, JobRow, JobFault, Finished
  <2> QED
    BY <2>1, <2>2, <2>3 DEF Sound
<1> QED
  BY <1>1, <1>2, <1>3, OthersKept DEF Others, JobFault

LEMMA MarkFaultKeeps ==
    ASSUME IInv, NEW r \in Job, MarkFault(r)
    PROVE  IInv'
<1> r \in Run
  BY DEF Run
<1>1. /\ work' \in [Run -> Worker] /\ Others(r) /\ work'[r].at = "unmarked"
      /\ work'[r].files = work[r].files /\ work'[r].log = work[r].log
      /\ faults' \in [Run -> Nat] /\ faults'[r] > 0
      /\ \A q \in Run \ {r} : faults'[q] = faults[q]
  BY GoToEffect, FaultEffect DEF IInv, Place, MarkFault
<1>2. TypeOK'
  BY <1>1 DEF IInv, TypeOK, MarkFault
<1>3. Sound(r)'
  <2>1. Through(r)'
    BY <1>1, Shape DEF Sound, Through, NextFile, MarkFault
  <2>2. Survives(r)'
    BY <1>1, Shape DEF Sound, Survives, MarkFault
  <2>3. ASSUME r \in Job PROVE Truthful(r)' /\ Open(r)'
    BY <1>1, <2>3, Shape DEF Sound, Through, Truthful, Open, Cause, JobRow, MarkFault
  <2> QED
    BY <2>1, <2>2, <2>3 DEF Sound
<1> QED
  BY <1>1, <1>2, <1>3, OthersKept DEF Others, MarkFault

LEMMA StartJobKeeps ==
    ASSUME IInv, NEW r \in Job, StartJob(r)
    PROVE  IInv'
<1> r \in Run
  BY DEF Run
<1>1. /\ work' \in [Run -> Worker] /\ Others(r) /\ work'[r].at = "extract"
      /\ work'[r].files = work[r].files /\ work'[r].log = work[r].log
  BY GoToEffect DEF IInv, Place, StartJob
<1>2. /\ job' \in [Job -> JobRow] /\ \A i \in Job \ {r} : job'[i] = job[i]
      /\ job'[r].status = "running"
      /\ job'[r].result = job[r].result /\ job'[r].error = job[r].error
  BY StatusEffect DEF IInv, StartJob
<1>3. TypeOK'
  BY <1>1, <1>2 DEF IInv, TypeOK, StartJob
<1>4. Sound(r)'
  BY <1>1, <1>2, Shape
     DEF Sound, Through, NextFile, Survives, Truthful, Open, Cause, JobRow, StartJob
<1> QED
  BY <1>1, <1>2, <1>3, <1>4, OthersKept DEF Others, StartJob

\* A job that is done has gone through all its files.
LEMMA FinishJobKeeps ==
    ASSUME IInv, NEW r \in Job, FinishJob(r)
    PROVE  IInv'
<1> r \in Run
  BY DEF Run
<1>1. /\ work' \in [Run -> Worker] /\ Others(r) /\ work'[r].at = "over"
      /\ work'[r].files = work[r].files /\ work'[r].log = work[r].log
  BY GoToEffect DEF IInv, Place, FinishJob
<1>2. /\ job' \in [Job -> JobRow] /\ \A i \in Job \ {r} : job'[i] = job[i]
      /\ job'[r] = [status |-> "done", result |-> TRUE, error |-> FALSE]
  BY DEF IInv, TypeOK, JobRow, FinishJob
<1>3. TypeOK'
  BY <1>1, <1>2 DEF IInv, TypeOK, FinishJob
<1>4. Len(work[r].log) = Len(work[r].files) /\ DOMAIN work[r].log = DOMAIN work[r].files
  BY Shape DEF Sound, Through, NextFile, Finished, FinishJob
<1>5. Sound(r)'
  BY <1>1, <1>2, <1>4, Shape
     DEF Sound, Through, NextFile, Survives, Truthful, Open, Cause, FinishJob
<1> QED
  BY <1>1, <1>2, <1>3, <1>5, OthersKept DEF Others, FinishJob

LEMMA MarkFailedKeeps ==
    ASSUME IInv, NEW r \in Job, MarkFailed(r)
    PROVE  IInv'
<1> r \in Run
  BY DEF Run
<1>1. /\ work' \in [Run -> Worker] /\ Others(r) /\ work'[r].at = "over"
      /\ work'[r].files = work[r].files /\ work'[r].log = work[r].log
  BY GoToEffect DEF IInv, Place, MarkFailed
<1>2. /\ job' \in [Job -> JobRow] /\ \A i \in Job \ {r} : job'[i] = job[i]
      /\ job'[r].status = "failed" /\ job'[r].error = TRUE
      /\ job'[r].result = job[r].result
  BY DEF IInv, TypeOK, JobRow, MarkFailed
<1>3. TypeOK'
  BY <1>1, <1>2 DEF IInv, TypeOK, MarkFailed
<1>4. Sound(r)'
  BY <1>1, <1>2, Shape
     DEF Sound, Through, NextFile, Survives, Truthful, Open, Cause, JobRow, MarkFailed
<1> QED
  BY <1>1, <1>2, <1>3, <1>4, OthersKept DEF Others, MarkFailed

-----------------------------------------------------------------------------

LEMMA NextDayKeeps ==
    ASSUME IInv, NextDay
    PROVE  IInv'
<1>1. TypeOK'
  BY DEF IInv, TypeOK, NextDay
<1>2. ASSUME NEW r \in Run PROVE Sound(r)'
  <2>1. Through(r)' /\ (r \in Job => Truthful(r)' /\ Open(r)')
    BY Shape DEF Sound, Through, NextFile, Truthful, Open, Cause, NextDay
  <2>2. Survives(r)'
    <3> SUFFICES ASSUME NEW k \in DOMAIN work[r].log, work[r].log[k] # Lost,
                        work[r].log[k] + Retention >= day + 1
                 PROVE  [run |-> r, file |-> k, day |-> work[r].log[k]] \in diagnostics
      BY DEF Survives, NextDay
    <3>1. work[r].log[k] \in Nat /\ day \in Nat /\ Retention \in Nat
      BY Shape, CalendarAssumption DEF IInv, TypeOK
    <3> QED
      BY <3>1, Shape DEF Sound, Survives
  <2> QED
    BY <2>1, <2>2 DEF Sound
<1> QED
  BY <1>1, <1>2 DEF IInv

LEMMA RestartKeeps ==
    ASSUME IInv, Restart
    PROVE  IInv'
<1>1. ASSUME NEW r \in Run
      PROVE  /\ work'[r] \in Worker /\ work'[r].at \in {work[r].at, "over"}
             /\ work'[r].at = "none" \/ work'[r].at = "over"
             /\ work'[r].files = work[r].files /\ work'[r].log = work[r].log
  BY Shape DEF Restart, Worker
<1>2. TypeOK'
  BY <1>1 DEF IInv, TypeOK, Restart
<1>3. ASSUME NEW r \in Run PROVE Sound(r)'
  BY <1>1, Shape DEF Sound, Through, NextFile, Survives, Truthful, Open, Cause, Restart
<1> QED
  BY <1>2, <1>3 DEF IInv

LEMMA Inductive ==
    ASSUME IInv, [Next]_vars
    PROVE  IInv'
<1>1. CASE UNCHANGED vars
  BY <1>1
     DEF vars, IInv, TypeOK, Sound, Through, NextFile, Survives, Truthful, Open, Cause
<1>2. ASSUME NEW j \in Job,
             \/ \E files \in Uploads : Submit(j, files) \/ SubmitFault(j, files)
             \/ Work(j) \/ JobFault(j) \/ MarkFault(j)
      PROVE  IInv'
  BY <1>2, SubmitKeeps, SubmitFaultKeeps, StartJobKeeps, ExtractFileKeeps, BreakOffKeeps,
     PersistDiagnosticKeeps, FinishJobKeeps, MarkFailedKeeps, JobFaultKeeps, MarkFaultKeeps
     DEF Work, Run
<1>3. ASSUME NEW c \in Call,
             \/ \E files \in Uploads : Receive(c, files)
             \/ ExtractFile(c) \/ BreakOff(c) \/ PersistDiagnostic(c) \/ Respond(c)
      PROVE  IInv'
  BY <1>3, ReceiveKeeps, ExtractFileKeeps, BreakOffKeeps, PersistDiagnosticKeeps,
     RespondKeeps DEF Run
<1> QED
  BY <1>1, <1>2, <1>3, PersistFaultKeeps, NextDayKeeps, RestartKeeps DEF Next

LEMMA Initially == Init => IInv
<1> SUFFICES ASSUME Init
             PROVE  IInv
  OBVIOUS
<1>1. TypeOK
  BY DEF Init, TypeOK, JobRow, Worker
<1>2. ASSUME NEW r \in Run PROVE Sound(r)
  BY DEF Init, Run, Sound, Through, NextFile, Survives, Truthful, Open, Cause
<1> QED
  BY <1>1, <1>2 DEF IInv

LEMMA Invariance == Spec => []IInv
  BY Initially, Inductive, PTL DEF Spec

-----------------------------------------------------------------------------

\* A job row has a status that the client knows, and every file a worker has
\* gone through is logged (ExtractionJob, _run_extraction_job).
THEOREM TypeCorrect == Spec => []TypeOK
<1>1. IInv => TypeOK
  BY DEF IInv
<1> QED
  BY <1>1, Invariance, PTL

\* However a run ends, its diagnostics stay until the window has passed them
\* (_persist_extraction_outcome).
THEOREM DiagnosticsTheorem == Spec => []DiagnosticsSurvive
<1>1. IInv => DiagnosticsSurvive
  BY DEF IInv, Sound, Survives, DiagnosticsSurvive
<1> QED
  BY <1>1, Invariance, PTL

\* A result is there exactly when the job is done, an error exactly when it
\* has failed (_run_extraction_job).
THEOREM JobRowTheorem == Spec => []JobRowTruthful
<1>1. IInv => JobRowTruthful
  BY DEF IInv, Sound, Truthful, JobRowTruthful, Run
<1> QED
  BY <1>1, Invariance, PTL

\* No job fails because of its bookkeeping (_persist_extraction_outcome).
THEOREM FailureTheorem == Spec => []FailureHasCause
<1>1. IInv => FailureHasCause
  BY DEF IInv, Sound, Open, Cause, FailureHasCause, Run
<1> QED
  BY <1>1, Invariance, PTL
=============================================================================
