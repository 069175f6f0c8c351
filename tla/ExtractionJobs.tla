--------------------------- MODULE ExtractionJobs ---------------------------
(***************************************************************************)
(* PDF extraction as a background job (POST /extract-async and the worker  *)
(* _run_extraction_job) and inside a request (POST /extract), with the     *)
(* diagnostic row each file leaves behind and the retention sweep          *)
(* (app/valuation_statement/routes.py).                                    *)
(*                                                                         *)
(* What a file yields is not modelled here, only whether it is refused by  *)
(* the upload validation, makes the extractor raise, or goes through.      *)
(***************************************************************************)
EXTENDS Naturals, Sequences

CONSTANTS
    Job,          \* submissions to /extract-async
    Call,         \* requests to /extract
    Uploads,      \* what a client may upload: sequences of File
    Retention,    \* DIAGNOSTIC_RETENTION_DAYS
    Lost,         \* the log entry of a diagnostic that could not be written
    MaxDay,       \* the last day of the calendar
    MaxFaults,    \* how often the database fails a job's own statements
    MaxRestarts   \* how often the service crashes and restarts

Run == Job \cup Call

File == {"sound", "broken", "refused"}

ASSUME RunAssumption == Job \cap Call = {}

ASSUME UploadsAssumption == Uploads \subseteq Seq(File) \ {<<>>}

ASSUME CalendarAssumption == Retention \in Nat /\ Lost \notin Nat

ASSUME BoundsAssumption ==
    MaxDay \in Nat /\ MaxFaults \in Nat /\ MaxRestarts \in Nat

VARIABLES
    job,          \* extraction_jobs: a row per submission
    work,         \* the code that goes through the files of a run
    diagnostics,  \* extraction_diagnostics
    day,          \* the date
    faults,       \* failures so far of each run's own statements
    restarts      \* crashes so far

vars == <<job, work, diagnostics, day, faults, restarts>>

-----------------------------------------------------------------------------

\* result, error: the column is not NULL.
JobRow == [status : {"none", "pending", "running", "done", "failed"},
           result : BOOLEAN, error : BOOLEAN]

\* log: for each file gone through, the day of its diagnostic, or Lost.
Worker == [at : {"none", "queued", "extract", "persist", "mark", "unmarked",
                 "unqueued", "over"},
           files : Uploads \cup {<<>>}, log : Seq(Nat \cup {Lost})]

Diagnostic == [run : Run, file : Nat, day : Nat]

\* The job row has a status the client knows, and every file a worker has gone
\* through has the day of its diagnostic or is Lost (ExtractionJob).
TypeOK ==
    /\ job \in [Job -> JobRow]
    /\ work \in [Run -> Worker]
    /\ diagnostics \in SUBSET Diagnostic
    /\ day \in Nat
    /\ faults \in [Run -> Nat]
    /\ restarts \in Nat

Init ==
    /\ job = [j \in Job |-> [status |-> "none", result |-> FALSE,
                             error |-> FALSE]]
    /\ work = [r \in Run |-> [at |-> "none", files |-> <<>>, log |-> <<>>]]
    /\ diagnostics = {}
    /\ day = 0
    /\ faults = [r \in Run |-> 0]
    /\ restarts = 0

GoTo(r, at) == work' = [work EXCEPT ![r].at = at]

\* A statement of run r's own, not of its bookkeeping, fails.
Fault(r) ==
    /\ faults[r] < MaxFaults
    /\ faults' = [faults EXCEPT ![r] = @ + 1]

-----------------------------------------------------------------------------
\* The requests.

\* /extract-async reads and validates every file before the row is committed.
Submit(j, files) ==
    /\ work[j].at = "none"
    /\ \A k \in DOMAIN files : files[k] # "refused"
    /\ job' = [job EXCEPT ![j].status = "pending"]
    /\ work' = [work EXCEPT ![j].at = "queued", ![j].files = files]
    /\ UNCHANGED <<diagnostics, day, faults, restarts>>

\* The row is committed but cannot be read back: the request fails, and no
\* task is queued.
SubmitFault(j, files) ==
    /\ work[j].at = "none"
    /\ \A k \in DOMAIN files : files[k] # "refused"
    /\ Fault(j)
    /\ job' = [job EXCEPT ![j].status = "pending"]
    /\ work' = [work EXCEPT ![j].at = "unqueued", ![j].files = files]
    /\ UNCHANGED <<diagnostics, day, restarts>>

\* /extract validates each file when its turn comes.
Receive(c, files) ==
    /\ work[c].at = "none"
    /\ work' = [work EXCEPT ![c].at = "extract", ![c].files = files]
    /\ UNCHANGED <<job, diagnostics, day, faults, restarts>>

-----------------------------------------------------------------------------
\* Going through the files, in a job and in a request alike.

NextFile(r) == Len(work[r].log) + 1

Extracting(r) ==
    work[r].at = "extract" /\ NextFile(r) \in DOMAIN work[r].files

ExtractFile(r) ==
    /\ Extracting(r)
    /\ work[r].files[NextFile(r)] = "sound"
    /\ GoTo(r, "persist")
    /\ UNCHANGED <<job, diagnostics, day, faults, restarts>>

\* The extractor raises, or /extract refuses the file: the run goes no
\* further.  A job has its failure recorded, a request answers with an error.
BreakOff(r) ==
    /\ Extracting(r)
    /\ work[r].files[NextFile(r)] # "sound"
    /\ GoTo(r, IF r \in Job THEN "mark" ELSE "over")
    /\ UNCHANGED <<job, diagnostics, day, faults, restarts>>

\* Mutant: the sweep takes the rows of the last day of the window as well.
KeptTooShort(d) == d.day + Retention > day

\* Rows the sweep leaves: created_at is not before the cutoff.
Kept(d) == d.day + Retention >= day

Logged(r, entry) ==
    work' = [work EXCEPT ![r].at = "extract", ![r].log = Append(@, entry)]

PersistDiagnostic(r) ==
    /\ work[r].at = "persist"
    /\ diagnostics' = {d \in diagnostics \cup
                              {[run |-> r, file |-> NextFile(r), day |-> day]} :
                          Kept(d)}
    /\ Logged(r, day)
    /\ UNCHANGED <<job, day, faults, restarts>>

\* Mutant: the failure to write a diagnostic is not swallowed.
PersistRaises(r) ==
    /\ work[r].at = "persist"
    /\ GoTo(r, IF r \in Job THEN "mark" ELSE "over")
    /\ UNCHANGED <<job, diagnostics, day, faults, restarts>>

\* The insert, the sweep or their commit fails: rolled back and swallowed.
PersistFault(r) ==
    /\ work[r].at = "persist"
    /\ Logged(r, Lost)
    /\ UNCHANGED <<job, diagnostics, day, faults, restarts>>

Finished(r) ==
    work[r].at = "extract" /\ NextFile(r) \notin DOMAIN work[r].files

\* /extract answers with the documents and the operator defaults.
Respond(c) ==
    /\ Finished(c)
    /\ GoTo(c, "over")
    /\ UNCHANGED <<job, diagnostics, day, faults, restarts>>

-----------------------------------------------------------------------------
\* The worker of a job.

StartJob(j) ==
    /\ work[j].at = "queued"
    /\ job' = [job EXCEPT ![j].status = "running"]
    /\ GoTo(j, "extract")
    /\ UNCHANGED <<diagnostics, day, faults, restarts>>

FinishJob(j) ==
    /\ Finished(j)
    /\ job' = [job EXCEPT ![j] = [status |-> "done", result |-> TRUE,
                                  error |-> FALSE]]
    /\ GoTo(j, "over")
    /\ UNCHANGED <<diagnostics, day, faults, restarts>>

\* Loading the row, committing "running", reading the operator defaults or
\* committing the result fails.
JobFault(j) ==
    /\ work[j].at = "queued" \/ Finished(j)
    /\ Fault(j)
    /\ GoTo(j, "mark")
    /\ UNCHANGED <<job, diagnostics, day, restarts>>

\* Mutant: what the session held is not rolled back before the failure is
\* recorded.
MarkUnrolled(j) ==
    /\ work[j].at = "mark"
    /\ job' = [job EXCEPT ![j].status = "failed", ![j].error = TRUE,
                          ![j].result = NextFile(j) \notin DOMAIN work[j].files]
    /\ GoTo(j, "over")
    /\ UNCHANGED <<diagnostics, day, faults, restarts>>

\* Mutant: the failure is logged only.
MarkNothing(j) ==
    /\ work[j].at = "mark"
    /\ GoTo(j, "over")
    /\ UNCHANGED <<job, diagnostics, day, faults, restarts>>

\* Mutant: the failure is recorded under the poller's name for it.
MarkError(j) ==
    /\ work[j].at = "mark"
    /\ job' = [job EXCEPT ![j].status = "error", ![j].error = TRUE]
    /\ GoTo(j, "over")
    /\ UNCHANGED <<diagnostics, day, faults, restarts>>

MarkFailed(j) ==
    /\ work[j].at = "mark"
    /\ job' = [job EXCEPT ![j].status = "failed", ![j].error = TRUE]
    /\ GoTo(j, "over")
    /\ UNCHANGED <<diagnostics, day, faults, restarts>>

\* The failure cannot be recorded either: rolled back and logged.
MarkFault(j) ==
    /\ work[j].at = "mark"
    /\ Fault(j)
    /\ GoTo(j, "unmarked")
    /\ UNCHANGED <<job, diagnostics, day, restarts>>

-----------------------------------------------------------------------------

NextDay ==
    /\ day < MaxDay
    /\ day' = day + 1
    /\ UNCHANGED <<job, work, diagnostics, faults, restarts>>

\* The process dies: requests and background tasks die with it.
Restart ==
    /\ restarts < MaxRestarts
    /\ restarts' = restarts + 1
    /\ work' = [r \in Run |-> IF work[r].at = "none" THEN work[r]
                              ELSE [work[r] EXCEPT !.at = "over"]]
    /\ UNCHANGED <<job, diagnostics, day, faults>>

\* What the threadpool does for a job once it is submitted.
Work(j) ==
    \/ StartJob(j) \/ ExtractFile(j) \/ BreakOff(j) \/ PersistDiagnostic(j)
    \/ FinishJob(j) \/ MarkFailed(j)

Next ==
    \/ \E j \in Job : \/ \E files \in Uploads : \/ Submit(j, files)
                                                  \/ SubmitFault(j, files)
                      \/ Work(j) \/ JobFault(j) \/ MarkFault(j)
    \/ \E c \in Call : \/ \E files \in Uploads : Receive(c, files)
                       \/ ExtractFile(c) \/ BreakOff(c)
                       \/ PersistDiagnostic(c) \/ Respond(c)
    \/ \E r \in Run : PersistFault(r)
    \/ NextDay
    \/ Restart

Spec == Init /\ [][Next]_vars

\* A background task runs on a thread of its own until it returns.
FairSpec == Spec /\ \A j \in Job : WF_vars(Work(j))

-----------------------------------------------------------------------------

\* Every file a run went through has its diagnostic row, whatever happened to
\* the run afterwards, a crash included, until the row is out of the retention
\* window; only a diagnostic whose own write failed is missing.
DiagnosticsSurvive ==
    \A r \in Run : \A k \in DOMAIN work[r].log :
        LET d == work[r].log[k] IN
        d # Lost /\ d + Retention >= day =>
            [run |-> r, file |-> k, day |-> d] \in diagnostics

\* The job row tells the truth: a result exactly when done, an error exactly
\* when failed, and done only when every file went through.
JobRowTruthful ==
    \A j \in Job :
        /\ job[j].result <=> job[j].status = "done"
        /\ job[j].error <=> job[j].status = "failed"
        /\ job[j].status = "done" =>
              /\ Len(work[j].log) = Len(work[j].files)
              /\ \A k \in DOMAIN work[j].files : work[j].files[k] = "sound"

\* A diagnostic is bookkeeping: no failure to write one fails a job.  A job
\* fails because of a file of its own or of its own statements.
FailureHasCause ==
    \A j \in Job : job[j].status = "failed" =>
        \/ \E k \in DOMAIN work[j].files : work[j].files[k] = "broken"
        \/ faults[j] > 0

\* Every job whose id the client was given reaches a terminal state, so that the
\* poll of GET /jobs/{id} ends: unless the process dies, or the database refuses
\* even to record a failure (_run_extraction_job).
JobSettles ==
    \A j \in Job : work[j].at = "queued" ~>
        \/ job[j].status \in {"done", "failed"}
        \/ work[j].at = "unmarked"
        \/ restarts > 0
=============================================================================
