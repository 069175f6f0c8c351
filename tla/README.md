# Formal model of the Commander service

TLA+ specifications of the service in `app/`, the TLC configurations that check
them on small instances, and theorems about them checked by TLAPS. Paths are
relative to the repository root; line numbers are those of the modelled commit.

The service turns dictated voice messages into tasks and notes, serves them over
REST, and extracts the fields of a property-valuation statement from uploaded
PDFs. It is one uvicorn process (`Dockerfile-Commander`) with an event-loop
thread (the background polling task and every `async def` handler) and a thread
pool (every `def` handler and every background task), on a shared PostgreSQL
database at READ COMMITTED.

## 1. Inventory

| Component | State it keeps | Operations | Talks to | What is hard | What makes it correct |
|---|---|---|---|---|---|
| Voice-command pipeline: `poller.py`, `routes.py`, polling loop of `main.py` | `commander_processed`, `commander_tasks`, `commander_notes`; a session per pass and per request | polling pass, `POST /process`, task and note commands, record or error record, PATCH, DELETE | `voice_messages` (written by the transcriber), the parser | two passes over one message; rows numbered by one query and written later; a failed message, a failed error record, a crash | a message takes effect at most once and atomically; every message is settled in the end; no message is lost without a cause; `closed_at` follows `status` as far as nobody else edits the task meanwhile |
| Command parser: `parser.py` | none | `parse_transcription` | dateparser; called by the poller | keywords inside values, fillers inside fillers, one bad command among good ones | each spoken command gives its own meaning |
| Extraction jobs and diagnostics: `valuation_statement/routes.py` 130-330 | `extraction_jobs`, `extraction_diagnostics` | `/extract-async`, the worker, `/extract`, the retention sweep, `GET /jobs/{id}` | the field extractor, the operator defaults | failures at every commit, a failure while recording a failure, a crash | a job settles; its row is the truth; bookkeeping neither fails a job nor is lost with it |
| Operator defaults: `valuation_statement/routes.py` 494-622 | a JSON file per user | GET and PUT, the load at the end of an extraction, the seed from history | saved valuations | a check of a file before its write; truncate and write; a crash between them | nobody gets another user's identity; a save is not lost to a seed; the file parses |
| Saved valuations: `valuation_statement/processed.py` | `processed_valuations` | POST, PATCH, DELETE, list, CSV export | the proxy's user header | two PATCHes with stale copies, a DELETE in between | rows change by their owner only; `was_manually_edited` says what the values say |
| List reads: `routes.py`, `processed.py` 127-150 | none | a count and a page per request | the tables above | offsets and totals that are stale for the next page | nobody misses a row that was there all the time |
| Threads and connections: `database.py`, `main.py`, every handler | the event-loop thread, the tokens of the thread pool, the connections of the engine | run a handler, a job, a polling pass; wait | starlette, anyio, SQLAlchemy | synchronous work on the loop; a thread that holds what another one waits for; pools at their limit | no waiting for ever; nobody stopped for good; long work holds no connection |
| Startup and migration: `main.py` `lifespan`, `db_guard.py`, `db_migrate.py`, `config.py` | the schema, the environment of the boot | identity check, `create_all`, six migration steps, start of polling | PostgreSQL | a boot cut between two statements, a changed environment at the next one, a wrong database | polling on the full schema only; owners never change; foreign databases stay as they are; the migration completes |
| Field extractor and guards: `field_extractor.py`, `_context.py`, `extraction.py` | the parse context and the fields of one document | `/decide`, parse context, strategy chains, lookup in the word grid, cells of a lägenhetsförteckning, comparable sales, jointly mortgaged properties, OCR confidence, outcome | pdfplumber, PyMuPDF, OCR | two programs that read one file differently; chains that rank layouts in orders of their own; OCR that fails half-way; empty cells, repeated lines, page breaks | OCR values are doubted; slots agree on what the document is; the outcome names the right kind of miss; `/decide` foretells; a value is the one printed for its label |
| OCR: `_ocr.py` | none | page text, word grid, no-text sub-kind | the tesseract binary | failures between the passes, thresholds, a count that stops early | a fault costs no answer; the sub-kind does not depend on where the count stops; words become the cells that were printed |
| Template and PDF export: `template.py`, `pdf_export.py`, `/generate` | a temporary directory | populate (placeholders, amounts, source clauses, hints, note), conversion | python-docx, LibreOffice | passes over the result of other passes, one placeholder for two amounts, a conversion that fails or times out | the statement reads as it was reviewed; what is answered is signed and whole |
| Transparency registry, health, vocabulary, single-row reads | none | answer | | | no effect |
| Build and delivery scripts: `scripts/` | image tags | fixture gate, is-main-head | CI | two builds racing for one tag | the tag is the newest main build |

All but the last two rows are modelled, the field extractor in part. The rest is listed
with its reason in section 8.

## 2. Modules

| Module | What it is |
|---|---|
| `CommandRows` | data of the pipeline: transcriptions as commands, rows, what an assignment and an UPDATE do |
| `CommandLedger` | abstract specification: a message is settled once, with all it creates and deletes |
| `CommandPipeline` | the detailed specification; refines `CommandLedger` (`Ledger`, `ExactlyOnce`) |
| `CommandPipelineProofs`, `ServiceThreadsProofs`, `ExtractionJobsProofs`, `OperatorDefaultsProofs`, `SavedValuationsProofs`, `StartupMigrationProofs`, `ExtractionOutcomeProofs`, `TextsProofs` | the theorems of section 6; `SavedValuationsProofs` is about `ProcessedValuations` and `RowLists`, `TextsProofs` about `Statement`, `ComparableSales`, `LghCells`, `Samintecknad`, `CommandParser` and `WordGrid` |
| `CommandParser` | the parser, and the meaning of an utterance stated independently of it |
| `ExtractionJobs`, `OperatorDefaults`, `ProcessedValuations`, `StartupMigration` | one module per component of that name |
| `RowLists` | a list read page by page while others write |
| `ServiceThreads` | what requests, jobs and polling wait for |
| `ExtractionOutcome` | the field extractor, from `/decide` to the outcome, with the OCR passes and the no-text sub-kind |
| `WordGrid` | OCR words glued into cells, and the lookup of the cell below a label |
| `LghCells`, `ComparableSales`, `Samintecknad` | the label-value lines of a lägenhetsförteckning, the table of sales, the walk for jointly mortgaged properties |
| `Statement` | `/generate`: the filling of the template and the conversion |
| `MC...` | constants of the runs: what is dictated, uploaded, said; symmetry. `MCTexts` puts the parser and the machines from `WordGrid` to `Statement` into one run, `MCProcessedValuations` the sessions and the lists: they share no state, and a behaviour is one of them at work |

How state and actions correspond to code is in the `map` of `PROJECT.json`, definition
by definition. The points that need explaining:

### CommandPipeline

`voice`, `processed` and `rows` are the tables. `rows` holds tasks and notes in
the order of `created_at`, which Python's default gives when the row is flushed; a
flush and its commit are one step, so it is taken to be the commit order. A
deleted row stays in the sequence, not `live`, with the message that deleted it in
`dropper`. `session[p]` is what pass `p` holds uncommitted: sessions are made with
`autoflush=False` (`database.py:7`), so added records and rows, edited and deleted
objects wait for the commit, while each query sees what is committed at that moment.

- `Fetch` is the query of `poll_transcriptions`; `TakeBlank` the early `continue`,
  which adds a record without committing; `TakeMessage` the start of a message.
- `SkipCommand`, `UpdateTarget`, `DeleteTarget` execute one command each, against
  the rows numbered by a query of their own. `Edit` keeps what was loaded and what
  was assigned, because the UPDATE names only columns whose value differs at the end.
- `CommitMessage` and `CommitRefused` split on `Committable`: values that fit their
  columns, the unique constraint, and no UPDATE of a row that is gone (a
  `StaleDataError`; a DELETE of such a row only warns). `MessageFault` is any failure
  of the database's own. `RecordError...` are the three ends of the recovery.
- `LoadTaskForUpdate`, `LoadNoteForUpdate`, `LoadForDelete` are the query of a REST
  handler, `CommitUpdate` and `CommitDelete` its commit. They are `def` handlers on pool
  threads, so anything may come in between.
- `Restart` empties every session and request at once: there is one process.

A commit whose acknowledgement is lost is `CommitMessage` for the database and, for the
message, the same as `RecordErrorRefused` afterwards. A `Fetch` that fails changes
nothing. An explicit `"status": null` in a PATCH is refused by the database and
changes nothing either. A target is always a number, as the parser produces no other.
Field values other than `status` and `closed_at` are abstracted to `sound`: whether
those of the created rows fit.

### ExtractionJobs

`job` is the row the client polls; `work[r]` the code that goes through the files
of a job or a `/extract` request; its `log` says, for each file gone through, when the
diagnostic was written, or that its write failed. A day is the unit of the retention
window. A file is `sound`, `broken` (the extractor raises) or `refused` (not a PDF,
too large). `/extract-async` validates every file before it commits the job, so a refused
submission changes nothing; `/extract` validates each when its turn comes.
The ownership check of `GET /jobs/{id}` is not modelled: it reads only.

### OperatorDefaults

Each use of the file is an action: the `exists()` test, the query for a seed, the
truncation by `open`, the write of the text at offset 0, the read. `Size` orders texts by
length, which decides what two writers leave. `own`, `saved` and `torn` are history
variables. The load at the end of an extraction is a load like that of the GET.

### ProcessedValuations

As for tasks, a request is a query and a commit, and the UPDATE of a PATCH names
only the columns that differ from the loaded row. `raced` is a history variable: the
rows a PATCH was committed to while another one had them loaded. `name` is a label
and left out.

### StartupMigration

`schema` is the valuation part of two databases; `at` the next statement of the
boot. Each statement of `db_migrate.py` runs in a transaction of its own, so each is an
action, and a boot may fail (`StartupSkipped`: logged, serving without polling) or die
before any of them. `create_all` is one transaction. `Init` covers what every
earlier release of the service may have left; `Reboot` may change the environment. The
`commander_*` tables have no migrations and are left out.

### CommandParser

A text is the sequence of its words once `preprocess_lightweight` has removed case and
punctuation. `Begins`, `Markers`, `Dimensions`, `ParseSegment` are the regular
expressions and branches of the parser on such sequences. `Rendered` says an utterance in
the order of docs/SPEC.md and `Meaning` says what it asks for. `Grammatical` and
`GrammarAssumption` are the grammar: no part of an utterance begins a command or gives a
dimension, though it may have the words for both in it; the table comes before any other
table word; the number belongs to the commands that need one; "next" stands only in front of
a date. The heading of an utterance is what `StripFillers` leaves of its preamble;
`MCTexts` writes it out for each of its preambles. dateparser is external (`Dates`); the truncation of
a title taken from the content to 60 characters is abstracted.

### ExtractionOutcome

A text is the set of what the regular expressions of the code find in it: exact banners,
banners broken by junk (`Broken`, which only an OCR'd document may match) and labels that
have a value. A document has a text per program, since pdfplumber and PyMuPDF read one
file differently; `TextRead` says which of them a guard looks at, and `Applies` which of
them and of the word grid a strategy does. A chain is a sequence of strategies in the
code's order; one function that tries two places is two strategies in a row (`DateChain`).
Found values are `Read`, except where the template or the outcome depends on them.
`ReadNative`, `Classify`, `OcrPages` and `OcrWords` are the steps of `build_context`,
each with its failure; a file that pdfplumber cannot open is a `broken` file of
`ExtractionJobs`. The estimate of seconds is left out, and the extras have modules of their
own: they add to the answer and decide nothing.

### RowLists

`listed` is a table in the order of `created_at`, each row on the list or off it; a row
is flushed (and gets its `created_at`) before it is committed, so rows come to be seen out
of order. Deleting a row and editing the column that the filter asks for are the same to
a list. The reader asks for the next page as long as the last total says that there is
one; this is how the two are meant to be used, the client itself is elsewhere. `owed` is
a history variable.

### ServiceThreads

A request goes through stages; `stage` and `step` say whether it waits for a thread,
runs, waits for a connection, or has a thread that is done and waits for the loop. What
the code does not show, and the model takes from starlette, anyio and SQLAlchemy:

- a synchronous dependency, a `def` handler, `run_in_threadpool` and a background task
  take a token of one limiter, and the coroutine gives it back when the loop resumes it;
- what a `def` handler with a `response_model` returns is validated in `run_in_threadpool`
  (FastAPI's `serialize_response`), so the request waits for a thread once more, with the
  connection of its last query (`ResumeHandle`, `ResumeValidate`); an error or a response
  object is not validated;
- the exit of `get_db` runs on a thread with a limiter of its own, after the endpoint
  and before the response and the background task (`Close`, `ResumeExit`);
- a session takes a connection at its first query and returns it at commit, rollback or
  close; whoever finds none waits, with its thread, up to the pool's 30 seconds. A commit
  and the refresh after it are two takings (`HandleCommit`, `Save`, `Reload`).

`left` counts what a task has still to go through: the files of an upload, the commits of
a handler (`POST /process` commits per message), the messages of a pass. What is
computed, and errors other than a missing connection, are left out: an error ends a
handler the way its end does. `PollBegin` is the end of the sleep.

### The texts

`WordGrid`: lengths are in points. A page is the set of its printed cells; `Words` is what
OCR makes of them, and `ValueIsBelow` compares the lookup with what is printed. Pages are
set as the comments of `_ocr.py` 101-108 and `field_extractor.py` 272-292 measure them: a
value 15 below its label, a second row 10 below that, the next label 40 below; 3 between
words, at least 14 between columns; one cell per page up to 3 out of line.
`PagesAssumption` is what the properties need of them: cells of one line are more than
the gutter apart, a label is printed once, and `LaidOut`: below a label, within the
tolerance of its column, there is no row within 18, or the row of its value and then no
row within 36 or the second row. What OCR reads in which line is free.

`Samintecknad`: a line is what the code finds in it. A report is a sequence of pieces
(titles, column headers, page breaks, rows); `PieceLines` prints them (a row on one line,
with the other property's name wrapped, or with that name torn off by a page break) and
`Fires` says which rows count. `ReportsAssumption` says which reports there are: they begin
with a title, a mortgage names the other property and a purchase does not, only ownership
tables have column headers, and the present owners' section never directly follows an
ownership section.

`LghCells`, `ComparableSales`: a document is a sequence of printed lines or of rows;
`Rendering` and `PrintedRow` print it, and the properties compare what is read.
`RegistersAssumption`: no line says what the line above it says (the code would drop it), a
value is no label, and of a value of two lines the first does not occur before.
`SalesAssumption`: months stand in their column only, a
sale's balcony column holds Ja, Nej or nothing, and its area is neither.

`Statement`: a text is the sequence of its words, blanks included; an escape in the note is a
word, of which `Expansions` says what `re.sub` makes, unless it is one of `BadEscapes`;
`Controls` are the words that python-docx refuses. `Template` holds the
paragraphs of the bundled document that have placeholders, shortened to what the passes
look at. `BuildReplacements` leaves out the fallbacks for `[Ort]` and `[Datum]` alone,
which the template does not have. `Reviewed` says what the statement is to say, without
the template. `Write` is LibreOffice, which may go on when its launcher has been killed.

## 3. Runs

| Run | Shows | Bounds, and why they are enough |
|---|---|---|
| `pipeline_ledger` | `TypeOK`; `LossHasCause`; `StampFollowsStatus`; `ExactlyOnce`: every behaviour is one of `CommandLedger` | 2 messages out of 6 transcriptions, 2 passes, 1 REST request, 3 statuses (open, closed and one of any other text), 1 failure per message, 1 restart: a message fetched twice, a row deleted or reopened under a session, a failing error record, each crash point |
| `pipeline_liveness` | `EveryMessageRecorded` | 2 messages (blank, good, over-long), a failure of the message or of its error record, a restart |
| `extraction_jobs` | `TypeOK`, `DiagnosticsSurvive`, `JobRowTruthful`, `FailureHasCause`, `JobSettles` | 1 job, 1 request, up to 2 files, retention 1 of 3 days (before, at and after the edge), 2 failures (one while recording the other), 1 crash |
| `defaults` | `TypeOK`, `AnswerIsOwn`, `LoneWritesReadable` | 2 users, 2 requests, a short and a long identity, 1 valuation, 1 crash: both orders of two writers, whose texts differ in length |
| `valuations` | `TypeOK`, `FlagTruthfulUnlessRaced`, `OwnersOnly`, `ListShowsAll` | 2 users, 2 values, 2 rows, 2 requests; lists of up to 5 rows, 2 on a page: three pages, rows that come and go before, on and after the page being read |
| `startup` | `TypeOK`, `PollingOnFullSchema`, `BootSparesForeign`, `OwnersKept`, `MigrationCompletes` | all 7 releases, 1 legacy row, 2 rows, 2 failed statements or crashes, any environment at each boot |
| `extraction_outcome` | `TypeOK`, `OcrNeverConfident`, `ShapeAgrees`, `DecideForetells`, `NoTextHonest`, `Answered` | 2844 documents: up to 2 of the 5 banners with 12 sets of labels and 5 of cells, read by both programs, by one, or by OCR with sound and broken banners (and an `lgh` banner on page 2); 1 or 2 blank pages with up to 2 drawings around a threshold of 2. Every outcome, every strategy order and both OCR failures occur |
| `threads` | `TypeOK`, `StuckOnlyForConnections`, `OcrHoldsNoConnection`, `EveryoneAnswered`, `PollingGoesOn` | an upload (either endpoint), a `def` handler, a second one or a request without a query, the polling loop, 2 threads, 1 connection, up to 2 files, commits or messages: both pools full, each of the four waiting for another, in the circle through the loop and in the one through the threads |
| `texts` | `Understood` | one utterance of every operation and table with up to 2 of 13 dimensions, and two utterances in a row after a preface |
| | `EvidenceIsSaid` | 5 blocks (purchases of present and past owners, two mortgages, an agreement that names a mortgage), each with and without column headers, in both renderings, with a page break between any two pieces or in a row, or without |
| | `ValueIsBelow` | 2 columns of 2 labels, any of them without a value, one value that wraps, either grouping of cells into lines, any cell 3 out of line |
| | `CellsArePrinted`, `SalesArePrinted` | labels and columns of every kind, blank or not, lines once or 4 times; 2 sales in a row, with and without a balcony and with names of none to two words, one of them Ja |
| | `ReadsAsReviewed`, `AnswerIsWhole` | both tenures, all 8 mixes of sources, 8 × 8 amounts of up to 7 digits, ISO and other dates, no date or place; notes with escapes that `re.sub` rejects, takes or leaves, and characters no docx can hold; both formats with LibreOffice there or not, and each way it can end |

Three more runs end in a violation; each is a disagreement between the code and what
the repository says of it (section 7).

Deadlock is checked except where the model really stops: all submissions made
(`extraction_jobs`), the last row deleted (`valuations`), the text read to its end
(`texts`), the document answered (`extraction_outcome`). `MaxFaults`, `MaxRestarts`, `MaxDay`,
`MaxRows`, `MaxListed`, `MaxLegacy`, `MaxValuations` and `MaxParts` are the bounds on what would
otherwise grow without end; nothing in the
properties depends on their values, and the theorems hold for every value.

`pipeline_ledger` leaves blank transcriptions out, because with them
`LossHasCause` does not hold (`pipeline_blank_loss`); `pipeline_liveness` includes them,
and `ExactlyOnce` and `StampFollowsStatus` are proved with them. `texts` leaves numbers out of the values of a read, update or delete that is
spoken without its number: the parser then takes the first number of a value for
the target, and no document says what should happen.

Each property is also run against a mutant: a definition with a plausible bug
(marked `Mutant:` in the modules) that the property must catch.

## 4. What the properties say

- `ExactlyOnce`: races, crashes and failures never apply a message twice, half, or
  without its record; each message deletes at most as many rows as it has delete commands.
- `LossHasCause`: a message becomes an error (and is never retried) for a reason
  of its own only.
- `StampFollowsStatus`: voice commands and PATCH requests decide `closed_at` from stale
  copies, for any statuses. It parts from the status only in the commit of an edit that was
  overtaken, and a task that is closed or reopened from a sound copy is sound again.
- `EveryMessageRecorded`, `JobSettles`, `MigrationCompletes`: what must happen in the end.
- `DiagnosticsSurvive`: diagnostics are committed file by file, so a job that fails later,
  or dies, keeps them; the sweep of any run spares rows inside the window.
- `JobRowTruthful`, `FailureHasCause`: the rolled-back result never stays behind a
  failure; a diagnostic that cannot be written never fails a job.
- `AnswerIsOwn`, `LoneWritesReadable`: what a load may answer and when a file parses.
- `FlagTruthfulUnlessRaced`, `OwnersOnly`: the flag can be wrong after two overlapping
  PATCHes only; a row changes by its owner's requests only.
- `PollingOnFullSchema`, `OwnersKept`, `BootSparesForeign`: whatever was cut short before.
- `OcrNeverConfident`, `NoTextHonest`: what the operator and whoever
  reads the diagnostics are told of a scan, an unknown layout and a strategy that misses.
- `ShapeAgrees`: `upplatelseform` and `property_shape`, filled by two chains of different
  order, put the template into the same mode.
- `DecideForetells`: `/decide` asks PyMuPDF only, the extraction both programs; still
  OCR never comes unannounced, and both name the same kind of image-only PDF.
- `Understood`: no command changes the reading of another one.
- `StuckOnlyForConnections`: however small the pools, there are two circles only, both with
  all connections held by handlers that have returned: the event loop waits for a connection,
  or every thread does. The pool's timeout ends either.
- `EveryoneAnswered`, `PollingGoesOn`: neither circle nor any crowd of newer requests
  keeps a request, a job or the polling from its end.
- `OcrHoldsNoConnection`: minutes of OCR cost the others a thread, never a connection.
- `ListShowsAll`: what creates, late commits, edits and deletes do to a reader of pages.
- `EvidenceIsSaid`, `ValueIsBelow`, `CellsArePrinted`: a value is read for the label or row it
  was printed for, whatever is empty or out of line around it.
- `SalesArePrinted`: no sale is lost, and no word of one; a value stands in its own column
  unless one to its right is blank.
- `ReadsAsReviewed`, `AnswerIsWhole`: the statement says what was reviewed, once each, the
  note with its escapes expanded, and is answered whole or not at all.

## 5. Fairness

- `CommandPipeline`: `WF(Poll(Loop))`. The loop of `main.py` 37-54 is `while True`, catches
  every exception and sleeps a bounded time. Nothing is assumed of `POST /process`, of the
  callers, of the transcriber, nor that the database fails: failures are bounded per message
  by `MaxFaults`, which is what "the database recovers" means here.
- `ExtractionJobs`: `WF(Work(j))`. A background task runs on a pool thread until it
  returns. It is not assumed to survive a restart: `JobSettles` exempts it, and
  `models.py` 264-266 accepts such orphaned rows.
- `ExtractionOutcome`: `WF(Next)`. An extraction is straight-line code; its OCR passes are
  taken to end or to fail (the calls of tesseract have no timeout).
- `ServiceThreads`: `SF(Serve(r))` for each request and `SF(Polling)`. The ready queue of the
  event loop and the waiters of the limiter are served in order, so whoever can go on again
  and again does so in the end, however often the loop or a token is taken by others in
  between; weak fairness would let newer requests take every turn. Nothing is assumed of
  arrivals. Extractions end (no timeout covers the calls of tesseract), and the pool's
  timeout does run out.
- `StartupMigration`: `WF(Boot)`, since a boot is straight-line code, and `WF(Reboot)`:
  the operator keeps restarting the service, as the log of `db_migrate.py` 70-71 asks
  ("reboot to complete the migration"). That the backfill id stays set is a premise of
  `MigrationCompletes`, not an assumption of the specification.

## 6. Theorems

Those about `CommandPipeline` hold for any numbers of messages, passes, requests, failures
and restarts, from the assumptions on the constants named in `CommandRows` and
`CommandPipeline` (`StatusAssumption`, `NoneAssumption`, `TranscriptsAssumption`,
`PollerAssumption`, `BoundsAssumption`).

- `TypeCorrect`: `Spec => []TypeOK`. `TypeOK` alone is not inductive: that the commands of
  the current message are defined needs that there is one, completed and not
  blank. `Working` says so, and that a session outside a message holds no edits.
  `TypeStep` and `WorkingStep` prove both, one step per action.
- `RefinementTheorem`: `Spec => ExactlyOnce`. `DropsBound` strengthens the invariant:
  a session has marked at most one row deleted per delete command executed. A
  commit then maps to `Settle` (`CommitSettles`), an error record to `Reject`, a
  REST delete to `Remove`, a completed transcription to `Complete`; every other step is a
  stutter, a PATCH included, since the ledger shows no field values. The theorem includes
  blank messages.
- `LossTheorem`: without blank transcriptions, `Spec => []LossHasCause`. `LossInv` adds that
  a pass about to record an error already has the cause, or the message is recorded
  and the error will be refused; and that only a message with an update command holds edits,
  so only such a commit can find a row gone.
- `StampTheorem`: `Spec => StampFollowsStatus`, with no assumption on the statuses or on how
  often a transcription assigns one. `StampInv` adds what every edit held by a session or a
  request is to write, given what it loaded (`Stamped`); that `Write` then keeps or restores
  the fit is `WriteFits`, and no other step touches the two columns.

Those about `ServiceThreads` hold for any set of requests, any number of threads and
connections and files of any number, from `TaskAssumption`, `WantsAssumption` and
`BoundsAssumption`. Their one inductive invariant is `TypeOK` with `Sound`: at which stages
a task can be that holds a thread or a connection, waits for one, or is on the loop.
`MovesPreserve` shows once that a task that goes on leaves all the others as sound as they
were; what is left is that each action is such a move.

- `TypeCorrect`: `Spec => []TypeOK`, the limits of both pools and the loop's owner included.
- `NoConnectionDuringOcr`: `Spec => []OcrHoldsNoConnection`, from `Sound` alone.
- `OnlyConnectionsAreStuck`: `Spec => []StuckOnlyForConnections`. Suppose everybody waits.
  Whoever holds a connection then has returned from its handler and waits for the loop or for
  a thread. Whoever executes on the loop can only wait for a connection. If nobody does,
  nobody waits for the loop, so those who hold threads wait for a connection; and since both
  pools have room for at least one, somebody who waits for one finds it full.

`ExtractionJobs`: any sets of jobs and requests, any number of files, failures, days and
restarts, from the assumptions the module names. What the properties say is
about the end of a run; the invariant says what is true on the way (`Sound`): the files a
run went through were sound, and so is the one whose diagnostic is about to be written; the
row of a job has no outcome before the worker's last step; and where the worker is about to
record a failure (`mark`) there is a cause for one. `OthersKept` shows once that a step of
one run leaves the others as sound as they were.

- `TypeCorrect`, `DiagnosticsTheorem`, `JobRowTheorem`, `FailureTheorem`: `TypeOK`,
  `DiagnosticsSurvive`, `JobRowTruthful`, `FailureHasCause`.

`StartupMigration`: any number of owners, rows and failures. The invariant has a part for
every statement of `lifespan`: once a boot is past it, what it adds is there (`Built`), and
when it reaches the count no row is unowned unless no backfill id is set (`Migrated`).
This holds across boots because the statements are in one order and nothing removes
a column; `TableFirst` (a database without the table has no rows) makes `create_all` safe for
the owners.

- `TypeCorrect`, `PollingTheorem`: `TypeOK`, `PollingOnFullSchema`.
- `ForeignTheorem`, `OwnersTheorem`: the action properties `BootSparesForeign` and
  `OwnersKept`; the first needs that past the identity check the database is the own one.

`OperatorDefaults`: any operators, clients, identities and lengths of their texts. A request
carries an identity its user had, a signature belongs to the owner of its valuation, and
a file holds its user's text or is garbled. For a file not in `torn`, at most
one request is between opening and writing it, and it is empty meanwhile
(`LoneSound`): that a write at position 0 then leaves exactly the new text is why the code's
truncation matters.

- `TypeCorrect`, `AnswerTheorem`, `LoneWritesTheorem`: `TypeOK`, `AnswerIsOwn`,
  `LoneWritesReadable`.

`ProcessedValuations` and `RowLists`: any users, rows, values and requests; any page size.
The invariant of the sessions is that a PATCH nobody has raced would leave its row with a
right flag, and that every request's row is its user's. That of the list is that
owed rows on pages before the current one have been shown (`EarlierShown`) and that between
a count and its query the list is no longer than counted while a row is owed
(`TotalBounds`), so that the page that ends the reading is the last one.

- `TypeCorrect`, `FlagTheorem`, `ListTheorem`: `TypeOK`, `FlagTruthfulUnlessRaced`,
  `ListShowsAll`; `OwnersTheorem`: the action property `OwnersOnly`.

`ExtractionOutcome`: any documents, with any number of pages and any marks. Two lemmas are
about the strategies: `Select` (a chain yields its first strategy that applies, from the
well-foundedness of the naturals) and `ShapeFollowsForm` (the two chains that name the form
and the shape of a property agree on every context, though they rank two banners
differently). The invariant says what the context holds by where the request is: the text
of the document until the OCR has put its own there, which happens only to a document without
text; and that fields and diagnostics are those of the context.

- `TypeCorrect`, `ConfidenceTheorem`, `ShapeTheorem`, `DecideTheorem`, `NoTextTheorem`:
  `TypeOK`, `OcrNeverConfident`, `ShapeAgrees`, `DecideForetells`, `NoTextHonest`.

`TextsProofs`, about the machines that read documents and speech and write the statement:
any requests, from `NoAnswerAssumption` (no answer is `None`); any tables of sales,
registers, reports, scanned pages and speeches, of any length and over any words, from
`SalesAssumption`, `RegistersAssumption`, `ReportsAssumption`, `PagesAssumption` and
`GrammarAssumption`, which say how such documents are printed and such speech is said, and
which TLC evaluates on the texts of the run.

What is printed or said is a `FlattenSeq`, a recursive function of the community modules that
no library theorem is about. `SetInduction` does the induction that is needed over
the set of the numbers for which the claim holds; with it the function is shown to exist, to be unique and to
append piece after piece (`FlattenSeqIs`, `UpToNext`), and `Layout` says at which place of the
whole text each word of each piece stands. The rest is about places: `BeginsAre` and
`SplitIs` (commands begin where one was said and nowhere else), `MarkersAre` and
`DimensionsAre` (so do dimensions), `ParsedMeant` (a segment parses to the meaning of its
utterance). Each inductive invariant says that what has been read so far is
what was printed or said so far.

- `WholeTheorem`: `StatementSpec => []AnswerIsWhole`. `StatementInv` says what a conversion
  has passed before it starts (a signature, all paragraphs, a request for a PDF), and
  that nobody writes to the directory of a LibreOffice that has exited.
- `SalesTheorem`: `SalesArePrinted`; `SalesInv` counts the rows read that are sales, so that
  each is found at its place in the list.
- `CellsTheorem`: `CellsArePrinted`; `LghInv` says that a key has the value of the first of its
  labels that has one, and that no label gave a value before it was read.
- `EvidenceTheorem`: `EvidenceIsSaid`; `WalkInv` says which piece is being read, and which section is
  open after it, whatever titles and headers were repeated.
- `UnderstoodTheorem`: `Understood`; `ParserInv` says that the segments that are left are
  the utterances that are left, and that the others have given their meaning.
- `GridTheorem`: `ValueIsBelow`. `GridInv` says that after n words the glued cells are the
  printed cells whose last word is among them, each once, and that the run is the first words
  of one more. `WordsInOrder` shows that sorting by a `CHOOSE` on counts gives the words of
  the page in reading order (`RanksAre`: a strict order of a finite set gives each
  element a rank of its own); `NextWord`, `FirstWord` and `GapAfter` that a word is followed
  by the next one of its cell, or a gutter and the first one of another; `LookedUp` that
  the lookup on cells glued as they were printed finds the row below.

Each inductive invariant was checked by TLC on the instance of its component's run
before it was proved; of `SalesInv` and `WalkInv` only the types of the lists, which
range over infinite sets, were left out, and in `GridInv` the order of the glued cells was
computed from the cells instead of quantified.

Only model-checked:

- Liveness (`EveryMessageRecorded`, `JobSettles`, `MigrationCompletes`, `Answered`,
  `EveryoneAnswered`, `PollingGoesOn`), which needs fairness.
- `ReadsAsReviewed`: the passes fold over the words of a text that the earlier passes
  produced, with `SelectSeq` in between, a recursive operator of the standard modules that
  the provers cannot expand. The template is one fixed document, and the run has all mixes of sources.

## 7. Where code and documents disagree

Shown by a run that ends in a violation:

- `pipeline_blank_loss`: the uncommitted record of a blank message, committed meanwhile by
  another pass, makes the commit of the next good message fail; that message is then
  recorded as an error and lost.
- `defaults_overwritten`: a seed can overwrite an explicit save, because the test
  for the file and the write are separate steps.
- `startup_foreign`: if the identity check fails for a moment (a refused connection), the
  service comes up and writes to the foreign database; only the boot itself is guarded.

Met while modelling, stated as the premise or exemption of a passing property:

- A blank transcription without a later good message in its pass is never recorded: its
  record is dropped with the session, on every poll (`poller.py:38`). `EveryMessageRecorded`
  is about messages that say something.
- A status is any string (`routes.py:114`, `poller.py:175`), and who moves a task between two
  statuses other than closed does not write `closed_at`. A pass that has loaded a task in
  status "waiting" and sets it to "open", and a PATCH that closes the task before that pass
  commits, leave an open task with `closed_at` set. So does, with two statuses only, a
  transcription that opens and then closes an already closed task (it writes `closed_at` but
  not `status`) when a PATCH reopens the task meanwhile. The first happens in
  `pipeline_ledger`; `StampFollowsStatus` allows either as an edit overtaken (`Spoils`).
- When marking a job failed fails too, it stays pending or running for good
  (`routes.py:325` of `valuation_statement`). `JobSettles` exempts it (`unmarked`).
- Two overlapping PATCHes of a valuation, one of each value, leave `was_manually_edited`
  wrong: the flag follows the loaded row, and the UPDATE names changed columns only
  (`processed.py:250`). `FlagTruthfulUnlessRaced` exempts such rows (`raced`).
- A PDF with a Fastighetsrapport on its first page and a lägenhetsförteckning on a later
  one is `bostadsratt` by `property_shape` and `Friköpt` by `upplatelseform`, since the two
  chains rank these layouts differently (`field_extractor.py:984` and `:1127`).
  `ShapeAgrees` exempts it.
- Text that only pdfplumber sees, on a page after the first, counts for `_carries_text` but
  not for the trigger of the OCR (`_context.py:86`): when the OCR fails, such a file has a
  sub-kind of a file without text and the outcome `unrecognised`. The docstring of
  `decide_extraction` rules these files out, and so does `Document`.
- Two overlapping PUTs of different length leave a file that does not parse
  (`routes.py:593`). `LoneWritesReadable` exempts files in `torn`.
- A total that is counted before a row enters the list ends the reading one page early, and
  a row deleted from a page that was read moves the rest up (`routes.py:77`,
  `processed.py:138`). `ListShowsAll` exempts both by emptying `owed`.
- Nothing moves for up to 30 seconds if all connections belong to handlers that have returned,
  and either the event loop, which is to resume them, waits for a connection (`main.py:46`,
  `routes.py:250`, `database.py:6`), or all threads do, one of which is to validate their
  responses (15 handlers between their return and their validation, while 40 threads are
  connecting). `StuckOnlyForConnections` says that these are the only ways.
- A blank label of a lägenhetsförteckning takes the value of a later label
  (`field_extractor.py:899`); `_bullet_value` was changed not to do that in prose, where an
  empty slot "must land as not_found". A missing postort is likewise the line that follows.
  `CellsArePrinted` is about labels that have a value; of a value of several lines,
  the first is kept.
- A sale with a blank column and a balcony, or a name of several words, has enough words to
  be parsed, and the values left of the blank shift to the right (`field_extractor.py:1447`).
  `SalesArePrinted` allows that, and only that: its words stay in order, and those right
  of the last blank stay in their columns.
- The name of the other property is looked for on the next line when OCR has spoilt it on
  its own, where another row may stand (`field_extractor.py:1569`); a page break between a row
  and its wrapped name loses it. `EvidenceIsSaid` exempts the name, not the row.
- The operator's note is the replacement template of the regular expression that inserts it
  (`template.py:273`). A backslash before most letters and digits, or at the end, makes
  `/generate` fail with a 500, and so does an escape for a control character. `\n`, `\t` and the
  like, a doubled backslash and `\g<0>` are taken: the statement is answered with a line break, a
  single backslash or the template's own hint in place of what was typed.
  `ReadsAsReviewed` is about statements that are answered, and reads the note so expanded.
- When a conversion times out, its directory may stay behind (`pdf_export.py:67`): only the
  launcher is killed. `AnswerIsWhole` exempts it (`orphaned`).
- "you uh know" leaves "you know" in a title: removing one filler uncovers another
  (`parser.py:45`).

## 8. Not modelled

Single-row reads and the CSV export, one query each; the vocabulary, health and transparency
endpoints, constants; schemas and data classes. The text of log lines and error messages.
Regular expressions over document text, the re-spacing of glued values
(`_canonical_via_fitz`) and the repair of ligatures, all conversions of characters. The
formatting of docx runs; LibreOffice and tesseract, which are external programs. A
`rollback()` that raises; clocks, beyond the order of rows, the day of a diagnostic and the
fact that a timeout runs out; how long anything takes. The scripts and CI definitions,
which run outside the service.

## 9. Plan

Order of work, the most important behaviour first. All of it is done.

1. The pipeline: `CommandRows`, `CommandLedger`, `CommandPipeline`, its runs and theorems.
2. The other stateful components: `ExtractionJobs`, `OperatorDefaults`,
   `ProcessedValuations`, `StartupMigration`, and `CommandParser`.
3. `ExtractionOutcome`: the field extractor and the no-text sub-kind.
4. `ServiceThreads`: the components together, as far as they wait for each other; a joint
   state of jobs, defaults and outcomes would show no more than the parts, since they meet
   in one call each. `RowLists`.
5. `WordGrid`, `LghCells`, `ComparableSales`, `Samintecknad`, `Statement`.
6. Proofs of the safety properties of `CommandPipeline`, `ServiceThreads`, `ExtractionJobs`,
   `StartupMigration`, `OperatorDefaults`, `ProcessedValuations`, `RowLists`,
   `ExtractionOutcome` and the handler of `Statement`.
7. Proofs about the machines over texts: `ComparableSales`, `LghCells`, `Samintecknad`,
   `CommandParser` and `WordGrid`. Liveness and `ReadsAsReviewed` stay with TLC (section 6).
