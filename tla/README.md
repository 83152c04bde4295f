# Verification of PymesDataStrategy

TLA+ modules, TLC models and TLAPS proofs about the data-cleaning backend in this repository:
an Express API (`src/api`), a Python worker (`src/worker`), Postgres (through Prisma and
SQLAlchemy), Redis with a BullMQ queue, and MinIO.

## 1. Inventory

| Component | State it keeps | Operations | Interacts with |
|---|---|---|---|
| Dataset creation (`CreateDatasetUseCase`) | the dataset row | upload, save, enqueue, markProcessing + save | MinIO, Postgres, queue |
| Decision submission (`SubmitDecisionsUseCase`) | anomaly and decision rows, dataset row | a loop of find / resolve / save, enqueue, markProcessing + save | Postgres, queue |
| Transformation (`TransformDatasetUseCase`) | dataset row | READY check, enqueue, markProcessing + save | Postgres, queue |
| Deletion (`DatasetController.delete`) | dataset row, uploaded object | find, delete object (best effort), delete row (cascades) | MinIO, Postgres |
| Status listener (`DatasetStatusSyncListener`) | dataset row | on completed: new storageKey and READY; on failed: ERROR | QueueEvents, Postgres, SSE registry |
| Job queue (`BullMQJobQueueService`) | jobs in Redis | add with retry, getStatus, cancel; attempts 3, exponential backoff | Redis |
| Worker shell (`BullMQWorker`, `ETLJobProcessor`) | the jobs it runs | fetch, run an attempt, complete or fail it, start and stop | queue |
| Dataset processing (`ProcessDatasetUseCase`) | anomaly rows, result objects, job rows | download, parse, transform, detect, review, apply, upload, report | MinIO, Postgres, dashboard |
| Anomaly review (`PrismaAnomalyRepository`, `SaveAiSuggestionsUseCase`, `SQLAlchemyJobRepository`) | anomaly and decision rows | decide, suggest (webhook or worker), poll, read the decisions | Postgres, n8n, Gemini |
| Job event stream (`JobController.streamEvents`) | one SSE response | snapshot, subscribe, forward, time out, clean up | QueueEvents |
| Workspace events (`EventsController`) | map from user to SSE responses | subscribe, emit, clean up | listener |
| Data transformer (`DataTransformer`) | none (a function on a table) | a chain of fifteen kinds of transformation, stopped by the first failure | the worker |
| Anomaly detection (`_detect_anomalies`) | none | heuristics for fourteen types of anomaly, one record per heuristic and column | the worker |
| Decision application (`_apply_decisions`, `IRExecutor`) | none | find the rows of an anomaly again, write the decision into them, strip, repair dates | the worker |
| Correction IR (`IRValidator`, `InstructionParser`, `ParseInstructionUseCase`) | none | turn an instruction into a program, by rules or by Gemini, and validate it | Gemini, the reviewer |
| Dataset parser | none | choose a reader, convert | the worker |
| Accounts (`AuthController`, four use cases, token middleware, `PrismaUserRepository`) | user rows; tokens at the clients | register, log in, read and update one's profile | Postgres, bcrypt, JWT |
| Queries and report (`GetAnomaliesUseCase`, `GenerateReportUseCase`, `PrismaStatsRepository`, `GetDownloadUrlUseCase`) | none | list anomalies, report, dashboard, download link | Postgres, MinIO, Gemini |
| Storage adapters (`MinioStorageService`) | the objects of two buckets | upload, download, delete, sign a link | MinIO |
| Health, HTTP plumbing | none | | |

A dataset moves through the system as follows.  A request uploads the file, inserts the row,
enqueues a job and saves the row again as PROCESSING.  The worker takes the job, downloads
and parses the file, detects anomalies, stores them and polls Postgres until a human has
decided on all of them or half an hour has passed; it applies the decisions, uploads the
result and completes the job.  QueueEvents tells the listener in the API, which reads the row,
replaces its storageKey by the result and saves it as READY (or ERROR).  A submission of
decisions enqueues a further job for the same dataset while the first is usually still
polling.

What is hard in it:

* *Stale whole-row saves.*  `PrismaDatasetRepository.save` and `PrismaAnomalyRepository.save`
  write what an entity read earlier holds.  Requests, listener callbacks and webhooks all
  keep such entities across awaits, and there is no version check and no transaction around
  read and write.
* *Partial failure.*  Object storage, Postgres and Redis are written one after the other, and
  nothing is undone when a later write fails.
* *Retries.*  A job may run several times (attempts, stalled jobs), and several jobs may run
  on the same dataset at once.
* *Lost events.*  A listener callback that throws is logged and forgotten; QueueEvents reads
  only what is published after it has started.
* *Timeouts.*  The review ends after `hitl_max_wait` with the decisions there are.
* *Two pieces of code for one notion.*  Detection counts the cells of an anomaly and forgets
  them; other code finds them again when the decision is applied.  Decisions on one column are
  applied one after the other, in no fixed order.

What makes each component correct: the row offers only files that exist; PROCESSING means an
outcome is owed; anomalies are stored once; jobs are settled once and for good; results are
computed from the upload; decisions are never lost and every applied one was made; suggestions
survive for what is undecided; a stream reports the end of its job; a decision changes the cells it
is about and no others; a registration that was confirmed stays good, and a user's row has one writer;
what a client is shown holds together; a job in the queue runs as often as it may, and not after its cancel.  The full list of hazards,
each at its line with the properties that cover it, is in `PROJECT.json`.

## 2. Plan

1. `DatasetPipeline`, its abstract specification `DatasetContract`, its inductive invariant
   and proofs: *done*.
2. `AnomalyReview`: submissions, webhook, worker suggestions and polls per anomaly, with
   inductive invariant and proofs: *done*.
3. `JobEvents`: job streams, the listener's notifications and the SSE registry, with inductive
   invariant and proofs: *done*.
4. `JobQueue`: retry of enqueue and cancel against BullMQ's transitions, the worker service's
   start and stop, with inductive invariant and proofs: *done*.
5. `Cells`, `Detection`, `Transformations`, `CorrectionIR`: the data algorithms as operators;
   `InstructionDrafts` and `DatasetCleaning`, which composes them into what a job does to its
   data, with inductive invariant and proofs: *done*.
6. `Accounts`, with inductive invariant and proofs; `Reports`, which adds a client that looks on to
   `AnomalyReview`; download links and the buckets, in `DatasetPipeline`: *done*.
7. Parser, Gemini client, health, HTTP plumbing: left out, section 10 says why.

`DatasetPipeline`, `AnomalyReview`, `JobEvents`, `JobQueue` and `DatasetCleaning` are five views
of one system.  Each keeps whole what its properties are about and takes the others' parts as
single steps or as choices, which its section names.  `Accounts` shares no state with them: a
dataset keeps the id its token named, and nothing reads the users table for it.

## 3. DatasetPipeline

One dataset; `Requests` are the HTTP requests that ever reach it, `Creator` the one that
creates it.  A use case enqueues at most one job under a fresh UUID, so jobs are named by
their requests.

| State | Code |
|---|---|
| `row` | status and storageKey of the Postgres row (`ABSENT`: no row) |
| `source`, `outputs` | object in the `datasets` bucket; result objects in the results bucket |
| `content` | whether the upload is clean, has anomalies, or cannot be parsed |
| `found`, `pending` | the batches of anomalies stored, each named by its job and the number of batches before it; those with an anomaly still PENDING |
| `kind`, `pc`, `copy` | use case, await and entity of each request |
| `job`, `input`, `attempts`, `stalls` | BullMQ's state of the job, its `sourceKey`, its counters |
| `step` | where `ProcessDatasetUseCase.execute` is |
| `sync`, `entity` | progress and entity of the listener's callback |
| `late` | history: requests whose last save came after their own job's outcome |

`Put`, `Discard` and `Stored` are `upload`, `delete` and `download` of `MinioStorageService`, each on
the bucket its caller names.  `LinkBucket` and `StreamBucket` are the buckets in which
`GetDownloadUrlUseCase` and `DatasetController` look for the file of the row, and
`Downloadable` is where the worker looks.

An action is the code between two awaits.  `Create`, `Submit`, `Transform` and `Delete` are
the use cases; they share `Enqueue`, `SaveProcessing` and `Load` where the code shares
`enqueue`, `save` and `findById`.  `WorkerStep` is one attempt; `FailAttempt` is
`success=False` turned into an exception and retried by BullMQ.  `SyncLoad` and `SyncSave` are
the two halves of both callbacks (completed and failed differ in what they save).
Failures are actions of their own, switched by `Faults`: a request's call throws
(`RequestFails`), an attempt's call throws (`WorkerFails`), the worker dies (`WorkerCrash`),
a callback's call throws (`SyncFails`), the API dies (`ApiCrash`).

Abstractions: the loop over the decisions is one step with every partial outcome; the poll is
a choice between AllDecided and ReviewTimeout; suggestions do not appear, since nothing here
depends on them; a request that its validation rejects ends without any change (`Refuse`);
the buckets have their default names, which the stream writes out and the rest of the code takes from
the environment; backoff delays are unordered; removal of old jobs by age and count is left out, as it takes
24 hours or 1000 jobs; a job whose lock is lost while its worker goes on with it is left out, and a
stalled job is one whose worker died; the worker's status updates on `transformation_jobs` match no row,
because the API never inserts one, and are left out.

### Runs

| Run | Question | Bounds |
|---|---|---|
| `pipeline_faults` | are the row, the files and the anomalies consistent, do downloads find their file, is the contract kept, is every accepted job settled and does a dataset leave PROCESSING, whatever fails? | 2 requests, 2 slots, 2 attempts, 1 stall, all faults |
| `pipeline_stuck` | *violated*: the README's "Dataset pasa a READY" | no faults |
| `pipeline_retransform` | *violated*: the schema's "Ready for transformations" | no faults |
| `pipeline_resurrect` | *violated*: "Eliminar dataset" | no faults |

Two requests are the least for two jobs to run at once: a creation's, whose row the second request
may submit, transform or delete.  Two attempts and one stall reach both branches of every retry.
What needs a third request, as two transformations that both read READY do, is beyond the run; the
invariants and the contract are proved for any number of requests (section 9).  The system may stop whenever no user sends a request, so deadlock is not
checked.

### Fairness

`FairSpec` makes a started request finish, the worker advance and the listener handle its
events: each is code whose runtime keeps scheduling it.  No user has to send a request and no
fault has to happen.  Faults can only recur finitely often in one job, because the attempts and
stalls are bounded by BullMQ's options.  A crash of the API, or a callback that fails, can lose an
outcome; `DatasetSettles` excuses exactly the datasets whose outcome was lost or overwritten.

### What the violated runs show

* `pipeline_stuck`: the worker may settle a job between a request's enqueue and its last save;
  the save then overwrites READY with PROCESSING.  `ProcessingIsOwed` (proved) says that this
  and lost callbacks are the only ways to get stuck; `api/fix-stuck-datasets.ts` repairs such
  rows by hand.
* `pipeline_retransform`: a READY dataset's storageKey names an object of the results bucket,
  but the worker looks for every key in `datasets`, so a further job on it always fails and
  turns the dataset to ERROR.
* `pipeline_resurrect`: a save under way during the deletion inserts the row again.

`DownloadsWork` is the counterpart of `pipeline_retransform`: the client, unlike the worker, always
looks in the right bucket until a deletion has begun.  Both the link and the stream choose it by the
prefix of the key in the row; the listener and the late saves replace that key under way.

## 4. AnomalyReview

The rows of one dataset's anomalies, from the moment its first job has stored them.
`DatasetPipeline` takes the loop over the decisions and the poll as single steps; this module
opens them, and leaves the dataset row out.  A submission enqueues one job under its own name.

| State | Code |
|---|---|
| `table` | per anomaly: status, the decision referencing it, whether `aiSuggestion` is set |
| `mode` | whether the worker has a Gemini key or n8n makes the suggestions |
| `pc`, `chosen`, `todo` | a submission's place in its loop, its items, those not saved yet |
| `hook` | a webhook call's place in its loop |
| `held` | the `Anomaly` entity a submission or webhook call has read and not yet saved |
| `job`, `polls`, `retries` | a job's place, the sleeps of its review, its repetitions |
| `asking` | anomalies a job's background task has still to ask Gemini about |
| `applied` | what `get_decisions` returned to the job |

`Save` is `PrismaAnomalyRepository.save`: status and suggestion are overwritten from the entity,
the decision is upserted only if the entity has one.  This asymmetry is what most of the
properties turn on.  `SubmitLoad`/`SubmitSave` and `SuggestLoad`/`SuggestSave` are the two halves
of a turn of each loop; `Ask` is the worker's single-column update; `Poll`, `Expire` and `Apply`
are the review's count, timeout and read; `Rerun` is BullMQ repeating or giving up a failed or
stalled job.

Abstractions: a decision is named by the submission that made it, whatever its action; a
submission names an anomaly once; a suggestion is present or absent; the status IGNORED is never
assigned by the code; the listener's `notifyN8nForAiSuggestions` is never called, so n8n is told
by the worker, and a webhook call can come at any time after that.

| Run | Question | Bounds |
|---|---|---|
| `review_webhook` | do stale saves lose decisions or suggestions, or end a review early, does a submission's job apply what was submitted, without waiting, is what clients are shown consistent, and does every review end? | 2 anomalies, 1 submission, 1 webhook caller with any number of items, 1 poll, 1 repetition |
| `review_reverted` | *violated*: "mark anomaly as RESOLVED" | as `review_webhook`, no repetition |

Two anomalies are the least for which a review can be half decided, and one caller of each kind
for a save to be stale; a second poll only repeats the first, and the theorems cover every other
value.  Submissions need not come, so deadlock is not checked.

`FairSpec` has weak fairness of `Review(j)`: a job that is running is scheduled by the worker's
event loop and its sleeps return.  A slot is taken to be free (slots are `DatasetPipeline`'s).
Nothing is assumed of humans, webhooks, suggestions or failures; repetitions are bounded by the
attempts.

`review_reverted` shows that a webhook call which read an anomaly before a decision was saved
turns it back to PENDING.  The decision survives (`DecisionsStay`, proved), but the review then
waits for its timeout.  `CompleteSubmissionNeverWaits` (proved) says that this happens with n8n
only.

### Reports

`Reports` extends `AnomalyReview` with a client that looks on, one read after the other: the
dashboard, which counts statuses (`PendingReviews`), and then the report, which counts decisions
(`ReportedPending`); or the list of anomalies, for which `findByDatasetId` selects the rows and then
their decisions, in two queries.  Everything of `AnomalyReview` may happen in between.  `looking` is
where the client is, `seen` what its first read selected.  `ViewsAgree` says that what it is shown
holds together; it is stated of every state in which the second read may be made, so that the answer
itself need not be kept.  `review_webhook` runs the composition, and `ShownIsConsistent` proves it.  Left
out: the other numbers of the dashboard and of the report, and the narrative; without an answer of
Gemini the client is shown nothing.

## 5. JobEvents

What the API tells its clients about one job.  BullMQ's events are a feed, delivered in order;
`Deliver` runs the handlers of every subscribed stream to their end, and starts a callback of the
listener.

| State | Code |
|---|---|
| `job`, `attempts`, `feed` | BullMQ's job, and the published events QueueEvents has not yet delivered |
| `phase`, `answer`, `shown` | where each `streamEvents` call is, the status its snapshot read, the one it sent last |
| `missed` | history: events delivered while the snapshot was under way |
| `row`, `starting`, `settling` | dataset status; the listener's callbacks under way |
| `online`, `connections`, `heard` | open `/events` responses, those in `EventsController`'s map, the status each was sent last |

Abstractions: getJob and getState are one read, as between them a job can only be removed by age
(24 hours) or count (1000 jobs); the dataset has no other jobs or requests (these are
`DatasetPipeline`'s); handlers that outlive their stream stay in the code but have no effect; a
client that leaves and one that times out look the same to the server.

| Run | Question | Bounds |
|---|---|---|
| `events_delivery` | is what clients are told true and, up to the gap, current, and does every stream end? | 1 stream, 2 watchers, 3 attempts |
| `events_gap` | *violated*: "pushes updates ... until the job reaches a terminal state" | 1 stream, 1 watcher |

Three attempts are what BullMQ is configured with.  Streams do not influence each other, so that one
stands for all; two watchers are the least for which the cleanup of one can harm another.  `FairSpec` assumes of each stream that its
snapshot is answered or throws and that its ten-minute timer fires; jobs may hang and events may
never be delivered.

`events_gap` is the race of snapshot and subscription: `OpenIsCurrent` (proved) says it is the
only one.  A slow `onJobActive` callback may be overtaken by the outcome's, and then tells the
watchers PROCESSING last.  That is in the model (`NotifyStart`), and no property forbids it:
`ConnectedAreTold` speaks of the moment at which the outcome is saved.

## 6. DatasetCleaning

What one job does to its data.  `DatasetPipeline` has the same job seen from its dataset, and
`AnomalyReview` the same review seen from its rows in the database; here a decision appears with
its value, and its effect on every cell matters.

| Module | Code |
|---|---|
| `Cells` | the data frame: typed columns of nulls, numbers, dates, datetimes, Booleans and texts; statistics; what polars accepts when a column is written |
| `Detection` | `_detect_anomalies` (`Detect`), and the row finders of `_apply_decisions` (`Affected`) |
| `Transformations` | the handlers of `DataTransformer`; `Outcomes` is a step's results, none when it fails |
| `CorrectionIR` | `IRValidator` (`Valid`) and `IRExecutor` (`Execute`) |
| `InstructionDrafts` | `ParseInstructionUseCase` and `InstructionParser`: rules, Gemini and its one retry |
| `DatasetCleaning` | `transform_many`, the review and `_apply_decisions` |

A text is not spelled out: it is the family of patterns it matches (an e-mail, a phone number, an
identifier with a number, blanks, a placeholder, ...), a number that tells texts of one family
apart, and what the code changes in a text: its case, its outer blanks and its `_DUP` suffix.  A
column's name is the set of keywords it contains.  A program is a function from paths to nodes, as
in the JSON, so that validation is a quantifier over its nodes and execution a recursive function.

| State | Code |
|---|---|
| `job` | the parsed file, the transformations, what the reviewers can enter |
| `phase`, `steps` | where `execute` is; the transformations left |
| `table`, `snapshot` | `result` and `original_df_snapshot` |
| `anomalies`, `decisions` | the records of the detection and what was decided on each |
| `pending` | anomalies whose decision, then whose date repair, is left |
| `draft` | one instruction under way at the API, or its answer |

`ApplyDecision` is a turn of the loop over `decision_map`, in any order, since no ORDER BY fixes
it; `StripAll` and `RepairDates` are what follows the loop.  `Effect` is the body of the loop; its
result is empty when an exception escapes, which fails the job.

Abstractions: each anomaly is decided at most once, as only the last decision counts; numbers are
naturals and quotients are rounded down; a date is a number of days and a datetime one of half days,
leap days and time zones are dropped; which of several
equal rows an unordered `unique` keeps, and which of several most common values `mode` returns, is
one of them; at most one draft is under way; `dataset.schema` is the `{}` that the creation stores,
so that the validator looks up no column.  The worker takes a list `transformations` from a job,
which the API never sends (it sends `transformationType` and `parameters`); the chains are those a
job may carry.  A retried job detects on the same upload, so that one pass over the data stands
for each run.

Two points of type matter to the properties and are modelled as the code and polars have them.
`Date` and `Datetime` are two dtypes: detection and repair compare days, the finder compares
the values as they are, for which Python raises a TypeError that the finder swallows; a datetime
column refuses a plain date (the comment "BUG FIX v8" at `process_dataset.py:1864`), and the mean
or median of dates is a datetime.  A text such as `inf` or `1e999` is a float without end:
`int(float(value))` raises an OverflowError for it, which neither `_cast_correction` nor
`_cast_to_dtype` catches (`Cast`, `CastToDtype`, `FillLiteral`), and so do `math.floor` and
`math.ceil` (`Overflows`).  Float columns, which take an infinite number, are not told from integer
ones, so no column holds one; nan, products too large for a float and zero times infinity are left
out.  An end column with an apostrophe in its name is not found in the description, from which
the finder and the repair read it (`NamesItsEnd`); that the part before the apostrophe is itself a
column is left out.

| Run | Question | Bounds |
|---|---|---|
| `cleaning` | does every decision find its rows and change only them, do dates end in order, which failures are there, and what do reviewers see? | 79 jobs: files of up to 21 rows and 3 columns that trigger each heuristic, alone and together on one column; pairs of a date and a datetime column, and an end with an apostrophe in its name; infinite texts as corrections, literals and operands; programs with every operator, operand and function; instructions for each rule; chains of every transformation |
| `cleaning_keep` | *violated*: "Conservará el valor original sin modificarlo" | the jobs on numbers |

Each file has one or two faults, so that decisions interact in pairs, which is how a decision can
disturb another.  All the safety properties are proved for any file (section 9).  Deadlock is not
checked: a job ends, and a review waits for nobody.  `FairSpec` has weak fairness of
`GeminiReplies` only: the call is raced against a timer of fifteen seconds.  That jobs and reviews
end is checked in `DatasetSettles` and `ReviewsEnd`.

What the properties show:

* `DetectedIsFindable`: finders and detection agree but for five kinds, where a decision may
  silently do nothing, or reach fewer rows than the reviewer was told: a gap in a sequence has no
  row; empty texts are counted with blank ones; of a column that hardly varies the rows with its
  common text are found, and none of a column of numbers; copies that an earlier cleaning marked
  with `_DUP` count as copies and are not found again; and of inverted dates none is found when one
  column is a Date and the other a Datetime, or when the end's name contains an apostrophe.
* `SoloEffect`, `FirstIsKept`: because the finders read the snapshot, the order of the decisions
  does not matter to a text cell that only one of them is about.  Programs are not covered: they
  read what earlier decisions wrote.
* `DatesOrdered`: the repair comes last and looks at the corrected columns, so that a correction
  of another anomaly cannot leave a pair inverted, nor can the repair of another pair with the
  same end, since it only moves ends forward.  A start column that is itself the end of a pair may
  be moved after its own pair was put in order; a column whose every date was overwritten may be
  a column of texts by then; and an end with an apostrophe in its name is not repaired.
* `FailuresExplained`: a correction that does not fit its column is skipped, with four exceptions
  that fail the whole job and with it all its other decisions: copies marked in a column of
  numbers; an infinite text entered for a column of numbers; a program that aggregates a column
  which holds a text that is no number; and a program that makes a whole number of an infinite
  one, by a literal for a column of numbers or by `floor` or `ceil`.  `IRValidator.ts:488` leaves such type
  errors to the worker, and they are not all `IRExecutionError`s there.
* `RowsStayTogether`: of the transformations only the four that drop rows change their number,
  and what is left in the columns that were not asked to change is a row that was there.  A flag
  or a dummy column counts as asked for: it replaces a column that happens to have its name.
* `cleaning_keep`: a conditional that keeps some rows and fills others writes null into the kept
  ones.

Read but not run, as they concern wording or cases that change nothing a property tells apart: the
docstring at `process_dataset.py:1309` calls DISCARDED a no-op, but blanks are stripped and dates
repaired in discarded columns too, and the class docstring at line 111 says it drops the row; the
comment at line 1828 moves an end date by one day, the code by 18 years; DELETE_ROWS is announced
as "Eliminará las filas afectadas del dataset" and deletes nothing; `InstructionParser.ts:393`
says 10 seconds, the timer is set to 15.

## 7. JobQueue

The two ends of the queue: `BullMQJobQueueService` in the API and `BullMQWorkerService` in the
worker.  BullMQ itself is modelled by what they rely on: an id that is known is not added again, a
locked job cannot be removed, a failed attempt is delayed or final.

| State | Code |
|---|---|
| `entry` | the job's state in Redis and its failed attempts |
| `call`, `retries` | its enqueue, and how often the add was retried |
| `cancel` | its cancel, at the awaits of getJob, getState and remove |
| `run` | where `_process_job` is, with its two progress reports |
| `worker` | stopped, running, or waiting in `close` |
| `left` | the jobs that run on although the close of their worker raised |
| `started`, `succeeded`, `lost` | history: runs, successes, successes not reported |

`AddCut` is a connection that closes before the add arrived or before its answer did; only this
error is retried.  `RunFails` is any exception of a run, `success=False` included.  `Stopped` is a
close that has waited for its worker's jobs, `CloseRaises` one that raised before: `stop()` logs the
error and forgets the worker either way.  BullMQ's close sets its closing flag before it waits, so
the forgotten worker takes no further job, but those it had run on, and a worker started again has
all its slots.  `app.py` calls `stop` once and then closes the container and ends; jobs that are
left then end with the process, which is `DatasetPipeline`'s `WorkerCrash`.  Left out: crashes and
stalled jobs (`DatasetPipeline`'s); what the job does.

| Run | Question | Bounds |
|---|---|---|
| `queue_ends` | do retries run a job twice, does a cancelled job run, what is left when the service says it stopped, do calls and jobs end? | 2 jobs, 2 attempts, 1 retry, 1 slot |

Two jobs are the least for one to wait while the other runs and the service stops; the invariants
are proved for every other value.  `FairSpec` assumes that calls are answered or broken off, that
BullMQ hands out waiting jobs and ends delays, and that a run goes on; nobody has to enqueue,
cancel, start or stop, and `JobsEnd` asks for a job's end only when the worker is not stopped for
good.  Jobs may never come, so deadlock is not checked.

A cancel may still return true for a job that ran: one completed between getState and remove is
removed.  It does not run afterwards, which is what `CancelledIsIdle` says.

## 8. Accounts

The users table and the handlers around it.  A handler awaits the database and bcrypt, and other
requests run in between; a user's id is named by the request that registered it.

| State | Code |
|---|---|
| `users` | the rows: e-mail, name and password hash of each id |
| `tokens` | the JWTs given to clients; the API keeps none and withdraws none |
| `kind`, `wants` | what a request asks for and the fields of its body |
| `pc` | the await its handler is at, or the status it was answered with |
| `user`, `hash` | what the handler has read or computed and holds in memory |

`RegisterFind`, `RegisterHash` and `RegisterCreate` are the awaits of `RegisterUseCase`, `LoginFind` and
`LoginCompare` those of `LoginUseCase`, `UpdateFind` and `UpdateApply` those of `UpdateUserUseCase`;
`GetMe` is one read.  `Fails` is a call that throws; a create or an update may also take effect and
its connection break before the answer.  The unique index on the e-mail is modelled by what it
rejects, which `errorHandler` answers with 500.

Abstractions: a hash is a password with a salt, since only equality after `compare` matters; e-mails
are compared as the table stores them; the expiry of tokens, after which a client can do less, is left
out, and so are the columns that no route writes (`role`, `preferences`).  Of a request that is
answered at once only the status is kept.

| Run | Question | Bounds |
|---|---|---|
| `accounts` | does a confirmed registration stay good, are tokens given to whom they should, and who changes a row? | 5 requests, 3 e-mails, 1 name, 2 passwords |

Five requests are two registrations, a login and two updates, the least for an e-mail to change hands
between the two steps of a login and for two updates to meet; three e-mails let it move twice.  The
properties are proved for any number.  Nobody has to send a request, so deadlock is not checked, and
no fairness is assumed.

* `RegistrationHolds`: the check for a used e-mail is done two awaits before the insertion, so two
  registrations may both pass it; the index lets one in, and the other gets a 500 where a second
  attempt would get a 400.
* `LoginsAreJust`: a login reads the hash with the id and compares later.  The token names the id it
  has read, not the e-mail, so it is right even if the e-mail has moved to another user meanwhile;
  the e-mail inside the token may be out of date, and nothing reads it.
* `OwnersOnly`: an update writes only the columns it was given, so that two updates of one user do not
  undo each other, unlike the whole-row saves of datasets and anomalies.

## 9. Proofs

### DatasetPipeline

`DatasetPipelineInvariants` holds the inductive invariant `IInv`, which TLC checks in
`pipeline_faults` before TLAPS proves it.  The safety properties are not inductive: what a late
save may write depends on the entities in memory, so `IInv` adds

* `KindInv`, `EnqueuedInv`, `WorkerInv`, `SyncInv`: where a request, its job, the worker and
  the listener can be at the same time;
* `FilesInv`: every storageKey, in the row or in any entity in memory, is the upload's or the
  output of a completed job.  It is preserved because outputs are never removed and a settled
  job stays settled (`DoneStays`);
* `SourceInv`: a job past its download runs on the upload;
* `DetectionInv`: before a deletion only the creation's job can find the table of anomalies
  empty, and it goes to store a batch only while there is none;
* `StorageInv`: the upload is in its bucket from the row's insertion until a deletion begins.

| Theorem | Statement |
|---|---|
| `TypeCorrect` | `Spec => []TypeOK` |
| `Inductive` | `Spec => []IInv` |
| `ReadyIsDownloadable` | `Spec => []ReadyHasOutput` |
| `DownloadsAlwaysWork` | `Spec => []DownloadsWork` |
| `StuckOnlyByLateSave` | `Spec => []ProcessingIsOwed` |
| `PendingOnlyWhileCreated` | `Spec => []PendingIsCreation` |
| `NoChainedTransformation` | `Spec => []OutputsComeFromUpload` |
| `DetectedOnce` | `Spec => []SingleDetection` |
| `PipelineKeepsContract` | `Spec => KeepsContract`, the refinement of `DatasetContract`'s safety part |

They hold for any set of requests, any positive number of attempts and slots, any limit of
stalls and any set of faults (`RequestsAssumption`, `LimitsAssumption`, `FaultsAssumption`).
`PipelineKeepsContract` maps each action in turn to one of `DatasetContract` or to a stutter.
`DetectedOnce` says that at most one batch of anomalies is stored before a deletion.  A run that
stores anomalies adds a batch of its own to `found`, so a retry or a stalled run of the same job
that stored them again would count.

### AnomalyReview

`AnomalyReviewInvariants` adds to the properties what makes them inductive: an entity in memory
that is RESOLVED has its decision (`EntityInv`), so that no stale save can write RESOLVED without
one; what a submission has saved is decided (`ProgressInv`); its job exists only after its loop
(`EnqueueInv`); and a review that ended in time left nothing undecided (`ReviewInv`), which later
saves cannot undo.  The key lemma is that `Save` never turns a decision into none.

| Theorem | Statement |
|---|---|
| `ReviewTypeCorrect` | `Spec => []TypeOK` |
| `ReviewInductive` | `Spec => []IInv` |
| `ResolvedIsDecided` | `Spec => []ResolvedHasDecision` |
| `ReviewIsComplete` | `Spec => []ReviewedMeansDecided` |
| `SubmissionIsApplied` | `Spec => []SubmittedIsApplied` |
| `CompleteSubmissionPasses` | `Spec => []CompleteSubmissionNeverWaits` |
| `DecisionsAreKept` | `Spec => DecisionsStay` |
| `SuggestionsAreKept` | `Spec => UndecidedKeepsSuggestion` |
| `ShownIsConsistent` | `ReportSpec => []ViewsAgree` |

`ShownIsConsistent` rests on `LookingIsReading`, that a step of `Reports` is a step of `AnomalyReview` or
leaves it unchanged, whence `IInv` holds there too; and on `DecisionsGrow`, since what the first read
found decided must still be so at the second.

They assume that there is an anomaly (`AnomaliesAssumption`), that the names of submissions differ
from those of the first job and of nobody (`NamesAssumption`), and that the bounds are numbers
(`BoundsAssumption`).

### JobEvents

`JobEventsInvariants` relates the feed to the job: an outcome is the last event of its job, and
the last undelivered event is the state the job is in (`FeedInv`).  With that, a delivery that
drains the feed delivers the job's state (lemma `Drained`), so a stream that hears it is current,
and one still waiting for its snapshot either read the state or has the event among those it
missed (`AskedIsCurrent`).

| Theorem | Statement |
|---|---|
| `EventsTypeCorrect` | `Spec => []TypeOK` |
| `EventsInductive` | `Spec => []IInv` |
| `ToldIsTrue` | `Spec => []OutcomeIsTold` |
| `StaleOnlyByGap` | `Spec => []OpenIsCurrent` |
| `OutcomeReachesConnected` | `Spec => ConnectedAreTold` |

They assume only that a job has at least one attempt (`AttemptsAssumption`).

### JobQueue

`JobQueueInvariants` adds `CallsInOrder`, that a job is cancelled or evicted only after its enqueue
has ended, so that no retry can bring it back; and `Accounts`, that runs and successes follow from
the job's entry, which bounds them.  `StoppingDrains` says that a job runs exactly while it is active
in the queue, and that a stopped service runs nothing but the jobs a raising close left behind.

| Theorem | Statement |
|---|---|
| `TypeCorrect` | `Spec => []TypeOK` |
| `Invariance` | `Spec => []IInv` |
| `RetriesAreHarmless` | `Spec => []RunsBounded` |
| `CancelledStaysIdle` | `Spec => []CancelledIsIdle` |
| `StoppingDrains` | `Spec => []StopDrains` |

They hold for any finite set of jobs and any limits (`JobsAssumption`, `LimitsAssumption`).

### DatasetCleaning

`CInv`, in `DatasetCleaning_proofs`, joins what is proved together because each part needs others
of it:

* `WorkInv`: what is pending was decided, or is a pair of dates.  `DraftInv`: a draft grows by one
  attempt at a time.
* `DataInv`: the table is a data frame (`IsFrame`) and the anomalies are those that `Detect` finds
  in the snapshot.  Every operator that writes a column has to keep it one: the columns of one
  length, each cell of the column's dtype.  This is where the programs come in: `ExecuteSolves`
  says that a program that is a tree has results, although `Execute` is a recursive function, and
  `EvaluateYields` that each is a series of cells, or an exception for one of the two reasons
  of `ProgramRaises` (`ProgramYields` for the whole tree).
* `UntouchedCells`: what is written replaces the rows of `Affected` only.
* `TypesInv`: a column keeps its dtype, becomes one of texts, or, if it held dates or datetimes,
  one of dates.
* `FailuresExplained`: the body of the loop has no result for the listed reasons only
  (`EffectFails`).  `IsAnomaly` says that what the detection suggests for a column of numbers is no
  infinite text (`Suggested`), so that a suggestion never fails; with `TypesInv`, the column that
  is of numbers when it is written was one in the snapshot.
* `SoloInv`: a cell that one decision alone is about is as in the snapshot while the decision is
  pending and as the decision alone leaves it (`CellEffect`) afterwards.  This is `SoloEffect`
  with the time before the end added.
* `RepairInv`: a pair whose turn in the repair is over is in order, by days.  It holds because a repair
  only moves ends later (`MovedIsLater`) and a start that is no end does not move.

`Frames_proofs` has the lemmas about series and frames, `Transformations_proofs` those about the
handlers: `InOrder`, on which filters, duplicates and outliers are built, takes whole rows, and
handler by handler each result is a frame that keeps the unasked columns of a row together
(`OutcomesKeep`), whence `RowsAreNotMixed`.  `EveryRecordIsFound` has a lemma for each kind of anomaly that compares its heuristic
with its finder (`MissingReliable` ... `DuplicateReliable`); for copies it counts: the rows that
have an earlier one with the same key are at least as many as the values that occur twice
(`TwoAreMany`).  `FirstOfCopiesIsKept` rests on `KeyKeepsMark`, that a marked text never has the
key of an unmarked one, and on `MarkLasts`, that nothing after the decision removes a mark.

| Theorem | Statement |
|---|---|
| `TypeCorrect` | `Spec => []TypeOK` |
| `Invariance` | `Spec => []CInv` |
| `CleaningIsLocal` | `Spec => []UntouchedCells` |
| `DraftsAreSound` | `Spec => []DraftsAreValid` |
| `RowsAreNotMixed` | `Spec => RowsStayTogether` |
| `EveryRecordIsFound` | `Spec => []DetectedIsFindable` |
| `FailuresHaveAReason` | `Spec => []FailuresExplained` |
| `DecisionsDoNotMix` | `Spec => []SoloEffect` |
| `FirstOfCopiesIsKept` | `Spec => []FirstIsKept` |
| `DatesAreOrdered` | `Spec => []DatesOrdered` |

They hold for any set of jobs that `JobsAssumption` allows: the file is a data frame, as a parser
returns; the transformations are steps with their parameters (`IsStep`, the dataclasses and enums
of the transformer); what reviewers enter are cells; and a program is a tree of nodes
(`IsProgram`), as JSON is.  Whether a program is valid is not assumed: `Valid` is checked where
the code checks it.

### Accounts

`AccountsInvariants` says what each handler under way knows and that it stays true: a registration has
its own body's hash (`RegisterInv`), a login the hash of the user it found, whose password never
changes (`LoginInv`), an update a token of its user (`UpdateInv`); and that each registered user is a
registration that was answered 201 or 500 (`UsersInv`).

| Theorem | Statement |
|---|---|
| `AccountsInductive` | `Spec => []IInv` |
| `RegistrationsHold` | `Spec => []RegistrationHolds` |
| `TokensAreEarned` | `Spec => []LoginsAreJust` |
| `RowsHaveOneWriter` | `Spec => OwnersOnly` |

They assume only that an absent field is not a value (`UnsetAssumption`).

### Model-checked only

Liveness (`MeetsContract`, `DatasetSettles`, `ReviewsEnd`, `StreamsEnd`, `JobsEnd`, `DraftsEnd`):
fairness and ENABLED are outside what the prover handles.  Every other property of the passing
runs is a theorem.  The six properties of the runs that expect a violation are false of the code
and have a counterexample each.

## 10. Not modelled

* Dataset parser: a choice of reader; the rest is polars.  That parsing may fail is in
  `DatasetPipeline`.
* Of the queries: reading a dataset or a page of them, the dashboard's other counts, the narrative.
* Of the storage adapters: streams, metadata and the temp bucket.  The Gemini suggestion client is
  pure I/O; its failures are choices in the modules that call it.
* HTTP plumbing, health and API documentation: stateless.
* In `JobController.streamEvents`, handlers that outlive their stream (see the hazards in
  `PROJECT.json`): whether a write to an ended response is an error depends on Node.
