---------------------------- MODULE DatasetPipeline ----------------------------
(***************************************************************************)
(* One dataset on its way through the system: the HTTP requests that       *)
(* create, review, transform and delete it, the BullMQ jobs those requests *)
(* enqueue, the worker that runs the jobs, and the API's listener that     *)
(* copies the outcome of a job into the dataset row.                       *)
(*                                                                         *)
(* Every request is a JavaScript async function: another request, a        *)
(* listener callback or a worker step may run wherever it awaits, so one   *)
(* action is the code between two awaits.  A use case enqueues at most one *)
(* job, whose identifier is a fresh UUID, so that a job is named by the    *)
(* request that enqueued it.  Datasets share nothing but the worker's      *)
(* slots; one of them is enough to show every interleaving.                *)
(*                                                                         *)
(* Constants that bound or select what the environment does:               *)
(*   Requests     the HTTP requests that ever reach this dataset           *)
(*   Creator      the one that creates it                                  *)
(*   SourceKey    the storage key of the uploaded file                     *)
(*   MaxAttempts  BullMQ's `attempts` option                               *)
(*   Concurrency  jobs a worker runs at once                               *)
(*   MaxStalls    BullMQ's maxStalledCount                                 *)
(*   Faults       which failures the environment may inject                *)
(***************************************************************************)
EXTENDS Naturals, FiniteSets

CONSTANTS Requests, Creator, SourceKey, MaxAttempts, Concurrency, MaxStalls, Faults

ASSUME RequestsAssumption ==
    /\ Creator \in Requests
    /\ SourceKey \notin Requests

ASSUME LimitsAssumption ==
    /\ MaxAttempts \in Nat \ {0}
    /\ Concurrency \in Nat \ {0}
    /\ MaxStalls \in Nat

ASSUME FaultsAssumption ==
    Faults \subseteq {"request", "worker", "workerCrash", "sync", "apiCrash"}

VARIABLES
    row,        \* the dataset's row in Postgres
    source,     \* is the uploaded file in the datasets bucket?
    content,    \* what the uploaded file holds
    outputs,    \* jobs whose result file is in the results bucket
    found,      \* the batches in the anomalies table: whose they are, and the
                \* number of batches that were stored before
    pending,    \* the members of found with an anomaly still PENDING
    kind,       \* what each request asks for
    pc,         \* where each request is
    copy,       \* the dataset entity a request holds in memory
    job,        \* state of each job in BullMQ
    input,      \* sourceKey of each job's payload
    attempts,   \* failed attempts of each job
    stalls,     \* times each job was found stalled
    step,       \* where the worker is in the job
    sync,       \* how far the outcome of each job got in the API's listener
    entity,     \* the dataset entity a listener callback holds in memory
    late        \* history: requests that saved PROCESSING after their own job
                \* had been synchronised

requestVars == <<kind, pc, copy>>
tableVars   == <<found, pending>>
storageVars == <<source, content, outputs>>
queueVars   == <<job, input, attempts, stalls, step>>
syncVars    == <<sync, entity>>
vars == <<row, storageVars, tableVars, requestVars, queueVars, syncVars, late>>

Keys     == Requests \cup {SourceKey}
Statuses == {"ABSENT", "PENDING", "PROCESSING", "READY", "ERROR"}
Row      == [status : Statuses, key : Keys]
Absent   == [status |-> "ABSENT", key |-> SourceKey]

Settled  == {"completed", "failed"}
Terminal == {"done", "rejected", "failed"}
MidWay   == {"save", "enqueue", "mark", "resolve", "unstore", "unrow"}

Exists(r) == r.status # "ABSENT"

Init ==
    /\ row = Absent
    /\ source = FALSE
    /\ content \in {"clean", "dirty", "broken"}
    /\ outputs = {}
    /\ found = {}
    /\ pending = {}
    /\ kind = [r \in Requests |-> IF r = Creator THEN "create" ELSE "none"]
    /\ pc = [r \in Requests |-> "idle"]
    /\ copy = [r \in Requests |-> Absent]
    /\ job = [r \in Requests |-> "none"]
    /\ input = [r \in Requests |-> SourceKey]
    /\ attempts = [r \in Requests |-> 0]
    /\ stalls = [r \in Requests |-> 0]
    /\ step = [r \in Requests |-> "idle"]
    /\ sync = [r \in Requests |-> "none"]
    /\ entity = [r \in Requests |-> Absent]
    /\ late = {}

-----------------------------------------------------------------------------
(* MinioStorageService                                                     *)

Stored(bucket, key) ==
    \/ bucket = "datasets" /\ key = SourceKey /\ source
    \/ bucket = "results" /\ key \in outputs

Put(bucket, key) ==
    /\ source' = (source \/ bucket = "datasets")
    /\ outputs' = IF bucket = "results" THEN outputs \cup {key} ELSE outputs

\* Discarding an object that is not there is no error.
Discard(bucket, key) ==
    /\ source' = (source /\ ~(bucket = "datasets" /\ key = SourceKey))
    /\ outputs' = IF bucket = "results" THEN outputs \ {key} ELSE outputs

-----------------------------------------------------------------------------
(* What the handlers of DatasetController and the three use cases that     *)
(* enqueue a job have in common.                                           *)

Go(r, label) == pc' = [pc EXCEPT ![r] = label]

\* The file or the body of the request does not pass the handler's checks.
Refuse(r, what) ==
    /\ pc[r] = "idle"
    /\ kind' = [kind EXCEPT ![r] = what]
    /\ Go(r, "rejected")
    /\ UNCHANGED <<row, storageVars, tableVars, copy, queueVars, syncVars, late>>

\* The payload's sourceKey is the storageKey of the entity in memory.
Enqueue(r) ==
    /\ pc[r] = "enqueue"
    /\ job' = [job EXCEPT ![r] = "waiting"]
    /\ input' = [input EXCEPT ![r] = copy[r].key]
    /\ Go(r, "mark")
    /\ UNCHANGED <<row, storageVars, tableVars, kind, copy, attempts, stalls,
                   step, syncVars, late>>

\* Dataset.markProcessing and then save: an upsert of the whole row from the
\* entity in memory, however old that entity is.
SaveProcessing(r) ==
    /\ pc[r] = "mark"
    /\ row' = [copy[r] EXCEPT !.status = "PROCESSING"]
    /\ late' = IF sync[r] = "done" THEN late \cup {r} ELSE late
    /\ Go(r, "done")
    /\ UNCHANGED <<storageVars, tableVars, kind, copy, queueVars, syncVars>>

-----------------------------------------------------------------------------
(* CreateDatasetUseCase                                                    *)

CreateUpload ==
    /\ pc[Creator] = "idle"
    /\ Put("datasets", SourceKey)
    /\ Go(Creator, "save")
    /\ UNCHANGED <<row, content, tableVars, kind, copy, queueVars, syncVars, late>>

CreateRequest == CreateUpload \/ Refuse(Creator, "create")

CreateSave ==
    LET dataset == [status |-> "PENDING", key |-> SourceKey] IN
    /\ pc[Creator] = "save"
    /\ row' = dataset
    /\ copy' = [copy EXCEPT ![Creator] = dataset]
    /\ Go(Creator, "enqueue")
    /\ UNCHANGED <<storageVars, tableVars, kind, queueVars, syncVars, late>>

CreateEnqueue == kind[Creator] = "create" /\ Enqueue(Creator)

CreateMark == kind[Creator] = "create" /\ SaveProcessing(Creator)

Create == CreateRequest \/ CreateSave \/ CreateEnqueue \/ CreateMark

-----------------------------------------------------------------------------
(* The requests on an existing dataset start by reading its row: `known`   *)
(* says which rows they go on with.                                        *)

Load(r, what, known, next) ==
    /\ r # Creator
    /\ pc[r] = "idle"
    /\ kind' = [kind EXCEPT ![r] = what]
    /\ IF known
          THEN copy' = [copy EXCEPT ![r] = row] /\ Go(r, next)
          ELSE UNCHANGED copy /\ Go(r, "rejected")
    /\ UNCHANGED <<row, storageVars, tableVars, queueVars, syncVars, late>>

(* SubmitDecisionsUseCase                                                  *)

SubmitLoad(r) == Load(r, "submit", Exists(row), "resolve")

SubmitRequest(r) == SubmitLoad(r) \/ (r # Creator /\ Refuse(r, "submit"))

\* The loop over the decisions, each saved on its own.  A decision on an
\* unknown anomaly or with an invalid correction throws out of the loop and
\* leaves the decisions before it saved.
SubmitResolve(r) ==
    /\ pc[r] = "resolve"
    /\ \E left \in SUBSET pending : pending' = left
    /\ \/ found # {} /\ Go(r, "enqueue")
       \/ Go(r, "rejected")
    /\ UNCHANGED <<row, storageVars, found, kind, copy, queueVars, syncVars, late>>

SubmitEnqueue(r) == kind[r] = "submit" /\ Enqueue(r)

SubmitMark(r) == kind[r] = "submit" /\ SaveProcessing(r)

Submit(r) == SubmitRequest(r) \/ SubmitResolve(r) \/ SubmitEnqueue(r) \/ SubmitMark(r)

(* TransformDatasetUseCase                                                 *)

TransformLoad(r) == Load(r, "transform", row.status = "READY", "enqueue")

TransformRequest(r) == TransformLoad(r) \/ (r # Creator /\ Refuse(r, "transform"))

TransformEnqueue(r) == kind[r] = "transform" /\ Enqueue(r)

TransformMark(r) == kind[r] = "transform" /\ SaveProcessing(r)

Transform(r) == TransformRequest(r) \/ TransformEnqueue(r) \/ TransformMark(r)

(* DatasetController.delete                                                *)

DeleteLoad(r) == Load(r, "delete", Exists(row), "unstore")

\* The object is looked for in the datasets bucket whatever bucket the key
\* belongs to, and a failure is only logged.
DeleteObject(r) ==
    /\ pc[r] = "unstore"
    /\ \/ Discard("datasets", copy[r].key)
       \/ "request" \in Faults /\ UNCHANGED <<source, outputs>>
    /\ Go(r, "unrow")
    /\ UNCHANGED <<row, content, tableVars, kind, copy, queueVars, syncVars, late>>

\* The foreign keys cascade to anomalies and decisions; deleting a row that
\* is gone throws.  No job is cancelled.
DeleteRow(r) ==
    /\ pc[r] = "unrow"
    /\ IF Exists(row)
          THEN /\ row' = Absent
               /\ found' = {}
               /\ pending' = {}
               /\ Go(r, "done")
          ELSE UNCHANGED <<row, tableVars>> /\ Go(r, "failed")
    /\ UNCHANGED <<storageVars, kind, copy, queueVars, syncVars, late>>

Delete(r) == DeleteLoad(r) \/ DeleteObject(r) \/ DeleteRow(r)

-----------------------------------------------------------------------------
(* An awaited call of a request throws: the error goes to the client and   *)
(* nothing done so far is undone.                                          *)

RequestFails(r) ==
    /\ "request" \in Faults
    /\ pc[r] \in MidWay \ {"unstore"}
    /\ Go(r, "failed")
    /\ UNCHANGED <<row, storageVars, tableVars, kind, copy, queueVars, syncVars, late>>

-----------------------------------------------------------------------------
(* The worker.  An attempt runs ProcessDatasetUseCase.execute.             *)

Active == {r \in Requests : job[r] = "active"}

Pick(r) ==
    /\ job[r] = "waiting"
    /\ Cardinality(Active) < Concurrency
    /\ job' = [job EXCEPT ![r] = "active"]
    /\ step' = [step EXCEPT ![r] = "download"]
    /\ UNCHANGED <<row, storageVars, tableVars, requestVars, input, attempts,
                   stalls, syncVars, late>>

Backoff(r) ==
    /\ job[r] = "delayed"
    /\ job' = [job EXCEPT ![r] = "waiting"]
    /\ UNCHANGED <<row, storageVars, tableVars, requestVars, input, attempts,
                   stalls, step, syncVars, late>>

\* The job leaves the worker for good, and QueueEvents publishes how.
Settle(r, state) ==
    /\ job' = [job EXCEPT ![r] = state]
    /\ step' = [step EXCEPT ![r] = "idle"]
    /\ sync' = [sync EXCEPT ![r] = "emitted"]

\* Mutant of FailAttempt: one attempt too many.
FailAttempt_OneTooMany(r) ==
    /\ attempts' = [attempts EXCEPT ![r] = @ + 1]
    /\ IF attempts[r] < MaxAttempts
          THEN /\ job' = [job EXCEPT ![r] = "delayed"]
               /\ step' = [step EXCEPT ![r] = "idle"]
               /\ UNCHANGED sync
          ELSE Settle(r, "failed")
    /\ UNCHANGED <<row, storageVars, tableVars, requestVars, input, stalls,
                   entity, late>>

\* The use case reports success = False, _process_job raises, and BullMQ
\* retries until the attempts are used up.
FailAttempt(r) ==
    /\ attempts' = [attempts EXCEPT ![r] = @ + 1]
    /\ IF attempts[r] + 1 < MaxAttempts
          THEN /\ job' = [job EXCEPT ![r] = "delayed"]
               /\ step' = [step EXCEPT ![r] = "idle"]
               /\ UNCHANGED sync
          ELSE Settle(r, "failed")
    /\ UNCHANGED <<row, storageVars, tableVars, requestVars, input, stalls,
                   entity, late>>

Proceed(r, label) ==
    /\ step' = [step EXCEPT ![r] = label]
    /\ UNCHANGED <<row, storageVars, requestVars, job, input, attempts, stalls,
                   syncVars, late>>

\* Mutant of Downloadable: processed keys are looked for in the results bucket.
Downloadable_AnyBucket(key) == Stored("datasets", key) \/ Stored("results", key)

\* _parse_storage_path: every key is looked for in the datasets bucket.
Downloadable(key) == Stored("datasets", key)

Download(r) ==
    /\ step[r] = "download"
    /\ IF Downloadable(input[r]) /\ content # "broken"
          THEN Proceed(r, "inspect") /\ UNCHANGED tableVars
          ELSE FailAttempt(r)

\* Mutant of Inspect: every attempt detects and stores the anomalies again.
Inspect_Redetects(r) ==
    /\ step[r] = "inspect"
    /\ Proceed(r, IF content = "dirty" THEN "persist" ELSE "upload")
    /\ UNCHANGED tableVars

\* Mutant of Inspect: a file without anomalies is reported and not uploaded.
Inspect_SkipsUpload(r) ==
    /\ step[r] = "inspect"
    /\ Proceed(r, IF found # {} THEN "review"
                  ELSE IF content = "dirty" THEN "persist" ELSE "report")
    /\ UNCHANGED tableVars

\* Anomalies of an earlier job or attempt are reused; else detect them.
Inspect(r) ==
    /\ step[r] = "inspect"
    /\ Proceed(r, IF found # {} THEN "review"
                  ELSE IF content = "dirty" THEN "persist" ELSE "upload")
    /\ UNCHANGED tableVars

\* What one run of a job stores: another run of the same job would store
\* another batch.
Batch(r) == <<r, Cardinality(found)>>

\* The insert violates a foreign key when the dataset row is gone.
SaveAnomalies(r) ==
    /\ step[r] = "persist"
    /\ IF Exists(row)
          THEN /\ found' = found \cup {Batch(r)}
               /\ pending' = pending \cup {Batch(r)}
               /\ Proceed(r, "review")
          ELSE FailAttempt(r)

AllDecided(r) ==
    /\ step[r] = "review"
    /\ pending = {}
    /\ Proceed(r, "upload") /\ UNCHANGED tableVars

\* After hitl_max_wait the job goes on with the decisions there are.
ReviewTimeout(r) ==
    /\ step[r] = "review"
    /\ pending # {}
    /\ Proceed(r, "upload") /\ UNCHANGED tableVars

UploadOutput(r) ==
    /\ step[r] = "upload"
    /\ Put("results", r)
    /\ step' = [step EXCEPT ![r] = "report"]
    /\ UNCHANGED <<row, content, tableVars, requestVars, job, input,
                   attempts, stalls, syncVars, late>>

\* The POST to the dashboard is best effort; the job returns its outputKey.
Complete(r) ==
    /\ step[r] = "report"
    /\ Settle(r, "completed")
    /\ UNCHANGED <<row, storageVars, tableVars, requestVars, input, attempts,
                   stalls, entity, late>>

WorkerStep(r) ==
    \/ Pick(r) \/ Backoff(r) \/ Download(r) \/ Inspect(r) \/ SaveAnomalies(r)
    \/ AllDecided(r) \/ ReviewTimeout(r) \/ UploadOutput(r) \/ Complete(r)

\* Storage, the database or Redis fails under an attempt.
WorkerFails(r) ==
    /\ "worker" \in Faults
    /\ job[r] = "active"
    /\ FailAttempt(r)

\* Mutant of WorkerCrash: the jobs are never found stalled.
WorkerCrash_Forgets ==
    /\ "workerCrash" \in Faults
    /\ Active # {}
    /\ step' = [r \in Requests |-> "idle"]
    /\ UNCHANGED <<row, storageVars, tableVars, requestVars, job, input, attempts,
                   stalls, syncVars, late>>

\* The worker process dies and starts again: BullMQ finds its jobs stalled and
\* puts them back, or fails those that have stalled too often.
WorkerCrash ==
    LET tooOften == {r \in Active : stalls[r] >= MaxStalls} IN
    /\ "workerCrash" \in Faults
    /\ Active # {}
    /\ job' = [r \in Requests |-> IF r \in tooOften THEN "failed"
                                  ELSE IF r \in Active THEN "waiting" ELSE job[r]]
    /\ sync' = [r \in Requests |-> IF r \in tooOften THEN "emitted" ELSE sync[r]]
    /\ stalls' = [r \in Requests |-> IF r \in Active \ tooOften
                                     THEN stalls[r] + 1 ELSE stalls[r]]
    /\ step' = [r \in Requests |-> IF r \in Active THEN "idle" ELSE step[r]]
    /\ UNCHANGED <<row, storageVars, tableVars, requestVars, input, attempts,
                   entity, late>>

-----------------------------------------------------------------------------
(* DatasetStatusSyncListener: onJobCompleted and onJobFailed               *)

SyncLoad(r) ==
    /\ sync[r] = "emitted"
    /\ IF Exists(row)
          THEN /\ entity' = [entity EXCEPT ![r] = row]
               /\ sync' = [sync EXCEPT ![r] = "loaded"]
          ELSE /\ UNCHANGED entity
               /\ sync' = [sync EXCEPT ![r] = "done"]
    /\ UNCHANGED <<row, storageVars, tableVars, requestVars, queueVars, late>>

\* Mutant of SyncSave: failed jobs are handled like completed ones.
SyncSave_AnyOutcome(r) ==
    /\ sync[r] = "loaded"
    /\ row' = [status |-> "READY", key |-> r]
    /\ sync' = [sync EXCEPT ![r] = "done"]
    /\ UNCHANGED <<storageVars, tableVars, requestVars, queueVars, entity, late>>

\* Mutant of SyncSave: the entity of a failed job is saved without markError.
SyncSave_Unmarked(r) ==
    /\ sync[r] = "loaded"
    /\ row' = IF job[r] = "completed" THEN [status |-> "READY", key |-> r] ELSE entity[r]
    /\ sync' = [sync EXCEPT ![r] = "done"]
    /\ UNCHANGED <<storageVars, tableVars, requestVars, queueVars, entity, late>>

SyncSave(r) ==
    /\ sync[r] = "loaded"
    /\ row' = IF job[r] = "completed"
                 THEN [status |-> "READY", key |-> r]
                 ELSE [entity[r] EXCEPT !.status = "ERROR"]
    /\ sync' = [sync EXCEPT ![r] = "done"]
    /\ UNCHANGED <<storageVars, tableVars, requestVars, queueVars, entity, late>>

SyncStep(r) == SyncLoad(r) \/ SyncSave(r)

\* A callback's read or save throws; the error is logged and forgotten.
SyncFails(r) ==
    /\ "sync" \in Faults
    /\ sync[r] \in {"emitted", "loaded"}
    /\ sync' = [sync EXCEPT ![r] = "lost"]
    /\ UNCHANGED <<row, storageVars, tableVars, requestVars, queueVars, entity, late>>

\* The API process dies and starts again: its requests and callbacks are gone,
\* and QueueEvents reads only events published after it has started.
ApiCrash ==
    /\ "apiCrash" \in Faults
    /\ pc' = [r \in Requests |-> IF pc[r] \in MidWay THEN "failed" ELSE pc[r]]
    /\ sync' = [r \in Requests |-> IF sync[r] \in {"emitted", "loaded"}
                                   THEN "lost" ELSE sync[r]]
    /\ UNCHANGED <<row, storageVars, tableVars, kind, copy, queueVars, entity, late>>

-----------------------------------------------------------------------------
Request(r) == Submit(r) \/ Transform(r) \/ Delete(r)

Next ==
    \/ Create
    \/ \E r \in Requests :
          \/ Request(r) \/ RequestFails(r)
          \/ WorkerStep(r) \/ WorkerFails(r)
          \/ SyncStep(r) \/ SyncFails(r)
    \/ WorkerCrash
    \/ ApiCrash

Spec == Init /\ [][Next]_vars

\* A request that has started runs to its end, the worker takes and advances
\* jobs, the listener handles events.  No user has to send a request.
Finish(r) ==
    \/ SubmitResolve(r) \/ SubmitEnqueue(r) \/ SubmitMark(r)
    \/ TransformEnqueue(r) \/ TransformMark(r) \/ DeleteObject(r) \/ DeleteRow(r)

FairSpec ==
    /\ Spec
    /\ WF_vars(CreateSave \/ CreateEnqueue \/ CreateMark)
    /\ \A r \in Requests : WF_vars(Finish(r)) /\ WF_vars(WorkerStep(r)) /\ WF_vars(SyncStep(r))

-----------------------------------------------------------------------------
(* Downloads.  A client asks for a link, or for the file itself, at any time; *)
(* neither changes anything.  Result files lie under "processed/".         *)

\* Mutant of LinkBucket: every file is looked for among the uploads.
LinkBucket_Uploads(key) == "datasets"

\* GetDownloadUrlUseCase signs a link into the bucket of the key.
LinkBucket(key) == IF key = SourceKey THEN "datasets" ELSE "results"

\* DatasetController.stream reads the object itself.
StreamBucket(key) == IF key = SourceKey THEN "datasets" ELSE "results"

-----------------------------------------------------------------------------
(* Properties.                                                             *)

\* Every variable stays in the set of values its code can give it.
TypeOK ==
    /\ row \in Row
    /\ source \in BOOLEAN
    /\ content \in {"clean", "dirty", "broken"}
    /\ outputs \subseteq Requests
    /\ found \subseteq Requests \X Nat /\ IsFiniteSet(found)
    /\ pending \subseteq found
    /\ kind \in [Requests -> {"none", "create", "submit", "transform", "delete"}]
    /\ pc \in [Requests -> {"idle"} \cup MidWay \cup Terminal]
    /\ copy \in [Requests -> Row]
    /\ job \in [Requests -> {"none", "waiting", "active", "delayed"} \cup Settled]
    /\ input \in [Requests -> Keys]
    /\ attempts \in [Requests -> 0 .. MaxAttempts]
    /\ stalls \in [Requests -> 0 .. MaxStalls]
    /\ step \in [Requests -> {"idle", "download", "inspect", "persist",
                                "review", "upload", "report"}]
    /\ sync \in [Requests -> {"none", "emitted", "loaded", "done", "lost"}]
    /\ entity \in [Requests -> Row]
    /\ late \subseteq Requests

\* A dataset shown as READY can be downloaded: its storageKey names the output
\* of a job that has completed, and that file is in the results bucket.  The
\* row is written by whole-row saves from stale entities, so this relates the
\* listener, the worker's upload and every copy still in memory.
ReadyHasOutput ==
    row.status = "READY" => row.key \in outputs /\ job[row.key] = "completed"

\* A dataset shown as PROCESSING has an outcome still to come, unless a
\* callback was lost or a request saved PROCESSING after its own job had
\* already been synchronised: nothing else leaves a dataset stuck.
ProcessingIsOwed ==
    row.status = "PROCESSING" =>
        \E r \in Requests :
            \/ job[r] \in {"waiting", "active", "delayed"}
            \/ sync[r] \in {"emitted", "loaded", "lost"}
            \/ r \in late

\* A dataset shown as PENDING is still being created, or its creation broke
\* off; no later request, job or callback ever takes it back to PENDING.
PendingIsCreation ==
    row.status = "PENDING" => pc[Creator] \in {"enqueue", "mark", "failed"}

\* Every file the worker delivers was computed from the uploaded file, never
\* from an earlier result: a job on a processed key cannot complete, because
\* the worker looks for every key in the datasets bucket.
OutputsComeFromUpload ==
    \A r \in Requests : (r \in outputs \/ job[r] = "completed") => input[r] = SourceKey

\* Some request may have tried to delete the file.
DeletionBegun ==
    \E r \in Requests : kind[r] = "delete" /\ pc[r] \in {"unrow", "done", "failed"}

\* Until somebody begins to delete the dataset, both ways of downloading it find
\* the file that the row names, whatever its status and whichever entity was
\* saved last.  No file is ever replaced, so that a link stays good as well.
DownloadsWork ==
    Exists(row) =>
        \/ DeletionBegun
        \/ /\ Stored(LinkBucket(row.key), row.key)
           /\ Stored(StreamBucket(row.key), row.key)

Deleted == \E r \in Requests : kind[r] = "delete" /\ pc[r] = "done"

\* Until the dataset is deleted its anomalies are detected and stored once: of
\* all the runs of all its jobs, also of those of one job that was retried or
\* started again after a stall, one stores them and the others reuse them.
SingleDetection == ~Deleted => Cardinality(found) <= 1

\* From some time on, a dataset shown as PROCESSING is one whose outcome was
\* lost or overwritten by a late save; all others have left PROCESSING.
DatasetSettles ==
    <>[](row.status = "PROCESSING" =>
            late # {} \/ \E r \in Requests : sync[r] = "lost")

-----------------------------------------------------------------------------
(* The contract with the client that the pipeline implements.              *)

Outcome(r) ==
    CASE job[r] = "none" -> "none"
      [] job[r] \in Settled -> job[r]
      [] OTHER -> "accepted"

Contract == INSTANCE DatasetContract WITH
    Jobs <- Requests,
    Nothing <- SourceKey,
    outcome <- [r \in Requests |-> Outcome(r)],
    delivered <- outputs,
    published <- IF row.status = "READY" THEN row.key ELSE SourceKey

\* Every step keeps the contract: a settled job stays settled through retries,
\* stalls and crashes, and only the file of a completed job is published.
KeepsContract == Contract!ContractSafety

\* Under fairness every accepted job is settled as the contract asks.
MeetsContract == Contract!ContractSpec

-----------------------------------------------------------------------------
(* What the documents say of the dataset and the code does not do.         *)

\* Nothing is under way any more.
Quiescent ==
    \A r \in Requests :
        /\ pc[r] \in Terminal \cup {"idle"}
        /\ job[r] \in Settled \cup {"none"}
        /\ sync[r] \in {"none", "done"}

\* "Dataset pasa a READY": when the jobs are done and nothing has failed, the
\* dataset is no longer PROCESSING.
NothingStuck == Quiescent => row.status # "PROCESSING"

\* "Ready for transformations": a job enqueued for a READY dataset finds the
\* file its payload names.
ReadyCanBeTransformed ==
    \A r \in Requests :
        step[r] = "download" /\ kind[r] = "transform" /\ ~Deleted /\ Exists(row)
            => Downloadable(input[r])

\* "Eliminar dataset": a dataset that has been deleted does not come back.
DeletedStaysDeleted == Deleted => ~Exists(row)

=============================================================================
