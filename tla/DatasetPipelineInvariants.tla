---------------------- MODULE DatasetPipelineInvariants ----------------------
(***************************************************************************)
(* The inductive invariant of DatasetPipeline.  The safety properties of   *)
(* that module are not inductive: they hold because of where a request,    *)
(* its job, the worker and the listener can be at the same time, and of    *)
(* what the entities held in memory can contain.                           *)
(***************************************************************************)
EXTENDS DatasetPipeline

\* Only the creator is ever where CreateDatasetUseCase goes, and a request is
\* only where its own handler goes.
KindInv ==
    /\ kind[Creator] = "create"
    /\ pc[Creator] \in {"idle", "save", "enqueue", "mark", "done", "failed", "rejected"}
    /\ \A r \in Requests \ {Creator} : kind[r] # "create" /\ pc[r] # "save"
    /\ \A r \in Requests :
          /\ pc[r] = "resolve" => kind[r] = "submit"
          /\ pc[r] \in {"unstore", "unrow"} => kind[r] = "delete"

\* A job exists only once its request has passed the enqueue.
EnqueuedInv ==
    \A r \in Requests :
        /\ pc[r] \in {"idle", "save", "resolve", "enqueue"} => job[r] = "none"
        /\ pc[r] = "mark" => job[r] # "none"

\* The worker is in a job only while BullMQ calls it active, a job that has
\* not been settled has attempts left, and a completed one has its output.
WorkerInv ==
    \A r \in Requests :
        /\ step[r] # "idle" => job[r] = "active"
        /\ job[r] = "none" => r \notin outputs
        /\ step[r] = "report" \/ job[r] = "completed" => r \in outputs
        /\ job[r] \notin Settled => attempts[r] < MaxAttempts

\* The listener hears of a job when it is settled, and of no other.
SyncInv ==
    \A r \in Requests : sync[r] = "none" <=> job[r] \notin Settled

ControlInv == KindInv /\ EnqueuedInv /\ WorkerInv /\ SyncInv

BaseInv == TypeOK /\ ControlInv

\* Every storageKey, in the row or in memory, names a file that exists or has
\* existed: the upload, or the output of a completed job.
KnownKey(key) == key # SourceKey => key \in outputs /\ job[key] = "completed"

FilesInv ==
    /\ KnownKey(row.key)
    /\ \A r \in Requests : KnownKey(copy[r].key) /\ KnownKey(entity[r].key)
    /\ row.status = "READY" => row.key # SourceKey
    /\ row.status = "ABSENT" => row.key = SourceKey

\* Nothing can be done to a dataset before its file is uploaded, and only a
\* deletion removes the file.
StorageInv ==
    \/ source
    \/ DeletionBegun
    \/ /\ ~Exists(row)
       /\ pc[Creator] \in {"idle", "rejected"}
       /\ \A r \in Requests :
             /\ pc[r] \in {"idle", "rejected"}
             /\ job[r] = "none"

\* A job that has got past its download runs on the upload.
SourceInv ==
    /\ OutputsComeFromUpload
    /\ \A r \in Requests :
          step[r] \notin {"idle", "download"} => input[r] = SourceKey

\* Before a deletion, only the creator's job can find the anomalies table
\* empty: a submission has decided on a stored anomaly, and a transformation
\* starts from a processed file, which its job cannot download.  The creator's
\* job goes to store anomalies only as long as there are none.
DetectionInv ==
    ~Deleted =>
        /\ Cardinality(found) <= 1
        /\ step[Creator] = "persist" => found = {}
        /\ \A r \in Requests \ {Creator} :
              /\ step[r] # "persist"
              /\ pc[r] = "enqueue" \/ job[r] # "none" =>
                    \/ kind[r] = "submit" /\ found # {}
                    \/ /\ kind[r] = "transform"
                       /\ copy[r].key # SourceKey
                       /\ job[r] # "none" => input[r] # SourceKey

IInv ==
    /\ BaseInv
    /\ FilesInv
    /\ StorageInv
    /\ SourceInv
    /\ ProcessingIsOwed
    /\ PendingIsCreation
    /\ DetectionInv

=============================================================================
