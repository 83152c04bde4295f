--------------------------- MODULE JobQueueInvariants ---------------------------
(***************************************************************************)
(* The properties of JobQueue.                                             *)
(***************************************************************************)
EXTENDS JobQueue

(* The state is of its type.                                               *)
TypeOK ==
    /\ entry \in [Jobs -> [state : States, failures : 0..MaxAttempts]]
    /\ call \in [Jobs -> {"idle", "adding", "queued", "rejected"}]
    /\ retries \in [Jobs -> 0..MaxRetries]
    /\ cancel \in [Jobs -> {"idle", "found", "removing", "removed", "refused", "raised"}]
    /\ run \in [Jobs -> {"none", "starting", "processing", "reporting"}]
    /\ worker \in {"stopped", "running", "closing"} /\ left \subseteq Running
    /\ started \in [Jobs -> Nat] /\ succeeded \in [Jobs -> Nat] /\ lost \in [Jobs -> Nat]

(* However often the add of a job was retried, the job is not run more     *)
(* often than one job may be, and its use case succeeds a second time only *)
(* when its success could not be reported: the work of a completed job is  *)
(* not repeated.  (enqueue's retry under one jobId; _process_job.)         *)
RunsBounded ==
    \A j \in Jobs :
        /\ started[j] <= MaxAttempts
        /\ succeeded[j] <= lost[j] + 1

(* A job whose cancel returned true is not run and will not be, although   *)
(* its state was read at another moment than it was removed.               *)
CancelledIsIdle ==
    \A j \in Jobs : cancel[j] = "removed" => run[j] = "none" /\ entry[j] = NoEntry

(* A job that runs is active in the queue and the other way round, also    *)
(* one the service has forgotten; and a service that says it stopped has   *)
(* left no job half run, except when a close raised: stop() then says the  *)
(* same, and the jobs its worker had at that moment run on.                *)
StopDrains ==
    /\ \A j \in Jobs : run[j] # "none" <=> entry[j].state = "active"
    /\ worker = "stopped" => Running = left

(* An enqueue ends whatever becomes of its connection, a worker that is    *)
(* told to stop does, and a job in the queue is settled, or was cancelled, *)
(* unless the worker is stopped for good or again and again.               *)
JobsEnd ==
    /\ \A j \in Jobs : call[j] = "adding" ~> call[j] # "adding"
    /\ worker = "closing" ~> worker # "closing"
    /\ \A j \in Jobs :
        <>[](worker = "running") =>
            (call[j] = "queued" ~> entry[j].state \in Settled \cup {"absent"})

-----------------------------------------------------------------------------
(* What makes them inductive: only a job whose enqueue has ended can be    *)
(* cancelled or evicted, so that no retry brings it back; and the runs, as *)
(* well as the successes, of a job follow from its entry.                  *)

CallsInOrder ==
    \A j \in Jobs :
        /\ call[j] = "idle" => entry[j].state = "absent"
        /\ cancel[j] # "idle" => call[j] = "queued"

Accounts ==
    \A j \in Jobs :
        LET e == entry[j]
        IN  /\ e.state = "absent" /\ call[j] \in {"idle", "adding"} =>
                    started[j] = 0 /\ succeeded[j] = 0 /\ lost[j] = 0
            /\ e.state \in {"waiting", "delayed", "active", "completed"} => e.failures < MaxAttempts
            /\ e.state \in {"waiting", "delayed", "failed"} =>
                    started[j] = e.failures /\ succeeded[j] = lost[j]
            /\ e.state \in {"active", "completed"} => started[j] = e.failures + 1
            /\ run[j] \in {"starting", "processing"} => succeeded[j] = lost[j]
            /\ run[j] = "reporting" \/ e.state = "completed" => succeeded[j] = lost[j] + 1

IInv ==
    /\ TypeOK
    /\ StopDrains
    /\ CancelledIsIdle
    /\ CallsInOrder
    /\ Accounts
    /\ RunsBounded

=============================================================================
