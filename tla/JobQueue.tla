-------------------------------- MODULE JobQueue --------------------------------
(***************************************************************************)
(* The two ends of the queue of jobs: BullMQJobQueueService in the API,    *)
(* which adds and cancels jobs, and BullMQWorkerService, the shell around  *)
(* ETLJobProcessor in the worker, which takes them.  The queue between     *)
(* them, BullMQ's in Redis, is modelled by what the two use of it: a job   *)
(* is known by its id, an id that is known is not added again, and a job   *)
(* a worker has locked cannot be removed.                                  *)
(*                                                                         *)
(* DatasetPipeline has the same queue with one step for an enqueue, and    *)
(* with the crashes that are left out here.                                *)
(***************************************************************************)
EXTENDS Integers, FiniteSets

CONSTANTS
    Jobs,           \* the ids of the jobs
    MaxAttempts,    \* attempts of a job; 3 in the code
    MaxRetries,     \* retries of an add whose connection closed; 3 in the code
    Concurrency     \* jobs the worker runs at once

ASSUME JobsAssumption == IsFiniteSet(Jobs)
ASSUME LimitsAssumption ==
    /\ MaxAttempts \in Nat \ {0}
    /\ MaxRetries \in Nat
    /\ Concurrency \in Nat \ {0}

VARIABLES
    entry,      \* each job in Redis: its state and the attempts that failed
    call,       \* the enqueue of each job
    retries,    \* how often its add was retried
    cancel,     \* the cancel of each job, at its three awaits
    run,        \* where _process_job is with each job
    worker,     \* the service's _running and the worker's closing
    left,       \* the jobs that run on although the close of their worker raised
    started,    \* of each job: the runs so far,
    succeeded,  \* those in which the use case succeeded,
    lost        \* and those of which the success could not be reported

vars == <<entry, call, retries, cancel, run, worker, left, started, succeeded, lost>>

States == {"absent", "waiting", "delayed", "active", "completed", "failed"}
NoEntry == [state |-> "absent", failures |-> 0]
Settled == {"completed", "failed"}

Init ==
    /\ entry = [j \in Jobs |-> NoEntry]
    /\ call = [j \in Jobs |-> "idle"]
    /\ retries = [j \in Jobs |-> 0]
    /\ cancel = [j \in Jobs |-> "idle"]
    /\ run = [j \in Jobs |-> "none"]
    /\ worker = "stopped"
    /\ left = {}
    /\ started = [j \in Jobs |-> 0]
    /\ succeeded = [j \in Jobs |-> 0]
    /\ lost = [j \in Jobs |-> 0]

service == <<worker, left>>
counters == <<started, succeeded, lost>>

-----------------------------------------------------------------------------
(* enqueue.                                                                *)

Call(j, state) == call' = [call EXCEPT ![j] = state]

(* Mutant: the job is added under an id of its own each time.              *)
Add_Again(j) == entry' = [entry EXCEPT ![j] = [NoEntry EXCEPT !.state = "waiting"]]

(* queue.add: nothing happens to a job that is known.                      *)
Add(j) ==
    entry' = IF entry[j].state = "absent"
             THEN [entry EXCEPT ![j] = [NoEntry EXCEPT !.state = "waiting"]]
             ELSE entry

Enqueue(j) ==
    /\ call[j] = "idle"
    /\ Call(j, "adding")
    /\ UNCHANGED <<entry, retries, cancel, run, service, counters>>

AddAnswered(j) ==
    /\ call[j] = "adding"
    /\ Add(j)
    /\ Call(j, "queued")
    /\ UNCHANGED <<retries, cancel, run, service, counters>>

(* The connection closes before the add arrived, or before its answer did. *)
AddCut(j) ==
    /\ call[j] = "adding"
    /\ Add(j) \/ UNCHANGED entry
    /\ IF retries[j] < MaxRetries
       THEN retries' = [retries EXCEPT ![j] = @ + 1] /\ UNCHANGED call
       ELSE Call(j, "rejected") /\ UNCHANGED retries
    /\ UNCHANGED <<cancel, run, service, counters>>

(* Any other error is thrown at once.                                      *)
AddFails(j) ==
    /\ call[j] = "adding"
    /\ Add(j) \/ UNCHANGED entry
    /\ Call(j, "rejected")
    /\ UNCHANGED <<retries, cancel, run, service, counters>>

-----------------------------------------------------------------------------
(* cancel: getJob, getState, remove.  Who cancels knows the id from the    *)
(* answer of the enqueue.                                                  *)

Cancelling(j, label) == cancel' = [cancel EXCEPT ![j] = label]

CancelFind(j) ==
    /\ call[j] = "queued" /\ cancel[j] = "idle"
    /\ Cancelling(j, IF entry[j].state = "absent" THEN "refused" ELSE "found")
    /\ UNCHANGED <<entry, call, retries, run, service, counters>>

CancelRead(j) ==
    /\ cancel[j] = "found"
    /\ Cancelling(j, IF entry[j].state \in {"active", "completed"} THEN "refused" ELSE "removing")
    /\ UNCHANGED <<entry, call, retries, run, service, counters>>

(* Mutant: the job is removed whatever its state is by now.                *)
CancelRemove_Unlocked(j) ==
    /\ cancel[j] = "removing"
    /\ Cancelling(j, "removed")
    /\ entry' = [entry EXCEPT ![j] = NoEntry]
    /\ UNCHANGED <<call, retries, run, service, counters>>

(* remove throws when the worker has locked the job in the meantime.       *)
CancelRemove(j) ==
    /\ cancel[j] = "removing"
    /\ IF entry[j].state = "active"
       THEN Cancelling(j, "raised") /\ UNCHANGED entry
       ELSE Cancelling(j, "removed") /\ entry' = [entry EXCEPT ![j] = NoEntry]
    /\ UNCHANGED <<call, retries, run, service, counters>>

(* removeOnComplete and removeOnFail, long after the enqueue.              *)
Evict(j) ==
    /\ entry[j].state \in Settled /\ call[j] \in {"queued", "rejected"}
    /\ entry' = [entry EXCEPT ![j] = NoEntry]
    /\ UNCHANGED <<call, retries, cancel, run, service, counters>>

-----------------------------------------------------------------------------
(* The service: start, stop and the jobs it runs.                          *)

Running == {j \in Jobs : run[j] # "none"}

Start ==
    /\ worker = "stopped"
    /\ worker' = "running"
    /\ UNCHANGED <<entry, call, retries, cancel, run, left, counters>>

(* stop: no job is taken any more; close waits for those under way.        *)
Stop ==
    /\ worker = "running"
    /\ worker' = "closing"
    /\ UNCHANGED <<entry, call, retries, cancel, run, left, counters>>

(* Mutant: close does not wait.                                            *)
Stopped_AtOnce ==
    /\ worker = "closing"
    /\ worker' = "stopped"
    /\ UNCHANGED <<entry, call, retries, cancel, run, left, counters>>

(* close has waited for the jobs of its worker: those that an earlier      *)
(* close left behind belong to a worker the service has forgotten.         *)
Stopped ==
    /\ worker = "closing" /\ Running \subseteq left
    /\ worker' = "stopped"
    /\ UNCHANGED <<entry, call, retries, cancel, run, left, counters>>

(* close raises, at any moment of its wait: the error is logged, and the   *)
(* service is as stopped as after any other close.  The jobs run on.       *)
CloseRaises ==
    /\ worker = "closing"
    /\ worker' = "stopped"
    /\ left' = Running
    /\ UNCHANGED <<entry, call, retries, cancel, run, counters>>

Take(j) ==
    /\ worker = "running" /\ entry[j].state = "waiting"
    /\ Cardinality(Running \ left) < Concurrency
    /\ entry' = [entry EXCEPT ![j].state = "active"]
    /\ run' = [run EXCEPT ![j] = "starting"]
    /\ started' = [started EXCEPT ![j] = @ + 1]
    /\ UNCHANGED <<call, retries, cancel, service, succeeded, lost>>

(* updateProgress(5).                                                      *)
ReportStart(j) ==
    /\ run[j] = "starting"
    /\ run' = [run EXCEPT ![j] = "processing"]
    /\ UNCHANGED <<entry, call, retries, cancel, service, counters>>

Process(j) ==
    /\ run[j] = "processing"
    /\ run' = [run EXCEPT ![j] = "reporting"]
    /\ succeeded' = [succeeded EXCEPT ![j] = @ + 1]
    /\ UNCHANGED <<entry, call, retries, cancel, service, started, lost>>

Over(j) ==
    /\ run' = [run EXCEPT ![j] = "none"]
    /\ left' = left \ {j}

(* updateProgress(100), and the return.                                    *)
ReportEnd(j) ==
    /\ run[j] = "reporting"
    /\ Over(j)
    /\ entry' = [entry EXCEPT ![j].state = "completed"]
    /\ UNCHANGED <<call, retries, cancel, worker, counters>>

(* Mutants: the failure is not raised, and the job keeps its lock; one     *)
(* attempt too many.                                                       *)
RunFails_Held(j) ==
    /\ run[j] # "none"
    /\ Over(j)
    /\ UNCHANGED <<entry, call, retries, cancel, worker, counters>>

RunFails_OneTooMany(j) ==
    /\ run[j] # "none"
    /\ Over(j)
    /\ entry' = [entry EXCEPT ![j] =
                    [state |-> IF @.failures < MaxAttempts THEN "delayed" ELSE "failed",
                     failures |-> @.failures + 1]]
    /\ UNCHANGED <<call, retries, cancel, worker, counters>>

(* A report fails, the processor raises, or its result says success=False. *)
(* on_error is called, whatever it raises is dropped, and the job fails.   *)
RunFails(j) ==
    /\ run[j] # "none"
    /\ Over(j)
    /\ LET failures == entry[j].failures + 1
       IN  entry' = [entry EXCEPT ![j] =
                        [state |-> IF failures < MaxAttempts THEN "delayed" ELSE "failed",
                         failures |-> failures]]
    /\ lost' = IF run[j] = "reporting" THEN [lost EXCEPT ![j] = @ + 1] ELSE lost
    /\ UNCHANGED <<call, retries, cancel, worker, started, succeeded>>

Backoff(j) ==
    /\ entry[j].state = "delayed"
    /\ entry' = [entry EXCEPT ![j].state = "waiting"]
    /\ UNCHANGED <<call, retries, cancel, run, service, counters>>

-----------------------------------------------------------------------------

AddEnds(j) == AddAnswered(j) \/ AddCut(j) \/ AddFails(j)
RunStep(j) == ReportStart(j) \/ Process(j) \/ ReportEnd(j) \/ RunFails(j)

Next ==
    \/ \E j \in Jobs :
        \/ Enqueue(j) \/ AddEnds(j)
        \/ CancelFind(j) \/ CancelRead(j) \/ CancelRemove(j) \/ Evict(j)
        \/ Take(j) \/ RunStep(j) \/ Backoff(j)
    \/ Start \/ Stop \/ Stopped \/ CloseRaises

Spec == Init /\ [][Next]_vars

(* Every call is answered or broken off, BullMQ hands out its jobs and     *)
(* ends their delays, a run goes on; nobody has to enqueue, cancel, start  *)
(* or stop.                                                                *)
FairSpec ==
    /\ Spec
    /\ \A j \in Jobs : /\ WF_vars(AddEnds(j)) /\ WF_vars(Take(j))
                       /\ WF_vars(RunStep(j)) /\ WF_vars(Backoff(j))
    /\ WF_vars(Stopped)

=============================================================================
