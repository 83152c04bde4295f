------------------------------- MODULE JobEvents -------------------------------
(***************************************************************************)
(* What the API tells its clients about one job.  QueueEvents delivers the *)
(* job's events in order to two kinds of handlers:                         *)
(*   - JobController.streamEvents: a stream reads the job's status, answers *)
(*     with it and only then subscribes;                                    *)
(*   - DatasetStatusSyncListener: its callbacks run concurrently, save the  *)
(*     dataset and emit a status to every connection of the user, kept by   *)
(*     EventsController.                                                    *)
(* The job itself is BullMQ's and the worker's.  getJob and getState are    *)
(* one read here: between them a job can only be removed by age and count.  *)
(*                                                                          *)
(*   Streams      calls of GET /jobs/:jobId/events                          *)
(*   Watchers     calls of GET /events by the dataset's user                *)
(*   MaxAttempts  times BullMQ lets the worker run the job                  *)
(***************************************************************************)
EXTENDS Naturals, Sequences

CONSTANTS Streams, Watchers, MaxAttempts

ASSUME AttemptsAssumption == MaxAttempts \in Nat \ {0}

VARIABLES
    job,          \* BullMQ's state of the job; "unknown" if there is none
    attempts,     \* times it was started
    feed,         \* published events QueueEvents has still to deliver
    phase,        \* where each stream is
    answer,       \* the status its snapshot read
    shown,        \* the status it sent last
    missed,       \* history: events delivered between snapshot and subscription
    row,          \* status of the dataset
    starting,     \* onJobActive callbacks of the listener under way
    settling,     \* progress of its onJobCompleted or onJobFailed callback
    online,       \* watchers with an open response
    connections,  \* those EventsController has registered
    heard         \* the status each watcher was sent last

jobVars     == <<job, attempts>>
streamVars  == <<phase, answer, shown, missed>>
syncVars    == <<row, starting, settling>>
watcherVars == <<online, connections, heard>>
vars        == <<jobVars, feed, streamVars, syncVars, watcherVars>>

Outcomes == {"completed", "failed"}
Events   == {"active"} \cup Outcomes
Statuses == {"queued", "processing"} \cup Outcomes

Init ==
    /\ job \in {"unknown", "waiting"}
    /\ attempts = 0
    /\ feed = <<>>
    /\ phase = [s \in Streams |-> "idle"]
    /\ answer = [s \in Streams |-> "none"]
    /\ shown = [s \in Streams |-> "none"]
    /\ missed = [s \in Streams |-> {}]
    /\ row = "PROCESSING"
    /\ starting = 0
    /\ settling = "none"
    /\ online = {}
    /\ connections = {}
    /\ heard = [w \in Watchers |-> "none"]

-----------------------------------------------------------------------------
(* The job.  BullMQ publishes an event with the change it reports.  An     *)
(* attempt that fails and is to be repeated publishes none of these.       *)

JobStarts ==
    /\ job = "waiting"
    /\ job' = "active"
    /\ attempts' = attempts + 1
    /\ feed' = Append(feed, "active")
    /\ UNCHANGED <<streamVars, syncVars, watcherVars>>

JobRetries ==
    /\ job = "active"
    /\ attempts < MaxAttempts
    /\ job' = "waiting"
    /\ UNCHANGED <<attempts, feed, streamVars, syncVars, watcherVars>>

JobSettles ==
    /\ job = "active"
    /\ \E outcome \in Outcomes :
          /\ job' = outcome
          /\ feed' = Append(feed, outcome)
    /\ UNCHANGED <<attempts, streamVars, syncVars, watcherVars>>

-----------------------------------------------------------------------------
(* JobController.streamEvents                                              *)

\* Mutant of Status: a job that is not active has failed.
Status_Failed(state) ==
    CASE state = "unknown" -> "none"
      [] state = "active" -> "processing"
      [] state = "completed" -> "completed"
      [] OTHER -> "failed"

\* BullMQJobQueueService.getStatus
Status(state) ==
    CASE state = "unknown" -> "none"
      [] state = "active" -> "processing"
      [] state \in Outcomes -> state
      [] OTHER -> "queued"

\* The snapshot is read in Redis.
StreamReads(s) ==
    /\ phase[s] = "idle"
    /\ answer' = [answer EXCEPT ![s] = Status(job)]
    /\ phase' = [phase EXCEPT ![s] = "asked"]
    /\ UNCHANGED <<jobVars, feed, shown, missed, syncVars, watcherVars>>

\* Mutant of Final: completed jobs only.
Final_Completed(status) == status \in {"none", "completed"}

\* The response is ended at once: the job is not found, or settled.
Final(status) == status \in {"none"} \cup Outcomes

\* The snapshot arrives: it is sent, and unless the response is ended the
\* stream subscribes.
StreamAnswers(s) ==
    /\ phase[s] = "asked"
    /\ shown' = [shown EXCEPT ![s] = answer[s]]
    /\ phase' = [phase EXCEPT ![s] = IF Final(answer[s]) THEN "ended" ELSE "open"]
    /\ UNCHANGED <<jobVars, feed, answer, missed, syncVars, watcherVars>>

\* The snapshot throws.  The headers are flushed, so that the error handler
\* cannot answer and Express closes the connection.
StreamThrows(s) ==
    /\ phase[s] = "asked"
    /\ phase' = [phase EXCEPT ![s] = "ended"]
    /\ UNCHANGED <<jobVars, feed, answer, shown, missed, syncVars, watcherVars>>

\* Mutant of StreamCloses: only one that was told of an attempt.
StreamCloses_Started(s) ==
    /\ phase[s] = "open"
    /\ shown[s] = "processing"
    /\ phase' = [phase EXCEPT ![s] = "ended"]
    /\ UNCHANGED <<jobVars, feed, answer, shown, missed, syncVars, watcherVars>>

\* Ten minutes have passed, or the client is gone.  A client that leaves before
\* the subscription is not noticed until the timeout.
StreamCloses(s) ==
    /\ phase[s] = "open"
    /\ phase' = [phase EXCEPT ![s] = "ended"]
    /\ UNCHANGED <<jobVars, feed, answer, shown, missed, syncVars, watcherVars>>

Stream(s) == StreamReads(s) \/ StreamAnswers(s) \/ StreamThrows(s) \/ StreamCloses(s)

-----------------------------------------------------------------------------
(* QueueEvents.  An ended stream keeps its handlers, but what they write is *)
(* not sent any more.                                                       *)

\* The status that a stream sends for an event.
Shows(event) == IF event = "active" THEN "processing" ELSE event

\* Mutant of Forward: nobody handles a failure.
Forward_NoFailure(event) ==
    /\ shown' = [s \in Streams |->
                    IF phase[s] = "open" /\ event # "failed" THEN Shows(event) ELSE shown[s]]
    /\ phase' = [s \in Streams |->
                    IF phase[s] = "open" /\ event = "completed" THEN "ended" ELSE phase[s]]

\* onActive, onCompleted and onFailed of every subscribed stream.
Forward(event) ==
    /\ shown' = [s \in Streams |-> IF phase[s] = "open" THEN Shows(event) ELSE shown[s]]
    /\ phase' = [s \in Streams |->
                    IF phase[s] = "open" /\ event \in Outcomes THEN "ended" ELSE phase[s]]

\* The listener's callbacks begin by reading the job or the dataset.
Begin(event) ==
    IF event = "active"
    THEN starting' = starting + 1 /\ UNCHANGED settling
    ELSE settling' = "loading" /\ UNCHANGED starting

Deliver ==
    /\ feed # <<>>
    /\ feed' = Tail(feed)
    /\ Forward(Head(feed))
    /\ missed' = [s \in Streams |->
                     IF phase[s] = "asked" THEN missed[s] \cup {Head(feed)} ELSE missed[s]]
    /\ Begin(Head(feed))
    /\ UNCHANGED <<jobVars, answer, row, watcherVars>>

-----------------------------------------------------------------------------
(* DatasetStatusSyncListener and EventsController                          *)

\* EventsController.emit
Emit(status) ==
    heard' = [w \in Watchers |-> IF w \in connections THEN status ELSE heard[w]]

\* The dataset has been read; the row is not asked for its status.
NotifyStart ==
    /\ starting > 0
    /\ starting' = starting - 1
    /\ Emit("PROCESSING")
    /\ UNCHANGED <<jobVars, feed, streamVars, row, settling, online, connections>>

\* A read throws, or the dataset is gone.
NotifyStartFails ==
    /\ starting > 0
    /\ starting' = starting - 1
    /\ UNCHANGED <<jobVars, feed, streamVars, row, settling, watcherVars>>

Result == IF job = "completed" THEN "READY" ELSE "ERROR"

\* The dataset has been read, and its new status is written.
SaveOutcome ==
    /\ settling = "loading"
    /\ row' = Result
    /\ settling' = "saved"
    /\ UNCHANGED <<jobVars, feed, streamVars, starting, watcherVars>>

\* The save has returned.
NotifyOutcome ==
    /\ settling = "saved"
    /\ settling' = "done"
    /\ Emit(Result)
    /\ UNCHANGED <<jobVars, feed, streamVars, row, starting, online, connections>>

\* The read or the save throws, or the dataset is gone.
SettleFails ==
    /\ settling = "loading"
    /\ settling' = "lost"
    /\ UNCHANGED <<jobVars, feed, streamVars, row, starting, watcherVars>>

\* The response is added to the user's list.
Subscribe(w) ==
    /\ w \notin online
    /\ heard[w] = "none"
    /\ online' = online \cup {w}
    /\ connections' = connections \cup {w}
    /\ UNCHANGED <<jobVars, feed, streamVars, syncVars, heard>>

\* Mutant of Remove: the user's entry is deleted with any of its connections.
Remove_All(w) == {}

\* cleanup drops one response from the user's list.
Remove(w) == connections \ {w}

\* The timeout, or the client is gone.
Leave(w) ==
    /\ w \in online
    /\ online' = online \ {w}
    /\ connections' = Remove(w)
    /\ UNCHANGED <<jobVars, feed, streamVars, syncVars, heard>>

-----------------------------------------------------------------------------
Job      == JobStarts \/ JobRetries \/ JobSettles
Listener == NotifyStart \/ NotifyStartFails \/ SaveOutcome \/ NotifyOutcome \/ SettleFails

Next ==
    \/ Job
    \/ Deliver
    \/ Listener
    \/ \E s \in Streams : Stream(s)
    \/ \E w \in Watchers : Subscribe(w) \/ Leave(w)

Spec == Init /\ [][Next]_vars

\* A snapshot is answered or throws, and timers fire.  Jobs need not finish, and
\* QueueEvents need not deliver.
FairSpec == Spec /\ \A s \in Streams : WF_vars(StreamAnswers(s) \/ StreamThrows(s) \/ StreamCloses(s))

-----------------------------------------------------------------------------
(* Properties.                                                             *)

\* Every variable stays in the set of values its code can give it.
TypeOK ==
    /\ job \in {"unknown", "waiting", "active"} \cup Outcomes
    /\ attempts \in 0 .. MaxAttempts
    /\ feed \in Seq(Events)
    /\ phase \in [Streams -> {"idle", "asked", "open", "ended"}]
    /\ answer \in [Streams -> Statuses \cup {"none"}]
    /\ shown \in [Streams -> Statuses \cup {"none"}]
    /\ missed \in [Streams -> SUBSET Events]
    /\ row \in {"PROCESSING", "READY", "ERROR"}
    /\ starting \in Nat
    /\ settling \in {"none", "loading", "saved", "done", "lost"}
    /\ online \in SUBSET Watchers
    /\ connections \in SUBSET Watchers
    /\ heard \in [Watchers -> {"none", "PROCESSING", "READY", "ERROR"}]

\* A stream that has told an outcome has told the job's, and has ended.
OutcomeIsTold ==
    \A s \in Streams : shown[s] \in Outcomes => phase[s] = "ended" /\ shown[s] = job

\* With all events delivered, an open stream shows the state of its job, unless
\* the event came after the snapshot was read and before the stream subscribed.
\* In particular only this gap leaves a stream open whose job is settled.
OpenIsCurrent ==
    \A s \in Streams :
        phase[s] = "open" /\ job \in Events /\ feed = <<>>
            => shown[s] = Shows(job) \/ job \in missed[s]

\* Whoever is connected when the outcome is saved and emitted is told of it.
ConnectedAreTold ==
    [][settling = "saved" /\ settling' = "done" =>
          \A w \in online : heard'[w] = row]_vars

\* A stream that was asked for ends, whatever happens to its job.
StreamsEnd == \A s \in Streams : phase[s] = "asked" ~> phase[s] = "ended"

-----------------------------------------------------------------------------
(* What the documents say and the code does not do.                        *)

\* "pushes updates via BullMQ QueueEvents until the job reaches a terminal
\* state": when nothing is left to deliver of a settled job, no stream is open.
SettledIsPushed == \A s \in Streams : phase[s] = "open" /\ job \in Outcomes => feed # <<>>

=============================================================================
