----------------------------- MODULE AnomalyReview -----------------------------
(***************************************************************************)
(* The human review of one dataset, from the moment its first job has      *)
(* stored the detected anomalies.  Submissions decide on anomalies one at  *)
(* a time; AI suggestions are stored by a background task of the worker    *)
(* (when a Gemini key is configured) or by n8n through a webhook (when     *)
(* not); the jobs poll until no anomaly is PENDING, or for hitl_max_wait,  *)
(* and apply the decisions they then find.                                 *)
(*                                                                         *)
(* The API reads an anomaly, changes the entity and saves it, with awaits  *)
(* between; the worker's statements are single reads and updates.          *)
(* DatasetPipeline has the rest of the use cases: here a submission is its *)
(* loop and the enqueue, and a job its review.                             *)
(*                                                                         *)
(* Constants that bound what the environment does:                         *)
(*   Anomalies    the anomalies of the dataset                             *)
(*   Submissions  calls of POST /datasets/:id/decisions                    *)
(*   Webhooks     calls of POST /webhooks/n8n/suggestions                  *)
(*   First        the job that stored the anomalies                        *)
(*   MaxPolls     polls of a review: hitl_max_wait / hitl_poll_interval    *)
(*   MaxRetries   times BullMQ runs a job again                            *)
(***************************************************************************)
EXTENDS Naturals

CONSTANTS Anomalies, Submissions, Webhooks, First, Nobody, MaxPolls, MaxRetries

\* The review is only entered when something has been detected.
ASSUME AnomaliesAssumption == Anomalies # {}

ASSUME NamesAssumption ==
    /\ First \notin Submissions
    /\ Nobody \notin Submissions

ASSUME BoundsAssumption ==
    /\ MaxPolls \in Nat \ {0}
    /\ MaxRetries \in Nat

VARIABLES
    mode,       \* who makes suggestions: the worker itself or n8n
    table,      \* the anomalies and decisions tables
    pc,         \* where each submission is
    chosen,     \* the anomalies each submission decides on
    todo,       \* those its loop has not saved yet
    hook,       \* where each webhook call is
    held,       \* the entity each submission or webhook call holds in memory
    job,        \* where each job is
    polls,      \* sleeps of its current review
    retries,    \* times it was run again
    asking,     \* anomalies its background task has still to ask about
    applied     \* the decisions it read for applying

apiVars    == <<pc, chosen, todo, hook, held>>
workerVars == <<job, polls, retries, asking, applied>>
vars       == <<mode, table, apiVars, workerVars>>

Jobs     == Submissions \cup {First}
Callers  == Submissions \cup Webhooks
Deciders == Submissions \cup {Nobody}

\* An anomaly with the decision that references it; a decision is named by
\* the submission that made it.
Row    == [status : {"PENDING", "RESOLVED"}, decision : Deciders, suggested : BOOLEAN]
Fresh  == [status |-> "PENDING", decision |-> Nobody, suggested |-> FALSE]
Entity == [of : Anomalies, row : Row]
Empty  == [of |-> CHOOSE a \in Anomalies : TRUE, row |-> Fresh]

Pending == {a \in Anomalies : table[a].status = "PENDING"}
Decided == {a \in Anomalies : table[a].decision # Nobody}

Init ==
    /\ mode \in {"gemini", "n8n"}
    /\ table = [a \in Anomalies |-> Fresh]
    /\ pc = [s \in Submissions |-> "idle"]
    /\ chosen = [s \in Submissions |-> {}]
    /\ todo = [s \in Submissions |-> {}]
    /\ hook = [w \in Webhooks |-> "idle"]
    /\ held = [c \in Callers |-> Empty]
    /\ job = [j \in Jobs |-> IF j = First THEN "review" ELSE "none"]
    /\ polls = [j \in Jobs |-> 0]
    /\ retries = [j \in Jobs |-> 0]
    /\ asking = [j \in Jobs |-> IF j = First /\ mode = "gemini" THEN Anomalies ELSE {}]
    /\ applied = [j \in Jobs |-> [a \in Anomalies |-> Nobody]]

-----------------------------------------------------------------------------
(* PrismaAnomalyRepository                                                 *)

\* findById, with the decision.
Load(c, a) == held' = [held EXCEPT ![c] = [of |-> a, row |-> table[a]]]

\* The entity is a local variable of one turn of the loop.
Forget(c) == held' = [held EXCEPT ![c] = Empty]

\* Mutant of Save: an entity without decision clears the stored one.
Save_Replaces(a, row) == table' = [table EXCEPT ![a] = row]

\* save: status and suggestion are overwritten with the entity's, the decision
\* only by an entity that has one.
Save(a, row) ==
    table' = [table EXCEPT ![a] =
                 [row EXCEPT !.decision = IF @ = Nobody THEN table[a].decision ELSE @]]

-----------------------------------------------------------------------------
(* SubmitDecisionsUseCase                                                  *)

SubmitStart(s) ==
    /\ pc[s] = "idle"
    /\ \E S \in (SUBSET Anomalies) \ {{}} :
          /\ chosen' = [chosen EXCEPT ![s] = S]
          /\ todo' = [todo EXCEPT ![s] = S]
    /\ pc' = [pc EXCEPT ![s] = "load"]
    /\ UNCHANGED <<mode, table, hook, held, workerVars>>

SubmitLoad(s) ==
    /\ pc[s] = "load"
    /\ \E a \in todo[s] : Load(s, a)
    /\ pc' = [pc EXCEPT ![s] = "save"]
    /\ UNCHANGED <<mode, table, chosen, todo, hook, workerVars>>

\* Mutant of Resolve: the status is left to the worker.
Resolve_KeepsStatus(row, s) == [row EXCEPT !.decision = s]

\* Anomaly.resolve
Resolve(row, s) == [row EXCEPT !.status = "RESOLVED", !.decision = s]

SubmitSave(s) ==
    /\ pc[s] = "save"
    /\ Save(held[s].of, Resolve(held[s].row, s))
    /\ todo' = [todo EXCEPT ![s] = @ \ {held[s].of}]
    /\ pc' = [pc EXCEPT ![s] = "load"]
    /\ Forget(s)
    /\ UNCHANGED <<mode, chosen, hook, workerVars>>

\* The loop throws: an anomaly that is unknown or of another dataset, an
\* invalid correctionIr, or a failing call.  What was saved stays.
SubmitThrows(s) ==
    /\ pc[s] \in {"load", "save"}
    /\ pc' = [pc EXCEPT ![s] = "failed"]
    /\ Forget(s)
    /\ UNCHANGED <<mode, table, chosen, todo, hook, workerVars>>

\* Mutant of SubmitEnqueue: the job is enqueued before the loop is through.
SubmitEnqueue_Early(s) ==
    /\ pc[s] \in {"load", "save"}
    /\ job[s] = "none"
    /\ job' = [job EXCEPT ![s] = "queued"]
    /\ UNCHANGED <<mode, table, apiVars, polls, retries, asking, applied>>

SubmitEnqueue(s) ==
    /\ pc[s] = "load"
    /\ todo[s] = {}
    /\ job' = [job EXCEPT ![s] = "queued"]
    /\ pc' = [pc EXCEPT ![s] = "done"]
    /\ UNCHANGED <<mode, table, chosen, todo, hook, held, polls, retries, asking, applied>>

Submit(s) ==
    SubmitStart(s) \/ SubmitLoad(s) \/ SubmitSave(s) \/ SubmitThrows(s) \/ SubmitEnqueue(s)

-----------------------------------------------------------------------------
(* SaveAiSuggestionsUseCase.  n8n has been told of the anomalies by a job's *)
(* background task; it may leave some out, and call more than once.         *)

SuggestLoad(w) ==
    /\ mode = "n8n"
    /\ hook[w] = "idle"
    /\ \E a \in Anomalies : Load(w, a)
    /\ hook' = [hook EXCEPT ![w] = "save"]
    /\ UNCHANGED <<mode, table, pc, chosen, todo, workerVars>>

\* Anomaly.setAiSuggestion, and save.  The call goes on with its next
\* suggestion, or ends.
SuggestSave(w) ==
    /\ hook[w] = "save"
    /\ Save(held[w].of, [held[w].row EXCEPT !.suggested = TRUE])
    /\ \E next \in {"idle", "done"} : hook' = [hook EXCEPT ![w] = next]
    /\ Forget(w)
    /\ UNCHANGED <<mode, pc, chosen, todo, workerVars>>

SuggestThrows(w) ==
    /\ hook[w] = "save"
    /\ hook' = [hook EXCEPT ![w] = "done"]
    /\ Forget(w)
    /\ UNCHANGED <<mode, table, pc, chosen, todo, workerVars>>

Suggest(w) == SuggestLoad(w) \/ SuggestSave(w) \/ SuggestThrows(w)

-----------------------------------------------------------------------------
(* The worker.                                                             *)

Advance(j, label) == job' = [job EXCEPT ![j] = label]

\* The job finds the stored anomalies and enters the review; its background
\* task starts.
StartReview(j) ==
    /\ job[j] = "queued"
    /\ Advance(j, "review")
    /\ polls' = [polls EXCEPT ![j] = 0]
    /\ asking' = [asking EXCEPT ![j] = IF mode = "gemini" THEN Anomalies ELSE {}]
    /\ UNCHANGED <<mode, table, apiVars, retries, applied>>

\* Mutant of Poll: one resolved anomaly is enough.
Poll_Any(j) ==
    /\ job[j] = "review"
    /\ polls[j] < MaxPolls
    /\ IF Pending # Anomalies
          THEN Advance(j, "reviewed") /\ UNCHANGED polls
          ELSE UNCHANGED job /\ polls' = [polls EXCEPT ![j] = @ + 1]
    /\ UNCHANGED <<mode, table, apiVars, retries, asking, applied>>

\* Mutant of Poll: the time slept is not added up.
Poll_Forever(j) ==
    /\ job[j] = "review"
    /\ polls[j] < MaxPolls
    /\ Pending = {}
    /\ Advance(j, "reviewed")
    /\ UNCHANGED <<mode, table, apiVars, polls, retries, asking, applied>>

\* count_pending_anomalies, and a sleep unless there is none.
Poll(j) ==
    /\ job[j] = "review"
    /\ polls[j] < MaxPolls
    /\ IF Pending = {}
          THEN Advance(j, "reviewed") /\ UNCHANGED polls
          ELSE UNCHANGED job /\ polls' = [polls EXCEPT ![j] = @ + 1]
    /\ UNCHANGED <<mode, table, apiVars, retries, asking, applied>>

\* The loop ends after its last sleep without counting again.
Expire(j) ==
    /\ job[j] = "review"
    /\ polls[j] = MaxPolls
    /\ Advance(j, "expired")
    /\ UNCHANGED <<mode, table, apiVars, polls, retries, asking, applied>>

\* get_decisions reads every decision of the dataset, whatever the status of
\* its anomaly; the rest of the job applies them.
Apply(j) ==
    /\ job[j] \in {"reviewed", "expired"}
    /\ applied' = [applied EXCEPT ![j] = [a \in Anomalies |-> table[a].decision]]
    /\ Advance(j, IF job[j] = "reviewed" THEN "done" ELSE "doneLate")
    /\ UNCHANGED <<mode, table, apiVars, polls, retries, asking>>

Running == {"queued", "review", "reviewed", "expired"}

\* The attempt fails or its process dies; BullMQ runs the job again until its
\* attempts are used up.
Rerun(j) ==
    /\ job[j] \in Running
    /\ \/ /\ retries[j] < MaxRetries
          /\ retries' = [retries EXCEPT ![j] = @ + 1]
          /\ Advance(j, "queued")
       \/ /\ retries[j] = MaxRetries
          /\ Advance(j, "failed")
          /\ UNCHANGED retries
    /\ UNCHANGED <<mode, table, apiVars, polls, asking, applied>>

\* Mutant of Ask: the column is also written when Gemini has no answer.
Ask_Clears(j) ==
    /\ \E a \in asking[j] :
          /\ \E answered \in BOOLEAN :
                table' = [table EXCEPT ![a].suggested = answered]
          /\ asking' = [asking EXCEPT ![j] = @ \ {a}]
    /\ UNCHANGED <<mode, apiVars, job, polls, retries, applied>>

\* The background task asks Gemini about one anomaly, and updates only the
\* suggestion column when it gets an answer.  It outlives its job's review.
Ask(j) ==
    /\ \E a \in asking[j] :
          /\ \/ table' = [table EXCEPT ![a].suggested = TRUE]
             \/ UNCHANGED table
          /\ asking' = [asking EXCEPT ![j] = @ \ {a}]
    /\ UNCHANGED <<mode, apiVars, job, polls, retries, applied>>

Review(j) == StartReview(j) \/ Poll(j) \/ Expire(j) \/ Apply(j)

Next ==
    \/ \E s \in Submissions : Submit(s)
    \/ \E w \in Webhooks : Suggest(w)
    \/ \E j \in Jobs : Review(j) \/ Rerun(j) \/ Ask(j)

Spec == Init /\ [][Next]_vars

\* The worker runs its jobs; nobody has to submit or to suggest anything.
FairSpec == Spec /\ \A j \in Jobs : WF_vars(Review(j))

-----------------------------------------------------------------------------
(* Properties.                                                             *)

\* Every variable stays in the set of values its code can give it.
TypeOK ==
    /\ mode \in {"gemini", "n8n"}
    /\ table \in [Anomalies -> Row]
    /\ pc \in [Submissions -> {"idle", "load", "save", "done", "failed"}]
    /\ chosen \in [Submissions -> SUBSET Anomalies]
    /\ todo \in [Submissions -> SUBSET Anomalies]
    /\ hook \in [Webhooks -> {"idle", "save", "done"}]
    /\ held \in [Callers -> Entity]
    /\ job \in [Jobs -> {"none", "queued", "review", "reviewed", "expired",
                          "done", "doneLate", "failed"}]
    /\ polls \in [Jobs -> 0 .. MaxPolls]
    /\ retries \in [Jobs -> 0 .. MaxRetries]
    /\ asking \in [Jobs -> SUBSET Anomalies]
    /\ applied \in [Jobs -> [Anomalies -> Deciders]]

\* An anomaly shown as RESOLVED has a decision, whichever entity was saved
\* last and whatever it had read.
ResolvedHasDecision ==
    \A a \in Anomalies : table[a].status = "RESOLVED" => table[a].decision # Nobody

\* A job that leaves its review before the timeout applies a decision on every
\* anomaly, although it reads them after it has counted and webhooks save
\* stale entities in between.
ReviewedMeansDecided ==
    \A j \in Jobs : job[j] = "done" => \A a \in Anomalies : applied[j][a] # Nobody

\* The job that a submission enqueues finds a decision on every anomaly of the
\* submission, timeout or not.
SubmittedIsApplied ==
    \A s \in Submissions :
        job[s] \in {"done", "doneLate"} => \A a \in chosen[s] : applied[s][a] # Nobody

\* With the worker making the suggestions, a submission that decides on every
\* anomaly is not kept waiting: its job never sleeps.
CompleteSubmissionNeverWaits ==
    \A s \in Submissions :
        mode = "gemini" /\ chosen[s] = Anomalies => polls[s] = 0

\* A decision is never taken back to none.
DecisionsStay == [][Decided \subseteq Decided']_vars

\* The suggestion of an anomaly nobody has decided on is never lost; a save
\* with a stale entity can only drop it together with a new decision.
UndecidedKeepsSuggestion ==
    [][\A a \in Anomalies :
          table[a].suggested /\ table'[a].decision = Nobody => table'[a].suggested]_vars

\* Every review ends: the timeout lets the job go on without the humans.
ReviewsEnd ==
    \A j \in Jobs : job[j] \in Running ~> job[j] \in {"done", "doneLate", "failed"}

-----------------------------------------------------------------------------
(* What the documents say and the code does not do.                        *)

\* "Apply the decision and mark anomaly as RESOLVED": an anomaly with a
\* decision is not shown as PENDING.
DecidedIsResolved == \A a \in Decided : table[a].status = "RESOLVED"

=============================================================================
