----------------------- MODULE AnomalyReviewInvariants -----------------------
(***************************************************************************)
(* The inductive invariant of AnomalyReview: what the entities in memory   *)
(* can hold, how far a submission's decisions have got, and when its job   *)
(* exists.                                                                 *)
(***************************************************************************)
EXTENDS AnomalyReview

Resolved == Anomalies \ Pending

\* A decision reaches the tables before or with the status RESOLVED, in the
\* entities in memory as well.
EntityInv ==
    \A c \in Callers :
        held[c].row.status = "RESOLVED" => held[c].row.decision # Nobody

\* Webhook calls come from n8n only.
HookInv == \A w \in Webhooks : hook[w] = "save" => mode = "n8n"

\* A submission's job exists once its loop is through, and has slept only in
\* a review.
EnqueueInv ==
    \A s \in Submissions :
        /\ pc[s] # "done" => job[s] = "none"
        /\ job[s] = "none" => polls[s] = 0

\* What a submission has saved is decided, and stays RESOLVED unless a webhook
\* interferes.
ProgressInv ==
    \A s \in Submissions :
        LET saved == IF pc[s] \in {"load", "save"} THEN chosen[s] \ todo[s]
                     ELSE IF job[s] # "none" THEN chosen[s] ELSE {}
        IN  /\ saved \subseteq Decided
            /\ mode = "gemini" => saved \subseteq Resolved

\* A review that ended before the timeout leaves nothing undecided.
ReviewInv ==
    /\ ReviewedMeansDecided
    /\ \A j \in Jobs : job[j] = "reviewed" => Decided = Anomalies

IInv ==
    /\ TypeOK
    /\ ResolvedHasDecision
    /\ EntityInv
    /\ HookInv
    /\ EnqueueInv
    /\ ProgressInv
    /\ ReviewInv
    /\ SubmittedIsApplied
    /\ CompleteSubmissionNeverWaits

=============================================================================
