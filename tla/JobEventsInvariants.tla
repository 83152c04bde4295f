-------------------------- MODULE JobEventsInvariants --------------------------
(***************************************************************************)
(* The inductive invariant of JobEvents: how the events still to be        *)
(* delivered relate to the job, and what the streams know of it.           *)
(***************************************************************************)
EXTENDS JobEvents

\* A job that waits has attempts left.
WaitingInv == job = "waiting" => attempts < MaxAttempts

\* An outcome is the last event of its job, and the last event is the state the
\* job is in, unless that one is not published.
FeedInv ==
    /\ \A i \in 1 .. Len(feed) : feed[i] \in Outcomes => i = Len(feed) /\ feed[i] = job
    /\ job \in Events /\ feed # <<>> => feed[Len(feed)] = job

\* An outcome that a snapshot has read is the job's.
AnswerInv == \A s \in Streams : answer[s] \in Outcomes => answer[s] = job

\* With all events delivered, a snapshot under way is current, unless an event
\* has come since it was read.
AskedIsCurrent ==
    \A s \in Streams :
        phase[s] = "asked" /\ job \in Events /\ feed = <<>>
            => answer[s] = Shows(job) \/ job \in missed[s]

\* Nobody is connected without being registered.
RegistryInv == online \subseteq connections

\* What the listener saved is the outcome of the job.
SavedInv ==
    /\ settling # "none" => job \in Outcomes
    /\ settling = "saved" => row = Result

IInv ==
    /\ TypeOK
    /\ WaitingInv
    /\ FeedInv
    /\ AnswerInv
    /\ AskedIsCurrent
    /\ RegistryInv
    /\ SavedInv
    /\ OutcomeIsTold
    /\ OpenIsCurrent

=============================================================================
