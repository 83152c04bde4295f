---------------------------- MODULE JobEvents_proofs ----------------------------
(***************************************************************************)
(* Proofs about JobEvents, for any number of streams, watchers and         *)
(* attempts: what a stream tells is true, and the only way it can miss     *)
(* something is the gap between its snapshot and its subscription.         *)
(***************************************************************************)
EXTENDS JobEventsInvariants, SequenceTheorems, TLAPS

-----------------------------------------------------------------------------
(* The feed.                                                               *)

\* Publishing adds a last event, and leaves the others where they are.
LEMMA PublishEffect ==
    ASSUME NEW q \in Seq(Events), NEW e \in Events
    PROVE  LET p == Append(q, e)
           IN  /\ p \in Seq(Events) /\ p # <<>>
               /\ Len(p) = Len(q) + 1
               /\ p[Len(p)] = e
               /\ \A i \in 1 .. Len(q) : p[i] = q[i]
BY AppendProperties

\* Delivering takes the first event away: the others move up, and the last one
\* stays the last.
LEMMA DeliverEffect ==
    ASSUME NEW q \in Seq(Events), q # <<>>
    PROVE  LET p == Tail(q)
           IN  /\ Head(q) \in Events /\ Head(q) = q[1]
               /\ p \in Seq(Events)
               /\ Len(p) = Len(q) - 1
               /\ \A i \in 1 .. Len(p) : i + 1 \in 1 .. Len(q) /\ p[i] = q[i + 1]
               /\ p = <<>> => Len(q) = 1
               /\ p # <<>> => p[Len(p)] = q[Len(q)]
<1>1. Len(q) \in Nat \ {0} /\ Head(q) = q[1] /\ Head(q) \in Events
  BY EmptySeq, LenProperties, HeadTailProperties, ElementOfSeq
<1>2. Tail(q) \in Seq(Events) /\ Len(Tail(q)) = Len(q) - 1
      /\ \A i \in 1 .. Len(Tail(q)) : Tail(q)[i] = q[i + 1]
  BY HeadTailProperties
<1>3. Tail(q) = <<>> => Len(q) = 1
  BY <1>1, <1>2
<1>4. Tail(q) # <<>> => Len(Tail(q)) \in 1 .. Len(Tail(q))
  BY <1>2, EmptySeq, LenProperties
<1>5. QED
  BY <1>1, <1>2, <1>3, <1>4

-----------------------------------------------------------------------------
(* Types.                                                                  *)

\* The statuses that a stream can send.
LEMMA StatusTyped ==
    ASSUME job \in {"unknown", "waiting", "active"} \cup Outcomes
    PROVE  /\ Status(job) \in Statuses \cup {"none"}
           /\ Status(job) \in Outcomes => Status(job) = job
           /\ job \in Events => Status(job) = Shows(job)
BY DEF Status, Shows, Statuses, Outcomes, Events

LEMMA ShowsTyped ==
    ASSUME NEW e \in Events
    PROVE  /\ Shows(e) \in Statuses
           /\ e \in Outcomes => Shows(e) = e
           /\ e \notin Outcomes => Shows(e) = "processing" /\ "processing" \notin Outcomes
BY DEF Shows, Statuses, Outcomes, Events

\* Nothing has happened at first.
LEMMA InitInv == Init => IInv
<1> SUFFICES ASSUME Init PROVE IInv
  OBVIOUS
<1>1. TypeOK
  BY AttemptsAssumption DEF Init, TypeOK, Statuses
<1>2. WaitingInv
  BY AttemptsAssumption DEF Init, WaitingInv
<1>3. FeedInv /\ AnswerInv /\ AskedIsCurrent /\ OutcomeIsTold /\ OpenIsCurrent
  BY DEF Init, FeedInv, AnswerInv, AskedIsCurrent, OutcomeIsTold, OpenIsCurrent, Outcomes, Events
<1>4. RegistryInv /\ SavedInv
  BY DEF Init, RegistryInv, SavedInv
<1>5. QED
  BY <1>1, <1>2, <1>3, <1>4 DEF IInv

\* Every step keeps the types.
LEMMA TypeStep == TypeOK /\ WaitingInv /\ [Next]_vars => TypeOK'
<1> SUFFICES ASSUME TypeOK, WaitingInv, [Next]_vars PROVE TypeOK'
  OBVIOUS
<1> USE DEF TypeOK, jobVars, streamVars, syncVars, watcherVars
<1>1. CASE JobStarts
  <2>1. attempts' \in 0 .. MaxAttempts
    BY <1>1, AttemptsAssumption DEF JobStarts, WaitingInv
  <2>2. feed' \in Seq(Events)
    BY <1>1, PublishEffect DEF JobStarts, Events
  <2>3. QED
    BY <1>1, <2>1, <2>2 DEF JobStarts
<1>2. CASE JobRetries
  BY <1>2 DEF JobRetries
<1>3. CASE JobSettles
  <2>1. job' \in Outcomes /\ feed' \in Seq(Events)
    BY <1>3, PublishEffect DEF JobSettles, Events
  <2>2. QED
    BY <1>3, <2>1 DEF JobSettles
<1>4. ASSUME NEW s \in Streams, Stream(s) PROVE TypeOK'
  <2>1. CASE StreamReads(s)
    BY <2>1, StatusTyped DEF StreamReads
  <2>2. CASE StreamAnswers(s)
    BY <2>2 DEF StreamAnswers
  <2>3. CASE StreamThrows(s) \/ StreamCloses(s)
    BY <2>3 DEF StreamThrows, StreamCloses
  <2>4. QED
    BY <1>4, <2>1, <2>2, <2>3 DEF Stream
<1>5. CASE Deliver
  <2>1. Head(feed) \in Events /\ feed' \in Seq(Events)
    BY <1>5, DeliverEffect DEF Deliver
  <2>2. Shows(Head(feed)) \in Statuses
    BY <2>1, ShowsTyped
  <2>3. shown' \in [Streams -> Statuses \cup {"none"}]
        /\ phase' \in [Streams -> {"idle", "asked", "open", "ended"}]
    BY <1>5, <2>2 DEF Deliver, Forward
  <2>4. missed' \in [Streams -> SUBSET Events]
    BY <1>5, <2>1 DEF Deliver
  <2>5. starting' \in Nat /\ settling' \in {"none", "loading", "saved", "done", "lost"}
    BY <1>5 DEF Deliver, Begin
  <2>6. QED
    BY <1>5, <2>1, <2>3, <2>4, <2>5 DEF Deliver
<1>6. CASE Listener
  BY <1>6 DEF Listener, NotifyStart, NotifyStartFails, SaveOutcome, NotifyOutcome,
     SettleFails, Emit, Result
<1>7. ASSUME NEW w \in Watchers, Subscribe(w) \/ Leave(w) PROVE TypeOK'
  BY <1>7 DEF Subscribe, Leave, Remove
<1>8. CASE UNCHANGED vars
  BY <1>8 DEF vars
<1>9. QED
  BY <1>1, <1>2, <1>3, <1>4, <1>5, <1>6, <1>7, <1>8 DEF Next, Job

-----------------------------------------------------------------------------
(* The job and its events.                                                 *)

\* Attempts are counted when they start.
LEMMA WaitingStep == WaitingInv /\ [Next]_vars => WaitingInv'
BY DEF WaitingInv, Next, vars, Job, JobStarts, JobRetries, JobSettles, Deliver, Listener,
   NotifyStart, NotifyStartFails, SaveOutcome, NotifyOutcome, SettleFails, Stream,
   StreamReads, StreamAnswers, StreamThrows, StreamCloses, Subscribe, Leave, jobVars, Outcomes

\* All other steps leave the job and its feed alone.
LEMMA FeedFrame ==
    ASSUME [Next]_vars, ~Job, ~Deliver
    PROVE  UNCHANGED <<job, feed, missed>>
BY DEF Next, vars, Listener, NotifyStart, NotifyStartFails, SaveOutcome, NotifyOutcome,
   SettleFails, Stream, StreamReads, StreamAnswers, StreamThrows, StreamCloses, Subscribe,
   Leave, jobVars, streamVars

\* A settled job has published its last event.
LEMMA FeedStep == TypeOK /\ FeedInv /\ [Next]_vars => FeedInv'
<1> SUFFICES ASSUME TypeOK, FeedInv, [Next]_vars PROVE FeedInv'
  OBVIOUS
<1>1. feed \in Seq(Events) /\ Len(feed) \in Nat
  BY LenProperties DEF TypeOK
<1>2. job \notin Outcomes => \A i \in 1 .. Len(feed) : feed[i] \notin Outcomes
  BY DEF FeedInv
<1>3. CASE JobStarts \/ JobSettles
  <2>1. PICK e \in Events : job' = e /\ feed' = Append(feed, e)
    BY <1>3 DEF JobStarts, JobSettles, Events
  <2>2. job \notin Outcomes
    BY <1>3 DEF JobStarts, JobSettles, Outcomes
  <2>3. Len(feed') = Len(feed) + 1 /\ feed'[Len(feed')] = e
        /\ \A i \in 1 .. Len(feed) : feed'[i] = feed[i]
    BY <1>1, <2>1, PublishEffect
  <2>4. ASSUME NEW i \in 1 .. Len(feed'), feed'[i] \in Outcomes PROVE i = Len(feed')
    <3>1. i \notin 1 .. Len(feed)
      BY <1>2, <2>2, <2>3, <2>4
    <3>2. QED
      BY <1>1, <2>3, <3>1
  <2>5. QED
    BY <2>1, <2>3, <2>4 DEF FeedInv
<1>4. CASE JobRetries
  <2>1. job = "active" /\ job' = "waiting" /\ feed' = feed
    BY <1>4 DEF JobRetries
  <2>2. QED
    BY <1>2, <2>1 DEF FeedInv, Outcomes, Events
<1>5. CASE Deliver
  <2>1. job' = job /\ feed' = Tail(feed) /\ feed # <<>>
    BY <1>5 DEF Deliver, jobVars
  <2>2. /\ Len(feed') = Len(feed) - 1
        /\ \A i \in 1 .. Len(feed') : i + 1 \in 1 .. Len(feed) /\ feed'[i] = feed[i + 1]
        /\ feed' # <<>> => feed'[Len(feed')] = feed[Len(feed)]
    BY <1>1, <2>1, DeliverEffect
  <2>3. ASSUME NEW i \in 1 .. Len(feed'), feed'[i] \in Outcomes
        PROVE  i = Len(feed') /\ feed'[i] = job'
    <3>1. i + 1 = Len(feed) /\ feed[i + 1] = job
      BY <2>2, <2>3 DEF FeedInv
    <3>2. i \in Int /\ i = Len(feed')
      BY <1>1, <2>2, <2>3, <3>1
    <3>3. feed'[i] = job'
      BY <2>1, <2>2, <2>3, <3>1
    <3>4. QED
      BY <3>2, <3>3
  <2>4. QED
    BY <2>1, <2>2, <2>3 DEF FeedInv
<1>6. CASE ~Job /\ ~Deliver
  BY <1>6, FeedFrame DEF FeedInv
<1>7. QED
  BY <1>3, <1>4, <1>5, <1>6 DEF Job

\* A delivered outcome is the job's, and the last event of a drained feed is the
\* state the job is in.
LEMMA Delivered ==
    ASSUME TypeOK, FeedInv, Deliver
    PROVE  /\ Head(feed) \in Events
           /\ Head(feed) \in Outcomes => Head(feed) = job
           /\ job \in Events /\ feed' = <<>> => Head(feed) = job
<1>1. feed \in Seq(Events) /\ Len(feed) \in Nat /\ feed # <<>> /\ feed' = Tail(feed)
  BY LenProperties DEF TypeOK, Deliver
<1>2. Head(feed) = feed[1] /\ Head(feed) \in Events /\ Len(feed) # 0
      /\ (feed' = <<>> => Len(feed) = 1)
  BY <1>1, DeliverEffect, EmptySeq
<1>3. QED
  BY <1>1, <1>2 DEF FeedInv

\* A settled job stays as it is.
LEMMA SettledStays == ASSUME [Next]_vars, job \in Outcomes PROVE UNCHANGED job
<1>1. ~JobStarts /\ ~JobRetries /\ ~JobSettles
  BY DEF JobStarts, JobRetries, JobSettles, Outcomes
<1>2. CASE Deliver
  BY <1>2 DEF Deliver, jobVars
<1>3. QED
  BY <1>1, <1>2, FeedFrame DEF Job

-----------------------------------------------------------------------------
(* The streams.                                                            *)

\* What a snapshot has read of a settled job stays right.
LEMMA AnswerStep == TypeOK /\ AnswerInv /\ [Next]_vars => AnswerInv'
<1> SUFFICES ASSUME TypeOK, AnswerInv, [Next]_vars,
                    NEW s \in Streams, answer'[s] \in Outcomes
             PROVE  answer'[s] = job'
  BY DEF AnswerInv
<1>1. answer'[s] = answer[s] \/ (answer'[s] = Status(job) /\ UNCHANGED job)
  BY DEF TypeOK, Next, vars, Job, JobStarts, JobRetries, JobSettles, Deliver, Listener,
     NotifyStart, NotifyStartFails, SaveOutcome, NotifyOutcome, SettleFails, Stream,
     StreamReads, StreamAnswers, StreamThrows, StreamCloses, Subscribe, Leave, streamVars,
     jobVars
<1>2. CASE answer'[s] = answer[s]
  <2>1. answer[s] = job
    BY <1>2 DEF AnswerInv
  <2>2. QED
    BY <1>2, <2>1, SettledStays
<1>3. CASE answer'[s] = Status(job) /\ UNCHANGED job
  BY <1>3, StatusTyped DEF TypeOK
<1>4. QED
  BY <1>1, <1>2, <1>3

\* What a step can do to one stream.
LEMMA StreamEffect ==
    ASSUME TypeOK, [Next]_vars, NEW s \in Streams
    PROVE  \/ UNCHANGED <<phase[s], answer[s], shown[s], missed[s]>> /\ ~Deliver
           \/ Deliver /\ UNCHANGED answer[s]
           \/ /\ phase'[s] = "asked" /\ answer'[s] = Status(job)
              /\ shown'[s] = shown[s] /\ phase[s] = "idle" /\ UNCHANGED <<job, feed>>
           \/ /\ phase[s] = "asked" /\ shown'[s] = answer[s]
              /\ phase'[s] = (IF Final(answer[s]) THEN "ended" ELSE "open")
              /\ UNCHANGED <<job, feed, missed>>
           \/ phase'[s] = "ended" /\ shown'[s] = shown[s] /\ UNCHANGED <<job, feed>>
<1> USE DEF TypeOK
<1>1. CASE Deliver
  BY <1>1 DEF Deliver
<1>2. ASSUME NEW t \in Streams, Stream(t), ~Deliver
      PROVE  \/ UNCHANGED <<phase[s], answer[s], shown[s], missed[s]>>
             \/ /\ phase'[s] = "asked" /\ answer'[s] = Status(job)
                /\ shown'[s] = shown[s] /\ phase[s] = "idle" /\ UNCHANGED <<job, feed>>
             \/ /\ phase[s] = "asked" /\ shown'[s] = answer[s]
                /\ phase'[s] = (IF Final(answer[s]) THEN "ended" ELSE "open")
                /\ UNCHANGED <<job, feed, missed>>
             \/ phase'[s] = "ended" /\ shown'[s] = shown[s] /\ UNCHANGED <<job, feed>>
  BY <1>2 DEF Stream, StreamReads, StreamAnswers, StreamThrows, StreamCloses, jobVars
<1>3. CASE ~Deliver /\ ~\E t \in Streams : Stream(t)
  <2>1. UNCHANGED streamVars
    BY <1>3 DEF Next, vars, Job, JobStarts, JobRetries, JobSettles, Listener, NotifyStart,
       NotifyStartFails, SaveOutcome, NotifyOutcome, SettleFails, Subscribe, Leave
  <2>2. QED
    BY <1>3, <2>1 DEF streamVars
<1>4. QED
  BY <1>1, <1>2, <1>3

\* What a stream has told stays true, and it ends with it.
LEMMA ToldStep ==
    TypeOK /\ FeedInv /\ AnswerInv /\ OutcomeIsTold /\ [Next]_vars => OutcomeIsTold'
<1> SUFFICES ASSUME TypeOK, FeedInv, AnswerInv, OutcomeIsTold, [Next]_vars,
                    NEW s \in Streams, shown'[s] \in Outcomes
             PROVE  phase'[s] = "ended" /\ shown'[s] = job'
  BY DEF OutcomeIsTold
<1>1. shown[s] \in Outcomes => phase[s] = "ended" /\ shown[s] = job /\ UNCHANGED job
  BY SettledStays DEF OutcomeIsTold
<1>2. CASE Deliver
  <2>1. shown'[s] = (IF phase[s] = "open" THEN Shows(Head(feed)) ELSE shown[s])
        /\ phase'[s] = (IF phase[s] = "open" /\ Head(feed) \in Outcomes
                        THEN "ended" ELSE phase[s])
        /\ job' = job
    BY <1>2 DEF Deliver, Forward, jobVars
  <2>2. CASE phase[s] = "open"
    BY <1>2, <2>1, <2>2, Delivered, ShowsTyped
  <2>3. CASE phase[s] # "open"
    BY <1>1, <2>1, <2>3
  <2>4. QED
    BY <2>2, <2>3
<1>3. CASE ~Deliver
  <2>1. CASE shown'[s] = shown[s] /\ phase'[s] = phase[s]
    BY <1>1, <2>1
  <2>2. CASE phase'[s] = "asked" /\ shown'[s] = shown[s] /\ phase[s] = "idle"
    BY <1>1, <2>2
  <2>3. CASE /\ shown'[s] = answer[s] /\ UNCHANGED job
             /\ phase'[s] = (IF Final(answer[s]) THEN "ended" ELSE "open")
    BY <2>3 DEF AnswerInv, Final
  <2>4. CASE phase'[s] = "ended" /\ shown'[s] = shown[s] /\ UNCHANGED job
    BY <1>1, <2>4
  <2>5. QED
    BY <1>3, <2>1, <2>2, <2>3, <2>4, StreamEffect
<1>4. QED
  BY <1>2, <1>3

\* A step that leaves nothing to deliver of a job that has published its state
\* either delivers that state or leaves job and feed alone.
LEMMA Drained ==
    ASSUME TypeOK, FeedInv, [Next]_vars, job' \in Events, feed' = <<>>
    PROVE  \/ Deliver /\ Head(feed) = job' /\ job' = job
           \/ ~Deliver /\ UNCHANGED <<job, feed, missed>>
<1>1. CASE Deliver
  BY <1>1, Delivered DEF Deliver, jobVars
<1>2. ~JobStarts /\ ~JobSettles
  BY PublishEffect DEF JobStarts, JobSettles, Events, TypeOK
<1>3. ~JobRetries
  BY DEF JobRetries, Events, Outcomes
<1>4. QED
  BY <1>1, <1>2, <1>3, FeedFrame DEF Job

\* A snapshot under way is current, or something has come since.
LEMMA AskedStep == TypeOK /\ FeedInv /\ AskedIsCurrent /\ [Next]_vars => AskedIsCurrent'
<1> SUFFICES ASSUME TypeOK, FeedInv, AskedIsCurrent, [Next]_vars, NEW s \in Streams,
                    phase'[s] = "asked", job' \in Events, feed' = <<>>
             PROVE  answer'[s] = Shows(job') \/ job' \in missed'[s]
  BY DEF AskedIsCurrent
<1>1. CASE Deliver
  <2>1. Head(feed) = job'
    BY <1>1, Drained
  <2>2. phase[s] = "asked" /\ missed'[s] = missed[s] \cup {Head(feed)}
    BY <1>1 DEF Deliver, Forward, TypeOK
  <2>3. QED
    BY <2>1, <2>2
<1>2. CASE ~Deliver
  <2>1. UNCHANGED <<job, feed, missed>>
    BY <1>2, Drained
  <2>2. CASE answer'[s] = Status(job)
    BY <2>1, <2>2, StatusTyped DEF TypeOK
  <2>3. CASE UNCHANGED <<phase[s], answer[s]>>
    BY <2>1, <2>3 DEF AskedIsCurrent, Shows
  <2>4. QED
    BY <1>2, <2>2, <2>3, StreamEffect
<1>3. QED
  BY <1>1, <1>2

\* An open stream is current, or something has come before it subscribed.
LEMMA OpenStep ==
    TypeOK /\ FeedInv /\ AskedIsCurrent /\ OpenIsCurrent /\ [Next]_vars => OpenIsCurrent'
<1> SUFFICES ASSUME TypeOK, FeedInv, AskedIsCurrent, OpenIsCurrent, [Next]_vars,
                    NEW s \in Streams, phase'[s] = "open", job' \in Events, feed' = <<>>
             PROVE  shown'[s] = Shows(job') \/ job' \in missed'[s]
  BY DEF OpenIsCurrent
<1>1. CASE Deliver
  <2>1. Head(feed) = job'
    BY <1>1, Drained
  <2>2. phase[s] = "open" /\ shown'[s] = Shows(Head(feed))
    BY <1>1 DEF Deliver, Forward, TypeOK
  <2>3. QED
    BY <2>1, <2>2 DEF Shows
<1>2. CASE ~Deliver
  <2>1. UNCHANGED <<job, feed, missed>>
    BY <1>2, Drained
  <2>2. CASE phase[s] = "asked" /\ shown'[s] = answer[s]
    BY <2>1, <2>2 DEF AskedIsCurrent, Shows
  <2>3. CASE UNCHANGED <<phase[s], shown[s]>>
    BY <2>1, <2>3 DEF OpenIsCurrent, Shows
  <2>4. QED
    BY <1>2, <2>2, <2>3, StreamEffect
<1>3. QED
  BY <1>1, <1>2

-----------------------------------------------------------------------------
(* The listener and the registry.                                          *)

\* Only a response that has been ended is dropped from the user's list.
LEMMA RegistryStep == RegistryInv /\ [Next]_vars => RegistryInv'
BY DEF RegistryInv, Next, vars, Job, JobStarts, JobRetries, JobSettles, Deliver, Listener,
   NotifyStart, NotifyStartFails, SaveOutcome, NotifyOutcome, SettleFails, Stream,
   StreamReads, StreamAnswers, StreamThrows, StreamCloses, Subscribe, Leave, Remove,
   watcherVars

\* The callback runs for the outcome of the job.
LEMMA SavedStep == TypeOK /\ FeedInv /\ SavedInv /\ [Next]_vars => SavedInv'
<1> SUFFICES ASSUME TypeOK, FeedInv, SavedInv, [Next]_vars PROVE SavedInv'
  OBVIOUS
<1>1. CASE Deliver
  <2>1. Head(feed) = "active" \/ Head(feed) = job
    BY <1>1, Delivered DEF Events
  <2>2. job' = job /\ row' = row
        /\ (settling' = settling \/ (settling' = "loading" /\ Head(feed) # "active"))
    BY <1>1 DEF Deliver, Begin, jobVars
  <2>3. Head(feed) # "active" => job \in Outcomes
    BY <1>1, Delivered DEF Events
  <2>4. QED
    BY <2>2, <2>3 DEF SavedInv, Result
<1>2. CASE settling # "none" /\ ~Deliver
  <2>1. job \in Outcomes /\ job' = job
    BY <1>2, SettledStays DEF SavedInv
  <2>2. \/ settling' = "saved" /\ row' = Result
        \/ settling' = settling /\ row' = row
        \/ settling' \in {"done", "lost"}
    BY <1>2 DEF Next, vars, Job, JobStarts, JobRetries, JobSettles, Listener, NotifyStart,
       NotifyStartFails, SaveOutcome, NotifyOutcome, SettleFails, Stream, StreamReads,
       StreamAnswers, StreamThrows, StreamCloses, Subscribe, Leave, syncVars
  <2>3. QED
    BY <2>1, <2>2 DEF SavedInv, Result
<1>3. CASE settling = "none" /\ ~Deliver
  <2>1. settling' = "none"
    BY <1>3 DEF Next, vars, Job, JobStarts, JobRetries, JobSettles, Listener, NotifyStart,
       NotifyStartFails, SaveOutcome, NotifyOutcome, SettleFails, Stream, StreamReads,
       StreamAnswers, StreamThrows, StreamCloses, Subscribe, Leave, syncVars
  <2>2. QED
    BY <2>1 DEF SavedInv
<1>4. QED
  BY <1>1, <1>2, <1>3

-----------------------------------------------------------------------------
(* Theorems.                                                               *)

\* The inductive invariant of the events of a job.
THEOREM EventsInductive == Spec => []IInv
<1>1. IInv /\ [Next]_vars => IInv'
  BY TypeStep, WaitingStep, FeedStep, AnswerStep, AskedStep, RegistryStep, SavedStep,
     ToldStep, OpenStep DEF IInv
<1>2. QED
  BY <1>1, InitInv, PTL DEF Spec

\* Every variable stays within its type.
THEOREM EventsTypeCorrect == Spec => []TypeOK
<1>1. IInv => TypeOK
  BY DEF IInv
<1>2. QED
  BY <1>1, EventsInductive, PTL

\* A stream that tells an outcome tells the job's, and ends.
THEOREM ToldIsTrue == Spec => []OutcomeIsTold
<1>1. IInv => OutcomeIsTold
  BY DEF IInv
<1>2. QED
  BY <1>1, EventsInductive, PTL

\* A stream lags behind its job only through the gap before its subscription.
THEOREM StaleOnlyByGap == Spec => []OpenIsCurrent
<1>1. IInv => OpenIsCurrent
  BY DEF IInv
<1>2. QED
  BY <1>1, EventsInductive, PTL

\* Every connected client is told the outcome when it is saved.
THEOREM OutcomeReachesConnected == Spec => ConnectedAreTold
<1>1. IInv /\ [Next]_vars => [settling = "saved" /\ settling' = "done" =>
                                 \A w \in online : heard'[w] = row]_vars
  <2> SUFFICES ASSUME IInv, [Next]_vars, settling = "saved", settling' = "done",
                      NEW w \in online
               PROVE  heard'[w] = row
    OBVIOUS
  <2>1. NotifyOutcome
    BY DEF Next, vars, Job, JobStarts, JobRetries, JobSettles, Deliver, Begin, Listener,
       NotifyStart, NotifyStartFails, SaveOutcome, SettleFails, Stream, StreamReads,
       StreamAnswers, StreamThrows, StreamCloses, Subscribe, Leave, syncVars
  <2>2. w \in connections /\ w \in Watchers /\ row = Result
    BY DEF IInv, TypeOK, RegistryInv, SavedInv
  <2>3. QED
    BY <2>1, <2>2 DEF NotifyOutcome, Emit
<1>2. QED
  BY <1>1, EventsInductive, PTL DEF Spec, ConnectedAreTold

=============================================================================
