----------------------------- MODULE JobQueue_proofs -----------------------------
(***************************************************************************)
(* Proofs about JobQueue, for any number of jobs, attempts, retries and    *)
(* slots: a retried enqueue does not run a job twice, a cancelled job does *)
(* not run, and a worker that stopped has left nothing half run unless its *)
(* close raised.                                                           *)
(***************************************************************************)
EXTENDS JobQueueInvariants, TLAPS

\* Nothing is queued at first.
LEMMA InitInv == Init => IInv
<1> SUFFICES ASSUME Init PROVE IInv
  OBVIOUS
<1> USE LimitsAssumption DEF Init, NoEntry
<1>1. TypeOK
  BY DEF TypeOK, States, Running
<1>2. StopDrains /\ CancelledIsIdle /\ CallsInOrder
  BY DEF StopDrains, CancelledIsIdle, CallsInOrder, Running
<1>3. Accounts /\ RunsBounded
  BY DEF Accounts, RunsBounded
<1>4. QED
  BY <1>1, <1>2, <1>3 DEF IInv

\* Every step keeps the types; only a job with attempts left is run.
LEMMA TypeStep == IInv /\ [Next]_vars => TypeOK'
<1> SUFFICES ASSUME IInv, [Next]_vars PROVE TypeOK'
  OBVIOUS
<1> USE LimitsAssumption DEF TypeOK, States, Accounts, IInv, StopDrains, Running
<1>1. ASSUME NEW j \in Jobs, Enqueue(j) PROVE TypeOK'
  BY <1>1 DEF Enqueue, Call, service, counters
<1>2. ASSUME NEW j \in Jobs, AddAnswered(j) PROVE TypeOK'
  BY <1>2 DEF AddAnswered, Add, Call, NoEntry, service, counters
<1>3. ASSUME NEW j \in Jobs, AddCut(j) PROVE TypeOK'
  <2>1. entry' \in [Jobs -> [state : States, failures : 0..MaxAttempts]]
    BY <1>3 DEF AddCut, Add, NoEntry
  <2>2. retries' \in [Jobs -> 0..MaxRetries] /\ call' \in [Jobs -> {"idle", "adding", "queued", "rejected"}]
    <3>1. CASE retries[j] < MaxRetries
      BY <1>3, <3>1 DEF AddCut
    <3>2. CASE ~(retries[j] < MaxRetries)
      BY <1>3, <3>2 DEF AddCut, Call
    <3>3. QED
      BY <3>1, <3>2
  <2>3. QED
    BY <1>3, <2>1, <2>2 DEF AddCut, service, counters
<1>4. ASSUME NEW j \in Jobs, AddFails(j) PROVE TypeOK'
  BY <1>4 DEF AddFails, Add, Call, NoEntry, service, counters
<1>5. ASSUME NEW j \in Jobs, CancelFind(j) PROVE TypeOK'
  BY <1>5 DEF CancelFind, Cancelling, service, counters
<1>6. ASSUME NEW j \in Jobs, CancelRead(j) PROVE TypeOK'
  BY <1>6 DEF CancelRead, Cancelling, service, counters
<1>7. ASSUME NEW j \in Jobs, CancelRemove(j) PROVE TypeOK'
  <2>1. entry' \in [Jobs -> [state : States, failures : 0..MaxAttempts]]
    BY <1>7 DEF CancelRemove, NoEntry
  <2>2. cancel' \in [Jobs -> {"idle", "found", "removing", "removed", "refused", "raised"}]
    BY <1>7 DEF CancelRemove, Cancelling
  <2>3. QED
    BY <1>7, <2>1, <2>2 DEF CancelRemove, service, counters
<1>8. ASSUME NEW j \in Jobs, Evict(j) PROVE TypeOK'
  BY <1>8 DEF Evict, NoEntry, Settled, service, counters
<1>9. ASSUME NEW j \in Jobs, Take(j) PROVE TypeOK'
  BY <1>9 DEF Take, service, counters
<1>10. ASSUME NEW j \in Jobs, ReportStart(j) PROVE TypeOK'
  BY <1>10 DEF ReportStart, service, counters
<1>11. ASSUME NEW j \in Jobs, Process(j) PROVE TypeOK'
  BY <1>11 DEF Process, service, counters
<1>12. ASSUME NEW j \in Jobs, ReportEnd(j) PROVE TypeOK'
  BY <1>12 DEF ReportEnd, Over, service, counters
<1>13. ASSUME NEW j \in Jobs, RunFails(j) PROVE TypeOK'
  BY <1>13 DEF RunFails, Over, service, counters
<1>14. ASSUME NEW j \in Jobs, Backoff(j) PROVE TypeOK'
  BY <1>14 DEF Backoff, service, counters
<1>15. CASE Start
  BY <1>15 DEF Start, Running, service, counters
<1>16. CASE Stop
  BY <1>16 DEF Stop, Running, service, counters
<1>17. CASE Stopped
  BY <1>17 DEF Stopped, Running, service, counters
<1>18. CASE CloseRaises
  BY <1>18 DEF CloseRaises, Running, counters
<1>19. CASE UNCHANGED vars
  BY <1>19 DEF vars, service, counters, Running
<1>20. QED
  BY <1>1, <1>2, <1>3, <1>4, <1>5, <1>6, <1>7, <1>8, <1>9, <1>10, <1>11, <1>12, <1>13, <1>14, <1>15, <1>16, <1>17, <1>18, <1>19 DEF Next, AddEnds, RunStep

\* The worker and the queue agree on what is active, and what still runs
\* under a stopped service is what a close that raised left behind.
LEMMA DrainsStep == IInv /\ [Next]_vars => StopDrains'
<1> SUFFICES ASSUME IInv, [Next]_vars PROVE StopDrains'
  OBVIOUS
<1> USE DEF IInv, TypeOK, StopDrains, Running
<1>1. ASSUME NEW j \in Jobs, Enqueue(j) PROVE StopDrains'
  BY <1>1 DEF Enqueue, Call, service, counters
<1>2. ASSUME NEW j \in Jobs, AddAnswered(j) PROVE StopDrains'
  BY <1>2 DEF AddAnswered, Add, Call, NoEntry, service, counters
<1>3. ASSUME NEW j \in Jobs, AddCut(j) PROVE StopDrains'
  BY <1>3 DEF AddCut, Add, Call, NoEntry, service, counters
<1>4. ASSUME NEW j \in Jobs, AddFails(j) PROVE StopDrains'
  BY <1>4 DEF AddFails, Add, Call, NoEntry, service, counters
<1>5. ASSUME NEW j \in Jobs, CancelFind(j) PROVE StopDrains'
  BY <1>5 DEF CancelFind, Cancelling, service, counters
<1>6. ASSUME NEW j \in Jobs, CancelRead(j) PROVE StopDrains'
  BY <1>6 DEF CancelRead, Cancelling, service, counters
<1>7. ASSUME NEW j \in Jobs, CancelRemove(j) PROVE StopDrains'
  BY <1>7 DEF CancelRemove, Cancelling, NoEntry, service, counters
<1>8. ASSUME NEW j \in Jobs, Evict(j) PROVE StopDrains'
  BY <1>8 DEF Evict, NoEntry, Settled, service, counters
<1>9. ASSUME NEW j \in Jobs, Take(j) PROVE StopDrains'
  BY <1>9 DEF Take, service, counters
<1>10. ASSUME NEW j \in Jobs, ReportStart(j) PROVE StopDrains'
  BY <1>10 DEF ReportStart, service, counters
<1>11. ASSUME NEW j \in Jobs, Process(j) PROVE StopDrains'
  BY <1>11 DEF Process, service, counters
<1>12. ASSUME NEW j \in Jobs, ReportEnd(j) PROVE StopDrains'
  BY <1>12 DEF ReportEnd, Over, service, counters
<1>13. ASSUME NEW j \in Jobs, RunFails(j) PROVE StopDrains'
  BY <1>13 DEF RunFails, Over, service, counters
<1>14. ASSUME NEW j \in Jobs, Backoff(j) PROVE StopDrains'
  BY <1>14 DEF Backoff, service, counters
<1>15. CASE Start
  BY <1>15 DEF Start, Running, service, counters
<1>16. CASE Stop
  BY <1>16 DEF Stop, Running, service, counters
<1>17. CASE Stopped
  BY <1>17 DEF Stopped, Running, service, counters
<1>18. CASE CloseRaises
  BY <1>18 DEF CloseRaises, Running, counters
<1>19. CASE UNCHANGED vars
  BY <1>19 DEF vars, service, counters, Running
<1>20. QED
  BY <1>1, <1>2, <1>3, <1>4, <1>5, <1>6, <1>7, <1>8, <1>9, <1>10, <1>11, <1>12, <1>13, <1>14, <1>15, <1>16, <1>17, <1>18, <1>19 DEF Next, AddEnds, RunStep

\* Only a job that is not locked is removed, and none comes back.
LEMMA CancelledStep == IInv /\ [Next]_vars => CancelledIsIdle'
<1> SUFFICES ASSUME IInv, [Next]_vars PROVE CancelledIsIdle'
  OBVIOUS
<1> USE DEF IInv, TypeOK, CancelledIsIdle, StopDrains, CallsInOrder, NoEntry
<1>1. ASSUME NEW j \in Jobs, Enqueue(j) PROVE CancelledIsIdle'
  BY <1>1 DEF Enqueue, Call, service, counters
<1>2. ASSUME NEW j \in Jobs, AddAnswered(j) PROVE CancelledIsIdle'
  BY <1>2 DEF AddAnswered, Add, Call, NoEntry, service, counters
<1>3. ASSUME NEW j \in Jobs, AddCut(j) PROVE CancelledIsIdle'
  BY <1>3 DEF AddCut, Add, Call, NoEntry, service, counters
<1>4. ASSUME NEW j \in Jobs, AddFails(j) PROVE CancelledIsIdle'
  BY <1>4 DEF AddFails, Add, Call, NoEntry, service, counters
<1>5. ASSUME NEW j \in Jobs, CancelFind(j) PROVE CancelledIsIdle'
  BY <1>5 DEF CancelFind, Cancelling, service, counters
<1>6. ASSUME NEW j \in Jobs, CancelRead(j) PROVE CancelledIsIdle'
  BY <1>6 DEF CancelRead, Cancelling, service, counters
<1>7. ASSUME NEW j \in Jobs, CancelRemove(j) PROVE CancelledIsIdle'
  BY <1>7 DEF CancelRemove, Cancelling, NoEntry, service, counters
<1>8. ASSUME NEW j \in Jobs, Evict(j) PROVE CancelledIsIdle'
  BY <1>8 DEF Evict, NoEntry, Settled, service, counters
<1>9. ASSUME NEW j \in Jobs, Take(j) PROVE CancelledIsIdle'
  BY <1>9 DEF Take, service, counters
<1>10. ASSUME NEW j \in Jobs, ReportStart(j) PROVE CancelledIsIdle'
  BY <1>10 DEF ReportStart, service, counters
<1>11. ASSUME NEW j \in Jobs, Process(j) PROVE CancelledIsIdle'
  BY <1>11 DEF Process, service, counters
<1>12. ASSUME NEW j \in Jobs, ReportEnd(j) PROVE CancelledIsIdle'
  BY <1>12 DEF ReportEnd, Over, service, counters
<1>13. ASSUME NEW j \in Jobs, RunFails(j) PROVE CancelledIsIdle'
  BY <1>13 DEF RunFails, Over, service, counters
<1>14. ASSUME NEW j \in Jobs, Backoff(j) PROVE CancelledIsIdle'
  BY <1>14 DEF Backoff, service, counters
<1>15. CASE Start
  BY <1>15 DEF Start, Running, service, counters
<1>16. CASE Stop
  BY <1>16 DEF Stop, Running, service, counters
<1>17. CASE Stopped
  BY <1>17 DEF Stopped, Running, service, counters
<1>18. CASE CloseRaises
  BY <1>18 DEF CloseRaises, Running, counters
<1>19. CASE UNCHANGED vars
  BY <1>19 DEF vars, service, counters, Running
<1>20. QED
  BY <1>1, <1>2, <1>3, <1>4, <1>5, <1>6, <1>7, <1>8, <1>9, <1>10, <1>11, <1>12, <1>13, <1>14, <1>15, <1>16, <1>17, <1>18, <1>19 DEF Next, AddEnds, RunStep

\* A call is made before its job is queued, and ends before it is cancelled.
LEMMA CallsStep == IInv /\ [Next]_vars => CallsInOrder'
<1> SUFFICES ASSUME IInv, [Next]_vars PROVE CallsInOrder'
  OBVIOUS
<1> USE DEF IInv, TypeOK, StopDrains, CallsInOrder, Settled, NoEntry
<1>1. ASSUME NEW j \in Jobs, Enqueue(j) PROVE CallsInOrder'
  BY <1>1 DEF Enqueue, Call, service, counters
<1>2. ASSUME NEW j \in Jobs, AddAnswered(j) PROVE CallsInOrder'
  BY <1>2 DEF AddAnswered, Add, Call, NoEntry, service, counters
<1>3. ASSUME NEW j \in Jobs, AddCut(j) PROVE CallsInOrder'
  <2>1. cancel[j] = "idle" /\ call[j] = "adding"
    BY <1>3 DEF AddCut
  <2>2. call' \in {call, [call EXCEPT ![j] = "rejected"]} /\ cancel' = cancel
    BY <1>3 DEF AddCut, Call
  <2>3. \A k \in Jobs \ {j} : entry'[k] = entry[k] /\ call'[k] = call[k]
    BY <1>3, <2>2 DEF AddCut, Add
  <2>4. call'[j] # "idle" /\ cancel'[j] = "idle"
    BY <2>1, <2>2
  <2>5. QED
    BY <2>2, <2>3, <2>4
<1>4. ASSUME NEW j \in Jobs, AddFails(j) PROVE CallsInOrder'
  BY <1>4 DEF AddFails, Add, Call, NoEntry, service, counters
<1>5. ASSUME NEW j \in Jobs, CancelFind(j) PROVE CallsInOrder'
  BY <1>5 DEF CancelFind, Cancelling, service, counters
<1>6. ASSUME NEW j \in Jobs, CancelRead(j) PROVE CallsInOrder'
  BY <1>6 DEF CancelRead, Cancelling, service, counters
<1>7. ASSUME NEW j \in Jobs, CancelRemove(j) PROVE CallsInOrder'
  BY <1>7 DEF CancelRemove, Cancelling, NoEntry, service, counters
<1>8. ASSUME NEW j \in Jobs, Evict(j) PROVE CallsInOrder'
  BY <1>8 DEF Evict, NoEntry, Settled, service, counters
<1>9. ASSUME NEW j \in Jobs, Take(j) PROVE CallsInOrder'
  BY <1>9 DEF Take, service, counters
<1>10. ASSUME NEW j \in Jobs, ReportStart(j) PROVE CallsInOrder'
  BY <1>10 DEF ReportStart, service, counters
<1>11. ASSUME NEW j \in Jobs, Process(j) PROVE CallsInOrder'
  BY <1>11 DEF Process, service, counters
<1>12. ASSUME NEW j \in Jobs, ReportEnd(j) PROVE CallsInOrder'
  BY <1>12 DEF ReportEnd, Over, service, counters
<1>13. ASSUME NEW j \in Jobs, RunFails(j) PROVE CallsInOrder'
  BY <1>13 DEF RunFails, Over, service, counters
<1>14. ASSUME NEW j \in Jobs, Backoff(j) PROVE CallsInOrder'
  BY <1>14 DEF Backoff, service, counters
<1>15. CASE Start
  BY <1>15 DEF Start, Running, service, counters
<1>16. CASE Stop
  BY <1>16 DEF Stop, Running, service, counters
<1>17. CASE Stopped
  BY <1>17 DEF Stopped, Running, service, counters
<1>18. CASE CloseRaises
  BY <1>18 DEF CloseRaises, Running, counters
<1>19. CASE UNCHANGED vars
  BY <1>19 DEF vars, service, counters, Running
<1>20. QED
  BY <1>1, <1>2, <1>3, <1>4, <1>5, <1>6, <1>7, <1>8, <1>9, <1>10, <1>11, <1>12, <1>13, <1>14, <1>15, <1>16, <1>17, <1>18, <1>19 DEF Next, AddEnds, RunStep

\* The runs and the successes of a job follow from its entry.
LEMMA AccountsStep == IInv /\ [Next]_vars => Accounts'
<1> SUFFICES ASSUME IInv, [Next]_vars PROVE Accounts'
  OBVIOUS
<1> USE LimitsAssumption DEF IInv, TypeOK, StopDrains, Accounts, CallsInOrder, States
<1>1. ASSUME NEW j \in Jobs, Enqueue(j) PROVE Accounts'
  BY <1>1 DEF Enqueue, Call, service, counters
<1>2. ASSUME NEW j \in Jobs, AddAnswered(j) PROVE Accounts'
  BY <1>2 DEF AddAnswered, Add, Call, NoEntry, service, counters
<1>3. ASSUME NEW j \in Jobs, AddCut(j) PROVE Accounts'
  BY <1>3 DEF AddCut, Add, Call, NoEntry, service, counters
<1>4. ASSUME NEW j \in Jobs, AddFails(j) PROVE Accounts'
  BY <1>4 DEF AddFails, Add, Call, NoEntry, service, counters
<1>5. ASSUME NEW j \in Jobs, CancelFind(j) PROVE Accounts'
  BY <1>5 DEF CancelFind, Cancelling, service, counters
<1>6. ASSUME NEW j \in Jobs, CancelRead(j) PROVE Accounts'
  BY <1>6 DEF CancelRead, Cancelling, service, counters
<1>7. ASSUME NEW j \in Jobs, CancelRemove(j) PROVE Accounts'
  BY <1>7 DEF CancelRemove, Cancelling, NoEntry, service, counters
<1>8. ASSUME NEW j \in Jobs, Evict(j) PROVE Accounts'
  BY <1>8 DEF Evict, NoEntry, Settled, service, counters
<1>9. ASSUME NEW j \in Jobs, Take(j) PROVE Accounts'
  BY <1>9 DEF Take, service, counters
<1>10. ASSUME NEW j \in Jobs, ReportStart(j) PROVE Accounts'
  BY <1>10 DEF ReportStart, service, counters
<1>11. ASSUME NEW j \in Jobs, Process(j) PROVE Accounts'
  BY <1>11 DEF Process, service, counters
<1>12. ASSUME NEW j \in Jobs, ReportEnd(j) PROVE Accounts'
  BY <1>12 DEF ReportEnd, Over, service, counters
<1>13. ASSUME NEW j \in Jobs, RunFails(j) PROVE Accounts'
  BY <1>13 DEF RunFails, Over, service, counters
<1>14. ASSUME NEW j \in Jobs, Backoff(j) PROVE Accounts'
  BY <1>14 DEF Backoff, service, counters
<1>15. CASE Start
  BY <1>15 DEF Start, Running, service, counters
<1>16. CASE Stop
  BY <1>16 DEF Stop, Running, service, counters
<1>17. CASE Stopped
  BY <1>17 DEF Stopped, Running, service, counters
<1>18. CASE CloseRaises
  BY <1>18 DEF CloseRaises, Running, counters
<1>19. CASE UNCHANGED vars
  BY <1>19 DEF vars, service, counters, Running
<1>20. QED
  BY <1>1, <1>2, <1>3, <1>4, <1>5, <1>6, <1>7, <1>8, <1>9, <1>10, <1>11, <1>12, <1>13, <1>14, <1>15, <1>16, <1>17, <1>18, <1>19 DEF Next, AddEnds, RunStep

\* No job is run more often than it may be.
LEMMA RunsStep == IInv /\ [Next]_vars => RunsBounded'
<1> SUFFICES ASSUME IInv, [Next]_vars PROVE RunsBounded'
  OBVIOUS
<1> USE LimitsAssumption DEF IInv, TypeOK, StopDrains, Accounts, RunsBounded
<1>1. ASSUME NEW j \in Jobs, Enqueue(j) PROVE RunsBounded'
  BY <1>1 DEF Enqueue, Call, service, counters
<1>2. ASSUME NEW j \in Jobs, AddAnswered(j) PROVE RunsBounded'
  BY <1>2 DEF AddAnswered, Add, Call, NoEntry, service, counters
<1>3. ASSUME NEW j \in Jobs, AddCut(j) PROVE RunsBounded'
  BY <1>3 DEF AddCut, Add, Call, NoEntry, service, counters
<1>4. ASSUME NEW j \in Jobs, AddFails(j) PROVE RunsBounded'
  BY <1>4 DEF AddFails, Add, Call, NoEntry, service, counters
<1>5. ASSUME NEW j \in Jobs, CancelFind(j) PROVE RunsBounded'
  BY <1>5 DEF CancelFind, Cancelling, service, counters
<1>6. ASSUME NEW j \in Jobs, CancelRead(j) PROVE RunsBounded'
  BY <1>6 DEF CancelRead, Cancelling, service, counters
<1>7. ASSUME NEW j \in Jobs, CancelRemove(j) PROVE RunsBounded'
  BY <1>7 DEF CancelRemove, Cancelling, NoEntry, service, counters
<1>8. ASSUME NEW j \in Jobs, Evict(j) PROVE RunsBounded'
  BY <1>8 DEF Evict, NoEntry, Settled, service, counters
<1>9. ASSUME NEW j \in Jobs, Take(j) PROVE RunsBounded'
  BY <1>9 DEF Take, service, counters
<1>10. ASSUME NEW j \in Jobs, ReportStart(j) PROVE RunsBounded'
  BY <1>10 DEF ReportStart, service, counters
<1>11. ASSUME NEW j \in Jobs, Process(j) PROVE RunsBounded'
  BY <1>11 DEF Process, service, counters
<1>12. ASSUME NEW j \in Jobs, ReportEnd(j) PROVE RunsBounded'
  BY <1>12 DEF ReportEnd, Over, service, counters
<1>13. ASSUME NEW j \in Jobs, RunFails(j) PROVE RunsBounded'
  BY <1>13 DEF RunFails, Over, service, counters
<1>14. ASSUME NEW j \in Jobs, Backoff(j) PROVE RunsBounded'
  BY <1>14 DEF Backoff, service, counters
<1>15. CASE Start
  BY <1>15 DEF Start, Running, service, counters
<1>16. CASE Stop
  BY <1>16 DEF Stop, Running, service, counters
<1>17. CASE Stopped
  BY <1>17 DEF Stopped, Running, service, counters
<1>18. CASE CloseRaises
  BY <1>18 DEF CloseRaises, Running, counters
<1>19. CASE UNCHANGED vars
  BY <1>19 DEF vars, service, counters, Running
<1>20. QED
  BY <1>1, <1>2, <1>3, <1>4, <1>5, <1>6, <1>7, <1>8, <1>9, <1>10, <1>11, <1>12, <1>13, <1>14, <1>15, <1>16, <1>17, <1>18, <1>19 DEF Next, AddEnds, RunStep

-----------------------------------------------------------------------------
(* The theorems.                                                           *)

\* The strengthened invariant holds in every state.
THEOREM Invariance == Spec => []IInv
<1>1. IInv /\ [Next]_vars => IInv'
  BY TypeStep, DrainsStep, CancelledStep, CallsStep, AccountsStep, RunsStep DEF IInv
<1>2. QED
  BY InitInv, <1>1, PTL DEF Spec

\* The state of the queue, of its callers and of the worker is of its type.
THEOREM TypeCorrect == Spec => []TypeOK
<1>1. IInv => TypeOK
  BY DEF IInv
<1>2. QED
  BY Invariance, <1>1, PTL

\* However often an add is retried, its job runs at most as often as one job
\* may, and a completed one is not processed again.
THEOREM RetriesAreHarmless == Spec => []RunsBounded
<1>1. IInv => RunsBounded
  BY DEF IInv
<1>2. QED
  BY Invariance, <1>1, PTL

\* A job whose cancel returned true is not run, then or later.
THEOREM CancelledStaysIdle == Spec => []CancelledIsIdle
<1>1. IInv => CancelledIsIdle
  BY DEF IInv
<1>2. QED
  BY Invariance, <1>1, PTL

\* A service that says it stopped has left no job half run but those its
\* worker had when a close raised.
THEOREM StoppingDrains == Spec => []StopDrains
<1>1. IInv => StopDrains
  BY DEF IInv
<1>2. QED
  BY Invariance, <1>1, PTL

=============================================================================
