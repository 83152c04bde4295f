------------------------ MODULE DatasetPipeline_proofs ------------------------
(***************************************************************************)
(* Proofs about DatasetPipeline, for every set of requests, every limit    *)
(* and every choice of faults.                                             *)
(***************************************************************************)
EXTENDS DatasetPipelineInvariants, FiniteSetTheorems, TLAPS

\* The initial state satisfies the type and control invariants.
LEMMA InitBase == Init => BaseInv
<1> SUFFICES ASSUME Init PROVE BaseInv
  OBVIOUS
<1> USE RequestsAssumption, LimitsAssumption DEF Init
<1>1. TypeOK
  <2>1. row \in Row /\ copy \in [Requests -> Row] /\ entity \in [Requests -> Row]
    BY DEF Row, Keys, Statuses, Absent
  <2>2. attempts \in [Requests -> 0 .. MaxAttempts] /\ stalls \in [Requests -> 0 .. MaxStalls]
    OBVIOUS
  <2>3. found \subseteq Requests \X Nat /\ IsFiniteSet(found)
    BY FS_EmptySet
  <2>4. QED
    BY <2>1, <2>2, <2>3 DEF TypeOK, Keys, MidWay, Terminal, Settled
<1>2. ControlInv
  BY DEF ControlInv, KindInv, EnqueuedInv, WorkerInv, SyncInv, Settled
<1>3. QED
  BY <1>1, <1>2 DEF BaseInv

-----------------------------------------------------------------------------
(* Type correctness and the control invariant.                             *)

\* What SaveProcessing and the listener write is a row.
LEMMA RowTyped ==
    ASSUME NEW dataset \in Row, NEW s \in Statuses
    PROVE  /\ [dataset EXCEPT !.status = s] \in Row
           /\ [dataset EXCEPT !.status = s].status = s
           /\ [dataset EXCEPT !.status = s].key = dataset.key
BY DEF Row

\* The last save of a use case keeps the type and control invariants.
LEMMA SaveProcessingBase ==
    ASSUME BaseInv, NEW r \in Requests, SaveProcessing(r)
    PROVE  BaseInv'
<1> USE RequestsAssumption, LimitsAssumption
     DEF BaseInv, TypeOK, ControlInv, KindInv, EnqueuedInv, WorkerInv, SyncInv, Keys,
         Statuses, MidWay, Terminal, Settled, Exists, vars, storageVars, tableVars,
         requestVars, queueVars, syncVars
<1>1. row' \in Row
  <2>1. copy[r] \in Row /\ "PROCESSING" \in Statuses
    OBVIOUS
  <2>2. QED
    BY <2>1, RowTyped DEF SaveProcessing
<1>2. QED
  BY <1>1 DEF SaveProcessing, Go

\* So does the enqueue all three use cases share.
LEMMA EnqueueBase ==
    ASSUME BaseInv, NEW r \in Requests, Enqueue(r)
    PROVE  BaseInv'
<1> USE RequestsAssumption, LimitsAssumption
     DEF BaseInv, TypeOK, ControlInv, KindInv, EnqueuedInv, WorkerInv, SyncInv, Keys,
         Statuses, MidWay, Terminal, Settled, Exists, vars, storageVars, tableVars,
         requestVars, queueVars, syncVars
<1>1. copy[r].key \in Keys
  BY DEF Row
<1>2. input' \in [Requests -> Keys]
  BY <1>1 DEF Enqueue
<1>3. QED
  BY <1>2 DEF Enqueue, Go

\* So does reading the row at the start of a request.
LEMMA LoadBase ==
    ASSUME BaseInv, NEW r \in Requests, NEW known \in BOOLEAN,
           NEW what \in {"submit", "transform", "delete"},
           NEW next \in {"resolve", "enqueue", "unstore"},
           <<what, next>> \in {<<"submit", "resolve">>, <<"transform", "enqueue">>,
                              <<"delete", "unstore">>},
           Load(r, what, known, next)
    PROVE  BaseInv'
<1> USE RequestsAssumption, LimitsAssumption
     DEF BaseInv, TypeOK, ControlInv, KindInv, EnqueuedInv, WorkerInv, SyncInv, Keys,
         Statuses, MidWay, Terminal, Settled, Exists, vars, storageVars, tableVars,
         requestVars, queueVars, syncVars
<1>1. CASE known
  BY <1>1 DEF Load, Go
<1>2. CASE ~known
  BY <1>2 DEF Load, Go
<1>3. QED
  BY <1>1, <1>2

\* So does a failed attempt: it is retried only while attempts are left.
LEMMA FailAttemptBase ==
    ASSUME BaseInv, NEW r \in Requests, job[r] = "active", FailAttempt(r)
    PROVE  BaseInv'
<1> USE RequestsAssumption, LimitsAssumption
     DEF BaseInv, TypeOK, ControlInv, KindInv, EnqueuedInv, WorkerInv, SyncInv, Keys,
         Statuses, MidWay, Terminal, Settled, Exists, vars, storageVars, tableVars,
         requestVars, queueVars, syncVars
<1>1. attempts' \in [Requests -> 0 .. MaxAttempts]
  BY DEF FailAttempt
<1>2. CASE attempts[r] + 1 < MaxAttempts
  BY <1>1, <1>2 DEF FailAttempt
<1>3. CASE ~(attempts[r] + 1 < MaxAttempts)
  BY <1>1, <1>3 DEF FailAttempt, Settle
<1>4. QED
  BY <1>2, <1>3

\* Types and control locations are preserved by every step.
LEMMA BaseStep == BaseInv /\ [Next]_vars => BaseInv'
<1> SUFFICES ASSUME BaseInv, [Next]_vars PROVE BaseInv'
  OBVIOUS
<1> USE RequestsAssumption, LimitsAssumption
     DEF BaseInv, TypeOK, ControlInv, KindInv, EnqueuedInv, WorkerInv, SyncInv, Keys,
         Statuses, MidWay, Terminal, Settled, Exists, vars, storageVars, tableVars,
         requestVars, queueVars, syncVars
<1>1. CASE CreateUpload
  BY <1>1 DEF CreateUpload, Put, Go
<1>2. CASE CreateSave
  <2>1. row' \in Row /\ copy' \in [Requests -> Row]
    BY <1>2 DEF CreateSave, Row
  <2>2. QED
    BY <1>2, <2>1 DEF CreateSave, Go
<1>3. CASE CreateEnqueue
  BY <1>3, EnqueueBase, RequestsAssumption DEF CreateEnqueue
<1>4. CASE CreateMark
  BY <1>4, SaveProcessingBase, RequestsAssumption DEF CreateMark
<1>5. ASSUME NEW r \in Requests, SubmitLoad(r) PROVE BaseInv'
  BY <1>5, LoadBase DEF SubmitLoad, Exists
<1>6. ASSUME NEW r \in Requests, SubmitResolve(r) PROVE BaseInv'
  BY <1>6 DEF SubmitResolve, Go
<1>7. ASSUME NEW r \in Requests, SubmitEnqueue(r) PROVE BaseInv'
  BY <1>7, EnqueueBase DEF SubmitEnqueue
<1>8. ASSUME NEW r \in Requests, SubmitMark(r) PROVE BaseInv'
  BY <1>8, SaveProcessingBase DEF SubmitMark
<1>9. ASSUME NEW r \in Requests, TransformLoad(r) PROVE BaseInv'
  BY <1>9, LoadBase DEF TransformLoad
<1>10. ASSUME NEW r \in Requests, TransformEnqueue(r) PROVE BaseInv'
  BY <1>10, EnqueueBase DEF TransformEnqueue
<1>11. ASSUME NEW r \in Requests, TransformMark(r) PROVE BaseInv'
  BY <1>11, SaveProcessingBase DEF TransformMark
<1>12. ASSUME NEW r \in Requests, DeleteLoad(r) PROVE BaseInv'
  BY <1>12, LoadBase DEF DeleteLoad, Exists
<1>13. ASSUME NEW r \in Requests, DeleteObject(r) PROVE BaseInv'
  <2>1. source' \in BOOLEAN
    BY <1>13 DEF DeleteObject, Discard
  <2>2. QED
    BY <1>13, <2>1 DEF DeleteObject, Discard, Go
<1>14. ASSUME NEW r \in Requests, DeleteRow(r) PROVE BaseInv'
  <2>1. row' \in Row
    BY <1>14 DEF DeleteRow, Row, Absent
  <2>2. found' \subseteq Requests \X Nat /\ IsFiniteSet(found') /\ pending' \subseteq found'
    <3>1. (found' = {} /\ pending' = {}) \/ (found' = found /\ pending' = pending)
      BY <1>14 DEF DeleteRow
    <3>2. QED
      BY <3>1, FS_EmptySet
  <2>3. QED
    BY <1>14, <2>1, <2>2 DEF DeleteRow, Go
<1>15. ASSUME NEW r \in Requests, RequestFails(r) PROVE BaseInv'
  BY <1>15 DEF RequestFails, Go
<1>16. ASSUME NEW r \in Requests, Pick(r) PROVE BaseInv'
  BY <1>16 DEF Pick
<1>17. ASSUME NEW r \in Requests, Backoff(r) PROVE BaseInv'
  BY <1>17 DEF Backoff
<1>18. ASSUME NEW r \in Requests, Download(r) PROVE BaseInv'
  <2>1. CASE Downloadable(input[r]) /\ content # "broken"
    BY <1>18, <2>1 DEF Download, Proceed
  <2>2. CASE ~(Downloadable(input[r]) /\ content # "broken")
    BY <1>18, <2>2, FailAttemptBase DEF Download
  <2>3. QED
    BY <2>1, <2>2
<1>19. ASSUME NEW r \in Requests, Inspect(r) PROVE BaseInv'
  BY <1>19 DEF Inspect, Proceed
<1>20. ASSUME NEW r \in Requests, SaveAnomalies(r) PROVE BaseInv'
  <2>1. CASE Exists(row)
    <3>1. IsFiniteSet(found \cup {Batch(r)}) /\ Cardinality(found) \in Nat
      BY FS_AddElement, FS_CardinalityType
    <3>2. Batch(r) \in Requests \X Nat
      BY <3>1 DEF Batch
    <3>3. found' = found \cup {Batch(r)} /\ pending' = pending \cup {Batch(r)}
      BY <1>20, <2>1 DEF SaveAnomalies
    <3>4. found' \subseteq Requests \X Nat /\ IsFiniteSet(found') /\ pending' \subseteq found'
      BY <3>1, <3>2, <3>3
    <3>5. QED
      BY <1>20, <2>1, <3>4 DEF SaveAnomalies, Proceed
  <2>2. CASE ~Exists(row)
    BY <1>20, <2>2, FailAttemptBase DEF SaveAnomalies
  <2>3. QED
    BY <2>1, <2>2
<1>21. ASSUME NEW r \in Requests, AllDecided(r) PROVE BaseInv'
  BY <1>21 DEF AllDecided, Proceed
<1>22. ASSUME NEW r \in Requests, ReviewTimeout(r) PROVE BaseInv'
  BY <1>22 DEF ReviewTimeout, Proceed
<1>23. ASSUME NEW r \in Requests, UploadOutput(r) PROVE BaseInv'
  BY <1>23 DEF UploadOutput, Put
<1>24. ASSUME NEW r \in Requests, Complete(r) PROVE BaseInv'
  BY <1>24 DEF Complete, Settle
<1>25. ASSUME NEW r \in Requests, WorkerFails(r) PROVE BaseInv'
  BY <1>25, FailAttemptBase DEF WorkerFails
<1>26. CASE WorkerCrash
  BY <1>26 DEF WorkerCrash, Active
<1>27. ASSUME NEW r \in Requests, SyncLoad(r) PROVE BaseInv'
  <2>1. CASE Exists(row)
    BY <1>27, <2>1 DEF SyncLoad
  <2>2. CASE ~Exists(row)
    BY <1>27, <2>2 DEF SyncLoad
  <2>3. QED
    BY <2>1, <2>2
<1>28. ASSUME NEW r \in Requests, SyncSave(r) PROVE BaseInv'
  <2>1. row' \in Row
    BY <1>28, RowTyped DEF SyncSave, Row
  <2>2. QED
    BY <1>28, <2>1 DEF SyncSave
<1>29. ASSUME NEW r \in Requests, SyncFails(r) PROVE BaseInv'
  BY <1>29 DEF SyncFails
<1>30. CASE ApiCrash
  BY <1>30 DEF ApiCrash
<1>31. CASE UNCHANGED vars
  BY <1>31 DEF vars
<1>32. CASE Refuse(Creator, "create")
  BY <1>32 DEF Refuse, Go
<1>33. ASSUME NEW r \in Requests \ {Creator}, NEW what \in {"submit", "transform"},
              Refuse(r, what)
       PROVE  BaseInv'
  BY <1>33 DEF Refuse, Go
<1> QED
  BY <1>1, <1>2, <1>3, <1>4, <1>5, <1>6, <1>7, <1>8, <1>9, <1>10, <1>11, <1>12, <1>13, <1>14,
     <1>15, <1>16, <1>17, <1>18, <1>19, <1>20, <1>21, <1>22, <1>23, <1>24, <1>25, <1>26,
     <1>27, <1>28, <1>29, <1>30, <1>31, <1>32, <1>33
  DEF Next, Create, CreateRequest, Request, Submit, SubmitRequest, Transform,
      TransformRequest, Delete, WorkerStep, SyncStep

\* Every variable stays within its type, under every interleaving and fault.
THEOREM TypeCorrect == Spec => []TypeOK
<1>1. Spec => []BaseInv
  BY InitBase, BaseStep, PTL DEF Spec
<1>2. BaseInv => TypeOK
  BY DEF BaseInv
<1>3. QED
  BY <1>1, <1>2, PTL

\* Outputs are never removed and a settled job stays settled: the monotone
\* facts that make stale copies harmless.
LEMMA DoneStays ==
    BaseInv /\ [Next]_vars =>
        outputs \subseteq outputs' /\ \A j \in Requests : job[j] \in Settled => job'[j] = job[j]
<1> SUFFICES ASSUME BaseInv, [Next]_vars PROVE outputs \subseteq outputs' /\ \A j \in Requests : job[j] \in Settled => job'[j] = job[j]
  OBVIOUS
<1> USE RequestsAssumption, LimitsAssumption
     DEF BaseInv, TypeOK, ControlInv, KindInv, EnqueuedInv, WorkerInv, SyncInv, Keys,
         Statuses, MidWay, Terminal, Settled, Exists, vars, storageVars, tableVars,
         requestVars, queueVars, syncVars
<1>1. CASE CreateUpload
  BY <1>1 DEF CreateUpload, Put, Go
<1>2. CASE CreateSave
  BY <1>2 DEF CreateSave, Go
<1>3. CASE CreateEnqueue
  BY <1>3 DEF CreateEnqueue, Enqueue, Go
<1>4. CASE CreateMark
  BY <1>4 DEF CreateMark, SaveProcessing, Go
<1>5. ASSUME NEW r \in Requests, SubmitLoad(r) PROVE outputs \subseteq outputs' /\ \A j \in Requests : job[j] \in Settled => job'[j] = job[j]
  BY <1>5 DEF SubmitLoad, Load, Go
<1>6. ASSUME NEW r \in Requests, SubmitResolve(r) PROVE outputs \subseteq outputs' /\ \A j \in Requests : job[j] \in Settled => job'[j] = job[j]
  BY <1>6 DEF SubmitResolve, Go
<1>7. ASSUME NEW r \in Requests, SubmitEnqueue(r) PROVE outputs \subseteq outputs' /\ \A j \in Requests : job[j] \in Settled => job'[j] = job[j]
  BY <1>7 DEF SubmitEnqueue, Enqueue, Go
<1>8. ASSUME NEW r \in Requests, SubmitMark(r) PROVE outputs \subseteq outputs' /\ \A j \in Requests : job[j] \in Settled => job'[j] = job[j]
  BY <1>8 DEF SubmitMark, SaveProcessing, Go
<1>9. ASSUME NEW r \in Requests, TransformLoad(r) PROVE outputs \subseteq outputs' /\ \A j \in Requests : job[j] \in Settled => job'[j] = job[j]
  BY <1>9 DEF TransformLoad, Load, Go
<1>10. ASSUME NEW r \in Requests, TransformEnqueue(r) PROVE outputs \subseteq outputs' /\ \A j \in Requests : job[j] \in Settled => job'[j] = job[j]
  BY <1>10 DEF TransformEnqueue, Enqueue, Go
<1>11. ASSUME NEW r \in Requests, TransformMark(r) PROVE outputs \subseteq outputs' /\ \A j \in Requests : job[j] \in Settled => job'[j] = job[j]
  BY <1>11 DEF TransformMark, SaveProcessing, Go
<1>12. ASSUME NEW r \in Requests, DeleteLoad(r) PROVE outputs \subseteq outputs' /\ \A j \in Requests : job[j] \in Settled => job'[j] = job[j]
  BY <1>12 DEF DeleteLoad, Load, Go
<1>13. ASSUME NEW r \in Requests, DeleteObject(r) PROVE outputs \subseteq outputs' /\ \A j \in Requests : job[j] \in Settled => job'[j] = job[j]
  BY <1>13 DEF DeleteObject, Discard, Go
<1>14. ASSUME NEW r \in Requests, DeleteRow(r) PROVE outputs \subseteq outputs' /\ \A j \in Requests : job[j] \in Settled => job'[j] = job[j]
  BY <1>14 DEF DeleteRow, Go
<1>15. ASSUME NEW r \in Requests, RequestFails(r) PROVE outputs \subseteq outputs' /\ \A j \in Requests : job[j] \in Settled => job'[j] = job[j]
  BY <1>15 DEF RequestFails, Go
<1>16. ASSUME NEW r \in Requests, Pick(r) PROVE outputs \subseteq outputs' /\ \A j \in Requests : job[j] \in Settled => job'[j] = job[j]
  BY <1>16 DEF Pick
<1>17. ASSUME NEW r \in Requests, Backoff(r) PROVE outputs \subseteq outputs' /\ \A j \in Requests : job[j] \in Settled => job'[j] = job[j]
  BY <1>17 DEF Backoff
<1>18. ASSUME NEW r \in Requests, Download(r) PROVE outputs \subseteq outputs' /\ \A j \in Requests : job[j] \in Settled => job'[j] = job[j]
  BY <1>18 DEF Download, Proceed, FailAttempt, Settle
<1>19. ASSUME NEW r \in Requests, Inspect(r) PROVE outputs \subseteq outputs' /\ \A j \in Requests : job[j] \in Settled => job'[j] = job[j]
  BY <1>19 DEF Inspect, Proceed
<1>20. ASSUME NEW r \in Requests, SaveAnomalies(r) PROVE outputs \subseteq outputs' /\ \A j \in Requests : job[j] \in Settled => job'[j] = job[j]
  BY <1>20 DEF SaveAnomalies, Proceed, FailAttempt, Settle
<1>21. ASSUME NEW r \in Requests, AllDecided(r) PROVE outputs \subseteq outputs' /\ \A j \in Requests : job[j] \in Settled => job'[j] = job[j]
  BY <1>21 DEF AllDecided, Proceed
<1>22. ASSUME NEW r \in Requests, ReviewTimeout(r) PROVE outputs \subseteq outputs' /\ \A j \in Requests : job[j] \in Settled => job'[j] = job[j]
  BY <1>22 DEF ReviewTimeout, Proceed
<1>23. ASSUME NEW r \in Requests, UploadOutput(r) PROVE outputs \subseteq outputs' /\ \A j \in Requests : job[j] \in Settled => job'[j] = job[j]
  BY <1>23 DEF UploadOutput, Put
<1>24. ASSUME NEW r \in Requests, Complete(r) PROVE outputs \subseteq outputs' /\ \A j \in Requests : job[j] \in Settled => job'[j] = job[j]
  BY <1>24 DEF Complete, Settle
<1>25. ASSUME NEW r \in Requests, WorkerFails(r) PROVE outputs \subseteq outputs' /\ \A j \in Requests : job[j] \in Settled => job'[j] = job[j]
  BY <1>25 DEF WorkerFails, FailAttempt, Settle
<1>26. CASE WorkerCrash
  BY <1>26 DEF WorkerCrash, Active
<1>27. ASSUME NEW r \in Requests, SyncLoad(r) PROVE outputs \subseteq outputs' /\ \A j \in Requests : job[j] \in Settled => job'[j] = job[j]
  BY <1>27 DEF SyncLoad
<1>28. ASSUME NEW r \in Requests, SyncSave(r) PROVE outputs \subseteq outputs' /\ \A j \in Requests : job[j] \in Settled => job'[j] = job[j]
  BY <1>28 DEF SyncSave
<1>29. ASSUME NEW r \in Requests, SyncFails(r) PROVE outputs \subseteq outputs' /\ \A j \in Requests : job[j] \in Settled => job'[j] = job[j]
  BY <1>29 DEF SyncFails
<1>30. CASE ApiCrash
  BY <1>30 DEF ApiCrash
<1>31. CASE UNCHANGED vars
  BY <1>31 DEF vars
<1>32. CASE Refuse(Creator, "create")
  BY <1>32 DEF Refuse, Go
<1>33. ASSUME NEW r \in Requests \ {Creator}, NEW what \in {"submit", "transform"},
              Refuse(r, what)
       PROVE  outputs \subseteq outputs' /\ \A j \in Requests : job[j] \in Settled => job'[j] = job[j]
  BY <1>33 DEF Refuse, Go
<1> QED
  BY <1>1, <1>2, <1>3, <1>4, <1>5, <1>6, <1>7, <1>8, <1>9, <1>10, <1>11, <1>12, <1>13, <1>14,
     <1>15, <1>16, <1>17, <1>18, <1>19, <1>20, <1>21, <1>22, <1>23, <1>24, <1>25, <1>26,
     <1>27, <1>28, <1>29, <1>30, <1>31, <1>32, <1>33
  DEF Next, Create, CreateRequest, Request, Submit, SubmitRequest, Transform,
      TransformRequest, Delete, WorkerStep, SyncStep

\* Every storageKey, stored or in memory, keeps naming a known file.
LEMMA FilesStep == BaseInv /\ FilesInv /\ [Next]_vars => FilesInv'
<1> SUFFICES ASSUME BaseInv /\ FilesInv, [Next]_vars PROVE FilesInv'
  OBVIOUS
<1> USE RequestsAssumption, LimitsAssumption
     DEF BaseInv, TypeOK, ControlInv, KindInv, EnqueuedInv, WorkerInv, SyncInv, Keys,
         Statuses, MidWay, Terminal, Settled, Exists, vars, storageVars, tableVars,
         requestVars, queueVars, syncVars, FilesInv, KnownKey, Row, Absent
<1>0. \A j \in Requests : j \in outputs /\ job[j] = "completed" =>
                            j \in outputs' /\ job'[j] = "completed"
  BY DoneStays
<1>1. CASE CreateUpload
  BY <1>1 DEF CreateUpload, Put, Go
<1>2. CASE CreateSave
  BY <1>2 DEF CreateSave, Go
<1>3. CASE CreateEnqueue
  BY <1>3 DEF CreateEnqueue, Enqueue, Go
<1>4. CASE CreateMark
  BY <1>4 DEF CreateMark, SaveProcessing, Go
<1>5. ASSUME NEW r \in Requests, SubmitLoad(r) PROVE FilesInv'
  <2>1. UNCHANGED <<row, outputs, job, entity>> /\ copy' \in {copy, [copy EXCEPT ![r] = row]}
    BY <1>5 DEF SubmitLoad, Load
  <2>2. QED
    BY <2>1
<1>6. ASSUME NEW r \in Requests, SubmitResolve(r) PROVE FilesInv'
  BY <1>6 DEF SubmitResolve, Go
<1>7. ASSUME NEW r \in Requests, SubmitEnqueue(r) PROVE FilesInv'
  BY <1>7 DEF SubmitEnqueue, Enqueue, Go
<1>8. ASSUME NEW r \in Requests, SubmitMark(r) PROVE FilesInv'
  BY <1>8 DEF SubmitMark, SaveProcessing, Go
<1>9. ASSUME NEW r \in Requests, TransformLoad(r) PROVE FilesInv'
  BY <1>9 DEF TransformLoad, Load, Go
<1>10. ASSUME NEW r \in Requests, TransformEnqueue(r) PROVE FilesInv'
  BY <1>10 DEF TransformEnqueue, Enqueue, Go
<1>11. ASSUME NEW r \in Requests, TransformMark(r) PROVE FilesInv'
  BY <1>11 DEF TransformMark, SaveProcessing, Go
<1>12. ASSUME NEW r \in Requests, DeleteLoad(r) PROVE FilesInv'
  <2>1. UNCHANGED <<row, outputs, job, entity>> /\ copy' \in {copy, [copy EXCEPT ![r] = row]}
    BY <1>12 DEF DeleteLoad, Load
  <2>2. QED
    BY <2>1
<1>13. ASSUME NEW r \in Requests, DeleteObject(r) PROVE FilesInv'
  BY <1>13 DEF DeleteObject, Discard, Go
<1>14. ASSUME NEW r \in Requests, DeleteRow(r) PROVE FilesInv'
  BY <1>14 DEF DeleteRow, Go
<1>15. ASSUME NEW r \in Requests, RequestFails(r) PROVE FilesInv'
  BY <1>15 DEF RequestFails, Go
<1>16. ASSUME NEW r \in Requests, Pick(r) PROVE FilesInv'
  BY <1>16 DEF Pick
<1>17. ASSUME NEW r \in Requests, Backoff(r) PROVE FilesInv'
  BY <1>17 DEF Backoff
<1>18. ASSUME NEW r \in Requests, Download(r) PROVE FilesInv'
  BY <1>18 DEF Download, Proceed, FailAttempt, Settle
<1>19. ASSUME NEW r \in Requests, Inspect(r) PROVE FilesInv'
  BY <1>19 DEF Inspect, Proceed
<1>20. ASSUME NEW r \in Requests, SaveAnomalies(r) PROVE FilesInv'
  BY <1>20 DEF SaveAnomalies, Proceed, FailAttempt, Settle
<1>21. ASSUME NEW r \in Requests, AllDecided(r) PROVE FilesInv'
  BY <1>21 DEF AllDecided, Proceed
<1>22. ASSUME NEW r \in Requests, ReviewTimeout(r) PROVE FilesInv'
  BY <1>22 DEF ReviewTimeout, Proceed
<1>23. ASSUME NEW r \in Requests, UploadOutput(r) PROVE FilesInv'
  BY <1>23 DEF UploadOutput, Put
<1>24. ASSUME NEW r \in Requests, Complete(r) PROVE FilesInv'
  BY <1>24 DEF Complete, Settle
<1>25. ASSUME NEW r \in Requests, WorkerFails(r) PROVE FilesInv'
  BY <1>25 DEF WorkerFails, FailAttempt, Settle
<1>26. CASE WorkerCrash
  BY <1>26 DEF WorkerCrash, Active
<1>27. ASSUME NEW r \in Requests, SyncLoad(r) PROVE FilesInv'
  BY <1>27 DEF SyncLoad
<1>28. ASSUME NEW r \in Requests, SyncSave(r) PROVE FilesInv'
  BY <1>28 DEF SyncSave
<1>29. ASSUME NEW r \in Requests, SyncFails(r) PROVE FilesInv'
  BY <1>29 DEF SyncFails
<1>30. CASE ApiCrash
  BY <1>30 DEF ApiCrash
<1>31. CASE UNCHANGED vars
  BY <1>31 DEF vars
<1>32. CASE Refuse(Creator, "create")
  BY <1>32 DEF Refuse, Go
<1>33. ASSUME NEW r \in Requests \ {Creator}, NEW what \in {"submit", "transform"},
              Refuse(r, what)
       PROVE  FilesInv'
  BY <1>33 DEF Refuse, Go
<1> QED
  BY <1>1, <1>2, <1>3, <1>4, <1>5, <1>6, <1>7, <1>8, <1>9, <1>10, <1>11, <1>12, <1>13, <1>14,
     <1>15, <1>16, <1>17, <1>18, <1>19, <1>20, <1>21, <1>22, <1>23, <1>24, <1>25, <1>26,
     <1>27, <1>28, <1>29, <1>30, <1>31, <1>32, <1>33
  DEF Next, Create, CreateRequest, Request, Submit, SubmitRequest, Transform,
      TransformRequest, Delete, WorkerStep, SyncStep

\* The uploaded file stays until somebody begins to delete the dataset.
LEMMA StorageStep == BaseInv /\ StorageInv /\ [Next]_vars => StorageInv'
<1> SUFFICES ASSUME BaseInv /\ StorageInv, [Next]_vars PROVE StorageInv'
  OBVIOUS
<1> USE RequestsAssumption, LimitsAssumption
     DEF BaseInv, TypeOK, ControlInv, KindInv, EnqueuedInv, WorkerInv, SyncInv, Keys,
         Statuses, MidWay, Terminal, Settled, Exists, vars, storageVars, tableVars,
         requestVars, queueVars, syncVars, StorageInv, DeletionBegun, Absent
<1>1. CASE CreateUpload
  BY <1>1 DEF CreateUpload, Put, Go
<1>2. CASE CreateSave
  BY <1>2 DEF CreateSave, Go
<1>3. CASE CreateEnqueue
  BY <1>3 DEF CreateEnqueue, Enqueue, Go
<1>4. CASE CreateMark
  BY <1>4 DEF CreateMark, SaveProcessing, Go
<1>5. ASSUME NEW r \in Requests, SubmitLoad(r) PROVE StorageInv'
  BY <1>5 DEF SubmitLoad, Load, Go
<1>6. ASSUME NEW r \in Requests, SubmitResolve(r) PROVE StorageInv'
  BY <1>6 DEF SubmitResolve, Go
<1>7. ASSUME NEW r \in Requests, SubmitEnqueue(r) PROVE StorageInv'
  BY <1>7 DEF SubmitEnqueue, Enqueue, Go
<1>8. ASSUME NEW r \in Requests, SubmitMark(r) PROVE StorageInv'
  BY <1>8 DEF SubmitMark, SaveProcessing, Go
<1>9. ASSUME NEW r \in Requests, TransformLoad(r) PROVE StorageInv'
  BY <1>9 DEF TransformLoad, Load, Go
<1>10. ASSUME NEW r \in Requests, TransformEnqueue(r) PROVE StorageInv'
  BY <1>10 DEF TransformEnqueue, Enqueue, Go
<1>11. ASSUME NEW r \in Requests, TransformMark(r) PROVE StorageInv'
  BY <1>11 DEF TransformMark, SaveProcessing, Go
<1>12. ASSUME NEW r \in Requests, DeleteLoad(r) PROVE StorageInv'
  BY <1>12 DEF DeleteLoad, Load, Go
<1>13. ASSUME NEW r \in Requests, DeleteObject(r) PROVE StorageInv'
  BY <1>13 DEF DeleteObject, Discard, Go
<1>14. ASSUME NEW r \in Requests, DeleteRow(r) PROVE StorageInv'
  BY <1>14 DEF DeleteRow, Go
<1>15. ASSUME NEW r \in Requests, RequestFails(r) PROVE StorageInv'
  BY <1>15 DEF RequestFails, Go
<1>16. ASSUME NEW r \in Requests, Pick(r) PROVE StorageInv'
  BY <1>16 DEF Pick
<1>17. ASSUME NEW r \in Requests, Backoff(r) PROVE StorageInv'
  BY <1>17 DEF Backoff
<1>18. ASSUME NEW r \in Requests, Download(r) PROVE StorageInv'
  BY <1>18 DEF Download, Proceed, FailAttempt, Settle
<1>19. ASSUME NEW r \in Requests, Inspect(r) PROVE StorageInv'
  BY <1>19 DEF Inspect, Proceed
<1>20. ASSUME NEW r \in Requests, SaveAnomalies(r) PROVE StorageInv'
  BY <1>20 DEF SaveAnomalies, Proceed, FailAttempt, Settle
<1>21. ASSUME NEW r \in Requests, AllDecided(r) PROVE StorageInv'
  BY <1>21 DEF AllDecided, Proceed
<1>22. ASSUME NEW r \in Requests, ReviewTimeout(r) PROVE StorageInv'
  BY <1>22 DEF ReviewTimeout, Proceed
<1>23. ASSUME NEW r \in Requests, UploadOutput(r) PROVE StorageInv'
  BY <1>23 DEF UploadOutput, Put
<1>24. ASSUME NEW r \in Requests, Complete(r) PROVE StorageInv'
  BY <1>24 DEF Complete, Settle
<1>25. ASSUME NEW r \in Requests, WorkerFails(r) PROVE StorageInv'
  BY <1>25 DEF WorkerFails, FailAttempt, Settle
<1>26. CASE WorkerCrash
  BY <1>26 DEF WorkerCrash, Active
<1>27. ASSUME NEW r \in Requests, SyncLoad(r) PROVE StorageInv'
  BY <1>27 DEF SyncLoad
<1>28. ASSUME NEW r \in Requests, SyncSave(r) PROVE StorageInv'
  BY <1>28 DEF SyncSave
<1>29. ASSUME NEW r \in Requests, SyncFails(r) PROVE StorageInv'
  BY <1>29 DEF SyncFails
<1>30. CASE ApiCrash
  BY <1>30 DEF ApiCrash
<1>31. CASE UNCHANGED vars
  BY <1>31 DEF vars
<1>32. CASE Refuse(Creator, "create")
  BY <1>32 DEF Refuse, Go
<1>33. ASSUME NEW r \in Requests \ {Creator}, NEW what \in {"submit", "transform"},
              Refuse(r, what)
       PROVE  StorageInv'
  BY <1>33 DEF Refuse, Go
<1> QED
  BY <1>1, <1>2, <1>3, <1>4, <1>5, <1>6, <1>7, <1>8, <1>9, <1>10, <1>11, <1>12, <1>13, <1>14,
     <1>15, <1>16, <1>17, <1>18, <1>19, <1>20, <1>21, <1>22, <1>23, <1>24, <1>25, <1>26,
     <1>27, <1>28, <1>29, <1>30, <1>31, <1>32, <1>33
  DEF Next, Create, CreateRequest, Request, Submit, SubmitRequest, Transform,
      TransformRequest, Delete, WorkerStep, SyncStep

\* A job gets past its download only on the uploaded file.
LEMMA SourceStep == BaseInv /\ SourceInv /\ [Next]_vars => SourceInv'
<1> SUFFICES ASSUME BaseInv /\ SourceInv, [Next]_vars PROVE SourceInv'
  OBVIOUS
<1> USE RequestsAssumption, LimitsAssumption
     DEF BaseInv, TypeOK, ControlInv, KindInv, EnqueuedInv, WorkerInv, SyncInv, Keys,
         Statuses, MidWay, Terminal, Settled, Exists, vars, storageVars, tableVars,
         requestVars, queueVars, syncVars, SourceInv, OutputsComeFromUpload, Downloadable, Stored
<1>1. CASE CreateUpload
  BY <1>1 DEF CreateUpload, Put, Go
<1>2. CASE CreateSave
  BY <1>2 DEF CreateSave, Go
<1>3. CASE CreateEnqueue
  BY <1>3 DEF CreateEnqueue, Enqueue, Go
<1>4. CASE CreateMark
  BY <1>4 DEF CreateMark, SaveProcessing, Go
<1>5. ASSUME NEW r \in Requests, SubmitLoad(r) PROVE SourceInv'
  BY <1>5 DEF SubmitLoad, Load, Go
<1>6. ASSUME NEW r \in Requests, SubmitResolve(r) PROVE SourceInv'
  BY <1>6 DEF SubmitResolve, Go
<1>7. ASSUME NEW r \in Requests, SubmitEnqueue(r) PROVE SourceInv'
  BY <1>7 DEF SubmitEnqueue, Enqueue, Go
<1>8. ASSUME NEW r \in Requests, SubmitMark(r) PROVE SourceInv'
  BY <1>8 DEF SubmitMark, SaveProcessing, Go
<1>9. ASSUME NEW r \in Requests, TransformLoad(r) PROVE SourceInv'
  BY <1>9 DEF TransformLoad, Load, Go
<1>10. ASSUME NEW r \in Requests, TransformEnqueue(r) PROVE SourceInv'
  BY <1>10 DEF TransformEnqueue, Enqueue, Go
<1>11. ASSUME NEW r \in Requests, TransformMark(r) PROVE SourceInv'
  BY <1>11 DEF TransformMark, SaveProcessing, Go
<1>12. ASSUME NEW r \in Requests, DeleteLoad(r) PROVE SourceInv'
  BY <1>12 DEF DeleteLoad, Load, Go
<1>13. ASSUME NEW r \in Requests, DeleteObject(r) PROVE SourceInv'
  BY <1>13 DEF DeleteObject, Discard, Go
<1>14. ASSUME NEW r \in Requests, DeleteRow(r) PROVE SourceInv'
  BY <1>14 DEF DeleteRow, Go
<1>15. ASSUME NEW r \in Requests, RequestFails(r) PROVE SourceInv'
  BY <1>15 DEF RequestFails, Go
<1>16. ASSUME NEW r \in Requests, Pick(r) PROVE SourceInv'
  BY <1>16 DEF Pick
<1>17. ASSUME NEW r \in Requests, Backoff(r) PROVE SourceInv'
  BY <1>17 DEF Backoff
<1>18. ASSUME NEW r \in Requests, Download(r) PROVE SourceInv'
  BY <1>18 DEF Download, Proceed, FailAttempt, Settle
<1>19. ASSUME NEW r \in Requests, Inspect(r) PROVE SourceInv'
  BY <1>19 DEF Inspect, Proceed
<1>20. ASSUME NEW r \in Requests, SaveAnomalies(r) PROVE SourceInv'
  BY <1>20 DEF SaveAnomalies, Proceed, FailAttempt, Settle
<1>21. ASSUME NEW r \in Requests, AllDecided(r) PROVE SourceInv'
  BY <1>21 DEF AllDecided, Proceed
<1>22. ASSUME NEW r \in Requests, ReviewTimeout(r) PROVE SourceInv'
  BY <1>22 DEF ReviewTimeout, Proceed
<1>23. ASSUME NEW r \in Requests, UploadOutput(r) PROVE SourceInv'
  BY <1>23 DEF UploadOutput, Put
<1>24. ASSUME NEW r \in Requests, Complete(r) PROVE SourceInv'
  BY <1>24 DEF Complete, Settle
<1>25. ASSUME NEW r \in Requests, WorkerFails(r) PROVE SourceInv'
  BY <1>25 DEF WorkerFails, FailAttempt, Settle
<1>26. CASE WorkerCrash
  BY <1>26 DEF WorkerCrash, Active
<1>27. ASSUME NEW r \in Requests, SyncLoad(r) PROVE SourceInv'
  BY <1>27 DEF SyncLoad
<1>28. ASSUME NEW r \in Requests, SyncSave(r) PROVE SourceInv'
  BY <1>28 DEF SyncSave
<1>29. ASSUME NEW r \in Requests, SyncFails(r) PROVE SourceInv'
  BY <1>29 DEF SyncFails
<1>30. CASE ApiCrash
  BY <1>30 DEF ApiCrash
<1>31. CASE UNCHANGED vars
  BY <1>31 DEF vars
<1>32. CASE Refuse(Creator, "create")
  BY <1>32 DEF Refuse, Go
<1>33. ASSUME NEW r \in Requests \ {Creator}, NEW what \in {"submit", "transform"},
              Refuse(r, what)
       PROVE  SourceInv'
  BY <1>33 DEF Refuse, Go
<1> QED
  BY <1>1, <1>2, <1>3, <1>4, <1>5, <1>6, <1>7, <1>8, <1>9, <1>10, <1>11, <1>12, <1>13, <1>14,
     <1>15, <1>16, <1>17, <1>18, <1>19, <1>20, <1>21, <1>22, <1>23, <1>24, <1>25, <1>26,
     <1>27, <1>28, <1>29, <1>30, <1>31, <1>32, <1>33
  DEF Next, Create, CreateRequest, Request, Submit, SubmitRequest, Transform,
      TransformRequest, Delete, WorkerStep, SyncStep

\* PROCESSING keeps being owed to a job, a callback or a late save.
LEMMA OwedStep == BaseInv /\ ProcessingIsOwed /\ [Next]_vars => ProcessingIsOwed'
<1> SUFFICES ASSUME BaseInv /\ ProcessingIsOwed, [Next]_vars PROVE ProcessingIsOwed'
  OBVIOUS
<1> USE RequestsAssumption, LimitsAssumption
     DEF BaseInv, TypeOK, ControlInv, KindInv, EnqueuedInv, WorkerInv, SyncInv, Keys,
         Statuses, MidWay, Terminal, Settled, Exists, vars, storageVars, tableVars,
         requestVars, queueVars, syncVars, ProcessingIsOwed, Row, Absent
<1>1. CASE CreateUpload
  BY <1>1 DEF CreateUpload, Put, Go
<1>2. CASE CreateSave
  BY <1>2 DEF CreateSave, Go
<1>3. CASE CreateEnqueue
  BY <1>3 DEF CreateEnqueue, Enqueue, Go
<1>4. CASE CreateMark
  BY <1>4 DEF CreateMark, SaveProcessing, Go
<1>5. ASSUME NEW r \in Requests, SubmitLoad(r) PROVE ProcessingIsOwed'
  BY <1>5 DEF SubmitLoad, Load, Go
<1>6. ASSUME NEW r \in Requests, SubmitResolve(r) PROVE ProcessingIsOwed'
  BY <1>6 DEF SubmitResolve, Go
<1>7. ASSUME NEW r \in Requests, SubmitEnqueue(r) PROVE ProcessingIsOwed'
  BY <1>7 DEF SubmitEnqueue, Enqueue, Go
<1>8. ASSUME NEW r \in Requests, SubmitMark(r) PROVE ProcessingIsOwed'
  BY <1>8 DEF SubmitMark, SaveProcessing, Go
<1>9. ASSUME NEW r \in Requests, TransformLoad(r) PROVE ProcessingIsOwed'
  BY <1>9 DEF TransformLoad, Load, Go
<1>10. ASSUME NEW r \in Requests, TransformEnqueue(r) PROVE ProcessingIsOwed'
  BY <1>10 DEF TransformEnqueue, Enqueue, Go
<1>11. ASSUME NEW r \in Requests, TransformMark(r) PROVE ProcessingIsOwed'
  BY <1>11 DEF TransformMark, SaveProcessing, Go
<1>12. ASSUME NEW r \in Requests, DeleteLoad(r) PROVE ProcessingIsOwed'
  BY <1>12 DEF DeleteLoad, Load, Go
<1>13. ASSUME NEW r \in Requests, DeleteObject(r) PROVE ProcessingIsOwed'
  BY <1>13 DEF DeleteObject, Discard, Go
<1>14. ASSUME NEW r \in Requests, DeleteRow(r) PROVE ProcessingIsOwed'
  BY <1>14 DEF DeleteRow, Go
<1>15. ASSUME NEW r \in Requests, RequestFails(r) PROVE ProcessingIsOwed'
  BY <1>15 DEF RequestFails, Go
<1>16. ASSUME NEW r \in Requests, Pick(r) PROVE ProcessingIsOwed'
  BY <1>16 DEF Pick
<1>17. ASSUME NEW r \in Requests, Backoff(r) PROVE ProcessingIsOwed'
  BY <1>17 DEF Backoff
<1>18. ASSUME NEW r \in Requests, Download(r) PROVE ProcessingIsOwed'
  BY <1>18 DEF Download, Proceed, FailAttempt, Settle
<1>19. ASSUME NEW r \in Requests, Inspect(r) PROVE ProcessingIsOwed'
  BY <1>19 DEF Inspect, Proceed
<1>20. ASSUME NEW r \in Requests, SaveAnomalies(r) PROVE ProcessingIsOwed'
  BY <1>20 DEF SaveAnomalies, Proceed, FailAttempt, Settle
<1>21. ASSUME NEW r \in Requests, AllDecided(r) PROVE ProcessingIsOwed'
  BY <1>21 DEF AllDecided, Proceed
<1>22. ASSUME NEW r \in Requests, ReviewTimeout(r) PROVE ProcessingIsOwed'
  BY <1>22 DEF ReviewTimeout, Proceed
<1>23. ASSUME NEW r \in Requests, UploadOutput(r) PROVE ProcessingIsOwed'
  BY <1>23 DEF UploadOutput, Put
<1>24. ASSUME NEW r \in Requests, Complete(r) PROVE ProcessingIsOwed'
  BY <1>24 DEF Complete, Settle
<1>25. ASSUME NEW r \in Requests, WorkerFails(r) PROVE ProcessingIsOwed'
  BY <1>25 DEF WorkerFails, FailAttempt, Settle
<1>26. CASE WorkerCrash
  BY <1>26 DEF WorkerCrash, Active
<1>27. ASSUME NEW r \in Requests, SyncLoad(r) PROVE ProcessingIsOwed'
  BY <1>27 DEF SyncLoad
<1>28. ASSUME NEW r \in Requests, SyncSave(r) PROVE ProcessingIsOwed'
  BY <1>28 DEF SyncSave
<1>29. ASSUME NEW r \in Requests, SyncFails(r) PROVE ProcessingIsOwed'
  BY <1>29 DEF SyncFails
<1>30. CASE ApiCrash
  BY <1>30 DEF ApiCrash
<1>31. CASE UNCHANGED vars
  BY <1>31 DEF vars
<1>32. CASE Refuse(Creator, "create")
  BY <1>32 DEF Refuse, Go
<1>33. ASSUME NEW r \in Requests \ {Creator}, NEW what \in {"submit", "transform"},
              Refuse(r, what)
       PROVE  ProcessingIsOwed'
  BY <1>33 DEF Refuse, Go
<1> QED
  BY <1>1, <1>2, <1>3, <1>4, <1>5, <1>6, <1>7, <1>8, <1>9, <1>10, <1>11, <1>12, <1>13, <1>14,
     <1>15, <1>16, <1>17, <1>18, <1>19, <1>20, <1>21, <1>22, <1>23, <1>24, <1>25, <1>26,
     <1>27, <1>28, <1>29, <1>30, <1>31, <1>32, <1>33
  DEF Next, Create, CreateRequest, Request, Submit, SubmitRequest, Transform,
      TransformRequest, Delete, WorkerStep, SyncStep

\* No save writes PENDING but that of the creation.
LEMMA PendingStep == BaseInv /\ PendingIsCreation /\ [Next]_vars => PendingIsCreation'
<1> SUFFICES ASSUME BaseInv /\ PendingIsCreation, [Next]_vars PROVE PendingIsCreation'
  OBVIOUS
<1> USE RequestsAssumption, LimitsAssumption
     DEF BaseInv, TypeOK, ControlInv, KindInv, EnqueuedInv, WorkerInv, SyncInv, Keys,
         Statuses, MidWay, Terminal, Settled, Exists, vars, storageVars, tableVars,
         requestVars, queueVars, syncVars, PendingIsCreation, Row, Absent
<1>1. CASE CreateUpload
  BY <1>1 DEF CreateUpload, Put, Go
<1>2. CASE CreateSave
  BY <1>2 DEF CreateSave, Go
<1>3. CASE CreateEnqueue
  BY <1>3 DEF CreateEnqueue, Enqueue, Go
<1>4. CASE CreateMark
  BY <1>4 DEF CreateMark, SaveProcessing, Go
<1>5. ASSUME NEW r \in Requests, SubmitLoad(r) PROVE PendingIsCreation'
  BY <1>5 DEF SubmitLoad, Load, Go
<1>6. ASSUME NEW r \in Requests, SubmitResolve(r) PROVE PendingIsCreation'
  BY <1>6 DEF SubmitResolve, Go
<1>7. ASSUME NEW r \in Requests, SubmitEnqueue(r) PROVE PendingIsCreation'
  BY <1>7 DEF SubmitEnqueue, Enqueue, Go
<1>8. ASSUME NEW r \in Requests, SubmitMark(r) PROVE PendingIsCreation'
  BY <1>8 DEF SubmitMark, SaveProcessing, Go
<1>9. ASSUME NEW r \in Requests, TransformLoad(r) PROVE PendingIsCreation'
  BY <1>9 DEF TransformLoad, Load, Go
<1>10. ASSUME NEW r \in Requests, TransformEnqueue(r) PROVE PendingIsCreation'
  BY <1>10 DEF TransformEnqueue, Enqueue, Go
<1>11. ASSUME NEW r \in Requests, TransformMark(r) PROVE PendingIsCreation'
  BY <1>11 DEF TransformMark, SaveProcessing, Go
<1>12. ASSUME NEW r \in Requests, DeleteLoad(r) PROVE PendingIsCreation'
  BY <1>12 DEF DeleteLoad, Load, Go
<1>13. ASSUME NEW r \in Requests, DeleteObject(r) PROVE PendingIsCreation'
  BY <1>13 DEF DeleteObject, Discard, Go
<1>14. ASSUME NEW r \in Requests, DeleteRow(r) PROVE PendingIsCreation'
  BY <1>14 DEF DeleteRow, Go
<1>15. ASSUME NEW r \in Requests, RequestFails(r) PROVE PendingIsCreation'
  BY <1>15 DEF RequestFails, Go
<1>16. ASSUME NEW r \in Requests, Pick(r) PROVE PendingIsCreation'
  BY <1>16 DEF Pick
<1>17. ASSUME NEW r \in Requests, Backoff(r) PROVE PendingIsCreation'
  BY <1>17 DEF Backoff
<1>18. ASSUME NEW r \in Requests, Download(r) PROVE PendingIsCreation'
  BY <1>18 DEF Download, Proceed, FailAttempt, Settle
<1>19. ASSUME NEW r \in Requests, Inspect(r) PROVE PendingIsCreation'
  BY <1>19 DEF Inspect, Proceed
<1>20. ASSUME NEW r \in Requests, SaveAnomalies(r) PROVE PendingIsCreation'
  BY <1>20 DEF SaveAnomalies, Proceed, FailAttempt, Settle
<1>21. ASSUME NEW r \in Requests, AllDecided(r) PROVE PendingIsCreation'
  BY <1>21 DEF AllDecided, Proceed
<1>22. ASSUME NEW r \in Requests, ReviewTimeout(r) PROVE PendingIsCreation'
  BY <1>22 DEF ReviewTimeout, Proceed
<1>23. ASSUME NEW r \in Requests, UploadOutput(r) PROVE PendingIsCreation'
  BY <1>23 DEF UploadOutput, Put
<1>24. ASSUME NEW r \in Requests, Complete(r) PROVE PendingIsCreation'
  BY <1>24 DEF Complete, Settle
<1>25. ASSUME NEW r \in Requests, WorkerFails(r) PROVE PendingIsCreation'
  BY <1>25 DEF WorkerFails, FailAttempt, Settle
<1>26. CASE WorkerCrash
  BY <1>26 DEF WorkerCrash, Active
<1>27. ASSUME NEW r \in Requests, SyncLoad(r) PROVE PendingIsCreation'
  BY <1>27 DEF SyncLoad
<1>28. ASSUME NEW r \in Requests, SyncSave(r) PROVE PendingIsCreation'
  BY <1>28 DEF SyncSave
<1>29. ASSUME NEW r \in Requests, SyncFails(r) PROVE PendingIsCreation'
  BY <1>29 DEF SyncFails
<1>30. CASE ApiCrash
  BY <1>30 DEF ApiCrash
<1>31. CASE UNCHANGED vars
  BY <1>31 DEF vars
<1>32. CASE Refuse(Creator, "create")
  BY <1>32 DEF Refuse, Go
<1>33. ASSUME NEW r \in Requests \ {Creator}, NEW what \in {"submit", "transform"},
              Refuse(r, what)
       PROVE  PendingIsCreation'
  BY <1>33 DEF Refuse, Go
<1> QED
  BY <1>1, <1>2, <1>3, <1>4, <1>5, <1>6, <1>7, <1>8, <1>9, <1>10, <1>11, <1>12, <1>13, <1>14,
     <1>15, <1>16, <1>17, <1>18, <1>19, <1>20, <1>21, <1>22, <1>23, <1>24, <1>25, <1>26,
     <1>27, <1>28, <1>29, <1>30, <1>31, <1>32, <1>33
  DEF Next, Create, CreateRequest, Request, Submit, SubmitRequest, Transform,
      TransformRequest, Delete, WorkerStep, SyncStep

\* No second job stores anomalies before a deletion.
LEMMA DetectionStep == BaseInv /\ FilesInv /\ SourceInv /\ DetectionInv /\ [Next]_vars => DetectionInv'
<1> SUFFICES ASSUME BaseInv /\ FilesInv /\ SourceInv /\ DetectionInv, [Next]_vars PROVE DetectionInv'
  OBVIOUS
<1> USE RequestsAssumption, LimitsAssumption
     DEF BaseInv, TypeOK, ControlInv, KindInv, EnqueuedInv, WorkerInv, SyncInv, Keys,
         Statuses, MidWay, Terminal, Settled, Exists, vars, storageVars, tableVars,
         requestVars, queueVars, syncVars, FilesInv, SourceInv, DetectionInv, Deleted
<1>1. CASE CreateUpload
  BY <1>1 DEF CreateUpload, Put, Go
<1>2. CASE CreateSave
  BY <1>2 DEF CreateSave, Go
<1>3. CASE CreateEnqueue
  BY <1>3 DEF CreateEnqueue, Enqueue, Go
<1>4. CASE CreateMark
  BY <1>4 DEF CreateMark, SaveProcessing, Go
<1>5. ASSUME NEW r \in Requests, SubmitLoad(r) PROVE DetectionInv'
  <2>1. UNCHANGED <<found, step, job, input>> /\ (~Deleted' => ~Deleted)
    BY <1>5 DEF SubmitLoad, Load, Go
  <2>2. job[r] = "none" /\ pc'[r] \in {"resolve", "rejected"}
    BY <1>5 DEF SubmitLoad, Load, Go
  <2>3. \A q \in Requests \ {r} :
           pc'[q] = pc[q] /\ kind'[q] = kind[q] /\ copy'[q] = copy[q]
    BY <1>5 DEF SubmitLoad, Load, Go
  <2>4. QED
    BY <2>1, <2>2, <2>3
<1>6. ASSUME NEW r \in Requests, SubmitResolve(r) PROVE DetectionInv'
  BY <1>6 DEF SubmitResolve, Go
<1>7. ASSUME NEW r \in Requests, SubmitEnqueue(r) PROVE DetectionInv'
  BY <1>7 DEF SubmitEnqueue, Enqueue, Go
<1>8. ASSUME NEW r \in Requests, SubmitMark(r) PROVE DetectionInv'
  BY <1>8 DEF SubmitMark, SaveProcessing, Go
<1>9. ASSUME NEW r \in Requests, TransformLoad(r) PROVE DetectionInv'
  <2>1. UNCHANGED <<found, step, job, input>> /\ (~Deleted' => ~Deleted)
    BY <1>9 DEF TransformLoad, Load, Go
  <2>2. /\ job[r] = "none"
        /\ \/ pc'[r] = "rejected"
           \/ pc'[r] = "enqueue" /\ kind'[r] = "transform" /\ copy'[r].key # SourceKey
    BY <1>9 DEF TransformLoad, Load, Go
  <2>3. \A q \in Requests \ {r} :
           pc'[q] = pc[q] /\ kind'[q] = kind[q] /\ copy'[q] = copy[q]
    BY <1>9 DEF TransformLoad, Load, Go
  <2>4. QED
    BY <2>1, <2>2, <2>3
<1>10. ASSUME NEW r \in Requests, TransformEnqueue(r) PROVE DetectionInv'
  BY <1>10 DEF TransformEnqueue, Enqueue, Go
<1>11. ASSUME NEW r \in Requests, TransformMark(r) PROVE DetectionInv'
  BY <1>11 DEF TransformMark, SaveProcessing, Go
<1>12. ASSUME NEW r \in Requests, DeleteLoad(r) PROVE DetectionInv'
  BY <1>12 DEF DeleteLoad, Load, Go
<1>13. ASSUME NEW r \in Requests, DeleteObject(r) PROVE DetectionInv'
  BY <1>13 DEF DeleteObject, Discard, Go
<1>14. ASSUME NEW r \in Requests, DeleteRow(r) PROVE DetectionInv'
  BY <1>14 DEF DeleteRow, Go
<1>15. ASSUME NEW r \in Requests, RequestFails(r) PROVE DetectionInv'
  BY <1>15 DEF RequestFails, Go
<1>16. ASSUME NEW r \in Requests, Pick(r) PROVE DetectionInv'
  BY <1>16 DEF Pick
<1>17. ASSUME NEW r \in Requests, Backoff(r) PROVE DetectionInv'
  BY <1>17 DEF Backoff
<1>18. ASSUME NEW r \in Requests, Download(r) PROVE DetectionInv'
  BY <1>18 DEF Download, Downloadable, Stored, Proceed, FailAttempt, Settle
<1>19. ASSUME NEW r \in Requests, Inspect(r) PROVE DetectionInv'
  BY <1>19 DEF Inspect, Proceed
<1>20. ASSUME NEW r \in Requests, SaveAnomalies(r) PROVE DetectionInv'
  <2>1. CASE Exists(row)
    <3>1. UNCHANGED <<row, kind, pc, copy, job, input>> /\ (~Deleted' => ~Deleted)
      BY <1>20, <2>1 DEF SaveAnomalies, Proceed
    <3>2. step[r] = "persist" /\ step' = [step EXCEPT ![r] = "review"]
          /\ found' = found \cup {Batch(r)}
      BY <1>20, <2>1 DEF SaveAnomalies, Proceed
    <3>3. ASSUME ~Deleted
          PROVE  found = {} /\ r = Creator
      BY <3>2, <3>3
    <3>4. Cardinality({Batch(r)}) = 1
      BY FS_Singleton
    <3>5. ASSUME ~Deleted
          PROVE  Cardinality(found') <= 1
      <4>1. found' = {Batch(r)}
        BY <3>2, <3>3, <3>5
      <4>2. QED
        BY <4>1, <3>4
    <3>6. QED
      BY <3>1, <3>2, <3>3, <3>5
  <2>2. CASE ~Exists(row)
    BY <1>20, <2>2 DEF SaveAnomalies, FailAttempt, Settle
  <2>3. QED
    BY <2>1, <2>2
<1>21. ASSUME NEW r \in Requests, AllDecided(r) PROVE DetectionInv'
  BY <1>21 DEF AllDecided, Proceed
<1>22. ASSUME NEW r \in Requests, ReviewTimeout(r) PROVE DetectionInv'
  BY <1>22 DEF ReviewTimeout, Proceed
<1>23. ASSUME NEW r \in Requests, UploadOutput(r) PROVE DetectionInv'
  BY <1>23 DEF UploadOutput, Put
<1>24. ASSUME NEW r \in Requests, Complete(r) PROVE DetectionInv'
  BY <1>24 DEF Complete, Settle
<1>25. ASSUME NEW r \in Requests, WorkerFails(r) PROVE DetectionInv'
  BY <1>25 DEF WorkerFails, FailAttempt, Settle
<1>26. CASE WorkerCrash
  BY <1>26 DEF WorkerCrash, Active
<1>27. ASSUME NEW r \in Requests, SyncLoad(r) PROVE DetectionInv'
  BY <1>27 DEF SyncLoad
<1>28. ASSUME NEW r \in Requests, SyncSave(r) PROVE DetectionInv'
  BY <1>28 DEF SyncSave
<1>29. ASSUME NEW r \in Requests, SyncFails(r) PROVE DetectionInv'
  BY <1>29 DEF SyncFails
<1>30. CASE ApiCrash
  BY <1>30 DEF ApiCrash
<1>31. CASE UNCHANGED vars
  BY <1>31 DEF vars
<1>32. CASE Refuse(Creator, "create")
  BY <1>32 DEF Refuse, Go
<1>33. ASSUME NEW r \in Requests \ {Creator}, NEW what \in {"submit", "transform"},
              Refuse(r, what)
       PROVE  DetectionInv'
  BY <1>33 DEF Refuse, Go
<1> QED
  BY <1>1, <1>2, <1>3, <1>4, <1>5, <1>6, <1>7, <1>8, <1>9, <1>10, <1>11, <1>12, <1>13, <1>14,
     <1>15, <1>16, <1>17, <1>18, <1>19, <1>20, <1>21, <1>22, <1>23, <1>24, <1>25, <1>26,
     <1>27, <1>28, <1>29, <1>30, <1>31, <1>32, <1>33
  DEF Next, Create, CreateRequest, Request, Submit, SubmitRequest, Transform,
      TransformRequest, Delete, WorkerStep, SyncStep

-----------------------------------------------------------------------------
(* The inductive invariant and the properties it implies.                  *)

\* The inductive invariant holds initially.
LEMMA InitIInv == Init => IInv
<1> SUFFICES ASSUME Init PROVE IInv
  OBVIOUS
<1>1. FilesInv
  BY DEF Init, FilesInv, KnownKey, Absent
<1>2. SourceInv
  BY DEF Init, SourceInv, OutputsComeFromUpload
<1>3. ProcessingIsOwed /\ PendingIsCreation
  BY DEF Init, ProcessingIsOwed, PendingIsCreation, Absent
<1>4. DetectionInv
  BY RequestsAssumption, FS_EmptySet DEF Init, DetectionInv
<1>5. StorageInv
  BY RequestsAssumption DEF Init, StorageInv, Exists, Absent
<1>6. QED
  BY InitBase, <1>1, <1>2, <1>3, <1>4, <1>5 DEF IInv

\* The inductive invariant is preserved by every step.
LEMMA StepIInv == IInv /\ [Next]_vars => IInv'
BY BaseStep, FilesStep, StorageStep, SourceStep, OwedStep, PendingStep, DetectionStep DEF IInv

\* The inductive invariant, from which the safety properties follow.
THEOREM Inductive == Spec => []IInv
BY InitIInv, StepIInv, PTL DEF Spec

\* A READY dataset always offers the stored file of a completed job: the
\* whole-row saves of stale entities never make it offer anything else.
THEOREM ReadyIsDownloadable == Spec => []ReadyHasOutput
<1>1. IInv => ReadyHasOutput
  BY DEF IInv, FilesInv, KnownKey, ReadyHasOutput
<1>2. QED
  BY <1>1, Inductive, PTL

\* Every download finds its file, until somebody begins to delete the dataset:
\* the row never names a file that is not in the bucket that is asked for it.
THEOREM DownloadsAlwaysWork == Spec => []DownloadsWork
<1>1. IInv => DownloadsWork
  <2> SUFFICES ASSUME IInv, Exists(row), ~DeletionBegun
               PROVE  /\ Stored(LinkBucket(row.key), row.key)
                      /\ Stored(StreamBucket(row.key), row.key)
    BY DEF DownloadsWork
  <2>1. source
    BY DEF IInv, StorageInv
  <2>2. row.key # SourceKey => row.key \in outputs
    BY DEF IInv, FilesInv, KnownKey
  <2>3. QED
    BY <2>1, <2>2 DEF Stored, LinkBucket, StreamBucket
<1>2. QED
  BY <1>1, Inductive, PTL

\* A dataset stays PROCESSING with nothing under way only when a callback was
\* lost or a request's last save came after its job's outcome.
THEOREM StuckOnlyByLateSave == Spec => []ProcessingIsOwed
<1>1. IInv => ProcessingIsOwed
  BY DEF IInv
<1>2. QED
  BY <1>1, Inductive, PTL

\* PENDING is seen only while the dataset is being created, or when its
\* creation broke off.
THEOREM PendingOnlyWhileCreated == Spec => []PendingIsCreation
<1>1. IInv => PendingIsCreation
  BY DEF IInv
<1>2. QED
  BY <1>1, Inductive, PTL

\* No result is ever computed from an earlier result.
THEOREM NoChainedTransformation == Spec => []OutputsComeFromUpload
<1>1. IInv => OutputsComeFromUpload
  BY DEF IInv, SourceInv
<1>2. QED
  BY <1>1, Inductive, PTL

\* Of all the runs of all the jobs of a dataset, attempts and restarts after a
\* stall included, one stores anomalies, until the dataset is deleted.
THEOREM DetectedOnce == Spec => []SingleDetection
<1>1. IInv => SingleDetection
  BY DEF IInv, DetectionInv, SingleDetection
<1>2. QED
  BY <1>1, Inductive, PTL

-----------------------------------------------------------------------------
(* DatasetPipeline implements DatasetContract: its initial state is one of *)
(* the contract's, and each of its steps is a step of the contract or      *)
(* leaves what the client sees as it is.                                   *)

\* What the client sees of the jobs.
Seen == [r \in Requests |-> Outcome(r)]

Offered == IF row.status = "READY" THEN row.key ELSE SourceKey

\* Before anything is enqueued the client has no job and no file on offer.
LEMMA ContractStarts == Init => Contract!ContractInit
BY DEF Init, Contract!ContractInit, Outcome, Absent

\* The mapping follows the job states, and the file on offer follows the row.
LEMMA SeenUnchanged == UNCHANGED job => Seen' = Seen
BY DEF Seen, Outcome

\* Steps that touch neither a job's state, nor an output, nor the row's file
\* on offer are invisible.
LEMMA Invisible ==
    ASSUME UNCHANGED <<Seen, outputs, Offered>>
    PROVE  UNCHANGED Contract!contractVars
BY DEF Contract!contractVars, Seen, Offered

\* A step that changes no job and no output, and offers the same file or none,
\* is at most a withdrawal of the file on offer.
LEMMA Hides ==
    ASSUME UNCHANGED <<Seen, outputs>>, Offered' \in {Offered, SourceKey}
    PROVE  Contract!ContractNext \/ UNCHANGED Contract!contractVars
<1>1. CASE Offered' = Offered
  BY <1>1, Invisible
<1>2. CASE Offered' = SourceKey
  BY <1>2 DEF Contract!ContractNext, Contract!Withdraw, Seen, Offered
<1>3. QED
  BY <1>1, <1>2

\* Enqueueing a job is accepting it: it had not been enqueued before.
LEMMA EnqueueAccepts ==
    ASSUME IInv, NEW r \in Requests, Enqueue(r)
    PROVE  Contract!Accept(r)
<1>1. job \in [Requests -> {"none", "waiting", "active", "delayed"} \cup Settled] /\ job[r] = "none"
  BY DEF IInv, BaseInv, TypeOK, ControlInv, EnqueuedInv, Enqueue
<1>2. UNCHANGED <<outputs, row>> /\ job' = [job EXCEPT ![r] = "waiting"]
  BY DEF Enqueue, storageVars
<1>3. Seen[r] = "none" /\ Seen' = [Seen EXCEPT ![r] = "accepted"]
  BY <1>1, <1>2 DEF Seen, Outcome, Settled
<1>4. QED
  BY <1>2, <1>3 DEF Contract!Accept, Seen, Offered

\* An attempt that fails is invisible while attempts are left, and the end of
\* the job for the client when they are used up.
LEMMA FailAttemptGivesUp ==
    ASSUME IInv, NEW r \in Requests, job[r] = "active", FailAttempt(r)
    PROVE  Contract!ContractNext \/ UNCHANGED Contract!contractVars
<1>1. job \in [Requests -> {"none", "waiting", "active", "delayed"} \cup Settled]
  BY DEF IInv, BaseInv, TypeOK
<1>2. UNCHANGED <<outputs, row>>
  BY DEF FailAttempt, storageVars
<1>3. CASE attempts[r] + 1 < MaxAttempts
  <2>1. Seen' = Seen
    BY <1>1, <1>3 DEF FailAttempt, Seen, Outcome, Settled
  <2>2. QED
    BY <2>1, <1>2, Invisible DEF Offered
<1>4. CASE ~(attempts[r] + 1 < MaxAttempts)
  <2>1. job' = [job EXCEPT ![r] = "failed"]
    BY <1>4 DEF FailAttempt, Settle
  <2>2. Seen[r] = "accepted" /\ Seen' = [j \in Requests |-> IF j \in {r} THEN "failed" ELSE Seen[j]]
    BY <1>1, <2>1 DEF Seen, Outcome, Settled
  <2>3. Contract!GiveUp({r})
    BY <1>2, <2>2 DEF Contract!GiveUp, Seen, Offered
  <2>4. QED
    BY <2>3 DEF Contract!ContractNext
<1>5. QED
  BY <1>3, <1>4

\* Returning the outputKey fulfils the job: its file has been uploaded.
LEMMA CompleteFulfils ==
    ASSUME IInv, NEW r \in Requests, Complete(r)
    PROVE  Contract!Fulfil(r)
<1>1. job \in [Requests -> {"none", "waiting", "active", "delayed"} \cup Settled]
  BY DEF IInv, BaseInv, TypeOK
<1>2. job[r] = "active" /\ r \in outputs
  BY DEF IInv, BaseInv, ControlInv, WorkerInv, Complete
<1>3. UNCHANGED <<outputs, row>> /\ job' = [job EXCEPT ![r] = "completed"]
  BY DEF Complete, Settle, storageVars
<1>4. Seen[r] = "accepted" /\ Seen' = [Seen EXCEPT ![r] = "completed"]
  BY <1>1, <1>2, <1>3 DEF Seen, Outcome, Settled
<1>5. QED
  BY <1>2, <1>3, <1>4 DEF Contract!Fulfil, Seen, Offered

\* Uploading the result file is a delivery for an accepted job.
LEMMA UploadDelivers ==
    ASSUME IInv, NEW r \in Requests, UploadOutput(r)
    PROVE  Contract!Deliver(r)
<1>1. job[r] = "active"
  BY DEF IInv, BaseInv, ControlInv, WorkerInv, UploadOutput
<1>2. Seen[r] = "accepted" /\ Seen' = Seen
  BY <1>1, SeenUnchanged DEF Seen, Outcome, UploadOutput, Settled
<1>3. QED
  BY <1>2 DEF Contract!Deliver, Seen, UploadOutput, Put

\* The jobs that stall too often fail together.
LEMMA CrashGivesUp ==
    ASSUME IInv, WorkerCrash
    PROVE  Contract!ContractNext \/ UNCHANGED Contract!contractVars
<1> DEFINE tooOften == {r \in Active : stalls[r] >= MaxStalls}
<1>1. job \in [Requests -> {"none", "waiting", "active", "delayed"} \cup Settled]
  BY DEF IInv, BaseInv, TypeOK
<1>2. UNCHANGED <<outputs, row>>
  BY DEF WorkerCrash, storageVars
<1>3. job' = [r \in Requests |-> IF r \in tooOften THEN "failed"
                                 ELSE IF r \in Active THEN "waiting" ELSE job[r]]
  BY DEF WorkerCrash
<1>4. \A r \in tooOften : r \in Requests /\ Seen[r] = "accepted"
  BY DEF Active, Seen, Outcome, Settled
<1>5. Seen' = [r \in Requests |-> IF r \in tooOften THEN "failed" ELSE Seen[r]]
  <2>1. ASSUME NEW r \in Requests
        PROVE  Outcome(r)' = IF r \in tooOften THEN "failed" ELSE Seen[r]
    BY <1>1, <1>3 DEF Seen, Outcome, Active, Settled
  <2>2. QED
    BY <2>1 DEF Seen
<1>6. CASE tooOften = {}
  <2>1. Seen' = Seen
    BY <1>5, <1>6 DEF Seen
  <2>2. QED
    BY <2>1, <1>2, Invisible DEF Offered
<1>7. CASE tooOften # {}
  <2>1. Contract!GiveUp(tooOften)
    BY <1>2, <1>4, <1>5, <1>7 DEF Contract!GiveUp, Seen, Offered
  <2>2. tooOften \in SUBSET Requests
    BY <1>4
  <2>3. QED
    BY <2>1, <2>2 DEF Contract!ContractNext
<1>8. QED
  BY <1>6, <1>7

\* Only a completed job's callback makes the dataset READY.
LEMMA SyncSavePublishes ==
    ASSUME IInv, NEW r \in Requests, SyncSave(r)
    PROVE  Contract!ContractNext \/ UNCHANGED Contract!contractVars
<1>1. UNCHANGED <<outputs, Seen>>
  BY SeenUnchanged DEF SyncSave, storageVars, queueVars
<1>2. CASE job[r] = "completed"
  <2>1. Offered' = r /\ r \in outputs /\ Seen[r] = "completed"
    BY <1>2 DEF SyncSave, Offered, Seen, Outcome, Settled, IInv, BaseInv, ControlInv, WorkerInv
  <2>2. Contract!Publish(r)
    BY <1>1, <2>1 DEF Contract!Publish, Seen, Offered
  <2>3. QED
    BY <2>2 DEF Contract!ContractNext
<1>3. CASE job[r] # "completed"
  <2>1. row' = [entity[r] EXCEPT !.status = "ERROR"] /\ entity[r] \in Row
    BY <1>3 DEF SyncSave, IInv, BaseInv, TypeOK
  <2>2. Offered' = SourceKey
    BY <2>1, RowTyped DEF Offered, Statuses
  <2>3. QED
    BY <1>1, <2>2, Hides
<1>4. QED
  BY <1>2, <1>3

\* The whole-row save of a request takes the file off offer.
LEMMA SaveProcessingHides ==
    ASSUME IInv, NEW r \in Requests, SaveProcessing(r)
    PROVE  Contract!ContractNext \/ UNCHANGED Contract!contractVars
<1>1. copy[r] \in Row /\ "PROCESSING" \in Statuses
  BY DEF IInv, BaseInv, TypeOK, Statuses
<1>2. Offered' = SourceKey
  BY <1>1, RowTyped DEF SaveProcessing, Offered
<1>3. UNCHANGED <<outputs, Seen>>
  BY SeenUnchanged DEF SaveProcessing, storageVars, queueVars
<1>4. QED
  BY <1>2, <1>3, Hides

\* Every step of the pipeline is a step of the contract, or invisible to the
\* client.
LEMMA StepKeepsContract ==
    IInv /\ [Next]_vars => Contract!ContractNext \/ UNCHANGED Contract!contractVars
<1> SUFFICES ASSUME IInv, [Next]_vars
             PROVE  Contract!ContractNext \/ UNCHANGED Contract!contractVars
  OBVIOUS
<1> DEFINE Kept == Contract!ContractNext \/ UNCHANGED Contract!contractVars
<1> USE DEF storageVars, tableVars, requestVars, queueVars, syncVars
<1>a. ASSUME UNCHANGED <<job, outputs, row>> PROVE Kept
  BY <1>a, SeenUnchanged, Invisible DEF Offered
<1>b. ASSUME NEW r \in Requests, Enqueue(r) PROVE Kept
  BY <1>b, EnqueueAccepts DEF Contract!ContractNext
<1>c. ASSUME NEW r \in Requests, FailAttempt(r), step[r] # "idle" PROVE Kept
  BY <1>c, FailAttemptGivesUp DEF IInv, BaseInv, ControlInv, WorkerInv
<1>d. ASSUME UNCHANGED <<outputs, row>>, Seen' = Seen PROVE Kept
  BY <1>d, Invisible DEF Offered
<1>1. CASE Create
  <2>1. CASE CreateUpload
    BY <2>1, <1>a DEF CreateUpload, Put
  <2>2. CASE CreateSave
    <3>1. UNCHANGED <<job, outputs>> /\ Offered' = SourceKey
      BY <2>2 DEF CreateSave, Offered
    <3>2. QED
      BY <3>1, SeenUnchanged, Hides
  <2>3. CASE Refuse(Creator, "create")
    BY <2>3, <1>a DEF Refuse
  <2>4. QED
    BY <1>1, <1>b, <2>1, <2>2, <2>3, SaveProcessingHides, RequestsAssumption
       DEF Create, CreateRequest, CreateEnqueue, CreateMark
<1>2. ASSUME NEW r \in Requests, Request(r) PROVE Kept
  <2>1. CASE SubmitLoad(r) \/ TransformLoad(r) \/ DeleteLoad(r)
    BY <2>1, <1>a DEF SubmitLoad, TransformLoad, DeleteLoad, Load
  <2>2. CASE SubmitResolve(r) \/ DeleteObject(r)
    BY <2>2, <1>a DEF SubmitResolve, DeleteObject, Discard
  <2>3. CASE SubmitEnqueue(r) \/ TransformEnqueue(r)
    BY <2>3, <1>b DEF SubmitEnqueue, TransformEnqueue
  <2>4. CASE SubmitMark(r) \/ TransformMark(r)
    BY <2>4, SaveProcessingHides DEF SubmitMark, TransformMark
  <2>5. CASE DeleteRow(r)
    <3>1. UNCHANGED <<job, outputs>> /\ Offered' \in {Offered, SourceKey}
      BY <2>5 DEF DeleteRow, Offered, Absent
    <3>2. QED
      BY <3>1, SeenUnchanged, Hides
  <2>6. CASE Refuse(r, "submit") \/ Refuse(r, "transform")
    BY <2>6, <1>a DEF Refuse
  <2>7. QED
    BY <1>2, <2>1, <2>2, <2>3, <2>4, <2>5, <2>6
       DEF Request, Submit, SubmitRequest, Transform, TransformRequest, Delete
<1>3. ASSUME NEW r \in Requests, WorkerStep(r) PROVE Kept
  <2>1. CASE Pick(r) \/ Backoff(r)
    <3>1. UNCHANGED <<outputs, row>> /\ Seen' = Seen
      BY <2>1 DEF Pick, Backoff, Seen, Outcome, Settled, IInv, BaseInv, TypeOK
    <3>2. QED
      BY <3>1, <1>d
  <2>2. CASE Download(r)
    BY <2>2, <1>a, <1>c DEF Download, Proceed
  <2>3. CASE Inspect(r) \/ AllDecided(r) \/ ReviewTimeout(r)
    BY <2>3, <1>a DEF Inspect, AllDecided, ReviewTimeout, Proceed
  <2>4. CASE SaveAnomalies(r)
    BY <2>4, <1>a, <1>c DEF SaveAnomalies, Proceed
  <2>5. CASE UploadOutput(r)
    BY <2>5, UploadDelivers DEF Contract!ContractNext
  <2>6. CASE Complete(r)
    BY <2>6, CompleteFulfils DEF Contract!ContractNext
  <2>7. QED
    BY <1>3, <2>1, <2>2, <2>3, <2>4, <2>5, <2>6 DEF WorkerStep
<1>4. ASSUME NEW r \in Requests, RequestFails(r) \/ SyncLoad(r) \/ SyncFails(r) PROVE Kept
  BY <1>4, <1>a DEF RequestFails, SyncLoad, SyncFails
<1>5. ASSUME NEW r \in Requests, WorkerFails(r) PROVE Kept
  BY <1>5, FailAttemptGivesUp DEF WorkerFails
<1>6. ASSUME NEW r \in Requests, SyncSave(r) PROVE Kept
  BY <1>6, SyncSavePublishes
<1>7. CASE WorkerCrash
  BY <1>7, CrashGivesUp
<1>8. CASE ApiCrash
  BY <1>8, <1>a DEF ApiCrash
<1>9. CASE UNCHANGED vars
  BY <1>9, <1>a DEF vars
<1> QED
  BY <1>1, <1>2, <1>3, <1>4, <1>5, <1>6, <1>7, <1>8, <1>9 DEF Next, SyncStep

\* The pipeline implements the safety part of the contract with its client.
THEOREM PipelineKeepsContract == Spec => KeepsContract
<1>1. Init => Contract!ContractInit
  BY ContractStarts
<1>2. IInv /\ [Next]_vars => [Contract!ContractNext]_(Contract!contractVars)
  BY StepKeepsContract
<1>3. QED
  BY <1>1, <1>2, Inductive, PTL DEF Spec, KeepsContract, Contract!ContractSafety

=============================================================================
