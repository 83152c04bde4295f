------------------------- MODULE AnomalyReview_proofs -------------------------
(***************************************************************************)
(* Proofs of the safety properties of AnomalyReview.                       *)
(***************************************************************************)
EXTENDS Reports, TLAPS

\* A save keeps the tables typed and leaves every other anomaly alone; on its
\* own, the status is the entity's and a decision is never cleared.
LEMMA SaveEffect ==
    ASSUME TypeOK, NEW a \in Anomalies, NEW r \in Row, Save(a, r)
    PROVE  /\ table' \in [Anomalies -> Row]
           /\ \A b \in Anomalies \ {a} : table'[b] = table[b]
           /\ table'[a].status = r.status
           /\ table'[a].suggested = r.suggested
           /\ r.decision # Nobody => table'[a].decision = r.decision
           /\ r.decision = Nobody => table'[a].decision = table[a].decision
           /\ Decided \subseteq Decided'
<1>1. table'[a] = [r EXCEPT !.decision = IF @ = Nobody THEN table[a].decision ELSE @]
  BY DEF Save, TypeOK
<1>2. table'[a] \in Row
  BY <1>1 DEF TypeOK, Row
<1>3. table' \in [Anomalies -> Row] /\ \A b \in Anomalies \ {a} : table'[b] = table[b]
  BY <1>2 DEF Save, TypeOK
<1>4. /\ table'[a].status = r.status
      /\ table'[a].suggested = r.suggested
      /\ table'[a].decision = IF r.decision = Nobody THEN table[a].decision ELSE r.decision
  BY <1>1 DEF Row
<1>5. QED
  BY <1>3, <1>4 DEF Decided

\* The entity that a submission saves.
LEMMA ResolveTyped ==
    ASSUME NEW r \in Row, NEW s \in Submissions
    PROVE  /\ Resolve(r, s) \in Row
           /\ Resolve(r, s).status = "RESOLVED"
           /\ Resolve(r, s).decision = s
           /\ Resolve(r, s).decision # Nobody
BY NamesAssumption DEF Resolve, Row, Deciders

\* The entity that a webhook call saves.
LEMMA SuggestTyped ==
    ASSUME NEW r \in Row
    PROVE  LET e == [r EXCEPT !.suggested = TRUE]
           IN  e \in Row /\ e.status = r.status /\ e.decision = r.decision /\ e.suggested
BY DEF Row

\* Loading keeps the entities in memory typed.
LEMMA LoadTyped ==
    ASSUME TypeOK, NEW c \in Callers, NEW a \in Anomalies, Load(c, a)
    PROVE  held' \in [Callers -> Entity] /\ held'[c] = [of |-> a, row |-> table[a]]
           /\ \A d \in Callers \ {c} : held'[d] = held[d]
BY DEF TypeOK, Load, Entity

\* Ending a turn of the loop drops the entity.
LEMMA ForgetTyped ==
    ASSUME TypeOK, NEW c \in Callers, NEW a \in Anomalies, Forget(c)
    PROVE  held' \in [Callers -> Entity] /\ held'[c].row = Fresh
           /\ \A d \in Callers \ {c} : held'[d] = held[d]
<1>1. Empty \in Entity /\ Empty.row = Fresh
  BY DEF Empty, Fresh, Entity, Row, Deciders
<1>2. QED
  BY <1>1 DEF TypeOK, Forget

-----------------------------------------------------------------------------
(* Types.                                                                  *)

\* Initially nothing is decided, and only the first job runs.
LEMMA InitTyped == Init => TypeOK
<1> SUFFICES ASSUME Init PROVE TypeOK
  OBVIOUS
<1>1. Fresh \in Row
  BY DEF Fresh, Row, Deciders
<1>2. Anomalies # {} => Empty \in Entity
  BY <1>1 DEF Empty, Entity
<1>3. held \in [Callers -> Entity]
  BY <1>1, <1>2, AnomaliesAssumption DEF Init
<1>4. table \in [Anomalies -> Row]
  BY <1>1 DEF Init
<1>5. applied \in [Jobs -> [Anomalies -> Deciders]]
  BY DEF Init, Deciders
<1>6. polls \in [Jobs -> 0 .. MaxPolls] /\ retries \in [Jobs -> 0 .. MaxRetries]
  BY BoundsAssumption DEF Init
<1>7. QED
  BY <1>3, <1>4, <1>5, <1>6 DEF Init, TypeOK

\* Every step keeps the types.
LEMMA TypeStep == TypeOK /\ [Next]_vars => TypeOK'
<1> SUFFICES ASSUME TypeOK, [Next]_vars PROVE TypeOK'
  OBVIOUS
<1> USE DEF TypeOK, apiVars, workerVars
<1>1. ASSUME NEW s \in Submissions, SubmitStart(s) PROVE TypeOK'
  BY <1>1 DEF SubmitStart
<1>2. ASSUME NEW s \in Submissions, SubmitLoad(s) PROVE TypeOK'
  <2>1. PICK a \in Anomalies : Load(s, a)
    BY <1>2 DEF SubmitLoad
  <2>2. held' \in [Callers -> Entity]
    BY <2>1, LoadTyped DEF Callers
  <2>3. QED
    BY <1>2, <2>2 DEF SubmitLoad
<1>3. ASSUME NEW s \in Submissions, SubmitSave(s) PROVE TypeOK'
  <2>1. held[s].of \in Anomalies /\ held[s].row \in Row
    BY DEF Callers, Entity
  <2>2. table' \in [Anomalies -> Row]
    BY <1>3, <2>1, SaveEffect, ResolveTyped DEF SubmitSave
  <2>3. held' \in [Callers -> Entity]
    BY <1>3, <2>1, ForgetTyped DEF SubmitSave, Callers
  <2>4. QED
    BY <1>3, <2>2, <2>3 DEF SubmitSave
<1>4. ASSUME NEW s \in Submissions, SubmitThrows(s) PROVE TypeOK'
  <2>1. held[s].of \in Anomalies
    BY DEF Callers, Entity
  <2>2. held' \in [Callers -> Entity]
    BY <1>4, <2>1, ForgetTyped DEF SubmitThrows, Callers
  <2>3. QED
    BY <1>4, <2>2 DEF SubmitThrows
<1>5. ASSUME NEW s \in Submissions, SubmitEnqueue(s) PROVE TypeOK'
  BY <1>5 DEF SubmitEnqueue
<1>6. ASSUME NEW w \in Webhooks, SuggestLoad(w) PROVE TypeOK'
  <2>1. PICK a \in Anomalies : Load(w, a)
    BY <1>6 DEF SuggestLoad
  <2>2. held' \in [Callers -> Entity]
    BY <2>1, LoadTyped DEF Callers
  <2>3. QED
    BY <1>6, <2>2 DEF SuggestLoad
<1>7. ASSUME NEW w \in Webhooks, SuggestSave(w) PROVE TypeOK'
  <2>1. held[w].of \in Anomalies /\ held[w].row \in Row
    BY DEF Callers, Entity
  <2>2. table' \in [Anomalies -> Row]
    BY <1>7, <2>1, SaveEffect, SuggestTyped DEF SuggestSave
  <2>3. held' \in [Callers -> Entity]
    BY <1>7, <2>1, ForgetTyped DEF SuggestSave, Callers
  <2>4. QED
    BY <1>7, <2>2, <2>3 DEF SuggestSave
<1>8. ASSUME NEW w \in Webhooks, SuggestThrows(w) PROVE TypeOK'
  <2>1. held[w].of \in Anomalies
    BY DEF Callers, Entity
  <2>2. held' \in [Callers -> Entity]
    BY <1>8, <2>1, ForgetTyped DEF SuggestThrows, Callers
  <2>3. QED
    BY <1>8, <2>2 DEF SuggestThrows
<1>9. ASSUME NEW j \in Jobs, StartReview(j) PROVE TypeOK'
  BY <1>9, BoundsAssumption DEF StartReview, Advance
<1>10. ASSUME NEW j \in Jobs, Poll(j) PROVE TypeOK'
  <2>1. polls' \in [Jobs -> 0 .. MaxPolls]
    BY <1>10, BoundsAssumption DEF Poll
  <2>2. job' = job \/ Advance(j, "reviewed")
    BY <1>10 DEF Poll
  <2>3. QED
    BY <1>10, <2>1, <2>2 DEF Poll, Advance
<1>11. ASSUME NEW j \in Jobs, Expire(j) PROVE TypeOK'
  BY <1>11 DEF Expire, Advance
<1>12. ASSUME NEW j \in Jobs, Apply(j) PROVE TypeOK'
  <2>1. [a \in Anomalies |-> table[a].decision] \in [Anomalies -> Deciders]
    BY DEF Row
  <2>2. QED
    BY <1>12, <2>1 DEF Apply, Advance
<1>13. ASSUME NEW j \in Jobs, Rerun(j) PROVE TypeOK'
  <2>1. retries' \in [Jobs -> 0 .. MaxRetries]
    BY <1>13, BoundsAssumption DEF Rerun
  <2>2. Advance(j, "queued") \/ Advance(j, "failed")
    BY <1>13 DEF Rerun
  <2>3. QED
    BY <1>13, <2>1, <2>2 DEF Rerun, Advance
<1>14. ASSUME NEW j \in Jobs, Ask(j) PROVE TypeOK'
  <2>1. PICK a \in asking[j] :
           /\ table' = [table EXCEPT ![a].suggested = TRUE] \/ UNCHANGED table
           /\ asking' = [asking EXCEPT ![j] = @ \ {a}]
    BY <1>14 DEF Ask
  <2>2. a \in Anomalies /\ table[a] \in Row
    OBVIOUS
  <2>3. [table[a] EXCEPT !.suggested = TRUE] \in Row
    BY <2>2 DEF Row
  <2>4. table' \in [Anomalies -> Row]
    BY <2>1, <2>2, <2>3
  <2>5. QED
    BY <1>14, <2>1, <2>4 DEF Ask
<1>15. CASE UNCHANGED vars
  BY <1>15 DEF vars
<1>16. QED
  BY <1>1, <1>2, <1>3, <1>4, <1>5, <1>6, <1>7, <1>8, <1>9, <1>10, <1>11, <1>12,
     <1>13, <1>14, <1>15 DEF Next, Submit, Suggest, Review

\* Every variable stays within its type.
THEOREM ReviewTypeCorrect == Spec => []TypeOK
BY InitTyped, TypeStep, PTL DEF Spec

-----------------------------------------------------------------------------
(* What a step can do to the tables.                                       *)

\* The tables change only by the save of a submission, by the save of a
\* webhook call, or by the worker's update of one suggestion.
LEMMA TableStep ==
    ASSUME TypeOK, [Next]_vars
    PROVE  \/ UNCHANGED table
           \/ \E s \in Submissions : SubmitSave(s)
           \/ \E w \in Webhooks : SuggestSave(w)
           \/ \E a \in Anomalies : table' = [table EXCEPT ![a].suggested = TRUE]
<1>1. ASSUME NEW j \in Jobs, Ask(j)
      PROVE  UNCHANGED table \/ \E a \in Anomalies : table' = [table EXCEPT ![a].suggested = TRUE]
  BY <1>1 DEF Ask, TypeOK
<1>2. ASSUME NEW j \in Jobs, Review(j) \/ Rerun(j) PROVE UNCHANGED table
  BY <1>2 DEF Review, StartReview, Poll, Expire, Apply, Rerun
<1>3. ASSUME NEW s \in Submissions, Submit(s) PROVE SubmitSave(s) \/ UNCHANGED table
  BY <1>3 DEF Submit, SubmitStart, SubmitLoad, SubmitThrows, SubmitEnqueue
<1>4. ASSUME NEW w \in Webhooks, Suggest(w) PROVE SuggestSave(w) \/ UNCHANGED table
  BY <1>4 DEF Suggest, SuggestLoad, SuggestThrows
<1>5. CASE UNCHANGED vars
  BY <1>5 DEF vars
<1>6. QED
  BY <1>1, <1>2, <1>3, <1>4, <1>5 DEF Next

\* The effect of the worker's update.
LEMMA AskEffect ==
    ASSUME TypeOK, NEW a \in Anomalies, table' = [table EXCEPT ![a].suggested = TRUE]
    PROVE  \A b \in Anomalies :
              /\ table'[b].status = table[b].status
              /\ table'[b].decision = table[b].decision
              /\ table[b].suggested => table'[b].suggested
<1>1. table'[a] = [table[a] EXCEPT !.suggested = TRUE]
  BY DEF TypeOK
<1>2. \A b \in Anomalies \ {a} : table'[b] = table[b]
  BY DEF TypeOK
<1>3. table[a] \in Row
  BY DEF TypeOK
<1>4. QED
  BY <1>1, <1>2, <1>3 DEF Row

\* No step takes a decision back.
LEMMA DecisionsGrow == TypeOK /\ [Next]_vars => Decided \subseteq Decided'
<1> SUFFICES ASSUME TypeOK, [Next]_vars PROVE Decided \subseteq Decided'
  OBVIOUS
<1>1. ASSUME NEW s \in Submissions, SubmitSave(s) PROVE Decided \subseteq Decided'
  <2>1. held[s].of \in Anomalies /\ held[s].row \in Row
    BY DEF TypeOK, Callers, Entity
  <2>2. QED
    BY <1>1, <2>1, SaveEffect, ResolveTyped DEF SubmitSave
<1>2. ASSUME NEW w \in Webhooks, SuggestSave(w) PROVE Decided \subseteq Decided'
  <2>1. held[w].of \in Anomalies /\ held[w].row \in Row
    BY DEF TypeOK, Callers, Entity
  <2>2. QED
    BY <1>2, <2>1, SaveEffect, SuggestTyped DEF SuggestSave
<1>3. ASSUME NEW a \in Anomalies, table' = [table EXCEPT ![a].suggested = TRUE]
      PROVE  Decided \subseteq Decided'
  BY <1>3, AskEffect DEF Decided
<1>4. CASE UNCHANGED table
  BY <1>4 DEF Decided
<1>5. QED
  BY <1>1, <1>2, <1>3, <1>4, TableStep

\* With the worker making the suggestions, no step takes a status back.
LEMMA ResolvedGrow ==
    TypeOK /\ HookInv /\ mode = "gemini" /\ [Next]_vars => Resolved \subseteq Resolved'
<1> SUFFICES ASSUME TypeOK, HookInv, mode = "gemini", [Next]_vars PROVE Resolved \subseteq Resolved'
  OBVIOUS
<1>1. ASSUME NEW s \in Submissions, SubmitSave(s) PROVE Resolved \subseteq Resolved'
  <2>1. held[s].of \in Anomalies /\ held[s].row \in Row
    BY DEF TypeOK, Callers, Entity
  <2>2. /\ table'[held[s].of].status = "RESOLVED"
        /\ \A b \in Anomalies \ {held[s].of} : table'[b] = table[b]
    BY <1>1, <2>1, SaveEffect, ResolveTyped DEF SubmitSave
  <2>3. QED
    BY <2>1, <2>2 DEF Resolved, Pending
<1>2. ASSUME NEW w \in Webhooks, SuggestSave(w) PROVE FALSE
  BY <1>2 DEF SuggestSave, HookInv
<1>3. ASSUME NEW a \in Anomalies, table' = [table EXCEPT ![a].suggested = TRUE]
      PROVE  Resolved \subseteq Resolved'
  BY <1>3, AskEffect DEF Resolved, Pending
<1>4. CASE UNCHANGED table
  BY <1>4 DEF Resolved, Pending
<1>5. QED
  BY <1>1, <1>2, <1>3, <1>4, TableStep

\* An anomaly's suggestion is lost only when it is decided.
LEMMA SuggestionsKept ==
    ASSUME TypeOK, [Next]_vars
    PROVE  \A a \in Anomalies :
              table[a].suggested /\ table'[a].decision = Nobody => table'[a].suggested
<1>1. ASSUME NEW s \in Submissions, SubmitSave(s), NEW a \in Anomalies,
             table[a].suggested, table'[a].decision = Nobody
      PROVE  table'[a].suggested
  <2>1. held[s].of \in Anomalies /\ held[s].row \in Row
    BY DEF TypeOK, Callers, Entity
  <2>2. /\ table'[held[s].of].decision # Nobody
        /\ \A b \in Anomalies \ {held[s].of} : table'[b] = table[b]
    BY <1>1, <2>1, SaveEffect, ResolveTyped DEF SubmitSave
  <2>3. QED
    BY <1>1, <2>1, <2>2
<1>2. ASSUME NEW w \in Webhooks, SuggestSave(w), NEW a \in Anomalies, table[a].suggested
      PROVE  table'[a].suggested
  <2>1. held[w].of \in Anomalies /\ held[w].row \in Row
    BY DEF TypeOK, Callers, Entity
  <2>2. /\ table'[held[w].of].suggested
        /\ \A b \in Anomalies \ {held[w].of} : table'[b] = table[b]
    BY <1>2, <2>1, SaveEffect, SuggestTyped DEF SuggestSave
  <2>3. QED
    BY <1>2, <2>1, <2>2
<1>3. QED
  BY <1>1, <1>2, TableStep, AskEffect

-----------------------------------------------------------------------------
(* The invariants.                                                         *)

\* RESOLVED comes with a decision, in the tables and in memory.
LEMMA EntityStep ==
    TypeOK /\ ResolvedHasDecision /\ EntityInv /\ [Next]_vars =>
        ResolvedHasDecision' /\ EntityInv'
<1> SUFFICES ASSUME TypeOK, ResolvedHasDecision, EntityInv, [Next]_vars
             PROVE  ResolvedHasDecision' /\ EntityInv'
  OBVIOUS
<1>1. ResolvedHasDecision'
  <2>1. ASSUME NEW s \in Submissions, SubmitSave(s) PROVE ResolvedHasDecision'
    <3>1. held[s].of \in Anomalies /\ held[s].row \in Row
      BY DEF TypeOK, Callers, Entity
    <3>2. /\ table'[held[s].of].decision # Nobody
          /\ \A b \in Anomalies \ {held[s].of} : table'[b] = table[b]
      BY <2>1, <3>1, SaveEffect, ResolveTyped DEF SubmitSave
    <3>3. QED
      BY <3>1, <3>2 DEF ResolvedHasDecision
  <2>2. ASSUME NEW w \in Webhooks, SuggestSave(w) PROVE ResolvedHasDecision'
    <3>1. held[w].of \in Anomalies /\ held[w].row \in Row /\ w \in Callers
      BY DEF TypeOK, Callers, Entity
    <3>2. /\ table'[held[w].of].status = held[w].row.status
          /\ held[w].row.decision # Nobody => table'[held[w].of].decision = held[w].row.decision
          /\ \A b \in Anomalies \ {held[w].of} : table'[b] = table[b]
      BY <2>2, <3>1, SaveEffect, SuggestTyped DEF SuggestSave
    <3>3. QED
      BY <3>1, <3>2 DEF ResolvedHasDecision, EntityInv
  <2>3. ASSUME NEW a \in Anomalies, table' = [table EXCEPT ![a].suggested = TRUE]
        PROVE  ResolvedHasDecision'
    BY <2>3, AskEffect DEF ResolvedHasDecision
  <2>4. CASE UNCHANGED table
    BY <2>4 DEF ResolvedHasDecision
  <2>5. QED
    BY <2>1, <2>2, <2>3, <2>4, TableStep
<1>2. EntityInv'
  <2>1. ASSUME NEW c \in Callers, NEW a \in Anomalies, Load(c, a) PROVE EntityInv'
    <3>1. held'[c] = [of |-> a, row |-> table[a]] /\ \A d \in Callers \ {c} : held'[d] = held[d]
      BY <2>1, LoadTyped
    <3>2. held'[c].row = table[a]
      BY <3>1
    <3>3. QED
      BY <3>1, <3>2 DEF EntityInv, ResolvedHasDecision
  <2>2. ASSUME NEW c \in Callers, Forget(c) PROVE EntityInv'
    <3>1. held[c].of \in Anomalies
      BY DEF TypeOK, Entity
    <3>2. QED
      BY <2>2, <3>1, ForgetTyped DEF EntityInv, Fresh
  <2>3. CASE UNCHANGED held
    BY <2>3 DEF EntityInv
  <2>4. ASSUME NEW s \in Submissions, Submit(s) PROVE EntityInv'
    BY <2>1, <2>2, <2>3, <2>4 DEF Submit, SubmitStart, SubmitLoad, SubmitSave,
       SubmitThrows, SubmitEnqueue, TypeOK, Callers
  <2>5. ASSUME NEW w \in Webhooks, Suggest(w) PROVE EntityInv'
    BY <2>1, <2>2, <2>5 DEF Suggest, SuggestLoad, SuggestSave, SuggestThrows, Callers
  <2>6. ASSUME NEW j \in Jobs, Review(j) \/ Rerun(j) \/ Ask(j) PROVE EntityInv'
    BY <2>3, <2>6 DEF Review, StartReview, Poll, Expire, Apply, Rerun, Ask, apiVars
  <2>7. QED
    BY <2>3, <2>4, <2>5, <2>6 DEF Next, vars, apiVars
<1>3. QED
  BY <1>1, <1>2

\* Only n8n calls the webhook.
LEMMA HookStep == TypeOK /\ HookInv /\ [Next]_vars => HookInv'
<1> SUFFICES ASSUME TypeOK, HookInv, [Next]_vars PROVE HookInv'
  OBVIOUS
<1> USE DEF TypeOK, HookInv
<1>1. ASSUME NEW s \in Submissions, Submit(s) PROVE HookInv'
  BY <1>1 DEF Submit, SubmitStart, SubmitLoad, SubmitSave, SubmitThrows, SubmitEnqueue
<1>2. ASSUME NEW w \in Webhooks, Suggest(w) PROVE HookInv'
  BY <1>2 DEF Suggest, SuggestLoad, SuggestSave, SuggestThrows
<1>3. ASSUME NEW j \in Jobs, Review(j) \/ Rerun(j) \/ Ask(j) PROVE HookInv'
  BY <1>3 DEF Review, StartReview, Poll, Expire, Apply, Rerun, Ask, apiVars
<1>4. CASE UNCHANGED vars
  BY <1>4 DEF vars, apiVars
<1>5. QED
  BY <1>1, <1>2, <1>3, <1>4 DEF Next

\* A job exists only when its submission is through, and sleeps only then.
LEMMA EnqueueStep == TypeOK /\ EnqueueInv /\ [Next]_vars => EnqueueInv'
<1> SUFFICES ASSUME TypeOK, EnqueueInv, [Next]_vars PROVE EnqueueInv'
  OBVIOUS
<1> USE DEF TypeOK, EnqueueInv, Jobs
<1>1. ASSUME NEW s \in Submissions, Submit(s) PROVE EnqueueInv'
  <2>1. CASE SubmitEnqueue(s)
    BY <2>1 DEF SubmitEnqueue
  <2>2. CASE SubmitStart(s) \/ SubmitLoad(s) \/ SubmitSave(s) \/ SubmitThrows(s)
    BY <2>2 DEF SubmitStart, SubmitLoad, SubmitSave, SubmitThrows, workerVars
  <2>3. QED
    BY <1>1, <2>1, <2>2 DEF Submit
<1>2. ASSUME NEW w \in Webhooks, Suggest(w) PROVE EnqueueInv'
  BY <1>2 DEF Suggest, SuggestLoad, SuggestSave, SuggestThrows, workerVars
<1>3. ASSUME NEW j \in Jobs, Review(j) \/ Rerun(j) \/ Ask(j) PROVE EnqueueInv'
  <2>1. CASE Review(j)
    BY <2>1 DEF Review, StartReview, Poll, Expire, Apply, Advance, apiVars
  <2>2. CASE Rerun(j) \/ Ask(j)
    BY <2>2 DEF Rerun, Running, Ask, Advance, apiVars
  <2>3. QED
    BY <1>3, <2>1, <2>2
<1>4. CASE UNCHANGED vars
  BY <1>4 DEF vars, apiVars, workerVars
<1>5. QED
  BY <1>1, <1>2, <1>3, <1>4 DEF Next

\* What a submission has saved so far.
Saved(s) ==
    IF pc[s] \in {"load", "save"} THEN chosen[s] \ todo[s]
    ELSE IF job[s] # "none" THEN chosen[s] ELSE {}

\* It grows only by the anomaly of a save.
LEMMA SavedStep ==
    ASSUME TypeOK, EnqueueInv, [Next]_vars, NEW s \in Submissions
    PROVE  Saved(s)' \subseteq Saved(s) \/ (SubmitSave(s) /\ Saved(s)' \subseteq Saved(s) \cup {held[s].of})
<1> USE DEF TypeOK, EnqueueInv, Saved, Jobs
<1>1. ASSUME NEW t \in Submissions, Submit(t), t # s PROVE Saved(s)' \subseteq Saved(s)
  BY <1>1 DEF Submit, SubmitStart, SubmitLoad, SubmitSave, SubmitThrows, SubmitEnqueue, workerVars
<1>2. CASE SubmitStart(s)
  BY <1>2 DEF SubmitStart, workerVars
<1>3. CASE SubmitLoad(s)
  BY <1>3 DEF SubmitLoad, workerVars
<1>4. CASE SubmitSave(s)
  BY <1>4 DEF SubmitSave, workerVars
<1>5. CASE SubmitThrows(s)
  BY <1>5 DEF SubmitThrows, workerVars
<1>6. CASE SubmitEnqueue(s)
  BY <1>6 DEF SubmitEnqueue
<1>7. ASSUME NEW w \in Webhooks, Suggest(w) PROVE Saved(s)' \subseteq Saved(s)
  BY <1>7 DEF Suggest, SuggestLoad, SuggestSave, SuggestThrows, workerVars
<1>8. ASSUME NEW j \in Jobs, Review(j) \/ Rerun(j) \/ Ask(j) PROVE Saved(s)' \subseteq Saved(s)
  <2>1. CASE Review(j)
    BY <2>1 DEF Review, StartReview, Poll, Expire, Apply, Advance, apiVars
  <2>2. CASE Rerun(j) \/ Ask(j)
    BY <2>2 DEF Rerun, Running, Ask, Advance, apiVars
  <2>3. QED
    BY <1>8, <2>1, <2>2
<1>9. CASE UNCHANGED vars
  BY <1>9 DEF vars, apiVars, workerVars
<1>10. QED
  BY <1>1, <1>2, <1>3, <1>4, <1>5, <1>6, <1>7, <1>8, <1>9 DEF Next, Submit

\* What has been saved is decided, and RESOLVED unless n8n interferes.
LEMMA ProgressStep ==
    TypeOK /\ HookInv /\ EnqueueInv /\ ProgressInv /\ [Next]_vars => ProgressInv'
<1> SUFFICES ASSUME TypeOK, HookInv, EnqueueInv, ProgressInv, [Next]_vars,
                    NEW s \in Submissions
             PROVE  Saved(s)' \subseteq Decided' /\ (mode' = "gemini" => Saved(s)' \subseteq Resolved')
  BY DEF ProgressInv, Saved
<1>1. Saved(s) \subseteq Decided /\ (mode = "gemini" => Saved(s) \subseteq Resolved)
  BY DEF ProgressInv, Saved
<1>2. mode' = mode
  BY DEF Next, vars, Submit, SubmitStart, SubmitLoad, SubmitSave, SubmitThrows, SubmitEnqueue,
     Suggest, SuggestLoad, SuggestSave, SuggestThrows, Review, StartReview, Poll, Expire, Apply,
     Rerun, Ask
<1>3. Decided \subseteq Decided' /\ (mode = "gemini" => Resolved \subseteq Resolved')
  BY DecisionsGrow, ResolvedGrow
<1>4. CASE Saved(s)' \subseteq Saved(s)
  BY <1>1, <1>2, <1>3, <1>4
<1>5. CASE SubmitSave(s) /\ Saved(s)' \subseteq Saved(s) \cup {held[s].of}
  <2>1. held[s].of \in Anomalies /\ held[s].row \in Row
    BY DEF TypeOK, Callers, Entity
  <2>2. table'[held[s].of].decision # Nobody /\ table'[held[s].of].status = "RESOLVED"
    BY <1>5, <2>1, SaveEffect, ResolveTyped DEF SubmitSave
  <2>3. held[s].of \in Decided' /\ held[s].of \in Resolved'
    BY <2>1, <2>2 DEF Decided, Resolved, Pending
  <2>4. QED
    BY <1>1, <1>2, <1>3, <1>5, <2>3
<1>6. QED
  BY <1>4, <1>5, SavedStep

\* Where a job can come from, and what it read if it is through.
LEMMA JobStep ==
    ASSUME TypeOK, [Next]_vars, NEW j \in Jobs
    PROVE  /\ job'[j] = "reviewed" => job[j] = "reviewed" \/ Pending = {}
           /\ job'[j] = "reviewed" => UNCHANGED table \/ job[j] = "reviewed"
           /\ job'[j] \in {"done", "doneLate"} =>
                 \/ job[j] = job'[j] /\ applied'[j] = applied[j]
                 \/ /\ job[j] = (IF job'[j] = "done" THEN "reviewed" ELSE "expired")
                    /\ applied'[j] = [a \in Anomalies |-> table[a].decision]
<1> USE DEF TypeOK, Jobs
<1>1. ASSUME NEW s \in Submissions, Submit(s)
      PROVE  UNCHANGED applied /\ (job'[j] = job[j] \/ job'[j] = "queued")
  BY <1>1 DEF Submit, SubmitStart, SubmitLoad, SubmitSave, SubmitThrows, SubmitEnqueue, workerVars
<1>2. ASSUME NEW w \in Webhooks, Suggest(w) PROVE UNCHANGED <<applied, job>>
  BY <1>2 DEF Suggest, SuggestLoad, SuggestSave, SuggestThrows, workerVars
<1>3. ASSUME NEW k \in Jobs, StartReview(k) \/ Poll(k) \/ Expire(k)
      PROVE  /\ UNCHANGED <<applied, table>>
             /\ job'[j] = job[j] \/ job'[j] \in {"review", "expired"}
                \/ (job'[j] = "reviewed" /\ Pending = {})
  BY <1>3 DEF StartReview, Poll, Expire, Advance
<1>4. ASSUME NEW k \in Jobs, Rerun(k) \/ Ask(k)
      PROVE  UNCHANGED applied /\ (job'[j] = job[j] \/ job'[j] \in {"queued", "failed"})
  BY <1>4 DEF Rerun, Ask, Advance
<1>5. ASSUME NEW k \in Jobs, Apply(k)
      PROVE  \/ job'[j] = job[j] /\ applied'[j] = applied[j]
             \/ /\ job'[j] \in {"done", "doneLate"}
                /\ job[j] = (IF job'[j] = "done" THEN "reviewed" ELSE "expired")
                /\ applied'[j] = [a \in Anomalies |-> table[a].decision]
  BY <1>5 DEF Apply, Advance
<1>6. CASE UNCHANGED vars
  BY <1>6 DEF vars, workerVars
<1>7. QED
  BY <1>1, <1>2, <1>3, <1>4, <1>5, <1>6 DEF Next, Review

\* A review that ends in time ends with every anomaly decided.
LEMMA ReviewStep ==
    TypeOK /\ ResolvedHasDecision /\ ReviewInv /\ [Next]_vars => ReviewInv'
<1> SUFFICES ASSUME TypeOK, ResolvedHasDecision, ReviewInv, [Next]_vars, NEW j \in Jobs
             PROVE  /\ job'[j] = "done" => \A a \in Anomalies : applied'[j][a] # Nobody
                    /\ job'[j] = "reviewed" => Decided' = Anomalies
  BY DEF ReviewInv, ReviewedMeansDecided
<1>1. Decided \subseteq Decided' /\ Decided' \subseteq Anomalies
  BY DecisionsGrow DEF Decided
<1>2. Pending = {} => Decided = Anomalies
  BY DEF TypeOK, Row, Pending, Decided, ResolvedHasDecision
<1>3. job[j] = "reviewed" => Decided = Anomalies
  BY DEF ReviewInv
<1>4. job'[j] = "reviewed" => Decided' = Anomalies
  BY <1>1, <1>2, <1>3, JobStep
<1>5. ASSUME job'[j] = "done" PROVE \A a \in Anomalies : applied'[j][a] # Nobody
  <2>1. CASE job[j] = "done" /\ applied'[j] = applied[j]
    BY <2>1 DEF ReviewInv, ReviewedMeansDecided
  <2>2. CASE job[j] = "reviewed" /\ applied'[j] = [a \in Anomalies |-> table[a].decision]
    BY <2>2, <1>3 DEF Decided
  <2>3. QED
    BY <1>5, <2>1, <2>2, JobStep
<1>6. QED
  BY <1>4, <1>5

\* A submission's job reads what the submission has saved.
LEMMA AppliedStep ==
    TypeOK /\ EnqueueInv /\ ProgressInv /\ SubmittedIsApplied /\ [Next]_vars => SubmittedIsApplied'
<1> SUFFICES ASSUME TypeOK, EnqueueInv, ProgressInv, SubmittedIsApplied, [Next]_vars,
                    NEW s \in Submissions, job'[s] \in {"done", "doneLate"},
                    NEW a \in chosen'[s]
             PROVE  applied'[s][a] # Nobody
  BY DEF SubmittedIsApplied
<1>1. s \in Jobs
  BY DEF Jobs
<1>2. job[s] # "none"
  BY <1>1, JobStep
<1>3. pc[s] = "done"
  BY <1>2 DEF EnqueueInv
<1>4. chosen'[s] = chosen[s]
  BY <1>3 DEF Next, vars, Submit, SubmitStart, SubmitLoad, SubmitSave, SubmitThrows,
     SubmitEnqueue, Suggest, SuggestLoad, SuggestSave, SuggestThrows, Review, StartReview,
     Poll, Expire, Apply, Rerun, Ask, apiVars, TypeOK
<1>5. chosen[s] \subseteq Decided
  BY <1>2, <1>3 DEF ProgressInv
<1>6. CASE job[s] = job'[s] /\ applied'[s] = applied[s]
  BY <1>4, <1>6 DEF SubmittedIsApplied
<1>7. CASE applied'[s] = [b \in Anomalies |-> table[b].decision]
  BY <1>4, <1>5, <1>7 DEF Decided
<1>8. QED
  BY <1>1, <1>6, <1>7, JobStep

\* The job of a submission on everything finds nothing PENDING.
LEMMA NoWaitStep ==
    TypeOK /\ EnqueueInv /\ ProgressInv /\ CompleteSubmissionNeverWaits /\ [Next]_vars
        => CompleteSubmissionNeverWaits'
<1> SUFFICES ASSUME TypeOK, EnqueueInv, ProgressInv, CompleteSubmissionNeverWaits, [Next]_vars,
                    NEW s \in Submissions, mode' = "gemini", chosen'[s] = Anomalies
             PROVE  polls'[s] = 0
  BY DEF CompleteSubmissionNeverWaits
<1> USE DEF TypeOK, Jobs
<1>1. ASSUME NEW t \in Submissions, Submit(t) PROVE polls'[s] = 0
  <2>1. UNCHANGED <<polls, mode>>
    BY <1>1 DEF Submit, SubmitStart, SubmitLoad, SubmitSave, SubmitThrows, SubmitEnqueue, workerVars
  <2>2. CASE chosen'[s] = chosen[s]
    BY <2>1, <2>2 DEF CompleteSubmissionNeverWaits
  <2>3. CASE SubmitStart(s)
    BY <2>1, <2>3 DEF SubmitStart, EnqueueInv
  <2>4. QED
    BY <1>1, <2>2, <2>3 DEF Submit, SubmitStart, SubmitLoad, SubmitSave, SubmitThrows, SubmitEnqueue
<1>2. ASSUME NEW w \in Webhooks, Suggest(w) PROVE polls'[s] = 0
  BY <1>2 DEF Suggest, SuggestLoad, SuggestSave, SuggestThrows, workerVars,
     CompleteSubmissionNeverWaits
<1>3. ASSUME NEW j \in Jobs, StartReview(j) \/ Expire(j) \/ Apply(j) \/ Rerun(j) \/ Ask(j)
      PROVE  polls'[s] = 0
  BY <1>3 DEF StartReview, Expire, Apply, Rerun, Ask, apiVars, CompleteSubmissionNeverWaits
<1>4. ASSUME NEW j \in Jobs, Poll(j) PROVE polls'[s] = 0
  <2>1. UNCHANGED <<chosen, mode>>
    BY <1>4 DEF Poll, apiVars
  <2>2. polls[s] = 0
    BY <2>1 DEF CompleteSubmissionNeverWaits
  <2>3. CASE j # s
    BY <1>4, <2>2, <2>3 DEF Poll
  <2>4. CASE j = s
    <3>1. job[s] = "review"
      BY <1>4, <2>4 DEF Poll
    <3>2. pc[s] = "done"
      BY <3>1 DEF EnqueueInv
    <3>3. Anomalies \subseteq Resolved
      BY <2>1, <3>1, <3>2 DEF ProgressInv
    <3>4. Pending = {}
      BY <3>3 DEF Resolved, Pending
    <3>5. QED
      BY <1>4, <2>2, <2>4, <3>4 DEF Poll
  <2>5. QED
    BY <2>3, <2>4
<1>5. CASE UNCHANGED vars
  BY <1>5 DEF vars, apiVars, workerVars, CompleteSubmissionNeverWaits
<1>6. QED
  BY <1>1, <1>2, <1>3, <1>4, <1>5 DEF Next, Review

\* The inductive invariant holds initially.
LEMMA InitReview == Init => IInv
<1> SUFFICES ASSUME Init PROVE IInv
  OBVIOUS
<1>1. TypeOK
  BY InitTyped
<1>2. ResolvedHasDecision /\ EntityInv
  <2>1. \A c \in Callers : held[c].row.status = "PENDING"
    BY DEF Init, Empty, Fresh
  <2>2. QED
    BY <2>1 DEF Init, ResolvedHasDecision, EntityInv, Fresh
<1>3. \A s \in Submissions : job[s] = "none" /\ polls[s] = 0 /\ pc[s] = "idle"
  BY NamesAssumption DEF Init, Jobs
<1>4. HookInv /\ EnqueueInv /\ ProgressInv
  BY <1>3 DEF Init, HookInv, EnqueueInv, ProgressInv
<1>5. \A j \in Jobs : job[j] \in {"none", "review"}
  BY DEF Init
<1>6. ReviewInv /\ SubmittedIsApplied
  BY <1>5 DEF ReviewInv, ReviewedMeansDecided, SubmittedIsApplied, Jobs
<1>7. CompleteSubmissionNeverWaits
  BY <1>3 DEF CompleteSubmissionNeverWaits
<1>8. QED
  BY <1>1, <1>2, <1>4, <1>6, <1>7 DEF IInv

\* Every step preserves the inductive invariant.
LEMMA StepReview == IInv /\ [Next]_vars => IInv'
BY TypeStep, EntityStep, HookStep, EnqueueStep, ProgressStep, ReviewStep, AppliedStep,
   NoWaitStep DEF IInv

\* The inductive invariant of the review, from which the others follow.
THEOREM ReviewInductive == Spec => []IInv
BY InitReview, StepReview, PTL DEF Spec

\* An anomaly shown as RESOLVED always has a decision.
THEOREM ResolvedIsDecided == Spec => []ResolvedHasDecision
<1>1. IInv => ResolvedHasDecision
  BY DEF IInv
<1>2. QED
  BY <1>1, ReviewInductive, PTL

\* A job whose review did not time out applies a decision on every anomaly.
THEOREM ReviewIsComplete == Spec => []ReviewedMeansDecided
<1>1. IInv => ReviewedMeansDecided
  BY DEF IInv, ReviewInv
<1>2. QED
  BY <1>1, ReviewInductive, PTL

\* No decision that a submission saved is missing when its job applies them.
THEOREM SubmissionIsApplied == Spec => []SubmittedIsApplied
<1>1. IInv => SubmittedIsApplied
  BY DEF IInv
<1>2. QED
  BY <1>1, ReviewInductive, PTL

\* A submission on every anomaly is processed without waiting, unless n8n
\* makes the suggestions.
THEOREM CompleteSubmissionPasses == Spec => []CompleteSubmissionNeverWaits
<1>1. IInv => CompleteSubmissionNeverWaits
  BY DEF IInv
<1>2. QED
  BY <1>1, ReviewInductive, PTL

\* No step takes a decision back.
THEOREM DecisionsAreKept == Spec => DecisionsStay
<1>1. TypeOK /\ [Next]_vars => [Decided \subseteq Decided']_vars
  BY DecisionsGrow
<1>2. QED
  BY <1>1, ReviewTypeCorrect, PTL DEF Spec, DecisionsStay

\* No step drops the suggestion of an anomaly that stays undecided.
THEOREM SuggestionsAreKept == Spec => UndecidedKeepsSuggestion
<1>1. TypeOK /\ [Next]_vars =>
         [\A a \in Anomalies :
             table[a].suggested /\ table'[a].decision = Nobody => table'[a].suggested]_vars
  BY SuggestionsKept
<1>2. QED
  BY <1>1, ReviewTypeCorrect, PTL DEF Spec, UndecidedKeepsSuggestion

-----------------------------------------------------------------------------
(* Reports                                                                 *)

\* Looking changes nothing of the review.
LEMMA LookingIsReading == [ReportNext]_reportVars => [Next]_vars
BY DEF ReportNext, reportVars, Look, ShowDashboard, GenerateReport, SelectAnomalies,
   GetAnomalies

\* A step of the review, and the first read of a client, leave ViewsAgree true.
LEMMA ViewStep ==
    TypeOK /\ ResolvedHasDecision /\ ViewsAgree /\ [ReportNext]_reportVars => ViewsAgree'
<1> SUFFICES ASSUME TypeOK, ResolvedHasDecision, ViewsAgree, [ReportNext]_reportVars
             PROVE  ViewsAgree'
  OBVIOUS
<1>1. CASE Look
  <2>1. CASE ShowDashboard
    <3>1. Pending \subseteq seen' /\ looking' = "dashboard" /\ UNCHANGED Decided
      BY <2>1 DEF ShowDashboard, PendingReviews, vars, Decided
    <3>2. ReportedPending \subseteq Pending
      BY DEF ResolvedHasDecision, ReportedPending, Pending, Decided, TypeOK, Row
    <3>3. QED
      BY <3>1, <3>2 DEF ViewsAgree, ReportedPending
  <2>2. CASE SelectAnomalies
    <3>1. seen' = Resolved /\ looking' = "list" /\ UNCHANGED table
      BY <2>2 DEF SelectAnomalies, vars
    <3>2. \A a \in Resolved : table[a].decision # Nobody
      BY DEF ResolvedHasDecision, Resolved, Pending, TypeOK, Row
    <3>3. QED
      BY <3>1, <3>2 DEF ViewsAgree, Listed
  <2>3. CASE GenerateReport \/ GetAnomalies
    BY <2>3 DEF GenerateReport, GetAnomalies, ViewsAgree
  <2>4. QED
    BY <1>1, <2>1, <2>2, <2>3 DEF Look
<1>2. CASE UNCHANGED viewVars /\ [Next]_vars
  <2>1. Decided \subseteq Decided'
    BY <1>2, DecisionsGrow DEF Decided, vars
  <2>2. looking = "dashboard" => ReportedPending' \subseteq seen
    BY <2>1 DEF ViewsAgree, ReportedPending
  <2>3. looking = "list" => \A a \in Anomalies : a \in seen => a \in Decided
    BY DEF ViewsAgree, Listed, Decided
  <2>4. looking = "list" => \A a \in Anomalies : a \in seen => table'[a].decision # Nobody
    BY <2>1, <2>3 DEF Decided
  <2>5. QED
    BY <1>2, <2>2, <2>4 DEF ViewsAgree, Listed, viewVars
<1>3. QED
  BY <1>1, <1>2 DEF ReportNext, reportVars

\* What a client is shown holds together: a RESOLVED anomaly is listed with its
\* decision, and the report stays within what the dashboard has shown.
THEOREM ShownIsConsistent == ReportSpec => []ViewsAgree
<1>1. ReportInit => Init /\ ViewsAgree
  BY DEF ReportInit, ViewsAgree
<1>2. IInv => TypeOK /\ ResolvedHasDecision
  BY DEF IInv
<1>3. ReportSpec => []IInv
  BY <1>1, LookingIsReading, ReviewInductive, PTL DEF ReportSpec, Spec
<1>4. QED
  BY <1>1, <1>2, <1>3, ViewStep, PTL DEF ReportSpec

=============================================================================
