---------------------------- MODULE DatasetCleaning ----------------------------
(***************************************************************************)
(* What a job does to the data: the transformations, the detection, the    *)
(* review with its drafts, and _apply_decisions.  DatasetPipeline has the  *)
(* same job seen from its dataset, AnomalyReview the same review seen from *)
(* its rows in the database; here every anomaly is decided at most once    *)
(* and the decisions' effect on the cells is what matters.                 *)
(*                                                                         *)
(* A job is a record: the parsed file, the transformations asked for, and  *)
(* what its reviewers can enter: texts, programs and instructions.         *)
(***************************************************************************)
EXTENDS Transformations, InstructionDrafts

CONSTANT Jobs

(* A program is a tree from its root down, and what it fills in are cells. *)
IsProgram(tree) ==
    /\ << >> \in DOMAIN tree
    /\ DOMAIN tree \subseteq Seq({"input", "then", "else"})
    /\ \A p \in DOMAIN tree : tree[p].op = "FILL_LITERAL" => IsCell(tree[p].value)

(* The file is a data frame, and what the users enter are cells: values of *)
(* JSON, none of which is a date, though a text can be the text of one.    *)
ASSUME JobsAssumption ==
    \A j \in Jobs :
        /\ IsFrame(j.table)
        /\ j.steps \in Seq({j.steps[k] : k \in DOMAIN j.steps})
        /\ \A k \in DOMAIN j.steps : IsStep(j.steps[k])
        /\ \A x \in j.texts \cup {i.value : i \in j.instructions} : IsCell(x)
        /\ \A tree \in j.programs : IsProgram(tree)

VARIABLES
    job,            \* the job, which does not change
    phase,          \* where ProcessDatasetUseCase.execute is
    steps,          \* the transformations left
    table,          \* the data frame
    anomalies,      \* the records of the detection
    decisions,      \* the decision on each anomaly, or Undecided
    snapshot,       \* original_df_snapshot
    pending         \* the anomalies whose decision, then whose repair, is left

vars == <<job, phase, steps, table, anomalies, decisions, snapshot, pending, draft>>

Undecided == [kind |-> "undecided"]
Approved == [kind |-> "approved"]
Discarded == [kind |-> "discarded"]
Corrected(x) == [kind |-> "corrected", value |-> x]
CorrectedIR(tree) == [kind |-> "ir", ir |-> tree]

(* dataset.schema: the creation stores {} and nothing ever changes it.     *)
DatasetSchema == [c \in {} |-> c]

Decided == {a \in anomalies : decisions[a] # Undecided}

Init ==
    /\ job \in Jobs
    /\ phase = "transform"
    /\ steps = job.steps
    /\ table = job.table
    /\ anomalies = {}
    /\ decisions = << >>
    /\ snapshot = << >>
    /\ pending = {}
    /\ draft = NoDraft

-----------------------------------------------------------------------------
(* transform_many: the first step that fails stops the chain, and the job. *)

TransformStep ==
    /\ phase = "transform" /\ steps # << >>
    /\ \/ /\ table' \in Outcomes(table, Head(steps))
          /\ steps' = Tail(steps)
          /\ phase' = phase
       \/ /\ Outcomes(table, Head(steps)) = {} \/ Mistyped(table, Head(steps))
          /\ phase' = "failed"
          /\ UNCHANGED <<table, steps>>
    /\ UNCHANGED <<job, anomalies, decisions, snapshot, pending, draft>>

DetectAnomalies ==
    /\ phase = "transform" /\ steps = << >>
    /\ IF DetectionRaises(table)
       THEN phase' = "failed" /\ UNCHANGED <<anomalies, decisions>>
       ELSE /\ anomalies' = Detect(table)
            /\ decisions' = [a \in anomalies' |-> Undecided]
            /\ phase' = IF anomalies' = {} THEN "done" ELSE "review"
    /\ UNCHANGED <<job, steps, table, snapshot, pending, draft>>

-----------------------------------------------------------------------------
(* The review.  The API validates a program that is submitted, whether it  *)
(* is a draft or not.                                                      *)

Inputs == {Approved, Discarded} \cup {Corrected(x) : x \in job.texts}
          \cup {CorrectedIR(p) : p \in {q \in job.programs : Valid(q, DatasetSchema)}}

Decide(a) ==
    /\ phase = "review" /\ a \notin Decided
    /\ \E d \in Inputs : decisions' = [decisions EXCEPT ![a] = d]
    /\ UNCHANGED <<job, phase, steps, table, anomalies, snapshot, pending, draft>>

RequestDraft(a) ==
    /\ phase = "review" /\ a \notin Decided
    /\ \E i \in job.instructions : Instruct(a, i, DatasetSchema)
    /\ UNCHANGED <<job, phase, steps, table, anomalies, decisions, snapshot, pending>>

GeminiReplies ==
    /\ \/ \E p \in job.programs \cup {NoProgram} : GeminiAnswers(p, DatasetSchema)
       \/ GeminiFails
    /\ UNCHANGED <<job, phase, steps, table, anomalies, decisions, snapshot, pending>>

SubmitDraft ==
    /\ phase = "review" /\ draft.status = "shown" /\ draft.anomaly \notin Decided
    /\ Valid(draft.ir, DatasetSchema)
    /\ decisions' = [decisions EXCEPT ![draft.anomaly] = CorrectedIR(draft.ir)]
    /\ draft' = NoDraft
    /\ UNCHANGED <<job, phase, steps, table, anomalies, snapshot, pending>>

(* _wait_for_decisions_and_apply goes on when nothing is pending, or after *)
(* half an hour with the decisions there are.  Without any, the table is   *)
(* left as it is.  A draft that is still open is of no use any more.       *)
EndReview ==
    /\ phase = "review"
    /\ phase' = IF Decided = {} THEN "done" ELSE "apply"
    /\ snapshot' = table
    /\ pending' = Decided
    /\ draft' = NoDraft
    /\ UNCHANGED <<job, steps, table, anomalies, decisions>>

-----------------------------------------------------------------------------
(* _apply_decisions.                                                       *)

(* _cast_correction, as a set: none when int(float(x)) raises an           *)
(* OverflowError, which is not suppressed.                                 *)
Cast(x, dtype) ==
    IF dtype # "num" \/ ~IsFloat(x) THEN {x}
    ELSE IF Unbounded(x) THEN {}
    ELSE {Num(Float(x))}

WithSuffix(x) == IF x = Null THEN Null ELSE WithDup(Text(x))

(* The column after the decision on a, as a set; empty when the job fails. *)
Fill(column, rows, x) ==
    {WriteOrText(column, Replace(column.cells, rows, LAMBDA i : y)) : y \in Cast(x, column.dtype)}

MarkCopies(column, rows) ==
    LET cells == Replace(column.cells, rows, LAMBDA i : WithSuffix(column.cells[i]))
    IN  IF Fits(column.dtype, cells) \/ Fits("str", cells) THEN {WriteOrText(column, cells)}
        ELSE {}

(* Mutant: IRExecutionError is not caught.                                 *)
RunProgram_Uncaught(t, c, rows, tree) ==
    LET r == Execute(tree, t, c, rows)
        value(i) == IF r[1] = "scalar" THEN r[2] ELSE r[2][i]
    IN  IF Failed(r) THEN {}
        ELSE IF r[1] \in {"scalar", "rows"}
        THEN {WriteStrict(t[c], Replace(Cells(t, c), rows, value))}
        ELSE {t[c]}

RunProgram(t, c, rows, tree) ==
    LET r == Execute(tree, t, c, rows)
        value(i) == IF r[1] = "scalar" THEN r[2] ELSE r[2][i]
    IN  CASE r[1] = "raise" -> {}
          [] r[1] \in {"scalar", "rows"} ->
                {WriteStrict(t[c], Replace(Cells(t, c), rows, value))}
          [] OTHER -> {t[c]}

(* Mutant: the rows are looked for in the table as it is by now.           *)
Effect_Live(t, snap, a, d) ==
    LET rows == Affected(t, a)
        column == t[a.col]
    IN  IF rows = {} \/ d.kind = "discarded" THEN {column}
        ELSE IF a.type = "DUPLICATE" THEN MarkCopies(column, rows)
        ELSE CASE d.kind = "ir" -> RunProgram(t, a.col, rows, d.ir)
             [] d.kind = "corrected" -> Fill(column, rows, d.value)
             [] OTHER -> IF a.sugg = Null THEN {column} ELSE Fill(column, rows, a.sugg)

Effect(t, snap, a, d) ==
    LET rows == Affected(snap, a)
        column == t[a.col]
    IN  IF rows = {} \/ d.kind = "discarded" THEN {column}
        ELSE IF a.type = "DUPLICATE" THEN MarkCopies(column, rows)
        ELSE CASE a.type = "WHITESPACE_ONLY" /\ d.kind = "approved" ->
                   {WriteStrict(column, Replace(column.cells, rows, LAMBDA i : Null))}
             [] a.type = "LEADING_TRAILING_WHITESPACE" /\ d.kind = "approved" ->
                   {WriteStrict(column, Replace(column.cells, rows,
                       LAMBDA i : IF column.cells[i] = Null THEN Null
                                  ELSE Unpadded(Text(column.cells[i]))))}
             [] d.kind = "ir" -> RunProgram(t, a.col, rows, d.ir)
             [] d.kind = "corrected" -> Fill(column, rows, d.value)
             [] OTHER -> IF a.sugg = Null THEN {column} ELSE Fill(column, rows, a.sugg)

(* The decisions come in the order in which the database lists them, which *)
(* no ORDER BY fixes.                                                      *)
ApplyDecision(a) ==
    /\ phase = "apply" /\ a \in pending
    /\ pending' = pending \ {a}
    /\ \/ /\ Effect(table, snapshot, a, decisions[a]) = {}
          /\ phase' = "failed"
          /\ table' = table
       \/ /\ \E column \in Effect(table, snapshot, a, decisions[a]) :
                table' = [table EXCEPT ![a.col] = column]
          /\ phase' = phase
    /\ UNCHANGED <<job, steps, anomalies, decisions, snapshot, draft>>

(* The blanks around every text go, whatever was decided.                  *)
StripAll ==
    /\ phase = "apply" /\ pending = {}
    /\ table' = [c \in DOMAIN table |->
                    IF HasType(table, c, "str")
                    THEN Column("str", [i \in DOMAIN Cells(table, c) |-> Stripped(Cells(table, c)[i])])
                    ELSE table[c]]
    /\ pending' = {a \in anomalies : a.type = "DATE_LOGICAL"}
    /\ phase' = "repair"
    /\ UNCHANGED <<job, steps, anomalies, decisions, snapshot, draft>>

(* _to_date, which reads the first ten characters of a text.               *)
IsDate(x) ==
    \/ Kind(x) \in Temporal
    \/ IsStr(x) /\ Val(x).shape \in {"isodate", "isomoment"} /\ ~Val(x).pad
DayOf(x) ==
    IF ~IsStr(x) THEN Day(x)
    ELSE IF Val(x).shape = "isomoment" THEN Val(x).k \div HalfDays
    ELSE Val(x).k

(* The day an end is moved to, as a value of the column's dtype.           *)
MaxYear == 9999
Moved(day, dtype) ==
    IF Year(Date(day + 365 * 18)) > MaxYear THEN Null
    ELSE IF dtype = "datetime" THEN Midnight(day + 365 * 18)
    ELSE Date(day + 365 * 18)

(* Mutant: the inverted rows are those that the detection saw.             *)
RepairDates_Stale(a) ==
    LET start == Cells(table, a.col)
        cells == Replace(Cells(table, a.end), Inverted(snapshot, a.col, a.end),
                         LAMBDA i : IF IsDate(start[i])
                                    THEN Moved(DayOf(start[i]), table[a.end].dtype) ELSE Null)
    IN  /\ phase = "repair" /\ a \in pending
        /\ pending' = pending \ {a}
        /\ table' = [table EXCEPT ![a.end] = WriteStrict(table[a.end], cells)]
        /\ UNCHANGED <<job, phase, steps, anomalies, decisions, snapshot, draft>>

(* Every pair of columns that was found inverted is put in order, whatever *)
(* was decided, by moving the end, unless its name is not understood.      *)
RepairDates(a) ==
    LET start == Cells(table, a.col)
        column == table[a.end]
        late == {i \in DOMAIN start : /\ IsDate(start[i]) /\ IsDate(column.cells[i])
                                      /\ DayOf(column.cells[i]) < DayOf(start[i])}
        cells == Replace(column.cells, late, LAMBDA i : Moved(DayOf(start[i]), column.dtype))
    IN  /\ phase = "repair" /\ a \in pending
        /\ pending' = pending \ {a}
        /\ table' = [table EXCEPT ![a.end] =
                        IF ~NamesItsEnd(a) THEN column
                        ELSE IF ~Fits(column.dtype, cells) /\ Fits("date", cells)
                        THEN Column("date", cells) ELSE WriteStrict(column, cells)]
        /\ UNCHANGED <<job, phase, steps, anomalies, decisions, snapshot, draft>>

Finish ==
    /\ phase = "repair" /\ pending = {}
    /\ phase' = "done"
    /\ UNCHANGED <<job, steps, table, anomalies, decisions, snapshot, pending, draft>>

Next ==
    \/ TransformStep \/ DetectAnomalies
    \/ \E a \in anomalies : Decide(a) \/ RequestDraft(a) \/ ApplyDecision(a) \/ RepairDates(a)
    \/ GeminiReplies \/ SubmitDraft \/ EndReview \/ StripAll \/ Finish

Spec == Init /\ [][Next]_vars

(* A call to Gemini ends, by its time limit at the latest.                 *)
FairSpec == Spec /\ WF_vars(GeminiReplies)

=============================================================================
