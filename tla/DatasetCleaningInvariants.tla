----------------------- MODULE DatasetCleaningInvariants -----------------------
(***************************************************************************)
(* The properties of DatasetCleaning.                                      *)
(***************************************************************************)
EXTENDS DatasetCleaning

Phases == {"transform", "review", "apply", "repair", "done", "failed"}

(* Whether the decisions were applied: a review that nobody decided leaves *)
(* the snapshot's table untouched.                                         *)
Applied == phase \in {"repair", "done"} /\ Decided # {}

Accepted == {a \in Decided : decisions[a].kind # "discarded"}

(* The rows of a column that an accepted decision is about, and the        *)
(* columns whose dates are repaired.                                       *)
Touched(c) == UNION {Affected(snapshot, a) : a \in {b \in Accepted : b.col = c}}
RepairedEnds ==
    {a.end : a \in {b \in anomalies : b.type = "DATE_LOGICAL" /\ NamesItsEnd(b)}}

(* The state is of its type; the table stays a data frame whatever is done *)
(* to it, and what is pending is an anomaly.                               *)
TypeOK ==
    /\ job \in Jobs /\ phase \in Phases
    /\ IsFrame(table)
    /\ pending \subseteq anomalies
    /\ DOMAIN decisions = anomalies
    /\ draft.status \in {"none", "asking", "shown", "unavailable", "invalid_instruction"}
    /\ draft.attempts \in 0..MaxAttempts
    /\ phase = "review" => draft.anomaly \in anomalies \cup {NoAnomaly}

(* No row appears or disappears once the review is over, and a cell that   *)
(* no accepted decision is about and that is not in a repaired end column  *)
(* keeps its value but for the blanks around it, whatever the decisions    *)
(* and their order.  (_apply_decisions: its assertion on the row count,    *)
(* and its affected_rows.)                                                 *)
UntouchedCells ==
    phase \in {"apply", "repair"} \/ Applied =>
        /\ DOMAIN table = DOMAIN snapshot
        /\ \A c \in DOMAIN snapshot :
            /\ DOMAIN Cells(table, c) = DOMAIN Cells(snapshot, c)
            /\ c \notin RepairedEnds \/ phase = "apply" =>
                \A i \in DOMAIN Cells(snapshot, c) \ Touched(c) :
                    Cells(table, c)[i] =
                        IF phase # "apply" /\ HasType(table, c, "str")
                        THEN Stripped(Cells(snapshot, c)[i])
                        ELSE Cells(snapshot, c)[i]

(* After the repair no end date lies before its start date in any row of   *)
(* a pair of columns that was found inverted, also where the inversion was *)
(* made by a correction of another anomaly, and whatever other pairs share *)
(* the end.  A start column that is itself repaired may move after its     *)
(* pair was put in order, and an end column in which no date was left may  *)
(* be a column of texts by then: neither is meant, nor is an end whose     *)
(* name has an apostrophe, which the repair does not understand.           *)
KeepsDates(c) == ~(NonNull(Cells(snapshot, c)) \subseteq Touched(c))
DatesOrdered ==
    phase = "done" /\ Applied =>
        \A a \in anomalies :
            /\ a.type = "DATE_LOGICAL" /\ NamesItsEnd(a) /\ a.col \notin RepairedEnds
            /\ IsTemporal(table, a.col) /\ KeepsDates(a.end)
            => Inverted(table, a.col, a.end) = {}

(* The detection and the finders are two pieces of code: every record of a *)
(* detection is found again in at least as many rows.  But for five kinds: *)
(* a gap in a sequence has no row, empty texts are counted with the blank  *)
(* ones, a column that does not vary is counted as a whole, of which the   *)
(* rows with its common text are found, or none of numbers, copies that an *)
(* earlier cleaning marked are counted but not found again, and inverted   *)
(* dates are found when both columns are of dates or both of moments, and  *)
(* when the end's name has no apostrophe.                                  *)
Marked(x) == IsStr(x) /\ Val(x).dup
Findable(t, a) ==
    LET rows == Affected(t, a)
    IN  CASE a.type \in {"SEQUENCE_GAP", "WHITESPACE_ONLY"} -> TRUE
          [] a.type = "LOW_VARIANCE" -> HasType(t, a.col, "str") => rows # {}
          [] a.type = "DUPLICATE" -> \/ \E x \in Uniq(Cells(t, a.col)) : Marked(x)
                                     \/ Cardinality(rows) >= a.count
          [] a.type = "DATE_LOGICAL" -> \/ t[a.col].dtype # t[a.end].dtype
                                        \/ ~NamesItsEnd(a)
                                        \/ Cardinality(rows) >= a.count
          [] OTHER -> Cardinality(rows) >= a.count
DetectedIsFindable == phase = "review" => \A a \in anomalies : Findable(table, a)

(* A text cell that exactly one accepted decision is about ends as that    *)
(* decision alone would leave it, in whatever order the decisions were     *)
(* listed.  Programs are not meant: they read what earlier decisions wrote.*)
SoloEffect ==
    phase = "done" /\ Applied =>
        \A a \in {b \in Accepted : decisions[b].kind # "ir" /\ HasType(snapshot, b.col, "str")} :
            \A i \in Affected(snapshot, a) :
                (\A b \in Accepted \ {a} : b.col = a.col => i \notin Affected(snapshot, b)) =>
                    \A alone \in Effect(snapshot, snapshot, a, decisions[a]) :
                        Cells(table, a.col)[i] = Stripped(alone.cells[i])

(* The first of a group of copies is not marked by the decision on its     *)
(* duplicates, and every further one is: marked copies count to the group, *)
(* but only a value that itself occurs twice is a copy.                    *)
FirstIsKept ==
    phase = "done" /\ Applied =>
        \A a \in {b \in Accepted : b.type = "DUPLICATE"} :
            LET c == a.col
                before == Cells(snapshot, c)
                others == {b \in Accepted \ {a} : b.col = c}
            IN  \A i \in NonNull(before) \ UNION {Affected(snapshot, b) : b \in others} :
                    LET x == Cells(table, c)[i]
                        earlier == {j \in NonNull(before) : j < i}
                    IN  /\ (\A j \in earlier : CopyKey(c, before[j]) # CopyKey(c, before[i]))
                                => x = Stripped(before[i])
                        /\ (\E j \in earlier : RawKey(c, before[j]) = RawKey(c, before[i]))
                                => Marked(x)

(* A job fails only for a transformation that failed, a column the         *)
(* detection cannot read as text, copies marked in a column of numbers, an *)
(* infinite text entered for a column of numbers, a program that           *)
(* aggregates a column which by then holds a text that is no number, or    *)
(* one that looks for the whole number next to an infinite one; any other  *)
(* correction that does not fit is skipped, and a suggestion of the        *)
(* detection never fails.                                                  *)
NumberCopies(a) == a.type = "DUPLICATE" /\ ~HasType(snapshot, a.col, "str")
AggregatesText(t, tree) ==
    \E p \in DOMAIN tree :
        /\ tree[p].op = "CONDITIONAL"
        /\ LET o == Operands(tree[p].condition)
           IN  \E k \in DOMAIN o : /\ o[k].kind = "aggregate"
                                   /\ o[k].column \in DOMAIN t
                                   /\ \E x \in Uniq(Cells(t, o[k].column)) :
                                        /\ IsStr(x) /\ ~Written(x, "digits")
                                        /\ ~Written(x, "infinite")
LiteralsOf(tree) == {tree[p].value : p \in {q \in DOMAIN tree : tree[q].op = "FILL_LITERAL"}}
SeesInfinity(t, tree) ==
    \/ \E x \in LiteralsOf(tree) : Unbounded(x)
    \/ \E c \in DOMAIN t : \E x \in Uniq(Cells(t, c)) : Unbounded(x)
RoundsInfinity(t, c, tree) ==
    \/ HasType(t, c, "num") /\ \E x \in LiteralsOf(tree) : Unbounded(x)
    \/ /\ SeesInfinity(t, tree)
       /\ \E p \in DOMAIN tree : tree[p].op = "TRANSFORM" /\ tree[p].fn \in {"floor", "ceil"}
ProgramRaises(t, c, tree) == AggregatesText(t, tree) \/ RoundsInfinity(t, c, tree)
FailuresExplained ==
    phase = "failed" =>
        \/ steps # << >>
        \/ DetectionRaises(table)
        \/ \E a \in Accepted :
            \/ NumberCopies(a)
            \/ /\ decisions[a].kind = "corrected" /\ Unbounded(decisions[a].value)
               /\ HasType(table, a.col, "num")
            \/ /\ decisions[a].kind = "ir"
               /\ ProgramRaises(table, a.col, decisions[a].ir)

(* No transformation mixes the cells of two rows: in the columns it was    *)
(* not asked to change, every row that is left was a row before, and only  *)
(* four transformations have fewer rows than before.  (The handlers of     *)
(* DataTransformer; a renamed column is asked to change, and so is one in  *)
(* whose place a flag or a dummy comes.)                                   *)
RowOps == {"CLEAN_NULLS", "REMOVE_DUPLICATES", "FILTER_ROWS", "DETECT_OUTLIERS"}
Made(t, s) ==
    CASE s.op = "DETECT_OUTLIERS" /\ s.action # "remove" ->
            {s.flag[c] : c \in {d \in Chosen(t, s) : HasType(t, d, "num")}}
      [] s.op = "ENCODE_CATEGORICALS" /\ s.encoding # "label" ->
            UNION {{s.dummy[c][x] : x \in Uniq(Cells(t, c))} : c \in TextColumns(t, s)}
      [] OTHER -> {}
Unasked(t, s) ==
    (CASE s.op = "RENAME_COLUMN" -> DOMAIN t \ DOMAIN s.mapping
       [] s.op \in RowOps -> DOMAIN t
       [] OTHER -> DOMAIN t \ Chosen(t, s)) \ Made(t, s)
RowsStayTogether ==
    [][phase = "transform" /\ steps # << >> =>
        LET s == Head(steps)
        IN  /\ s.op \in RowOps \/ DOMAIN table' = {} \/ AllRows(table') = AllRows(table)
            /\ \A i \in AllRows(table') : \E j \in AllRows(table) :
                \A c \in Unasked(table, s) \cap DOMAIN table' :
                    Cells(table', c)[i] = Cells(table, c)[j]
      ]_vars

(* What a reviewer is shown is a program the API will accept, whether a    *)
(* rule or an answer of Gemini made it, and confirmation is asked for      *)
(* exactly when Gemini was asked for it.  (InstructionParser.parse.)       *)
DraftsAreValid ==
    draft.status = "shown" =>
        /\ Valid(draft.ir, DatasetSchema)
        /\ RequiresConfirmation(draft) <=> draft.attempts > 0

(* A row that the submitted program keeps keeps its value: the preview     *)
(* describes KEEP as "Conservará el valor original sin modificarlo".       *)
KeptRows(a) ==
    LET tree == decisions[a].ir
        test == Condition(snapshot, tree[<< >>].condition, Affected(snapshot, a))
    IN  IF tree[<< >>].op # "CONDITIONAL" \/ Failed(test) THEN {}
        ELSE {i \in Affected(snapshot, a) :
                tree[IF test[2][i] THEN <<"then">> ELSE <<"else">>].op = "KEEP"}
KeptIsKept ==
    phase = "done" /\ Applied /\ Cardinality(Decided) = 1 =>
        \A a \in {b \in Accepted : decisions[b].kind = "ir"} :
            \A i \in KeptRows(a) :
                Cells(table, a.col)[i] = Stripped(Cells(snapshot, a.col)[i])

(* A request for a draft ends, however often Gemini answers with what is   *)
(* no program: by an answer, by the retries or by the time limit.          *)
DraftsEnd == draft.status = "asking" ~> draft.status # "asking"

=============================================================================
