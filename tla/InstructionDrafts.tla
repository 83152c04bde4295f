--------------------------- MODULE InstructionDrafts ---------------------------
(***************************************************************************)
(* ParseInstructionUseCase and InstructionParser: an instruction in plain  *)
(* words becomes the draft of a correction program.  Nothing is stored;    *)
(* the reviewer sees the draft and submits it, or not.                     *)
(*                                                                         *)
(* An instruction is a record with the names of the patterns of RULES its  *)
(* text matches, whether it has one of the conditional keywords, and the   *)
(* literal or the column its text names.                                   *)
(***************************************************************************)
EXTENDS CorrectionIR

CONSTANT HasApiKey      \* whether GEMINI_API_KEY is set

ASSUME HasApiKeyAssumption == HasApiKey \in BOOLEAN

VARIABLE draft          \* the request under way, or its answer

NoProgram == [p \in {} |-> p]
Leaf(node) == [p \in {<< >>} |-> node]

(* The rules in the order in which they are tried.                         *)
Rules == <<"null", "number", "quoted", "mediana", "media", "moda", "minimo",
           "maximo", "eliminar", "mantener", "copiar">>

BuildIR(rule, instruction) ==
    Leaf(CASE rule = "null" -> [op |-> "FILL_LITERAL", value |-> Null]
           [] rule \in {"number", "quoted"} ->
                [op |-> "FILL_LITERAL", value |-> instruction.value]
           [] rule = "mediana" -> [op |-> "FILL_AGGREGATE", agg |-> "median"]
           [] rule = "media" -> [op |-> "FILL_AGGREGATE", agg |-> "mean"]
           [] rule = "moda" -> [op |-> "FILL_AGGREGATE", agg |-> "mode"]
           [] rule = "minimo" -> [op |-> "FILL_AGGREGATE", agg |-> "min"]
           [] rule = "maximo" -> [op |-> "FILL_AGGREGATE", agg |-> "max"]
           [] rule = "eliminar" -> [op |-> "DELETE_ROWS"]
           [] rule = "mantener" -> [op |-> "KEEP"]
           [] rule = "copiar" ->
                [op |-> "FILL_FROM_COLUMN", sourceColumn |-> instruction.column])

(* tryRules: the first rule that matches, unless it copies a column the    *)
(* schema does not have.                                                   *)
TryRules(instruction, known) ==
    LET matching == {k \in DOMAIN Rules : Rules[k] \in instruction.matches}
        first == Rules[Min(matching)]
    IN  IF \/ instruction.conditional \/ matching = {}
           \/ first = "copiar" /\ ~ColumnKnown(known, instruction.column)
        THEN NoProgram
        ELSE BuildIR(first, instruction)

-----------------------------------------------------------------------------

MaxAttempts == 2

NoAnomaly == [type |-> "none"]
NoDraft == [status |-> "none", anomaly |-> NoAnomaly, ir |-> NoProgram, source |-> "none",
            attempts |-> 0, feedback |-> "none"]

Shown(d, tree, source) == [d EXCEPT !.status = "shown", !.ir = tree, !.source = source]
Unavailable(d) == [d EXCEPT !.status = "unavailable"]

(* A request: a rule answers at once; Gemini is asked otherwise.           *)
Instruct(a, instruction, known) ==
    LET new == [NoDraft EXCEPT !.anomaly = a]
        tree == TryRules(instruction, known)
    IN  /\ draft.status # "asking"
        /\ draft' = IF tree # NoProgram
                    THEN IF Valid(tree, known) THEN Shown(new, tree, "rule")
                         ELSE [new EXCEPT !.status = "invalid_instruction"]
                    ELSE IF HasApiKey THEN [new EXCEPT !.status = "asking"]
                    ELSE Unavailable(new)

(* Mutants: an answer that parses is shown unchecked; the retry does not   *)
(* count; one retry too many.                                              *)
GeminiAnswers_Unchecked(answer, known) ==
    /\ draft.status = "asking"
    /\ draft' = LET d == [draft EXCEPT !.attempts = @ + 1]
                IN  IF answer # NoProgram THEN Shown(d, answer, "gemini")
                    ELSE IF d.attempts < MaxAttempts THEN [d EXCEPT !.feedback = "error"]
                    ELSE Unavailable(d)

GeminiAnswers_Endless(answer, known) ==
    /\ draft.status = "asking"
    /\ draft' = IF answer # NoProgram /\ Valid(answer, known)
                THEN Shown([draft EXCEPT !.attempts = @ + 1], answer, "gemini")
                ELSE [draft EXCEPT !.feedback = IF @ = "none" THEN "error" ELSE "none"]

GeminiAnswers_Third(answer, known) ==
    /\ draft.status = "asking"
    /\ draft' = LET d == [draft EXCEPT !.attempts = @ + 1]
                IN  IF answer # NoProgram /\ Valid(answer, known) THEN Shown(d, answer, "gemini")
                    ELSE IF d.attempts <= MaxAttempts THEN [d EXCEPT !.feedback = "error"]
                    ELSE Unavailable(d)

(* Gemini answers with a program, or with a text that is none.  What is    *)
(* not a valid program is asked for once more, with the error as feedback. *)
GeminiAnswers(answer, known) ==
    /\ draft.status = "asking"
    /\ draft' = LET d == [draft EXCEPT !.attempts = @ + 1]
                IN  IF answer # NoProgram /\ Valid(answer, known)
                    THEN Shown(d, answer, "gemini")
                    ELSE IF d.attempts < MaxAttempts THEN [d EXCEPT !.feedback = "error"]
                    ELSE Unavailable(d)

(* The call fails, or does not answer within fifteen seconds: no retry.    *)
GeminiFails ==
    /\ draft.status = "asking"
    /\ draft' = Unavailable([draft EXCEPT !.attempts = @ + 1])

RequiresConfirmation(d) == d.source = "gemini"

=============================================================================
