------------------------------ MODULE CorrectionIR ------------------------------
(***************************************************************************)
(* The correction programs of the review: what IRValidator accepts in the  *)
(* API and what IRExecutor does with it in the worker.                     *)
(*                                                                         *)
(* A program is a tree.  It is written as a function from positions to     *)
(* nodes: the root is at << >>, the input of a TRANSFORM at p is at        *)
(* Append(p, "input"), the branches of a CONDITIONAL are at "then" and     *)
(* "else".  The depth of a node is the length of its position.             *)
(***************************************************************************)
EXTENDS Detection

Aggs == {"mean", "median", "mode", "min", "max", "sum"}
NumericFns == {"round", "floor", "ceil", "abs", "multiply", "add", "subtract", "divide"}
StringFns == {"upper", "lower", "title", "trim"}
Comparisons == {"gt", "gte", "lt", "lte"}
ConditionOps == Comparisons \cup {"eq", "neq", "is_null", "is_not_null", "contains",
                                  "starts_with", "ends_with", "between"}
MaxDepth == 3

Input(p) == Append(p, "input")
Then(p) == Append(p, "then")
Else(p) == Append(p, "else")

(* The operands of a condition, in the order in which they are read.       *)
Operands(cond) ==
    CASE cond.op \in {"is_null", "is_not_null"} -> <<cond.left>>
      [] cond.op = "between" -> <<cond.left, cond.right, cond.upper>>
      [] OTHER -> <<cond.left, cond.right>>

-----------------------------------------------------------------------------
(* IRValidator.validate.  known maps the columns of the dataset's schema   *)
(* to their dtypes; it is empty while the schema is not known, and then no *)
(* column is looked up.                                                    *)

ColumnKnown(known, c) == DOMAIN known = {} \/ c \in DOMAIN known

OperandValid(known, o) ==
    CASE o.kind = "literal" -> TRUE
      [] o.kind = "column" -> ColumnKnown(known, o.column)
      [] o.kind = "aggregate" ->
            /\ o.agg \in Aggs
            /\ ColumnKnown(known, o.column)
            /\ o.column \in DOMAIN known /\ o.agg # "mode" => known[o.column] = "num"
      [] OTHER -> FALSE

Compatible(a, b) ==
    a.kind = "literal" /\ b.kind = "literal" =>
        {Kind(a.value), Kind(b.value)} # {"num", "str"}

ConditionValid(known, cond) ==
    /\ cond.op \in ConditionOps
    /\ LET o == Operands(cond)
       IN  \A k \in DOMAIN o : OperandValid(known, o[k]) /\ (k > 1 => Compatible(o[1], o[k]))

TransformValid(known, node, input) ==
    /\ node.fn \in NumericFns \cup StringFns
    /\ input.op = "FILL_FROM_COLUMN" /\ input.sourceColumn \in DOMAIN known =>
            known[input.sourceColumn] = IF node.fn \in NumericFns THEN "num" ELSE "str"

NodeValid(known, tree, p) ==
    LET node == tree[p]
    IN  /\ Len(p) <= MaxDepth
        /\ CASE node.op \in {"FILL_LITERAL", "DELETE_ROWS", "KEEP"} -> TRUE
             [] node.op = "FILL_AGGREGATE" -> node.agg \in Aggs
             [] node.op = "FILL_FROM_COLUMN" -> ColumnKnown(known, node.sourceColumn)
             [] node.op = "TRANSFORM" ->
                    Input(p) \in DOMAIN tree /\ TransformValid(known, node, tree[Input(p)])
             [] node.op = "CONDITIONAL" ->
                    {Then(p), Else(p)} \subseteq DOMAIN tree /\ ConditionValid(known, node.condition)
             [] OTHER -> FALSE

Valid(tree, known) == \A p \in DOMAIN tree : NodeValid(known, tree, p)

-----------------------------------------------------------------------------
(* IRExecutor.  A node yields one value for every row it is asked about, a *)
(* value for each row, a wish to keep or delete the rows, or it fails:     *)
(* "error" is IRExecutionError, which the caller catches; "raise" is any   *)
(* other exception, which it does not.                                     *)

Scalar(x) == <<"scalar", x>>
PerRow(f) == <<"rows", f>>
Failed(r) == r[1] \in {"error", "raise"}

(* float(v): defined of numbers and of the texts of numbers, of which some *)
(* are infinite.  An infinite number is larger than any other.             *)
Unbounded(x) == x = Infinite \/ (IsStr(x) /\ Shape(x) = "infinite")
IsFloat(x) == Kind(x) = "num" \/ (IsStr(x) /\ Shape(x) = "digits") \/ Unbounded(x)
Beyond == 2^20
Float(x) == IF Unbounded(x) THEN Beyond ELSE IF IsStr(x) THEN Val(x).k ELSE Val(x)

TheOnly(S) == CHOOSE x \in S : TRUE

(* str(v).                                                                 *)
PyText(x) == IF x = Null THEN NoneText ELSE Text(x)

(* The value a literal has in a column, as a set; none when int(float(v))  *)
(* raises OverflowError, which is not caught: no integer is infinite.      *)
CastToDtype(x, dtype) ==
    IF x = Null THEN {Null}
    ELSE IF dtype = "num" /\ Unbounded(x) THEN {}
    ELSE IF dtype = "num" /\ IsFloat(x) THEN {Num(Float(x))}
    ELSE IF dtype = "str" THEN {Text(x)}
    ELSE {x}

FillLiteral(x, dtype) ==
    LET cast == CastToDtype(x, dtype)
    IN  IF cast = {} THEN <<"raise">> ELSE Scalar(TheOnly(cast))

(* The aggregates of a column of numbers that is not empty.                *)
Aggregate(cells, agg) ==
    CASE agg = "mode" -> Mode(cells)
      [] agg = "mean" -> Num(Mean(cells))
      [] agg = "median" -> Num(Median(cells))
      [] agg = "min" -> Num(Min({Val(x) : x \in Uniq(cells)}))
      [] agg = "max" -> Num(Max({Val(x) : x \in Uniq(cells)}))
      [] agg = "sum" -> Num(Total(cells))

FillAggregate(t, c, agg) ==
    IF agg # "mode" /\ ~HasType(t, c, "num") THEN <<"error">>
    ELSE IF NonNull(Cells(t, c)) = {} THEN Scalar(Null)
    ELSE Scalar(Aggregate(Cells(t, c), agg))

Calculate(fn, n, by) ==
    CASE fn = "multiply" -> {Num(n * by)}
      [] fn = "add" -> {Num(n + by)}
      [] fn = "subtract" -> {Num(n - by)}
      [] OTHER -> IF by = 0 THEN {} ELSE {Num(n \div by)}

(* Of an infinite number, arithmetic makes an infinite number; there is no *)
(* whole number next to it, and that OverflowError is not caught.          *)
UnboundedResult(node) ==
    IF /\ node.fn \in {"multiply", "add", "subtract", "divide"}
       /\ node.by = Null \/ (node.fn = "divide" /\ Val(node.by) = 0)
    THEN {} ELSE {Infinite}
Overflows(node, x) == node.fn \in {"floor", "ceil"} /\ Unbounded(x)

(* The functions of TRANSFORM on one value; {} when they fail.  The first  *)
(* letters of title are not told from lower case.                          *)
Apply(node, x) ==
    IF node.fn \in StringFns
    THEN {CASE node.fn = "upper" -> Upper(PyText(x))
            [] node.fn = "trim" -> IF BlankShaped(PyText(x)) THEN Empty ELSE Unpadded(PyText(x))
            [] OTHER -> Lower(PyText(x))}
    ELSE IF ~IsFloat(x) THEN {}
    ELSE IF Unbounded(x) THEN UnboundedResult(node)
    ELSE CASE node.fn \in {"round", "floor", "ceil"} -> {Num(Float(x))}
           [] node.fn = "abs" -> {Num(IF Float(x) < 0 THEN -Float(x) ELSE Float(x))}
           [] OTHER -> IF node.by = Null THEN {} ELSE Calculate(node.fn, Float(x), Val(node.by))

Transform(node, inner) ==
    CASE inner[1] = "scalar" /\ inner[2] # Null ->
            IF Overflows(node, inner[2]) THEN <<"raise">>
            ELSE IF Apply(node, inner[2]) = {} THEN <<"error">>
            ELSE Scalar(TheOnly(Apply(node, inner[2])))
      [] inner[1] = "rows" ->
            LET bad == {i \in DOMAIN inner[2] : \/ Overflows(node, inner[2][i])
                                                \/ Apply(node, inner[2][i]) = {}}
            IN  IF bad # {} THEN <<IF Overflows(node, inner[2][Min(bad)]) THEN "raise" ELSE "error">>
                ELSE PerRow([i \in DOMAIN inner[2] |-> TheOnly(Apply(node, inner[2][i]))])
      [] OTHER -> inner

(* Whether an operand can be read at all.  An aggregate casts its column   *)
(* to floats whatever the aggregate, and that cast is polars' own.         *)
ReadOutcome(t, o) ==
    IF o.kind = "literal" THEN "ok"
    ELSE IF o.column \notin DOMAIN t THEN "error"
    ELSE IF /\ o.kind = "aggregate" /\ HasType(t, o.column, "str")
            /\ \E x \in Uniq(Cells(t, o.column)) : ~IsFloat(x) \/ Val(x).pad
    THEN "raise"
    ELSE "ok"

Floats(cells) == [i \in DOMAIN cells |-> IF cells[i] = Null THEN Null
                                         ELSE Num(Float(cells[i]))]

Read(t, o, i) ==
    CASE o.kind = "literal" -> o.value
      [] o.kind = "column" -> Cells(t, o.column)[i]
      [] OTHER -> IF NonNull(Cells(t, o.column)) = {} THEN Null
                  ELSE IF o.agg = "mode" THEN Mode(Cells(t, o.column))
                  ELSE Aggregate(Floats(Cells(t, o.column)), o.agg)

SameBase(x, y) == WithoutDup(Unpadded(PyText(x))) = WithoutDup(Unpadded(PyText(y)))

Holds(cond, v) ==
    CASE cond.op = "is_null" -> v[1] = Null
      [] cond.op = "is_not_null" -> v[1] # Null
      [] cond.op = "eq" -> v[1] = v[2]
      [] cond.op = "neq" -> v[1] # v[2]
      [] cond.op = "contains" -> SameBase(v[1], v[2])
      [] cond.op = "starts_with" -> SameBase(v[1], v[2]) /\ ~Val(PyText(v[1])).pad
      [] cond.op = "ends_with" -> SameBase(v[1], v[2]) /\ ~Val(PyText(v[1])).dup
      [] cond.op = "between" -> Float(v[2]) <= Float(v[1]) /\ Float(v[1]) <= Float(v[3])
      [] cond.op = "gt" -> Float(v[1]) > Float(v[2])
      [] cond.op = "gte" -> Float(v[1]) >= Float(v[2])
      [] cond.op = "lt" -> Float(v[1]) < Float(v[2])
      [] OTHER -> Float(v[1]) <= Float(v[2])

(* Whether a float(v) of the comparison fails.  The upper bound is not     *)
(* read when the lower one already decides.                                *)
NotNumeric(cond, v) ==
    /\ cond.op \in Comparisons \cup {"between"}
    /\ IF ~IsFloat(v[1]) \/ ~IsFloat(v[2]) THEN TRUE
       ELSE cond.op = "between" /\ Float(v[2]) <= Float(v[1]) /\ ~IsFloat(v[3])

(* The condition on every row, or the first failure.                       *)
Condition(t, cond, rows) ==
    LET o == Operands(cond)
        bad == {k \in DOMAIN o : ReadOutcome(t, o[k]) # "ok"}
        read(i) == [k \in DOMAIN o |-> Read(t, o[k], i)]
    IN  IF bad # {} THEN <<ReadOutcome(t, o[Min(bad)])>>
        ELSE IF \E i \in rows : NotNumeric(cond, read(i)) THEN <<"error">>
        ELSE PerRow([i \in rows |-> Holds(cond, read(i))])

(* Rows that a branch keeps or deletes among others that are filled are    *)
(* filled with null.                                                       *)
Mix(rows, test, then, else) ==
    LET branch(i) == IF test[i] THEN then ELSE else
        value(r, i) == CASE r[1] = "scalar" -> r[2]
                         [] r[1] = "rows" -> r[2][i]
                         [] OTHER -> Null
    IN  IF \A i \in rows : branch(i)[1] = "delete" THEN <<"delete">>
        ELSE IF \A i \in rows : branch(i)[1] = "keep" THEN <<"keep">>
        ELSE PerRow([i \in rows |-> value(branch(i), i)])

Conditional(t, cond, rows, then, else) ==
    LET test == Condition(t, cond, rows)
    IN  IF Failed(test) THEN test
        ELSE IF Failed(then) THEN then
        ELSE IF Failed(else) THEN else
        ELSE Mix(rows, test[2], then, else)

(* The node at p, given the results of the nodes below it.                 *)
Evaluate(tree, t, c, rows, p, result) ==
    LET node == tree[p]
    IN  IF Len(p) > MaxDepth THEN <<"error">>
        ELSE CASE node.op = "FILL_LITERAL" -> FillLiteral(node.value, t[c].dtype)
               [] node.op = "FILL_AGGREGATE" -> FillAggregate(t, c, node.agg)
               [] node.op = "FILL_FROM_COLUMN" ->
                     IF node.sourceColumn \notin DOMAIN t THEN <<"error">>
                     ELSE PerRow([i \in rows |-> Cells(t, node.sourceColumn)[i]])
               [] node.op = "DELETE_ROWS" -> <<"delete">>
               [] node.op = "KEEP" -> <<"keep">>
               [] node.op = "TRANSFORM" -> Transform(node, result[Input(p)])
               [] node.op = "CONDITIONAL" ->
                     Conditional(t, node.condition, rows, result[Then(p)], result[Else(p)])
               [] OTHER -> <<"error">>

Execute(tree, t, c, rows) ==
    LET result[p \in DOMAIN tree] == Evaluate(tree, t, c, rows, p, result)
    IN  result[<< >>]

=============================================================================
