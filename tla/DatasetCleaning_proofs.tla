------------------------ MODULE DatasetCleaning_proofs ------------------------
(***************************************************************************)
(* Proofs about DatasetCleaning, for any set of jobs with a well-formed    *)
(* snapshot.  One inductive invariant, CInv, carries them: what a decision *)
(* may touch (UntouchedCells), what a row and a column stay (DataInv,      *)
(* TypesInv), what a lone decision on a cell left there (SoloInv) and how  *)
(* far the repair of dates has come (RepairInv).                           *)
(***************************************************************************)
EXTENDS DatasetCleaningInvariants, Transformations_proofs

-----------------------------------------------------------------------------
(* What a write leaves alone.                                              *)

SameOutside(old, new, rows) ==
    /\ DOMAIN new = DOMAIN old
    /\ \A i \in DOMAIN old \ rows : new[i] = old[i]

(* A series is written whole, or not at all.                               *)
LEMMA WritesAll ==
    ASSUME NEW column, NEW cells
    PROVE  /\ WriteStrict(column, cells).cells \in {column.cells, cells}
           /\ WriteOrText(column, cells).cells \in {column.cells, cells}
  BY DEF WriteStrict, WriteOrText, Column

(* Whichever way a column is written, the cells that were not replaced are *)
(* what they were.                                                         *)
LEMMA WriteKeeps ==
    ASSUME NEW column, NEW cells, NEW rows, SameOutside(column.cells, cells, rows)
    PROVE  /\ SameOutside(column.cells, WriteStrict(column, cells).cells, rows)
           /\ SameOutside(column.cells, WriteOrText(column, cells).cells, rows)
  BY WritesAll DEF SameOutside

(* A correction by a value, or by the suggestion.                          *)
LEMMA FillKeeps ==
    ASSUME NEW column, NEW rows, NEW x, NEW written \in Fill(column, rows, x)
    PROVE  SameOutside(column.cells, written.cells, rows)
  <1> PICK y : written = WriteOrText(column, [i \in DOMAIN column.cells |->
                                                IF i \in rows THEN y ELSE column.cells[i]])
    BY DEF Fill, Replace
  <1> DEFINE cells == [i \in DOMAIN column.cells |-> IF i \in rows THEN y ELSE column.cells[i]]
  <1>1. written = WriteOrText(column, cells)
    OBVIOUS
  <1>2. SameOutside(column.cells, cells, rows)
    BY DEF SameOutside
  <1> QED
    BY <1>1, <1>2, WriteKeeps

(* The suffix on duplicates.                                               *)
LEMMA MarkCopiesKeeps ==
    ASSUME NEW column, NEW rows, NEW written \in MarkCopies(column, rows)
    PROVE  SameOutside(column.cells, written.cells, rows)
  <1> DEFINE cells == Replace(column.cells, rows, LAMBDA i : WithSuffix(column.cells[i]))
  <1>1. written = WriteOrText(column, cells)
    BY DEF MarkCopies
  <1>2. SameOutside(column.cells, cells, rows)
    BY DEF SameOutside, Replace
  <1> QED
    BY <1>1, <1>2, WriteKeeps

(* A correction program, whatever it computes.                             *)
LEMMA RunProgramKeeps ==
    ASSUME NEW t, NEW c, NEW rows, NEW tree, NEW written \in RunProgram(t, c, rows, tree)
    PROVE  SameOutside(t[c].cells, written.cells, rows)
  <1> DEFINE r == Execute(tree, t, c, rows)
             value(i) == IF r[1] = "scalar" THEN r[2] ELSE r[2][i]
             cells == Replace(t[c].cells, rows, value)
  <1>1. written = WriteStrict(t[c], cells) \/ written = t[c]
    BY DEF RunProgram, Cells
  <1>2. SameOutside(t[c].cells, cells, rows)
    BY DEF SameOutside, Replace
  <1>3. SameOutside(t[c].cells, t[c].cells, rows)
    BY DEF SameOutside
  <1> HIDE DEF cells
  <1>4. SameOutside(t[c].cells, WriteStrict(t[c], cells).cells, rows)
    BY <1>2, WriteKeeps
  <1> QED
    BY <1>1, <1>3, <1>4

(* Any decision: outside the rows the finder returns for its anomaly, the  *)
(* column is what it was; and a discarded anomaly changes no row at all.   *)
LEMMA EffectKeeps ==
    ASSUME NEW t, NEW snap, NEW a, NEW d, NEW written \in Effect(t, snap, a, d)
    PROVE  /\ SameOutside(t[a.col].cells, written.cells, Affected(snap, a))
           /\ d.kind = "discarded" => written = t[a.col]
  <1> DEFINE rows == Affected(snap, a)
             column == t[a.col]
             blank == Replace(column.cells, rows, LAMBDA i : Null)
             trimmed == Replace(column.cells, rows,
                            LAMBDA i : IF column.cells[i] = Null THEN Null
                                       ELSE Unpadded(Text(column.cells[i])))
  <1>1. SameOutside(column.cells, column.cells, rows)
    BY DEF SameOutside
  <1>2. SameOutside(column.cells, blank, rows) /\ SameOutside(column.cells, trimmed, rows)
    BY DEF SameOutside, Replace
  <1>3. SameOutside(column.cells, WriteStrict(column, blank).cells, rows)
        /\ SameOutside(column.cells, WriteStrict(column, trimmed).cells, rows)
    <2> HIDE DEF blank, trimmed, column, rows
    <2> QED BY <1>2, WriteKeeps
  <1>4. \/ written = column
        \/ written \in MarkCopies(column, rows)
        \/ written = WriteStrict(column, blank)
        \/ written = WriteStrict(column, trimmed)
        \/ written \in RunProgram(t, a.col, rows, d.ir)
        \/ written \in Fill(column, rows, d.value)
        \/ written \in Fill(column, rows, a.sugg)
    BY DEF Effect
  <1>5. SameOutside(column.cells, written.cells, rows)
    <2> HIDE DEF blank, trimmed, column, rows
    <2>1. written \in MarkCopies(column, rows) => SameOutside(column.cells, written.cells, rows)
      BY MarkCopiesKeeps
    <2>2. written \in RunProgram(t, a.col, rows, d.ir)
            => SameOutside(column.cells, written.cells, rows)
      BY RunProgramKeeps DEF column
    <2>3. \A x : written \in Fill(column, rows, x) => SameOutside(column.cells, written.cells, rows)
      BY FillKeeps
    <2> QED
      BY <1>1, <1>3, <1>4, <2>1, <2>2, <2>3
  <1>6. d.kind = "discarded" => written = t[a.col]
    BY DEF Effect, Replace
  <1> QED
    BY <1>5, <1>6

-----------------------------------------------------------------------------
(* What a program yields.                                                  *)

Positions == Seq({"input", "then", "else"})

Agrees(tree, p, f, g) ==
    \A q \in {Input(p), Then(p), Else(p)} \cap DOMAIN tree : f[q] = g[q]

(* A node looks no further than at the results of the nodes below it.      *)
LEMMA EvaluateReads ==
    ASSUME NEW tree, NEW known, Valid(tree, known), NEW t, NEW c, NEW rows, NEW p \in DOMAIN tree,
           NEW f, NEW g, Agrees(tree, p, f, g)
    PROVE  Evaluate(tree, t, c, rows, p, f) = Evaluate(tree, t, c, rows, p, g)
  <1>1. NodeValid(known, tree, p)
    BY DEF Valid
  <1>2. CASE tree[p].op = "TRANSFORM"
    <2>1. f[Input(p)] = g[Input(p)]
      BY <1>1, <1>2 DEF NodeValid, Agrees
    <2> QED
      BY <1>2, <2>1 DEF Evaluate
  <1>3. CASE tree[p].op = "CONDITIONAL"
    <2>1. f[Then(p)] = g[Then(p)] /\ f[Else(p)] = g[Else(p)]
      BY <1>1, <1>3 DEF NodeValid, Agrees
    <2> QED
      BY <1>3, <2>1 DEF Evaluate
  <1>4. CASE tree[p].op \in {"FILL_LITERAL", "DELETE_ROWS", "KEEP", "FILL_AGGREGATE",
                             "FILL_FROM_COLUMN"}
    BY <1>4 DEF Evaluate
  <1>5. tree[p].op \in {"FILL_LITERAL", "DELETE_ROWS", "KEEP", "FILL_AGGREGATE",
                        "FILL_FROM_COLUMN", "TRANSFORM", "CONDITIONAL"}
    BY <1>1 DEF NodeValid
  <1> QED
    BY <1>2, <1>3, <1>4, <1>5

LEMMA Children ==
    ASSUME NEW p \in Positions, NEW q \in {Input(p), Then(p), Else(p)}
    PROVE  q \in Positions /\ Len(q) = Len(p) + 1 /\ Len(p) \in Nat
  <1>1. \A e \in {"input", "then", "else"} :
            /\ Append(p, e) \in Seq({"input", "then", "else"})
            /\ Len(Append(p, e)) = Len(p) + 1
    BY DEF Positions
  <1>2. Len(p) \in Nat
    BY DEF Positions
  <1>3. \E e \in {"input", "then", "else"} : q = Append(p, e)
    BY DEF Input, Then, Else
  <1> QED
    BY <1>1, <1>2, <1>3 DEF Positions

Results(tree, t, c, rows, result) ==
    result = [p \in DOMAIN tree |-> Evaluate(tree, t, c, rows, p, result)]

(* The results of a valid program exist: they are computed level by level, *)
(* from the leaves up, and there are four levels.                          *)
LEMMA ResultsExist ==
    ASSUME NEW tree, IsProgram(tree), NEW known, Valid(tree, known),
           NEW t, NEW c, NEW rows
    PROVE  \E result : Results(tree, t, c, rows, result)
  <1> DEFINE E(f) == [p \in DOMAIN tree |-> Evaluate(tree, t, c, rows, p, f)]
             same(f, g, k) == \A p \in DOMAIN tree : Len(p) >= k => f[p] = g[p]
  <1>1. \A p \in DOMAIN tree : p \in Positions /\ Len(p) \in 0..3
    <2> SUFFICES ASSUME NEW p \in DOMAIN tree
                 PROVE  p \in Positions /\ Len(p) \in 0..3
      OBVIOUS
    <2>1. p \in Positions
      BY DEF IsProgram, Positions
    <2>2. Len(p) \in Nat
      BY <2>1 DEF Positions
    <2>3. NodeValid(known, tree, p)
      BY DEF Valid
    <2>4. Len(p) <= 3
      BY <2>3 DEF NodeValid, MaxDepth
    <2>5. \A n \in Nat : n <= 3 => n \in 0..3
      OBVIOUS
    <2> QED
      BY <2>1, <2>2, <2>4, <2>5, Zenon
  <1>2. ASSUME NEW f, NEW g, NEW k \in 0..3, same(f, g, k + 1)
        PROVE  same(E(f), E(g), k)
    <2>1. ASSUME NEW p \in DOMAIN tree, Len(p) >= k
          PROVE  E(f)[p] = E(g)[p]
      <3>1. p \in Positions /\ Len(p) \in 0..3
        BY <1>1
      <3>2. ASSUME NEW q \in {Input(p), Then(p), Else(p)}
            PROVE  Len(q) >= k + 1
        <4>1. Len(q) = Len(p) + 1
          BY <3>1, Children
        <4> QED
          BY <2>1, <3>1, <4>1
      <3>3. Agrees(tree, p, f, g)
        BY <1>2, <3>2 DEF Agrees
      <3>4. Evaluate(tree, t, c, rows, p, f) = Evaluate(tree, t, c, rows, p, g)
        BY <3>3, EvaluateReads
      <3> QED
        BY <3>4
    <2> QED
      BY <2>1
  <1> DEFINE f4 == E(<< >>)
             f3 == E(f4)
             f2 == E(f3)
             f1 == E(f2)
             f0 == E(f1)
  <1> HIDE DEF E, same
  <1>3. \A f, g : same(f, g, 4)
    <2>1. \A n \in 0..3 : ~(n >= 4)
      OBVIOUS
    <2> QED
      BY <1>1, <2>1, Zenon DEF same
  <1>4. same(f3, f4, 3)
    BY <1>2, <1>3
  <1>5. same(f2, f3, 2)
    BY <1>2, <1>4
  <1>6. same(f1, f2, 1)
    BY <1>2, <1>5
  <1>7. same(f0, f1, 0)
    BY <1>2, <1>6
  <1>8. \A p \in DOMAIN tree : f0[p] = f1[p]
    BY <1>1, <1>7 DEF same
  <1>9. f0 = f1
    BY <1>8 DEF E
  <1>10. f1 = E(f1)
    BY <1>9
  <1> HIDE DEF f1
  <1> QED
    BY <1>10 DEF E, Results

(* So the executor's result is that of the root.                           *)
LEMMA ExecuteSolves ==
    ASSUME NEW tree, IsProgram(tree), NEW known, Valid(tree, known),
           NEW t, NEW c, NEW rows
    PROVE  \E result : /\ Results(tree, t, c, rows, result)
                       /\ Execute(tree, t, c, rows) = result[<< >>]
  <1>1. Execute(tree, t, c, rows) = (CHOOSE f : Results(tree, t, c, rows, f))[<< >>]
    BY DEF Execute, Results
  <1>2. \E f : Results(tree, t, c, rows, f)
    BY ResultsExist
  <1> QED
    BY <1>1, <1>2

(* What a node may yield: a cell or an infinite number, and something that *)
(* is infinite only when the program sees it; and an exception that is not *)
(* caught only for the two reasons there are.                              *)
MayYield(tree, t, x) ==
    /\ IsCell(x) \/ x = Infinite
    /\ Unbounded(x) => SeesInfinity(t, tree)

Yields(tree, t, c, rows, n, r) ==
    /\ r[1] = "scalar" => MayYield(tree, t, r[2])
    /\ r[1] = "rows" => DOMAIN r[2] = rows /\ \A i \in rows \cap (1..n) : MayYield(tree, t, r[2][i])
    /\ r[1] = "raise" /\ rows \subseteq 1..n => ProgramRaises(t, c, tree)

(* Only an infinite text of an infinite value is infinite.                 *)
LEMMA UnboundedText ==
    ASSUME NEW x, IsStr(x)
    PROVE  Unbounded(x) <=> Val(x).shape = "infinite" /\ ~Val(x).dup
  BY Parts DEF Unbounded, Shape, IsStr, Infinite

LEMMA NumIsBounded == \A k : ~Unbounded(Num(k))
  BY Parts DEF Unbounded, Num, Infinite, IsStr

LEMMA StrIsBounded ==
    ASSUME NEW shape, NEW k, shape # "infinite"
    PROVE  ~Unbounded(Str(shape, k))
  BY UnboundedText, Parts DEF Str, IsStr

LEMMA NullIsBounded == ~Unbounded(Null)
  BY DEF Unbounded, Null, Infinite, IsStr, Kind

LEMMA TextIsUnbounded ==
    ASSUME NEW x, IsCell(x), x # Null, Unbounded(Text(x))
    PROVE  Unbounded(x)
  <1>1. CASE IsStr(x)
    BY <1>1 DEF Text
  <1>2. CASE ~IsStr(x)
    <2>1. Kind(x) \in {"num", "date", "datetime", "bool"}
      BY <1>2, Kinds DEF IsStr
    <2>2. \E shape, k : Text(x) = Str(shape, k) /\ shape # "infinite"
      <3>1. CASE Kind(x) = "num"
        BY <1>2, <3>1 DEF Text, Digits
      <3>2. CASE Kind(x) = "date"
        BY <1>2, <3>2 DEF Text
      <3>3. CASE Kind(x) = "datetime"
        BY <1>2, <3>3 DEF Text
      <3>4. CASE Kind(x) = "bool"
        <4>1. Text(x) = Str(IF Val(x) THEN "true" ELSE "false", 0)
          BY <1>2, <3>4 DEF Text
        <4> QED BY <4>1
      <3> QED BY <2>1, <3>1, <3>2, <3>3, <3>4
    <2> QED
      BY <2>2, StrIsBounded
  <1> QED
    BY <1>1, <1>2

LEMMA PyTextIsCell ==
    ASSUME NEW tree, NEW t, NEW x, MayYield(tree, t, x)
    PROVE  IsCell(PyText(x)) /\ IsStr(PyText(x)) /\ MayYield(tree, t, PyText(x))
  <1>1. CASE x = Null
    BY <1>1, StrIsCell, StrIsBounded DEF PyText, NoneText, MayYield
  <1>2. CASE x = Infinite
    <2>1. PyText(x) = Str("infinite", 0)
      BY <1>2, Parts DEF PyText, Text, Infinite, IsStr
    <2>2. Unbounded(x)
      BY <1>2 DEF Unbounded
    <2> QED
      BY <2>1, <2>2, StrIsCell DEF MayYield
  <1>3. CASE x # Null /\ IsCell(x)
    <2>1. PyText(x) = Text(x)
      BY <1>3 DEF PyText
    <2> QED
      BY <1>3, <2>1, TextOfCell, TextIsUnbounded DEF MayYield
  <1> QED
    BY <1>1, <1>2, <1>3 DEF MayYield

(* Case and blanks do not make a text infinite.                            *)
LEMMA EditsMayBeYielded ==
    ASSUME NEW tree, NEW t, NEW x, IsCell(x), IsStr(x), MayYield(tree, t, x)
    PROVE  \A y \in {Upper(x), Lower(x), Unpadded(x)} : MayYield(tree, t, y)
  <1>1. \A y \in {Upper(x), Lower(x), Unpadded(x)} : IsCell(y) /\ IsStr(y)
    BY EditsAreTexts
  <1>2. IsText(Val(x))
    BY DEF IsCell, IsStr, Null, Kind, Temporal
  <1>3. \A y \in {Upper(x), Lower(x), Unpadded(x)} :
            Val(y).shape = Val(x).shape /\ Val(y).dup = Val(x).dup
    <2>1. Val(x) = [shape |-> Val(x).shape, k |-> Val(x).k, upper |-> Val(x).upper,
                    pad |-> Val(x).pad, dup |-> Val(x).dup]
      BY <1>2 DEF IsText
    <2> QED
      BY <2>1, Parts DEF Upper, Lower, Unpadded
  <1>4. \A y \in {Upper(x), Lower(x), Unpadded(x)} : Unbounded(y) => Unbounded(x)
    BY <1>1, <1>3, UnboundedText
  <1> QED
    BY <1>1, <1>4 DEF MayYield

LEMMA ApplyMayYield ==
    ASSUME NEW tree, NEW t, NEW node, NEW x, MayYield(tree, t, x), NEW y \in Apply(node, x)
    PROVE  MayYield(tree, t, y)
  <1>1. CASE node.fn \in StringFns
    <2> DEFINE s == PyText(x)
    <2>1. y \in {Upper(s), Empty, Unpadded(s), Lower(s)}
      BY <1>1 DEF Apply
    <2>2. IsCell(s) /\ IsStr(s) /\ MayYield(tree, t, s)
      BY PyTextIsCell
    <2>3. MayYield(tree, t, Empty)
      BY StrIsCell, StrIsBounded DEF Empty, MayYield
    <2> HIDE DEF s
    <2> QED
      BY <2>1, <2>2, <2>3, EditsMayBeYielded
  <1>2. CASE node.fn \notin StringFns /\ Unbounded(x)
    <2>1. y = Infinite
      BY <1>2 DEF Apply, UnboundedResult
    <2> QED
      BY <1>2, <2>1 DEF MayYield
  <1>3. CASE node.fn \notin StringFns /\ ~Unbounded(x)
    <2>1. \E k : y = Num(k)
      BY <1>3 DEF Apply, Calculate
    <2> QED
      BY <2>1, NumIsCell, NumIsBounded DEF MayYield
  <1> QED
    BY <1>1, <1>2, <1>3

LEMMA TransformYields ==
    ASSUME NEW tree, NEW t, NEW c, NEW rows, NEW n \in Nat, NEW p \in DOMAIN tree,
           tree[p].op = "TRANSFORM", NEW inner, Yields(tree, t, c, rows, n, inner)
    PROVE  Yields(tree, t, c, rows, n, Transform(tree[p], inner))
  <1> DEFINE node == tree[p]
  <1>0. ASSUME NEW x, MayYield(tree, t, x), Overflows(node, x)
        PROVE  ProgramRaises(t, c, tree)
    BY <1>0 DEF Overflows, MayYield, ProgramRaises, RoundsInfinity
  <1> HIDE DEF node
  <1>1. CASE inner[1] = "scalar" /\ inner[2] # Null
    <2>1. CASE Overflows(node, inner[2])
      <3>1. Transform(node, inner) = <<"raise">>
        BY <1>1, <2>1 DEF Transform
      <3> QED
        BY <1>0, <1>1, <2>1, <3>1 DEF Yields, node
    <2>2. CASE ~Overflows(node, inner[2]) /\ Apply(node, inner[2]) = {}
      <3>1. Transform(node, inner) = <<"error">>
        BY <1>1, <2>2 DEF Transform
      <3> QED
        BY <3>1 DEF Yields, node
    <2>3. CASE ~Overflows(node, inner[2]) /\ Apply(node, inner[2]) # {}
      <3> DEFINE y == TheOnly(Apply(node, inner[2]))
      <3>1. Transform(node, inner) = <<"scalar", y>>
        BY <1>1, <2>3 DEF Transform, Scalar
      <3>2. y \in Apply(node, inner[2])
        BY <2>3 DEF TheOnly
      <3>3. MayYield(tree, t, y)
        BY <1>1, <3>2, ApplyMayYield DEF Yields
      <3> QED
        BY <3>1, <3>3 DEF Yields, node
    <2> QED
      BY <2>1, <2>2, <2>3
  <1>2. CASE inner[1] = "rows"
    <2> DEFINE bad == {i \in DOMAIN inner[2] : \/ Overflows(node, inner[2][i])
                                               \/ Apply(node, inner[2][i]) = {}}
    <2>1. CASE bad # {}
      <3>1. Transform(node, inner) =
                <<IF Overflows(node, inner[2][Min(bad)]) THEN "raise" ELSE "error">>
        BY <1>2, <2>1 DEF Transform
      <3>2. ASSUME rows \subseteq 1..n, Overflows(node, inner[2][Min(bad)])
            PROVE  ProgramRaises(t, c, tree)
        <4>1. DOMAIN inner[2] = rows
          BY <1>2 DEF Yields
        <4>2. bad \subseteq rows
          BY <4>1
        <4> HIDE DEF bad
        <4>3. bad \in SUBSET Nat
          BY <3>2, <4>2
        <4>4. Min(bad) \in rows \cap (1..n)
          BY <2>1, <3>2, <4>2, <4>3, MinIsLeast
        <4>5. MayYield(tree, t, inner[2][Min(bad)])
          BY <1>2, <4>4 DEF Yields
        <4> QED
          BY <1>0, <3>2, <4>5
      <3> HIDE DEF bad
      <3> QED
        BY <3>1, <3>2 DEF Yields, node
    <2>2. CASE bad = {}
      <3> DEFINE f == [i \in DOMAIN inner[2] |-> TheOnly(Apply(node, inner[2][i]))]
      <3>1. Transform(node, inner) = <<"rows", f>>
        BY <1>2, <2>2 DEF Transform, PerRow
      <3>2. DOMAIN f = rows
        BY <1>2 DEF Yields
      <3>3. ASSUME NEW i \in rows \cap (1..n)
            PROVE  MayYield(tree, t, f[i])
        <4>1. i \in DOMAIN inner[2] /\ MayYield(tree, t, inner[2][i])
          BY <1>2, <3>3 DEF Yields
        <4>2. f[i] \in Apply(node, inner[2][i])
          BY <2>2, <4>1 DEF TheOnly
        <4> QED
          BY <4>1, <4>2, ApplyMayYield
      <3> HIDE DEF f
      <3> QED
        BY <3>1, <3>2, <3>3 DEF Yields, node
    <2> QED
      BY <2>1, <2>2
  <1>3. CASE ~(inner[1] = "scalar" /\ inner[2] # Null) /\ inner[1] # "rows"
    BY <1>3 DEF Transform, node
  <1> QED
    BY <1>1, <1>2, <1>3

(* An operand raises when it aggregates a column with a text that is no    *)
(* number.                                                                 *)
NoNumber(x) == IsStr(x) /\ ~Written(x, "digits") /\ ~Written(x, "infinite")

LEMMA ReadRaises ==
    ASSUME NEW t, IsFrame(t), NEW o, ReadOutcome(t, o) = "raise"
    PROVE  /\ o.kind = "aggregate" /\ o.column \in DOMAIN t
           /\ \E x \in Uniq(Cells(t, o.column)) : NoNumber(x)
  <1>1. /\ o.kind = "aggregate" /\ o.column \in DOMAIN t /\ HasType(t, o.column, "str")
        /\ \E x \in Uniq(Cells(t, o.column)) : ~IsFloat(x) \/ Val(x).pad
    BY DEF ReadOutcome
  <1>2. PICK x \in Uniq(Cells(t, o.column)) : ~IsFloat(x) \/ Val(x).pad
    BY <1>1
  <1>3. IsStr(x)
    BY <1>1, TextColumnCells DEF Uniq, NonNull, IsFrame
  <1>4. NoNumber(x)
    BY <1>2, <1>3 DEF IsFloat, Unbounded, Written, NoNumber
  <1> QED
    BY <1>1, <1>4

LEMMA ConditionFails ==
    ASSUME NEW t, IsFrame(t), NEW cond, NEW rows
    PROVE  /\ Condition(t, cond, rows)[1] \in {"error", "raise", "rows"}
           /\ Condition(t, cond, rows)[1] = "raise" =>
                \E k \in DOMAIN Operands(cond) :
                    /\ Operands(cond)[k].kind = "aggregate"
                    /\ Operands(cond)[k].column \in DOMAIN t
                    /\ \E x \in Uniq(Cells(t, Operands(cond)[k].column)) : NoNumber(x)
  <1> DEFINE o == Operands(cond)
             bad == {k \in DOMAIN o : ReadOutcome(t, o[k]) # "ok"}
             test == Condition(t, cond, rows)
  <1>1. CASE bad # {}
    <2>1. DOMAIN o \subseteq Nat
      BY DEF Operands
    <2>2. Min(bad) \in bad
      BY <1>1, <2>1, MinIsLeast
    <2>3. test[1] = ReadOutcome(t, o[Min(bad)])
      BY <1>1 DEF Condition
    <2>4. ReadOutcome(t, o[Min(bad)]) \in {"error", "raise"}
      BY <2>2 DEF ReadOutcome
    <2> HIDE DEF o
    <2>5. test[1] = "raise" => \E k \in DOMAIN o : ReadOutcome(t, o[k]) = "raise"
      BY <2>2, <2>3
    <2>6. \A k \in DOMAIN o : ReadOutcome(t, o[k]) = "raise" =>
            /\ o[k].kind = "aggregate" /\ o[k].column \in DOMAIN t
            /\ \E x \in Uniq(Cells(t, o[k].column)) : NoNumber(x)
      BY ReadRaises
    <2> QED
      BY <2>3, <2>4, <2>5, <2>6 DEF o
  <1>2. CASE bad = {}
    <2>1. test[1] \in {"error", "rows"}
      BY <1>2 DEF Condition, PerRow
    <2> QED
      BY <2>1
  <1> QED
    BY <1>1, <1>2

LEMMA MixYields ==
    ASSUME NEW tree, NEW t, NEW c, NEW rows, NEW n, NEW test, NEW then, NEW else,
           Yields(tree, t, c, rows, n, then), Yields(tree, t, c, rows, n, else)
    PROVE  Yields(tree, t, c, rows, n, Mix(rows, test, then, else))
  <1> DEFINE branch(i) == IF test[i] THEN then ELSE else
             value(r, i) == CASE r[1] = "scalar" -> r[2]
                              [] r[1] = "rows" -> r[2][i]
                              [] OTHER -> Null
             f == [i \in rows |-> value(branch(i), i)]
  <1>1. Mix(rows, test, then, else) \in {<<"delete">>, <<"keep">>, <<"rows", f>>}
    BY DEF Mix, PerRow
  <1>2. ASSUME NEW i \in rows \cap (1..n)
        PROVE  MayYield(tree, t, f[i])
    <2>1. branch(i) \in {then, else}
      OBVIOUS
    <2>2. Yields(tree, t, c, rows, n, branch(i))
      BY <2>1
    <2>3. f[i] = value(branch(i), i)
      OBVIOUS
    <2> HIDE DEF branch, f
    <2>4. MayYield(tree, t, Null)
      BY NullIsBounded DEF IsCell, MayYield
    <2>5. CASE branch(i)[1] = "scalar"
      BY <2>2, <2>3, <2>5 DEF Yields
    <2>6. CASE branch(i)[1] = "rows"
      BY <2>2, <2>3, <2>6 DEF Yields
    <2>7. CASE branch(i)[1] \notin {"scalar", "rows"}
      BY <2>3, <2>4, <2>7
    <2> QED
      BY <2>5, <2>6, <2>7
  <1>3. DOMAIN f = rows
    OBVIOUS
  <1> HIDE DEF f
  <1> QED
    BY <1>1, <1>2, <1>3 DEF Yields

LEMMA ConditionalYields ==
    ASSUME NEW tree, NEW t, IsFrame(t), NEW c, NEW rows, NEW n, NEW p \in DOMAIN tree,
           tree[p].op = "CONDITIONAL", NEW then, NEW else,
           Yields(tree, t, c, rows, n, then), Yields(tree, t, c, rows, n, else)
    PROVE  Yields(tree, t, c, rows, n, Conditional(t, tree[p].condition, rows, then, else))
  <1> DEFINE cond == tree[p].condition
             test == Condition(t, cond, rows)
  <1>1. Conditional(t, cond, rows, then, else) =
            IF Failed(test) THEN test
            ELSE IF Failed(then) THEN then
            ELSE IF Failed(else) THEN else
            ELSE Mix(rows, test[2], then, else)
    BY Zenon DEF Conditional
  <1>2. Failed(test) => Yields(tree, t, c, rows, n, test)
    <2>1. test[1] = "raise" => AggregatesText(t, tree)
      BY ConditionFails DEF AggregatesText, NoNumber
    <2> HIDE DEF test
    <2> QED
      BY <2>1 DEF Failed, Yields, ProgramRaises
  <1>3. Yields(tree, t, c, rows, n, Mix(rows, test[2], then, else))
    BY MixYields
  <1> HIDE DEF test, cond
  <1>4. Yields(tree, t, c, rows, n, Conditional(t, cond, rows, then, else))
    BY <1>1, <1>2, <1>3
  <1> QED
    BY <1>4 DEF cond

(* A cell of the table is one the program may see.                         *)
LEMMA CellsMayBeYielded ==
    ASSUME NEW tree, NEW t, IsFrame(t), NEW c \in DOMAIN t, NEW i \in AllRows(t)
    PROVE  MayYield(tree, t, Cells(t, c)[i])
  <1>1. IsCell(Cells(t, c)[i]) /\ DOMAIN Cells(t, c) = AllRows(t)
    BY DEF IsFrame
  <1>2. CASE Cells(t, c)[i] = Null
    BY <1>1, <1>2, NullIsBounded DEF MayYield
  <1>3. CASE Cells(t, c)[i] # Null
    <2>1. Cells(t, c)[i] \in Uniq(Cells(t, c))
      BY <1>1, <1>3 DEF Uniq, NonNull
    <2> QED
      BY <1>1, <2>1 DEF MayYield, SeesInfinity
  <1> QED
    BY <1>2, <1>3

(* The mode is one of the cells, the other aggregates are numbers.         *)
LEMMA FillAggregateYields ==
    ASSUME NEW tree, NEW t, IsFrame(t), NEW c \in DOMAIN t, NEW rows, NEW n, NEW agg \in Aggs
    PROVE  Yields(tree, t, c, rows, n, FillAggregate(t, c, agg))
  <1> DEFINE cells == Cells(t, c)
  <1>1. DOMAIN cells = AllRows(t) /\ IsFiniteSet(DOMAIN cells)
    BY DEF IsFrame
  <1>2. FillAggregate(t, c, agg) =
            IF agg # "mode" /\ ~HasType(t, c, "num") THEN <<"error">>
            ELSE IF NonNull(cells) = {} THEN <<"scalar", Null>>
            ELSE <<"scalar", Aggregate(cells, agg)>>
    BY Zenon DEF FillAggregate, Scalar
  <1>3. MayYield(tree, t, Null)
    BY NullIsBounded DEF IsCell, MayYield
  <1>4. ASSUME NonNull(cells) # {}
        PROVE  MayYield(tree, t, Aggregate(cells, agg))
    <2>1. CASE agg = "mode"
      <3>1. Aggregate(cells, agg) = Mode(cells)
        BY <2>1 DEF Aggregate
      <3>2. PICK i \in NonNull(cells) : Mode(cells) = cells[i]
        BY <1>1, <1>4, ModeIsValue DEF Uniq
      <3>3. i \in AllRows(t)
        BY <1>1 DEF NonNull
      <3> QED
        BY <3>1, <3>2, <3>3, CellsMayBeYielded
    <2>2. CASE agg \in {"mean", "median", "min", "max", "sum"}
      <3>1. \E k : Aggregate(cells, agg) = Num(k)
        BY <2>2 DEF Aggregate
      <3> QED
        BY <3>1, NumIsCell, NumIsBounded DEF MayYield
    <2> QED
      BY <2>1, <2>2 DEF Aggs
  <1> HIDE DEF cells
  <1>5. CASE FillAggregate(t, c, agg) = <<"error">>
    BY <1>5 DEF Yields
  <1>6. CASE FillAggregate(t, c, agg) = <<"scalar", Null>>
    BY <1>3, <1>6 DEF Yields
  <1>7. CASE NonNull(cells) # {} /\ FillAggregate(t, c, agg) = <<"scalar", Aggregate(cells, agg)>>
    BY <1>4, <1>7 DEF Yields
  <1> QED
    BY <1>2, <1>5, <1>6, <1>7

LEMMA FillLiteralYields ==
    ASSUME NEW tree, IsProgram(tree), NEW p \in DOMAIN tree, tree[p].op = "FILL_LITERAL",
           NEW t, NEW c, NEW rows, NEW n
    PROVE  Yields(tree, t, c, rows, n, FillLiteral(tree[p].value, t[c].dtype))
  <1> DEFINE x == tree[p].value
             dtype == t[c].dtype
             cast == CastToDtype(x, dtype)
             r == FillLiteral(x, dtype)
  <1>1. IsCell(x) /\ x \in LiteralsOf(tree)
    BY DEF IsProgram, LiteralsOf
  <1>2. MayYield(tree, t, x)
    BY <1>1 DEF MayYield, SeesInfinity
  <1>3. cast = IF x = Null THEN {Null}
               ELSE IF dtype = "num" /\ Unbounded(x) THEN {}
               ELSE IF dtype = "num" /\ IsFloat(x) THEN {Num(Float(x))}
               ELSE IF dtype = "str" THEN {Text(x)}
               ELSE {x}
    BY Zenon DEF CastToDtype
  <1>4. r = IF cast = {} THEN <<"raise">> ELSE <<"scalar", TheOnly(cast)>>
    BY Zenon DEF FillLiteral, Scalar
  <1>5. dtype = "num" /\ Unbounded(x) => ProgramRaises(t, c, tree)
    BY <1>1 DEF ProgramRaises, RoundsInfinity, HasType
  <1>6. x # Null => MayYield(tree, t, Text(x))
    BY <1>1, <1>2, TextOfCell, TextIsUnbounded DEF MayYield
  <1>7. MayYield(tree, t, Null) /\ MayYield(tree, t, Num(Float(x)))
    BY NullIsBounded, NumIsCell, NumIsBounded DEF MayYield, IsCell
  <1> HIDE DEF x, dtype, cast, r
  <1>8. cast = {} => ProgramRaises(t, c, tree)
    BY <1>3, <1>5
  <1>9. cast # {} => TheOnly(cast) \in {Null, Num(Float(x)), Text(x), x}
                     /\ (TheOnly(cast) = Text(x) => x # Null \/ TheOnly(cast) \in {Null, x})
    BY <1>3 DEF TheOnly
  <1>10. cast # {} => MayYield(tree, t, TheOnly(cast))
    BY <1>2, <1>6, <1>7, <1>9
  <1>11. Yields(tree, t, c, rows, n, r)
    BY <1>4, <1>8, <1>10 DEF Yields
  <1> QED
    BY <1>11 DEF r, x, dtype

(* One node, when the nodes below it yield what they may.                  *)
LEMMA EvaluateYields ==
    ASSUME NEW tree, IsProgram(tree), NEW known, Valid(tree, known),
           NEW t, IsFrame(t), NEW c \in DOMAIN t, NEW rows, NEW n \in Nat, AllRows(t) = 1..n,
           NEW p \in DOMAIN tree, NEW result,
           \A q \in {Input(p), Then(p), Else(p)} \cap DOMAIN tree :
                Yields(tree, t, c, rows, n, result[q])
    PROVE  Yields(tree, t, c, rows, n, Evaluate(tree, t, c, rows, p, result))
  <1> DEFINE node == tree[p]
             r == Evaluate(tree, t, c, rows, p, result)
  <1>0. NodeValid(known, tree, p) /\ ~(Len(p) > MaxDepth)
    <2>1. NodeValid(known, tree, p)
      BY DEF Valid
    <2>2. Len(p) <= MaxDepth /\ Len(p) \in Nat
      BY <2>1, Children DEF NodeValid, IsProgram, Positions
    <2> QED
      BY <2>1, <2>2 DEF MaxDepth
  <1>1. CASE node.op = "FILL_LITERAL"
    <2>1. r = FillLiteral(node.value, t[c].dtype)
      BY <1>0, <1>1 DEF Evaluate
    <2> QED
      BY <1>1, <2>1, FillLiteralYields
  <1>2. CASE node.op = "FILL_AGGREGATE"
    <2>1. r = FillAggregate(t, c, node.agg)
      BY <1>0, <1>2 DEF Evaluate
    <2>2. node.agg \in Aggs
      BY <1>0, <1>2 DEF NodeValid
    <2> QED
      BY <2>1, <2>2, FillAggregateYields
  <1>3. CASE node.op = "FILL_FROM_COLUMN"
    <2>1. CASE node.sourceColumn \notin DOMAIN t
      <3>1. r = <<"error">>
        BY <1>0, <1>3, <2>1 DEF Evaluate
      <3> QED
        BY <3>1 DEF Yields
    <2>2. CASE node.sourceColumn \in DOMAIN t
      <3> DEFINE f == [i \in rows |-> Cells(t, node.sourceColumn)[i]]
      <3>1. r = <<"rows", f>>
        BY <1>0, <1>3, <2>2 DEF Evaluate, PerRow
      <3>2. \A i \in rows \cap (1..n) : MayYield(tree, t, f[i])
        BY <2>2, CellsMayBeYielded
      <3>3. DOMAIN f = rows
        OBVIOUS
      <3> HIDE DEF f
      <3> QED
        BY <3>1, <3>2, <3>3 DEF Yields
    <2> QED
      BY <2>1, <2>2
  <1>4. CASE node.op \in {"DELETE_ROWS", "KEEP"}
    <2>1. r \in {<<"delete">>, <<"keep">>}
      BY <1>0, <1>4 DEF Evaluate
    <2> QED
      BY <2>1 DEF Yields
  <1>5. CASE node.op = "TRANSFORM"
    <2>1. r = Transform(node, result[Input(p)])
      BY <1>0, <1>5 DEF Evaluate
    <2>2. Input(p) \in DOMAIN tree
      BY <1>0, <1>5 DEF NodeValid
    <2> QED
      BY <1>5, <2>1, <2>2, TransformYields
  <1>6. CASE node.op = "CONDITIONAL"
    <2>1. r = Conditional(t, node.condition, rows, result[Then(p)], result[Else(p)])
      BY <1>0, <1>6 DEF Evaluate
    <2>2. Then(p) \in DOMAIN tree /\ Else(p) \in DOMAIN tree
      BY <1>0, <1>6 DEF NodeValid
    <2> QED
      BY <1>6, <2>1, <2>2, ConditionalYields
  <1>7. node.op \in {"FILL_LITERAL", "DELETE_ROWS", "KEEP", "FILL_AGGREGATE",
                     "FILL_FROM_COLUMN", "TRANSFORM", "CONDITIONAL"}
    BY <1>0 DEF NodeValid
  <1> QED
    BY <1>1, <1>2, <1>3, <1>4, <1>5, <1>6, <1>7

(* The whole program: if a node did not, a deepest such node would not     *)
(* although those below it do.                                             *)
LEMMA ProgramYields ==
    ASSUME NEW tree, IsProgram(tree), NEW known, Valid(tree, known),
           NEW t, IsFrame(t), NEW c \in DOMAIN t, NEW rows, NEW n \in Nat, AllRows(t) = 1..n
    PROVE  Yields(tree, t, c, rows, n, Execute(tree, t, c, rows))
  <1> PICK result : /\ Results(tree, t, c, rows, result)
                    /\ Execute(tree, t, c, rows) = result[<< >>]
    BY ExecuteSolves
  <1>1. \A p \in DOMAIN tree : result[p] = Evaluate(tree, t, c, rows, p, result)
    BY DEF Results
  <1> DEFINE bad == {p \in DOMAIN tree : ~Yields(tree, t, c, rows, n, result[p])}
             depth == [p \in bad |-> Len(p)]
  <1>2. \A p \in DOMAIN tree : p \in Positions /\ Len(p) \in Nat /\ Len(p) <= 3
    BY Children DEF IsProgram, Valid, NodeValid, MaxDepth, Positions
  <1>3. ASSUME bad # {}
        PROVE  FALSE
    <2>1. depth \in [bad -> Nat] /\ \A p \in bad : depth[p] <= 3
      BY <1>2, Zenon
    <2> HIDE DEF depth
    <2>2. PICK p \in bad : \A q \in bad : depth[q] <= depth[p]
      BY <1>3, <2>1, HasGreatestMeasure
    <2>3. ASSUME NEW q \in {Input(p), Then(p), Else(p)} \cap DOMAIN tree
          PROVE  q \notin bad
      <3>1. Len(q) = Len(p) + 1 /\ Len(p) \in Nat
        BY <1>2, Children
      <3>2. q \in bad => Len(q) <= Len(p)
        BY <2>2 DEF depth
      <3> QED
        BY <3>1, <3>2
    <2>4. Yields(tree, t, c, rows, n, result[p])
      BY <1>1, <2>3, EvaluateYields
    <2> QED
      BY <2>4
  <1>4. << >> \in DOMAIN tree
    BY DEF IsProgram
  <1> QED
    BY <1>3, <1>4

-----------------------------------------------------------------------------
(* What the detection leaves.                                              *)

(* A suggestion is a cell, and never infinite for a column of numbers.     *)
Suggested(t, c, x) == IsCell(x) /\ (HasType(t, c, "num") => ~Unbounded(x))

(* A record names columns of the table, and suggests a cell.  The columns  *)
(* of a pair are two, and both are of dates; no date is a duplicate.       *)
IsAnomaly(t, a) ==
    /\ a.col \in DOMAIN t /\ a.end \in DOMAIN t /\ Suggested(t, a.col, a.sugg)
    /\ a.type = "DUPLICATE" => ~IsTemporal(t, a.col)
    /\ a.type = "DATE_LOGICAL" =>
        a.col # a.end /\ IsTemporal(t, a.col) /\ IsTemporal(t, a.end)

Reliable(t, a) == IsAnomaly(t, a) /\ Findable(t, a)

LEMMA NullIsCell == IsCell(Null)
  BY DEF IsCell

LEMMA NullIsSuggested == \A t, c : Suggested(t, c, Null)
  BY NullIsCell, NullIsBounded DEF Suggested

LEMMA StrIsSuggested ==
    ASSUME NEW t, NEW c, NEW k, NEW shape,
           shape \notin {"isodate", "isomoment", "slashdate", "infinite"}
    PROVE  Suggested(t, c, Str(shape, k))
  BY StrIsCell, StrIsBounded DEF Suggested

LEMMA FoundIs ==
    ASSUME NEW type, NEW c, NEW rows, NEW sugg, NEW a \in Found(type, c, rows, sugg)
    PROVE  /\ a.type = type /\ a.col = c /\ a.end = c /\ a.sugg = sugg
           /\ a.count = Cardinality(rows) /\ rows # {}
  BY DEF Found, Anomaly

(* The records of most heuristics: what was counted is found again.        *)
LEMMA FoundIsReliable ==
    ASSUME NEW t, IsFrame(t), NEW c \in DOMAIN t, NEW sugg, Suggested(t, c, sugg),
           NEW type, type \notin {"DATE_LOGICAL", "LOW_VARIANCE", "DUPLICATE"},
           NEW rows, rows \subseteq DOMAIN Cells(t, c),
           NEW a \in Found(type, c, rows, sugg),
           type = "WHITESPACE_ONLY" \/ rows \subseteq Affected(t, a),
           Affected(t, a) \subseteq DOMAIN Cells(t, c)
    PROVE  Reliable(t, a)
  <1>1. a.type = type /\ a.col = c /\ a.end = c /\ a.sugg = sugg /\ a.count = Cardinality(rows)
    BY FoundIs
  <1>2. IsAnomaly(t, a)
    BY <1>1 DEF IsAnomaly
  <1>3. IsFiniteSet(DOMAIN Cells(t, c))
    BY DEF IsFrame
  <1>4. CASE type = "WHITESPACE_ONLY"
    <2>1. Findable(t, a)
      BY <1>1, <1>4 DEF Findable
    <2> QED
      BY <1>2, <2>1 DEF Reliable
  <1>5. CASE type # "WHITESPACE_ONLY"
    <2> DEFINE found == Affected(t, a)
    <2>1. IsFiniteSet(found)
      BY <1>3, FS_Subset
    <2>2. IsFiniteSet(rows) /\ Cardinality(rows) <= Cardinality(found)
      BY <1>5, <2>1, FS_Subset
    <2>3. Cardinality(rows) \in Nat /\ Cardinality(found) \in Nat
      BY <2>1, <2>2, FS_CardinalityType
    <2>4. Cardinality(found) >= a.count
      BY <1>1, <2>2, <2>3
    <2>5. Findable(t, a)
      BY <1>1, <2>4 DEF Findable
    <2> QED
      BY <1>2, <2>5 DEF Reliable
  <1> QED
    BY <1>4, <1>5

LEMMA CellOf ==
    ASSUME NEW t, IsFrame(t), NEW c \in DOMAIN t, NEW i \in NonNull(Cells(t, c))
    PROVE  /\ IsCell(Cells(t, c)[i]) /\ Cells(t, c)[i] # Null /\ i \in AllRows(t)
           /\ Kind(Cells(t, c)[i]) = t[c].dtype
  BY DEF IsFrame, NonNull, Fits

LEMMA ModeIsCell ==
    ASSUME NEW t, IsFrame(t), NEW c \in DOMAIN t, NonNull(Cells(t, c)) # {}
    PROVE  \E i \in NonNull(Cells(t, c)) : Mode(Cells(t, c)) = Cells(t, c)[i]
  BY ModeIsValue DEF IsFrame, Uniq

LEMMA MissingReliable ==
    ASSUME NEW t, IsFrame(t), NEW c \in DOMAIN t, NEW a \in Missing(t, c)
    PROVE  Reliable(t, a)
  <1> DEFINE rows == Nulls(Cells(t, c))
             full == NonNull(Cells(t, c))
  <1>1. a \in Found("MISSING_VALUE", c, rows, FillValue(t, c))
    BY DEF Missing
  <1>2. Suggested(t, c, FillValue(t, c))
    <2>1. FillValue(t, c) =
            IF Is(c, "phone") \/ Is(c, "address") THEN Null
            ELSE IF IsTemporal(t, c) THEN NullText
            ELSE IF full = {} THEN IF HasType(t, c, "num") THEN Digits(0) ELSE Empty
            ELSE IF HasType(t, c, "num") THEN Digits(Mean(Cells(t, c)))
            ELSE Text(Mode(Cells(t, c)))
      BY Zenon DEF FillValue
    <2>2. \A k : Suggested(t, c, Digits(k))
      BY StrIsSuggested DEF Digits
    <2>3. Suggested(t, c, NullText) /\ Suggested(t, c, Empty)
      BY StrIsSuggested DEF NullText, Empty
    <2>4. ASSUME full # {}
          PROVE  IsCell(Text(Mode(Cells(t, c))))
      <3>1. PICK i \in full : Mode(Cells(t, c)) = Cells(t, c)[i]
        BY <2>4, ModeIsCell
      <3> QED
        BY <3>1, CellOf, TextOfCell
    <2> QED
      BY <2>1, <2>2, <2>3, <2>4, NullIsSuggested DEF Suggested
  <1>3. rows \subseteq DOMAIN Cells(t, c)
    BY DEF Nulls
  <1>4. Affected(t, a) = rows
    <2>1. a.type = "MISSING_VALUE" /\ a.col = c
      BY <1>1, FoundIs
    <2> QED
      BY <1>1, <2>1 DEF Affected, TextRows
  <1> HIDE DEF rows
  <1> QED
    BY <1>1, <1>2, <1>3, <1>4, FoundIsReliable

LEMMA DigitsIsSuggested == \A t, c, k : Suggested(t, c, Digits(k))
  BY StrIsSuggested DEF Digits

LEMMA OutlierReliable ==
    ASSUME NEW t, IsFrame(t), NEW c \in DOMAIN t, NEW a \in Outlier(t, c) \cup DateOutlier(t, c)
    PROVE  Reliable(t, a)
  <1> DEFINE rows == OutlierRows(t, c)
  <1>1. PICK sugg : a \in Found("OUTLIER", c, rows, sugg) /\ Suggested(t, c, sugg)
    <2>1. CASE a \in Outlier(t, c)
      <3>1. a \in Found("OUTLIER", c, rows, Digits(Mean(Cells(t, c))))
        BY <2>1 DEF Outlier, OutlierRows, HasType, IsTemporal, Temporal
      <3> QED
        BY <3>1, DigitsIsSuggested
    <2>2. CASE a \in DateOutlier(t, c)
      <3>1. a \in Found("OUTLIER", c, rows, Null)
        BY <2>2 DEF DateOutlier, OutlierRows, HasType, IsTemporal, Temporal
      <3> QED
        BY <3>1, NullIsSuggested
    <2> QED
      BY <2>1, <2>2
  <1>2. rows \subseteq DOMAIN Cells(t, c)
    BY DEF OutlierRows, NonNull, BeyondThreeSigma, HasType, IsTemporal, Temporal
  <1>3. Affected(t, a) = rows
    <2>1. a.type = "OUTLIER" /\ a.col = c
      BY <1>1, FoundIs
    <2> QED
      BY <1>1, <2>1 DEF Affected, TextRows
  <1> HIDE DEF rows
  <1> QED
    BY <1>1, <1>2, <1>3, FoundIsReliable

LEMMA FormatReliable ==
    ASSUME NEW t, IsFrame(t), NEW c \in DOMAIN t, NEW a \in FormatInvalid(t, c)
    PROVE  Reliable(t, a)
  <1> DEFINE rows == TextRows(t, c, LAMBDA x : InvalidFormat(c, x))
  <1>1. PICK sugg : a \in Found("FORMAT_INVALID", c, rows, sugg) /\ Suggested(t, c, sugg)
    <2>1. Suggested(t, c, Str(IF Is(c, "email") THEN "EMAIL_INVALIDO" ELSE "TEL_INVALIDO", 0))
      BY StrIsSuggested
    <2> QED
      BY <2>1 DEF FormatInvalid
  <1>2. rows \subseteq DOMAIN Cells(t, c)
    BY DEF TextRows, NonNull
  <1>3. Affected(t, a) = rows
    <2>1. a.type = "FORMAT_INVALID" /\ a.col = c
      BY <1>1, FoundIs
    <2> QED
      BY <2>1 DEF Affected, TextRows
  <1> HIDE DEF rows
  <1> QED
    BY <1>1, <1>2, <1>3, FoundIsReliable

LEMMA InconsistentReliable ==
    ASSUME NEW t, IsFrame(t), NEW c \in DOMAIN t, NEW a \in Inconsistent(t, c)
    PROVE  Reliable(t, a)
  <1> DEFINE cells == Cells(t, c)
             rows == RareRows(cells)
             sugg == IF NonNull(cells) \ RareRows(cells) = {} THEN Null ELSE Mode(cells)
  <1>1. /\ HasType(t, c, "str") /\ Size(cells) >= 10
        /\ a \in Found("INCONSISTENT", c, rows, sugg)
    BY DEF Inconsistent
  <1>2. Suggested(t, c, sugg)
    <2>1. IsCell(sugg)
      BY ModeIsCell, CellOf, NullIsCell
    <2> HIDE DEF sugg
    <2> QED
      BY <1>1, <2>1 DEF Suggested, HasType
  <1>3. rows \subseteq DOMAIN cells
    BY DEF RareRows, NonNull
  <1>4. Affected(t, a) = rows
    <2>1. a.type = "INCONSISTENT" /\ a.col = c
      BY <1>1, FoundIs
    <2> QED
      BY <1>1, <2>1 DEF Affected, TextRows
  <1> HIDE DEF rows, sugg
  <1> QED
    BY <1>1, <1>2, <1>3, <1>4, FoundIsReliable

LEMMA WhitespaceReliable ==
    ASSUME NEW t, IsFrame(t), NEW c \in DOMAIN t, NEW a \in WhitespaceOnly(t, c)
    PROVE  Reliable(t, a)
  <1> DEFINE rows == TextRows(t, c, BlankShaped)
  <1>1. a \in Found("WHITESPACE_ONLY", c, rows, Null)
    BY DEF WhitespaceOnly
  <1>2. rows \subseteq DOMAIN Cells(t, c)
    BY DEF TextRows, NonNull
  <1>3. Affected(t, a) \subseteq DOMAIN Cells(t, c)
    <2>1. a.type = "WHITESPACE_ONLY" /\ a.col = c
      BY <1>1, FoundIs
    <2> QED
      BY <2>1 DEF Affected, TextRows, NonNull
  <1> HIDE DEF rows
  <1> QED
    BY <1>1, <1>2, <1>3, NullIsSuggested, FoundIsReliable

(* The pattern of a text does not depend on the blanks around it.          *)
LEMMA ShapeUnpadded ==
    ASSUME NEW x, IsCell(x), IsStr(x)
    PROVE  /\ Shape(Unpadded(x)) = Shape(x)
           /\ Val(Unpadded(x)).k = Val(x).k /\ Val(Unpadded(x)).upper = Val(x).upper
  <1> DEFINE s == Val(x)
             u == [s EXCEPT !.pad = FALSE]
  <1>1. IsText(s)
    BY DEF IsCell, IsStr, Kind, Null, Temporal
  <1>2. u.shape = s.shape /\ u.dup = s.dup /\ u.k = s.k /\ u.upper = s.upper
    BY <1>1, EditIsText
  <1>3. Unpadded(x) = <<"str", u>> /\ Val(Unpadded(x)) = u
    BY Parts DEF Unpadded
  <1> HIDE DEF u
  <1> QED
    BY <1>2, <1>3 DEF Shape

(* What a rule of the detection takes for misplaced, the finder does too.  *)
Swapped(t, c) == TextRows(t, c, LAMBDA x : Misplaced(c, x))

LEMMA SwapRulesAreFound ==
    ASSUME NEW t, IsFrame(t), NEW c \in DOMAIN t, NEW r \in DOMAIN SwapRules(t, c)
    PROVE  SwapRules(t, c)[r] \subseteq Swapped(t, c)
  <1> SUFFICES ASSUME NEW i \in SwapRules(t, c)[r]
               PROVE  i \in Swapped(t, c)
    OBVIOUS
  <1> DEFINE x == Cells(t, c)[i]
             u == Unpadded(x)
  <1>1. /\ HasType(t, c, "str") /\ i \in NonNull(Cells(t, c))
        /\ \/ Is(c, "name") /\ (EmailShaped(x) \/ DateShaped(x) \/ LocalityShaped(x))
           \/ ~Is(c, "phone") /\ PhoneShaped(x)
           \/ Is(c, "email") /\ PhoneShaped(x)
           \/ Is(c, "address") /\ (EmailShaped(x) \/ IdShaped(x))
    BY DEF SwapRules, TextRows, RawEmail, RawDate
  <1>2. IsCell(x) /\ IsStr(x)
    BY <1>1, CellOf DEF HasType, IsStr
  <1>3. Shape(u) = Shape(x) /\ Val(u).k = Val(x).k /\ Val(u).upper = Val(x).upper
    BY <1>2, ShapeUnpadded
  <1> HIDE DEF x, u
  <1>4. /\ EmailShaped(x) <=> EmailShaped(u)
        /\ DateShaped(x) <=> DateShaped(u)
        /\ LocalityShaped(x) <=> LocalityShaped(u)
        /\ IdShaped(x) => IdShaped(u)
        /\ PhoneShaped(x) <=> PhoneShaped(u)
    BY <1>3 DEF EmailShaped, DateShaped, LocalityShaped, IdShaped, PhoneShaped
  <1>5. Misplaced(c, x)
    BY <1>1, <1>4 DEF Misplaced, u
  <1> QED
    BY <1>1, <1>5 DEF Swapped, TextRows, x

LEMMA CrossSwapReliable ==
    ASSUME NEW t, IsFrame(t), NEW c \in DOMAIN t, NEW a \in CrossSwap(t, c)
    PROVE  Reliable(t, a)
  <1> DEFINE rules == SwapRules(t, c)
             fired == {r \in DOMAIN rules : rules[r] # {}}
             rows == rules[Min(fired)]
             sugg == Str("VALOR_EN_CAMPO_INCORRECTO", 0)
             found == Swapped(t, c)
  <1>1. fired # {} /\ a \in Found("CROSS_FIELD_SWAP", c, rows, sugg)
    BY DEF CrossSwap
  <1>2. DOMAIN rules \subseteq Nat
    BY DEF SwapRules
  <1>3. Min(fired) \in DOMAIN rules
    BY <1>1, <1>2, MinIsLeast
  <1>4. rows \subseteq found
    BY <1>3, SwapRulesAreFound
  <1>5. found \subseteq DOMAIN Cells(t, c)
    BY DEF Swapped, TextRows, NonNull
  <1>6. Affected(t, a) = found
    <2>1. a.type = "CROSS_FIELD_SWAP" /\ a.col = c
      BY <1>1, FoundIs
    <2> QED
      BY <2>1 DEF Affected, Swapped, TextRows
  <1>7. Suggested(t, c, sugg)
    BY StrIsSuggested
  <1> HIDE DEF rows, found, sugg
  <1> QED
    BY <1>1, <1>4, <1>5, <1>6, <1>7, FoundIsReliable

LEMMA PlaceholderReliable ==
    ASSUME NEW t, IsFrame(t), NEW c \in DOMAIN t, NEW a \in Placeholder(t, c)
    PROVE  Reliable(t, a)
  <1> DEFINE rows == TextRows(t, c, PlaceholderShaped)
             sugg == Str("PENDIENTE_COMPLETAR", 0)
  <1>1. a \in Found("SUSPICIOUS_PLACEHOLDER", c, rows, sugg)
    BY DEF Placeholder
  <1>2. Suggested(t, c, sugg)
    BY StrIsSuggested
  <1>3. rows \subseteq DOMAIN Cells(t, c)
    BY DEF TextRows, NonNull
  <1>4. Affected(t, a) = PlaceholderRows(t, c)
    <2>1. a.type = "SUSPICIOUS_PLACEHOLDER" /\ a.col = c
      BY <1>1, FoundIs
    <2> QED
      BY <2>1 DEF Affected
  <1>5. rows \subseteq PlaceholderRows(t, c)
    <2> SUFFICES ASSUME NEW i \in rows
                 PROVE  i \in PlaceholderRows(t, c)
      OBVIOUS
    <2> DEFINE x == Cells(t, c)[i]
    <2>1. HasType(t, c, "str") /\ i \in NonNull(Cells(t, c)) /\ PlaceholderShaped(x)
      BY DEF TextRows
    <2>2. IsCell(x) /\ IsStr(x)
      BY <2>1, CellOf DEF HasType, IsStr
    <2>3. Text(x) = x
      BY <2>2 DEF Text
    <2>4. PlaceholderShaped(Unpadded(x))
      BY <2>1, <2>2, ShapeUnpadded DEF PlaceholderShaped
    <2> QED
      BY <2>1, <2>3, <2>4 DEF PlaceholderRows
  <1>6. PlaceholderRows(t, c) \subseteq DOMAIN Cells(t, c)
    BY DEF PlaceholderRows, NonNull
  <1> HIDE DEF rows, sugg
  <1> QED
    BY <1>1, <1>2, <1>3, <1>4, <1>5, <1>6, FoundIsReliable

LEMMA LeadingTrailingReliable ==
    ASSUME NEW t, IsFrame(t), NEW c \in DOMAIN t, NEW a \in LeadingTrailing(t, c)
    PROVE  Reliable(t, a)
  <1> DEFINE rows == TextRows(t, c, PaddedContent)
             sugg == Strip(Cells(t, c)[Min(rows)])
  <1>1. rows # {} /\ a \in Found("LEADING_TRAILING_WHITESPACE", c, rows, sugg)
    BY DEF LeadingTrailing
  <1>2. rows \subseteq NonNull(Cells(t, c)) /\ HasType(t, c, "str")
    BY <1>1 DEF TextRows
  <1>3. Suggested(t, c, sugg)
    <2>1. rows \subseteq Nat
      <3>1. PICK n \in Nat : AllRows(t) = 1..n
        BY FrameColumns
      <3>2. NonNull(Cells(t, c)) \subseteq 1..n
        BY <3>1 DEF NonNull, IsFrame
      <3> QED
        BY <1>2, <3>2
    <2>2. Min(rows) \in rows
      BY <1>1, <2>1, MinIsLeast
    <2> DEFINE x == Cells(t, c)[Min(rows)]
    <2>3. IsCell(x) /\ IsStr(x)
      BY <1>2, <2>2, CellOf DEF HasType, IsStr
    <2>4. IsCell(Strip(x))
      BY <2>3, EditsAreTexts, NullIsCell DEF Strip
    <2> QED
      BY <1>2, <2>4 DEF Suggested, HasType
  <1>4. Affected(t, a) = rows
    <2>1. a.type = "LEADING_TRAILING_WHITESPACE" /\ a.col = c
      BY <1>1, FoundIs
    <2> QED
      BY <2>1 DEF Affected, TextRows
  <1>5. rows \subseteq DOMAIN Cells(t, c)
    BY <1>2 DEF NonNull
  <1> HIDE DEF rows, sugg
  <1> QED
    BY <1>1, <1>3, <1>4, <1>5, FoundIsReliable

LEMMA RoundNumberReliable ==
    ASSUME NEW t, IsFrame(t), NEW c \in DOMAIN t, NEW a \in RoundNumber(t, c)
    PROVE  Reliable(t, a)
  <1> DEFINE rows == RoundRows(Cells(t, c))
  <1>1. /\ HasType(t, c, "num") /\ Size(Cells(t, c)) >= 10 /\ Total(Cells(t, c)) # 0
        /\ a \in Found("NUMERIC_ROUND_NUMBER", c, rows, Null)
    BY DEF RoundNumber
  <1>2. Affected(t, a) = RoundNumberRows(t, c)
    <2>1. a.type = "NUMERIC_ROUND_NUMBER" /\ a.col = c
      BY <1>1, FoundIs
    <2> QED
      BY <2>1 DEF Affected
  <1>3. ~(Size(Cells(t, c)) < 10)
    BY <1>1, ValuesAreFinite, FS_CardinalityType DEF Size, IsFrame
  <1>4. RoundNumberRows(t, c) = rows
    BY <1>1, <1>3 DEF RoundNumberRows
  <1>5. rows \subseteq DOMAIN Cells(t, c)
    BY DEF RoundRows, NonNull
  <1> HIDE DEF rows
  <1> QED
    BY <1>1, <1>2, <1>4, <1>5, NullIsSuggested, FoundIsReliable

LEMMA OutlierIqrReliable ==
    ASSUME NEW t, IsFrame(t), NEW c \in DOMAIN t, NEW a \in OutlierIqr(t, c)
    PROVE  Reliable(t, a)
  <1> DEFINE rows == BeyondIqr(Cells(t, c))
             sugg == Digits(Median(Cells(t, c)))
  <1>1. HasType(t, c, "num") /\ a \in Found("OUTLIER_IQR", c, rows, sugg)
    BY DEF OutlierIqr
  <1>2. Affected(t, a) = rows
    <2>1. a.type = "OUTLIER_IQR" /\ a.col = c
      BY <1>1, FoundIs
    <2> QED
      BY <1>1, <2>1 DEF Affected
  <1>3. rows \subseteq DOMAIN Cells(t, c)
    BY DEF BeyondIqr, BeyondFence, NonNull
  <1>4. Suggested(t, c, sugg)
    BY DigitsIsSuggested
  <1> HIDE DEF rows, sugg
  <1> QED
    BY <1>1, <1>2, <1>3, <1>4, FoundIsReliable

(* Of two values of one dtype, the one of the later day is the later one.  *)
LEMMA LaterDayIsLater ==
    ASSUME NEW x, NEW y, Kind(x) = Kind(y), Kind(x) \in Temporal, Val(x) \in Int, Val(y) \in Int,
           Day(x) > Day(y)
    PROVE  Val(x) > Val(y)
  <1>1. \A m, k \in Int : m \div 2 > k \div 2 => m > k
    OBVIOUS
  <1> QED
    BY <1>1 DEF Day, HalfDays, Temporal

LEMMA DateLogicalReliable ==
    ASSUME NEW t, IsFrame(t), NEW sc \in DOMAIN t, NEW ec \in DOMAIN t,
           NEW a \in DateLogical(t, sc, ec)
    PROVE  Reliable(t, a)
  <1> DEFINE rows == Inverted(t, sc, ec)
  <1>1. /\ sc # ec /\ IsTemporal(t, sc) /\ IsTemporal(t, ec)
        /\ a = Anomaly("DATE_LOGICAL", sc, ec, Cardinality(rows), Null, Null)
    BY DEF DateLogical
  <1>2. a.type = "DATE_LOGICAL" /\ a.col = sc /\ a.end = ec /\ a.sugg = Null
        /\ a.count = Cardinality(rows)
    BY <1>1 DEF Anomaly
  <1>3. IsAnomaly(t, a)
    BY <1>1, <1>2, NullIsSuggested DEF IsAnomaly
  <1>4. NamesItsEnd(a) => Affected(t, a) = InvertedRows(t, sc, ec)
    BY <1>2 DEF Affected
  <1>5. t[sc].dtype = t[ec].dtype => rows \subseteq InvertedRows(t, sc, ec)
    <2> SUFFICES ASSUME t[sc].dtype = t[ec].dtype, NEW i \in rows
                 PROVE  i \in InvertedRows(t, sc, ec)
      OBVIOUS
    <2> DEFINE x == Cells(t, sc)[i]
               y == Cells(t, ec)[i]
    <2>1. i \in NonNull(Cells(t, sc)) /\ i \in NonNull(Cells(t, ec)) /\ Day(x) > Day(y)
      BY DEF Inverted, BothDated
    <2>2. /\ IsCell(x) /\ IsCell(y) /\ Kind(x) = t[sc].dtype /\ Kind(y) = t[sc].dtype
      BY <2>1, CellOf
    <2>3. Kind(x) = Kind(y) /\ Kind(x) \in Temporal /\ Val(x) \in Int /\ Val(y) \in Int
      BY <1>1, <2>2, Kinds DEF IsTemporal
    <2> HIDE DEF x, y
    <2>4. Val(x) > Val(y)
      BY <2>1, <2>3, LaterDayIsLater
    <2> QED
      BY <2>1, <2>3, <2>4 DEF InvertedRows, BothDated, x, y
  <1>6. IsFiniteSet(InvertedRows(t, sc, ec)) /\ Cardinality(InvertedRows(t, sc, ec)) \in Nat
    <2>1. /\ InvertedRows(t, sc, ec) \subseteq NonNull(Cells(t, sc))
          /\ IsFiniteSet(DOMAIN Cells(t, sc))
      BY DEF InvertedRows, BothDated, IsFrame
    <2>2. IsFiniteSet(NonNull(Cells(t, sc)))
      BY <2>1, ValuesAreFinite
    <2> QED
      BY <2>1, <2>2, FS_Subset, FS_CardinalityType
  <1> HIDE DEF rows
  <1>7. ASSUME t[sc].dtype = t[ec].dtype, NamesItsEnd(a)
        PROVE  Cardinality(Affected(t, a)) >= a.count
    <2>1. /\ Cardinality(rows) <= Cardinality(InvertedRows(t, sc, ec))
          /\ Cardinality(rows) \in Nat
      BY <1>5, <1>6, <1>7, FS_Subset, FS_CardinalityType
    <2> QED
      BY <1>2, <1>4, <1>6, <1>7, <2>1
  <1>8. Findable(t, a)
    BY <1>2, <1>7 DEF Findable
  <1> QED
    BY <1>3, <1>8 DEF Reliable

(* The text most rows of a column have is in one of them.                  *)
LEMMA LowVarianceReliable ==
    ASSUME NEW t, IsFrame(t), NEW c \in DOMAIN t, NEW a \in LowVariance(t, c)
    PROVE  Reliable(t, a)
  <1> DEFINE cells == Cells(t, c)
             mode == Mode(cells)
  <1>1. /\ ~(Size(cells) <= 10)
        /\ \/ /\ HasType(t, c, "num")
              /\ a = Anomaly("LOW_VARIANCE", c, c, Size(cells), Digits(Mean(cells)), Null)
           \/ /\ ~HasType(t, c, "num")
              /\ a = Anomaly("LOW_VARIANCE", c, c, Size(cells), mode, Str("GRUPO_BAJO_VARIANZA", 0))
    BY DEF LowVariance
  <1>2. /\ a.type = "LOW_VARIANCE" /\ a.col = c /\ a.end = c
        /\ a.sugg \in {Null, Str("GRUPO_BAJO_VARIANZA", 0)}
        /\ HasType(t, c, "str") => a.orig = mode
    BY <1>1 DEF Anomaly, HasType
  <1>3. IsAnomaly(t, a)
    BY <1>2, NullIsSuggested, StrIsSuggested DEF IsAnomaly
  <1>4. NonNull(cells) # {}
    BY <1>1, FS_EmptySet DEF Size
  <1>5. ASSUME HasType(t, c, "str")
        PROVE  Affected(t, a) # {}
    <2>1. PICK i \in NonNull(cells) : mode = cells[i]
      BY <1>4, ModeIsCell
    <2>2. Affected(t, a) = {j \in NonNull(cells) : Unpadded(cells[j]) = Unpadded(mode)}
      BY <1>2, <1>5 DEF Affected, TextRows
    <2> QED
      BY <2>1, <2>2
  <1>6. Findable(t, a)
    BY <1>2, <1>5 DEF Findable
  <1> QED
    BY <1>3, <1>6 DEF Reliable

LEMMA SequenceGapReliable ==
    ASSUME NEW t, IsFrame(t), NEW c \in DOMAIN t, NEW a \in SequenceGap(t, c)
    PROVE  Reliable(t, a)
  <1>1. PICK value, orig : a \in GapsFound(c, value, orig)
    BY DEF SequenceGap
  <1>2. a.type = "SEQUENCE_GAP" /\ a.col = c /\ a.end = c
        /\ a.sugg = Str("ID_FUERA_SECUENCIA", 0)
    BY <1>1 DEF GapsFound, Anomaly
  <1>3. Suggested(t, c, a.sugg)
    BY <1>2, StrIsSuggested
  <1> QED
    BY <1>2, <1>3 DEF Reliable, IsAnomaly, Findable

(* The copies.  The rows that are no copies have different keys, if no     *)
(* cell was marked before: of two rows with one key the later is a copy.   *)
LEMMA UnmarkedKey ==
    ASSUME NEW t, IsFrame(t), NEW c \in DOMAIN t, NEW i \in NonNull(Cells(t, c)),
           ~Marked(Cells(t, c)[i])
    PROVE  CopyKey(c, Cells(t, c)[i]) = RawKey(c, Cells(t, c)[i])
  <1> DEFINE x == Cells(t, c)[i]
  <1>1. IsCell(x) /\ x # Null
    BY CellOf
  <1>2. IsCell(Text(x)) /\ IsStr(Text(x))
    BY <1>1, TextOfCell
  <1>3. Val(Text(x)).dup = FALSE
    <2>1. CASE IsStr(x)
      <3>1. Text(x) = x
        BY <2>1 DEF Text
      <3>2. IsText(Val(x))
        BY <1>1, <2>1 DEF IsCell, IsStr, Kind, Null, Temporal
      <3>3. Val(x).dup \in BOOLEAN /\ ~Val(x).dup
        BY <2>1, <3>2 DEF IsText, Marked
      <3> QED
        BY <3>1, <3>3
    <2>2. CASE ~IsStr(x)
      <3>1. \E shape, k : Text(x) = Str(shape, k)
        BY <2>2 DEF Text, Digits
      <3>2. \A shape, k : Val(Str(shape, k)).dup = FALSE
        BY Parts DEF Str, Val
      <3> QED
        BY <3>1, <3>2
    <2> QED
      BY <2>1, <2>2
  <1>4. WithoutDup(Text(x)) = Text(x)
    <2> DEFINE y == Text(x)
               s == Val(y)
    <2>1. y = <<"str", s>> /\ IsText(s)
      BY <1>2 DEF IsCell, IsStr, Kind, Null, Temporal
    <2>2. [s EXCEPT !.dup = FALSE] = s
      BY <1>3, <2>1 DEF IsText
    <2> HIDE DEF y
    <2> QED
      BY <2>1, <2>2 DEF WithoutDup, y
  <1> QED
    BY <1>4 DEF CopyKey, RawKey

LEMMA TextOfText ==
    ASSUME NEW x, IsCell(x), x # Null
    PROVE  Text(Text(x)) = Text(x)
  BY TextOfCell DEF Text

LEMMA SameKeySameRaw ==
    ASSUME NEW c, NEW x, IsCell(x), x # Null, NEW y, IsCell(y), y # Null,
           DupKey(c, x) = DupKey(c, y)
    PROVE  RawKey(c, x) = RawKey(c, y)
  <1>1. Text(Text(x)) = Text(x) /\ Text(Text(y)) = Text(y)
    BY TextOfText
  <1>2. CASE Is(c, "email")
    BY <1>1, <1>2 DEF DupKey, RawKey
  <1>3. CASE ~Is(c, "email") /\ Is(c, "phone")
    BY <1>1, <1>3 DEF DupKey, RawKey
  <1>4. CASE ~Is(c, "email") /\ ~Is(c, "phone")
    BY <1>4 DEF DupKey, RawKey
  <1> QED
    BY <1>2, <1>3, <1>4

(* Two rows that say the same are two rows with their key.                 *)
LEMMA TwoAreMany ==
    ASSUME NEW t, IsFrame(t), NEW c \in DOMAIN t,
           NEW i \in NonNull(Cells(t, c)), NEW j \in NonNull(Cells(t, c)), i # j,
           RawKey(c, Cells(t, c)[i]) = RawKey(c, Cells(t, c)[j])
    PROVE  Cardinality({h \in NonNull(Cells(t, c)) :
                            RawKey(c, Cells(t, c)[h]) = RawKey(c, Cells(t, c)[j])}) > 1
  <1> DEFINE full == NonNull(Cells(t, c))
             same == {h \in full : RawKey(c, Cells(t, c)[h]) = RawKey(c, Cells(t, c)[j])}
  <1>1. IsFiniteSet(full)
    BY ValuesAreFinite DEF IsFrame
  <1>2. IsFiniteSet(same)
    BY <1>1, FS_Subset
  <1>3. {i, j} \in SUBSET same
    OBVIOUS
  <1>4. Cardinality({i, j}) <= Cardinality(same)
    BY <1>2, <1>3, FS_Subset
  <1>5. Cardinality({i, j}) = 2
    <2>1. IsFiniteSet({i}) /\ Cardinality({i}) = 1
      BY FS_Singleton
    <2>2. Cardinality({i} \cup {j}) = Cardinality({i}) + 1
      BY <2>1, FS_AddElement
    <2>3. {i} \cup {j} = {i, j}
      OBVIOUS
    <2> QED
      BY <2>1, <2>2, <2>3
  <1>6. Cardinality(same) \in Nat
    BY <1>2, FS_CardinalityType
  <1> QED
    BY <1>4, <1>5, <1>6

LEMMA LaterIsCopy ==
    ASSUME NEW t, IsFrame(t), NEW c \in DOMAIN t,
           \A x \in Uniq(Cells(t, c)) : ~Marked(x),
           NEW i \in NonNull(Cells(t, c)), NEW j \in NonNull(Cells(t, c)), i < j,
           DupKey(c, Cells(t, c)[i]) = DupKey(c, Cells(t, c)[j])
    PROVE  j \in DuplicateRows(t, c)
  <1> DEFINE cells == Cells(t, c)
             full == NonNull(cells)
             key == RawKey(c, cells[j])
             same == {h \in full : RawKey(c, cells[h]) = key}
  <1>1. RawKey(c, cells[i]) = key
    BY CellOf, SameKeySameRaw
  <1>2. CopyKey(c, cells[i]) = key /\ CopyKey(c, cells[j]) = key
    <2>1. cells[i] \in Uniq(cells) /\ cells[j] \in Uniq(cells)
      BY DEF Uniq
    <2> QED
      BY <1>1, <2>1, UnmarkedKey
  <1>3. i \in same /\ j \in same /\ i # j
    <2>1. \E n \in Nat : AllRows(t) = 1..n
      BY FrameColumns
    <2>2. i \in Nat
      BY <2>1, CellOf
    <2> QED
      BY <1>1, <2>2
  <1>4. Cardinality(same) > 1
    BY <1>1, <1>3, TwoAreMany
  <1> QED
    BY <1>2, <1>4 DEF DuplicateRows

LEMMA DuplicateReliable ==
    ASSUME NEW t, IsFrame(t), NEW c \in DOMAIN t, NEW a \in Duplicate(t, c)
    PROVE  Reliable(t, a)
  <1> DEFINE cells == Cells(t, c)
             full == NonNull(cells)
             f == [i \in full |-> DupKey(c, cells[i])]
             keys == {f[i] : i \in full}
             rows == DuplicateRows(t, c)
             first == full \ rows
  <1>1. /\ a.type = "DUPLICATE" /\ a.col = c /\ a.end = c /\ a.sugg = Str("DUPLICADO", 0)
        /\ a.count = Size(cells) - Cardinality({DupKey(c, cells[i]) : i \in full})
        /\ ~IsTemporal(t, c)
    BY DEF Duplicate, Anomaly
  <1>2. {DupKey(c, cells[i]) : i \in full} = keys
    OBVIOUS
  <1>3. IsAnomaly(t, a)
    <2>1. Suggested(t, c, a.sugg)
      BY <1>1, StrIsSuggested
    <2> QED
      BY <1>1, <2>1 DEF IsAnomaly
  <1>4. Affected(t, a) = rows
    BY <1>1 DEF Affected
  <1>5. IsFiniteSet(full) /\ rows \subseteq full
    BY ValuesAreFinite DEF IsFrame, DuplicateRows
  <1>6. IsFiniteSet(keys)
    <2> HIDE DEF f, full
    <2> QED
      BY <1>5, ImageIsFinite
  <1>7. ASSUME \A x \in Uniq(cells) : ~Marked(x)
        PROVE  Cardinality(rows) >= a.count
    <2> DEFINE g == [i \in first |-> f[i]]
    <2>1. \A i, j \in first : f[i] = f[j] => i = j
      <3> SUFFICES ASSUME NEW i \in first, NEW j \in first, f[i] = f[j], i # j
                   PROVE  FALSE
        OBVIOUS
      <3>1. i \in Nat /\ j \in Nat
        <4>1. \E n \in Nat : AllRows(t) = 1..n
          BY FrameColumns
        <4> QED
          BY <4>1, CellOf
      <3>2. i < j \/ j < i
        BY <3>1
      <3>3. DupKey(c, cells[i]) = DupKey(c, cells[j])
        OBVIOUS
      <3> QED
        BY <1>7, <3>2, <3>3, LaterIsCopy
    <2> HIDE DEF f, rows
    <2>2. g \in Injection(first, keys)
      BY <2>1 DEF Injection, IsInjective
    <2> HIDE DEF g, keys, first
    <2>3. Cardinality(first) <= Cardinality(keys)
      BY <1>6, <2>2, FS_Injection
    <2>4. Cardinality(first) = Cardinality(full) - Cardinality(full \cap rows)
      BY <1>5, FS_Difference DEF first
    <2>5. full \cap rows = rows
      BY <1>5
    <2>6. /\ Cardinality(full) \in Nat /\ Cardinality(rows) \in Nat /\ Cardinality(keys) \in Nat
      BY <1>5, <1>6, FS_Subset, FS_CardinalityType
    <2>7. a.count = Cardinality(full) - Cardinality(keys)
      BY <1>1, <1>2 DEF Size
    <2>8. Cardinality(first) = Cardinality(full) - Cardinality(rows)
      BY <2>4, <2>5
    <2> DEFINE m == Cardinality(full)
               r == Cardinality(rows)
               k == Cardinality(keys)
               h == Cardinality(first)
    <2>9. m \in Nat /\ r \in Nat /\ k \in Nat /\ h = m - r /\ h <= k /\ a.count = m - k
      BY <2>3, <2>6, <2>7, <2>8
    <2> HIDE DEF m, r, k, h
    <2>10. r >= a.count
      BY <2>9
    <2> QED
      BY <2>10 DEF r
  <1>8. Findable(t, a)
    <2>1. (\E x \in Uniq(Cells(t, a.col)) : Marked(x)) \/ Cardinality(Affected(t, a)) >= a.count
      BY <1>1, <1>4, <1>7
    <2> QED
      BY <1>1, <2>1 DEF Findable
  <1> QED
    BY <1>3, <1>8 DEF Reliable

(* Every record of a detection.                                            *)
LEMMA DetectReliable ==
    ASSUME NEW t, IsFrame(t), NEW a \in Detect(t)
    PROVE  Reliable(t, a)
  <1> DEFINE Of(c) == UNION {Missing(t, c), Outlier(t, c), Duplicate(t, c), FormatInvalid(t, c),
                             Inconsistent(t, c), DateOutlier(t, c), WhitespaceOnly(t, c),
                             CrossSwap(t, c), Placeholder(t, c), LeadingTrailing(t, c),
                             RoundNumber(t, c), LowVariance(t, c), OutlierIqr(t, c),
                             SequenceGap(t, c)}
             OfPair(p) == DateLogical(t, p[1], p[2])
  <1>1. Detect(t) = (UNION {Of(c) : c \in DOMAIN t})
                    \cup UNION {OfPair(p) : p \in (DOMAIN t) \X (DOMAIN t)}
    BY DEF Detect
  <1>2. ASSUME NEW c \in DOMAIN t, a \in Of(c)
        PROVE  Reliable(t, a)
    BY <1>2, MissingReliable, OutlierReliable, DuplicateReliable, FormatReliable,
       InconsistentReliable, WhitespaceReliable, CrossSwapReliable, PlaceholderReliable,
       LeadingTrailingReliable, RoundNumberReliable, LowVarianceReliable, OutlierIqrReliable,
       SequenceGapReliable
  <1>3. ASSUME NEW p \in (DOMAIN t) \X (DOMAIN t), a \in OfPair(p)
        PROVE  Reliable(t, a)
    BY <1>3, DateLogicalReliable
  <1> HIDE DEF Of, OfPair
  <1> QED
    BY <1>1, <1>2, <1>3

-----------------------------------------------------------------------------
(* What a decision writes is a column, in rows of the table.               *)

LEMMA AffectedRows ==
    ASSUME NEW t, NEW a
    PROVE  Affected(t, a) \subseteq DOMAIN Cells(t, a.col)
  <1> DEFINE c == a.col
  <1>1. /\ NonNull(Cells(t, c)) \subseteq DOMAIN Cells(t, c)
        /\ Nulls(Cells(t, c)) \subseteq DOMAIN Cells(t, c)
    BY DEF NonNull, Nulls
  <1>2. OutlierRows(t, c) \subseteq NonNull(Cells(t, c))
    BY DEF OutlierRows, BeyondThreeSigma, HasType
  <1>3. DuplicateRows(t, c) \subseteq NonNull(Cells(t, c))
    BY DEF DuplicateRows
  <1>4. RareRows(Cells(t, c)) \subseteq NonNull(Cells(t, c))
    BY DEF RareRows
  <1>5. PlaceholderRows(t, c) \subseteq NonNull(Cells(t, c))
    BY DEF PlaceholderRows
  <1>6. InvertedRows(t, c, a.end) \subseteq NonNull(Cells(t, c))
    BY DEF InvertedRows, BothDated
  <1>7. RoundNumberRows(t, c) \subseteq NonNull(Cells(t, c))
    BY DEF RoundNumberRows, RoundRows
  <1>8. BeyondIqr(Cells(t, c)) \subseteq NonNull(Cells(t, c))
    BY DEF BeyondIqr, BeyondFence
  <1>9. \A p : SequenceRows(t, c, p) \subseteq NonNull(Cells(t, c))
    BY DEF SequenceRows, BeyondFence, OutOfTenths, Numbers
  <1>10. Affected(t, a) \subseteq NonNull(Cells(t, c)) \/ Affected(t, a) = Nulls(Cells(t, c))
    <2>1. CASE a.type = "MISSING_VALUE"
      BY <2>1 DEF Affected
    <2>2. CASE a.type \in {"FORMAT_INVALID", "WHITESPACE_ONLY", "CROSS_FIELD_SWAP",
                           "LEADING_TRAILING_WHITESPACE", "LOW_VARIANCE"}
      BY <2>2 DEF Affected, TextRows
    <2>3. CASE a.type \notin {"MISSING_VALUE", "FORMAT_INVALID", "WHITESPACE_ONLY",
                              "CROSS_FIELD_SWAP", "LEADING_TRAILING_WHITESPACE", "LOW_VARIANCE"}
      BY <1>2, <1>3, <1>4, <1>5, <1>6, <1>7, <1>8, <1>9, <2>3 DEF Affected
    <2> QED
      BY <2>1, <2>2, <2>3
  <1> QED
    BY <1>1, <1>10

IsDecision(d) ==
    /\ d.kind = "corrected" => IsCell(d.value)
    /\ d.kind = "ir" => IsProgram(d.ir) /\ Valid(d.ir, DatasetSchema)

LEMMA CastedIsCell ==
    ASSUME NEW x, IsCell(x), NEW dtype, NEW y \in Cast(x, dtype)
    PROVE  IsCell(y)
  <1>1. y \in {x, Num(Float(x))}
    BY DEF Cast
  <1> QED
    BY <1>1, NumIsCell

LEMMA SuffixIsCell ==
    ASSUME NEW x, IsCell(x)
    PROVE  IsCell(WithSuffix(x))
  BY NullIsCell, TextOfCell, EditsAreTexts DEF WithSuffix

LEMMA FillIsColumn ==
    ASSUME NEW n \in Nat, NEW column, IsColumn(column, n), NEW rows, NEW x, IsCell(x),
           NEW written \in Fill(column, rows, x)
    PROVE  IsColumn(written, n)
  <1> PICK y \in Cast(x, column.dtype) :
            written = WriteOrText(column, Replace(column.cells, rows, LAMBDA i : y))
    BY DEF Fill
  <1> DEFINE cells == [i \in DOMAIN column.cells |-> IF i \in rows THEN y ELSE column.cells[i]]
  <1>1. written = WriteOrText(column, cells)
    BY DEF Replace
  <1>2. DOMAIN cells = 1..n /\ \A i \in 1..n : IsCell(cells[i])
    BY CastedIsCell DEF IsColumn
  <1> HIDE DEF cells
  <1> QED
    BY <1>1, <1>2, WriteIsColumn

LEMMA MarkedIsColumn ==
    ASSUME NEW n \in Nat, NEW column, IsColumn(column, n), NEW rows,
           NEW written \in MarkCopies(column, rows)
    PROVE  IsColumn(written, n)
  <1> DEFINE cells == [i \in DOMAIN column.cells |-> IF i \in rows THEN WithSuffix(column.cells[i])
                                                     ELSE column.cells[i]]
  <1>1. written = WriteOrText(column, cells)
    BY DEF MarkCopies, Replace
  <1>2. DOMAIN cells = 1..n /\ \A i \in 1..n : IsCell(cells[i])
    BY SuffixIsCell DEF IsColumn
  <1> HIDE DEF cells
  <1> QED
    BY <1>1, <1>2, WriteIsColumn

(* A program either writes a column or raises, and it raises only for one  *)
(* of the two reasons.                                                     *)
LEMMA ProgramIsColumn ==
    ASSUME NEW n \in Nat, NEW t, IsFrame(t), AllRows(t) = 1..n, NEW c \in DOMAIN t, NEW rows,
           NEW tree, IsProgram(tree), NEW known, Valid(tree, known)
    PROVE  /\ \A written \in RunProgram(t, c, rows, tree) : IsColumn(written, n)
           /\ RunProgram(t, c, rows, tree) = {} /\ rows \subseteq 1..n => ProgramRaises(t, c, tree)
  <1> DEFINE r == Execute(tree, t, c, rows)
             value(i) == IF r[1] = "scalar" THEN r[2] ELSE r[2][i]
             cells == [i \in DOMAIN Cells(t, c) |-> IF i \in rows THEN value(i) ELSE Cells(t, c)[i]]
  <1>1. Yields(tree, t, c, rows, n, r)
    BY ProgramYields
  <1>2. IsColumn(t[c], n)
    BY DEF IsFrame, IsColumn, Cells
  <1>3. CASE r[1] = "raise"
    <2>1. RunProgram(t, c, rows, tree) = {}
      BY <1>3 DEF RunProgram
    <2> QED
      BY <1>1, <1>3, <2>1 DEF Yields
  <1>4. CASE r[1] \in {"scalar", "rows"}
    <2>1. RunProgram(t, c, rows, tree) = {WriteStrict(t[c], cells)}
      BY <1>4 DEF RunProgram, Replace
    <2>2. DOMAIN cells = 1..n
      BY <1>2 DEF IsColumn, Cells
    <2>3. ASSUME NEW i \in 1..n
          PROVE  IsCell(cells[i]) \/ cells[i] = Infinite
      <3>1. i \notin rows => cells[i] = t[c].cells[i]
        BY <2>2 DEF Cells
      <3>2. i \in rows => IsCell(value(i)) \/ value(i) = Infinite
        <4> HIDE DEF r
        <4>1. r[1] = "scalar" => IsCell(value(i)) \/ value(i) = Infinite
          BY <1>1 DEF Yields, MayYield
        <4>2. r[1] = "rows" /\ i \in rows => IsCell(value(i)) \/ value(i) = Infinite
          BY <1>1 DEF Yields, MayYield
        <4> QED
          BY <1>4, <4>1, <4>2
      <3>3. i \in rows => cells[i] = value(i)
        BY <2>2
      <3> HIDE DEF cells, value
      <3> QED
        BY <1>2, <3>1, <3>2, <3>3 DEF IsColumn
    <2> HIDE DEF cells
    <2>4. IsColumn(WriteStrict(t[c], cells), n)
      BY <1>2, <2>2, <2>3, WriteIsColumn
    <2> QED
      BY <2>1, <2>4
  <1>5. CASE r[1] \notin {"raise", "scalar", "rows"}
    <2>1. RunProgram(t, c, rows, tree) = {t[c]}
      BY <1>5 DEF RunProgram
    <2> QED
      BY <1>2, <2>1
  <1> QED
    BY <1>3, <1>4, <1>5

LEMMA EffectIsColumn ==
    ASSUME NEW n \in Nat, NEW t, IsFrame(t), AllRows(t) = 1..n,
           NEW a, a.col \in DOMAIN t, IsCell(a.sugg), NEW d, IsDecision(d), NEW snap,
           NEW written \in Effect(t, snap, a, d)
    PROVE  IsColumn(written, n)
  <1> DEFINE rows == Affected(snap, a)
             column == t[a.col]
             blank == [i \in DOMAIN column.cells |-> IF i \in rows THEN Null ELSE column.cells[i]]
             trimmed == [i \in DOMAIN column.cells |->
                            IF i \in rows
                            THEN IF column.cells[i] = Null THEN Null
                                 ELSE Unpadded(Text(column.cells[i]))
                            ELSE column.cells[i]]
  <1>1. IsColumn(column, n)
    BY DEF IsFrame, IsColumn, Cells
  <1>2. DOMAIN blank = 1..n /\ \A i \in 1..n : IsCell(blank[i])
    BY <1>1, NullIsCell DEF IsColumn
  <1>3. DOMAIN trimmed = 1..n /\ \A i \in 1..n : IsCell(trimmed[i])
    <2>1. DOMAIN trimmed = 1..n
      BY <1>1 DEF IsColumn
    <2>2. ASSUME NEW i \in 1..n
          PROVE  IsCell(trimmed[i])
      <3>1. IsCell(column.cells[i])
        BY <1>1 DEF IsColumn
      <3>2. column.cells[i] # Null => IsCell(Unpadded(Text(column.cells[i])))
        BY <3>1, TextOfCell, EditsAreTexts
      <3>3. trimmed[i] = IF i \in rows
                         THEN IF column.cells[i] = Null THEN Null
                              ELSE Unpadded(Text(column.cells[i]))
                         ELSE column.cells[i]
        BY <2>1
      <3> QED
        BY <3>1, <3>2, <3>3, NullIsCell
    <2> QED
      BY <2>1, <2>2
  <1>4. \/ written = column
        \/ written \in MarkCopies(column, rows)
        \/ written = WriteStrict(column, blank)
        \/ written = WriteStrict(column, trimmed)
        \/ d.kind = "ir" /\ written \in RunProgram(t, a.col, rows, d.ir)
        \/ d.kind = "corrected" /\ written \in Fill(column, rows, d.value)
        \/ written \in Fill(column, rows, a.sugg)
    BY DEF Effect, Replace
  <1> HIDE DEF blank, trimmed, column, rows
  <1>5. CASE written = WriteStrict(column, blank) \/ written = WriteStrict(column, trimmed)
    BY <1>1, <1>2, <1>3, <1>5, WriteIsColumn
  <1>6. CASE d.kind = "ir" /\ written \in RunProgram(t, a.col, rows, d.ir)
    BY <1>6, ProgramIsColumn DEF IsDecision
  <1>7. CASE d.kind = "corrected" /\ written \in Fill(column, rows, d.value)
    BY <1>1, <1>7, FillIsColumn DEF IsDecision
  <1>8. CASE written \in MarkCopies(column, rows)
    BY <1>1, <1>8, MarkedIsColumn
  <1>9. CASE written \in Fill(column, rows, a.sugg)
    BY <1>1, <1>9, FillIsColumn
  <1> QED
    BY <1>1, <1>4, <1>5, <1>6, <1>7, <1>8, <1>9

-----------------------------------------------------------------------------
(* A transformation makes a data frame of a data frame, and does not mix   *)
(* its rows.                                                               *)

Keeps(t, s, u) ==
    /\ IsFrame(u)
    /\ RowsKept(t, u, Unasked(t, s))
    /\ s.op \in RowOps \/ SameHeight(t, u)

LEMMA KeepsEnough ==
    ASSUME NEW t, NEW s, NEW u, NEW S, IsFrame(u), RowsKept(t, u, S), Unasked(t, s) \subseteq S,
           s.op \in RowOps \/ SameHeight(t, u)
    PROVE  Keeps(t, s, u)
  BY FewerKept DEF Keeps

LEMMA OutcomesKeep ==
    ASSUME NEW t, IsFrame(t), NEW s, IsStep(s), NEW u \in Outcomes(t, s)
    PROVE  Keeps(t, s, u)
  <1>0. s.op \in {"RENAME_COLUMN", "FILTER_ROWS", "VALIDATE_TYPES"} \/ ~Unknown(t, s)
    BY DEF Outcomes
  <1>1. Unasked(t, s) \subseteq DOMAIN t
    BY DEF Unasked
  <1>2. s.op \notin RowOps \cup {"RENAME_COLUMN"} => Unasked(t, s) \subseteq DOMAIN t \ Chosen(t, s)
    BY DEF Unasked
  <1>3. CASE s.op = "CLEAN_NULLS"
    <2>1. u \in CleanNulls(t, s)
      BY <1>0, <1>3 DEF Outcomes
    <2> QED
      BY <1>1, <1>3, <2>1, CleanNullsKeeps, KeepsEnough DEF RowOps
  <1>4. CASE s.op = "FILL_NULLS"
    <2>1. u \in FillNulls(t, s) /\ IsCell(s.value)
      BY <1>0, <1>4 DEF Outcomes, IsStep
    <2> QED
      BY <1>2, <1>4, <2>1, FillNullsKeeps, KeepsEnough DEF RowOps
  <1>5. CASE s.op = "TRIM_WHITESPACE"
    <2>1. u \in TrimWhitespace(t, s)
      BY <1>0, <1>5 DEF Outcomes
    <2> QED
      BY <1>2, <1>5, <2>1, TrimWhitespaceKeeps, KeepsEnough DEF RowOps
  <1>6. CASE s.op \in {"UPPERCASE", "LOWERCASE"}
    <2>1. u \in Uppercase(t, s) \cup Lowercase(t, s)
      BY <1>0, <1>6 DEF Outcomes
    <2> QED
      BY <1>2, <1>6, <2>1, CasesKeep, KeepsEnough DEF RowOps
  <1>7. CASE s.op = "REMOVE_DUPLICATES"
    <2>1. u \in RemoveDuplicates(t, s)
      BY <1>0, <1>7 DEF Outcomes
    <2> QED
      BY <1>1, <1>7, <2>1, RemoveDuplicatesKeeps, KeepsEnough DEF RowOps
  <1>8. CASE s.op = "CONVERT_TYPE"
    <2>1. u \in ConvertType(t, s) /\ s.target \in {"num", "date", "datetime", "bool", "str"}
      BY <1>0, <1>8 DEF Outcomes, IsStep
    <2>2. ~Unknown(t, s)
      BY <1>0, <1>8
    <2>3. IsFrame(u) /\ RowsKept(t, u, DOMAIN t \ Chosen(t, s)) /\ SameHeight(t, u)
      BY <2>1, <2>2, ConvertTypeKeeps
    <2> QED
      BY <1>2, <1>8, <2>3, KeepsEnough DEF RowOps
  <1>9. CASE s.op = "RENAME_COLUMN"
    <2>1. u \in RenameColumn(t, s)
      BY <1>0, <1>9 DEF Outcomes
    <2>2. Unasked(t, s) \subseteq DOMAIN t \ DOMAIN s.mapping
      BY <1>9 DEF Unasked, RowOps
    <2> QED
      BY <1>9, <2>1, <2>2, RenameColumnKeeps, KeepsEnough DEF RowOps
  <1>10. CASE s.op = "DROP_COLUMN"
    <2>1. u \in DropColumn(t, s)
      BY <1>0, <1>10 DEF Outcomes
    <2> QED
      BY <1>1, <1>10, <2>1, DropColumnKeeps, KeepsEnough DEF RowOps
  <1>11. CASE s.op = "FILTER_ROWS"
    <2>1. u \in FilterRows(t, s)
      BY <1>0, <1>11 DEF Outcomes
    <2> QED
      BY <1>1, <1>11, <2>1, FilterRowsKeeps, KeepsEnough DEF RowOps
  <1>12. CASE s.op = "MAP_VALUES"
    <2>1. u \in MapValues(t, s) /\ IsCell(s.default)
          /\ \A x \in DOMAIN s.mapping : IsCell(s.mapping[x])
      BY <1>0, <1>12 DEF Outcomes, IsStep
    <2> QED
      BY <1>2, <1>12, <2>1, MapValuesKeeps, KeepsEnough DEF RowOps
  <1>13. CASE s.op = "NORMALIZE_DATES"
    <2>1. u \in NormalizeDates(t, s) /\ s.format \in {"auto", "isodate", "slashdate"}
      BY <1>0, <1>13 DEF Outcomes, IsStep
    <2>2. IsFrame(u) /\ RowsKept(t, u, DOMAIN t \ Chosen(t, s)) /\ SameHeight(t, u)
      BY <2>1, NormalizeDatesKeeps
    <2> QED
      BY <1>2, <1>13, <2>2, KeepsEnough DEF RowOps
  <1>14. CASE s.op = "VALIDATE_TYPES"
    <2>1. u \in ValidateTypes(t, s)
      BY <1>0, <1>14 DEF Outcomes
    <2> QED
      BY <1>1, <1>14, <2>1, ValidateTypesKeeps, KeepsEnough DEF RowOps
  <1>15. CASE s.op = "DETECT_OUTLIERS"
    <2>1. u \in DetectOutliers(t, s)
      BY <1>0, <1>15 DEF Outcomes
    <2>2. s.action # "remove" =>
            Unasked(t, s) \subseteq
                DOMAIN t \ {s.flag[c] : c \in {d \in Chosen(t, s) : HasType(t, d, "num")}}
      BY <1>15 DEF Unasked, Made, RowOps
    <2>3. CASE s.action = "remove"
      BY <1>0, <1>1, <1>15, <2>1, <2>3, DetectOutliersKeeps, KeepsEnough DEF RowOps
    <2>4. CASE s.action # "remove"
      BY <1>0, <1>15, <2>1, <2>2, <2>4, DetectOutliersKeeps, KeepsEnough DEF RowOps
    <2> QED
      BY <2>3, <2>4
  <1>16. CASE s.op = "ENCODE_CATEGORICALS" /\ s.encoding = "label"
    <2>1. u \in EncodeLabel(t, s)
      BY <1>0, <1>16 DEF Outcomes
    <2> QED
      BY <1>2, <1>16, <2>1, EncodeLabelKeeps, KeepsEnough DEF RowOps
  <1>17. CASE s.op = "ENCODE_CATEGORICALS" /\ s.encoding # "label"
    <2>1. u \in EncodeOneHot(t, s)
      BY <1>0, <1>17 DEF Outcomes
    <2>2. Unasked(t, s) \subseteq DOMAIN t \ (Chosen(t, s) \cup Dummies(t, s))
      BY <1>17 DEF Unasked, Made, Dummies, RowOps
    <2> QED
      BY <1>0, <1>17, <2>1, <2>2, EncodeOneHotKeeps, KeepsEnough DEF RowOps
  <1> QED
    BY <1>3, <1>4, <1>5, <1>6, <1>7, <1>8, <1>9, <1>10, <1>11, <1>12, <1>13, <1>14, <1>15, <1>16,
       <1>17 DEF IsStep, TransformationTypes

-----------------------------------------------------------------------------
(* The inductive invariant.                                                *)

(* A draft is a record that grows by one attempt at a time.                *)
DraftInv ==
    /\ draft = [status |-> draft.status, anomaly |-> draft.anomaly, ir |-> draft.ir,
                source |-> draft.source, attempts |-> draft.attempts,
                feedback |-> draft.feedback]
    /\ draft.status \in {"none", "asking", "shown", "unavailable", "invalid_instruction"}
    /\ draft.attempts \in 0..MaxAttempts
    /\ draft.status = "asking" => draft.attempts < MaxAttempts
    /\ phase = "review" => draft.anomaly \in anomalies \cup {NoAnomaly}
    /\ phase \in {"transform"} => draft = NoDraft
    /\ DraftsAreValid

(* While decisions are applied what is pending was decided; during the     *)
(* repair it is the pairs of dates.                                        *)
WorkInv ==
    /\ job \in Jobs /\ phase \in Phases
    /\ DOMAIN decisions = anomalies
    /\ phase \in {"transform", "review"} => pending = {}
    /\ pending \subseteq anomalies
    /\ phase = "apply" => pending \subseteq Decided
    /\ phase = "repair" => \A a \in pending : a.type = "DATE_LOGICAL"
    /\ phase = "done" => pending = {}

(* The table is a data frame, the anomalies are those of the table or of   *)
(* the snapshot, and what was decided can be applied.                      *)
Later == phase \in {"apply", "repair"} \/ Applied

DataInv ==
    /\ IsFrame(table)
    /\ steps \in Seq({job.steps[k] : k \in DOMAIN job.steps})
    /\ phase = "review" => anomalies = Detect(table)
    /\ Later => IsFrame(snapshot) /\ anomalies = Detect(snapshot)
    /\ \A a \in anomalies : IsDecision(decisions[a])
    /\ draft.status = "shown" => IsProgram(draft.ir)

(* A decision makes of a column one of its type, or one of texts; a repair *)
(* writes dates into a column of dates or of moments.                      *)
TypesInv ==
    Later => \A c \in DOMAIN snapshot : \/ table[c].dtype \in {snapshot[c].dtype, "str"}
                                        \/ IsTemporal(snapshot, c) /\ HasType(table, c, "date")

(* What is written into a cell of a column of texts, or a copy.            *)
Takes(x, old) == IF x = Null \/ IsStr(x) THEN x ELSE old

CellEffect(a, d, x) ==
    IF a.type = "DUPLICATE" THEN WithSuffix(x)
    ELSE IF a.type = "WHITESPACE_ONLY" /\ d.kind = "approved" THEN Null
    ELSE IF a.type = "LEADING_TRAILING_WHITESPACE" /\ d.kind = "approved"
    THEN IF x = Null THEN Null ELSE Unpadded(Text(x))
    ELSE IF d.kind = "corrected" THEN Takes(d.value, x)
    ELSE IF a.sugg = Null THEN x ELSE Takes(a.sugg, x)

(* The decisions on texts and on copies, and the cells that one of them    *)
(* alone is about.                                                         *)
OnItsOwn == {a \in Accepted : \/ a.type = "DUPLICATE"
                              \/ decisions[a].kind # "ir" /\ HasType(snapshot, a.col, "str")}
Alone(a) == {i \in Affected(snapshot, a) :
                \A b \in Accepted \ {a} : b.col = a.col => i \notin Affected(snapshot, b)}

(* Such a cell is as it was before its decision, and as its decision makes *)
(* it afterwards, whatever comes in between.                               *)
SoloCell(a, i) ==
    LET x == Cells(snapshot, a.col)[i]
        y == CellEffect(a, decisions[a], x)
    IN  Cells(table, a.col)[i] = IF phase # "apply" THEN Stripped(y)
                                 ELSE IF a \in pending THEN x ELSE y
SoloInv == Later => \A a \in OnItsOwn : \A i \in Alone(a) : SoloCell(a, i)

(* After the strip the end columns of the pairs are columns of dates or of *)
(* moments, and a pair that was put in order stays in order.               *)
RepairInv ==
    Later /\ phase # "apply" =>
        \A a \in {b \in anomalies : /\ b.type = "DATE_LOGICAL" /\ NamesItsEnd(b)
                                    /\ KeepsDates(b.end)} :
            /\ IsTemporal(table, a.end)
            /\ a \notin pending /\ a.col \notin RepairedEnds /\ IsTemporal(table, a.col)
                    => Inverted(table, a.col, a.end) = {}

CInv == WorkInv /\ DraftInv /\ UntouchedCells /\ DataInv /\ TypesInv /\ FailuresExplained
        /\ SoloInv /\ RepairInv

-----------------------------------------------------------------------------
(* The draft: InstructionDrafts on its own.                                *)

LEMMA DraftInit == Init => DraftInv
  BY DEF Init, DraftInv, DraftsAreValid, NoDraft, MaxAttempts, RequiresConfirmation

(* A step that leaves the draft, or drops it.                              *)
LEMMA DraftKept ==
    ASSUME DraftInv, draft' = draft \/ draft' = NoDraft,
           phase' = "review" => draft' = NoDraft \/ (phase = "review" /\ anomalies' = anomalies),
           phase' = "transform" => phase = "transform"
    PROVE  DraftInv'
  <1>1. CASE draft' = NoDraft
    BY <1>1 DEF DraftInv, DraftsAreValid, NoDraft, MaxAttempts
  <1>2. CASE draft' = draft /\ draft' # NoDraft
    BY <1>2 DEF DraftInv, DraftsAreValid, RequiresConfirmation
  <1> QED
    BY <1>1, <1>2

(* A request is answered by a rule with a program the API accepts, or      *)
(* waits for Gemini with no attempt made.                                  *)
LEMMA DraftRequested ==
    ASSUME DraftInv, NEW a \in anomalies, RequestDraft(a)
    PROVE  DraftInv'
  <1> PICK i \in job.instructions : Instruct(a, i, DatasetSchema)
    BY DEF RequestDraft
  <1> DEFINE new == [NoDraft EXCEPT !.anomaly = a]
             tree == TryRules(i, DatasetSchema)
  <1>1. \/ draft' = Shown(new, tree, "rule") /\ Valid(tree, DatasetSchema)
        \/ draft' = [new EXCEPT !.status = "invalid_instruction"]
        \/ draft' = [new EXCEPT !.status = "asking"]
        \/ draft' = Unavailable(new)
    BY DEF Instruct
  <1>2. phase' = "review" /\ phase = "review" /\ anomalies' = anomalies
    BY DEF RequestDraft
  <1>3. new = [status |-> "none", anomaly |-> a, ir |-> NoProgram, source |-> "none",
               attempts |-> 0, feedback |-> "none"]
    BY DEF NoDraft
  <1> HIDE DEF tree, new
  <1>4. CASE draft' = Shown(new, tree, "rule") /\ Valid(tree, DatasetSchema)
    <2>1. draft' = [status |-> "shown", anomaly |-> a, ir |-> tree, source |-> "rule",
                    attempts |-> 0, feedback |-> "none"]
      BY <1>3, <1>4 DEF Shown
    <2>2. draft'.ir = tree /\ ~(draft'.attempts > 0) /\ ~RequiresConfirmation(draft')
      BY <2>1 DEF RequiresConfirmation
    <2>3. DraftsAreValid'
      BY <1>4, <2>2, Zenon DEF DraftsAreValid
    <2> QED
      BY <1>2, <2>1, <2>3 DEF DraftInv, MaxAttempts
  <1>5. CASE draft' \in {[new EXCEPT !.status = "invalid_instruction"],
                        [new EXCEPT !.status = "asking"], Unavailable(new)}
    BY <1>2, <1>3, <1>5 DEF DraftInv, DraftsAreValid, Unavailable, MaxAttempts
  <1> QED
    BY <1>1, <1>4, <1>5

(* An answer, or its absence, uses up one attempt; a program is shown only *)
(* after it was validated.                                                 *)
LEMMA DraftAnswered ==
    ASSUME DraftInv, phase \in Phases, GeminiReplies
    PROVE  DraftInv'
  <1>0. draft.status = "asking" /\ draft.attempts \in Nat /\ draft.attempts < MaxAttempts
    BY DEF GeminiReplies, GeminiAnswers, GeminiFails, DraftInv, MaxAttempts
  <1> DEFINE d == [draft EXCEPT !.attempts = @ + 1]
  <1>1. \/ \E p : draft' = Shown(d, p, "gemini") /\ Valid(p, DatasetSchema)
        \/ d.attempts < MaxAttempts /\ draft' = [d EXCEPT !.feedback = "error"]
        \/ draft' = Unavailable(d)
    BY DEF GeminiReplies, GeminiAnswers, GeminiFails
  <1>2. phase' = phase /\ anomalies' = anomalies
    BY DEF GeminiReplies
  <1>3. phase # "transform"
    BY <1>0 DEF DraftInv, NoDraft
  <1>4. d = [status |-> "asking", anomaly |-> draft.anomaly, ir |-> draft.ir,
             source |-> draft.source, attempts |-> draft.attempts + 1,
             feedback |-> draft.feedback]
    BY <1>0 DEF DraftInv
  <1> HIDE DEF d
  <1>5. ASSUME NEW p, draft' = Shown(d, p, "gemini"), Valid(p, DatasetSchema)
        PROVE  DraftInv'
    <2>1. draft' = [status |-> "shown", anomaly |-> draft.anomaly, ir |-> p,
                    source |-> "gemini", attempts |-> draft.attempts + 1,
                    feedback |-> draft.feedback]
      BY <1>4, <1>5 DEF Shown
    <2>2. draft'.ir = p /\ draft'.attempts > 0 /\ RequiresConfirmation(draft')
      BY <1>0, <2>1 DEF RequiresConfirmation
    <2>3. DraftsAreValid'
      BY <1>5, <2>2, Zenon DEF DraftsAreValid
    <2> QED
      BY <1>0, <1>2, <1>3, <2>1, <2>3 DEF DraftInv, MaxAttempts
  <1>6. CASE d.attempts < MaxAttempts /\ draft' = [d EXCEPT !.feedback = "error"]
    BY <1>0, <1>2, <1>3, <1>4, <1>6 DEF DraftInv, DraftsAreValid, MaxAttempts
  <1>7. CASE draft' = Unavailable(d)
    BY <1>0, <1>2, <1>3, <1>4, <1>7 DEF DraftInv, DraftsAreValid, Unavailable, MaxAttempts
  <1> QED
    BY <1>1, <1>5, <1>6, <1>7

(* The rest of the steps leave the draft, or drop it with its anomaly      *)
(* decided or the review over.                                             *)
LEMMA DraftStep ==
    ASSUME DraftInv, WorkInv, [Next]_vars
    PROVE  DraftInv'
  <1>1. CASE TransformStep
    BY <1>1, DraftKept DEF TransformStep, Phases
  <1>2. CASE DetectAnomalies
    <2>1. phase = "transform" /\ draft = NoDraft /\ draft' = draft
      BY <1>2 DEF DetectAnomalies, DraftInv
    <2>2. phase' # "transform"
      BY <1>2 DEF DetectAnomalies
    <2> QED
      BY <2>1, <2>2, DraftKept
  <1>3. CASE \E a \in anomalies : RequestDraft(a)
    BY <1>3, DraftRequested
  <1>4. CASE GeminiReplies
    BY <1>4, DraftAnswered DEF WorkInv
  <1>5. CASE SubmitDraft \/ EndReview
    BY <1>5, DraftKept DEF SubmitDraft, EndReview
  <1>6. CASE \/ \E a \in anomalies : Decide(a) \/ ApplyDecision(a) \/ RepairDates(a)
             \/ StripAll \/ Finish \/ UNCHANGED vars
    BY <1>6, DraftKept DEF Decide, ApplyDecision, RepairDates, StripAll, Finish, vars
  <1> QED
    BY <1>1, <1>2, <1>3, <1>4, <1>5, <1>6 DEF Next

-----------------------------------------------------------------------------
(* The work left.                                                          *)

LEMMA WorkInit == Init => WorkInv
  BY DEF Init, WorkInv, Phases

LEMMA WorkStep ==
    ASSUME WorkInv, [Next]_vars
    PROVE  WorkInv'
  <1> USE DEF WorkInv, Decided
  <1>1. CASE TransformStep
    BY <1>1 DEF TransformStep, Phases
  <1>2. CASE DetectAnomalies
    BY <1>2 DEF DetectAnomalies, Phases
  <1>3. CASE \E a \in anomalies : Decide(a)
    BY <1>3 DEF Decide, Phases
  <1>4. CASE SubmitDraft
    BY <1>4 DEF SubmitDraft, Phases
  <1>5. CASE EndReview
    BY <1>5 DEF EndReview, Phases
  <1>6. CASE \E a \in anomalies : ApplyDecision(a) \/ RepairDates(a)
    BY <1>6 DEF ApplyDecision, RepairDates, Phases
  <1>7. CASE StripAll \/ Finish
    BY <1>7 DEF StripAll, Finish, Phases
  <1>8. CASE (\E a \in anomalies : RequestDraft(a)) \/ GeminiReplies \/ UNCHANGED vars
    BY <1>8 DEF RequestDraft, GeminiReplies, vars
  <1> QED
    BY <1>1, <1>2, <1>3, <1>4, <1>5, <1>6, <1>7, <1>8 DEF Next

-----------------------------------------------------------------------------
(* The cells.                                                              *)

(* One decision: either the anomaly was discarded and its column is left,  *)
(* or the cells it may change are among those an accepted decision is      *)
(* about.                                                                  *)
LEMMA UntouchedByDecision ==
    ASSUME WorkInv, UntouchedCells, NEW a \in anomalies, ApplyDecision(a)
    PROVE  UntouchedCells'
  <1>1. phase = "apply" /\ a \in Decided
    BY DEF ApplyDecision, WorkInv
  <1>2. CASE phase' = "failed"
    BY <1>2 DEF UntouchedCells, Applied
  <1>3. CASE phase' # "failed"
    <2> PICK column \in Effect(table, snapshot, a, decisions[a]) :
            phase' = phase /\ table' = [table EXCEPT ![a.col] = column]
      BY <1>3 DEF ApplyDecision
    <2>1. /\ SameOutside(table[a.col].cells, column.cells, Affected(snapshot, a))
          /\ decisions[a].kind = "discarded" => column = table[a.col]
      BY EffectKeeps
    <2>2. Touched(a.col)' = Touched(a.col) /\ (\A c : Touched(c)' = Touched(c))
      BY DEF Touched, Accepted, Decided, ApplyDecision
    <2>3. decisions[a].kind # "discarded" => Affected(snapshot, a) \subseteq Touched(a.col)
      BY <1>1 DEF Touched, Accepted
    <2>4. DOMAIN table' = DOMAIN table
      OBVIOUS
    <2>5. ASSUME NEW c \in DOMAIN snapshot
          PROVE  /\ DOMAIN Cells(table', c) = DOMAIN Cells(snapshot, c)
                 /\ \A i \in DOMAIN Cells(snapshot, c) \ Touched(c) :
                        Cells(table', c)[i] = Cells(snapshot, c)[i]
      <3>1. /\ c \in DOMAIN table
            /\ DOMAIN Cells(table, c) = DOMAIN Cells(snapshot, c)
            /\ \A i \in DOMAIN Cells(snapshot, c) \ Touched(c) :
                    Cells(table, c)[i] = Cells(snapshot, c)[i]
        BY <1>1, <2>5 DEF UntouchedCells
      <3>2. CASE c # a.col \/ decisions[a].kind = "discarded"
        <4>1. table'[c] = table[c]
          BY <2>1, <3>1, <3>2
        <4> QED
          BY <3>1, <4>1 DEF Cells
      <3>3. CASE c = a.col /\ decisions[a].kind # "discarded"
        <4>1. table'[c] = column
          BY <3>1, <3>3
        <4> QED
          BY <2>1, <2>3, <3>1, <3>3, <4>1 DEF Cells, SameOutside
      <3> QED
        BY <3>2, <3>3
    <2>6. DOMAIN table = DOMAIN snapshot /\ snapshot' = snapshot /\ phase' = "apply"
      BY <1>1 DEF UntouchedCells, ApplyDecision
    <2> QED
      BY <2>2, <2>4, <2>5, <2>6 DEF UntouchedCells, Cells
  <1> QED
    BY <1>2, <1>3

(* The strip takes the blanks off texts, and nothing else.                 *)
LEMMA UntouchedByStrip ==
    ASSUME UntouchedCells, StripAll
    PROVE  UntouchedCells'
  <1>1. phase = "apply" /\ phase' = "repair" /\ snapshot' = snapshot
    BY DEF StripAll
  <1>2. DOMAIN table' = DOMAIN table /\ DOMAIN table = DOMAIN snapshot
    BY <1>1 DEF StripAll, UntouchedCells
  <1>3. \A c : Touched(c)' = Touched(c)
    BY DEF Touched, Accepted, Decided, StripAll
  <1>4. ASSUME NEW c \in DOMAIN snapshot
        PROVE  /\ DOMAIN Cells(table', c) = DOMAIN Cells(snapshot, c)
               /\ \A i \in DOMAIN Cells(snapshot, c) \ Touched(c) :
                    Cells(table', c)[i] = IF HasType(table', c, "str")
                                          THEN Stripped(Cells(snapshot, c)[i])
                                          ELSE Cells(snapshot, c)[i]
    <2>1. /\ c \in DOMAIN table
          /\ DOMAIN Cells(table, c) = DOMAIN Cells(snapshot, c)
          /\ \A i \in DOMAIN Cells(snapshot, c) \ Touched(c) :
                Cells(table, c)[i] = Cells(snapshot, c)[i]
      BY <1>1, <1>2, <1>4 DEF UntouchedCells
    <2>2. CASE HasType(table, c, "str")
      <3>1. table'[c] = Column("str", [i \in DOMAIN Cells(table, c) |-> Stripped(Cells(table, c)[i])])
        BY <2>1, <2>2 DEF StripAll
      <3> QED
        BY <2>1, <3>1 DEF Column, Cells, HasType
    <2>3. CASE ~HasType(table, c, "str")
      <3>1. table'[c] = table[c]
        BY <2>1, <2>3 DEF StripAll
      <3> QED
        BY <2>1, <2>3, <3>1 DEF Cells, HasType
    <2> QED
      BY <2>2, <2>3
  <1> QED
    BY <1>1, <1>2, <1>3, <1>4 DEF UntouchedCells, Cells, HasType

(* The repair writes an end column, and keeps its length.                  *)
LEMMA UntouchedByRepair ==
    ASSUME WorkInv, UntouchedCells, NEW a \in anomalies, RepairDates(a)
    PROVE  UntouchedCells'
  <1>1. phase = "repair" /\ phase' = "repair" /\ snapshot' = snapshot
    BY DEF RepairDates
  <1>2. RepairedEnds' = RepairedEnds /\ \A c : Touched(c)' = Touched(c)
    BY DEF Touched, Accepted, Decided, RepairedEnds, RepairDates
  <1>3. NamesItsEnd(a) => a.end \in RepairedEnds
    BY <1>1 DEF RepairDates, WorkInv, RepairedEnds
  <1>4. PICK column : /\ table' = [table EXCEPT ![a.end] = column]
                      /\ DOMAIN column.cells = DOMAIN table[a.end].cells
                      /\ ~NamesItsEnd(a) => column = table[a.end]
    <2> DEFINE start == Cells(table, a.col)
               column == table[a.end]
               late == {i \in DOMAIN start : /\ IsDate(start[i]) /\ IsDate(column.cells[i])
                                             /\ DayOf(column.cells[i]) < DayOf(start[i])}
               cells == Replace(column.cells, late,
                                LAMBDA i : Moved(DayOf(start[i]), column.dtype))
               written == IF ~NamesItsEnd(a) THEN column
                          ELSE IF ~Fits(column.dtype, cells) /\ Fits("date", cells)
                          THEN Column("date", cells) ELSE WriteStrict(column, cells)
    <2>1. table' = [table EXCEPT ![a.end] = written]
      BY DEF RepairDates
    <2>2. DOMAIN cells = DOMAIN column.cells
      BY DEF Replace
    <2> HIDE DEF cells
    <2>3. /\ DOMAIN written.cells = DOMAIN column.cells
          /\ ~NamesItsEnd(a) => written = column
      BY <2>2, WritesAll DEF Column
    <2> QED
      BY <2>1, <2>3
  <1>5. DOMAIN table' = DOMAIN table /\ DOMAIN table = DOMAIN snapshot
    BY <1>1, <1>4 DEF UntouchedCells
  <1>6. ASSUME NEW c \in DOMAIN snapshot
        PROVE  /\ DOMAIN Cells(table', c) = DOMAIN Cells(table, c)
               /\ c \notin RepairedEnds => table'[c] = table[c]
    BY <1>3, <1>4, <1>5, <1>6 DEF Cells
  <1> QED
    BY <1>1, <1>2, <1>5, <1>6 DEF UntouchedCells, Cells, HasType

(* Every other step leaves the table, or is not yet, or no longer, between *)
(* the review and the end.                                                 *)
LEMMA UntouchedStep ==
    ASSUME WorkInv, UntouchedCells, [Next]_vars
    PROVE  UntouchedCells'
  <1>1. CASE TransformStep
    BY <1>1 DEF TransformStep, UntouchedCells, Applied
  <1>2. CASE DetectAnomalies
    <2>1. phase' = "done" => Decided' = {}
      BY <1>2 DEF DetectAnomalies, Decided
    <2>2. phase' \in {"failed", "done", "review"}
      BY <1>2 DEF DetectAnomalies
    <2> QED
      BY <2>1, <2>2 DEF UntouchedCells, Applied
  <1>3. CASE (\E a \in anomalies : Decide(a) \/ RequestDraft(a)) \/ SubmitDraft
    <2>1. phase' = "review"
      BY <1>3 DEF Decide, RequestDraft, SubmitDraft
    <2> QED
      BY <2>1 DEF UntouchedCells, Applied
  <1>4. CASE GeminiReplies \/ UNCHANGED vars
    <2>1. UNCHANGED <<phase, table, anomalies, decisions, snapshot>>
      BY <1>4 DEF GeminiReplies, vars
    <2>2. UNCHANGED <<Applied, RepairedEnds>> /\ \A c : Touched(c)' = Touched(c)
      BY <2>1 DEF Applied, RepairedEnds, Touched, Accepted, Decided
    <2> QED
      BY <2>1, <2>2 DEF UntouchedCells, Cells, HasType
  <1>5. CASE EndReview
    <2>1. table' = table /\ snapshot' = table /\ phase' \in {"done", "apply"}
      BY <1>5 DEF EndReview
    <2>2. phase' = "done" => Decided' = {}
      BY <1>5 DEF EndReview, Decided
    <2> QED
      BY <2>1, <2>2 DEF UntouchedCells, Applied, Cells
  <1>6. CASE \E a \in anomalies : ApplyDecision(a) \/ RepairDates(a)
    BY <1>6, UntouchedByDecision, UntouchedByRepair
  <1>7. CASE StripAll
    BY <1>7, UntouchedByStrip
  <1>8. CASE Finish
    <2>1. /\ phase = "repair" /\ phase' = "done"
          /\ UNCHANGED <<table, anomalies, decisions, snapshot>>
      BY <1>8 DEF Finish
    <2>2. UNCHANGED RepairedEnds /\ \A c : Touched(c)' = Touched(c)
      BY <2>1 DEF RepairedEnds, Touched, Accepted, Decided
    <2> QED
      BY <2>1, <2>2 DEF UntouchedCells, Applied, Cells, HasType
  <1> QED
    BY <1>1, <1>2, <1>3, <1>4, <1>5, <1>6, <1>7, <1>8 DEF Next

-----------------------------------------------------------------------------
(* The data frame, and what is decided about it.                           *)

(* A rule makes a program of one node.                                     *)
LEMMA RuleIsProgram ==
    ASSUME NEW instruction, IsCell(instruction.value), NEW known
    PROVE  TryRules(instruction, known) = NoProgram \/ IsProgram(TryRules(instruction, known))
  <1> DEFINE tree == TryRules(instruction, known)
             matching == {k \in DOMAIN Rules : Rules[k] \in instruction.matches}
             rule == Rules[Min(matching)]
  <1>1. tree = NoProgram \/ (matching # {} /\ tree = BuildIR(rule, instruction))
    BY DEF TryRules
  <1>2. ASSUME matching # {}, tree = BuildIR(rule, instruction)
        PROVE  IsProgram(tree)
    <2>1. DOMAIN Rules \subseteq Nat
      BY DEF Rules
    <2>2. Min(matching) \in DOMAIN Rules
      BY <1>2, <2>1, MinIsLeast
    <2>3. rule \in {"null", "number", "quoted", "mediana", "media", "moda", "minimo", "maximo",
                    "eliminar", "mantener", "copiar"}
      BY <2>2 DEF Rules
    <2> HIDE DEF rule, tree
    <2>4. \E node : /\ tree = Leaf(node)
                    /\ node.op = "FILL_LITERAL" => node.value \in {Null, instruction.value}
      BY <1>2, <2>3 DEF BuildIR
    <2>5. PICK node : /\ tree = Leaf(node)
                      /\ node.op = "FILL_LITERAL" => node.value \in {Null, instruction.value}
      BY <2>4
    <2>6. DOMAIN tree = {<< >>} /\ tree[<< >>] = node
      BY <2>5 DEF Leaf
    <2>7. << >> \in Seq({"input", "then", "else"})
      OBVIOUS
    <2> QED
      BY <2>5, <2>6, <2>7, NullIsCell DEF IsProgram
  <1> QED
    BY <1>1, <1>2

(* What a reviewer can decide can be applied.                              *)
LEMMA InputsAreDecisions ==
    ASSUME job \in Jobs, NEW d \in Inputs
    PROVE  IsDecision(d)
  <1>1. CASE d \in {Approved, Discarded}
    BY <1>1 DEF IsDecision, Approved, Discarded
  <1>2. ASSUME NEW x \in job.texts, d = Corrected(x)
        PROVE  IsDecision(d)
    <2>1. IsCell(x)
      BY JobsAssumption
    <2>2. d.kind = "corrected" /\ d.value = x
      BY <1>2 DEF Corrected
    <2> QED
      BY <2>1, <2>2 DEF IsDecision
  <1>3. ASSUME NEW p \in job.programs, Valid(p, DatasetSchema), d = CorrectedIR(p)
        PROVE  IsDecision(d)
    <2>1. IsProgram(p)
      BY JobsAssumption
    <2>2. d.kind = "ir" /\ d.ir = p
      BY <1>3 DEF CorrectedIR
    <2> QED
      BY <1>3, <2>1, <2>2 DEF IsDecision
  <1> QED
    BY <1>1, <1>2, <1>3 DEF Inputs

(* What a draft shows is a program.                                        *)
LEMMA ProgramRequested ==
    ASSUME job \in Jobs, NEW a \in anomalies, RequestDraft(a)
    PROVE  (draft.status = "shown" => IsProgram(draft.ir))'
  <1> PICK i \in job.instructions : Instruct(a, i, DatasetSchema)
    BY DEF RequestDraft
  <1> DEFINE new == [NoDraft EXCEPT !.anomaly = a]
             tree == TryRules(i, DatasetSchema)
  <1>1. \/ draft' = Shown(new, tree, "rule") /\ tree # NoProgram
        \/ draft' = [new EXCEPT !.status = "invalid_instruction"]
        \/ draft' = [new EXCEPT !.status = "asking"]
        \/ draft' = Unavailable(new)
    BY DEF Instruct
  <1>2. IsCell(i.value)
    BY JobsAssumption
  <1>3. tree # NoProgram => IsProgram(tree)
    BY <1>2, RuleIsProgram
  <1>4. new = [status |-> "none", anomaly |-> a, ir |-> NoProgram, source |-> "none",
               attempts |-> 0, feedback |-> "none"]
    BY DEF NoDraft
  <1> HIDE DEF tree, new
  <1> QED
    BY <1>1, <1>3, <1>4 DEF Shown, Unavailable

LEMMA ProgramAnswered ==
    ASSUME job \in Jobs, DraftInv, GeminiReplies
    PROVE  (draft.status = "shown" => IsProgram(draft.ir))'
  <1> DEFINE d == [draft EXCEPT !.attempts = @ + 1]
  <1>1. \/ \E p \in job.programs : draft' = Shown(d, p, "gemini")
        \/ draft' = [d EXCEPT !.feedback = "error"] /\ draft.status = "asking"
        \/ draft' = Unavailable(d)
    BY DEF GeminiReplies, GeminiAnswers, GeminiFails
  <1>2. d = [status |-> draft.status, anomaly |-> draft.anomaly, ir |-> draft.ir,
             source |-> draft.source, attempts |-> draft.attempts + 1,
             feedback |-> draft.feedback]
    BY DEF DraftInv
  <1>3. \A p \in job.programs : IsProgram(p)
    BY JobsAssumption
  <1> HIDE DEF d
  <1>4. ASSUME NEW p \in job.programs, draft' = Shown(d, p, "gemini")
        PROVE  draft'.ir = p
    BY <1>2, <1>4 DEF Shown
  <1>5. CASE draft' = [d EXCEPT !.feedback = "error"] /\ draft.status = "asking"
    <2>1. draft'.status = "asking"
      BY <1>2, <1>5
    <2> QED
      BY <2>1
  <1>6. CASE draft' = Unavailable(d)
    <2>1. draft'.status = "unavailable"
      BY <1>2, <1>6 DEF Unavailable
    <2> QED
      BY <2>1
  <1> QED
    BY <1>1, <1>3, <1>4, <1>5, <1>6

LEMMA DataInit == Init => DataInv
  BY JobsAssumption DEF Init, DataInv, Later, Applied, NoDraft

(* A column that is replaced by a column of the same length leaves a data  *)
(* frame.                                                                  *)
LEMMA OneReplaced ==
    ASSUME NEW t, IsFrame(t), NEW n \in Nat, AllRows(t) = 1..n, NEW c \in DOMAIN t,
           NEW column, IsColumn(column, n)
    PROVE  IsFrame([t EXCEPT ![c] = column])
  <1> DEFINE u == [t EXCEPT ![c] = column]
  <1>1. DOMAIN u = DOMAIN t /\ IsFiniteSet(DOMAIN t)
    BY DEF IsFrame
  <1>2. \A d \in DOMAIN t : IsColumn(t[d], n)
    BY DEF IsFrame, IsColumn, Cells
  <1>3. \A d \in DOMAIN u : IsColumn(u[d], n)
    BY <1>1, <1>2
  <1> HIDE DEF u
  <1> QED
    BY <1>1, <1>3, ColumnsFrame DEF u

LEMMA DataByDecision ==
    ASSUME WorkInv, UntouchedCells, DataInv, NEW a \in anomalies, ApplyDecision(a)
    PROVE  IsFrame(table')
  <1>1. CASE table' = table
    BY <1>1 DEF DataInv
  <1>2. CASE table' # table
    <2> PICK column \in Effect(table, snapshot, a, decisions[a]) :
            table' = [table EXCEPT ![a.col] = column]
      BY <1>2 DEF ApplyDecision
    <2>1. phase = "apply" /\ DOMAIN table = DOMAIN snapshot
      BY DEF ApplyDecision, UntouchedCells
    <2>2. IsAnomaly(snapshot, a)
      BY <2>1, DetectReliable DEF DataInv, Later, Reliable
    <2>3. a.col \in DOMAIN table /\ IsCell(a.sugg) /\ IsFrame(table) /\ IsDecision(decisions[a])
      BY <2>1, <2>2 DEF IsAnomaly, DataInv, Suggested
    <2>4. PICK n \in Nat : AllRows(table) = 1..n
      BY <2>3, FrameColumns
    <2>5. IsColumn(column, n)
      BY <2>3, <2>4, EffectIsColumn
    <2> QED
      BY <2>3, <2>4, <2>5, OneReplaced
  <1> QED
    BY <1>1, <1>2

LEMMA DataByStrip ==
    ASSUME DataInv, StripAll
    PROVE  IsFrame(table')
  <1>1. PICK n \in Nat : AllRows(table) = 1..n /\ \A c \in DOMAIN table : IsColumn(table[c], n)
    BY FrameColumns DEF DataInv
  <1>2. DOMAIN table' = DOMAIN table /\ IsFiniteSet(DOMAIN table)
    BY DEF StripAll, DataInv, IsFrame
  <1>3. ASSUME NEW c \in DOMAIN table
        PROVE  IsColumn(table'[c], n)
    <2>1. CASE ~HasType(table, c, "str")
      BY <1>1, <2>1 DEF StripAll
    <2>2. CASE HasType(table, c, "str")
      <3> DEFINE new == [i \in DOMAIN Cells(table, c) |-> Stripped(Cells(table, c)[i])]
      <3>1. table'[c] = Column("str", new)
        BY <2>2 DEF StripAll
      <3>2. IsColumn(table[c], n) /\ table[c].dtype = "str"
        BY <1>1, <2>2 DEF HasType
      <3>3. DOMAIN new = 1..n
        BY <3>2 DEF IsColumn, Cells
      <3>4. ASSUME NEW i \in 1..n
            PROVE  IsCell(new[i]) /\ (new[i] = Null \/ Kind(new[i]) = "str")
        <4> DEFINE x == Cells(table, c)[i]
        <4>1. IsCell(x) /\ (x = Null \/ Kind(x) = "str")
          BY <3>2 DEF IsColumn, Cells, Fits
        <4>2. new[i] = Stripped(x)
          BY <3>3
        <4>3. Stripped(Null) = Null
          BY DEF Stripped, IsStr, Kind, Null
        <4> HIDE DEF x, new
        <4> QED
          BY <4>1, <4>2, <4>3, StripIsCell
      <3> HIDE DEF new
      <3> QED
        BY <3>1, <3>3, <3>4, ColumnOf DEF Column
    <2> QED
      BY <2>1, <2>2
  <1> QED
    BY <1>2, <1>3, ColumnsFrame

(* The repair of a pair of dates: only the rows in which the end lies      *)
(* before the start are written, with the start moved, or with nothing.    *)
Late(t, a) ==
    {i \in DOMAIN Cells(t, a.col) :
        /\ IsDate(Cells(t, a.col)[i]) /\ IsDate(Cells(t, a.end)[i])
        /\ DayOf(Cells(t, a.end)[i]) < DayOf(Cells(t, a.col)[i])}
Repaired(t, a) ==
    [i \in DOMAIN Cells(t, a.end) |->
        IF i \in Late(t, a) THEN Moved(DayOf(Cells(t, a.col)[i]), t[a.end].dtype)
        ELSE Cells(t, a.end)[i]]
RepairedColumn(t, a) ==
    IF ~NamesItsEnd(a) THEN t[a.end]
    ELSE IF ~Fits(t[a.end].dtype, Repaired(t, a)) /\ Fits("date", Repaired(t, a))
    THEN Column("date", Repaired(t, a)) ELSE WriteStrict(t[a.end], Repaired(t, a))

LEMMA DayOfTemporal ==
    ASSUME NEW x, IsCell(x), Kind(x) \in Temporal
    PROVE  x # Null /\ IsDate(x) /\ DayOf(x) = Day(x) /\ Day(x) \in Int
  <1>1. x # Null /\ Val(x) \in Int /\ ~IsStr(x)
    BY Kinds DEF Temporal, IsStr
  <1>2. Day(x) \in Int
    BY <1>1, HalvesAreInts DEF Day
  <1> QED
    BY <1>1, <1>2 DEF IsDate, DayOf

LEMMA DayIsInt ==
    ASSUME NEW x, IsCell(x), IsDate(x)
    PROVE  DayOf(x) \in Int /\ x # Null
  <1>1. CASE IsStr(x)
    <2>1. x # Null
      BY <1>1 DEF IsStr, Kind, Null
    <2>2. /\ IsText(Val(x)) /\ Val(x).shape \in {"isodate", "isomoment"}
      BY <1>1, <2>1 DEF IsStr, Kind, IsDate, IsCell, Temporal
    <2>3. Val(x).k \in Int
      BY <2>2 DEF IsText
    <2>4. Val(x).k \div HalfDays \in Int
      BY <2>3, HalvesAreInts
    <2> QED
      BY <1>1, <2>1, <2>3, <2>4 DEF DayOf
  <1>2. CASE ~IsStr(x)
    <2>1. Kind(x) \in Temporal
      BY <1>2 DEF IsDate
    <2> QED
      BY <1>2, <2>1, DayOfTemporal
  <1> QED
    BY <1>1, <1>2

(* A day is moved eighteen years on.                                       *)
LEMMA MovedIsLater ==
    ASSUME NEW day \in Int, NEW dtype
    PROVE  LET x == Moved(day, dtype)
           IN  /\ IsCell(x) /\ (x = Null \/ Kind(x) = "date" \/ Kind(x) = "datetime")
               /\ x = Null \/ Kind(x) = IF dtype = "datetime" THEN "datetime" ELSE "date"
               /\ x # Null => Day(x) \in Int /\ Day(x) > day
  <1> DEFINE later == day + 365 * 18
  <1>1. /\ later \in Int /\ later > day
        /\ HalfDays * later \in Int /\ (HalfDays * later) \div HalfDays = later
    BY DEF HalfDays
  <1>2. Moved(day, dtype) = Null \/ Moved(day, dtype) = IF dtype = "datetime" THEN Midnight(later)
                                                        ELSE Date(later)
    BY Zenon DEF Moved
  <1> HIDE DEF later
  <1>3. /\ IsCell(Date(later)) /\ Kind(Date(later)) = "date" /\ Day(Date(later)) = later
    BY <1>1 DEF Date, Kind, Val, Day, IsCell, Temporal
  <1>4. /\ IsCell(Midnight(later)) /\ Kind(Midnight(later)) = "datetime"
        /\ Day(Midnight(later)) = later
    BY <1>1 DEF Midnight, Moment, Kind, Val, Day, IsCell, Temporal
  <1> QED
    BY <1>1, <1>2, <1>3, <1>4, NullIsCell

LEMMA RepairWrites ==
    ASSUME NEW t, NEW n \in Nat, NEW a, IsColumn(t[a.col], n), IsColumn(t[a.end], n)
    PROVE  /\ IsColumn(RepairedColumn(t, a), n)
           /\ IsTemporal(t, a.end) /\ NamesItsEnd(a) =>
                RepairedColumn(t, a) = Column(t[a.end].dtype, Repaired(t, a))
  <1>1. Late(t, a) \subseteq 1..n /\ DOMAIN Repaired(t, a) = 1..n
    BY DEF Late, Repaired, IsColumn, Cells
  <1>2. ASSUME NEW i \in 1..n
        PROVE  /\ IsCell(Repaired(t, a)[i])
               /\ i \in Late(t, a) =>
                    \/ Repaired(t, a)[i] = Null
                    \/ Kind(Repaired(t, a)[i]) = IF t[a.end].dtype = "datetime" THEN "datetime"
                                                 ELSE "date"
               /\ i \notin Late(t, a) => Repaired(t, a)[i] = Cells(t, a.end)[i]
    <2>1. IsCell(Cells(t, a.col)[i]) /\ IsCell(Cells(t, a.end)[i])
      BY DEF IsColumn, Cells
    <2>2. i \in Late(t, a) => DayOf(Cells(t, a.col)[i]) \in Int
      BY <2>1, DayIsInt DEF Late
    <2>3. /\ i \in Late(t, a) =>
                Repaired(t, a)[i] = Moved(DayOf(Cells(t, a.col)[i]), t[a.end].dtype)
          /\ i \notin Late(t, a) => Repaired(t, a)[i] = Cells(t, a.end)[i]
      BY DEF Repaired, IsColumn, Cells
    <2> QED
      BY <2>1, <2>2, <2>3, MovedIsLater
  <1>3. IsColumn(WriteStrict(t[a.end], Repaired(t, a)), n)
    BY <1>1, <1>2, WriteIsColumn
  <1>4. Fits("date", Repaired(t, a)) => IsColumn(Column("date", Repaired(t, a)), n)
    BY <1>1, <1>2 DEF IsColumn, Column
  <1>5. ASSUME IsTemporal(t, a.end), NamesItsEnd(a)
        PROVE  RepairedColumn(t, a) = Column(t[a.end].dtype, Repaired(t, a))
    <2>1. \A i \in 1..n : Cells(t, a.end)[i] = Null \/ Kind(Cells(t, a.end)[i]) = t[a.end].dtype
      BY DEF IsColumn, Fits, Cells
    <2>2. \A i \in 1..n : /\ Repaired(t, a)[i] # Infinite
                          /\ \/ Repaired(t, a)[i] = Null
                             \/ Kind(Repaired(t, a)[i]) = t[a.end].dtype
      BY <1>2, <1>5, <2>1, Kinds DEF IsTemporal, Temporal
    <2>3. Fits(t[a.end].dtype, Repaired(t, a))
      BY <1>1, <2>2 DEF Fits
    <2> QED
      BY <1>5, <2>3 DEF RepairedColumn, WriteStrict
  <1> QED
    BY <1>3, <1>4, <1>5 DEF RepairedColumn

LEMMA RepairIsWritten ==
    ASSUME NEW a, RepairDates(a)
    PROVE  table' = [table EXCEPT ![a.end] = RepairedColumn(table, a)]
  <1> DEFINE start == Cells(table, a.col)
             column == table[a.end]
             late == {i \in DOMAIN start : /\ IsDate(start[i]) /\ IsDate(column.cells[i])
                                           /\ DayOf(column.cells[i]) < DayOf(start[i])}
             cells == Replace(column.cells, late,
                              LAMBDA i : Moved(DayOf(start[i]), column.dtype))
  <1>1. late = Late(table, a)
    BY DEF Late, Cells
  <1>2. cells = Repaired(table, a)
    BY <1>1 DEF Repaired, Replace, Cells
  <1>3. table' = [table EXCEPT ![a.end] =
                    IF ~NamesItsEnd(a) THEN column
                    ELSE IF ~Fits(column.dtype, cells) /\ Fits("date", cells)
                    THEN Column("date", cells) ELSE WriteStrict(column, cells)]
    BY DEF RepairDates
  <1> QED
    BY <1>2, <1>3, Zenon DEF RepairedColumn

LEMMA DataByRepair ==
    ASSUME WorkInv, UntouchedCells, DataInv, NEW a \in anomalies, RepairDates(a)
    PROVE  IsFrame(table')
  <1>1. phase = "repair" /\ a \in pending
    BY DEF RepairDates
  <1>2. a.type = "DATE_LOGICAL" /\ DOMAIN table = DOMAIN snapshot
    BY <1>1 DEF WorkInv, UntouchedCells
  <1>3. IsAnomaly(snapshot, a)
    BY <1>1, DetectReliable DEF DataInv, Later, Reliable
  <1>4. a.col \in DOMAIN table /\ a.end \in DOMAIN table /\ IsFrame(table)
    BY <1>2, <1>3 DEF IsAnomaly, DataInv
  <1>5. PICK n \in Nat : AllRows(table) = 1..n /\ \A c \in DOMAIN table : IsColumn(table[c], n)
    BY <1>4, FrameColumns
  <1>6. IsColumn(RepairedColumn(table, a), n)
    BY <1>4, <1>5, RepairWrites
  <1> QED
    BY <1>4, <1>5, <1>6, OneReplaced, RepairIsWritten

(* A transformation leaves a data frame.                                   *)
LEMMA DataByTransformation ==
    ASSUME WorkInv, DataInv, TransformStep
    PROVE  /\ IsFrame(table')
           /\ steps' \in Seq({job.steps[k] : k \in DOMAIN job.steps})
  <1>1. \A k \in DOMAIN job.steps : IsStep(job.steps[k])
    BY JobsAssumption DEF WorkInv
  <1>2. steps \in Seq({job.steps[k] : k \in DOMAIN job.steps}) /\ steps # << >>
    BY DEF DataInv, TransformStep
  <1>3. /\ Head(steps) \in {job.steps[k] : k \in DOMAIN job.steps}
        /\ Tail(steps) \in Seq({job.steps[k] : k \in DOMAIN job.steps})
    BY <1>2
  <1>4. IsStep(Head(steps))
    BY <1>1, <1>3
  <1>5. CASE table' \in Outcomes(table, Head(steps)) /\ steps' = Tail(steps)
    <2>1. IsFrame(table)
      BY DEF DataInv
    <2>2. Keeps(table, Head(steps), table')
      BY <1>4, <1>5, <2>1, OutcomesKeep
    <2> QED
      BY <1>3, <1>5, <2>2 DEF Keeps
  <1>6. CASE UNCHANGED <<table, steps>>
    BY <1>6 DEF DataInv
  <1> QED
    BY <1>5, <1>6 DEF TransformStep

LEMMA DataStep ==
    ASSUME WorkInv, DraftInv, UntouchedCells, DataInv, [Next]_vars
    PROVE  DataInv'
  <1>1. CASE TransformStep
    <2>1. job' = job /\ phase' # "review" /\ ~Later' /\ anomalies' = anomalies /\ draft' = draft
      BY <1>1 DEF TransformStep, Later, Applied, Phases
    <2>2. decisions' = decisions
      BY <1>1 DEF TransformStep
    <2> QED
      BY <1>1, <2>1, <2>2, DataByTransformation DEF DataInv, IsDecision
  <1>2. CASE DetectAnomalies
    <2>1. /\ UNCHANGED <<job, steps, table, draft>> /\ phase' \in {"review", "done", "failed"}
      BY <1>2 DEF DetectAnomalies
    <2>2. CASE phase' = "failed"
      <3>1. UNCHANGED <<anomalies, decisions>>
        BY <1>2, <2>2 DEF DetectAnomalies
      <3> QED
        BY <2>1, <2>2, <3>1 DEF DataInv, Later, Applied
    <2>3. CASE phase' # "failed"
      <3>1. anomalies' = Detect(table) /\ decisions' = [a \in anomalies' |-> Undecided]
        BY <1>2, <2>3 DEF DetectAnomalies
      <3>2. Decided' = {}
        BY <3>1 DEF Decided
      <3>3. \A a \in anomalies' : IsDecision(decisions'[a])
        BY <3>1 DEF IsDecision, Undecided
      <3> QED
        BY <2>1, <2>3, <3>1, <3>2, <3>3 DEF DataInv, Later, Applied
    <2> QED
      BY <2>2, <2>3
  <1>3. CASE \E a \in anomalies : Decide(a)
    <2> PICK a \in anomalies : Decide(a)
      BY <1>3
    <2>1. PICK d \in Inputs : decisions' = [decisions EXCEPT ![a] = d]
      BY DEF Decide
    <2>2. IsDecision(d)
      BY InputsAreDecisions DEF WorkInv
    <2>3. \A b \in anomalies : IsDecision(decisions'[b])
      BY <2>1, <2>2 DEF DataInv, WorkInv
    <2>4. UNCHANGED <<job, phase, steps, table, anomalies, snapshot, draft>> /\ phase = "review"
      BY DEF Decide
    <2> QED
      BY <2>3, <2>4 DEF DataInv, Later, Applied
  <1>4. CASE \E a \in anomalies : RequestDraft(a)
    <2> PICK a \in anomalies : RequestDraft(a)
      BY <1>4
    <2>1. UNCHANGED <<job, phase, steps, table, anomalies, decisions, snapshot>>
      BY DEF RequestDraft
    <2>2. (draft.status = "shown" => IsProgram(draft.ir))'
      BY ProgramRequested DEF WorkInv
    <2> QED
      BY <2>1, <2>2 DEF DataInv, Later, Applied, Decided, IsDecision
  <1>5. CASE GeminiReplies
    <2>1. UNCHANGED <<job, phase, steps, table, anomalies, decisions, snapshot>>
      BY <1>5 DEF GeminiReplies
    <2>2. (draft.status = "shown" => IsProgram(draft.ir))'
      BY <1>5, ProgramAnswered DEF WorkInv
    <2> QED
      BY <2>1, <2>2 DEF DataInv, Later, Applied, Decided, IsDecision
  <1>6. CASE SubmitDraft
    <2>1. /\ UNCHANGED <<job, phase, steps, table, anomalies, snapshot>> /\ phase = "review"
          /\ draft' = NoDraft /\ decisions' = [decisions EXCEPT ![draft.anomaly] = CorrectedIR(draft.ir)]
      BY <1>6 DEF SubmitDraft
    <2>2. IsDecision(CorrectedIR(draft.ir))
      BY <1>6 DEF SubmitDraft, DataInv, IsDecision, CorrectedIR
    <2>3. \A b \in anomalies : IsDecision(decisions'[b])
      BY <2>1, <2>2 DEF DataInv, WorkInv
    <2> QED
      BY <2>1, <2>3 DEF DataInv, Later, Applied, NoDraft
  <1>7. CASE EndReview
    <2>1. /\ UNCHANGED <<job, steps, table, anomalies, decisions>> /\ phase = "review"
          /\ snapshot' = table /\ draft' = NoDraft /\ phase' # "review"
      BY <1>7 DEF EndReview
    <2> QED
      BY <2>1 DEF DataInv, NoDraft, IsDecision
  <1>8. CASE \E a \in anomalies : ApplyDecision(a)
    <2> PICK a \in anomalies : ApplyDecision(a)
      BY <1>8
    <2>1. /\ UNCHANGED <<job, steps, anomalies, decisions, snapshot, draft>>
          /\ phase = "apply" /\ phase' \in {"apply", "failed"}
      BY DEF ApplyDecision
    <2> QED
      BY <2>1, DataByDecision DEF DataInv, Later, IsDecision
  <1>9. CASE StripAll
    <2>1. /\ UNCHANGED <<job, steps, anomalies, decisions, snapshot, draft>>
          /\ phase = "apply" /\ phase' = "repair"
      BY <1>9 DEF StripAll
    <2> QED
      BY <1>9, <2>1, DataByStrip DEF DataInv, Later, IsDecision
  <1>10. CASE \E a \in anomalies : RepairDates(a)
    <2> PICK a \in anomalies : RepairDates(a)
      BY <1>10
    <2>1. /\ UNCHANGED <<job, phase, steps, anomalies, decisions, snapshot, draft>>
          /\ phase = "repair"
      BY DEF RepairDates
    <2> QED
      BY <2>1, DataByRepair DEF DataInv, Later, IsDecision
  <1>11. CASE Finish
    <2>1. /\ UNCHANGED <<job, steps, table, anomalies, decisions, snapshot, draft>>
          /\ phase = "repair" /\ phase' = "done"
      BY <1>11 DEF Finish
    <2> QED
      BY <2>1 DEF DataInv, Later, IsDecision
  <1>12. CASE UNCHANGED vars
    BY <1>12 DEF vars, DataInv, Later, Applied, Decided, IsDecision
  <1> QED
    BY <1>1, <1>2, <1>3, <1>4, <1>5, <1>6, <1>7, <1>8, <1>9, <1>10, <1>11, <1>12 DEF Next

-----------------------------------------------------------------------------
(* A column is of the type it had before the decisions, or of texts, and   *)
(* why a job fails.                                                        *)

LEMMA WritesOfType ==
    ASSUME NEW column, NEW cells
    PROVE  /\ WriteStrict(column, cells).dtype = column.dtype
           /\ WriteOrText(column, cells).dtype \in {column.dtype, "str"}
  BY DEF WriteStrict, WriteOrText, Column

LEMMA EffectOfType ==
    ASSUME NEW t, NEW snap, NEW a, NEW d, NEW written \in Effect(t, snap, a, d)
    PROVE  written.dtype \in {t[a.col].dtype, "str"}
  <1> DEFINE rows == Affected(snap, a)
             column == t[a.col]
  <1>1. \/ written = column
        \/ written \in MarkCopies(column, rows)
        \/ \E cells : written = WriteStrict(column, cells)
        \/ written \in RunProgram(t, a.col, rows, d.ir)
        \/ written \in Fill(column, rows, d.value)
        \/ written \in Fill(column, rows, a.sugg)
    BY DEF Effect
  <1> HIDE DEF rows, column
  <1>2. written \in MarkCopies(column, rows) => \E cells : written = WriteOrText(column, cells)
    BY DEF MarkCopies
  <1>3. \A x : written \in Fill(column, rows, x) => \E cells : written = WriteOrText(column, cells)
    BY DEF Fill
  <1>4. written \in RunProgram(t, a.col, rows, d.ir)
            => written = column \/ \E cells : written = WriteStrict(column, cells)
    BY DEF RunProgram, column
  <1>5. column = t[a.col]
    BY DEF column
  <1> QED
    BY <1>1, <1>2, <1>3, <1>4, <1>5, WritesOfType

(* A decision fails when it marks copies in a column that is not of texts, *)
(* writes an infinite text into one of numbers, or runs a program that     *)
(* raises.                                                                 *)
LEMMA EffectFails ==
    ASSUME NEW n \in Nat, NEW t, IsFrame(t), AllRows(t) = 1..n,
           NEW a, a.col \in DOMAIN t, Suggested(t, a.col, a.sugg), NEW d, IsDecision(d),
           NEW snap, Affected(snap, a) \subseteq 1..n, Effect(t, snap, a, d) = {}
    PROVE  /\ d.kind # "discarded"
           /\ \/ a.type = "DUPLICATE" /\ ~HasType(t, a.col, "str")
              \/ d.kind = "corrected" /\ Unbounded(d.value) /\ HasType(t, a.col, "num")
              \/ d.kind = "ir" /\ ProgramRaises(t, a.col, d.ir)
  <1> DEFINE rows == Affected(snap, a)
             column == t[a.col]
  <1>0. ASSUME NEW x, Fill(column, rows, x) = {}
        PROVE  Unbounded(x) /\ HasType(t, a.col, "num")
    <2>1. Cast(x, column.dtype) = {}
      BY <1>0 DEF Fill, Replace
    <2> QED
      BY <2>1 DEF Cast, HasType
  <1>1. Fill(column, rows, a.sugg) # {}
    BY <1>0 DEF Suggested
  <1>2. /\ d.kind # "discarded"
        /\ \/ a.type = "DUPLICATE" /\ MarkCopies(column, rows) = {}
           \/ d.kind = "corrected" /\ Fill(column, rows, d.value) = {}
           \/ d.kind = "ir" /\ RunProgram(t, a.col, rows, d.ir) = {}
    <2> HIDE DEF rows, column
    <2>1. CASE rows = {} \/ d.kind = "discarded"
      BY <2>1 DEF Effect, rows, column
    <2>2. CASE rows # {} /\ d.kind # "discarded" /\ a.type = "DUPLICATE"
      BY <2>2 DEF Effect, rows, column
    <2>3. CASE rows # {} /\ d.kind # "discarded" /\ a.type # "DUPLICATE"
      BY <1>1, <2>3 DEF Effect, rows, column
    <2> QED
      BY <2>1, <2>2, <2>3
  <1>3. IsColumn(column, n)
    BY DEF IsFrame, IsColumn, Cells
  <1>4. ASSUME MarkCopies(column, rows) = {}, HasType(t, a.col, "str")
        PROVE  FALSE
    <2> DEFINE cells == [i \in DOMAIN column.cells |-> IF i \in rows THEN WithSuffix(column.cells[i])
                                                       ELSE column.cells[i]]
    <2>1. ~Fits("str", cells)
      BY <1>4 DEF MarkCopies, Replace
    <2>2. \A i \in DOMAIN column.cells : IsCell(column.cells[i])
                                         /\ (column.cells[i] = Null \/ IsStr(column.cells[i]))
      BY <1>3, <1>4 DEF IsColumn, HasType, Fits, IsStr
    <2>3. \A i \in DOMAIN column.cells :
            WithSuffix(column.cells[i]) = Null \/ IsStr(WithSuffix(column.cells[i]))
      <3> SUFFICES ASSUME NEW i \in DOMAIN column.cells, column.cells[i] # Null
                   PROVE  IsStr(WithSuffix(column.cells[i]))
        BY DEF WithSuffix
      <3>1. IsCell(Text(column.cells[i])) /\ IsStr(Text(column.cells[i]))
        BY <2>2, TextOfCell
      <3> QED
        BY <3>1, EditsAreTexts DEF WithSuffix
    <2>4. \A x : IsStr(x) => Kind(x) = "str" /\ x # Infinite
      BY DEF IsStr, Kind, Infinite
    <2> QED
      BY <2>1, <2>2, <2>3, <2>4 DEF Fits
  <1>5. RunProgram(t, a.col, rows, d.ir) = {} /\ d.kind = "ir" => ProgramRaises(t, a.col, d.ir)
    <2> HIDE DEF rows
    <2>1. rows \subseteq 1..n
      BY DEF rows
    <2> QED
      BY <2>1, ProgramIsColumn DEF IsDecision
  <1> HIDE DEF rows, column
  <1> QED
    BY <1>0, <1>2, <1>4, <1>5

LEMMA TypesByDecision ==
    ASSUME WorkInv, UntouchedCells, DataInv, TypesInv, NEW a \in anomalies, ApplyDecision(a)
    PROVE  TypesInv'
  <1>1. phase = "apply" /\ DOMAIN table = DOMAIN snapshot /\ snapshot' = snapshot
    BY DEF ApplyDecision, UntouchedCells
  <1>2. CASE table' = table
    BY <1>1, <1>2 DEF TypesInv, Later, HasType
  <1>3. CASE table' # table
    <2> PICK column \in Effect(table, snapshot, a, decisions[a]) :
            table' = [table EXCEPT ![a.col] = column]
      BY <1>3 DEF ApplyDecision
    <2>1. column.dtype \in {table[a.col].dtype, "str"}
      BY EffectOfType
    <2> QED
      BY <1>1, <2>1 DEF TypesInv, Later, HasType
  <1> QED
    BY <1>2, <1>3

LEMMA TypesByStrip ==
    ASSUME UntouchedCells, TypesInv, StripAll
    PROVE  TypesInv'
  <1>1. phase = "apply" /\ DOMAIN table = DOMAIN snapshot /\ snapshot' = snapshot
    BY DEF StripAll, UntouchedCells
  <1>2. ASSUME NEW c \in DOMAIN table
        PROVE  table'[c].dtype = table[c].dtype
    <2>1. CASE HasType(table, c, "str")
      BY <2>1 DEF StripAll, HasType, Column
    <2>2. CASE ~HasType(table, c, "str")
      BY <2>2 DEF StripAll
    <2> QED
      BY <2>1, <2>2
  <1> QED
    BY <1>1, <1>2 DEF TypesInv, Later, HasType

LEMMA TypesByRepair ==
    ASSUME WorkInv, UntouchedCells, DataInv, TypesInv, NEW a \in anomalies, RepairDates(a)
    PROVE  TypesInv'
  <1>1. phase = "repair" /\ a \in pending /\ snapshot' = snapshot
    BY DEF RepairDates
  <1>2. a.type = "DATE_LOGICAL" /\ DOMAIN table = DOMAIN snapshot
    BY <1>1 DEF WorkInv, UntouchedCells
  <1>3. IsTemporal(snapshot, a.end) /\ a.end \in DOMAIN table
    BY <1>1, <1>2, DetectReliable DEF DataInv, Later, Reliable, IsAnomaly
  <1>4. RepairedColumn(table, a).dtype \in {table[a.end].dtype, "date"}
    BY WritesOfType DEF RepairedColumn, Column
  <1>5. table' = [table EXCEPT ![a.end] = RepairedColumn(table, a)]
    BY RepairIsWritten
  <1> QED
    BY <1>1, <1>2, <1>3, <1>4, <1>5 DEF TypesInv, Later, HasType, IsTemporal

LEMMA TypesStep ==
    ASSUME WorkInv, UntouchedCells, DataInv, TypesInv, [Next]_vars
    PROVE  TypesInv'
  <1>1. CASE TransformStep \/ DetectAnomalies
    <2>1. Later' => phase' = "done" /\ Decided' # {}
      BY <1>1 DEF TransformStep, DetectAnomalies, Later, Applied, WorkInv, Phases
    <2>2. phase' = "done" => Decided' = {}
      BY <1>1 DEF TransformStep, DetectAnomalies, Decided
    <2> QED
      BY <2>1, <2>2 DEF TypesInv
  <1>2. CASE (\E a \in anomalies : Decide(a) \/ RequestDraft(a)) \/ SubmitDraft
    <2>1. phase' = "review"
      BY <1>2 DEF Decide, RequestDraft, SubmitDraft
    <2> QED
      BY <2>1 DEF TypesInv, Later, Applied
  <1>3. CASE GeminiReplies \/ UNCHANGED vars
    BY <1>3 DEF GeminiReplies, vars, TypesInv, Later, Applied, Decided, HasType
  <1>4. CASE EndReview
    BY <1>4 DEF EndReview, TypesInv
  <1>5. CASE \E a \in anomalies : ApplyDecision(a) \/ RepairDates(a)
    BY <1>5, TypesByDecision, TypesByRepair
  <1>6. CASE StripAll
    BY <1>6, TypesByStrip
  <1>7. CASE Finish
    BY <1>7 DEF Finish, TypesInv, Later, HasType
  <1> QED
    BY <1>1, <1>2, <1>3, <1>4, <1>5, <1>6, <1>7 DEF Next

LEMMA FailureByDecision ==
    ASSUME WorkInv, UntouchedCells, DataInv, TypesInv, NEW a \in anomalies, ApplyDecision(a)
    PROVE  FailuresExplained'
  <1>0. UNCHANGED <<anomalies, decisions, snapshot>> /\ phase = "apply" /\ a \in Decided
    BY DEF ApplyDecision, WorkInv
  <1>1. CASE Effect(table, snapshot, a, decisions[a]) = {} /\ table' = table
    <2>1. PICK n \in Nat : AllRows(table) = 1..n
      BY FrameColumns DEF DataInv
    <2>2. a.col \in DOMAIN snapshot /\ DOMAIN table = DOMAIN snapshot /\ IsDecision(decisions[a])
          /\ IsFrame(table) /\ Suggested(snapshot, a.col, a.sugg)
          /\ DOMAIN Cells(table, a.col) = DOMAIN Cells(snapshot, a.col)
      BY <1>0, DetectReliable DEF DataInv, Later, Reliable, IsAnomaly, UntouchedCells
    <2>7. Suggested(table, a.col, a.sugg)
      BY <1>0, <2>2 DEF Suggested, TypesInv, Later, HasType, IsTemporal
    <2>8. Affected(snapshot, a) \subseteq 1..n
      BY <2>1, <2>2, AffectedRows DEF IsFrame
    <2>3. /\ decisions[a].kind # "discarded"
          /\ \/ a.type = "DUPLICATE" /\ ~HasType(table, a.col, "str")
             \/ /\ decisions[a].kind = "corrected" /\ Unbounded(decisions[a].value)
                /\ HasType(table, a.col, "num")
             \/ decisions[a].kind = "ir" /\ ProgramRaises(table, a.col, decisions[a].ir)
      BY <1>1, <2>1, <2>2, <2>7, <2>8, EffectFails
    <2>4. a \in Accepted'
      BY <1>0, <2>3 DEF Accepted, Decided
    <2>5. HasType(snapshot, a.col, "str") => HasType(table, a.col, "str")
      BY <1>0, <2>2 DEF TypesInv, Later, HasType, IsTemporal, Temporal
    <2>6. \/ NumberCopies(a)'
          \/ /\ decisions'[a].kind = "corrected" /\ Unbounded(decisions'[a].value)
             /\ HasType(table', a.col, "num")
          \/ decisions'[a].kind = "ir" /\ ProgramRaises(table', a.col, decisions'[a].ir)
      BY <1>0, <1>1, <2>3, <2>5 DEF NumberCopies, HasType
    <2> QED
      BY <2>4, <2>6 DEF FailuresExplained
  <1>2. CASE phase' = phase
    BY <1>0, <1>2 DEF FailuresExplained
  <1> QED
    BY <1>1, <1>2 DEF ApplyDecision

LEMMA FailureStep ==
    ASSUME WorkInv, UntouchedCells, DataInv, TypesInv, FailuresExplained, [Next]_vars
    PROVE  FailuresExplained'
  <1>1. CASE TransformStep
    BY <1>1 DEF TransformStep, FailuresExplained
  <1>2. CASE DetectAnomalies
    <2>1. phase' = "failed" => DetectionRaises(table)'
      BY <1>2 DEF DetectAnomalies, DetectionRaises, Cells
    <2> QED
      BY <2>1 DEF FailuresExplained
  <1>3. CASE \E a \in anomalies : ApplyDecision(a)
    BY <1>3, FailureByDecision
  <1>4. CASE GeminiReplies \/ UNCHANGED vars
    <2>1. UNCHANGED <<phase, steps, table, anomalies, decisions, snapshot>>
      BY <1>4 DEF GeminiReplies, vars
    <2>2. Accepted' = Accepted /\ DetectionRaises(table)' = DetectionRaises(table)
      BY <2>1 DEF Accepted, Decided, DetectionRaises, HasType, Cells
    <2>3. \A a : NumberCopies(a)' = NumberCopies(a)
      BY <2>1 DEF NumberCopies, HasType
    <2> QED
      BY <2>1, <2>2, <2>3 DEF FailuresExplained
  <1>5. CASE \/ \E a \in anomalies : Decide(a) \/ RequestDraft(a) \/ RepairDates(a)
             \/ SubmitDraft \/ EndReview \/ StripAll \/ Finish
    <2>1. phase' # "failed"
      BY <1>5 DEF Decide, RequestDraft, RepairDates, SubmitDraft, EndReview, StripAll, Finish
    <2> QED
      BY <2>1 DEF FailuresExplained
  <1> QED
    BY <1>1, <1>2, <1>3, <1>4, <1>5 DEF Next

-----------------------------------------------------------------------------
(* A cell that one decision alone is about.                                *)

(* Copies are all marked, or the job fails.                                *)
LEMMA CopiesAreMarked ==
    ASSUME NEW column, NEW rows, NEW written \in MarkCopies(column, rows),
           NEW i \in DOMAIN column.cells, i \in rows
    PROVE  written.cells[i] = WithSuffix(column.cells[i])
  <1> DEFINE cells == [j \in DOMAIN column.cells |-> IF j \in rows THEN WithSuffix(column.cells[j])
                                                     ELSE column.cells[j]]
  <1>1. written = WriteOrText(column, cells)
        /\ (Fits(column.dtype, cells) \/ Fits("str", cells))
    BY DEF MarkCopies, Replace
  <1>2. cells[i] = WithSuffix(column.cells[i])
    OBVIOUS
  <1> HIDE DEF cells
  <1>3. written.cells = cells
    BY <1>1 DEF WriteOrText, WriteStrict, Column
  <1> QED
    BY <1>2, <1>3

LEMMA FillTakes ==
    ASSUME NEW n \in Nat, NEW column, IsColumn(column, n), column.dtype = "str", NEW rows, NEW x,
           NEW written \in Fill(column, rows, x), NEW i \in 1..n, i \in rows
    PROVE  written.cells[i] = Takes(x, column.cells[i])
  <1> DEFINE cells == [j \in DOMAIN column.cells |-> IF j \in rows THEN x ELSE column.cells[j]]
  <1>0. Cast(x, "str") = {x}
    BY DEF Cast
  <1>1. written = WriteOrText(column, cells)
    BY <1>0 DEF Fill, Replace
  <1>2. DOMAIN cells = 1..n /\ cells[i] = x
    BY DEF IsColumn
  <1>3. x = Null \/ IsStr(x) => Fits("str", cells)
    BY DEF Fits, IsColumn, IsStr, Infinite, Kind
  <1>4. ~(x = Null \/ IsStr(x)) => ~Fits("str", cells)
    BY <1>2 DEF Fits, IsStr
  <1> HIDE DEF cells
  <1> QED
    BY <1>1, <1>2, <1>3, <1>4 DEF WriteOrText, WriteStrict, Column, Takes

LEMMA StrictTexts ==
    ASSUME NEW n \in Nat, NEW column, IsColumn(column, n), column.dtype = "str",
           NEW cells, DOMAIN cells = 1..n,
           \A i \in 1..n : cells[i] = column.cells[i] \/ cells[i] = Null \/ IsStr(cells[i])
    PROVE  WriteStrict(column, cells).cells = cells
  <1>1. Fits("str", cells)
    BY DEF Fits, IsColumn, IsStr, Infinite, Kind
  <1> QED
    BY <1>1 DEF WriteStrict, Column

LEMMA EffectOnCell ==
    ASSUME NEW n \in Nat, NEW t, NEW a, IsColumn(t[a.col], n), NEW d, d.kind # "discarded",
           a.type = "DUPLICATE" \/ (d.kind # "ir" /\ HasType(t, a.col, "str")),
           NEW snap, NEW i \in 1..n, i \in Affected(snap, a),
           NEW written \in Effect(t, snap, a, d)
    PROVE  written.cells[i] = CellEffect(a, d, t[a.col].cells[i])
  <1> DEFINE rows == Affected(snap, a)
             column == t[a.col]
             trim(j) == IF column.cells[j] = Null THEN Null ELSE Unpadded(Text(column.cells[j]))
             blank == [j \in DOMAIN column.cells |-> IF j \in rows THEN Null ELSE column.cells[j]]
             trimmed == [j \in DOMAIN column.cells |-> IF j \in rows THEN trim(j)
                                                       ELSE column.cells[j]]
  <1>1. DOMAIN column.cells = 1..n
    BY DEF IsColumn
  <1>2. CASE a.type = "DUPLICATE"
    <2>1. written \in MarkCopies(column, rows)
      BY <1>2 DEF Effect
    <2> HIDE DEF rows, column
    <2> QED
      BY <1>1, <1>2, <2>1, CopiesAreMarked DEF CellEffect, rows, column
  <1>3. CASE a.type = "WHITESPACE_ONLY" /\ d.kind = "approved"
    <2>1. written = WriteStrict(column, blank)
      BY <1>3 DEF Effect, Replace
    <2>2. DOMAIN blank = 1..n /\ blank[i] = Null
          /\ \A j \in 1..n : blank[j] = column.cells[j] \/ blank[j] = Null
      BY <1>1
    <2> HIDE DEF blank
    <2>3. written.cells = blank
      BY <1>3, <2>1, <2>2, StrictTexts DEF HasType
    <2> QED
      BY <1>3, <2>2, <2>3 DEF CellEffect
  <1>4. CASE a.type = "LEADING_TRAILING_WHITESPACE" /\ d.kind = "approved"
    <2>1. written = WriteStrict(column, trimmed)
      BY <1>4 DEF Effect, Replace
    <2>2. DOMAIN trimmed = 1..n /\ trimmed[i] = trim(i)
          /\ \A j \in 1..n : trimmed[j] = column.cells[j] \/ trimmed[j] = trim(j)
      BY <1>1
    <2>3. \A j \in 1..n : trim(j) = Null \/ IsStr(trim(j))
      <3> SUFFICES ASSUME NEW j \in 1..n, column.cells[j] # Null
                   PROVE  IsStr(Unpadded(Text(column.cells[j])))
        OBVIOUS
      <3>1. IsCell(column.cells[j])
        BY DEF IsColumn
      <3>2. IsCell(Text(column.cells[j])) /\ IsStr(Text(column.cells[j]))
        BY <3>1, TextOfCell
      <3> QED
        BY <3>2, EditsAreTexts
    <2> HIDE DEF trimmed
    <2>4. \A j \in 1..n : trimmed[j] = column.cells[j] \/ trimmed[j] = Null \/ IsStr(trimmed[j])
      BY <2>2, <2>3
    <2>5. written.cells = trimmed
      BY <1>4, <2>1, <2>2, <2>4, StrictTexts DEF HasType
    <2>6. trim(i) = CellEffect(a, d, column.cells[i])
      BY <1>4 DEF CellEffect
    <2> QED
      BY <2>2, <2>5, <2>6
  <1>5. CASE /\ a.type # "DUPLICATE"
             /\ ~(a.type = "WHITESPACE_ONLY" /\ d.kind = "approved")
             /\ ~(a.type = "LEADING_TRAILING_WHITESPACE" /\ d.kind = "approved")
    <2>1. column.dtype = "str"
      BY <1>5 DEF HasType
    <2>2. CASE d.kind = "corrected"
      <3>1. written \in Fill(column, rows, d.value)
        BY <1>5, <2>2 DEF Effect
      <3> HIDE DEF rows, column
      <3>2. written.cells[i] = Takes(d.value, column.cells[i])
        BY <2>1, <3>1, FillTakes DEF rows, column
      <3> QED
        BY <1>5, <2>2, <3>2 DEF CellEffect, column
    <2>3. CASE d.kind # "corrected" /\ a.sugg = Null
      <3>1. written = column
        BY <1>5, <2>3 DEF Effect
      <3> QED
        BY <1>5, <2>3, <3>1 DEF CellEffect
    <2>4. CASE d.kind # "corrected" /\ a.sugg # Null
      <3>1. written \in Fill(column, rows, a.sugg)
        BY <1>5, <2>4 DEF Effect
      <3> HIDE DEF rows, column
      <3>2. written.cells[i] = Takes(a.sugg, column.cells[i])
        BY <2>1, <3>1, FillTakes DEF rows, column
      <3> QED
        BY <1>5, <2>4, <3>2 DEF CellEffect, column
    <2> QED
      BY <2>2, <2>3, <2>4
  <1> QED
    BY <1>2, <1>3, <1>4, <1>5

(* Where the cells of an anomaly are.                                      *)
LEMMA RowsOfAnomaly ==
    ASSUME UntouchedCells, DataInv, Later, NEW a \in anomalies
    PROVE  \E n \in Nat : /\ a.col \in DOMAIN table /\ DOMAIN table = DOMAIN snapshot
                          /\ IsColumn(table[a.col], n) /\ IsColumn(snapshot[a.col], n)
                          /\ Affected(snapshot, a) \subseteq 1..n
                          /\ IsAnomaly(snapshot, a)
  <1>1. IsFrame(table) /\ IsFrame(snapshot) /\ IsAnomaly(snapshot, a)
    BY DetectReliable DEF DataInv, Reliable
  <1>2. /\ DOMAIN table = DOMAIN snapshot /\ a.col \in DOMAIN table
        /\ DOMAIN Cells(table, a.col) = DOMAIN Cells(snapshot, a.col)
    BY <1>1 DEF UntouchedCells, IsAnomaly, Later
  <1>3. PICK n \in Nat : \A c \in DOMAIN table : IsColumn(table[c], n)
    BY <1>1, FrameColumns
  <1>4. PICK m \in Nat : \A c \in DOMAIN snapshot : IsColumn(snapshot[c], m)
    BY <1>1, FrameColumns
  <1>5. DOMAIN Cells(table, a.col) = 1..n /\ DOMAIN Cells(snapshot, a.col) = 1..m
    BY <1>2, <1>3, <1>4 DEF IsColumn, Cells
  <1>6. IsColumn(snapshot[a.col], n)
    BY <1>2, <1>4, <1>5 DEF IsColumn, Cells
  <1> QED
    BY <1>1, <1>2, <1>3, <1>5, <1>6, AffectedRows

LEMMA SoloByDecision ==
    ASSUME WorkInv, UntouchedCells, DataInv, TypesInv, SoloInv, NEW b \in anomalies,
           ApplyDecision(b)
    PROVE  SoloInv'
  <1>0. /\ UNCHANGED <<anomalies, decisions, snapshot>> /\ phase = "apply" /\ b \in pending
        /\ pending' = pending \ {b} /\ phase' \in {"apply", "failed"} /\ b \in Decided
    BY DEF ApplyDecision, WorkInv
  <1>1. SUFFICES ASSUME phase' = "apply", NEW a \in OnItsOwn, NEW i \in Alone(a)
                 PROVE  SoloCell(a, i)'
    <2>1. OnItsOwn' = OnItsOwn /\ \A a : Alone(a)' = Alone(a)
      BY <1>0 DEF OnItsOwn, Alone, Accepted, Decided, HasType
    <2> QED
      BY <1>0, <2>1 DEF SoloInv, Later, Applied
  <1>2. a \in anomalies /\ a \in Accepted /\ i \in Affected(snapshot, a) /\ SoloCell(a, i)
    BY <1>0 DEF OnItsOwn, Accepted, Decided, Alone, SoloInv, Later
  <1>3. PICK n \in Nat : /\ a.col \in DOMAIN table /\ IsColumn(table[a.col], n)
                         /\ IsColumn(snapshot[a.col], n) /\ i \in 1..n
    BY <1>0, <1>2, RowsOfAnomaly DEF Later
  <1>4. PICK column \in Effect(table, snapshot, b, decisions[b]) :
            table' = [table EXCEPT ![b.col] = column]
    BY <1>0, <1>1 DEF ApplyDecision
  <1> DEFINE x == Cells(snapshot, a.col)[i]
             y == CellEffect(a, decisions[a], x)
  <1>5. CASE a # b
    <2>1. Cells(table', a.col)[i] = Cells(table, a.col)[i]
      <3>1. CASE b.col # a.col
        BY <1>3, <1>4, <3>1 DEF Cells
      <3>2. CASE b.col = a.col
        <4>1. table'[a.col] = column
          BY <1>3, <1>4, <3>2
        <4>2. /\ SameOutside(table[b.col].cells, column.cells, Affected(snapshot, b))
              /\ decisions[b].kind = "discarded" => column = table[b.col]
          BY EffectKeeps
        <4>3. decisions[b].kind # "discarded" => i \notin Affected(snapshot, b)
          BY <1>0, <1>5, <3>2 DEF Alone, Accepted
        <4> QED
          BY <1>3, <3>2, <4>1, <4>2, <4>3 DEF SameOutside, IsColumn, Cells
      <3> QED
        BY <3>1, <3>2
    <2>2. a \in pending' <=> a \in pending
      BY <1>0, <1>5
    <2> QED
      BY <1>0, <1>1, <1>2, <2>1, <2>2 DEF SoloCell, Cells
  <1>6. CASE a = b
    <2>1. Cells(table, a.col)[i] = x
      BY <1>0, <1>2, <1>6 DEF SoloCell
    <2>2. decisions[a].kind # "discarded"
          /\ (a.type = "DUPLICATE" \/ (decisions[a].kind # "ir" /\ HasType(table, a.col, "str")))
      <3>1. a.col \in DOMAIN snapshot
        BY <1>0, <1>3 DEF UntouchedCells
      <3>2. HasType(snapshot, a.col, "str") => HasType(table, a.col, "str")
        BY <1>0, <3>1 DEF TypesInv, Later, HasType, IsTemporal, Temporal
      <3> QED
        BY <1>2, <3>2 DEF OnItsOwn, Accepted
    <2>3. column.cells[i] = CellEffect(a, decisions[a], table[a.col].cells[i])
      BY <1>2, <1>3, <1>4, <1>6, <2>2, EffectOnCell
    <2>4. Cells(table', a.col)[i] = y
      BY <1>3, <1>4, <1>6, <2>1, <2>3 DEF Cells
    <2> QED
      BY <1>0, <1>1, <1>6, <2>4 DEF SoloCell
  <1> QED
    BY <1>5, <1>6

LEMMA SoloByStrip ==
    ASSUME WorkInv, UntouchedCells, DataInv, SoloInv, StripAll
    PROVE  SoloInv'
  <1>0. /\ UNCHANGED <<anomalies, decisions, snapshot>> /\ phase = "apply" /\ pending = {}
        /\ phase' = "repair"
    BY DEF StripAll
  <1>1. SUFFICES ASSUME NEW a \in OnItsOwn, NEW i \in Alone(a)
                 PROVE  SoloCell(a, i)'
    <2>1. OnItsOwn' = OnItsOwn /\ \A a : Alone(a)' = Alone(a)
      BY <1>0 DEF OnItsOwn, Alone, Accepted, Decided, HasType
    <2> QED
      BY <1>0, <2>1 DEF SoloInv
  <1>2. a \in anomalies /\ i \in Affected(snapshot, a) /\ SoloCell(a, i)
    BY <1>0 DEF OnItsOwn, Accepted, Decided, Alone, SoloInv, Later
  <1>3. PICK n \in Nat : a.col \in DOMAIN table /\ IsColumn(table[a.col], n) /\ i \in 1..n
    BY <1>0, <1>2, RowsOfAnomaly DEF Later
  <1> DEFINE y == CellEffect(a, decisions[a], Cells(snapshot, a.col)[i])
  <1>4. Cells(table, a.col)[i] = y
    BY <1>0, <1>2 DEF SoloCell
  <1>5. Cells(table', a.col)[i] = Stripped(Cells(table, a.col)[i])
    <2>1. CASE HasType(table, a.col, "str")
      <3>1. table'[a.col] = Column("str", [j \in DOMAIN Cells(table, a.col) |->
                                                Stripped(Cells(table, a.col)[j])])
        BY <1>3, <2>1 DEF StripAll
      <3> QED
        BY <1>3, <3>1 DEF Column, Cells, IsColumn
    <2>2. CASE ~HasType(table, a.col, "str")
      <3>1. table'[a.col] = table[a.col]
        BY <1>3, <2>2 DEF StripAll
      <3>2. ~IsStr(Cells(table, a.col)[i])
        <4>1. Cells(table, a.col)[i] = Null \/ Kind(Cells(table, a.col)[i]) # "str"
          BY <1>3, <2>2 DEF IsColumn, Fits, Cells, HasType
        <4> QED
          BY <4>1 DEF IsStr, Kind, Null
      <3> QED
        BY <3>1, <3>2 DEF Stripped, Cells
    <2> QED
      BY <2>1, <2>2
  <1> QED
    BY <1>0, <1>4, <1>5 DEF SoloCell

LEMMA SoloByRepair ==
    ASSUME WorkInv, UntouchedCells, DataInv, SoloInv, NEW b \in anomalies, RepairDates(b)
    PROVE  SoloInv'
  <1>0. /\ UNCHANGED <<anomalies, decisions, snapshot>> /\ phase = "repair" /\ b \in pending
        /\ phase' = "repair" /\ b.type = "DATE_LOGICAL"
    BY DEF RepairDates, WorkInv
  <1>1. SUFFICES ASSUME NEW a \in OnItsOwn, NEW i \in Alone(a)
                 PROVE  SoloCell(a, i)'
    <2>1. OnItsOwn' = OnItsOwn /\ \A a : Alone(a)' = Alone(a)
      BY <1>0 DEF OnItsOwn, Alone, Accepted, Decided, HasType
    <2> QED
      BY <1>0, <2>1 DEF SoloInv
  <1>2. a \in anomalies /\ SoloCell(a, i)
    BY <1>0 DEF OnItsOwn, Accepted, Decided, Alone, SoloInv, Later
  <1>3. IsAnomaly(snapshot, a) /\ IsAnomaly(snapshot, b)
    BY <1>0, <1>2, RowsOfAnomaly DEF Later
  <1>4. a.col # b.end
    BY <1>0, <1>3 DEF IsAnomaly, HasType, IsTemporal, Temporal, OnItsOwn
  <1>5. a.col \in DOMAIN table
    BY <1>0, <1>3 DEF IsAnomaly, UntouchedCells
  <1>6. Cells(table', a.col) = Cells(table, a.col)
    BY <1>4, <1>5, RepairIsWritten DEF Cells
  <1> QED
    BY <1>0, <1>2, <1>6 DEF SoloCell, Cells

LEMMA SoloStep ==
    ASSUME WorkInv, UntouchedCells, DataInv, TypesInv, SoloInv, [Next]_vars
    PROVE  SoloInv'
  <1>1. CASE TransformStep \/ DetectAnomalies
    <2>1. Later' => phase' = "done" /\ Decided' # {}
      BY <1>1 DEF TransformStep, DetectAnomalies, Later, Applied, WorkInv, Phases
    <2>2. phase' = "done" => Decided' = {}
      BY <1>1 DEF TransformStep, DetectAnomalies, Decided
    <2> QED
      BY <2>1, <2>2 DEF SoloInv
  <1>2. CASE (\E a \in anomalies : Decide(a) \/ RequestDraft(a)) \/ SubmitDraft
    <2>1. phase' = "review"
      BY <1>2 DEF Decide, RequestDraft, SubmitDraft
    <2> QED
      BY <2>1 DEF SoloInv, Later, Applied
  <1>3. CASE GeminiReplies \/ UNCHANGED vars
    <2>1. UNCHANGED <<phase, table, anomalies, decisions, snapshot, pending>>
      BY <1>3 DEF GeminiReplies, vars
    <2>2. Later' = Later /\ OnItsOwn' = OnItsOwn /\ \A a : Alone(a)' = Alone(a)
      BY <2>1 DEF Later, Applied, OnItsOwn, Alone, Accepted, Decided, HasType
    <2>3. \A a, i : SoloCell(a, i)' = SoloCell(a, i)
      BY <2>1 DEF SoloCell, Cells
    <2> QED
      BY <2>2, <2>3 DEF SoloInv
  <1>4. CASE EndReview
    <2>1. /\ UNCHANGED <<table, anomalies, decisions>> /\ snapshot' = table /\ pending' = Decided
          /\ phase' = IF Decided = {} THEN "done" ELSE "apply"
      BY <1>4 DEF EndReview
    <2>2. Later' => phase' = "apply"
      BY <2>1 DEF Later, Applied, Decided
    <2>3. \A a \in OnItsOwn' : a \in pending'
      BY <2>1 DEF OnItsOwn, Accepted, Decided
    <2> QED
      BY <2>1, <2>2, <2>3 DEF SoloInv, SoloCell, Cells
  <1>5. CASE \E a \in anomalies : ApplyDecision(a) \/ RepairDates(a)
    BY <1>5, SoloByDecision, SoloByRepair
  <1>6. CASE StripAll
    BY <1>6, SoloByStrip
  <1>7. CASE Finish
    <2>1. /\ UNCHANGED <<table, anomalies, decisions, snapshot>>
          /\ phase = "repair" /\ phase' = "done"
      BY <1>7 DEF Finish
    <2>2. OnItsOwn' = OnItsOwn /\ \A a : Alone(a)' = Alone(a)
      BY <2>1 DEF OnItsOwn, Alone, Accepted, Decided, HasType
    <2>3. \A a, i : SoloCell(a, i)' = SoloCell(a, i)
      BY <2>1 DEF SoloCell, Cells
    <2> QED
      BY <2>1, <2>2, <2>3 DEF SoloInv, Later
  <1> QED
    BY <1>1, <1>2, <1>3, <1>4, <1>5, <1>6, <1>7 DEF Next

-----------------------------------------------------------------------------
(* Copies.                                                                 *)

(* The key of a copy has the suffix exactly when the copy has it.          *)
LEMMA KeyKeepsMark ==
    ASSUME NEW c, NEW x, IsCell(x), x # Null
    PROVE  Val(RawKey(c, x)).dup = Marked(x)
  <1> DEFINE y == Text(x)
  <1>1. IsCell(y) /\ IsStr(y) /\ Text(y) = y
    BY TextOfCell, TextOfText
  <1>2. y = <<"str", Val(y)>> /\ IsText(Val(y))
    BY <1>1 DEF IsCell, IsStr, Kind, Null, Temporal
  <1>3. Val(y).dup = Marked(x)
    <2>1. CASE IsStr(x)
      <3>1. y = x
        BY <2>1 DEF Text
      <3> HIDE DEF y
      <3>2. Val(x).dup \in BOOLEAN
        BY <1>2, <3>1 DEF IsText
      <3> QED
        BY <2>1, <3>1, <3>2 DEF Marked
    <2>2. CASE ~IsStr(x)
      <3>1. \E shape, k : y = Str(shape, k)
        BY <2>2 DEF Text, Digits
      <3>2. \A shape, k : Val(Str(shape, k)).dup = FALSE
        BY Parts DEF Str, Val
      <3> QED
        BY <2>2, <3>1, <3>2 DEF Marked
    <2> QED
      BY <2>1, <2>2
  <1>4. RawKey(c, x) \in {Lower(Unpadded(y)), Unpadded(y), y}
    BY <1>1 DEF RawKey, DupKey
  <1> HIDE DEF y
  <1>5. Val(Unpadded(y)).dup = Val(y).dup
    BY <1>2 DEF Unpadded, Val, IsText
  <1>6. Val(Lower(Unpadded(y))).dup = Val(Unpadded(y)).dup
    <2>1. IsText(Val(Unpadded(y)))
      BY <1>1, EditsAreTexts DEF IsCell, IsStr, Kind, Null, Temporal
    <2> QED
      BY <2>1 DEF Lower, Val, IsText
  <1> QED
    BY <1>3, <1>4, <1>5, <1>6

(* A row that says what an earlier row says is a copy, unless it is marked *)
(* already.                                                                *)
LEMMA UnmarkedIsCopy ==
    ASSUME NEW t, IsFrame(t), NEW c \in DOMAIN t,
           NEW i \in NonNull(Cells(t, c)), ~Marked(Cells(t, c)[i]),
           NEW j \in NonNull(Cells(t, c)), j < i,
           RawKey(c, Cells(t, c)[j]) = RawKey(c, Cells(t, c)[i])
    PROVE  i \in DuplicateRows(t, c)
  <1> DEFINE cells == Cells(t, c)
  <1>1. IsCell(cells[i]) /\ cells[i] # Null /\ IsCell(cells[j]) /\ cells[j] # Null
    BY CellOf
  <1>2. ~Marked(cells[j])
    BY <1>1, KeyKeepsMark DEF Marked
  <1>3. CopyKey(c, cells[i]) = RawKey(c, cells[i]) /\ CopyKey(c, cells[j]) = RawKey(c, cells[j])
    BY <1>2, UnmarkedKey
  <1>4. i # j
    <2>1. \E n \in Nat : AllRows(t) = 1..n
      BY FrameColumns
    <2>2. i \in Nat
      BY <2>1, CellOf
    <2> QED
      BY <2>2
  <1>5. Cardinality({h \in NonNull(cells) : RawKey(c, cells[h]) = RawKey(c, cells[i])}) > 1
    BY <1>4, TwoAreMany
  <1> QED
    BY <1>3, <1>5 DEF DuplicateRows

(* The mark outlasts the strip, and marking a text marks it.               *)
LEMMA MarkLasts ==
    ASSUME NEW x, IsCell(x), x # Null, Marked(x)
    PROVE  Marked(Stripped(x))
  <1>1. x = <<"str", Val(x)>> /\ IsText(Val(x)) /\ Val(x).dup = TRUE
    BY DEF IsCell, IsStr, Kind, Marked, IsText, Temporal
  <1>2. ~BlankShaped(x)
    BY <1>1 DEF BlankShaped, Shape
  <1>3. Stripped(x) = Unpadded(x)
    BY <1>2 DEF Stripped, Strip, Marked
  <1>4. IsStr(Unpadded(x)) /\ Val(Unpadded(x)).dup = TRUE
    BY <1>1 DEF Unpadded, Val, IsText, IsStr, Kind
  <1> QED
    BY <1>3, <1>4 DEF Marked

LEMMA SuffixMarks ==
    ASSUME NEW x, IsCell(x), x # Null
    PROVE  IsCell(WithSuffix(x)) /\ WithSuffix(x) # Null /\ Marked(WithSuffix(x))
  <1>1. IsCell(Text(x)) /\ IsStr(Text(x))
    BY TextOfCell
  <1>2. WithSuffix(x) = WithDup(Text(x))
    BY DEF WithSuffix
  <1>3. IsCell(WithSuffix(x)) /\ IsStr(WithSuffix(x)) /\ WithSuffix(x) # Null
    BY <1>1, <1>2, EditsAreTexts
  <1>4. Val(WithSuffix(x)).dup = TRUE
    <2>1. IsText(Val(Text(x)))
      BY <1>1 DEF IsCell, IsStr, Kind, Null, Temporal
    <2> QED
      BY <1>2, <2>1 DEF WithDup, Val, IsText
  <1> QED
    BY <1>3, <1>4 DEF Marked

-----------------------------------------------------------------------------
(* Dates.                                                                  *)

(* In a column of dates or of moments a repair moves an end to a later     *)
(* day, past its start, or takes it away.                                  *)
LEMMA RepairOrders ==
    ASSUME NEW t, NEW n \in Nat, NEW a, IsColumn(t[a.col], n), IsColumn(t[a.end], n),
           IsTemporal(t, a.end), NEW i \in 1..n, Repaired(t, a)[i] # Null
    PROVE  LET old == Cells(t, a.end)[i]
               new == Repaired(t, a)[i]
               start == Cells(t, a.col)[i]
           IN  /\ old # Null /\ Day(old) \in Int /\ Day(new) \in Int /\ Day(old) <= Day(new)
               /\ IsDate(start) => DayOf(start) <= Day(new)
  <1> DEFINE old == Cells(t, a.end)[i]
             new == Repaired(t, a)[i]
             start == Cells(t, a.col)[i]
  <1>1. IsCell(old) /\ IsCell(start) /\ (old = Null \/ Kind(old) \in Temporal)
    BY DEF IsColumn, Cells, IsTemporal, Fits
  <1>2. i \in DOMAIN Cells(t, a.end) /\ i \in DOMAIN Cells(t, a.col)
    BY DEF IsColumn, Cells
  <1>3. old # Null => Day(old) \in Int /\ IsDate(old) /\ DayOf(old) = Day(old)
    BY <1>1, DayOfTemporal
  <1>4. IsDate(old) => old # Null
    BY <1>1, DayIsInt
  <1>5. IsDate(start) => DayOf(start) \in Int
    BY <1>1, DayIsInt
  <1>6. i \in Late(t, a) <=> IsDate(start) /\ IsDate(old) /\ DayOf(old) < DayOf(start)
    BY <1>2 DEF Late
  <1>7. new = IF i \in Late(t, a) THEN Moved(DayOf(start), t[a.end].dtype) ELSE old
    BY <1>2 DEF Repaired
  <1>8. CASE i \in Late(t, a)
    <2>1. /\ DayOf(start) \in Int /\ new = Moved(DayOf(start), t[a.end].dtype)
          /\ DayOf(old) < DayOf(start)
      BY <1>5, <1>6, <1>7, <1>8
    <2>2. Day(new) \in Int /\ Day(new) > DayOf(start)
      BY <2>1, MovedIsLater
    <2> HIDE DEF old, new, start
    <2> QED
      BY <1>3, <1>4, <1>6, <1>8, <2>1, <2>2 DEF old, new, start
  <1>9. CASE i \notin Late(t, a)
    <2>1. new = old /\ old # Null
      BY <1>7, <1>9
    <2>2. IsDate(start) => ~(Day(old) < DayOf(start))
      BY <1>3, <1>6, <1>9, <2>1
    <2> HIDE DEF old, new, start
    <2> QED
      BY <1>3, <1>5, <2>1, <2>2 DEF old, new, start
  <1> QED
    BY <1>8, <1>9

(* As long as a date of the end column is untouched, it is a column of     *)
(* dates, or of moments if it was one.                                     *)
LEMMA StaysOfDates ==
    ASSUME UntouchedCells, DataInv, phase = "apply",
           NEW c \in DOMAIN snapshot, IsTemporal(snapshot, c), KeepsDates(c)
    PROVE  IsTemporal(table, c)
  <1>1. PICK i \in NonNull(Cells(snapshot, c)) : i \notin Touched(c)
    BY DEF KeepsDates
  <1>2. PICK m \in Nat : \A d \in DOMAIN snapshot : IsColumn(snapshot[d], m)
    BY FrameColumns DEF DataInv, Later
  <1>3. PICK n \in Nat : \A d \in DOMAIN table : IsColumn(table[d], n)
    BY FrameColumns DEF DataInv
  <1>4. Kind(Cells(snapshot, c)[i]) \in Temporal /\ Cells(snapshot, c)[i] # Null
    BY <1>1, <1>2 DEF NonNull, IsColumn, Fits, Cells, IsTemporal
  <1>5. /\ c \in DOMAIN table /\ i \in DOMAIN Cells(table, c)
        /\ Cells(table, c)[i] = Cells(snapshot, c)[i]
    BY <1>1 DEF UntouchedCells, NonNull
  <1>6. Cells(table, c)[i] = Null \/ Kind(Cells(table, c)[i]) = table[c].dtype
    BY <1>3, <1>5 DEF IsColumn, Fits, Cells
  <1> QED
    BY <1>4, <1>5, <1>6 DEF IsTemporal

LEMMA DatesByStrip ==
    ASSUME WorkInv, UntouchedCells, DataInv, StripAll
    PROVE  RepairInv'
  <1>0. /\ UNCHANGED <<anomalies, decisions, snapshot>> /\ phase = "apply"
        /\ pending' = {a \in anomalies : a.type = "DATE_LOGICAL"}
    BY DEF StripAll
  <1>1. \A c : KeepsDates(c)' = KeepsDates(c)
    BY <1>0 DEF KeepsDates, Touched, Accepted, Decided
  <1>2. ASSUME NEW a \in anomalies, a.type = "DATE_LOGICAL", KeepsDates(a.end)
        PROVE  table'[a.end].dtype \in Temporal
    <2>1. a.end \in DOMAIN snapshot /\ IsTemporal(snapshot, a.end)
          /\ DOMAIN table = DOMAIN snapshot
      BY <1>0, <1>2, RowsOfAnomaly DEF IsAnomaly, Later
    <2>2. IsTemporal(table, a.end)
      BY <1>0, <1>2, <2>1, StaysOfDates
    <2>3. ~HasType(table, a.end, "str")
      BY <2>2 DEF IsTemporal, Temporal, HasType
    <2>4. table'[a.end] = table[a.end]
      BY <2>1, <2>3 DEF StripAll
    <2> QED
      BY <2>2, <2>4 DEF IsTemporal
  <1> QED
    BY <1>0, <1>1, <1>2 DEF RepairInv, IsTemporal

(* A repair writes no column that is no end of a pair.                     *)
LEMMA LeavesStarts ==
    ASSUME NEW b \in anomalies, b.type = "DATE_LOGICAL",
           table' = [table EXCEPT ![b.end] = RepairedColumn(table, b)],
           NEW c \in DOMAIN table, c \notin RepairedEnds
    PROVE  table'[c] = table[c]
  <1>1. CASE NamesItsEnd(b)
    BY <1>1 DEF RepairedEnds
  <1>2. CASE ~NamesItsEnd(b)
    BY <1>2 DEF RepairedColumn
  <1> QED
    BY <1>1, <1>2

LEMMA DatesByRepair ==
    ASSUME WorkInv, UntouchedCells, DataInv, RepairInv, NEW b \in anomalies, RepairDates(b)
    PROVE  RepairInv'
  <1>0. /\ UNCHANGED <<anomalies, decisions, snapshot>> /\ phase = "repair" /\ b \in pending
        /\ pending' = pending \ {b} /\ b.type = "DATE_LOGICAL" /\ Later
    BY DEF RepairDates, WorkInv, Later
  <1>1. SUFFICES ASSUME NEW a \in anomalies, a.type = "DATE_LOGICAL", NamesItsEnd(a),
                        KeepsDates(a.end)
                 PROVE  /\ IsTemporal(table', a.end)
                        /\ a \notin pending' /\ a.col \notin RepairedEnds
                           /\ IsTemporal(table', a.col)
                                => Inverted(table', a.col, a.end) = {}
    <2>1. \A c : KeepsDates(c)' = KeepsDates(c)
      BY <1>0 DEF KeepsDates, Touched, Accepted, Decided
    <2>2. RepairedEnds' = RepairedEnds
      BY <1>0 DEF RepairedEnds
    <2> QED
      BY <1>0, <2>1, <2>2 DEF RepairInv, IsTemporal, Inverted, BothDated, Cells
  <1>2. /\ IsTemporal(table, a.end)
        /\ a \notin pending /\ a.col \notin RepairedEnds /\ IsTemporal(table, a.col)
              => Inverted(table, a.col, a.end) = {}
    BY <1>0, <1>1 DEF RepairInv
  <1>3. /\ IsAnomaly(snapshot, a) /\ IsAnomaly(snapshot, b) /\ DOMAIN table = DOMAIN snapshot
    BY <1>0, <1>1, RowsOfAnomaly
  <1>4. PICK n \in Nat : \A c \in DOMAIN table : IsColumn(table[c], n)
    BY FrameColumns DEF DataInv
  <1>5. {a.col, a.end, b.col, b.end} \subseteq DOMAIN table
    BY <1>3 DEF IsAnomaly
  <1>6. table' = [table EXCEPT ![b.end] = RepairedColumn(table, b)]
    BY RepairIsWritten
  <1>7. CASE a.end # b.end
    <2>1. table'[a.end] = table[a.end]
      BY <1>5, <1>6, <1>7
    <2>2. a.col \notin RepairedEnds => table'[a.col] = table[a.col]
      BY <1>0, <1>5, <1>6, LeavesStarts
    <2>3. a \in pending' <=> a \in pending
      BY <1>0, <1>7
    <2> QED
      BY <1>2, <2>1, <2>2, <2>3 DEF IsTemporal, Inverted, BothDated, Cells
  <1>8. CASE a.end = b.end
    <2>1. table'[a.end] = Column(table[a.end].dtype, Repaired(table, b))
      <3>1. NamesItsEnd(b)
        BY <1>1, <1>8 DEF NamesItsEnd
      <3> QED
        BY <1>2, <1>4, <1>5, <1>6, <1>8, <3>1, RepairWrites
    <2>2. IsTemporal(table', a.end) /\ Cells(table', a.end) = Repaired(table, b)
      BY <1>2, <2>1 DEF IsTemporal, Cells, Column
    <2>3. ASSUME a \notin pending', a.col \notin RepairedEnds, IsTemporal(table', a.col),
                 NEW i \in Inverted(table', a.col, a.end)
          PROVE  FALSE
      <3>1. table'[a.col] = table[a.col]
        BY <1>0, <1>5, <1>6, <2>3, LeavesStarts
      <3> DEFINE start == Cells(table, a.col)[i]
                 old == Cells(table, b.end)[i]
                 new == Repaired(table, b)[i]
      <3>2. /\ i \in DOMAIN Cells(table, a.col) /\ start # Null /\ new # Null
            /\ Day(start) > Day(new)
        BY <2>2, <2>3, <3>1 DEF Inverted, BothDated, NonNull, Cells
      <3>3. i \in 1..n /\ IsCell(start) /\ Kind(start) \in Temporal
        BY <1>4, <1>5, <2>3, <3>1, <3>2 DEF IsColumn, Cells, IsTemporal, Fits
      <3>4. Day(start) \in Int /\ IsDate(start) /\ DayOf(start) = Day(start)
        BY <3>3, DayOfTemporal
      <3>5. /\ old # Null /\ Day(old) \in Int /\ Day(new) \in Int /\ Day(old) <= Day(new)
            /\ IsDate(Cells(table, b.col)[i]) => DayOf(Cells(table, b.col)[i]) <= Day(new)
        BY <1>2, <1>4, <1>5, <1>8, <3>2, <3>3, RepairOrders
      <3>6. CASE a = b
        <4>1. Day(start) <= Day(new)
          BY <3>4, <3>5, <3>6
        <4> HIDE DEF start, new
        <4> QED
          BY <3>2, <3>4, <3>5, <4>1
      <3>7. CASE a # b
        <4>1. Inverted(table, a.col, a.end) = {}
          BY <1>0, <1>2, <2>3, <3>1, <3>7 DEF IsTemporal
        <4>2. ~(Day(start) > Day(old))
          BY <1>4, <1>5, <1>8, <3>2, <3>3, <3>5, <4>1
             DEF Inverted, BothDated, NonNull, IsColumn, Cells
        <4> HIDE DEF start, new, old
        <4> QED
          BY <3>2, <3>4, <3>5, <4>2
      <3> QED
        BY <3>6, <3>7
    <2> QED
      BY <2>2, <2>3
  <1> QED
    BY <1>7, <1>8

LEMMA DatesStep ==
    ASSUME WorkInv, UntouchedCells, DataInv, RepairInv, [Next]_vars
    PROVE  RepairInv'
  <1>1. CASE TransformStep \/ DetectAnomalies
    <2>1. Later' => phase' = "done" /\ Decided' # {}
      BY <1>1 DEF TransformStep, DetectAnomalies, Later, Applied, WorkInv, Phases
    <2>2. phase' = "done" => Decided' = {}
      BY <1>1 DEF TransformStep, DetectAnomalies, Decided
    <2> QED
      BY <2>1, <2>2 DEF RepairInv
  <1>2. CASE (\E a \in anomalies : Decide(a) \/ RequestDraft(a)) \/ SubmitDraft
    <2>1. phase' = "review"
      BY <1>2 DEF Decide, RequestDraft, SubmitDraft
    <2> QED
      BY <2>1 DEF RepairInv, Later, Applied
  <1>3. CASE GeminiReplies \/ UNCHANGED vars
    <2>1. UNCHANGED <<phase, table, anomalies, decisions, snapshot, pending>>
      BY <1>3 DEF GeminiReplies, vars
    <2>2. Later' = Later /\ RepairedEnds' = RepairedEnds /\ \A c : KeepsDates(c)' = KeepsDates(c)
      BY <2>1 DEF Later, Applied, RepairedEnds, KeepsDates, Touched, Accepted, Decided
    <2> QED
      BY <2>1, <2>2 DEF RepairInv, IsTemporal, Inverted, BothDated, Cells
  <1>4. CASE EndReview
    <2>1. phase' = "done" => Decided' = {}
      BY <1>4 DEF EndReview, Decided
    <2>2. phase' \in {"done", "apply"}
      BY <1>4 DEF EndReview
    <2> QED
      BY <2>1, <2>2 DEF RepairInv, Later, Applied
  <1>5. CASE \E a \in anomalies : ApplyDecision(a)
    <2>1. phase' \in {"apply", "failed"}
      BY <1>5 DEF ApplyDecision
    <2> QED
      BY <2>1 DEF RepairInv, Later, Applied
  <1>6. CASE StripAll
    BY <1>6, DatesByStrip
  <1>7. CASE \E a \in anomalies : RepairDates(a)
    BY <1>7, DatesByRepair
  <1>8. CASE Finish
    <2>1. /\ UNCHANGED <<table, anomalies, decisions, snapshot, pending>>
          /\ phase = "repair" /\ phase' = "done"
      BY <1>8 DEF Finish
    <2>2. RepairedEnds' = RepairedEnds /\ \A c : KeepsDates(c)' = KeepsDates(c)
      BY <2>1 DEF RepairedEnds, KeepsDates, Touched, Accepted, Decided
    <2> QED
      BY <2>1, <2>2 DEF RepairInv, Later, IsTemporal, Inverted, BothDated, Cells
  <1> QED
    BY <1>1, <1>2, <1>3, <1>4, <1>5, <1>6, <1>7, <1>8 DEF Next

-----------------------------------------------------------------------------

(* CInv is inductive: the work that is left, the draft and the cells.      *)
THEOREM Invariance == Spec => []CInv
  <1>1. Init => CInv
    BY WorkInit, DraftInit, DataInit
       DEF CInv, Init, UntouchedCells, Applied, TypesInv, Later, FailuresExplained, SoloInv, RepairInv
  <1>2. CInv /\ [Next]_vars => CInv'
    BY WorkStep, DraftStep, UntouchedStep, DataStep, TypesStep, FailureStep, SoloStep,
       DatesStep DEF CInv
  <1> QED
    BY <1>1, <1>2, PTL DEF Spec

(* The state of a job is of its type.                                      *)
THEOREM TypeCorrect == Spec => []TypeOK
  <1>1. CInv => TypeOK
    BY DEF CInv, WorkInv, DraftInv, DataInv, TypeOK
  <1> QED
    BY <1>1, Invariance, PTL

(* For any file, any heuristics, any programs, any decisions and any order *)
(* of them: a cell that no accepted decision is about keeps its value, but *)
(* for the blanks around it and the repaired end dates, and no row is lost *)
(* (_apply_decisions).                                                     *)
THEOREM CleaningIsLocal == Spec => []UntouchedCells
  <1>1. CInv => UntouchedCells
    BY DEF CInv
  <1> QED
    BY <1>1, Invariance, PTL

(* For any instruction and any answers of Gemini: a program that is shown  *)
(* to the reviewer is one the API accepts (ParseInstructionUseCase).       *)
THEOREM DraftsAreSound == Spec => []DraftsAreValid
  <1>1. CInv => DraftsAreValid
    BY DEF CInv, DraftInv
  <1> QED
    BY <1>1, Invariance, PTL

(* For any data frame and any transformations: no transformation mixes the *)
(* cells of two rows, and only four of them have fewer rows than before    *)
(* (the handlers of DataTransformer).                                      *)
THEOREM RowsAreNotMixed == Spec => RowsStayTogether
  <1> DEFINE Together ==
        phase = "transform" /\ steps # << >> =>
            LET s == Head(steps)
            IN  /\ s.op \in RowOps \/ DOMAIN table' = {} \/ AllRows(table') = AllRows(table)
                /\ \A i \in AllRows(table') : \E j \in AllRows(table) :
                    \A c \in Unasked(table, s) \cap DOMAIN table' :
                        Cells(table', c)[i] = Cells(table, c)[j]
  <1>1. CInv /\ [Next]_vars => [Together]_vars
    <2> SUFFICES ASSUME CInv, [Next]_vars, phase = "transform", steps # << >>
                 PROVE  Together
      OBVIOUS
    <2>1. IsFrame(table) /\ IsStep(Head(steps))
      <3>1. \A k \in DOMAIN job.steps : IsStep(job.steps[k])
        BY JobsAssumption DEF CInv, WorkInv
      <3>2. steps \in Seq({job.steps[k] : k \in DOMAIN job.steps})
        BY DEF CInv, DataInv
      <3>3. Head(steps) \in {job.steps[k] : k \in DOMAIN job.steps}
        BY <3>2
      <3> QED
        BY <3>1, <3>3 DEF CInv, DataInv
    <2>2. table' \in Outcomes(table, Head(steps)) \/ table' = table
      BY DEF CInv, DraftInv, NoDraft, Next, TransformStep, DetectAnomalies, Decide, RequestDraft,
             ApplyDecision, RepairDates, GeminiReplies, GeminiAnswers, GeminiFails, SubmitDraft,
             EndReview, StripAll, Finish, vars
    <2>3. CASE table' = table
      BY <2>3
    <2>4. CASE table' \in Outcomes(table, Head(steps))
      <3>1. Keeps(table, Head(steps), table')
        BY <2>1, <2>4, OutcomesKeep
      <3> QED
        BY <3>1 DEF Keeps, RowsKept, SameHeight
    <2> QED
      BY <2>2, <2>3, <2>4
  <1>2. Spec => [][Together]_vars
    BY <1>1, Invariance, PTL DEF Spec
  <1> QED
    BY <1>2 DEF RowsStayTogether

(* For any data frame the job's transformations can make: every record of  *)
(* the detection is found again in at least as many rows, but for five     *)
(* kinds: gaps, blanks, columns that do not vary, copies that were marked  *)
(* before, and inverted dates of two dtypes or with an apostrophe in the   *)
(* end's name (_detect_anomalies and the finders of _apply_decisions).     *)
THEOREM EveryRecordIsFound == Spec => []DetectedIsFindable
  <1>1. CInv => DetectedIsFindable
    BY DetectReliable DEF CInv, DataInv, DetectedIsFindable, Reliable
  <1> QED
    BY <1>1, Invariance, PTL

(* For any job: it fails only for a step of the chain, a detection that    *)
(* cannot read a column, copies marked among numbers, an infinite text     *)
(* entered for a column of numbers, or a program that aggregates texts or  *)
(* makes a whole number of an infinite one, and never for a suggestion of  *)
(* the detection (ProcessDatasetUseCase.execute).                          *)
THEOREM FailuresHaveAReason == Spec => []FailuresExplained
  <1>1. CInv => FailuresExplained
    BY DEF CInv
  <1> QED
    BY <1>1, Invariance, PTL

(* For any decisions and any order of them: a text that one accepted       *)
(* decision alone is about ends as that decision would leave it            *)
(* (_apply_decisions: what the finders return is counted in the snapshot). *)
THEOREM DecisionsDoNotMix == Spec => []SoloEffect
  <1>1. CInv => SoloEffect
    <2> SUFFICES ASSUME CInv, phase = "done", Applied,
                        NEW a \in Accepted, decisions[a].kind # "ir",
                        HasType(snapshot, a.col, "str"), NEW i \in Affected(snapshot, a),
                        \A b \in Accepted \ {a} : b.col = a.col => i \notin Affected(snapshot, b),
                        NEW alone \in Effect(snapshot, snapshot, a, decisions[a])
                 PROVE  Cells(table, a.col)[i] = Stripped(alone.cells[i])
      BY DEF SoloEffect
    <2>1. a \in anomalies /\ decisions[a].kind # "discarded"
      BY DEF Accepted, Decided
    <2>2. Later /\ a \in OnItsOwn /\ i \in Alone(a)
      BY DEF Later, OnItsOwn, Alone
    <2>3. SoloCell(a, i)
      BY <2>2 DEF CInv, SoloInv
    <2>4. PICK n \in Nat : IsColumn(snapshot[a.col], n) /\ i \in 1..n
      BY <2>1, <2>2, RowsOfAnomaly DEF CInv
    <2>5. alone.cells[i] = CellEffect(a, decisions[a], snapshot[a.col].cells[i])
      BY <2>1, <2>4, EffectOnCell
    <2> QED
      BY <2>3, <2>5 DEF SoloCell, Cells
  <1> QED
    BY <1>1, Invariance, PTL

(* For any decisions and any order of them: of the rows that say the same, *)
(* the first keeps its text and every further one is marked, where no      *)
(* other decision is about the row (the finder of duplicates and the       *)
(* suffix _DUP).                                                           *)
THEOREM FirstOfCopiesIsKept == Spec => []FirstIsKept
  <1>1. CInv => FirstIsKept
    <2> SUFFICES ASSUME CInv, phase = "done", Applied,
                        NEW a \in Accepted, a.type = "DUPLICATE",
                        NEW i \in NonNull(Cells(snapshot, a.col))
                                    \ UNION {Affected(snapshot, b) :
                                                b \in {e \in Accepted \ {a} : e.col = a.col}}
                 PROVE  LET c == a.col
                            before == Cells(snapshot, c)
                            x == Cells(table, c)[i]
                            earlier == {j \in NonNull(before) : j < i}
                        IN  /\ (\A j \in earlier : CopyKey(c, before[j]) # CopyKey(c, before[i]))
                                    => x = Stripped(before[i])
                            /\ (\E j \in earlier : RawKey(c, before[j]) = RawKey(c, before[i]))
                                    => Marked(x)
      BY DEF FirstIsKept
    <2> DEFINE c == a.col
               before == Cells(snapshot, c)
               x == Cells(table, c)[i]
    <2>1. a \in anomalies /\ Later /\ UntouchedCells /\ DataInv
      BY DEF Accepted, Decided, Later, CInv
    <2>2. PICK n \in Nat : /\ c \in DOMAIN table /\ DOMAIN table = DOMAIN snapshot
                           /\ IsColumn(table[c], n) /\ IsColumn(snapshot[c], n)
                           /\ IsAnomaly(snapshot, a)
      BY <2>1, RowsOfAnomaly
    <2>3. i \in 1..n /\ IsCell(before[i]) /\ before[i] # Null /\ IsFrame(snapshot)
      BY <2>1, <2>2 DEF NonNull, IsColumn, Cells, DataInv
    <2>4. Affected(snapshot, a) = DuplicateRows(snapshot, c)
      BY DEF Affected
    <2>5. i \notin DuplicateRows(snapshot, c) => x = Stripped(before[i])
      <3> SUFFICES ASSUME i \notin DuplicateRows(snapshot, c)
                   PROVE  x = Stripped(before[i])
        OBVIOUS
      <3>1. i \notin Touched(c)
        BY <2>4 DEF Touched
      <3>2. c \notin RepairedEnds
        <4>1. ~IsTemporal(snapshot, c)
          BY <2>2 DEF IsAnomaly
        <4>2. ASSUME NEW b \in anomalies, b.type = "DATE_LOGICAL"
              PROVE  IsTemporal(snapshot, b.end)
          BY <2>1, <4>2, RowsOfAnomaly DEF IsAnomaly
        <4> QED
          BY <4>1, <4>2 DEF RepairedEnds
      <3>3. x = IF HasType(table, c, "str") THEN Stripped(before[i]) ELSE before[i]
        BY <2>1, <2>2, <2>3, <3>1, <3>2 DEF UntouchedCells, IsColumn, Cells
      <3>4. ~HasType(table, c, "str") => Stripped(before[i]) = before[i]
        <4> SUFFICES ASSUME ~HasType(table, c, "str")
                     PROVE  ~IsStr(before[i])
          BY DEF Stripped
        <4>1. ~HasType(snapshot, c, "str")
          BY <2>1, <2>2 DEF CInv, TypesInv, HasType, IsTemporal, Temporal, IsAnomaly
        <4>2. Kind(before[i]) = snapshot[c].dtype
          BY <2>2, <2>3 DEF IsColumn, Fits, Cells
        <4> QED
          BY <4>1, <4>2 DEF HasType, IsStr
      <3> QED
        BY <3>3, <3>4
    <2>6. i \in DuplicateRows(snapshot, c) => x = Stripped(WithSuffix(before[i]))
      <3> SUFFICES ASSUME i \in DuplicateRows(snapshot, c)
                   PROVE  x = Stripped(WithSuffix(before[i]))
        OBVIOUS
      <3>1. a \in OnItsOwn /\ i \in Alone(a)
        BY <2>4 DEF OnItsOwn, Alone
      <3>2. SoloCell(a, i)
        BY <2>1, <3>1 DEF CInv, SoloInv
      <3> QED
        BY <3>2 DEF SoloCell, CellEffect
    <2>7. (\A j \in NonNull(before) : j < i => CopyKey(c, before[j]) # CopyKey(c, before[i]))
            => x = Stripped(before[i])
      BY <2>5 DEF DuplicateRows
    <2>8. ASSUME NEW j \in NonNull(before), j < i, RawKey(c, before[j]) = RawKey(c, before[i])
          PROVE  Marked(x)
      <3> HIDE DEF x
      <3>1. Marked(before[i]) \/ i \in DuplicateRows(snapshot, c)
        BY <2>2, <2>3, <2>8, UnmarkedIsCopy
      <3>2. i \in DuplicateRows(snapshot, c) => Marked(x)
        BY <2>3, <2>6, SuffixMarks, MarkLasts
      <3>3. i \notin DuplicateRows(snapshot, c) => Marked(x)
        BY <2>3, <2>5, <3>1, MarkLasts
      <3> QED
        BY <3>2, <3>3
    <2> QED
      BY <2>7, <2>8
  <1> QED
    BY <1>1, Invariance, PTL

(* For any decisions and any order of them: when the job is done no end    *)
(* lies a day before its start in a pair of columns that was found         *)
(* inverted, be they of dates or of moments, unless the start was repaired *)
(* after it, the end lost all its dates or has an apostrophe in its name   *)
(* (_apply_decisions: the repair of dates, whatever was decided).          *)
THEOREM DatesAreOrdered == Spec => []DatesOrdered
  <1>1. CInv => DatesOrdered
    BY DEF CInv, RepairInv, WorkInv, DatesOrdered, Later
  <1> QED
    BY <1>1, Invariance, PTL

=============================================================================
