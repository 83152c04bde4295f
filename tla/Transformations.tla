---------------------------- MODULE Transformations ----------------------------
(***************************************************************************)
(* DataTransformer: the transformations a job can ask for before its       *)
(* anomalies are detected.  A step is a record with its op, the columns    *)
(* asked for (none means all) and its parameters.  Outcomes(t, s) is the   *)
(* set of tables a handler may return; it is empty when the handler        *)
(* raises.  A set, because df.unique() keeps no row order and because the  *)
(* order of texts is not part of the model.                                *)
(***************************************************************************)
EXTENDS Detection

(* _get_columns.                                                           *)
Chosen(t, s) == IF s.cols = {} THEN DOMAIN t ELSE s.cols
Unknown(t, s) == s.cols \ DOMAIN t # {}
TextColumns(t, s) == {c \in Chosen(t, s) : HasType(t, c, "str")}

(* A table with some columns' cells mapped, and one with some of its rows. *)
MapCells(t, cols, F(_)) ==
    [c \in DOMAIN t |->
        IF c \in cols
        THEN Column(t[c].dtype, [i \in AllRows(t) |-> IF Cells(t, c)[i] = Null THEN Null
                                                      ELSE F(Cells(t, c)[i])])
        ELSE t[c]]

(* Mutant: only one column follows the order.                              *)
InOrder_Column(t, order) ==
    [c \in DOMAIN t |-> Column(t[c].dtype,
        [j \in DOMAIN order |-> Cells(t, c)[IF c = "edad" THEN order[j] ELSE j]])]

InOrder(t, order) ==
    [c \in DOMAIN t |-> Column(t[c].dtype, [j \in DOMAIN order |-> Cells(t, c)[order[j]]])]
Nth(rows, j) == CHOOSE i \in rows : Cardinality({h \in rows : h < i}) = j - 1
OnlyRows(t, rows) == InOrder(t, [j \in 1..Cardinality(rows) |-> Nth(rows, j)])

(* A cast is strict: a text that is not a number raises, and so does a day *)
(* that is no 32-bit number.                                               *)
Written(x, shape) == IsStr(x) /\ Shape(x) = shape /\ ~Val(x).pad
IsoWritten(x) == Written(x, "isodate") \/ Written(x, "isomoment")
IsNumber(x) == Kind(x) = "num" /\ Val(x) \in Int
IsDay(x) == IsNumber(x) /\ Val(x) \div 2^30 \in -2..1
Castable(x, target) ==
    \/ x = Null \/ target = "str" \/ Kind(x) = target
    \/ target = "num" /\ (Kind(x) \in Temporal \cup {"bool"} \/ Written(x, "digits"))
    \/ target = "date" /\ (IsDay(x) \/ Kind(x) = "datetime" \/ Written(x, "isodate"))
    \/ target = "datetime" /\ (IsNumber(x) \/ Kind(x) = "date" \/ IsoWritten(x))
    \/ target = "bool" /\ (Kind(x) = "num" \/ Written(x, "true") \/ Written(x, "false"))
HalfDaysOf(x) ==
    IF Written(x, "isomoment") THEN Val(x).k
    ELSE IF IsStr(x) THEN HalfDays * Val(x).k
    ELSE IF Kind(x) = "date" THEN HalfDays * Val(x)
    ELSE Val(x)
CastTo(x, target) ==
    IF x = Null \/ Kind(x) = target THEN x
    ELSE CASE target = "str" -> Text(x)
           [] target = "bool" -> Bool(IF IsStr(x) THEN Shape(x) = "true" ELSE Val(x) # 0)
           [] target = "date" -> Date(IF IsStr(x) THEN Val(x).k ELSE Day(x))
           [] target = "datetime" -> Moment(HalfDaysOf(x))
           [] OTHER -> <<target, IF IsStr(x) THEN Val(x).k
                                 ELSE IF Kind(x) = "bool" THEN IF Val(x) THEN 1 ELSE 0
                                 ELSE Val(x)>>

(* A column of values of several types becomes one of texts when there is  *)
(* a text among them, of moments when all are of dates or of moments, and  *)
(* of numbers otherwise.                                                   *)
Coerced(types, cells) ==
    LET dtype == IF \E d \in types : types = {d} THEN CHOOSE d \in types : TRUE
                 ELSE IF "str" \in types THEN "str"
                 ELSE IF types \subseteq Temporal THEN "datetime"
                 ELSE "num"
    IN  Column(dtype, [i \in DOMAIN cells |-> CastTo(cells[i], dtype)])

-----------------------------------------------------------------------------
(* The handlers.                                                           *)

CleanNulls(t, s) ==
    {OnlyRows(t, {i \in AllRows(t) : \A c \in Chosen(t, s) : Cells(t, c)[i] # Null})}

(* The mean of dates is a moment, and so is their median.                  *)
Between(dtype, v) == IF dtype = "date" THEN Midnight(v) ELSE <<dtype, v>>
Filler(cells, dtype, s, i) ==
    LET full == NonNull(cells)
        before == {j \in full : j < i}
        after == {j \in full : j > i}
    IN  CASE s.strategy = "literal" -> s.value
          [] s.strategy = "mean" /\ dtype \in Temporal \cup {"num"} /\ full # {} ->
                Between(dtype, Mean(cells))
          [] s.strategy = "median" /\ dtype \in Temporal \cup {"num"} /\ full # {} ->
                Between(dtype, Median(cells))
          [] s.strategy = "forward" /\ before # {} -> cells[Max(before)]
          [] s.strategy = "backward" /\ after # {} -> cells[Min(after)]
          [] OTHER -> Null

Literals(s) == IF s.strategy = "literal" /\ s.value # Null THEN {Kind(s.value)} ELSE {}

FillTypes(dtype, s) ==
    {dtype} \cup Literals(s)
    \cup (IF s.strategy \in {"mean", "median"} /\ dtype = "date" THEN {"datetime"} ELSE {})

FillNulls(t, s) ==
    {[c \in DOMAIN t |->
        IF c \in Chosen(t, s)
        THEN Coerced(FillTypes(t[c].dtype, s),
                     Replace(Cells(t, c), Nulls(Cells(t, c)),
                             LAMBDA i : Filler(Cells(t, c), t[c].dtype, s, i)))
        ELSE t[c]]}

TrimWhitespace(t, s) ==
    {MapCells(t, TextColumns(t, s), LAMBDA x : IF BlankShaped(x) THEN Empty ELSE Unpadded(x))}
Uppercase(t, s) == {MapCells(t, TextColumns(t, s), Upper)}
Lowercase(t, s) == {MapCells(t, TextColumns(t, s), Lower)}

(* keep is the occurrence that stays, or none of them.                     *)
RemoveDuplicates(t, s) ==
    LET same(i, j) == \A c \in Chosen(t, s) : Cells(t, c)[i] = Cells(t, c)[j]
        kept == {i \in AllRows(t) : \A j \in AllRows(t) \ {i} :
                    same(i, j) => \/ s.keep = "first" /\ i < j
                                  \/ s.keep = "last" /\ i > j}
        n == Cardinality(kept)
    IN  {InOrder(t, o) : o \in {f \in [1..n -> kept] : \A i, j \in 1..n : f[i] = f[j] => i = j}}

ConvertType(t, s) ==
    LET cols == Chosen(t, s)
    IN  IF \E c \in cols : \E i \in AllRows(t) : ~Castable(Cells(t, c)[i], s.target) THEN {}
        ELSE {[c \in DOMAIN t |->
                IF c \in cols
                THEN Column(s.target, [i \in AllRows(t) |-> CastTo(Cells(t, c)[i], s.target)])
                ELSE t[c]]}

RenameColumn(t, s) ==
    LET old == DOMAIN s.mapping
        newName(c) == IF c \in old THEN s.mapping[c] ELSE c
        names == {newName(c) : c \in DOMAIN t}
    IN  IF \/ old = {} \/ ~(old \subseteq DOMAIN t)
           \/ Cardinality(names) < Cardinality(DOMAIN t)
        THEN {}
        ELSE {[n \in names |-> t[CHOOSE c \in DOMAIN t : newName(c) = n]]}

DropColumn(t, s) == {[c \in DOMAIN t \ Chosen(t, s) |-> t[c]]}

Matches(x, s) ==
    IF s.operator = "is_null" THEN x = Null
    ELSE x # Null /\ CASE s.operator = "not_null" -> TRUE
                       [] s.operator = "eq" -> x = s.value
                       [] s.operator = "ne" -> x # s.value
                       [] s.operator = "contains" -> Unpadded(x) = Unpadded(s.value)
                       [] s.operator = "gt" -> Val(x) > Val(s.value)
                       [] s.operator = "gte" -> Val(x) >= Val(s.value)
                       [] s.operator = "lt" -> Val(x) < Val(s.value)
                       [] OTHER -> Val(x) <= Val(s.value)

FilterRows(t, s) ==
    LET c == s.column
    IN  IF \/ c \notin DOMAIN t
           \/ s.operator = "contains" /\ ~HasType(t, c, "str")
           \/ s.operator \notin {"is_null", "not_null", "contains"} /\ Kind(s.value) # t[c].dtype
        THEN {}
        ELSE {OnlyRows(t, {i \in AllRows(t) : Matches(Cells(t, c)[i], s)})}

(* A value the mapping does not name becomes the default, null when none   *)
(* is given; so does a null.  The column takes the type of the new values. *)
NewTypes(s) ==
    {Kind(x) : x \in {s.mapping[y] : y \in DOMAIN s.mapping} \cup {s.default}} \ {"null"}

MapValues(t, s) ==
    LET map(x) == IF x \in DOMAIN s.mapping THEN s.mapping[x] ELSE s.default
        types(c) == IF NewTypes(s) = {} THEN {t[c].dtype} ELSE NewTypes(s)
    IN  IF DOMAIN s.mapping = {} THEN {}
        ELSE {[c \in DOMAIN t |->
                IF c \in Chosen(t, s)
                THEN Coerced(types(c), [i \in AllRows(t) |-> map(Cells(t, c)[i])])
                ELSE t[c]]}

(* Values of different types meet: polars coerces them, or raises.         *)
Mistyped(t, s) ==
    \/ /\ s.op = "FILL_NULLS"
       /\ \E c \in Chosen(t, s) \cap DOMAIN t : ~(Literals(s) \subseteq {t[c].dtype})
    \/ /\ s.op = "MAP_VALUES"
       /\ \/ Cardinality(NewTypes(s)) > 1
          \/ \E c \in Chosen(t, s) \cap DOMAIN t : \E x \in DOMAIN s.mapping : Kind(x) # t[c].dtype

(* With a format, a text of another form becomes null, or raises when the  *)
(* step is strict; without one, the first format all texts have is used.   *)
NormalizeDates(t, s) ==
    LET iso(x) == Str("isodate", Val(x).k)
        all(c, shape) == \A i \in NonNull(Cells(t, c)) : Written(Cells(t, c)[i], shape)
        cols == TextColumns(t, s)
        auto == {c \in cols : \E shape \in {"isodate", "slashdate"} : all(c, shape)}
    IN  IF s.format = "auto" THEN {MapCells(t, auto, iso)}
        ELSE IF s.strict /\ \E c \in cols : ~all(c, s.format) THEN {}
        ELSE {MapCells(t, cols, LAMBDA x : IF Written(x, s.format) THEN iso(x) ELSE Null)}

(* Nothing is cast; a strict step raises on a mismatch.                    *)
ValidateTypes(t, s) ==
    LET mismatch(c) == IF c \in DOMAIN t THEN t[c].dtype # s.expected[c] ELSE TRUE
    IN  IF \/ DOMAIN s.expected = {}
           \/ s.strict /\ \E c \in DOMAIN s.expected : mismatch(c)
        THEN {} ELSE {t}

Extreme(cells, method) ==
    IF method = "iqr"
    THEN BeyondFence(Values(cells), NonNull(cells), Quartile(cells, 1), Quartile(cells, 3))
    ELSE IF Size(cells) < 2 \/ Spread(cells) = 0 THEN {}
    ELSE LET dist(i) == Size(cells) * Val(cells[i]) - Total(cells)
         IN  {i \in NonNull(cells) :
                (Size(cells) - 1) * dist(i) * dist(i) > 9 * Size(cells) * Spread(cells)}

(* A null cell compares to null, and a row whose mask is null is filtered  *)
(* out with the outliers.  The quartiles of a column without values are    *)
(* None, and their difference raises.                                      *)
DetectOutliers(t, s) ==
    LET cols == {c \in Chosen(t, s) : HasType(t, c, "num")}
        out(c) == Extreme(Cells(t, c), s.method)
        unclear(c) == IF s.method = "iqr" \/ Spread(Cells(t, c)) # 0
                      THEN Nulls(Cells(t, c)) ELSE {}
        flag(c) == Column("bool", [i \in AllRows(t) |-> IF i \in unclear(c) THEN Null
                                                         ELSE Bool(i \in out(c))])
        flags == {s.flag[c] : c \in cols}
    IN  IF s.method = "iqr" /\ \E c \in cols : NonNull(Cells(t, c)) = {} THEN {}
        ELSE IF s.action = "remove"
        THEN {OnlyRows(t, AllRows(t) \ UNION {out(c) \cup unclear(c) : c \in cols})}
        ELSE {[n \in DOMAIN t \cup flags |->
                IF n \in flags THEN flag(CHOOSE c \in cols : s.flag[c] = n) ELSE t[n]]}

(* Labels number the texts in their order; one-hot makes a column of every *)
(* text of a column, but the first when drop_first, in the column's place. *)
(* dummy names those columns; it names none that is encoded.               *)
EncodeLabel(t, s) ==
    LET cols == TextColumns(t, s)
        texts == UNION {Uniq(Cells(t, c)) : c \in cols}
        label(c, order, x) == Cardinality({y \in Uniq(Cells(t, c)) : order[y] < order[x]})
        orders == {o \in [texts -> 1..Cardinality(texts)] :
                    \A x, y \in texts : o[x] = o[y] => x = y}
    IN  {[c \in DOMAIN t |->
            IF c \in cols
            THEN Column("num", [i \in AllRows(t) |->
                    IF Cells(t, c)[i] = Null THEN Null ELSE Num(label(c, o, Cells(t, c)[i]))])
            ELSE t[c]] : o \in orders}

OneHot(t, cols, texts, dummy) ==
    LET made == UNION {{dummy[c][x] : x \in texts[c]} : c \in cols}
        hot(c, x) == Column("num", [i \in AllRows(t) |->
                        IF Cells(t, c)[i] = Null THEN Null
                        ELSE Num(IF Cells(t, c)[i] = x THEN 1 ELSE 0)])
        for(n) == CHOOSE p \in cols \X UNION {texts[c] : c \in cols} :
                      p[2] \in texts[p[1]] /\ dummy[p[1]][p[2]] = n
    IN  [n \in (DOMAIN t \ cols) \cup made |->
            IF n \in made THEN hot(for(n)[1], for(n)[2]) ELSE t[n]]

EncodeOneHot(t, s) ==
    LET cols == TextColumns(t, s)
        texts(c) == Uniq(Cells(t, c))
        firsts == {f \in [cols -> {Null} \cup UNION {texts(c) : c \in cols}] :
                    \A c \in cols : texts(c) # {} => f[c] \in texts(c)}
    IN  {OneHot(t, cols, [c \in cols |-> IF s.dropFirst THEN texts(c) \ {f[c]} ELSE texts(c)],
                s.dummy) : f \in firsts}

TransformationTypes ==
    {"CLEAN_NULLS", "FILL_NULLS", "TRIM_WHITESPACE", "UPPERCASE", "LOWERCASE",
     "REMOVE_DUPLICATES", "CONVERT_TYPE", "RENAME_COLUMN", "DROP_COLUMN", "FILTER_ROWS",
     "MAP_VALUES", "NORMALIZE_DATES", "VALIDATE_TYPES", "DETECT_OUTLIERS",
     "ENCODE_CATEGORICALS"}

(* A step is asked for with its parameters: what it writes are cells.      *)
IsStep(s) ==
    /\ s.op \in TransformationTypes
    /\ s.op = "FILL_NULLS" => IsCell(s.value)
    /\ s.op = "CONVERT_TYPE" => s.target \in {"num", "date", "datetime", "bool", "str"}
    /\ s.op = "MAP_VALUES" => IsCell(s.default) /\ \A x \in DOMAIN s.mapping : IsCell(s.mapping[x])
    /\ s.op = "NORMALIZE_DATES" => s.format \in {"auto", "isodate", "slashdate"}

Outcomes(t, s) ==
    IF s.op \notin {"RENAME_COLUMN", "FILTER_ROWS", "VALIDATE_TYPES"} /\ Unknown(t, s) THEN {}
    ELSE CASE s.op = "CLEAN_NULLS" -> CleanNulls(t, s)
           [] s.op = "FILL_NULLS" -> FillNulls(t, s)
           [] s.op = "TRIM_WHITESPACE" -> TrimWhitespace(t, s)
           [] s.op = "UPPERCASE" -> Uppercase(t, s)
           [] s.op = "LOWERCASE" -> Lowercase(t, s)
           [] s.op = "REMOVE_DUPLICATES" -> RemoveDuplicates(t, s)
           [] s.op = "CONVERT_TYPE" -> ConvertType(t, s)
           [] s.op = "RENAME_COLUMN" -> RenameColumn(t, s)
           [] s.op = "DROP_COLUMN" -> DropColumn(t, s)
           [] s.op = "FILTER_ROWS" -> FilterRows(t, s)
           [] s.op = "MAP_VALUES" -> MapValues(t, s)
           [] s.op = "NORMALIZE_DATES" -> NormalizeDates(t, s)
           [] s.op = "VALIDATE_TYPES" -> ValidateTypes(t, s)
           [] s.op = "DETECT_OUTLIERS" -> DetectOutliers(t, s)
           [] s.op = "ENCODE_CATEGORICALS" ->
                IF s.encoding = "label" THEN EncodeLabel(t, s) ELSE EncodeOneHot(t, s)

=============================================================================
