--------------------------- MODULE MCDatasetCleaning ---------------------------
(***************************************************************************)
(* Instances of DatasetCleaning for TLC: small files with the faults the   *)
(* heuristics look for, one or two to a file so that decisions interact,   *)
(* and chains of transformations.                                          *)
(***************************************************************************)
EXTENDS DatasetCleaningInvariants

MCNames == {"codigo", "apellido", "correo", "telefono", "nombre", "direccion", "edad",
            "ciudad", "inicio", "desde", "fin", "fin d'obra", "alta", "pais", "edad_outlier", "ciudad_a", "ciudad_b"}

(* apellido contains the keyword id, as well as being one of a name.       *)
MCWords ==
    [c \in MCNames |->
        CASE c = "codigo" -> {"id"} [] c = "apellido" -> {"id", "name"}
          [] c = "correo" -> {"email"} [] c = "telefono" -> {"phone"}
          [] c = "nombre" -> {"name"} [] c = "direccion" -> {"address"}
          [] c \in {"inicio", "desde"} -> {"start"} [] c \in {"fin", "alta"} -> {"end"}
          [] c = "fin d'obra" -> {"end", "apostrophe"}
          [] OTHER -> {}]

Nums(s) == Column("num", [i \in DOMAIN s |-> Num(s[i])])
Texts(s) == Column("str", s)
Days(s) == Column("date", [i \in DOMAIN s |-> Date(s[i])])
Moments(s) == Column("datetime", [i \in DOMAIN s |-> Moment(s[i])])
With(column, i) == [column EXCEPT !.cells[i] = Null]
Frame(c, column) == [n \in {c} |-> column]
Repeat(x, n) == [i \in 1..n |-> x]

A == Str("text", 1)
B == Str("text", 2)
Inf == Str("infinite", 1)

-----------------------------------------------------------------------------
(* Programs.                                                               *)

Literal(x) == [kind |-> "literal", value |-> x]
Col(c) == [kind |-> "column", column |-> c]
Agg(c, agg) == [kind |-> "aggregate", column |-> c, agg |-> agg]
Test(op, left, right) == [op |-> op, left |-> left, right |-> right]
FillWith(x) == [op |-> "FILL_LITERAL", value |-> x]
FillAgg(agg) == [op |-> "FILL_AGGREGATE", agg |-> agg]
Copy(c) == [op |-> "FILL_FROM_COLUMN", sourceColumn |-> c]
KeepRows == [op |-> "KEEP"]
Delete == [op |-> "DELETE_ROWS"]

IfThenElse(cond, then, else) ==
    [p \in {<< >>, <<"then">>, <<"else">>} |->
        CASE p = << >> -> [op |-> "CONDITIONAL", condition |-> cond]
          [] p = <<"then">> -> then [] OTHER -> else]
Mapped(fn, by, input) ==
    [p \in {<< >>, <<"input">>} |->
        IF p = << >> THEN [op |-> "TRANSFORM", fn |-> fn, by |-> by] ELSE input]
TooDeep ==
    [p \in {SubSeq(<<"input", "input", "input", "input">>, 1, k) : k \in 0..4} |->
        IF Len(p) = 4 THEN KeepRows ELSE [op |-> "TRANSFORM", fn |-> "trim", by |-> Null]]

Below100 == Test("lt", Col("edad"), Literal(Num(100)))
KeepBelow100 == IfThenElse(Below100, KeepRows, FillWith(Num(100)))

-----------------------------------------------------------------------------
(* Jobs.                                                                   *)

Review(file, texts, programs) ==
    [table |-> file, steps |-> << >>, texts |-> texts, programs |-> programs,
     instructions |-> {}]
Instructed(j, instructions) == [j EXCEPT !.instructions = instructions]
Transforming(file, chain) == [Review(file, {}, {}) EXCEPT !.steps = chain]

Ages == <<30, 31, 32, 33, 34, 35, 36, 60, 500>>

NumberJobs ==
    { Review(Frame("edad", Nums(Ages)), {Digits(40), A},
          {KeepBelow100, IfThenElse(Below100, Delete, KeepRows), Leaf(Delete), TooDeep,
           IfThenElse([op |-> "between", left |-> Col("edad"), right |-> Literal(Num(50)),
                       upper |-> Literal(Num(90))], FillAgg("min"), Copy("edad")),
           IfThenElse(Test("gt", Col("edad"), Agg("edad", "mean")), FillAgg("max"), FillAgg("sum")),
           IfThenElse(Test("eq", Col("edad"), Literal(A)), KeepRows, Delete),
           Mapped("multiply", Num(2), Copy("edad")), Mapped("divide", Num(0), Copy("edad")),
           Mapped("subtract", Num(1), FillAgg("median")), Mapped("upper", Null, Copy("edad")),
           Leaf(Copy("pais"))}),
      Review(Frame("edad", With(With(With(Nums(<<30, 31, 33, 34, 35, 36, 40, 500, 0, 0, 0>>), 9),
                                10), 11)), {Digits(34)},
          {Leaf(FillAgg("mean")),
           IfThenElse(Test("gte", Col("edad"), Literal(Num(100))), FillWith(Num(99)), Copy("edad"))}),
      Review(Frame("edad", Nums(Repeat(10, 10) \o <<1000>>)), {Digits(40)}, {}),
      Review(Frame("edad", Nums(Repeat(500, 11))), {Digits(40)}, {}),
      Review(Frame("edad", With(Nums(<<0, 7>>), 2)), {Inf},
          {Leaf(FillWith(Inf)), Mapped("floor", Null, FillWith(Num(3))),
           IfThenElse(Test("lt", Col("edad"), Literal(Inf)), FillWith(Num(9)), FillWith(Num(8)))}),
      Review(Frame("edad", Nums(Repeat(100, 5) \o <<1, 2, 3, 4, 5>>)), {Digits(40)}, {}),
      Review(Frame("codigo", Nums(<<1, 2, 2, 4, 5>>)), {A}, {}),
      Review(Frame("telefono", Nums(<<1, 2, 3, 4>>)), {}, {}) }

TextJobs ==
    { Review(Frame("codigo", Texts(<<Seq4(1), Seq4(2), Seq4(2), Seq4(4), Seq4(5)>>)), {A}, {}),
      Review(Frame("apellido", Texts(<<A, WithDup(B), B, Str("email", 1), Str("text", 5)>>)), {A}, {}),
      Review(Frame("apellido", Texts(<<WithDup(A), A, B, B, Str("text", 5)>>)), {A}, {}),
      Review(Frame("apellido", Texts(<<WithDup(A), WithDup(A), A, B, Str("text", 5)>>)), {A}, {}),
      Review([c \in {"ciudad", "edad"} |-> IF c = "edad" THEN With(Nums(<<0>>), 1)
                                           ELSE With(Texts(<<A>>), 1)], {B},
          {IfThenElse(Test("eq", Col("ciudad"), Agg("edad", "max")), KeepRows, FillWith(B)),
           Mapped("ceil", Null, FillWith(Inf))}),
      Review(Frame("correo", Texts(<<Str("email", 1), Upper(Str("email", 1)), Padded(Str("email", 2)),
                                     Str("email", 3), B, Null>>)), {A}, {}),
      Review(Frame("nombre", Texts(<<A, Padded(B), NullText, Str("blank", 1), Str("email", 1),
                                     Str("isodate", 737300)>>)), {B}, {}),
      Review(Frame("telefono", Texts(<<Str("phone", 1), Str("email", 1), Padded(Str("digits", 77)),
                                       Str("street", 1)>>)), {Str("phone", 2)}, {}),
      Review(Frame("direccion", Texts(<<Str("street", 1), Str("email", 1), Seq4(7),
                                        NoneText, Null>>)), {A}, {}),
      Review(Frame("direccion", Texts(<<Str("locality", 1), Seq4(7)>>)), {A}, {}),
      Review(Frame("nombre", Texts(<<Str("locality", 1), Str("phone", 1), A, B>>)), {A}, {}),
      Review(Frame("codigo", Texts(<<Seq4(1), Seq4(2), Seq4(3), Seq4(4), Seq4(500)>>)), {A}, {}),
      Review(Frame("codigo", Texts(<<Seq4(1), Seq4(2), Seq4(3), Seq4(5)>>)), {A}, {}),
      Review(Frame("ciudad", Texts(Repeat(A, 20) \o <<B>>)), {B}, {}),
      Review([c \in {"ciudad", "edad"} |-> IF c = "edad" THEN With(Nums(<<1, 2, 3>>), 2)
                                           ELSE Texts(<<A, A, Null>>)], {Digits(7), B},
          {IfThenElse(Test("eq", Col("ciudad"), Agg("ciudad", "mode")), FillWith(B), KeepRows),
           IfThenElse([op |-> "is_null", left |-> Col("edad")], FillWith(Num(9)), KeepRows),
           IfThenElse(Test("contains", Col("ciudad"), Literal(A)), Delete, FillAgg("mode")),
           Mapped("trim", Null, Copy("ciudad"))}),
      Review([c \in {"ciudad", "edad"} |-> IF c = "edad" THEN With(Nums(<<0, 7>>), 2)
                                           ELSE Texts(<<Inf, Null>>)], {Inf},
          {Mapped("floor", Null, Copy("ciudad")),
           Mapped("add", Num(1), Copy("ciudad")), Mapped("divide", Num(0), Copy("ciudad")),
           [p \in {SubSeq(<<"input", "input">>, 1, k) : k \in 0..2} |->
                CASE Len(p) = 0 -> [op |-> "TRANSFORM", fn |-> "upper", by |-> Null]
                  [] Len(p) = 1 -> [op |-> "TRANSFORM", fn |-> "abs", by |-> Null]
                  [] OTHER -> FillWith(Inf)]}) }

Y(year) == 365 * year
DateJobs ==
    { Review([c \in {"inicio", "fin", "alta"} |->
                CASE c = "inicio" -> Days(<<Y(2020), Y(2021), Y(9990), Y(1850)>>)
                  [] c = "fin" -> Days(<<Y(2019), Y(2022), Y(2000), Y(2000)>>)
                  [] OTHER -> With(Days(<<Y(2010), Y(2022), 0, Y(2021)>>), 3)],
             {Str("isodate", Y(2023))}, {Leaf(Copy("alta"))}),
      Review([c \in {"inicio", "desde", "fin"} |->
                CASE c = "inicio" -> Days(<<Y(2020), Y(2021)>>)
                  [] c = "desde" -> Days(<<Y(2019), Y(1800)>>)
                  [] OTHER -> Days(<<Y(2018), Y(2001)>>)],
             {Str("isodate", Y(2023))}, {Leaf(Copy("inicio"))}),
      Review([c \in {"inicio", "fin", "alta"} |->
                CASE c = "inicio" -> Moments(<<2 * Y(2020), 2 * Y(2021) + 1, 2 * Y(1850)>>)
                  [] c = "fin" -> Moments(<<2 * Y(2019), 2 * Y(2021), 2 * Y(2000)>>)
                  [] OTHER -> Days(<<Y(2010), Y(2021), Y(2001)>>)],
             {Str("isomoment", 2 * Y(2023))}, {Leaf(Copy("alta"))}),
      Review([c \in {"inicio", "fin d'obra"} |->
                IF c = "inicio" THEN Days(<<Y(2020), Y(2021)>>) ELSE Days(<<Y(2019), Y(1800)>>)],
             {Str("isodate", Y(2023))}, {}) }

Matching(matches, conditional) ==
    [matches |-> matches, conditional |-> conditional, value |-> Num(7), column |-> "pais"]
InstructionJobs ==
    { Instructed(Review(Frame("edad", With(Nums(Ages), 3)), {}, {KeepBelow100, TooDeep}),
          {Matching({r}, FALSE) : r \in {Rules[k] : k \in DOMAIN Rules}}
          \cup {Matching({"number", "media"}, FALSE), Matching({"number"}, TRUE),
                Matching({}, FALSE)}) }

-----------------------------------------------------------------------------
(* Chains of transformations.                                              *)

Op(op, cols) == [op |-> op, cols |-> cols]
People ==
    [c \in {"ciudad", "edad"} |->
        IF c = "edad" THEN With(Nums(<<20, 20, 30, 40>>), 4) ELSE Texts(<<A, A, Padded(B), Null>>)]
Fill5(strategy) == [op |-> "FILL_NULLS", cols |-> {"edad"}, strategy |-> strategy, value |-> Num(5)]
Filter(c, operator, x) == [op |-> "FILTER_ROWS", cols |-> {}, column |-> c,
                           operator |-> operator, value |-> x]
ToType(c, target) == [op |-> "CONVERT_TYPE", cols |-> {c}, target |-> target]
NormDates(format, strict) ==
    [op |-> "NORMALIZE_DATES", cols |-> {"fin"}, format |-> format, strict |-> strict]
Outliers(method, action) ==
    [op |-> "DETECT_OUTLIERS", cols |-> {"edad"}, method |-> method, action |-> action,
     flag |-> [c \in {"edad"} |-> "edad_outlier"]]
OneHotOf(drop) == [op |-> "ENCODE_CATEGORICALS", cols |-> {"ciudad"}, encoding |-> "onehot",
                   dropFirst |-> drop,
                   dummy |-> [c \in {"ciudad", "edad"} |->
                       [x \in {A, B} \cup {Digits(k) : k \in {20, 30}} |->
                           CASE c = "edad" -> "edad_outlier"
                             [] x = A -> "ciudad_a" [] OTHER -> "ciudad_b"]]]
MixedDates == Frame("fin", Texts(<<Str("isodate", Y(2020)), Str("slashdate", Y(2021))>>))
Fill5In(c, strategy) == [Fill5(strategy) EXCEPT !.cols = {c}]
SomeDays == Frame("fin", With(Days(<<Y(2020), Y(2021), Y(2022)>>), 2))
SlashDates == Frame("fin", Texts(<<Str("slashdate", Y(2020)), Str("slashdate", Y(2021))>>))

TransformJobs ==
    {Transforming(People, s) : s \in
        { <<Op("CLEAN_NULLS", {}), Op("UPPERCASE", {"ciudad"}), Op("LOWERCASE", {})>>,
          <<Op("TRIM_WHITESPACE", {}), [op |-> "REMOVE_DUPLICATES", cols |-> {}, keep |-> "first"],
            OneHotOf(TRUE)>>,
          <<[op |-> "REMOVE_DUPLICATES", cols |-> {"edad"}, keep |-> "none"]>>,
          <<[op |-> "RENAME_COLUMN", cols |-> {}, mapping |-> [c \in {"ciudad"} |-> "nombre"]],
            Op("DROP_COLUMN", {"nombre"})>>,
          <<[op |-> "RENAME_COLUMN", cols |-> {}, mapping |-> [c \in {"ciudad"} |-> "edad"]]>>,
          <<Op("DROP_COLUMN", {"pais"})>>,
          <<[op |-> "MAP_VALUES", cols |-> {"ciudad"}, default |-> Null, mapping |-> [x \in {A} |-> B]]>>,
          <<[op |-> "VALIDATE_TYPES", cols |-> {}, strict |-> TRUE,
             expected |-> [c \in {"edad", "ciudad"} |-> IF c = "edad" THEN "num" ELSE "str"]],
            [op |-> "VALIDATE_TYPES", cols |-> {}, strict |-> TRUE, expected |-> [c \in {"edad"} |-> "str"]]>>,
          <<Outliers("iqr", "flag"), Outliers("iqr", "remove")>>,
          <<Outliers("iqr", "flag"), Fill5("mean"), Outliers("iqr", "flag"),
            ToType("edad_outlier", "num")>>,
          <<[Fill5("literal") EXCEPT !.value = A]>>,
          <<[op |-> "MAP_VALUES", cols |-> {"edad"}, default |-> Bool(TRUE),
             mapping |-> [x \in {Num(20)} |-> Num(7)]]>>,
          <<ToType("edad", "str"), Op("TRIM_WHITESPACE", {}), OneHotOf(FALSE)>>,
          <<Outliers("zscore", "remove")>>,
          <<[op |-> "ENCODE_CATEGORICALS", cols |-> {}, encoding |-> "label"],
            ToType("ciudad", "str"), ToType("ciudad", "num")>>,
          <<Op("TRIM_WHITESPACE", {}), OneHotOf(FALSE)>>,
          <<ToType("ciudad", "num")>>, <<ToType("edad", "date")>> }
        \cup {<<Fill5(f)>> : f \in {"literal", "mean", "median", "forward", "backward"}}
        \cup {<<Filter("edad", o, Num(20))>> :
                o \in {"eq", "ne", "gt", "gte", "lt", "lte", "is_null", "not_null", "contains"}}
        \cup {<<Filter("ciudad", "contains", B)>>, <<Filter("pais", "eq", A)>>} }
    \cup {Transforming(MixedDates, <<NormDates("isodate", strict)>>) : strict \in BOOLEAN}
    \cup {Transforming(SlashDates, <<NormDates("auto", FALSE), ToType("fin", "date")>>)}
    \cup {Transforming(SomeDays, <<Fill5In("fin", strategy), ToType("fin", target)>>) :
            strategy \in {"mean", "median", "forward"}, target \in {"date", "datetime", "num", "str"}}
    \cup {Transforming(SomeDays, <<ToType("fin", "str"), ToType("fin", "datetime"),
                                   ToType("fin", "date")>>)}

MCJobs == NumberJobs \cup TextJobs \cup DateJobs \cup InstructionJobs \cup TransformJobs

=============================================================================
