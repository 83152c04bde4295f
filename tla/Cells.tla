--------------------------------- MODULE Cells ---------------------------------
(***************************************************************************)
(* The data frame the worker cleans, reduced to what its heuristics and    *)
(* its corrections tell apart.  A cell is Null, a number, a date, a moment *)
(* (a datetime), a Boolean or a text.  Numbers are naturals and a quotient *)
(* is rounded down; a date is a day number, a moment the number of a half  *)
(* day, and leap days are dropped; a text is the family of patterns it     *)
(* matches (its shape), a number that tells texts of one shape apart, and  *)
(* the three things the code changes in a text: its case, the blanks in    *)
(* front of it and the suffix _DUP.                                        *)
(*                                                                         *)
(* A table maps a column name to the column's dtype and its cells.  A      *)
(* dtype is the kind of the cells.  The code's numeric types are one here, *)
(* of integers where it matters: no column holds an infinite number, which *)
(* only the arithmetic of a program makes, of a text like inf or 1e999.    *)
(***************************************************************************)
EXTENDS Integers, Sequences, FiniteSets, FiniteSetsExt

CONSTANTS
    Names,      \* the column names
    Words       \* the keyword classes a column's name contains, or an apostrophe

ASSUME WordsAssumption ==
    Words \in [Names -> SUBSET {"id", "email", "phone", "name", "address",
                                "start", "end", "apostrophe"}]

Null == <<"null">>
Num(n) == <<"num", n>>
Date(d) == <<"date", d>>
Moment(h) == <<"datetime", h>>
Bool(b) == <<"bool", b>>
Str(shape, k) ==
    <<"str", [shape |-> shape, k |-> k, upper |-> FALSE, pad |-> FALSE, dup |-> FALSE]>>

Infinite == <<"infinite", 0>>                     \* float("inf")

Digits(k) == Str("digits", k)                     \* the text of a number
Seq4(k) == <<"str", [Str("seq", k)[2] EXCEPT !.upper = TRUE]>>  \* as in C0042
Empty == Str("blank", 0)
NullText == Str("placeholder", 0)                 \* the text "null"
NoneText == Str("placeholder", 1)                 \* the text "None"

Kind(x) == x[1]
Val(x) == x[2]
IsStr(x) == Kind(x) = "str"

(* _DATE_DTYPES, and the day of a date or of a moment.                     *)
Temporal == {"date", "datetime"}
HalfDays == 2
Day(x) == IF Kind(x) = "datetime" THEN Val(x) \div HalfDays ELSE Val(x)
Midnight(day) == Moment(HalfDays * day)

Padded(x) == <<"str", [Val(x) EXCEPT !.pad = TRUE]>>
Unpadded(x) == <<"str", [Val(x) EXCEPT !.pad = FALSE]>>
Lower(x) == <<"str", [Val(x) EXCEPT !.upper = FALSE]>>
Upper(x) == <<"str", [Val(x) EXCEPT !.upper = TRUE]>>
WithDup(x) == <<"str", [Val(x) EXCEPT !.dup = TRUE]>>
WithoutDup(x) == <<"str", [Val(x) EXCEPT !.dup = FALSE]>>

(* str(v) of a cell that is not null.                                      *)
Text(x) == IF IsStr(x) THEN x
           ELSE CASE Kind(x) = "num" -> Digits(Val(x))
                  [] Kind(x) = "date" -> Str("isodate", Val(x))
                  [] Kind(x) = "datetime" -> Str("isomoment", Val(x))
                  [] Kind(x) = "infinite" -> Str("infinite", 0)
                  [] OTHER -> Str(IF Val(x) THEN "true" ELSE "false", 0)

(* What a cell can be.  No property depends on what the numbers are.       *)
IsText(s) ==
    /\ s = [shape |-> s.shape, k |-> s.k, upper |-> s.upper, pad |-> s.pad, dup |-> s.dup]
    /\ {s.upper, s.pad, s.dup} \subseteq BOOLEAN
    /\ s.shape \in {"isodate", "isomoment", "slashdate"} => s.k \in Int

IsCell(x) ==
    \/ x = Null
    \/ /\ x = <<Kind(x), Val(x)>>
       /\ \/ Kind(x) = "num"
          \/ Kind(x) \in Temporal /\ Val(x) \in Int
          \/ Kind(x) = "bool" /\ Val(x) \in BOOLEAN
          \/ Kind(x) = "str" /\ IsText(Val(x))

(* The patterns of a text.  The suffix leaves an e-mail an e-mail and an   *)
(* address an address; any other text with it is plain text.               *)
Shape(x) ==
    LET s == Val(x)
    IN  IF ~s.dup \/ s.shape \in {"email", "street"} THEN s.shape
        ELSE IF s.shape = "locality" THEN "street"
        ELSE "text"

EmailShaped(x) == Shape(x) = "email"
DateShaped(x) == Shape(x) \in {"isodate", "slashdate"}
LocalityShaped(x) == Shape(x) = "locality"
StreetShaped(x) == Shape(x) \in {"street", "locality"}
IdShaped(x) == Shape(x) = "seq" /\ Val(x).upper
PhoneShaped(x) == \/ Shape(x) \in {"phone", "isodate"}  \* 2020-01-15 is eight digits
                  \/ Shape(x) = "digits" /\ Val(x).k >= 1000000
BlankShaped(x) == Shape(x) = "blank"
PlaceholderShaped(x) == Shape(x) = "placeholder"

(* str.strip_chars(), and what the strip at the end makes of a text.       *)
Strip(x) == IF BlankShaped(x) THEN Null ELSE Unpadded(x)
Stripped(x) == IF IsStr(x) THEN Strip(x) ELSE x

-----------------------------------------------------------------------------
(* Columns.                                                                *)

Column(dtype, cells) == [dtype |-> dtype, cells |-> cells]

NonNull(cells) == {i \in DOMAIN cells : cells[i] # Null}
Nulls(cells) == DOMAIN cells \ NonNull(cells)
Uniq(cells) == {cells[i] : i \in NonNull(cells)}
Size(cells) == Cardinality(NonNull(cells))
Freq(cells, v) == Cardinality({i \in DOMAIN cells : cells[i] = v})
Mode(cells) ==
    CHOOSE v \in Uniq(cells) : \A w \in Uniq(cells) : Freq(cells, w) <= Freq(cells, v)

Total(cells) ==
    LET n == Cardinality(DOMAIN cells)
        sum[i \in 0..n] ==
            IF i = 0 THEN 0
            ELSE sum[i - 1] + IF i \in NonNull(cells) THEN Val(cells[i]) ELSE 0
    IN  sum[n]
TotalSq(cells) == MapThenSumSet(LAMBDA i : Val(cells[i]) * Val(cells[i]), NonNull(cells))
Mean(cells) == Total(cells) \div Size(cells)

(* n(n-1) times the sample variance.                                       *)
Spread(cells) == Size(cells) * TotalSq(cells) - Total(cells) * Total(cells)

(* The value at a position, counted from 0, of the sorted values of rows.  *)
AtRank(value, rows, j) ==
    CHOOSE v \in {value[i] : i \in rows} :
        /\ Cardinality({i \in rows : value[i] < v}) <= j
        /\ j < Cardinality({i \in rows : value[i] <= v})

Values(cells) == [i \in NonNull(cells) |-> Val(cells[i])]
Rank(cells, j) == AtRank(Values(cells), NonNull(cells), j)
Quartile(cells, q) == Rank(cells, (q * (Size(cells) - 1) + 2) \div 4)
Median(cells) ==
    LET n == Size(cells)
    IN  IF n % 2 = 1 THEN Rank(cells, n \div 2)
        ELSE (Rank(cells, n \div 2 - 1) + Rank(cells, n \div 2)) \div 2

-----------------------------------------------------------------------------
(* Writing a column.  polars builds a series strictly: every value that is *)
(* not null must be of the series' type, and none is infinite.             *)

Fits(dtype, cells) ==
    \A i \in DOMAIN cells : \/ cells[i] = Null
                            \/ Kind(cells[i]) = dtype /\ cells[i] # Infinite

WriteStrict(column, cells) ==
    IF Fits(column.dtype, cells) THEN Column(column.dtype, cells) ELSE column

WriteOrText(column, cells) ==
    IF ~Fits(column.dtype, cells) /\ Fits("str", cells) THEN Column("str", cells)
    ELSE WriteStrict(column, cells)

(* The cells with those of some rows replaced.                             *)
Replace(cells, rows, F(_)) ==
    [i \in DOMAIN cells |-> IF i \in rows THEN F(i) ELSE cells[i]]

Is(c, word) == word \in Words[c]

=============================================================================
