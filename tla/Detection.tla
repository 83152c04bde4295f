------------------------------- MODULE Detection -------------------------------
(***************************************************************************)
(* ProcessDatasetUseCase._detect_anomalies and the row finders of          *)
(* _apply_decisions.                                                       *)
(*                                                                         *)
(* Detection leaves at most one record per heuristic and column (one per   *)
(* pair of columns for dates): it counts the cells but does not keep which *)
(* they were.  When the decisions are applied, the finder of the record's  *)
(* type looks for the rows again.  The two are written apart in the code   *)
(* and are apart here.                                                     *)
(*                                                                         *)
(* Ratios are compared by cross multiplication, standard deviations by     *)
(* their squares.  The quantities are in Cells.                            *)
(***************************************************************************)
EXTENDS Cells

Cells(t, c) == t[c].cells
HasType(t, c, dtype) == t[c].dtype = dtype
IsTemporal(t, c) == t[c].dtype \in Temporal
AllRows(t) == IF DOMAIN t = {} THEN {} ELSE DOMAIN Cells(t, CHOOSE c \in DOMAIN t : TRUE)

(* What polars promises of a data frame: its columns are equally long, and *)
(* every column holds nulls and cells of its dtype.                        *)
IsFrame(t) ==
    /\ IsFiniteSet(DOMAIN t) /\ IsFiniteSet(AllRows(t))
    /\ AllRows(t) = 1..Cardinality(AllRows(t))
    /\ \A c \in DOMAIN t :
        /\ DOMAIN Cells(t, c) = AllRows(t)
        /\ \A i \in AllRows(t) : IsCell(Cells(t, c)[i])
        /\ Fits(t[c].dtype, Cells(t, c))

Anomaly(type, c, end, count, orig, sugg) ==
    [type |-> type, col |-> c, end |-> end, count |-> count, orig |-> orig, sugg |-> sugg]

(* A record when there is something to count.                              *)
Found(type, c, rows, sugg) ==
    IF rows # {} THEN {Anomaly(type, c, c, Cardinality(rows), Null, sugg)} ELSE {}

(* The text cells of a column a test holds of.                             *)
TextRows(t, c, P(_)) ==
    IF HasType(t, c, "str") THEN {i \in NonNull(Cells(t, c)) : P(Cells(t, c)[i])} ELSE {}

-----------------------------------------------------------------------------
(* The checks of _detect_anomalies.                                        *)

FillValue(t, c) ==
    IF Is(c, "phone") \/ Is(c, "address") THEN Null
    ELSE IF IsTemporal(t, c) THEN NullText
    ELSE IF NonNull(Cells(t, c)) = {} THEN IF HasType(t, c, "num") THEN Digits(0) ELSE Empty
    ELSE IF HasType(t, c, "num") THEN Digits(Mean(Cells(t, c)))
    ELSE Text(Mode(Cells(t, c)))

Missing(t, c) == Found("MISSING_VALUE", c, Nulls(Cells(t, c)), FillValue(t, c))

BeyondThreeSigma(cells) ==
    LET n == Size(cells)
        dist(i) == n * Val(cells[i]) - Total(cells)
    IN  IF n < 4 \/ Spread(cells) = 0 THEN {}
        ELSE {i \in NonNull(cells) : (n - 1) * dist(i) * dist(i) > 9 * n * Spread(cells)}

Outlier(t, c) ==
    IF ~HasType(t, c, "num") THEN {}
    ELSE LET rows == BeyondThreeSigma(Cells(t, c))
         IN  IF rows = {} THEN {}
             ELSE Found("OUTLIER", c, rows, Digits(Mean(Cells(t, c))))

(* What two cells of a column have in common when they are duplicates.     *)
DupKey(c, x) ==
    IF Is(c, "email") THEN Lower(Unpadded(Text(x)))
    ELSE IF Is(c, "phone") THEN Unpadded(Text(x))
    ELSE x

IdLike(c) == Words[c] \cap {"id", "email", "phone"} # {}

Duplicate(t, c) ==
    LET cells == Cells(t, c)
        n == Size(cells)
        uniq == Cardinality({DupKey(c, cells[i]) : i \in NonNull(cells)})
    IN  IF \/ IsTemporal(t, c) \/ n < 4 \/ uniq = n
           \/ IF IdLike(c) THEN 5 * uniq < 4 * n ELSE 50 * uniq < 49 * n
        THEN {}
        ELSE {Anomaly("DUPLICATE", c, c, n - uniq, Null, Str("DUPLICADO", 0))}

(* .str of a series that is no text raises, and nothing catches it.        *)
DetectionRaises(t) ==
    \E c \in DOMAIN t : /\ t[c].dtype \notin Temporal \cup {"str"}
                        /\ Size(Cells(t, c)) >= 4
                        /\ Is(c, "email") \/ Is(c, "phone")

InvalidFormat(c, x) ==
    IF Is(c, "email") THEN ~EmailShaped(x) \/ Val(x).pad
    ELSE Is(c, "phone") /\ ~PhoneShaped(x)

FormatInvalid(t, c) ==
    Found("FORMAT_INVALID", c, TextRows(t, c, LAMBDA x : InvalidFormat(c, x)),
       Str(IF Is(c, "email") THEN "EMAIL_INVALIDO" ELSE "TEL_INVALIDO", 0))

RareRows(cells) ==
    LET threshold == Max({2, Size(cells) \div 100})
    IN  {i \in NonNull(cells) : Freq(cells, cells[i]) < threshold}

Inconsistent(t, c) ==
    LET cells == Cells(t, c)
        n == Size(cells)
        uniq == Cardinality(Uniq(cells))
        common == NonNull(cells) \ RareRows(cells)
    IN  IF HasType(t, c, "str") /\ n >= 10 /\ uniq <= 15 /\ 10 * uniq < n
        THEN Found("INCONSISTENT", c, RareRows(cells),
                IF common = {} THEN Null ELSE Mode(cells))
        ELSE {}

Year(x) == Day(x) \div 365
ImpossibleDate(x) == Year(x) < 1900 \/ Year(x) > 2030

DateOutlier(t, c) ==
    IF ~IsTemporal(t, c) THEN {}
    ELSE Found("OUTLIER", c, {i \in NonNull(Cells(t, c)) : ImpossibleDate(Cells(t, c)[i])}, Null)

WhitespaceOnly(t, c) == Found("WHITESPACE_ONLY", c, TextRows(t, c, BlankShaped), Null)

RawEmail(x) == EmailShaped(x) /\ ~Val(x).pad
RawDate(x) == DateShaped(x) /\ ~Val(x).pad

(* The rules of CROSS_FIELD_SWAP, the first that finds a cell wins.        *)
SwapRules(t, c) ==
    LET phones == TextRows(t, c, PhoneShaped)
        many == 10 * Cardinality(phones) > Size(Cells(t, c))
        for(word, P(_)) == IF Is(c, word) THEN TextRows(t, c, P) ELSE {}
    IN  << for("name", RawEmail), for("name", RawDate),
           IF ~Is(c, "phone") /\ many THEN phones ELSE {},
           for("email", PhoneShaped), for("address", RawEmail),
           for("address", IdShaped), for("name", LocalityShaped) >>

CrossSwap(t, c) ==
    LET rules == SwapRules(t, c)
        fired == {r \in DOMAIN rules : rules[r] # {}}
    IN  IF fired = {} THEN {}
        ELSE Found("CROSS_FIELD_SWAP", c, rules[Min(fired)],
                Str("VALOR_EN_CAMPO_INCORRECTO", 0))

Placeholder(t, c) ==
    Found("SUSPICIOUS_PLACEHOLDER", c, TextRows(t, c, PlaceholderShaped),
       Str("PENDIENTE_COMPLETAR", 0))

PaddedContent(x) == Val(x).pad /\ ~BlankShaped(x)

LeadingTrailing(t, c) ==
    LET rows == TextRows(t, c, PaddedContent)
    IN  IF rows = {} THEN {}
        ELSE Found("LEADING_TRAILING_WHITESPACE", c, rows,
                Strip(Cells(t, c)[Min(rows)]))

(* The detection compares days.                                            *)
BothDated(t, sc, ec) == NonNull(Cells(t, sc)) \cap NonNull(Cells(t, ec))
Inverted(t, sc, ec) ==
    {i \in BothDated(t, sc, ec) : Day(Cells(t, sc)[i]) > Day(Cells(t, ec)[i])}

DateLogical(t, sc, ec) ==
    IF /\ sc # ec /\ Is(sc, "start") /\ Is(ec, "end")
       /\ IsTemporal(t, sc) /\ IsTemporal(t, ec)
       /\ Inverted(t, sc, ec) # {}
    THEN {Anomaly("DATE_LOGICAL", sc, ec, Cardinality(Inverted(t, sc, ec)), Null, Null)}
    ELSE {}

(* A quotient rounded up: n * d >= m iff n >= Over(m, d).                  *)
Over(m, d) == (m + d - 1) \div d

RoundRows(cells) ==
    LET divisor == IF Mean(cells) >= 1000 THEN 1000 ELSE 100
    IN  {i \in NonNull(cells) : Val(cells[i]) % divisor = 0}

RoundNumber(t, c) ==
    LET cells == Cells(t, c)
        n == Size(cells)
    IN  IF /\ HasType(t, c, "num") /\ ~Is(c, "id") /\ n >= 10 /\ Total(cells) # 0
           /\ Spread(cells) >= Over((n - 1) * Total(cells) * Total(cells), 100 * n)
           /\ 5 * Cardinality(RoundRows(cells)) > 2 * n
        THEN Found("NUMERIC_ROUND_NUMBER", c, RoundRows(cells), Null)
        ELSE {}

LowVariance(t, c) ==
    LET cells == Cells(t, c)
        n == Size(cells)
    IN  IF Is(c, "id") \/ n <= 10 \/ t[c].dtype \notin {"num", "str"} THEN {}
        ELSE IF HasType(t, c, "num")
        THEN IF /\ Total(cells) # 0
                /\ Spread(cells) < Over((n - 1) * Total(cells) * Total(cells), 10000 * n)
             THEN {Anomaly("LOW_VARIANCE", c, c, n, Digits(Mean(cells)), Null)}
             ELSE {}
        ELSE IF 20 * Freq(cells, Mode(cells)) < 19 * n THEN {}
        ELSE {Anomaly("LOW_VARIANCE", c, c, n, Mode(cells), Str("GRUPO_BAJO_VARIANZA", 0))}

(* Outside the quartiles by more than one and a half times their distance. *)
BeyondFence(value, rows, q1, q3) ==
    {i \in rows : \/ 2 * value[i] < 2 * q1 - 3 * (q3 - q1)
                  \/ 2 * value[i] > 2 * q3 + 3 * (q3 - q1)}

BeyondIqr(cells) ==
    IF Size(cells) < 4 \/ Quartile(cells, 1) = Quartile(cells, 3) THEN {}
    ELSE BeyondFence(Values(cells), NonNull(cells), Quartile(cells, 1), Quartile(cells, 3))

OutlierIqr(t, c) ==
    IF ~HasType(t, c, "num") \/ Outlier(t, c) # {} THEN {}
    ELSE LET rows == BeyondIqr(Cells(t, c))
         IN  IF rows = {} THEN {}
             ELSE Found("OUTLIER_IQR", c, rows, Digits(Median(Cells(t, c))))

(* Texts that are a prefix and a number, and the prefix of each.           *)
Numbered(x) == Shape(x) \in {"seq", "digits"} /\ ~Val(x).pad
Prefix(x) == <<Shape(x), Val(x).upper>>
Numbers(cells, prefix) ==
    [i \in {j \in NonNull(cells) : Numbered(cells[j]) /\ Prefix(cells[j]) = prefix} |->
        Val(cells[i]).k]

(* What the numbers of a sequence are at a rank, and which are far from    *)
(* the others: beyond the fence, or, when the quartiles coincide, beyond   *)
(* the first and the last tenth.                                           *)
At(value, j) == AtRank(value, DOMAIN value, Min({Cardinality(DOMAIN value) - 1, j}))
FirstQuarter(value) == At(value, Cardinality(DOMAIN value) \div 4)
LastQuarter(value) == At(value, (3 * Cardinality(DOMAIN value)) \div 4)
OutOfTenths(value) ==
    LET n == Cardinality(DOMAIN value)
    IN  {i \in DOMAIN value : \/ value[i] < At(value, n \div 10)
                              \/ value[i] > At(value, (9 * n) \div 10)}

(* The rows outside the range of the numbers within the fence.             *)
OutOfSequence(value) ==
    LET inner == DOMAIN value \ BeyondFence(value, DOMAIN value, FirstQuarter(value),
                                            LastQuarter(value))
    IN  IF FirstQuarter(value) < LastQuarter(value)
        THEN {i \in DOMAIN value : \/ \A j \in inner : value[i] < value[j]
                                   \/ \A j \in inner : value[i] > value[j]}
        ELSE OutOfTenths(value)

(* Rows out of the sequence are counted; only without any, its gaps are.   *)
GapsFound(c, value, orig) ==
    LET used == {value[i] : i \in DOMAIN value}
        gaps == (Min(used)..Max(used)) \ used
        missing == IF OutOfSequence(value) # {} THEN OutOfSequence(value) ELSE gaps
    IN  IF missing = {} THEN {}
        ELSE {Anomaly("SEQUENCE_GAP", c, c, Cardinality(missing), orig,
                      Str("ID_FUERA_SECUENCIA", 0))}

SequenceGap(t, c) ==
    LET cells == Cells(t, c)
        n == Size(cells)
        prefixes == {Prefix(cells[i]) : i \in {j \in NonNull(cells) : Numbered(cells[j])}}
        sequences == {Numbers(cells, p) : p \in prefixes}
    IN  IF ~HasType(t, c, "str") \/ n < 4 \/ 20 * Cardinality(Uniq(cells)) < 19 * n THEN {}
        ELSE UNION {GapsFound(c, value, cells[Min(DOMAIN value)]) :
                value \in {v \in sequences : 5 * Cardinality(DOMAIN v) >= 4 * n}}

Detect(t) ==
    (UNION {UNION {Missing(t, c), Outlier(t, c), Duplicate(t, c), FormatInvalid(t, c),
                   Inconsistent(t, c), DateOutlier(t, c), WhitespaceOnly(t, c), CrossSwap(t, c),
                   Placeholder(t, c), LeadingTrailing(t, c), RoundNumber(t, c),
                   LowVariance(t, c), OutlierIqr(t, c), SequenceGap(t, c)} : c \in DOMAIN t})
    \cup UNION {DateLogical(t, p[1], p[2]) : p \in (DOMAIN t) \X (DOMAIN t)}

-----------------------------------------------------------------------------
(* The row finders of _apply_decisions.  t is the table as it was when the *)
(* first decision is applied.                                              *)

OutlierRows(t, c) ==
    CASE HasType(t, c, "num") -> BeyondThreeSigma(Cells(t, c))
      [] IsTemporal(t, c) -> {i \in NonNull(Cells(t, c)) : ImpossibleDate(Cells(t, c)[i])}
      [] OTHER -> {}

(* A cell is a copy when its key, the suffix of an earlier cleaning aside, *)
(* occurs twice and an earlier cell has it.                                *)
CopyKey(c, x) == DupKey(c, WithoutDup(Text(x)))
RawKey(c, x) == DupKey(c, Text(x))
(* Mutant: the first of the copies is one as well.                         *)
DuplicateRows_First(t, c) ==
    LET cells == Cells(t, c)
    IN  {i \in NonNull(cells) : \E j \in NonNull(cells) \ {i} :
            CopyKey(c, cells[j]) = CopyKey(c, cells[i])}

DuplicateRows(t, c) ==
    LET cells == Cells(t, c)
        full == NonNull(cells)
        repeated(k) == Cardinality({j \in full : RawKey(c, cells[j]) = k}) > 1
    IN  {i \in full : /\ repeated(CopyKey(c, cells[i]))
                      /\ \E j \in full : j < i /\ CopyKey(c, cells[j]) = CopyKey(c, cells[i])}

(* Mutant: the rules for addresses know nothing of identifiers.            *)
Misplaced_NoIds(c, raw) ==
    LET x == Unpadded(raw)
    IN  \/ Is(c, "name") /\ (EmailShaped(x) \/ DateShaped(x) \/ LocalityShaped(x))
        \/ Is(c, "email") /\ (PhoneShaped(x) \/ StreetShaped(x))
        \/ Is(c, "address") /\ EmailShaped(x)
        \/ ~Is(c, "phone") /\ PhoneShaped(x)

Misplaced(c, raw) ==
    LET x == Unpadded(raw)
    IN  \/ Is(c, "name") /\ (EmailShaped(x) \/ DateShaped(x) \/ LocalityShaped(x))
        \/ Is(c, "email") /\ (PhoneShaped(x) \/ StreetShaped(x))
        \/ Is(c, "address") /\ (EmailShaped(x) \/ IdShaped(x))
        \/ Is(c, "phone") /\ (EmailShaped(x) \/ StreetShaped(x))
        \/ ~Is(c, "phone") /\ PhoneShaped(x)

PlaceholderRows(t, c) ==
    {i \in NonNull(Cells(t, c)) :
        LET x == Unpadded(Text(Cells(t, c)[i])) IN PlaceholderShaped(x) \/ x = Digits(0)}

(* The end's name is read from the description, where it stands between    *)
(* apostrophes, so that one in the name cuts it.                           *)
NamesItsEnd(a) == ~Is(a.end, "apostrophe")

(* The finder compares the values as they are.  A date with a moment is a  *)
(* TypeError, which it swallows.                                           *)
InvertedRows(t, sc, ec) ==
    {i \in BothDated(t, sc, ec) :
        LET start == Cells(t, sc)[i]
            end == Cells(t, ec)[i]
        IN  Kind(start) = Kind(end) /\ Val(start) > Val(end)}

RoundNumberRows(t, c) ==
    LET cells == Cells(t, c)
    IN  IF ~HasType(t, c, "num") \/ Size(cells) < 10 \/ Total(cells) = 0 THEN {}
        ELSE RoundRows(cells)

SequenceRows(t, c, prefix) ==
    LET value == Numbers(Cells(t, c), prefix)
    IN  IF ~HasType(t, c, "str") \/ value = << >> THEN {}
        ELSE IF FirstQuarter(value) < LastQuarter(value)
        THEN BeyondFence(value, DOMAIN value, FirstQuarter(value), LastQuarter(value))
        ELSE OutOfTenths(value)

Affected(t, a) ==
    LET c == a.col
    IN  CASE a.type = "MISSING_VALUE" -> Nulls(Cells(t, c))
          [] a.type = "OUTLIER" -> OutlierRows(t, c)
          [] a.type = "DUPLICATE" -> DuplicateRows(t, c)
          [] a.type = "FORMAT_INVALID" -> TextRows(t, c, LAMBDA x : InvalidFormat(c, x))
          [] a.type = "INCONSISTENT" ->
                IF HasType(t, c, "str") /\ Size(Cells(t, c)) >= 10 THEN RareRows(Cells(t, c)) ELSE {}
          [] a.type = "WHITESPACE_ONLY" ->
                TextRows(t, c, LAMBDA x : BlankShaped(x) /\ x # Empty)
          [] a.type = "CROSS_FIELD_SWAP" -> TextRows(t, c, LAMBDA x : Misplaced(c, x))
          [] a.type = "SUSPICIOUS_PLACEHOLDER" -> PlaceholderRows(t, c)
          [] a.type = "LEADING_TRAILING_WHITESPACE" -> TextRows(t, c, PaddedContent)
          [] a.type = "DATE_LOGICAL" ->
                IF NamesItsEnd(a) THEN InvertedRows(t, c, a.end) ELSE {}
          [] a.type = "NUMERIC_ROUND_NUMBER" -> RoundNumberRows(t, c)
          [] a.type = "LOW_VARIANCE" ->
                TextRows(t, c, LAMBDA x : Unpadded(x) = Unpadded(a.orig))
          [] a.type = "OUTLIER_IQR" ->
                IF HasType(t, c, "num") THEN BeyondIqr(Cells(t, c)) ELSE {}
          [] OTHER -> SequenceRows(t, c, Prefix(a.orig))

=============================================================================
