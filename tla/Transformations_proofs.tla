------------------------- MODULE Transformations_proofs -------------------------
(***************************************************************************)
(* What every handler of DataTransformer keeps: the table stays a data     *)
(* frame, and the cells of a row stay together in the columns the handler  *)
(* was not asked to change.                                                *)
(***************************************************************************)
EXTENDS Frames_proofs

(* Every row of the columns same was a row of them before.                 *)
RowsKept(t, u, same) ==
    \A i \in AllRows(u) : \E j \in AllRows(t) :
        \A c \in same \cap DOMAIN u : Cells(u, c)[i] = Cells(t, c)[j]

SameHeight(t, u) == DOMAIN u = {} \/ AllRows(u) = AllRows(t)

-----------------------------------------------------------------------------
(* Two ways to make a table from a table: to pick some of its rows, and to *)
(* replace some of its columns.                                            *)

LEMMA InOrderKeeps ==
    ASSUME NEW t, IsFrame(t), NEW m \in Nat, NEW order \in [1..m -> AllRows(t)]
    PROVE  IsFrame(InOrder(t, order)) /\ RowsKept(t, InOrder(t, order), DOMAIN t)
  <1> DEFINE u == InOrder(t, order)
  <1> PICK n \in Nat : AllRows(t) = 1..n /\ \A c \in DOMAIN t : IsColumn(t[c], n)
    BY FrameColumns
  <1>1. /\ DOMAIN u = DOMAIN t /\ IsFiniteSet(DOMAIN u)
        /\ \A c \in DOMAIN u : /\ Cells(u, c) = [j \in 1..m |-> Cells(t, c)[order[j]]]
                               /\ u[c].dtype = t[c].dtype
    BY DEF InOrder, Column, Cells, IsFrame
  <1>2. \A j \in 1..m : order[j] \in 1..n
    OBVIOUS
  <1> HIDE DEF u
  <1>3. ASSUME NEW c \in DOMAIN u
        PROVE  IsColumn(u[c], m)
    <2>1. IsColumn(t[c], n)
      BY <1>1
    <2>2. DOMAIN u[c].cells = 1..m /\ \A j \in 1..m : u[c].cells[j] = t[c].cells[order[j]]
      BY <1>1 DEF Cells
    <2>3. u[c].dtype = t[c].dtype
      BY <1>1
    <2>4. \A j \in 1..m : /\ IsCell(u[c].cells[j])
                          /\ u[c].cells[j] = Null \/ Kind(u[c].cells[j]) = u[c].dtype
      <3>1. \A i \in 1..n : /\ IsCell(t[c].cells[i])
                            /\ t[c].cells[i] = Null \/ Kind(t[c].cells[i]) = t[c].dtype
        BY <2>1 DEF IsColumn, Fits
      <3> QED BY <1>2, <2>2, <2>3, <3>1
    <2> QED
      BY <2>2, <2>4, ColumnOf
  <1>4. IsFrame(u) /\ (DOMAIN u # {} => AllRows(u) = 1..m)
    BY <1>1, <1>3, ColumnsFrame
  <1>5. ASSUME NEW i \in AllRows(u)
        PROVE  \E j \in AllRows(t) : \A c \in DOMAIN t \cap DOMAIN u : Cells(u, c)[i] = Cells(t, c)[j]
    <2>1. DOMAIN u # {} /\ i \in 1..m
      BY <1>4 DEF AllRows
    <2>2. \A c \in DOMAIN u : Cells(u, c)[i] = Cells(t, c)[order[i]]
      BY <1>1, <2>1
    <2> QED
      BY <1>2, <2>1, <2>2
  <1> QED
    BY <1>4, <1>5 DEF RowsKept, u

LEMMA OnlyRowsKeeps ==
    ASSUME NEW t, IsFrame(t), NEW rows \in SUBSET AllRows(t)
    PROVE  IsFrame(OnlyRows(t, rows)) /\ RowsKept(t, OnlyRows(t, rows), DOMAIN t)
  <1> DEFINE m == Cardinality(rows)
             order == [j \in 1..m |-> Nth(rows, j)]
  <1> PICK n \in Nat : AllRows(t) = 1..n
    BY FrameColumns
  <1>1. m \in Nat
    BY FS_Subset, FS_CardinalityType DEF IsFrame
  <1>2. \A j \in 1..m : Nth(rows, j) \in rows
    BY NthIsRow
  <1>3. order \in [1..m -> AllRows(t)]
    BY <1>2
  <1>4. OnlyRows(t, rows) = InOrder(t, order)
    BY DEF OnlyRows
  <1> HIDE DEF m, order
  <1> QED
    BY <1>1, <1>3, <1>4, InOrderKeeps

LEMMA ColumnsReplaced ==
    ASSUME NEW t, IsFrame(t), NEW n \in Nat, AllRows(t) = 1..n,
           NEW u, IsFiniteSet(DOMAIN u), \A c \in DOMAIN u : IsColumn(u[c], n),
           NEW same, \A c \in same \cap DOMAIN u : Cells(u, c) = Cells(t, c)
    PROVE  IsFrame(u) /\ RowsKept(t, u, same) /\ SameHeight(t, u)
  <1>1. IsFrame(u) /\ SameHeight(t, u)
    BY ColumnsFrame DEF SameHeight
  <1>2. \A i \in AllRows(u) : i \in AllRows(t)
    BY <1>1 DEF SameHeight, AllRows
  <1> QED
    BY <1>1, <1>2 DEF RowsKept

(* The columns of a data frame, and those some of which were replaced.     *)
LEMMA SomeReplaced ==
    ASSUME NEW t, IsFrame(t), NEW n \in Nat, AllRows(t) = 1..n,
           NEW u, DOMAIN u = DOMAIN t, NEW cols,
           \A c \in DOMAIN t : IF c \in cols THEN IsColumn(u[c], n) ELSE u[c] = t[c]
    PROVE  IsFrame(u) /\ RowsKept(t, u, DOMAIN t \ cols) /\ SameHeight(t, u)
  <1>1. \A c \in DOMAIN t : IsColumn(t[c], n)
    BY DEF IsFrame, IsColumn, Cells
  <1>2. \A c \in (DOMAIN t \ cols) \cap DOMAIN u : Cells(u, c) = Cells(t, c)
    BY DEF Cells
  <1>3. \A c \in DOMAIN u : IsColumn(u[c], n)
    BY <1>1
  <1>4. IsFiniteSet(DOMAIN u)
    BY DEF IsFrame
  <1> QED
    BY <1>2, <1>3, <1>4, ColumnsReplaced

-----------------------------------------------------------------------------
(* Handlers that pick rows.                                                *)

LEMMA CleanNullsKeeps ==
    ASSUME NEW t, IsFrame(t), NEW s, NEW u \in CleanNulls(t, s)
    PROVE  IsFrame(u) /\ RowsKept(t, u, DOMAIN t)
  <1> DEFINE rows == {i \in AllRows(t) : \A c \in Chosen(t, s) : Cells(t, c)[i] # Null}
  <1>1. u = OnlyRows(t, rows) /\ rows \in SUBSET AllRows(t)
    BY DEF CleanNulls
  <1> HIDE DEF rows
  <1> QED
    BY <1>1, OnlyRowsKeeps

LEMMA FilterRowsKeeps ==
    ASSUME NEW t, IsFrame(t), NEW s, NEW u \in FilterRows(t, s)
    PROVE  IsFrame(u) /\ RowsKept(t, u, DOMAIN t)
  <1> DEFINE rows == {i \in AllRows(t) : Matches(Cells(t, s.column)[i], s)}
  <1>1. u = OnlyRows(t, rows) /\ rows \in SUBSET AllRows(t)
    BY DEF FilterRows
  <1> HIDE DEF rows
  <1> QED
    BY <1>1, OnlyRowsKeeps

LEMMA RemoveDuplicatesKeeps ==
    ASSUME NEW t, IsFrame(t), NEW s, NEW u \in RemoveDuplicates(t, s)
    PROVE  IsFrame(u) /\ RowsKept(t, u, DOMAIN t)
  <1>1. PICK kept \in SUBSET AllRows(t) :
            \E f \in [1..Cardinality(kept) -> kept] : u = InOrder(t, f)
    BY DEF RemoveDuplicates
  <1>2. Cardinality(kept) \in Nat
    BY FS_Subset, FS_CardinalityType DEF IsFrame
  <1>3. PICK f \in [1..Cardinality(kept) -> AllRows(t)] : u = InOrder(t, f)
    BY <1>1
  <1> QED
    BY <1>2, <1>3, InOrderKeeps

-----------------------------------------------------------------------------
(* Handlers that change the texts of some columns.                         *)

LEMMA TextsReplaced ==
    ASSUME NEW t, IsFrame(t), NEW u, DOMAIN u = DOMAIN t, NEW cols,
           \A c \in DOMAIN t :
                IF c \in cols
                THEN /\ u[c].dtype = "str" /\ DOMAIN u[c].cells = AllRows(t)
                     /\ \A i \in AllRows(t) :
                            u[c].cells[i] = Null \/ (IsCell(u[c].cells[i]) /\ IsStr(u[c].cells[i]))
                ELSE u[c] = t[c]
    PROVE  IsFrame(u) /\ RowsKept(t, u, DOMAIN t \ cols) /\ SameHeight(t, u)
  <1> PICK n \in Nat : AllRows(t) = 1..n
    BY FrameColumns
  <1>1. IsCell(Null)
    BY DEF IsCell
  <1>2. \A c \in DOMAIN t : IF c \in cols THEN IsColumn(u[c], n) ELSE u[c] = t[c]
    BY <1>1, ColumnOf DEF IsStr
  <1> QED
    BY <1>2, SomeReplaced

(* A cell of a text column that is not null.                               *)
LEMMA TextColumnCells ==
    ASSUME NEW t, IsFrame(t), NEW c \in DOMAIN t, HasType(t, c, "str"), NEW i \in AllRows(t),
           Cells(t, c)[i] # Null
    PROVE  IsCell(Cells(t, c)[i]) /\ IsStr(Cells(t, c)[i])
  BY DEF IsFrame, Fits, HasType, IsStr
LEMMA FewerKept ==
    ASSUME NEW t, NEW u, NEW S, NEW T, RowsKept(t, u, S), T \subseteq S
    PROVE  RowsKept(t, u, T)
  BY DEF RowsKept

(* Texts that become texts or null, in columns the handler chose.          *)
LEMMA TextsMapped ==
    ASSUME NEW t, IsFrame(t), NEW s, NEW cols, cols \subseteq TextColumns(t, s),
           NEW u, DOMAIN u = DOMAIN t, \A c \in DOMAIN t \ cols : u[c] = t[c],
           \A c \in DOMAIN t \cap cols :
                /\ u[c].dtype = t[c].dtype /\ DOMAIN u[c].cells = AllRows(t)
                /\ \A i \in AllRows(t) :
                    LET x == Cells(t, c)[i]
                        y == u[c].cells[i]
                    IN  (x # Null /\ IsCell(x) /\ IsStr(x)) \/ x = Null =>
                            y = Null \/ (IsCell(y) /\ IsStr(y))
    PROVE  IsFrame(u) /\ RowsKept(t, u, DOMAIN t \ Chosen(t, s)) /\ SameHeight(t, u)
  <1>1. \A c \in cols : HasType(t, c, "str") /\ c \in Chosen(t, s)
    BY DEF TextColumns
  <1>2. ASSUME NEW c \in DOMAIN t
        PROVE  IF c \in cols
               THEN /\ u[c].dtype = "str" /\ DOMAIN u[c].cells = AllRows(t)
                    /\ \A i \in AllRows(t) :
                           u[c].cells[i] = Null \/ (IsCell(u[c].cells[i]) /\ IsStr(u[c].cells[i]))
               ELSE u[c] = t[c]
    <2>1. CASE c \in cols
      <3>1. \A i \in AllRows(t) : Cells(t, c)[i] # Null
                => IsCell(Cells(t, c)[i]) /\ IsStr(Cells(t, c)[i])
        BY <1>1, <2>1, TextColumnCells
      <3> QED
        BY <1>1, <2>1, <3>1 DEF HasType
    <2> QED
      BY <2>1
  <1>3. IsFrame(u) /\ RowsKept(t, u, DOMAIN t \ cols) /\ SameHeight(t, u)
    BY <1>2, TextsReplaced
  <1>4. DOMAIN t \ Chosen(t, s) \subseteq DOMAIN t \ cols
    BY <1>1
  <1> QED
    BY <1>3, <1>4, FewerKept

LEMMA TrimWhitespaceKeeps ==
    ASSUME NEW t, IsFrame(t), NEW s, NEW u \in TrimWhitespace(t, s)
    PROVE  IsFrame(u) /\ RowsKept(t, u, DOMAIN t \ Chosen(t, s)) /\ SameHeight(t, u)
  <1> DEFINE cols == TextColumns(t, s)
             trim(x) == IF BlankShaped(x) THEN Empty ELSE Unpadded(x)
  <1>1. /\ DOMAIN u = DOMAIN t
        /\ \A c \in DOMAIN t \ cols : u[c] = t[c]
        /\ \A c \in DOMAIN t \cap cols :
            /\ u[c].dtype = t[c].dtype /\ DOMAIN u[c].cells = AllRows(t)
            /\ \A i \in AllRows(t) : u[c].cells[i] = IF Cells(t, c)[i] = Null THEN Null
                                                     ELSE trim(Cells(t, c)[i])
    BY DEF TrimWhitespace, MapCells, Column
  <1>2. \A x : IsCell(x) /\ IsStr(x) => IsCell(trim(x)) /\ IsStr(trim(x))
    BY EditsAreTexts, StrIsCell DEF Empty
  <1> HIDE DEF cols, trim
  <1>3. \A c \in DOMAIN t \cap cols : \A i \in AllRows(t) :
            LET x == Cells(t, c)[i]
                y == u[c].cells[i]
            IN  (x # Null /\ IsCell(x) /\ IsStr(x)) \/ x = Null => y = Null \/ (IsCell(y) /\ IsStr(y))
    BY <1>1, <1>2
  <1> QED
    BY <1>1, <1>3, TextsMapped DEF cols

LEMMA CasesKeep ==
    ASSUME NEW t, IsFrame(t), NEW s, NEW u \in Uppercase(t, s) \cup Lowercase(t, s)
    PROVE  IsFrame(u) /\ RowsKept(t, u, DOMAIN t \ Chosen(t, s)) /\ SameHeight(t, u)
  <1> DEFINE cols == TextColumns(t, s)
  <1>1. /\ DOMAIN u = DOMAIN t
        /\ \A c \in DOMAIN t \ cols : u[c] = t[c]
        /\ \A c \in DOMAIN t \cap cols :
            /\ u[c].dtype = t[c].dtype /\ DOMAIN u[c].cells = AllRows(t)
            /\ \A i \in AllRows(t) : u[c].cells[i] \in IF Cells(t, c)[i] = Null THEN {Null}
                                     ELSE {Upper(Cells(t, c)[i]), Lower(Cells(t, c)[i])}
    BY DEF Uppercase, Lowercase, MapCells, Column
  <1>2. \A x : IsCell(x) /\ IsStr(x) => /\ IsCell(Upper(x)) /\ IsStr(Upper(x))
                                        /\ IsCell(Lower(x)) /\ IsStr(Lower(x))
    BY EditsAreTexts
  <1> HIDE DEF cols
  <1>3. \A c \in DOMAIN t \cap cols : \A i \in AllRows(t) :
            LET x == Cells(t, c)[i]
                y == u[c].cells[i]
            IN  (x # Null /\ IsCell(x) /\ IsStr(x)) \/ x = Null => y = Null \/ (IsCell(y) /\ IsStr(y))
    BY <1>1, <1>2
  <1> QED
    BY <1>1, <1>3, TextsMapped DEF cols

LEMMA NormalizeDatesKeeps ==
    ASSUME NEW t, IsFrame(t), NEW s, s.format \in {"auto", "isodate", "slashdate"},
           NEW u \in NormalizeDates(t, s)
    PROVE  IsFrame(u) /\ RowsKept(t, u, DOMAIN t \ Chosen(t, s)) /\ SameHeight(t, u)
  <1> DEFINE iso(x) == Str("isodate", Val(x).k)
             all(c, shape) == \A i \in NonNull(Cells(t, c)) : Written(Cells(t, c)[i], shape)
             auto == {c \in TextColumns(t, s) : \E shape \in {"isodate", "slashdate"} : all(c, shape)}
  <1>1. ASSUME NEW x, IsCell(x), NEW shape \in {"isodate", "slashdate"}, Written(x, shape)
        PROVE  IsCell(iso(x)) /\ IsStr(iso(x))
    <2>1. IsStr(x) /\ Val(x).shape = shape
      BY <1>1 DEF Written, Shape
    <2>2. IsText(Val(x))
      BY <1>1, <2>1 DEF IsCell, IsStr, Null, Kind, Temporal
    <2>3. Val(x).k \in Int
      BY <2>1, <2>2 DEF IsText
    <2> QED
      BY <2>3, StrIsCell
  <1>2. CASE s.format = "auto"
    <2>1. /\ DOMAIN u = DOMAIN t
          /\ \A c \in DOMAIN t \ auto : u[c] = t[c]
          /\ \A c \in DOMAIN t \cap auto :
              /\ u[c].dtype = t[c].dtype /\ DOMAIN u[c].cells = AllRows(t)
              /\ \A i \in AllRows(t) : u[c].cells[i] = IF Cells(t, c)[i] = Null THEN Null
                                                       ELSE iso(Cells(t, c)[i])
      BY <1>2 DEF NormalizeDates, MapCells, Column
    <2>2. ASSUME NEW c \in DOMAIN t \cap auto, NEW i \in AllRows(t), Cells(t, c)[i] # Null,
                 IsCell(Cells(t, c)[i])
          PROVE  IsCell(iso(Cells(t, c)[i])) /\ IsStr(iso(Cells(t, c)[i]))
      <3>1. i \in NonNull(Cells(t, c))
        BY <2>2 DEF NonNull, IsFrame
      <3>2. PICK shape \in {"isodate", "slashdate"} : Written(Cells(t, c)[i], shape)
        BY <3>1
      <3> QED
        BY <1>1, <2>2, <3>2
    <2>3. \A c \in DOMAIN t \cap auto : \A i \in AllRows(t) :
              LET x == Cells(t, c)[i]
                  y == u[c].cells[i]
              IN  (x # Null /\ IsCell(x) /\ IsStr(x)) \/ x = Null => y = Null \/ (IsCell(y) /\ IsStr(y))
      BY <2>1, <2>2
    <2>4. auto \subseteq TextColumns(t, s)
      OBVIOUS
    <2> HIDE DEF auto, iso, all
    <2> QED
      BY <2>1, <2>3, <2>4, TextsMapped
  <1>3. CASE s.format # "auto"
    <2> DEFINE cols == TextColumns(t, s)
               to(x) == IF Written(x, s.format) THEN iso(x) ELSE Null
    <2>1. /\ DOMAIN u = DOMAIN t
          /\ \A c \in DOMAIN t \ cols : u[c] = t[c]
          /\ \A c \in DOMAIN t \cap cols :
              /\ u[c].dtype = t[c].dtype /\ DOMAIN u[c].cells = AllRows(t)
              /\ \A i \in AllRows(t) : u[c].cells[i] = IF Cells(t, c)[i] = Null THEN Null
                                                       ELSE to(Cells(t, c)[i])
      BY <1>3 DEF NormalizeDates, MapCells, Column
    <2>2. \A x : IsCell(x) => to(x) = Null \/ (IsCell(to(x)) /\ IsStr(to(x)))
      BY <1>1, <1>3
    <2> HIDE DEF cols, iso, to
    <2>3. \A c \in DOMAIN t \cap cols : \A i \in AllRows(t) :
              LET x == Cells(t, c)[i]
                  y == u[c].cells[i]
              IN  (x # Null /\ IsCell(x) /\ IsStr(x)) \/ x = Null => y = Null \/ (IsCell(y) /\ IsStr(y))
      BY <2>1, <2>2
    <2> QED
      BY <2>1, <2>3, TextsMapped DEF cols
  <1> QED
    BY <1>2, <1>3

-----------------------------------------------------------------------------
(* Handlers that make columns of other types.                              *)

LEMMA ConvertTypeKeeps ==
    ASSUME NEW t, IsFrame(t), NEW s, s.target \in {"num", "date", "datetime", "bool", "str"},
           ~Unknown(t, s), NEW u \in ConvertType(t, s)
    PROVE  IsFrame(u) /\ RowsKept(t, u, DOMAIN t \ Chosen(t, s)) /\ SameHeight(t, u)
  <1> PICK n \in Nat : AllRows(t) = 1..n /\ \A c \in DOMAIN t : IsColumn(t[c], n)
    BY FrameColumns
  <1>1. /\ DOMAIN u = DOMAIN t
        /\ \A c \in Chosen(t, s) : \A i \in AllRows(t) : Castable(Cells(t, c)[i], s.target)
        /\ \A c \in DOMAIN t : IF c \in Chosen(t, s)
                               THEN /\ u[c].dtype = s.target
                                    /\ u[c].cells = [i \in 1..n |-> CastTo(Cells(t, c)[i], s.target)]
                               ELSE u[c] = t[c]
    BY DEF ConvertType, Column
  <1>2. ASSUME NEW c \in DOMAIN t, c \in Chosen(t, s)
        PROVE  IsColumn(u[c], n)
    <2>1. ASSUME NEW i \in 1..n
          PROVE  LET x == CastTo(Cells(t, c)[i], s.target)
                 IN  IsCell(x) /\ (x = Null \/ Kind(x) = s.target)
      <3>1. IsCell(Cells(t, c)[i]) /\ Castable(Cells(t, c)[i], s.target)
        BY <1>1, <1>2 DEF IsColumn, Cells
      <3> QED
        BY <3>1, CastIsCell
    <2>2. u[c].dtype = s.target
      BY <1>1, <1>2
    <2>3. u[c].cells = [i \in 1..n |-> CastTo(Cells(t, c)[i], s.target)]
      BY <1>1, <1>2
    <2> QED
      BY <2>1, <2>2, <2>3, ColumnOf
  <1>3. \A c \in DOMAIN t : IF c \in Chosen(t, s) THEN IsColumn(u[c], n) ELSE u[c] = t[c]
    BY <1>1, <1>2
  <1> QED
    BY <1>1, <1>3, SomeReplaced

LEMMA FillNullsKeeps ==
    ASSUME NEW t, IsFrame(t), NEW s, IsCell(s.value), NEW u \in FillNulls(t, s)
    PROVE  IsFrame(u) /\ RowsKept(t, u, DOMAIN t \ Chosen(t, s)) /\ SameHeight(t, u)
  <1> PICK n \in Nat : AllRows(t) = 1..n /\ \A c \in DOMAIN t : IsColumn(t[c], n)
    BY FrameColumns
  <1>1. /\ DOMAIN u = DOMAIN t
        /\ \A c \in DOMAIN t : IF c \in Chosen(t, s)
                               THEN u[c] = Coerced(FillTypes(t[c].dtype, s),
                                        [i \in DOMAIN Cells(t, c) |->
                                            IF i \in Nulls(Cells(t, c))
                                            THEN Filler(Cells(t, c), t[c].dtype, s, i)
                                            ELSE Cells(t, c)[i]])
                               ELSE u[c] = t[c]
    BY DEF FillNulls, Replace
  <1>2. ASSUME NEW c \in DOMAIN t, c \in Chosen(t, s)
        PROVE  IsColumn(u[c], n)
    <2> DEFINE cells == Cells(t, c)
               dtype == t[c].dtype
               full == NonNull(cells)
               types == FillTypes(dtype, s)
               new == [i \in DOMAIN cells |->
                        IF i \in Nulls(cells) THEN Filler(cells, dtype, s, i) ELSE cells[i]]
    <2>1. /\ DOMAIN cells = 1..n /\ IsFiniteSet(DOMAIN cells)
          /\ \A i \in 1..n : IsCell(cells[i]) /\ (cells[i] = Null \/ Kind(cells[i]) = dtype)
          /\ full \subseteq 1..n
      <3> HIDE DEF types, new
      <3>1. IsColumn(t[c], n)
        OBVIOUS
      <3>2. DOMAIN cells = 1..n
        BY <3>1 DEF IsColumn, Cells
      <3>3. IsFiniteSet(1..n)
        BY FS_Interval, 1 \in Int
      <3>4. \A i \in 1..n : IsCell(cells[i]) /\ (cells[i] = Null \/ Kind(cells[i]) = dtype)
        BY <3>1 DEF IsColumn, Fits, Cells
      <3> QED
        BY <3>2, <3>3, <3>4 DEF NonNull
    <2>2. \A i \in full : cells[i] # Null
      BY DEF NonNull
    <2>3. ASSUME NEW i \in 1..n
          PROVE  LET x == Filler(cells, dtype, s, i)
                 IN  IsCell(x) /\ (x = Null \/ Kind(x) \in types)
      <3> DEFINE before == {j \in full : j < i}
                 after == {j \in full : j > i}
      <3>1. IsCell(Null)
        BY DEF IsCell
      <3>2. CASE s.strategy = "literal"
        <4>1. Filler(cells, dtype, s, i) = s.value
          BY <3>2 DEF Filler
        <4> QED
          BY <3>2, <4>1 DEF Literals, FillTypes
      <3>3. CASE s.strategy \in {"mean", "median"}
        <4>1. ASSUME dtype \in Temporal, full # {}
              PROVE  Mean(cells) \in Int /\ Median(cells) \in Int
          <5>1. \A j \in full : Val(cells[j]) \in Int
            BY <2>1, <2>2, <4>1, Kinds
          <5> QED
            BY <2>1, <4>1, <5>1, MiddleIsInt
        <4>2. Filler(cells, dtype, s, i) \in
                {Null} \cup IF dtype \in Temporal \cup {"num"} /\ full # {}
                            THEN {Between(dtype, Mean(cells)), Between(dtype, Median(cells))} ELSE {}
          BY <3>3 DEF Filler
        <4>3. dtype \in types /\ (dtype = "date" => "datetime" \in types)
          BY <3>3 DEF FillTypes
        <4> HIDE DEF cells, dtype, full, types
        <4>4. \A m : dtype \in Temporal \cup {"num"} /\ (dtype \in Temporal => m \in Int)
                => IsCell(Between(dtype, m)) /\ Kind(Between(dtype, m)) \in types
          <5>1. \A m \in Int : HalfDays * m \in Int
            BY DEF HalfDays
          <5> TAKE m
          <5>2. CASE dtype = "date"
            BY <4>3, <5>1, <5>2, Parts DEF IsCell, Between, Midnight, Moment, Temporal
          <5>3. CASE dtype # "date"
            BY <4>3, <5>3, Parts DEF IsCell, Between, Temporal
          <5> QED BY <5>2, <5>3
        <4> QED
          BY <3>1, <4>1, <4>2, <4>4
      <3>4. CASE s.strategy = "forward"
        <4>1. CASE before # {}
          <5>1. before \in SUBSET Nat /\ \A j \in before : j <= n
            BY <2>1
          <5>2. Max(before) \in before
            <6> HIDE DEF before
            <6> QED BY <4>1, <5>1, MaxIsGreatest
          <5>3. Filler(cells, dtype, s, i) = cells[Max(before)]
            BY <3>4, <4>1 DEF Filler
          <5>4. dtype \in types
            BY DEF FillTypes
          <5> HIDE DEF types
          <5> QED
            BY <2>1, <5>2, <5>3, <5>4
        <4>2. CASE before = {}
          BY <3>1, <3>4, <4>2 DEF Filler
        <4> QED BY <4>1, <4>2
      <3>5. CASE s.strategy = "backward"
        <4>1. CASE after # {}
          <5>1. after \in SUBSET Nat
            BY <2>1
          <5>2. Min(after) \in after
            <6> HIDE DEF after
            <6> QED BY <4>1, <5>1, MinIsLeast
          <5>3. Filler(cells, dtype, s, i) = cells[Min(after)]
            BY <3>5, <4>1 DEF Filler
          <5>4. dtype \in types
            BY DEF FillTypes
          <5> HIDE DEF types
          <5> QED
            BY <2>1, <5>2, <5>3, <5>4
        <4>2. CASE after = {}
          BY <3>1, <3>5, <4>2 DEF Filler
        <4> QED BY <4>1, <4>2
      <3>6. CASE s.strategy \notin {"literal", "mean", "median", "forward", "backward"}
        BY <3>1, <3>6 DEF Filler
      <3> QED
        BY <3>2, <3>3, <3>4, <3>5, <3>6
    <2>4. DOMAIN new = 1..n /\ dtype \in types
          /\ \A i \in 1..n : IsCell(new[i]) /\ (new[i] = Null \/ Kind(new[i]) \in types)
      <3>1. dtype \in types
        BY DEF FillTypes
      <3> HIDE DEF types
      <3> QED BY <2>1, <2>3, <3>1
    <2>5. u[c] = Coerced(types, new)
      BY <1>1, <1>2
    <2> HIDE DEF types, new
    <2> QED
      BY <2>4, <2>5, CoercedIsColumn
  <1>3. \A c \in DOMAIN t : IF c \in Chosen(t, s) THEN IsColumn(u[c], n) ELSE u[c] = t[c]
    BY <1>1, <1>2
  <1> QED
    BY <1>1, <1>3, SomeReplaced

LEMMA MapValuesKeeps ==
    ASSUME NEW t, IsFrame(t), NEW s, IsCell(s.default),
           \A x \in DOMAIN s.mapping : IsCell(s.mapping[x]), NEW u \in MapValues(t, s)
    PROVE  IsFrame(u) /\ RowsKept(t, u, DOMAIN t \ Chosen(t, s)) /\ SameHeight(t, u)
  <1> PICK n \in Nat : AllRows(t) = 1..n /\ \A c \in DOMAIN t : IsColumn(t[c], n)
    BY FrameColumns
  <1> DEFINE map(x) == IF x \in DOMAIN s.mapping THEN s.mapping[x] ELSE s.default
             types(c) == IF NewTypes(s) = {} THEN {t[c].dtype} ELSE NewTypes(s)
             new(c) == [i \in AllRows(t) |-> map(Cells(t, c)[i])]
  <1>1. /\ DOMAIN u = DOMAIN t
        /\ \A c \in DOMAIN t : IF c \in Chosen(t, s) THEN u[c] = Coerced(types(c), new(c))
                               ELSE u[c] = t[c]
    BY DEF MapValues
  <1>2. ASSUME NEW x
        PROVE  IsCell(map(x)) /\ (map(x) = Null \/ Kind(map(x)) \in NewTypes(s))
    <2>1. IsCell(map(x)) /\ map(x) \in {s.mapping[y] : y \in DOMAIN s.mapping} \cup {s.default}
      OBVIOUS
    <2> HIDE DEF map
    <2> QED
      BY <2>1, Kinds DEF NewTypes
  <1>3. ASSUME NEW c
        PROVE  IsColumn(Coerced(types(c), new(c)), n)
    <2>1. DOMAIN new(c) = 1..n /\ types(c) # {}
          /\ \A i \in 1..n : IsCell(new(c)[i]) /\ (new(c)[i] = Null \/ Kind(new(c)[i]) \in types(c))
      BY <1>2
    <2> DEFINE T == types(c)
               N == new(c)
    <2> HIDE DEF types, new
    <2>2. IsColumn(Coerced(T, N), n)
      <3> HIDE DEF T, N
      <3>1. DOMAIN N = 1..n /\ T # {} /\ \A i \in 1..n : IsCell(N[i]) /\ (N[i] = Null \/ Kind(N[i]) \in T)
        BY <2>1 DEF T, N
      <3> QED BY <3>1, CoercedIsColumn
    <2> QED
      BY <2>2
  <1> HIDE DEF types, new
  <1>4. \A c \in DOMAIN t : IF c \in Chosen(t, s) THEN IsColumn(u[c], n) ELSE u[c] = t[c]
    BY <1>1, <1>3
  <1> QED
    BY <1>1, <1>4, SomeReplaced

LEMMA ValidateTypesKeeps ==
    ASSUME NEW t, IsFrame(t), NEW s, NEW u \in ValidateTypes(t, s)
    PROVE  IsFrame(u) /\ RowsKept(t, u, DOMAIN t) /\ SameHeight(t, u)
  BY DEF ValidateTypes, RowsKept, SameHeight

LEMMA DropColumnKeeps ==
    ASSUME NEW t, IsFrame(t), NEW s, NEW u \in DropColumn(t, s)
    PROVE  IsFrame(u) /\ RowsKept(t, u, DOMAIN t) /\ SameHeight(t, u)
  <1> PICK n \in Nat : AllRows(t) = 1..n /\ \A c \in DOMAIN t : IsColumn(t[c], n)
    BY FrameColumns
  <1>1. DOMAIN u \in SUBSET DOMAIN t /\ \A c \in DOMAIN u : u[c] = t[c]
    BY DEF DropColumn
  <1>2. IsFiniteSet(DOMAIN u)
    BY <1>1, FS_Subset DEF IsFrame
  <1> QED
    BY <1>1, <1>2, ColumnsReplaced DEF Cells

LEMMA RenameColumnKeeps ==
    ASSUME NEW t, IsFrame(t), NEW s, NEW u \in RenameColumn(t, s)
    PROVE  IsFrame(u) /\ RowsKept(t, u, DOMAIN t \ DOMAIN s.mapping) /\ SameHeight(t, u)
  <1> PICK n \in Nat : AllRows(t) = 1..n /\ \A c \in DOMAIN t : IsColumn(t[c], n)
    BY FrameColumns
  <1> DEFINE newName == [c \in DOMAIN t |-> IF c \in DOMAIN s.mapping THEN s.mapping[c] ELSE c]
             names == {newName[c] : c \in DOMAIN t}
  <1>1. names = {IF c \in DOMAIN s.mapping THEN s.mapping[c] ELSE c : c \in DOMAIN t}
    OBVIOUS
  <1>2. /\ ~(Cardinality(names) < Cardinality(DOMAIN t))
        /\ u = [m \in names |-> t[CHOOSE c \in DOMAIN t :
                    (IF c \in DOMAIN s.mapping THEN s.mapping[c] ELSE c) = m]]
    BY <1>1 DEF RenameColumn
  <1>3. newName \in Surjection(DOMAIN t, names)
    BY DEF Surjection
  <1>4. IsFiniteSet(DOMAIN t)
    BY DEF IsFrame
  <1>5. IsFiniteSet(names) /\ newName \in Injection(DOMAIN t, names)
    <2> HIDE DEF newName, names
    <2>1. IsFiniteSet(names) /\ Cardinality(names) <= Cardinality(DOMAIN t)
          /\ (Cardinality(names) = Cardinality(DOMAIN t) <=> newName \in Injection(DOMAIN t, names))
      BY <1>3, <1>4, FS_Surjection
    <2>2. Cardinality(names) \in Nat /\ Cardinality(DOMAIN t) \in Nat
      BY <1>4, <2>1, FS_CardinalityType
    <2> QED
      BY <1>2, <2>1, <2>2
  <1>6. ASSUME NEW m \in names
        PROVE  \E c \in DOMAIN t : newName[c] = m /\ u[m] = t[c]
    <2>1. \E c \in DOMAIN t : (IF c \in DOMAIN s.mapping THEN s.mapping[c] ELSE c) = m
      BY <1>1
    <2> QED
      BY <1>2, <2>1
  <1>7. DOMAIN u = names
    BY <1>2
  <1>8. \A c \in DOMAIN u : IsColumn(u[c], n)
    BY <1>6, <1>7
  <1>9. ASSUME NEW c \in (DOMAIN t \ DOMAIN s.mapping) \cap DOMAIN u
        PROVE  Cells(u, c) = Cells(t, c)
    <2>1. newName[c] = c
      OBVIOUS
    <2>2. PICK d \in DOMAIN t : newName[d] = c /\ u[c] = t[d]
      BY <1>6, <1>7
    <2>3. d = c
      <3> HIDE DEF newName
      <3> QED BY <1>5, <2>1, <2>2 DEF Injection, IsInjective
    <2> QED
      BY <2>2, <2>3 DEF Cells
  <1> HIDE DEF names, newName
  <1> QED
    BY <1>5, <1>7, <1>8, <1>9, ColumnsReplaced

(* The columns in whose place a flag or a dummy may come, and the handlers *)
(* that make them.                                                         *)
LEMMA ImageIsFinite ==
    ASSUME NEW S, IsFiniteSet(S), NEW f
    PROVE  IsFiniteSet({f[x] : x \in S})
  <1> DEFINE g == [x \in S |-> f[x]]
             T == {f[x] : x \in S}
  <1>1. g \in Surjection(S, T)
    BY DEF Surjection
  <1> HIDE DEF g
  <1> QED
    BY <1>1, FS_Surjection

LEMMA BoolIsCell == \A b \in BOOLEAN : IsCell(Bool(b)) /\ Kind(Bool(b)) = "bool"
  BY Parts DEF Bool, IsCell

LEMMA NumIsCell == \A k : IsCell(Num(k)) /\ Kind(Num(k)) = "num"
  BY Parts DEF Num, IsCell

LEMMA DetectOutliersKeeps ==
    ASSUME NEW t, IsFrame(t), NEW s, ~Unknown(t, s), NEW u \in DetectOutliers(t, s)
    PROVE  /\ IsFrame(u)
           /\ IF s.action = "remove" THEN RowsKept(t, u, DOMAIN t)
              ELSE RowsKept(t, u, DOMAIN t \ {s.flag[c] : c \in {d \in Chosen(t, s) : HasType(t, d, "num")}})
  <1> PICK n \in Nat : AllRows(t) = 1..n /\ \A c \in DOMAIN t : IsColumn(t[c], n)
    BY FrameColumns
  <1> DEFINE cols == {c \in Chosen(t, s) : HasType(t, c, "num")}
             out(c) == Extreme(Cells(t, c), s.method)
             unclear(c) == IF s.method = "iqr" \/ Spread(Cells(t, c)) # 0
                           THEN Nulls(Cells(t, c)) ELSE {}
             flag(c) == Column("bool", [i \in AllRows(t) |-> IF i \in unclear(c) THEN Null
                                                              ELSE Bool(i \in out(c))])
             flags == {s.flag[c] : c \in cols}
             left == AllRows(t) \ UNION {out(c) \cup unclear(c) : c \in cols}
  <1>1. CASE s.action = "remove"
    <2>1. u = OnlyRows(t, left) /\ left \in SUBSET AllRows(t)
      BY <1>1 DEF DetectOutliers
    <2> HIDE DEF left
    <2> QED
      BY <1>1, <2>1, OnlyRowsKeeps
  <1>2. CASE s.action # "remove"
    <2>1. /\ DOMAIN u = DOMAIN t \cup flags
          /\ \A m \in DOMAIN u : IF m \in flags THEN \E c : u[m] = flag(c) ELSE u[m] = t[m]
      <3>1. u = [m \in DOMAIN t \cup flags |->
                    IF m \in flags THEN flag(CHOOSE c \in cols : s.flag[c] = m) ELSE t[m]]
        BY <1>2 DEF DetectOutliers
      <3> HIDE DEF flag, flags, cols
      <3> QED BY <3>1
    <2>2. ASSUME NEW c
          PROVE  IsColumn(flag(c), n)
      <3>1. \A i \in 1..n : flag(c).cells[i] \in {Null, Bool(TRUE), Bool(FALSE)}
        <4> TAKE i \in 1..n
        <4>1. flag(c).cells[i] = IF i \in unclear(c) THEN Null ELSE Bool(i \in out(c))
          BY DEF Column
        <4> HIDE DEF unclear, out, flag
        <4>2. CASE i \in out(c)
          <5>1. (i \in out(c)) = TRUE
            BY <4>2
          <5> QED BY <4>1, <5>1
        <4>3. CASE i \notin out(c)
          <5>1. (i \in out(c)) = FALSE
            BY <4>3
          <5> QED BY <4>1, <5>1
        <4> QED BY <4>2, <4>3
      <3>2. \A x \in {Null, Bool(TRUE), Bool(FALSE)} : IsCell(x) /\ (x = Null \/ Kind(x) = "bool")
        BY BoolIsCell DEF IsCell
      <3>3. flag(c).dtype = "bool" /\ DOMAIN flag(c).cells = 1..n
        BY DEF Column
      <3> HIDE DEF flag
      <3> QED BY <3>1, <3>2, <3>3, ColumnOf
    <2>3. IsFiniteSet(DOMAIN t \cup flags)
      <3>1. IsFiniteSet(DOMAIN t) /\ cols \in SUBSET DOMAIN t
        BY DEF IsFrame, Chosen, Unknown
      <3> HIDE DEF cols
      <3>2. IsFiniteSet(cols)
        BY <3>1, FS_Subset
      <3>3. IsFiniteSet(flags)
        BY <3>2, ImageIsFinite
      <3> QED
        BY <3>1, <3>3, FS_Union
    <2> HIDE DEF flag, flags
    <2>4. \A m \in DOMAIN u : IsColumn(u[m], n)
      BY <2>1, <2>2
    <2>5. \A c \in (DOMAIN t \ flags) \cap DOMAIN u : Cells(u, c) = Cells(t, c)
      BY <2>1 DEF Cells
    <2> QED
      BY <1>2, <2>1, <2>3, <2>4, <2>5, ColumnsReplaced DEF flags, cols
  <1> QED
    BY <1>1, <1>2

LEMMA EncodeLabelKeeps ==
    ASSUME NEW t, IsFrame(t), NEW s, NEW u \in EncodeLabel(t, s)
    PROVE  IsFrame(u) /\ RowsKept(t, u, DOMAIN t \ Chosen(t, s)) /\ SameHeight(t, u)
  <1> PICK n \in Nat : AllRows(t) = 1..n /\ \A c \in DOMAIN t : IsColumn(t[c], n)
    BY FrameColumns
  <1> DEFINE cols == TextColumns(t, s)
  <1>1. /\ DOMAIN u = DOMAIN t
        /\ \A c \in DOMAIN t \ cols : u[c] = t[c]
        /\ \A c \in DOMAIN t \cap cols :
            /\ u[c].dtype = "num" /\ DOMAIN u[c].cells = 1..n
            /\ \A i \in 1..n : u[c].cells[i] = Null \/ \E k : u[c].cells[i] = Num(k)
    <2>1. PICK o : u = [c \in DOMAIN t |->
              IF c \in cols
              THEN Column("num", [i \in AllRows(t) |->
                      IF Cells(t, c)[i] = Null THEN Null
                      ELSE Num(Cardinality({y \in Uniq(Cells(t, c)) : o[y] < o[Cells(t, c)[i]]}))])
              ELSE t[c]]
      BY DEF EncodeLabel
    <2> QED
      BY <2>1 DEF Column
  <1>2. \A c \in DOMAIN t : IF c \in cols THEN IsColumn(u[c], n) ELSE u[c] = t[c]
    <2>1. IsCell(Null)
      BY DEF IsCell
    <2> HIDE DEF cols
    <2> QED
      BY <1>1, <2>1, NumIsCell, ColumnOf
  <1>3. IsFrame(u) /\ RowsKept(t, u, DOMAIN t \ cols) /\ SameHeight(t, u)
    <2> HIDE DEF cols
    <2> QED BY <1>1, <1>2, SomeReplaced
  <1>4. DOMAIN t \ Chosen(t, s) \subseteq DOMAIN t \ cols
    BY DEF TextColumns
  <1> QED
    BY <1>3, <1>4, FewerKept

LEMMA ValuesAreFinite ==
    ASSUME NEW cells, IsFiniteSet(DOMAIN cells)
    PROVE  IsFiniteSet(NonNull(cells)) /\ IsFiniteSet(Uniq(cells))
  <1> DEFINE full == NonNull(cells)
             f == [i \in full |-> cells[i]]
  <1>1. full \in SUBSET DOMAIN cells /\ Uniq(cells) = {f[i] : i \in full}
    BY DEF NonNull, Uniq
  <1> HIDE DEF full, f
  <1>2. IsFiniteSet(full)
    BY <1>1, FS_Subset
  <1>3. IsFiniteSet({f[i] : i \in full})
    BY <1>2, ImageIsFinite
  <1> QED
    BY <1>1, <1>2, <1>3 DEF full

(* What EncodeOneHot names the columns it makes.                           *)
Dummies(t, s) == UNION {{s.dummy[c][x] : x \in Uniq(Cells(t, c))} : c \in TextColumns(t, s)}

LEMMA DummiesAreFinite ==
    ASSUME NEW t, IsFrame(t), NEW s, ~Unknown(t, s)
    PROVE  IsFiniteSet(Dummies(t, s))
  <1> DEFINE cols == TextColumns(t, s)
             named == [c \in cols |-> {s.dummy[c][x] : x \in Uniq(Cells(t, c))}]
  <1>1. IsFiniteSet(DOMAIN t) /\ cols \in SUBSET DOMAIN t
    BY DEF IsFrame, TextColumns, Chosen, Unknown
  <1>2. IsFiniteSet(cols)
    <2> HIDE DEF cols
    <2> QED BY <1>1, FS_Subset
  <1>3. ASSUME NEW c \in cols
        PROVE  IsFiniteSet(named[c])
    <2> DEFINE S == Uniq(Cells(t, c))
               f == s.dummy[c]
    <2>1. IsFiniteSet(DOMAIN Cells(t, c))
      <3>1. c \in DOMAIN t
        BY <1>1
      <3> QED BY <3>1 DEF IsFrame
    <2>2. IsFiniteSet(S)
      BY <2>1, ValuesAreFinite
    <2>3. named[c] = {f[x] : x \in S}
      OBVIOUS
    <2> HIDE DEF S, f, named
    <2> QED BY <2>2, <2>3, ImageIsFinite
  <1>4. Dummies(t, s) = UNION {named[c] : c \in cols}
    BY DEF Dummies
  <1> HIDE DEF cols, named
  <1>5. IsFiniteSet({named[c] : c \in cols})
    BY <1>2, ImageIsFinite
  <1>6. \A S \in {named[c] : c \in cols} : IsFiniteSet(S)
    BY <1>3
  <1> QED
    BY <1>4, <1>5, <1>6, FS_UNION

LEMMA EncodeOneHotKeeps ==
    ASSUME NEW t, IsFrame(t), NEW s, ~Unknown(t, s), NEW u \in EncodeOneHot(t, s)
    PROVE  IsFrame(u) /\ RowsKept(t, u, DOMAIN t \ (Chosen(t, s) \cup Dummies(t, s)))
           /\ SameHeight(t, u)
  <1> PICK n \in Nat : AllRows(t) = 1..n /\ \A c \in DOMAIN t : IsColumn(t[c], n)
    BY FrameColumns
  <1> DEFINE cols == TextColumns(t, s)
  <1>1. PICK texts : /\ u = OneHot(t, cols, texts, s.dummy)
                     /\ \A c \in cols : texts[c] \subseteq Uniq(Cells(t, c))
    <2>1. PICK f : u = OneHot(t, cols, [c \in cols |-> IF s.dropFirst
                                                       THEN Uniq(Cells(t, c)) \ {f[c]}
                                                       ELSE Uniq(Cells(t, c))], s.dummy)
      BY DEF EncodeOneHot
    <2> DEFINE texts == [c \in cols |-> IF s.dropFirst THEN Uniq(Cells(t, c)) \ {f[c]}
                                        ELSE Uniq(Cells(t, c))]
    <2>2. \A c \in cols : texts[c] \subseteq Uniq(Cells(t, c))
      OBVIOUS
    <2> HIDE DEF cols
    <2>3. u = OneHot(t, cols, texts, s.dummy)
      BY <2>1
    <2> HIDE DEF texts
    <2> QED
      BY <2>2, <2>3
  <1> DEFINE made == UNION {{s.dummy[c][x] : x \in texts[c]} : c \in cols}
             hot(c, x) == Column("num", [i \in AllRows(t) |->
                              IF Cells(t, c)[i] = Null THEN Null
                              ELSE Num(IF Cells(t, c)[i] = x THEN 1 ELSE 0)])
  <1>2. made \subseteq Dummies(t, s)
    BY <1>1 DEF Dummies
  <1>3. /\ DOMAIN u = (DOMAIN t \ cols) \cup made
        /\ \A m \in DOMAIN u : IF m \in made THEN \E c, x : u[m] = hot(c, x) ELSE u[m] = t[m]
    <2>1. \E p : u = [m \in (DOMAIN t \ cols) \cup made |->
                        IF m \in made THEN hot(p[m][1], p[m][2]) ELSE t[m]]
      <3> DEFINE for(m) == CHOOSE p \in cols \X UNION {texts[c] : c \in cols} :
                              p[2] \in texts[p[1]] /\ s.dummy[p[1]][p[2]] = m
      <3>1. u = [m \in (DOMAIN t \ cols) \cup made |->
                    IF m \in made THEN hot(for(m)[1], for(m)[2]) ELSE t[m]]
        BY <1>1 DEF OneHot
      <3> DEFINE p == [m \in made |-> for(m)]
      <3>2. \A m \in made : p[m] = for(m)
        OBVIOUS
      <3> HIDE DEF hot, made, for, p
      <3> QED BY <3>1, <3>2
    <2> HIDE DEF hot, made, cols
    <2> QED BY <2>1
  <1>4. ASSUME NEW c, NEW x
        PROVE  IsColumn(hot(c, x), n)
    <2>1. \A i \in 1..n : hot(c, x).cells[i] \in {Null, Num(0), Num(1)}
      BY DEF Column
    <2>2. \A y \in {Null, Num(0), Num(1)} : IsCell(y) /\ (y = Null \/ Kind(y) = "num")
      BY NumIsCell DEF IsCell
    <2>3. hot(c, x).dtype = "num" /\ DOMAIN hot(c, x).cells = 1..n
      BY DEF Column
    <2> HIDE DEF hot
    <2> QED BY <2>1, <2>2, <2>3, ColumnOf
  <1> HIDE DEF hot, made
  <1>5. IsFiniteSet(DOMAIN u)
    <2>1. DOMAIN u \in SUBSET (DOMAIN t \cup Dummies(t, s))
      BY <1>2, <1>3
    <2>2. IsFiniteSet(DOMAIN t \cup Dummies(t, s))
      BY DummiesAreFinite, FS_Union DEF IsFrame
    <2> QED BY <2>1, <2>2, FS_Subset
  <1>6. \A m \in DOMAIN u : IsColumn(u[m], n)
    BY <1>3, <1>4
  <1> DEFINE same == DOMAIN t \ (Chosen(t, s) \cup Dummies(t, s))
  <1>7. \A c \in same \cap DOMAIN u : Cells(u, c) = Cells(t, c)
    BY <1>2, <1>3 DEF Cells
  <1> HIDE DEF same
  <1>8. IsFrame(u) /\ RowsKept(t, u, same) /\ SameHeight(t, u)
    BY <1>5, <1>6, <1>7, ColumnsReplaced
  <1> QED
    BY <1>8 DEF same

=============================================================================
