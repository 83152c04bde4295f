----------------------------- MODULE Frames_proofs -----------------------------
(***************************************************************************)
(* Lemmas about the operators of Cells and Detection: what the extremes,   *)
(* the mode, the sum and the ranks of finite sets are, that writing keeps a *)
(* column a column and a table a data frame, and what the row finders and  *)
(* the checks of the detection have in common.                             *)
(***************************************************************************)
EXTENDS Transformations, FiniteSetTheorems, TLAPS

-----------------------------------------------------------------------------
(* Finite sets of rows.                                                    *)

(* Every set of naturals that is not empty has a least element.            *)
LEMMA HasLeast ==
    ASSUME NEW S \in SUBSET Nat, S # {}
    PROVE  \E m \in S : \A n \in S : m <= n
  <1> DEFINE T == {0..k : k \in S}
             R == StrictSubsetOrdering(Nat)
  <1>1. T \subseteq FiniteSubsetsOf(Nat) /\ T # {}
    <2>1. \A k \in S : k \in Int /\ 0..k \subseteq Nat
      OBVIOUS
    <2>2. \A k \in S : IsFiniteSet(0..k)
      BY <2>1, FS_Interval
    <2> QED
      BY <2>1, <2>2 DEF FiniteSubsetsOf
  <1>2. PICK t \in T : \A u \in T : ~(<<u, t>> \in R)
    <2>1. IsWellFoundedOn(R, FiniteSubsetsOf(Nat))
      BY FS_StrictSubsetOrderingWellFounded
    <2> HIDE DEF T, R
    <2> QED
      BY <1>1, <2>1, WFMin
  <1>3. PICK m \in S : t = 0..m
    OBVIOUS
  <1>4. ASSUME NEW n \in S, n < m
        PROVE  FALSE
    <2>1. 0..n \subseteq 0..m /\ 0..n # 0..m /\ 0..n \in T
      BY <1>4
    <2>2. <<0..n, t>> \in R
      BY <1>3, <2>1 DEF StrictSubsetOrdering
    <2> QED
      BY <1>2, <2>1, <2>2
  <1> QED
    BY <1>4

LEMMA MinIsLeast ==
    ASSUME NEW S \in SUBSET Nat, S # {}
    PROVE  Min(S) \in S /\ \A n \in S : Min(S) <= n
  BY HasLeast DEF Min

(* And one with a bound has a greatest.                                    *)
LEMMA HasGreatest ==
    ASSUME NEW S \in SUBSET Nat, S # {}, NEW b \in Nat, \A n \in S : n <= b
    PROVE  \E m \in S : \A n \in S : n <= m
  <1> DEFINE T == {b - n : n \in S}
  <1>1. T \in SUBSET Nat /\ T # {}
    <2>1. \A n \in S : n \in Nat /\ b - n \in Nat
      OBVIOUS
    <2> QED
      BY <2>1
  <1>2. PICK k \in T : \A n \in T : k <= n
    <2> HIDE DEF T
    <2> QED BY <1>1, HasLeast
  <1>3. PICK m \in S : k = b - m
    OBVIOUS
  <1>4. \A n \in S : b - n \in T
    OBVIOUS
  <1>5. ASSUME NEW n \in S
        PROVE  n <= m
    <2>1. b - m <= b - n
      BY <1>2, <1>3, <1>4
    <2>2. n \in Nat /\ m \in Nat
      OBVIOUS
    <2> QED
      BY <2>1, <2>2
  <1> QED
    BY <1>5

LEMMA MaxIsGreatest ==
    ASSUME NEW S \in SUBSET Nat, S # {}, NEW b \in Nat, \A n \in S : n <= b
    PROVE  Max(S) \in S /\ \A n \in S : n <= Max(S)
  <1>1. \E m \in S : \A n \in S : m >= n
    BY HasGreatest
  <1> QED
    BY <1>1 DEF Max

(* A finite set on which a measure is taken has an element of the greatest *)
(* measure, when the measures have a bound.                                *)
LEMMA HasGreatestMeasure ==
    ASSUME NEW S, S # {}, NEW m \in [S -> Nat], NEW b \in Nat, \A x \in S : m[x] <= b
    PROVE  \E x \in S : \A y \in S : m[y] <= m[x]
  <1> DEFINE T == {m[x] : x \in S}
  <1>1. T \in SUBSET Nat /\ T # {} /\ \A n \in T : n <= b
    OBVIOUS
  <1>2. PICK n \in T : \A k \in T : k <= n
    <2> HIDE DEF T
    <2> QED BY <1>1, HasGreatest
  <1> QED
    BY <1>2

LEMMA HasLeastMeasure ==
    ASSUME NEW S, S # {}, NEW m \in [S -> Nat]
    PROVE  \E x \in S : \A y \in S : m[x] <= m[y]
  <1> DEFINE T == {m[x] : x \in S}
  <1>1. T \in SUBSET Nat /\ T # {}
    OBVIOUS
  <1>2. PICK n \in T : \A k \in T : n <= k
    <2> HIDE DEF T
    <2> QED BY <1>1, HasLeast
  <1> QED
    BY <1>2

-----------------------------------------------------------------------------
(* The quantities of a column.                                             *)

(* The mode is a value of the column.                                      *)
LEMMA ModeIsValue ==
    ASSUME NEW cells, IsFiniteSet(DOMAIN cells), NonNull(cells) # {}
    PROVE  Mode(cells) \in Uniq(cells)
  <1> DEFINE m == [v \in Uniq(cells) |-> Freq(cells, v)]
             b == Cardinality(DOMAIN cells)
  <1>1. Uniq(cells) # {}
    BY DEF Uniq
  <1>2. ASSUME NEW v
        PROVE  b \in Nat /\ Freq(cells, v) \in Nat /\ Freq(cells, v) <= b
    <2>1. {i \in DOMAIN cells : cells[i] = v} \in SUBSET DOMAIN cells
      OBVIOUS
    <2> QED
      BY <2>1, FS_Subset, FS_CardinalityType DEF Freq
  <1>3. m \in [Uniq(cells) -> Nat] /\ \A v \in Uniq(cells) : m[v] <= b
    BY <1>2
  <1>4. \E v \in Uniq(cells) : \A w \in Uniq(cells) : m[w] <= m[v]
    <2> HIDE DEF m, b
    <2> QED BY <1>1, <1>2, <1>3, HasGreatestMeasure
  <1>5. \E v \in Uniq(cells) : \A w \in Uniq(cells) : Freq(cells, w) <= Freq(cells, v)
    BY <1>4
  <1> QED
    BY <1>5 DEF Mode

(* A sum of integers, step by step: the function that adds up exists, and  *)
(* what it adds up to is an integer.                                       *)
LEMMA SumExists ==
    ASSUME NEW n \in Nat, NEW term \in [Nat -> Int]
    PROVE  \E f \in [0..n -> Int] :
                f = [i \in 0..n |-> IF i = 0 THEN 0 ELSE f[i - 1] + term[i]]
  <1> DEFINE IsSum(f, k) == \A i \in 0..k : f[i] = IF i = 0 THEN 0 ELSE f[i - 1] + term[i]
             missing == {k \in Nat : \A f \in [0..k -> Int] : ~IsSum(f, k)}
  <1>1. missing = {}
    <2> SUFFICES ASSUME missing # {} PROVE FALSE
      OBVIOUS
    <2>1. PICK m \in missing : \A k \in missing : m <= k
      <3>1. missing \in SUBSET Nat /\ missing # {}
        OBVIOUS
      <3> HIDE DEF missing
      <3> QED BY <3>1, HasLeast
    <2>2. m # 0
      <3>1. [i \in 0..0 |-> 0] \in [0..0 -> Int] /\ IsSum([i \in 0..0 |-> 0], 0)
        OBVIOUS
      <3> QED
        BY <3>1
    <2>3. m \in Nat /\ m - 1 \in Nat /\ m - 1 < m
      BY <2>2
    <2>4. m - 1 \notin missing
      <3> HIDE DEF missing
      <3> QED BY <2>1, <2>3
    <2>5. PICK f \in [0..(m - 1) -> Int] : IsSum(f, m - 1)
      BY <2>3, <2>4
    <2> DEFINE g == [i \in 0..m |-> IF i = m THEN f[m - 1] + term[m] ELSE f[i]]
    <2>6. g \in [0..m -> Int]
      BY <2>2, <2>3
    <2>7. ASSUME NEW i \in 0..m
          PROVE  g[i] = IF i = 0 THEN 0 ELSE g[i - 1] + term[i]
      <3>1. CASE i = m
        BY <2>2, <2>3, <3>1
      <3>2. CASE i # m
        <4>1. i \in 0..(m - 1) /\ g[i] = f[i] /\ (i # 0 => i - 1 \in 0..m /\ i - 1 # m)
          BY <2>3, <3>2
        <4>2. i # 0 => g[i - 1] = f[i - 1]
          BY <4>1
        <4> QED
          BY <2>5, <4>1, <4>2
      <3> QED
        BY <3>1, <3>2
    <2>8. IsSum(g, m)
      BY <2>7
    <2> QED
      BY <2>1, <2>6, <2>8
  <1>2. PICK f \in [0..n -> Int] : IsSum(f, n)
    BY <1>1
  <1>3. f = [i \in 0..n |-> f[i]]
    OBVIOUS
  <1>4. [i \in 0..n |-> f[i]] = [i \in 0..n |-> IF i = 0 THEN 0 ELSE f[i - 1] + term[i]]
    BY <1>2
  <1> QED
    BY <1>3, <1>4

LEMMA SumIsInt ==
    ASSUME NEW n \in Nat, NEW term \in [Nat -> Int], NEW f,
           f = [i \in 0..n |-> IF i = 0 THEN 0 ELSE f[i - 1] + term[i]]
    PROVE  f[n] \in Int
  <1> DEFINE wrong == {i \in 0..n : f[i] \notin Int}
  <1> SUFFICES ASSUME wrong # {} PROVE FALSE
    OBVIOUS
  <1>1. \A i \in 0..n : f[i] = IF i = 0 THEN 0 ELSE f[i - 1] + term[i]
    OBVIOUS
  <1>2. PICK m \in wrong : \A k \in wrong : m <= k
    <2>1. wrong \in SUBSET Nat
      OBVIOUS
    <2> HIDE DEF wrong
    <2> QED BY <2>1, HasLeast
  <1>3. m # 0
    BY <1>1
  <1>4. m - 1 \in 0..n /\ m - 1 \notin wrong
    BY <1>2, <1>3
  <1> QED
    BY <1>1, <1>2, <1>3, <1>4

(* The sum of a column of integers, and their mean.                        *)
LEMMA TotalIsInt ==
    ASSUME NEW cells, IsFiniteSet(DOMAIN cells),
           \A i \in NonNull(cells) : Val(cells[i]) \in Int
    PROVE  Total(cells) \in Int
  <1> DEFINE term == [i \in Nat |-> IF i \in NonNull(cells) THEN Val(cells[i]) ELSE 0]
             n == Cardinality(DOMAIN cells)
  <1>1. n \in Nat /\ term \in [Nat -> Int]
    BY FS_CardinalityType
  <1>2. \A i \in 0..n : term[i] = IF i \in NonNull(cells) THEN Val(cells[i]) ELSE 0
    BY <1>1
  <1> HIDE DEF term
  <1>3. ASSUME NEW f
        PROVE  f = [i \in 0..n |-> IF i = 0 THEN 0
                        ELSE f[i - 1] + IF i \in NonNull(cells) THEN Val(cells[i]) ELSE 0]
               <=> f = [i \in 0..n |-> IF i = 0 THEN 0 ELSE f[i - 1] + term[i]]
    BY <1>2
  <1>4. \E f : f = [i \in 0..n |-> IF i = 0 THEN 0 ELSE f[i - 1] + term[i]]
    BY <1>1, SumExists
  <1>5. \E f : f = [i \in 0..n |-> IF i = 0 THEN 0
                        ELSE f[i - 1] + IF i \in NonNull(cells) THEN Val(cells[i]) ELSE 0]
    BY <1>3, <1>4
  <1> DEFINE total == CHOOSE f :
                f = [i \in 0..n |-> IF i = 0 THEN 0
                        ELSE f[i - 1] + IF i \in NonNull(cells) THEN Val(cells[i]) ELSE 0]
  <1>6. total = [i \in 0..n |-> IF i = 0 THEN 0
                    ELSE total[i - 1] + IF i \in NonNull(cells) THEN Val(cells[i]) ELSE 0]
    BY <1>5
  <1>7. Total(cells) = total[n]
    BY DEF Total
  <1> HIDE DEF n, total
  <1>8. total = [i \in 0..n |-> IF i = 0 THEN 0 ELSE total[i - 1] + term[i]]
    BY <1>3, <1>6
  <1> QED
    BY <1>1, <1>7, <1>8, SumIsInt

(* A rank that is less than the number of rows is that of a value.         *)
LEMMA AtRankIsValue ==
    ASSUME NEW rows, IsFiniteSet(rows), NEW value, \A i \in rows : value[i] \in Int,
           NEW j \in Nat, j < Cardinality(rows)
    PROVE  AtRank(value, rows, j) \in {value[i] : i \in rows}
  <1> DEFINE below(v) == {i \in rows : value[i] < v}
             upto(v) == {i \in rows : value[i] <= v}
             high == {i \in rows : j < Cardinality(upto(value[i]))}
  <1>1. \A v : /\ IsFiniteSet(below(v)) /\ IsFiniteSet(upto(v))
               /\ Cardinality(below(v)) \in Nat /\ Cardinality(upto(v)) \in Nat
               /\ Cardinality(upto(v)) <= Cardinality(rows)
    <2> TAKE v
    <2>1. below(v) \in SUBSET rows /\ upto(v) \in SUBSET rows
      OBVIOUS
    <2>2. Cardinality(rows) \in Nat
      BY FS_CardinalityType
    <2> HIDE DEF below, upto
    <2> QED
      BY <2>1, <2>2, FS_Subset, FS_CardinalityType
  <1> DEFINE m == [i \in rows |-> Cardinality(upto(value[i]))]
             size == Cardinality(rows)
  <1>2. m \in [rows -> Nat] /\ size \in Nat /\ \A i \in rows : m[i] <= size
    BY <1>1, FS_CardinalityType
  <1>3. ASSUME NEW i \in rows, NEW k \in rows, value[i] < value[k]
        PROVE  m[i] < m[k]
    <2>1. upto(value[i]) \in SUBSET upto(value[k]) /\ k \notin upto(value[i]) /\ k \in upto(value[k])
      BY <1>3
    <2>2. upto(value[i]) # upto(value[k])
      BY <2>1
    <2>3. m[i] = Cardinality(upto(value[i])) /\ m[k] = Cardinality(upto(value[k]))
      OBVIOUS
    <2> DEFINE S == upto(value[i])
               T == upto(value[k])
    <2>4. IsFiniteSet(T) /\ Cardinality(S) \in Nat /\ Cardinality(T) \in Nat
      BY <1>1
    <2>5. S \in SUBSET T /\ S # T /\ m[i] = Cardinality(S) /\ m[k] = Cardinality(T)
      BY <2>1, <2>2, <2>3
    <2> HIDE DEF m, S, T
    <2>6. Cardinality(S) <= Cardinality(T) /\ Cardinality(S) # Cardinality(T)
      BY <2>4, <2>5, FS_Subset
    <2> QED
      BY <2>4, <2>5, <2>6
  <1>4. rows # {}
    BY FS_EmptySet
  <1>5. high # {}
    <2>1. PICK i \in rows : \A k \in rows : m[k] <= m[i]
      <3> HIDE DEF m, size
      <3> QED BY <1>2, <1>4, HasGreatestMeasure
    <2>2. ASSUME NEW k \in rows
          PROVE  value[k] <= value[i]
      <3>1. m[i] \in Nat /\ m[k] \in Nat /\ m[k] <= m[i]
        BY <1>2, <2>1
      <3> HIDE DEF m
      <3> QED
        BY <1>3, <3>1
    <2>3. upto(value[i]) = rows
      BY <2>2
    <2> QED
      BY <2>3
  <1>6. PICK i \in high : \A k \in high : m[i] <= m[k]
    <2> DEFINE h == [k \in high |-> m[k]]
    <2>1. h \in [high -> Nat]
      BY <1>2
    <2>2. \E i \in high : \A k \in high : h[i] <= h[k]
      <3> HIDE DEF h, high
      <3> QED BY <1>5, <2>1, HasLeastMeasure
    <2> QED
      BY <2>2
  <1>7. Cardinality(below(value[i])) <= j
    <2>1. CASE below(value[i]) = {}
      BY <2>1, FS_EmptySet
    <2>2. CASE below(value[i]) # {}
      <3> DEFINE low == below(value[i])
                 h == [k \in low |-> m[k]]
      <3>1. h \in [low -> Nat] /\ \A k \in low : h[k] <= size
        BY <1>2
      <3>2. \E k \in low : \A l \in low : h[l] <= h[k]
        <4>1. low # {}
          BY <2>2
        <4> HIDE DEF h, low, size
        <4> QED BY <1>2, <3>1, <4>1, HasGreatestMeasure
      <3>3. PICK k \in low : \A l \in low : m[l] <= m[k]
        BY <3>2
      <3>4. k \in rows /\ value[k] < value[i]
        OBVIOUS
      <3>5. m[k] < m[i]
        <4> HIDE DEF m
        <4> QED BY <1>3, <3>4
      <3>6. k \notin high
        <4>1. i \in rows /\ m[i] \in Nat /\ m[k] \in Nat
          BY <1>2, <3>4
        <4> HIDE DEF m, high
        <4> QED BY <1>6, <3>5, <4>1
      <3>7. m[k] <= j
        BY <1>2, <3>4, <3>6
      <3>8. ASSUME NEW l \in rows
            PROVE  value[l] < value[i] <=> value[l] <= value[k]
        <4>1. ASSUME value[l] < value[i]
              PROVE  value[l] <= value[k]
          <5>1. l \in low
            BY <4>1
          <5>2. m[l] <= m[k]
            BY <3>3, <5>1
          <5>3. m[l] \in Nat /\ m[k] \in Nat
            BY <1>2, <3>4
          <5> HIDE DEF m
          <5> QED
            BY <1>3, <3>4, <5>2, <5>3
        <4> QED
          BY <3>4, <4>1
      <3>9. below(value[i]) = upto(value[k])
        BY <3>8
      <3> QED
        BY <3>4, <3>7, <3>9
    <2> QED
      BY <2>1, <2>2
  <1>8. \E v \in {value[k] : k \in rows} :
            /\ Cardinality({k \in rows : value[k] < v}) <= j
            /\ j < Cardinality({k \in rows : value[k] <= v})
    BY <1>6, <1>7
  <1> QED
    BY <1>8 DEF AtRank

(* A column of dates has a mean and a median that are days.                *)
LEMMA MiddleIsInt ==
    ASSUME NEW cells, IsFiniteSet(DOMAIN cells), NonNull(cells) # {},
           \A i \in NonNull(cells) : Val(cells[i]) \in Int
    PROVE  Mean(cells) \in Int /\ Median(cells) \in Int
  <1> DEFINE n == Size(cells)
             rows == NonNull(cells)
             value == Values(cells)
  <1>1. IsFiniteSet(rows) /\ n \in Nat /\ n # 0 /\ n = Cardinality(rows)
    <2>1. rows \in SUBSET DOMAIN cells
      BY DEF NonNull
    <2> HIDE DEF rows
    <2>2. IsFiniteSet(rows)
      BY <2>1, FS_Subset
    <2> QED
      BY <2>2, FS_CardinalityType, FS_EmptySet DEF Size, rows
  <1>2. Mean(cells) \in Int
    <2>1. Total(cells) \in Int
      BY TotalIsInt
    <2> HIDE DEF n
    <2> QED
      BY <1>1, <2>1 DEF Mean, n
  <1>3. \A i \in rows : value[i] \in Int
    BY DEF Values
  <1>4. ASSUME NEW j \in Nat, j < n
        PROVE  Rank(cells, j) \in Int
    <2> HIDE DEF rows, value
    <2>1. AtRank(value, rows, j) \in {value[i] : i \in rows}
      BY <1>1, <1>3, <1>4, AtRankIsValue
    <2>2. Rank(cells, j) = AtRank(value, rows, j)
      BY DEF Rank, rows, value
    <2> QED
      BY <1>3, <2>1, <2>2
  <1>5. Median(cells) \in Int
    <2> HIDE DEF n
    <2>1. n \div 2 \in Nat /\ n \div 2 < n
      BY <1>1
    <2>2. CASE n % 2 = 1
      BY <1>4, <2>1, <2>2 DEF Median, n
    <2>3. CASE n % 2 # 1
      <3>1. n \div 2 - 1 \in Nat /\ n \div 2 - 1 < n
        BY <1>1, <2>3
      <3>2. Rank(cells, n \div 2) \in Int /\ Rank(cells, n \div 2 - 1) \in Int
        BY <1>4, <2>1, <3>1
      <3>3. Median(cells) = (Rank(cells, n \div 2 - 1) + Rank(cells, n \div 2)) \div 2
        BY <2>3 DEF Median, n
      <3> QED
        BY <3>2, <3>3
    <2> QED
      BY <2>2, <2>3
  <1> QED
    BY <1>2, <1>5

(* Every position of a set of rows is that of a row.                       *)
LEMMA NthIsRow ==
    ASSUME NEW n \in Nat, NEW rows \in SUBSET (1..n), NEW j \in 1..Cardinality(rows)
    PROVE  Nth(rows, j) \in rows
  <1> DEFINE N == Cardinality(rows)
             m == [i \in rows |-> Cardinality({h \in rows : h < i})]
  <1>1. IsFiniteSet(rows) /\ N \in Nat
    <2>1. IsFiniteSet(1..n)
      BY FS_Interval
    <2> QED BY <2>1, FS_Subset, FS_CardinalityType
  <1>2. ASSUME NEW i \in rows
        PROVE  m[i] \in 0..(N - 1)
    <2> DEFINE S == {h \in rows : h < i}
    <2>1. S \in SUBSET rows /\ i \in rows /\ i \notin S /\ m[i] = Cardinality(S)
      OBVIOUS
    <2> HIDE DEF S, m
    <2>2. Cardinality(S) \in Nat /\ Cardinality(S) <= N /\ Cardinality(S) # N
      BY <1>1, <2>1, FS_Subset, FS_CardinalityType
    <2> HIDE DEF N
    <2> QED
      BY <1>1, <2>1, <2>2
  <1>3. ASSUME NEW i \in rows, NEW k \in rows, i < k
        PROVE  m[i] # m[k]
    <2> DEFINE S == {h \in rows : h < i}
               T == {h \in rows : h < k}
    <2>0. \A h \in rows : h \in Int /\ (h < i => h < k)
      <3>1. \A h \in rows : h \in Int
        OBVIOUS
      <3> QED BY <1>3, <3>1
    <2>1. S \in SUBSET T /\ i \in T /\ i \notin S /\ T \in SUBSET rows
      <3>1. S \in SUBSET T
        BY <2>0
      <3>2. i \in T
        BY <1>3
      <3>3. ~(i < i)
        BY <2>0
      <3>4. T \in SUBSET rows /\ i \notin S
        BY <3>3
      <3> QED BY <3>1, <3>2, <3>4
    <2>2. m[i] = Cardinality(S) /\ m[k] = Cardinality(T)
      OBVIOUS
    <2> HIDE DEF S, T, m
    <2>3. IsFiniteSet(T)
      BY <1>1, <2>1, FS_Subset
    <2> QED
      BY <2>1, <2>2, <2>3, FS_Subset
  <1>4. \A i, k \in rows : m[i] = m[k] => i = k
    <2> HIDE DEF m
    <2> QED BY <1>3
  <1>5. m \in Injection(rows, 0..(N - 1))
    <2>1. m = [i \in rows |-> m[i]]
      OBVIOUS
    <2> HIDE DEF m
    <2> QED BY <1>2, <1>4, <2>1 DEF Injection, IsInjective
  <1>6. IsFiniteSet(0..(N - 1)) /\ Cardinality(0..(N - 1)) = N
    <2> HIDE DEF N
    <2> QED BY <1>1, FS_Interval
  <1>7. m \in Surjection(rows, 0..(N - 1))
    <2> HIDE DEF m
    <2> QED BY <1>5, <1>6, FS_Injection
  <1>8. \E i \in rows : m[i] = j - 1
    <2>1. j - 1 \in 0..(N - 1)
      BY <1>1
    <2> HIDE DEF m
    <2> QED BY <1>7, <2>1 DEF Surjection
  <1>9. \E i \in rows : Cardinality({h \in rows : h < i}) = j - 1
    BY <1>8
  <1> QED
    BY <1>9 DEF Nth

-----------------------------------------------------------------------------
(* Cells.                                                                  *)

LEMMA Parts ==
    ASSUME NEW a, NEW b
    PROVE  Kind(<<a, b>>) = a /\ Val(<<a, b>>) = b /\ <<a, b>> # Null
  BY DEF Kind, Val, Null

(* A text is a cell, and what tells cells apart is their kind.             *)
LEMMA TextIsCell ==
    ASSUME NEW s, IsText(s)
    PROVE  IsCell(<<"str", s>>) /\ IsStr(<<"str", s>>)
  BY Parts DEF IsCell, IsStr

LEMMA StrIsCell ==
    ASSUME NEW shape, NEW k, shape \in {"isodate", "isomoment", "slashdate"} => k \in Int
    PROVE  IsCell(Str(shape, k)) /\ IsStr(Str(shape, k)) /\ Str(shape, k) # Null
  <1>1. IsText([shape |-> shape, k |-> k, upper |-> FALSE, pad |-> FALSE, dup |-> FALSE])
    BY DEF IsText
  <1> QED
    BY <1>1, TextIsCell, Parts DEF Str

(* The changes of a text leave a text of the same family.                  *)
LEMMA EditIsText ==
    ASSUME NEW s, IsText(s), NEW b \in BOOLEAN
    PROVE  /\ IsText([s EXCEPT !.pad = b]) /\ [s EXCEPT !.pad = b].shape = s.shape
           /\ IsText([s EXCEPT !.upper = b]) /\ IsText([s EXCEPT !.dup = b])
           /\ [s EXCEPT !.pad = b].dup = s.dup /\ [s EXCEPT !.pad = b].k = s.k
           /\ [s EXCEPT !.pad = b].upper = s.upper
  <1> DEFINE t(u, p, d) == [shape |-> s.shape, k |-> s.k, upper |-> u, pad |-> p, dup |-> d]
  <1>1. s = t(s.upper, s.pad, s.dup) /\ {s.upper, s.pad, s.dup} \subseteq BOOLEAN
    BY DEF IsText
  <1>2. \A u, p, d \in BOOLEAN : IsText(t(u, p, d))
    BY DEF IsText
  <1>3. /\ [s EXCEPT !.pad = b] = t(s.upper, b, s.dup)
        /\ [s EXCEPT !.upper = b] = t(b, s.pad, s.dup)
        /\ [s EXCEPT !.dup = b] = t(s.upper, s.pad, b)
    BY <1>1
  <1>4. IsText(t(s.upper, b, s.dup)) /\ IsText(t(b, s.pad, s.dup)) /\ IsText(t(s.upper, s.pad, b))
    BY <1>1, <1>2
  <1>5. t(s.upper, b, s.dup).shape = s.shape /\ t(s.upper, b, s.dup).k = s.k
        /\ t(s.upper, b, s.dup).dup = s.dup /\ t(s.upper, b, s.dup).upper = s.upper
    OBVIOUS
  <1> HIDE DEF t
  <1> QED
    BY <1>3, <1>4, <1>5

LEMMA EditsAreTexts ==
    ASSUME NEW x, IsCell(x), IsStr(x)
    PROVE  \A y \in {Padded(x), Unpadded(x), Lower(x), Upper(x), WithDup(x), WithoutDup(x)} :
                IsCell(y) /\ IsStr(y) /\ y # Null
  <1>1. IsText(Val(x))
    BY DEF IsCell, IsStr, Null, Kind, Temporal
  <1>2. ASSUME NEW s, IsText(s)
        PROVE  IsCell(<<"str", s>>) /\ IsStr(<<"str", s>>) /\ <<"str", s>> # Null
    BY <1>2, TextIsCell, Parts
  <1>3. /\ IsText([Val(x) EXCEPT !.pad = TRUE]) /\ IsText([Val(x) EXCEPT !.pad = FALSE])
        /\ IsText([Val(x) EXCEPT !.upper = TRUE]) /\ IsText([Val(x) EXCEPT !.upper = FALSE])
        /\ IsText([Val(x) EXCEPT !.dup = TRUE]) /\ IsText([Val(x) EXCEPT !.dup = FALSE])
    BY <1>1, EditIsText
  <1> QED
    BY <1>2, <1>3 DEF Padded, Unpadded, Lower, Upper, WithDup, WithoutDup

LEMMA StripIsCell ==
    ASSUME NEW x, IsCell(x)
    PROVE  IsCell(Stripped(x)) /\ (Stripped(x) = Null \/ Kind(Stripped(x)) = Kind(x))
  BY EditsAreTexts DEF Stripped, Strip, IsCell, IsStr

LEMMA TextOfCell ==
    ASSUME NEW x, IsCell(x), x # Null
    PROVE  IsCell(Text(x)) /\ IsStr(Text(x)) /\ Text(x) # Null
  <1>1. CASE IsStr(x)
    BY <1>1 DEF Text
  <1>2. CASE Kind(x) = "date"
    <2>1. Val(x) \in Int /\ Text(x) = Str("isodate", Val(x))
      BY <1>2 DEF IsCell, Text, IsStr, Temporal
    <2> QED BY <2>1, StrIsCell
  <1>3. CASE Kind(x) = "num"
    <2>1. Text(x) = Str("digits", Val(x))
      BY <1>3 DEF Text, IsStr, Digits
    <2> QED BY <2>1, StrIsCell
  <1>5. CASE Kind(x) = "datetime"
    <2>1. Val(x) \in Int /\ Text(x) = Str("isomoment", Val(x))
      BY <1>5 DEF IsCell, Text, IsStr, Temporal
    <2> QED BY <2>1, StrIsCell
  <1>4. CASE Kind(x) = "bool"
    <2>1. Text(x) = Str("true", 0) \/ Text(x) = Str("false", 0)
      BY <1>4 DEF Text, IsStr
    <2> QED BY <2>1, StrIsCell
  <1> QED
    BY <1>1, <1>2, <1>3, <1>4, <1>5 DEF IsCell, IsStr, Temporal

(* Which kinds there are.                                                  *)
LEMMA Kinds ==
    ASSUME NEW x, IsCell(x)
    PROVE  /\ x # Null => Kind(x) \in {"num", "date", "datetime", "bool", "str"}
           /\ x = Null <=> Kind(x) = "null"
           /\ Kind(x) \in Temporal => Val(x) \in Int
           /\ x # Infinite
  BY DEF IsCell, Null, Kind, Temporal, Infinite

(* The number of a date's or a moment's text, and half of a number.        *)
LEMMA WrittenIsInt ==
    ASSUME NEW x, IsCell(x), NEW shape \in {"isodate", "isomoment"}, Written(x, shape)
    PROVE  Val(x).k \in Int
  <1>1. IsStr(x) /\ Val(x).shape = shape
    BY DEF Written, Shape
  <1>2. IsText(Val(x))
    BY <1>1 DEF IsCell, IsStr, Null, Kind, Temporal
  <1> QED
    BY <1>1, <1>2 DEF IsText

LEMMA HalvesAreInts == \A h \in Int : h \div HalfDays \in Int
  BY DEF HalfDays

(* A cast that does not fail makes a cell of the target's kind.            *)
LEMMA CastIsCell ==
    ASSUME NEW x, IsCell(x), NEW target \in {"num", "date", "datetime", "bool", "str"},
           Castable(x, target)
    PROVE  /\ IsCell(CastTo(x, target))
           /\ CastTo(x, target) = Null \/ Kind(CastTo(x, target)) = target
  <1>1. CASE x = Null \/ Kind(x) = target
    BY <1>1 DEF CastTo
  <1>2. CASE ~(x = Null \/ Kind(x) = target) /\ target = "str"
    <2>1. CastTo(x, target) = Text(x)
      BY <1>2 DEF CastTo
    <2> QED BY <1>2, <2>1, TextOfCell DEF IsStr
  <1>3. CASE ~(x = Null \/ Kind(x) = target) /\ target = "bool"
    <2> DEFINE b == IF IsStr(x) THEN Shape(x) = "true" ELSE Val(x) # 0
    <2>1. CastTo(x, target) = Bool(b)
      BY <1>3 DEF CastTo
    <2>2. b \in BOOLEAN
      OBVIOUS
    <2> HIDE DEF b
    <2> QED BY <1>3, <2>1, <2>2, Parts DEF Bool, IsCell
  <1>5. CASE ~(x = Null \/ Kind(x) = target) /\ target = "date"
    <2> DEFINE v == IF IsStr(x) THEN Val(x).k ELSE Day(x)
    <2>1. CastTo(x, target) = <<"date", v>>
      BY <1>5 DEF CastTo, Date
    <2>2. IsDay(x) \/ Kind(x) = "datetime" \/ Written(x, "isodate")
      BY <1>5 DEF Castable
    <2>3. IsDay(x) => v \in Int
      BY DEF IsDay, IsNumber, IsStr, Day
    <2>4. Kind(x) = "datetime" => v \in Int
      BY Kinds, HalvesAreInts DEF IsStr, Day, Temporal
    <2>5. Written(x, "isodate") => v \in Int
      BY WrittenIsInt DEF Written
    <2> HIDE DEF v
    <2> QED BY <1>5, <2>1, <2>2, <2>3, <2>4, <2>5, Parts DEF IsCell, Temporal
  <1>6. CASE ~(x = Null \/ Kind(x) = target) /\ target = "datetime"
    <2> DEFINE v == HalfDaysOf(x)
    <2>1. CastTo(x, target) = <<"datetime", v>>
      BY <1>6 DEF CastTo, Moment
    <2>2. IsNumber(x) \/ Kind(x) = "date" \/ Written(x, "isodate") \/ Written(x, "isomoment")
      BY <1>6 DEF Castable, IsoWritten
    <2>3. IsNumber(x) => v \in Int
      BY DEF IsNumber, IsStr, HalfDaysOf, Written
    <2>4. Kind(x) = "date" => v \in Int
      BY Kinds DEF IsStr, HalfDaysOf, HalfDays, Written, Temporal
    <2>5. Written(x, "isodate") => v \in Int
      BY WrittenIsInt DEF Written, HalfDaysOf, HalfDays
    <2>6. Written(x, "isomoment") => v \in Int
      BY WrittenIsInt DEF HalfDaysOf
    <2> HIDE DEF v
    <2> QED BY <1>6, <2>1, <2>2, <2>3, <2>4, <2>5, <2>6, Parts DEF IsCell, Temporal
  <1>4. CASE ~(x = Null \/ Kind(x) = target) /\ target = "num"
    <2> DEFINE v == IF IsStr(x) THEN Val(x).k
                    ELSE IF Kind(x) = "bool" THEN IF Val(x) THEN 1 ELSE 0
                    ELSE Val(x)
    <2>1. CastTo(x, target) = <<target, v>>
      BY <1>4 DEF CastTo
    <2> HIDE DEF v
    <2> QED BY <1>4, <2>1, Parts DEF IsCell
  <1> QED
    BY <1>1, <1>2, <1>3, <1>4, <1>5, <1>6

-----------------------------------------------------------------------------
(* Columns and data frames.                                                *)

IsColumn(column, n) ==
    /\ DOMAIN column.cells = 1..n
    /\ \A i \in 1..n : IsCell(column.cells[i])
    /\ Fits(column.dtype, column.cells)

LEMMA ColumnOf ==
    ASSUME NEW column, NEW n, DOMAIN column.cells = 1..n,
           \A i \in 1..n : /\ IsCell(column.cells[i])
                           /\ column.cells[i] = Null \/ Kind(column.cells[i]) = column.dtype
    PROVE  IsColumn(column, n)
  BY Kinds DEF IsColumn, Fits

LEMMA FrameColumns ==
    ASSUME NEW t, IsFrame(t)
    PROVE  \E n \in Nat : AllRows(t) = 1..n /\ \A c \in DOMAIN t : IsColumn(t[c], n)
  <1>1. Cardinality(AllRows(t)) \in Nat
    BY FS_CardinalityType DEF IsFrame
  <1> QED
    BY <1>1 DEF IsFrame, IsColumn, Cells

LEMMA ColumnsFrame ==
    ASSUME NEW t, NEW n \in Nat, IsFiniteSet(DOMAIN t), \A c \in DOMAIN t : IsColumn(t[c], n)
    PROVE  IsFrame(t) /\ (DOMAIN t # {} => AllRows(t) = 1..n)
  <1>1. DOMAIN t # {} => AllRows(t) = 1..n
    BY DEF AllRows, IsColumn, Cells
  <1>2. DOMAIN t = {} => AllRows(t) = {}
    BY DEF AllRows
  <1>3. /\ IsFiniteSet({}) /\ Cardinality({}) = 0 /\ 1..0 = {}
        /\ IsFiniteSet(1..n) /\ Cardinality(1..n) = n
    BY FS_EmptySet, FS_Interval
  <1> QED
    BY <1>1, <1>2, <1>3 DEF IsFrame, IsColumn, Cells

(* A coerced column fits its type.                                         *)
LEMMA CoercedIsColumn ==
    ASSUME NEW n \in Nat, NEW types, NEW cells, DOMAIN cells = 1..n, types # {},
           \A i \in 1..n : IsCell(cells[i]) /\ (cells[i] = Null \/ Kind(cells[i]) \in types)
    PROVE  IsColumn(Coerced(types, cells), n)
  <1> DEFINE dtype == IF \E d \in types : types = {d} THEN CHOOSE d \in types : TRUE
                      ELSE IF "str" \in types THEN "str"
                      ELSE IF types \subseteq Temporal THEN "datetime" ELSE "num"
             new == [i \in DOMAIN cells |-> CastTo(cells[i], dtype)]
  <1>1. Coerced(types, cells) = Column(dtype, new)
    BY DEF Coerced
  <1>2. ASSUME NEW i \in 1..n
        PROVE  IsCell(CastTo(cells[i], dtype))
               /\ (CastTo(cells[i], dtype) = Null \/ Kind(CastTo(cells[i], dtype)) = dtype)
    <2>1. CASE cells[i] = Null \/ \E d \in types : types = {d}
      <3>1. cells[i] = Null \/ Kind(cells[i]) = dtype
        BY <2>1
      <3> HIDE DEF dtype
      <3>2. CastTo(cells[i], dtype) = cells[i]
        BY <3>1 DEF CastTo
      <3> QED BY <3>1, <3>2
    <2>2. CASE cells[i] # Null /\ ~ \E d \in types : types = {d}
      <3>1. dtype = IF "str" \in types THEN "str"
                    ELSE IF types \subseteq Temporal THEN "datetime" ELSE "num"
        BY <2>2
      <3>2. IsCell(cells[i]) /\ Kind(cells[i]) \in {"num", "date", "datetime", "bool", "str"}
            /\ Kind(cells[i]) \in types
        BY <2>2, Kinds
      <3> HIDE DEF dtype
      <3>3. Castable(cells[i], dtype) /\ dtype \in {"num", "date", "datetime", "bool", "str"}
        BY <3>1, <3>2 DEF Castable, Temporal
      <3> QED BY <3>2, <3>3, CastIsCell
    <2> QED BY <2>1, <2>2
  <1> HIDE DEF dtype
  <1> QED
    BY <1>1, <1>2, Kinds DEF IsColumn, Fits, Column

(* A column that is written is still one, and a text column stays one.  An *)
(* infinite number is not written.                                         *)
LEMMA WriteIsColumn ==
    ASSUME NEW n \in Nat, NEW column, IsColumn(column, n),
           NEW cells, DOMAIN cells = 1..n,
           \A i \in 1..n : IsCell(cells[i]) \/ cells[i] = Infinite
    PROVE  /\ IsColumn(WriteStrict(column, cells), n)
           /\ IsColumn(WriteOrText(column, cells), n)
           /\ WriteStrict(column, cells).dtype = column.dtype
           /\ WriteOrText(column, cells).dtype \in {column.dtype, "str"}
  <1>1. Infinite # Null
    BY Parts DEF Infinite
  <1> QED
    BY <1>1 DEF IsColumn, WriteStrict, WriteOrText, Column, Fits

=============================================================================
