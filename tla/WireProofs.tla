----------------------------- MODULE WireProofs -----------------------------
(***************************************************************************)
(* The wire parser against tilings, for every byte string. Its loop is a   *)
(* recursive function of the position; that this function exists, and what *)
(* it returns, is shown by induction over sets of positions.               *)
(***************************************************************************)
EXTENDS WireProps, RanksProofs

-----------------------------------------------------------------------------
(***************************************************************************)
(* Induction up and down an interval.                                      *)
(***************************************************************************)
LEMMA Upward ==
  ASSUME NEW a \in Nat, NEW b \in Nat, NEW S, a \in S,
         \A n \in a..(b - 1) : n \in S => n + 1 \in S
  PROVE  a..b \subseteq S
<1> DEFINE T == (a..b) \ S
<1> SUFFICES ASSUME T # {} PROVE FALSE
  OBVIOUS
<1>1. PICK n \in T : \A m \in T : n <= m
  <2>1. T \in SUBSET Nat
    OBVIOUS
  <2> HIDE DEF T
  <2> QED
    BY <2>1, LeastElement
<1>2. n # a /\ n \in a..b
  OBVIOUS
<1>3. n - 1 \in a..(b - 1) /\ n - 1 \notin T
  BY <1>1, <1>2
<1> QED
  BY <1>2, <1>3

LEMMA Downward ==
  ASSUME NEW b \in Nat, NEW S,
         \A n \in 0..b : (\A m \in (n + 1)..b : m \in S) => n \in S
  PROVE  0..b \subseteq S
<1> DEFINE T == {b - n : n \in (0..b) \ S}
<1> SUFFICES ASSUME T # {} PROVE FALSE
  OBVIOUS
<1>1. PICK x \in T : \A y \in T : x <= y
  <2>1. T \in SUBSET Nat
    OBVIOUS
  <2> HIDE DEF T
  <2> QED
    BY <2>1, LeastElement
<1>2. PICK n \in (0..b) \ S : x = b - n
  OBVIOUS
<1>3. ASSUME NEW m \in (n + 1)..b PROVE m \in S
  <2>1. CASE m \notin S
    <3>1. m \in (0..b) \ S
      BY <2>1, <1>2, <1>3
    <3>2. b - m \in T
      BY <3>1
    <3>3. b - n <= b - m
      BY <3>2, <1>1, <1>2
    <3> HIDE DEF T
    <3> QED
      BY <3>1, <3>3, <1>2, <1>3
  <2> QED
    BY <2>1
<1> QED
  BY <1>2, <1>3

-----------------------------------------------------------------------------
(***************************************************************************)
(* Varints.                                                                *)
(***************************************************************************)
LEMMA MinIs ==
  ASSUME NEW S \in SUBSET Nat, S # {}
  PROVE  Min(S) \in S /\ \A x \in S : Min(S) <= x
<1>1. PICK n \in S : \A m \in S : n <= m
  BY LeastElement
<1> QED
  BY <1>1 DEF Min

\* A sum is a function of where it ends.
IsSum(f, a, b, g) == f = [l \in a..b |-> IF l = a THEN 0 ELSE f[l - 1] + g[l]]
LEMMA SumExists ==
  ASSUME NEW a \in Nat, NEW b \in Nat, a <= b, NEW g
  PROVE  \E f : IsSum(f, a, b, g)
<1> DEFINE Sums(f, n) == f = [l \in a..n |-> IF l = a THEN 0 ELSE f[l - 1] + g[l]]
           S == {n \in a..b : \E f : Sums(f, n)}
<1>1. a \in S
  <2>1. Sums([l \in a..a |-> 0], a)
    OBVIOUS
  <2> HIDE DEF Sums
  <2> QED
    BY <2>1
<1>2. ASSUME NEW n \in a..(b - 1), n \in S PROVE n + 1 \in S
  <2>1. PICK f : Sums(f, n)
    BY <1>2
  <2> DEFINE h == [l \in a..(n + 1) |-> IF l = n + 1 THEN f[n] + g[n + 1] ELSE f[l]]
  <2>2. ASSUME NEW l \in a..(n + 1) PROVE h[l] = IF l = a THEN 0 ELSE h[l - 1] + g[l]
    <3>1. CASE l = n + 1
      <4>1. h[n + 1] = f[n] + g[n + 1] /\ h[n] = f[n]
        OBVIOUS
      <4> HIDE DEF h
      <4> QED
        BY <3>1, <4>1
    <3>2. CASE l = a
      <4>1. h[a] = f[a] /\ f[a] = 0
        BY <2>1
      <4> QED
        BY <3>2, <4>1
    <3>3. CASE l # a /\ l # n + 1
      <4>1. h[l] = f[l] /\ h[l - 1] = f[l - 1]
        BY <3>3
      <4>2. f[l] = f[l - 1] + g[l]
        BY <2>1, <3>3
      <4> QED
        BY <3>3, <4>1, <4>2
    <3> QED
      BY <3>1, <3>2, <3>3
  <2>3. Sums(h, n + 1)
    <3>1. h = [l \in a..(n + 1) |-> h[l]]
      OBVIOUS
    <3> HIDE DEF h
    <3> QED
      BY <2>2, <3>1
  <2> HIDE DEF h, Sums
  <2> QED
    BY <2>3
<1>3. a..b \subseteq S
  <2> HIDE DEF S
  <2> QED
    BY <1>1, <1>2, Upward
<1>4. \E f : Sums(f, b)
  <2> HIDE DEF Sums
  <2> QED
    BY <1>3
<1> QED
  BY <1>4 DEF IsSum

LEMMA StringType ==
  ASSUME NEW d \in Seq(Byte)
  PROVE  Len(d) \in Nat /\ \A l \in 1..Len(d) : d[l] \in Nat
<1>1. Len(d) \in Nat /\ \A l \in 1..Len(d) : d[l] \in Byte
  OBVIOUS
<1>2. Byte \subseteq Nat
  BY DEF Byte
<1> QED
  BY <1>1, <1>2

Septet(d, i, l) == ((d[l] % 128) * 128^(l - i - 1)) % Word

LEMMA SeptetType ==
  ASSUME NEW d \in Seq(Byte), NEW i \in 0..Len(d), NEW l \in (i + 1)..Len(d)
  PROVE  Septet(d, i, l) \in Nat
<1>1. d[l] % 128 \in Int
  <2>1. l \in 1..Len(d)
    BY StringType
  <2>2. d[l] \in Nat
    BY <2>1, StringType
  <2> QED
    BY <2>2
<1>2. 128^(l - i - 1) \in Int
  OBVIOUS
<1> DEFINE x == (d[l] % 128) * 128^(l - i - 1)
<1>3. x \in Int
  BY <1>1, <1>2
<1> HIDE DEF x
<1>4. x % Word \in Nat
  BY <1>3, WordAssumption
<1> QED
  BY <1>4 DEF Septet, x

LEMMA VarintValueType ==
  ASSUME NEW d \in Seq(Byte), NEW i \in 0..Len(d), NEW j \in i..Len(d)
  PROVE  VarintValue(d, i, j) \in Nat
<1> DEFINE Sums(f) == f = [l \in i..j |-> IF l = i THEN 0 ELSE f[l - 1] + Septet(d, i, l)]
           value == CHOOSE f : Sums(f)
<1>1. \E f : Sums(f)
  <2> DEFINE g == [l \in (i + 1)..j |-> Septet(d, i, l)]
  <2>1. PICK f : IsSum(f, i, j, g)
    <3>1. i \in Nat /\ j \in Nat /\ i <= j
      BY StringType
    <3> HIDE DEF g
    <3> QED
      BY <3>1, SumExists
  <2>2. \A l \in (i + 1)..j : g[l] = Septet(d, i, l)
    OBVIOUS
  <2> HIDE DEF g
  <2>3. Sums(f)
    BY <2>1, <2>2 DEF IsSum
  <2> QED
    BY <2>3
<1>2. Sums(value)
  <2> HIDE DEF Sums
  <2> QED
    BY <1>1
<1>3. VarintValue(d, i, j) = value[j]
  BY DEF VarintValue, Septet
<1> DEFINE S == {n \in i..j : value[n] \in Nat}
<1>n. i \in Nat /\ j \in Nat /\ i <= j
  BY StringType
<1> HIDE DEF value
<1>4. i \in S
  BY <1>2, <1>n
<1>5. ASSUME NEW n \in i..(j - 1), n \in S PROVE n + 1 \in S
  <2>1. value[n + 1] = value[n] + Septet(d, i, n + 1)
    BY <1>2
  <2>2. Septet(d, i, n + 1) \in Nat
    BY SeptetType
  <2> QED
    BY <1>5, <2>1, <2>2
<1>6. i..j \subseteq S
  <2> HIDE DEF S
  <2> QED
    BY <1>n, <1>4, <1>5, Upward
<1> QED
  BY <1>n, <1>3, <1>6

\* readVarint finds the varint after the i-th byte, of which there is at most one.
LEMMA ReadVarintIs ==
  ASSUME NEW d \in Seq(Byte), NEW i \in 0..Len(d)
  PROVE  LET v == ReadVarint(d, i) IN
         /\ v.n \in Nat
         /\ v.n = 0 => v.value = 0
         /\ v.n # 0 => /\ i + v.n \in (i + 1)..Len(d)
                       /\ v.value = VarintValue(d, i, i + v.n) /\ v.value \in Nat
         /\ \A j \in (i + 1)..Len(d) : IsVarint(d, i, j) <=> v.n # 0 /\ j = i + v.n
<1> DEFINE N == Len(d)
           lasts == {j \in (i + 1)..N : j <= i + MaxVarintBytes /\ d[j] < 128}
           v == ReadVarint(d, i)
<1>0. N \in Nat /\ MaxVarintBytes \in Nat /\ \A l \in 1..N : d[l] \in Int
  BY WordAssumption, StringType
<1>1. CASE lasts = {}
  <2>1. v = [value |-> 0, n |-> 0]
    BY <1>1 DEF ReadVarint
  <2>2. \A j \in (i + 1)..N : ~IsVarint(d, i, j)
    BY <1>0, <1>1 DEF IsVarint
  <2> QED
    BY <2>1, <2>2
<1>2. CASE lasts # {}
  <2>1. Min(lasts) \in lasts /\ \A j \in lasts : Min(lasts) <= j
    <3>1. lasts \in SUBSET Nat
      BY <1>0
    <3> HIDE DEF lasts
    <3> QED
      BY <1>2, <3>1, MinIs
  <2>2. v = [value |-> VarintValue(d, i, Min(lasts)), n |-> Min(lasts) - i]
    BY <1>2 DEF ReadVarint
  <2> DEFINE m == Min(lasts)
  <2>3. m \in (i + 1)..N /\ m <= i + MaxVarintBytes /\ d[m] < 128
    BY <2>1
  <2>4. \A j \in (i + 1)..N : j <= i + MaxVarintBytes /\ d[j] < 128 => m <= j
    BY <2>1
  <2> HIDE DEF lasts, m
  <2>5. v.n = m - i /\ v.value = VarintValue(d, i, m) /\ i + v.n = m
    BY <2>2, <2>3, <1>0 DEF m
  <2>6. VarintValue(d, i, m) \in Nat
    BY <2>3, <1>0, VarintValueType
  <2>7. IsVarint(d, i, m)
    BY <2>3, <2>4, <1>0 DEF IsVarint
  <2>8. ASSUME NEW j \in (i + 1)..N, IsVarint(d, i, j) PROVE j = m
    <3>1. m <= j
      BY <2>4, <2>8, <1>0 DEF IsVarint
    <3>2. ~(m < j)
      BY <2>3, <2>8, <1>0 DEF IsVarint
    <3> QED
      BY <3>1, <3>2, <2>3, <1>0
  <2> QED
    BY <2>3, <2>5, <2>6, <2>7, <2>8, <1>0
<1> QED
  BY <1>1, <1>2

-----------------------------------------------------------------------------
(***************************************************************************)
(* One field: where its value ends, and what follows a position.           *)
(***************************************************************************)
LEMMA FieldEndIs ==
  ASSUME NEW d \in Seq(Byte), NEW i \in 0..Len(d), NEW wire \in Nat
  PROVE  LET end == FieldEnd(d, i, wire) IN
         /\ end = Failed \/ end \in (i + 1)..Len(d)
         /\ \A j \in i..Len(d) : IsValue(d, i, j, wire) <=> end = j
<1> DEFINE N == Len(d)
           v == ReadVarint(d, i)
           end == FieldEnd(d, i, wire)
<1>0. N \in Nat /\ i \in Nat /\ Size32 \in Nat \ {0} /\ Size64 \in Nat \ {0}
  BY StringType, SizeAssumption
<1>1. /\ v.n \in Nat
      /\ v.n # 0 => /\ i + v.n \in (i + 1)..N
                    /\ v.value = VarintValue(d, i, i + v.n) /\ v.value \in Nat
      /\ \A j \in (i + 1)..N : IsVarint(d, i, j) <=> v.n # 0 /\ j = i + v.n
  BY ReadVarintIs
<1>2. ~IsVarint(d, i, i)
  BY <1>0 DEF IsVarint
<1> HIDE DEF v
<1>3. v.n \in Nat /\ (v.n # 0 => i + v.n \in (i + 1)..N /\ v.value \in Nat)
  BY <1>1
<1>4. CASE wire = 0
  <2>1. end = IF v.n > 0 THEN i + v.n ELSE Failed
    BY <1>4 DEF FieldEnd, v
  <2>2. \A j \in i..N : IsValue(d, i, j, wire) <=> IsVarint(d, i, j)
    BY <1>4 DEF IsValue
  <2> QED
    BY <2>1, <2>2, <1>0, <1>1, <1>2 DEF Failed
<1>5. CASE wire = 1
  <2>1. end = IF i + Size64 <= N THEN i + Size64 ELSE Failed
    BY <1>5 DEF FieldEnd
  <2>2. \A j \in i..N : IsValue(d, i, j, wire) <=> j = i + Size64
    BY <1>5 DEF IsValue
  <2> QED
    BY <2>1, <2>2, <1>0 DEF Failed
<1>6. CASE wire = 2
  <2>1. end = IF v.n > 0 /\ v.value <= N - (i + v.n) THEN i + v.n + v.value ELSE Failed
    BY <1>6 DEF FieldEnd, v
  <2>2. ASSUME NEW j \in i..N
        PROVE  IsValue(d, i, j, wire) <=> v.n # 0 /\ v.value = j - (i + v.n)
    <3>1. IsValue(d, i, j, wire)
            <=> \E m \in (i + 1)..j : IsVarint(d, i, m) /\ VarintValue(d, i, m) = j - m
      BY <1>6 DEF IsValue
    <3>2. ASSUME NEW m \in (i + 1)..j, IsVarint(d, i, m), VarintValue(d, i, m) = j - m
          PROVE  v.n # 0 /\ v.value = j - (i + v.n)
      <4>1. m \in (i + 1)..N
        BY <1>0
      <4>2. v.n # 0 /\ m = i + v.n
        BY <4>1, <3>2, <1>1
      <4> QED
        BY <4>2, <3>2, <1>1
    <3>3. ASSUME v.n # 0, v.value = j - (i + v.n)
          PROVE  \E m \in (i + 1)..j : IsVarint(d, i, m) /\ VarintValue(d, i, m) = j - m
      <4>1. i + v.n \in (i + 1)..j
        BY <3>3, <1>0, <1>1
      <4>2. IsVarint(d, i, i + v.n)
        BY <3>3, <1>1
      <4> QED
        BY <4>1, <4>2, <3>3, <1>1
    <3> QED
      BY <3>1, <3>2, <3>3
  <2> HIDE DEF end
  <2>3. CASE v.n > 0 /\ v.value <= N - (i + v.n)
    <3>1. end = i + v.n + v.value /\ v.n # 0 /\ v.n \in Nat /\ v.value \in Nat
      <4>1. v.n \in Nat /\ v.n # 0
        BY <2>3, <1>3
      <4>2. end = i + v.n + v.value
        BY <2>1, <2>3
      <4> QED
        BY <4>1, <4>2, <1>3
    <3> DEFINE n == v.n
               x == v.value
    <3>2. i \in Nat /\ N \in Nat /\ n \in Nat \ {0} /\ x \in Nat /\ x <= N - (i + n)
      BY <3>1, <2>3, <1>0
    <3>3. end = i + n + x
      BY <3>1
    <3> HIDE DEF n, x, N
    <3>4. end \in (i + 1)..N
      BY <3>2, <3>3
    <3>5. ASSUME NEW j \in i..N PROVE x = j - (i + n) <=> end = j
      BY <3>2, <3>3
    <3> QED
      BY <2>2, <3>1, <3>4, <3>5 DEF end, n, x, N
  <2>4. CASE ~(v.n > 0 /\ v.value <= N - (i + v.n))
    <3>1. end = Failed
      BY <2>1, <2>4
    <3>2. ASSUME NEW j \in i..N PROVE ~(v.n # 0 /\ v.value = j - (i + v.n))
      BY <2>4, <1>0, <1>3
    <3>3. \A j \in i..N : end # j
      BY <3>1, <1>0 DEF Failed
    <3> QED
      BY <2>2, <3>1, <3>2, <3>3 DEF end
  <2> QED
    BY <2>3, <2>4
<1>7. CASE wire = 5
  <2>1. end = IF i + Size32 <= N THEN i + Size32 ELSE Failed
    BY <1>7 DEF FieldEnd
  <2>2. \A j \in i..N : IsValue(d, i, j, wire) <=> j = i + Size32
    BY <1>7 DEF IsValue
  <2> QED
    BY <2>1, <2>2, <1>0 DEF Failed
<1>8. CASE wire \notin {0, 1, 2, 5}
  <2>1. end = Failed
    BY <1>8 DEF FieldEnd
  <2>2. \A j \in i..N : ~IsValue(d, i, j, wire)
    BY <1>8 DEF IsValue
  <2> QED
    BY <2>1, <2>2, <1>0 DEF Failed
<1> QED
  BY <1>4, <1>5, <1>6, <1>7, <1>8

\* A field is read exactly where there is one, and it is the only one.
LEMMA ReadFieldIs ==
  ASSUME NEW d \in Seq(Byte), NEW i \in 0..Len(d)
  PROVE  LET read == ReadField(d, i) IN
         /\ read.end = Failed \/ read.end \in (i + 1)..Len(d)
         /\ \A j \in (i + 1)..Len(d) :
              FieldsIn(d, i, j) = IF read.end = j THEN {read.field} ELSE {}
<1> DEFINE N == Len(d)
           tag == ReadVarint(d, i)
           m == i + tag.n
           wire == tag.value % 8
           read == ReadField(d, i)
           Field(l) == [number |-> VarintValue(d, i, l) \div 8, wire |-> VarintValue(d, i, l) % 8]
           Tags(j) == {l \in (i + 1)..j :
                         /\ IsVarint(d, i, l) /\ VarintValue(d, i, l) >= 8
                         /\ IsValue(d, l, j, VarintValue(d, i, l) % 8)}
<1>0. N \in Nat /\ i \in Nat
  BY StringType
<1>1. /\ tag.n \in Nat
      /\ tag.n # 0 => /\ m \in (i + 1)..N
                      /\ tag.value = VarintValue(d, i, m) /\ tag.value \in Nat
      /\ \A j \in (i + 1)..N : IsVarint(d, i, j) <=> tag.n # 0 /\ j = m
  BY ReadVarintIs
<1>2. \A j : FieldsIn(d, i, j) = {Field(l) : l \in Tags(j)}
  BY DEF FieldsIn
<1>3. /\ read.field = [number |-> tag.value \div 8, wire |-> wire]
      /\ read.end = IF tag.n = 0 \/ tag.value < 8 THEN Failed ELSE FieldEnd(d, m, wire)
  BY DEF ReadField
<1> HIDE DEF tag, read
<1>4. CASE tag.n = 0 \/ tag.value < 8
  <2>1. \A j \in (i + 1)..N : Tags(j) = {}
    BY <1>0, <1>1, <1>4
  <2>2. read.end = Failed
    BY <1>3, <1>4
  <2>3. \A j \in (i + 1)..N : read.end # j
    BY <2>2, <1>0 DEF Failed
  <2> QED
    BY <1>2, <2>1, <2>2, <2>3 DEF read
<1>5. CASE ~(tag.n = 0 \/ tag.value < 8)
  <2>1. wire \in Nat /\ m \in 0..N
    BY <1>0, <1>1, <1>5
  <2>2. /\ read.end = Failed \/ read.end \in (m + 1)..N
        /\ \A j \in m..N : IsValue(d, m, j, wire) <=> read.end = j
    <3>1. read.end = FieldEnd(d, m, wire)
      BY <1>3, <1>5
    <3> HIDE DEF m, wire
    <3> QED
      BY <2>1, <3>1, FieldEndIs
  <2>3. ASSUME NEW j \in (i + 1)..N
        PROVE  Tags(j) = IF read.end = j THEN {m} ELSE {}
    <3>1. \A l \in Tags(j) : l = m /\ l <= j /\ IsValue(d, m, j, wire)
      BY <1>0, <1>1
    <3>2. \A l \in Tags(j) : l = m /\ read.end = j
      BY <3>1, <2>1, <2>2, <1>0
    <3>3. ASSUME read.end = j PROVE m \in Tags(j)
      <4>1. j \in (m + 1)..N
        BY <3>3, <2>2, <1>0 DEF Failed
      <4>2. m \in (i + 1)..j
        BY <4>1, <1>0, <1>1, <1>5
      <4>3. IsValue(d, m, j, wire)
        BY <4>1, <2>1, <2>2, <3>3
      <4> QED
        BY <4>2, <4>3, <1>1, <1>5
    <3> HIDE DEF Tags
    <3> QED
      BY <3>2, <3>3
  <2>4. Field(m) = read.field
    BY <1>1, <1>3, <1>5
  <2>5. read.end = Failed \/ read.end \in (i + 1)..N
    BY <2>1, <2>2, <1>0, <1>1, <1>5
  <2>6. ASSUME NEW j \in (i + 1)..N
        PROVE  FieldsIn(d, i, j) = IF read.end = j THEN {read.field} ELSE {}
    <3> HIDE DEF Tags, Field, m
    <3> QED
      BY <1>2, <2>3, <2>4
  <2> QED
    BY <2>5, <2>6 DEF read
<1> QED
  BY <1>4, <1>5

-----------------------------------------------------------------------------
(***************************************************************************)
(* The loop: the recursive function exists, as every field ends after it   *)
(* begins.                                                                 *)
(***************************************************************************)
RestOf(d, rest, i) ==
  LET read == ReadField(d, i)
      after == rest[read.end]
  IN  IF i >= Len(d) THEN [ok |-> TRUE, fields |-> <<>>]
      ELSE IF read.end = Failed \/ ~after.ok THEN [ok |-> FALSE, fields |-> <<>>]
      ELSE [ok |-> TRUE, fields |-> <<read.field>> \o after.fields]
IsRest(rest, d, n) == rest = [i \in {m \in Nat : m >= n} |-> RestOf(d, rest, i)]

LEMMA RestExists ==
  ASSUME NEW d \in Seq(Byte)
  PROVE  \E rest : IsRest(rest, d, 0)
<1> DEFINE N == Len(d)
           S == {n \in 0..N : \E rest : IsRest(rest, d, n)}
<1>0. N \in Nat
  BY StringType
<1>1. ASSUME NEW n \in 0..N, \A m \in (n + 1)..N : m \in S PROVE n \in S
  <2>1. CASE n = N
    <3> DEFINE h == [i \in {m \in Nat : m >= N} |-> [ok |-> TRUE, fields |-> <<>>]]
    <3>1. \A i \in {m \in Nat : m >= N} : RestOf(d, h, i) = [ok |-> TRUE, fields |-> <<>>]
      BY DEF RestOf
    <3> HIDE DEF N
    <3>2. h = [i \in {m \in Nat : m >= N} |-> RestOf(d, h, i)]
      BY <3>1
    <3>3. IsRest(h, d, N)
      BY <3>2 DEF IsRest
    <3> QED
      BY <2>1, <3>3
  <2>2. CASE n # N
    <3>1. PICK f : IsRest(f, d, n + 1)
      <4>1. n + 1 \in S
        BY <1>0, <1>1, <2>2
      <4> QED
        BY <4>1
    <3> DEFINE D == {m \in Nat : m >= n}
               h == [i \in D |-> IF i = n THEN RestOf(d, f, n) ELSE f[i]]
    <3>2. ASSUME NEW i \in D PROVE RestOf(d, h, i) = RestOf(d, f, i)
      <4>1. CASE i >= N
        BY <4>1 DEF RestOf
      <4>2. CASE i < N
        <5> DEFINE end == ReadField(d, i).end
        <5>1. end = Failed \/ end \in (i + 1)..N
          <6>1. i \in 0..N
            BY <4>2, <1>0
          <6> QED
            BY <6>1, ReadFieldIs
        <5>2. CASE end = Failed
          BY <5>2 DEF RestOf
        <5>3. CASE end \in (i + 1)..N
          <6>1. end \in D /\ end # n
            BY <5>3, <1>0
          <6>2. h[end] = f[end]
            BY <6>1
          <6> HIDE DEF h
          <6> QED
            BY <6>2 DEF RestOf
        <5> QED
          BY <5>1, <5>2, <5>3
      <4> QED
        BY <4>1, <4>2, <1>0
    <3>3. ASSUME NEW i \in D PROVE h[i] = RestOf(d, h, i)
      <4>1. CASE i = n
        BY <3>2, <4>1
      <4>2. CASE i # n
        <5>1. i \in {m \in Nat : m >= n + 1}
          BY <4>2
        <5>2. f[i] = RestOf(d, f, i)
          BY <5>1, <3>1 DEF IsRest
        <5> QED
          BY <5>2, <3>2, <4>2
      <4> QED
        BY <4>1, <4>2
    <3>4. h = [i \in D |-> RestOf(d, h, i)]
      <4>1. h = [i \in D |-> h[i]]
        OBVIOUS
      <4> HIDE DEF h, D
      <4> QED
        BY <3>3, <4>1
    <3>5. IsRest(h, d, n)
      BY <3>4 DEF IsRest
    <3> QED
      BY <3>5
  <2> QED
    BY <2>1, <2>2
<1>2. 0..N \subseteq S
  <2> HIDE DEF S, N
  <2> QED
    BY <1>0, <1>1, Downward
<1> QED
  BY <1>0, <1>2

LEMMA ParseIs ==
  ASSUME NEW d \in Seq(Byte)
  PROVE  \E rest : ParseProtoWire(d) = rest[0] /\ \A i \in Nat : rest[i] = RestOf(d, rest, i)
<1> DEFINE Sat(f) == f = [i \in Nat |-> RestOf(d, f, i)]
           rest == CHOOSE f : Sat(f)
<1>1. \E f : Sat(f)
  <2>1. PICK f : IsRest(f, d, 0)
    BY RestExists
  <2>2. {m \in Nat : m >= 0} = Nat
    OBVIOUS
  <2>3. Sat(f)
    BY <2>1, <2>2 DEF IsRest
  <2> QED
    BY <2>3
<1>2. Sat(rest)
  <2> HIDE DEF Sat
  <2> QED
    BY <1>1
<1>3. ParseProtoWire(d) = rest[0]
  BY DEF ParseProtoWire, RestOf
<1> HIDE DEF rest
<1> QED
  BY <1>2, <1>3

-----------------------------------------------------------------------------
(***************************************************************************)
(* Tilings of what comes after a position.                                 *)
(***************************************************************************)
CutAfter(C, i, k) == IF k = 0 THEN i ELSE Nth(C, k)
TilingsAfter(d, i) ==
  {C \in SUBSET ((i + 1)..Len(d)) :
     /\ i # Len(d) => Len(d) \in C
     /\ \A k \in 1..Cardinality(C) : FieldsIn(d, CutAfter(C, i, k - 1), CutAfter(C, i, k)) # {}}
FieldsAfter(d, i, C) ==
  [k \in 1..Cardinality(C) |->
     CHOOSE f \in FieldsIn(d, CutAfter(C, i, k - 1), CutAfter(C, i, k)) : TRUE]

LEMMA AfterZero ==
  ASSUME NEW d \in Seq(Byte)
  PROVE  /\ TilingsAfter(d, 0) = Tilings(d)
         /\ \A C : FieldsAfter(d, 0, C) = FieldsOfTiling(d, C)
<1>1. Len(d) # 0 <=> d # <<>>
  OBVIOUS
<1>2. \A C, k : CutAfter(C, 0, k) = Cut(C, k)
  BY DEF CutAfter, Cut
<1>3. (0 + 1)..Len(d) = 1..Len(d)
  OBVIOUS
<1>4. TilingsAfter(d, 0) = Tilings(d)
  BY <1>1, <1>2, <1>3 DEF TilingsAfter, Tilings
<1>5. \A C : FieldsAfter(d, 0, C) = FieldsOfTiling(d, C)
  BY <1>2 DEF FieldsAfter, FieldsOfTiling
<1> QED
  BY <1>4, <1>5

\* Without its least element, every element of a set is one place nearer.
LEMMA WithoutLeast ==
  ASSUME NEW N \in Nat, NEW C \in SUBSET (1..N), NEW j \in C, \A x \in C : j <= x
  PROVE  /\ Cardinality(C \ {j}) \in Nat
         /\ Cardinality(C) = Cardinality(C \ {j}) + 1
         /\ Nth(C, 1) = j
<1> DEFINE D == C \ {j}
<1>1. IsFiniteSet(C) /\ Cardinality(C) \in Nat /\ Cardinality(D) \in Nat
  <2>1. 0 \in Int /\ D \in SUBSET (1..N)
    OBVIOUS
  <2> HIDE DEF D
  <2> QED
    BY <2>1, RankType
<1>2. Cardinality(C) = Cardinality(D) + 1
  <2>1. Cardinality(D) = Cardinality(C) - 1
    BY <1>1, FS_RemoveElement
  <2> QED
    BY <2>1, <1>1
<1>3. Rank(C, j) = 1
  <2>1. \A x \in C : x \in Int /\ j <= x
    OBVIOUS
  <2>2. \A x \in C : x <= j <=> x = j
    BY <2>1
  <2>3. {x \in C : x <= j} = {j}
    BY <2>2
  <2> QED
    BY <2>3, FS_Singleton DEF Rank
<1>4. Nth(C, 1) = j
  BY <1>3, NthIs
<1> QED
  BY <1>1, <1>2, <1>4

LEMMA NthWithoutLeast ==
  ASSUME NEW N \in Nat, NEW C \in SUBSET (1..N), NEW j \in C, \A x \in C : j <= x,
         NEW k \in 1..Cardinality(C \ {j})
  PROVE  Nth(C, k + 1) = Nth(C \ {j}, k)
<1> DEFINE D == C \ {j}
           x == Nth(D, k)
<1>1. D \in SUBSET (1..N) /\ \A y \in D : j < y
  OBVIOUS
<1>2. x \in D /\ Rank(D, x) = k
  <2>1. k \in 1..Cardinality(D)
    OBVIOUS
  <2> HIDE DEF D
  <2> QED
    BY <1>1, <2>1, NthInSet
<1>3. Rank(C, x) = k + 1
  <2> DEFINE B == {y \in D : y <= x}
  <2>1. {y \in C : y <= x} = B \cup {j} /\ j \notin B
    BY <1>1, <1>2
  <2>2. IsFiniteSet(B)
    <3>1. IsFiniteSet(1..N)
      BY FS_Interval
    <3>2. B \subseteq 1..N
      BY <1>1
    <3> QED
      BY <3>1, <3>2, FS_Subset
  <2>3. Cardinality(B \cup {j}) = Cardinality(B) + 1
    BY <2>1, <2>2, FS_AddElement
  <2> QED
    BY <2>1, <2>3, <1>2 DEF Rank
<1>4. Nth(C, Rank(C, x)) = x
  <2>1. x \in C
    BY <1>2
  <2> HIDE DEF x
  <2> QED
    BY <2>1, NthIs
<1> QED
  BY <1>3, <1>4

FieldAt(d, i, j) == CHOOSE f \in FieldsIn(d, i, j) : TRUE
Before(f, fields) == <<f>> \o fields

\* A tiling is one field and a tiling of the rest.
LEMMA TilingSplits ==
  ASSUME NEW d \in Seq(Byte), NEW i \in 0..Len(d), i # Len(d),
         NEW C \in SUBSET ((i + 1)..Len(d)), NEW j \in C, \A x \in C : j <= x
  PROVE  /\ C \in TilingsAfter(d, i)
              <=> FieldsIn(d, i, j) # {} /\ C \ {j} \in TilingsAfter(d, j)
         /\ FieldsAfter(d, i, C) = Before(FieldAt(d, i, j), FieldsAfter(d, j, C \ {j}))
<1> DEFINE N == Len(d)
           D == C \ {j}
           n == Cardinality(D)
<1>0. N \in Nat /\ i \in Nat /\ j \in (i + 1)..N /\ C \in SUBSET (1..N)
  BY StringType
<1>1. /\ n \in Nat /\ Cardinality(C) = n + 1
      /\ Nth(C, 1) = j
      /\ \A k \in 1..n : Nth(C, k + 1) = Nth(D, k)
  <2>1. N \in Nat /\ C \in SUBSET (1..N) /\ j \in C /\ (\A x \in C : j <= x)
    BY <1>0
  <2> HIDE DEF N
  <2>2. n \in Nat /\ Cardinality(C) = n + 1 /\ Nth(C, 1) = j
    BY <2>1, WithoutLeast
  <2>3. ASSUME NEW k \in 1..n PROVE Nth(C, k + 1) = Nth(D, k)
    BY <2>1, <2>2, NthWithoutLeast
  <2> QED
    BY <2>2, <2>3
<1>2. D \in SUBSET ((j + 1)..N) /\ (N \in C <=> j # N => N \in D)
  BY <1>0
<1> HIDE DEF D, n
<1>3. CutAfter(C, i, 0) = i /\ CutAfter(C, i, 1) = j
  BY <1>1 DEF CutAfter
<1>4. \A k \in 0..n : CutAfter(C, i, k + 1) = CutAfter(D, j, k)
  BY <1>1 DEF CutAfter
<1> DEFINE Piece(k) == FieldsIn(d, CutAfter(C, i, k - 1), CutAfter(C, i, k))
           Rest(k) == FieldsIn(d, CutAfter(D, j, k - 1), CutAfter(D, j, k))
<1>5. Piece(1) = FieldsIn(d, i, j)
  BY <1>3
<1>6. ASSUME NEW k \in 1..n PROVE Piece(k + 1) = Rest(k)
  <2>1. (k + 1) - 1 = (k - 1) + 1 /\ k - 1 \in 0..n /\ k \in 0..n
    BY <1>1
  <2>2. CutAfter(C, i, (k - 1) + 1) = CutAfter(D, j, k - 1)
    BY <2>1, <1>4
  <2>3. CutAfter(C, i, k + 1) = CutAfter(D, j, k)
    BY <2>1, <1>4
  <2> QED
    BY <2>1, <2>2, <2>3
<1>7. C \in TilingsAfter(d, i) <=> (N \in C /\ \A k \in 1..(n + 1) : Piece(k) # {})
  BY <1>1 DEF TilingsAfter
<1>8. D \in TilingsAfter(d, j) <=> ((j # N => N \in D) /\ \A k \in 1..n : Rest(k) # {})
  BY <1>2 DEF TilingsAfter, n
<1>9. FieldsAfter(d, i, C) = [k \in 1..(n + 1) |-> CHOOSE f \in Piece(k) : TRUE]
  BY <1>1 DEF FieldsAfter
<1>10. FieldsAfter(d, j, D) = [k \in 1..n |-> CHOOSE f \in Rest(k) : TRUE]
  BY DEF FieldsAfter, n
<1> HIDE DEF Piece, Rest
<1>11. (\A k \in 1..(n + 1) : Piece(k) # {}) <=> Piece(1) # {} /\ \A k \in 1..n : Rest(k) # {}
  <2>1. ASSUME Piece(1) # {}, \A k \in 1..n : Rest(k) # {}, NEW k \in 1..(n + 1)
        PROVE  Piece(k) # {}
    <3>1. CASE k = 1
      BY <3>1, <2>1
    <3>2. CASE k # 1
      <4>1. k - 1 \in 1..n /\ (k - 1) + 1 = k
        BY <3>2, <1>1
      <4> QED
        BY <4>1, <2>1, <1>6
    <3> QED
      BY <3>1, <3>2
  <2>2. ASSUME \A k \in 1..(n + 1) : Piece(k) # {}, NEW k \in 1..n
        PROVE  Rest(k) # {}
    <3>1. k + 1 \in 1..(n + 1)
      BY <1>1
    <3> QED
      BY <3>1, <2>2, <1>6
  <2>3. 1 \in 1..(n + 1)
    BY <1>1
  <2> QED
    BY <2>1, <2>2, <2>3
<1>12. FieldsAfter(d, i, C) = <<CHOOSE f \in Piece(1) : TRUE>> \o FieldsAfter(d, j, D)
  <2> DEFINE f1 == CHOOSE f \in Piece(1) : TRUE
             t == [k \in 1..n |-> CHOOSE f \in Rest(k) : TRUE]
             s == [k \in 1..(n + 1) |-> CHOOSE f \in Piece(k) : TRUE]
             u == <<f1>> \o t
  <2>1. t \in Seq({t[k] : k \in 1..n}) /\ Len(t) = n
    <3>1. t \in [1..n -> {t[k] : k \in 1..n}]
      OBVIOUS
    <3> HIDE DEF t
    <3> QED
      BY <3>1, <1>1
  <2>2. /\ Len(u) = n + 1 /\ DOMAIN u = 1..(n + 1)
        /\ u[1] = f1 /\ \A k \in 1..n : u[k + 1] = t[k]
        /\ u = [k \in 1..(n + 1) |-> u[k]]
    <3> HIDE DEF t, f1
    <3>1. u \in Seq({f1} \cup {t[k] : k \in 1..n}) /\ Len(u) = n + 1
      BY <2>1, <1>1
    <3>2. u[1] = f1 /\ \A k \in 1..n : u[k + 1] = t[k]
      BY <2>1, <1>1
    <3> QED
      BY <3>1, <3>2, <1>1
  <2>3. ASSUME NEW k \in 1..(n + 1) PROVE s[k] = u[k]
    <3>1. CASE k = 1
      BY <3>1, <2>2
    <3>2. CASE k # 1
      <4>1. k - 1 \in 1..n /\ (k - 1) + 1 = k
        BY <3>2, <1>1
      <4>2. u[k] = t[k - 1]
        BY <4>1, <2>2
      <4>3. Piece(k) = Rest(k - 1)
        BY <4>1, <1>6
      <4> HIDE DEF u
      <4> QED
        BY <4>1, <4>2, <4>3
    <3> QED
      BY <3>1, <3>2
  <2>4. s = u
    <3>1. s = [k \in 1..(n + 1) |-> s[k]]
      OBVIOUS
    <3> HIDE DEF s, u
    <3> QED
      BY <2>2, <2>3, <3>1
  <2> QED
    BY <2>4, <1>9, <1>10
<1> QED
  BY <1>0, <1>2, <1>5, <1>7, <1>8, <1>11, <1>12 DEF D, FieldAt, Before

-----------------------------------------------------------------------------
(***************************************************************************)
(* The parser, from the end of the bytes to their beginning.               *)
(***************************************************************************)
AgreesAfter(d, p, i) ==
  /\ p.ok <=> TilingsAfter(d, i) # {}
  /\ \A C \in TilingsAfter(d, i) : p.fields = FieldsAfter(d, i, C)

LEMMA AgreesAtEnd ==
  ASSUME NEW d \in Seq(Byte)
  PROVE  AgreesAfter(d, [ok |-> TRUE, fields |-> <<>>], Len(d))
<1> DEFINE N == Len(d)
<1>1. N \in Nat /\ (N + 1)..N = {}
  BY StringType
<1>2. Cardinality({}) = 0 /\ 1..0 = {}
  BY FS_EmptySet
<1>3. TilingsAfter(d, N) = {{}}
  <2>1. {} \in TilingsAfter(d, N)
    BY <1>1, <1>2 DEF TilingsAfter
  <2>2. \A C \in TilingsAfter(d, N) : C = {}
    BY <1>1 DEF TilingsAfter
  <2> QED
    BY <2>1, <2>2
<1>4. FieldsAfter(d, N, {}) = <<>>
  BY <1>2 DEF FieldsAfter
<1> QED
  BY <1>3, <1>4 DEF AgreesAfter

LEMMA AgreesOnFailure ==
  ASSUME NEW d \in Seq(Byte), NEW i \in 0..Len(d), i # Len(d),
         \A j \in (i + 1)..Len(d) : FieldsIn(d, i, j) # {} => TilingsAfter(d, j) = {}
  PROVE  AgreesAfter(d, [ok |-> FALSE, fields |-> <<>>], i)
<1>1. ASSUME NEW C \in TilingsAfter(d, i) PROVE FALSE
  <2>1. /\ C \in SUBSET ((i + 1)..Len(d)) /\ C # {} /\ C \in SUBSET Nat
    BY <1>1, StringType DEF TilingsAfter
  <2>2. PICK j \in C : \A x \in C : j <= x
    BY <2>1, LeastElement
  <2>3. FieldsIn(d, i, j) # {} /\ C \ {j} \in TilingsAfter(d, j)
    BY <2>1, <2>2, TilingSplits
  <2> QED
    BY <2>1, <2>3
<1> QED
  BY <1>1 DEF AgreesAfter

LEMMA AgreesOnField ==
  ASSUME NEW d \in Seq(Byte), NEW i \in 0..Len(d), i # Len(d),
         NEW e \in (i + 1)..Len(d), NEW f,
         \A j \in (i + 1)..Len(d) : FieldsIn(d, i, j) = IF e = j THEN {f} ELSE {},
         NEW after, after.ok, AgreesAfter(d, after, e)
  PROVE  AgreesAfter(d, [ok |-> TRUE, fields |-> <<f>> \o after.fields], i)
<1> DEFINE N == Len(d)
<1>0. N \in Nat /\ i \in Nat /\ e \in Nat
  BY StringType
<1>1. FieldsIn(d, i, e) = {f} /\ FieldAt(d, i, e) = f
  BY DEF FieldAt
<1>2. PICK D : D \in TilingsAfter(d, e)
  BY DEF AgreesAfter
<1>3. D \cup {e} \in TilingsAfter(d, i)
  <2> DEFINE C == D \cup {e}
  <2>1. D \in SUBSET ((e + 1)..N)
    BY <1>2 DEF TilingsAfter
  <2>2. C \in SUBSET ((i + 1)..N) /\ e \in C /\ (\A x \in C : e <= x) /\ C \ {e} = D
    BY <1>0, <2>1
  <2>3. C \in TilingsAfter(d, i)
    <3> HIDE DEF C
    <3> QED
      BY <2>2, <1>1, <1>2, TilingSplits
  <2> QED
    BY <2>3
<1>4. ASSUME NEW C \in TilingsAfter(d, i)
      PROVE  <<f>> \o after.fields = FieldsAfter(d, i, C)
  <2>1. C \in SUBSET ((i + 1)..N) /\ C # {} /\ C \in SUBSET Nat
    BY <1>0 DEF TilingsAfter
  <2>2. PICK j \in C : \A x \in C : j <= x
    BY <2>1, LeastElement
  <2>3. FieldsIn(d, i, j) # {} /\ C \ {j} \in TilingsAfter(d, j)
    BY <2>1, <2>2, TilingSplits
  <2>4. j = e
    BY <2>1, <2>3
  <2>5. after.fields = FieldsAfter(d, e, C \ {e})
    BY <2>3, <2>4 DEF AgreesAfter
  <2>6. FieldsAfter(d, i, C)
          = Before(FieldAt(d, i, j), FieldsAfter(d, j, C \ {j}))
    BY <2>1, <2>2, TilingSplits
  <2> QED
    BY <2>4, <2>5, <2>6, <1>1 DEF Before
<1> QED
  BY <1>3, <1>4 DEF AgreesAfter

LEMMA ParseTiles ==
  ASSUME NEW d \in Seq(Byte)
  PROVE  AgreesAfter(d, ParseProtoWire(d), 0)
<1> DEFINE N == Len(d)
<1>0. N \in Nat
  BY StringType
<1>1. PICK rest :
        ParseProtoWire(d) = rest[0] /\ \A i \in Nat : rest[i] = RestOf(d, rest, i)
  BY ParseIs
<1> DEFINE S == {i \in 0..N : AgreesAfter(d, rest[i], i)}
<1>2. ASSUME NEW i \in 0..N, \A j \in (i + 1)..N : j \in S PROVE i \in S
  <2> DEFINE read == ReadField(d, i)
             after == rest[read.end]
  <2>1. i \in Nat /\ rest[i] = RestOf(d, rest, i)
    BY <1>1
  <2>2. CASE i = N
    <3>1. rest[i] = [ok |-> TRUE, fields |-> <<>>]
      BY <1>0, <2>1, <2>2 DEF RestOf
    <3> QED
      BY <3>1, <2>2, AgreesAtEnd
  <2>3. CASE i # N
    <3>1. /\ read.end = Failed \/ read.end \in (i + 1)..N
          /\ \A j \in (i + 1)..N : FieldsIn(d, i, j) = IF read.end = j THEN {read.field} ELSE {}
      BY ReadFieldIs
    <3>2. rest[i] = IF read.end = Failed \/ ~after.ok THEN [ok |-> FALSE, fields |-> <<>>]
                    ELSE [ok |-> TRUE, fields |-> <<read.field>> \o after.fields]
      BY <1>0, <2>1, <2>3 DEF RestOf
    <3>3. \A j \in (i + 1)..N : AgreesAfter(d, rest[j], j)
      BY <1>2
    <3> HIDE DEF S, read
    <3>4. CASE read.end = Failed
      <4>1. \A j \in (i + 1)..N : FieldsIn(d, i, j) = {}
        BY <3>1, <3>4, <2>1 DEF Failed
      <4>2. AgreesAfter(d, [ok |-> FALSE, fields |-> <<>>], i)
        BY <4>1, <2>3, AgreesOnFailure
      <4> QED
        BY <4>2, <3>2, <3>4 DEF S
    <3>5. CASE read.end # Failed
      <4>1. read.end \in (i + 1)..N /\ AgreesAfter(d, after, read.end)
        BY <3>1, <3>3, <3>5
      <4>2. CASE after.ok
        <5>1. AgreesAfter(d, [ok |-> TRUE, fields |-> <<read.field>> \o after.fields], i)
          <6> HIDE DEF after
          <6> QED
            BY <3>1, <4>1, <4>2, <2>3, AgreesOnField
        <5> QED
          BY <5>1, <3>2, <3>5, <4>2 DEF S
      <4>3. CASE ~after.ok
        <5>1. \A j \in (i + 1)..N : FieldsIn(d, i, j) # {} => TilingsAfter(d, j) = {}
          BY <3>1, <4>1, <4>3 DEF AgreesAfter
        <5>2. AgreesAfter(d, [ok |-> FALSE, fields |-> <<>>], i)
          BY <5>1, <2>3, AgreesOnFailure
        <5> QED
          BY <5>2, <3>2, <4>3 DEF S
      <4> QED
        BY <4>2, <4>3
    <3> QED
      BY <3>4, <3>5
  <2> QED
    BY <2>2, <2>3
<1>3. 0..N \subseteq S
  <2> HIDE DEF S, N
  <2> QED
    BY <1>0, <1>2, Downward
<1> QED
  BY <1>0, <1>1, <1>3

-----------------------------------------------------------------------------
\* Of every byte string, the parser accepts those that are fields from end to
\* end, and returns those fields in order (binary.go:136-142).
THEOREM ParserTiles == \A d \in Seq(Byte) : ParsesAsTiled(d)
<1> TAKE d \in Seq(Byte)
<1>1. AgreesAfter(d, ParseProtoWire(d), 0)
  BY ParseTiles
<1> QED
  BY <1>1, AfterZero DEF AgreesAfter, ParsesAsTiled

\* So it does with those the runs compare.
THEOREM DataTiles == []WireTiles
<1>1. WireTiles
  BY ParserTiles, DataAssumption DEF WireTiles
<1> QED
  BY <1>1, PTL

LEMMA FieldsOfIs ==
  ASSUME NEW d \in Seq(Byte)
  PROVE  /\ ParseProtoWire(d).ok <=> Tilings(d) # {}
         /\ Tilings(d) = {} => TrueFields(d) = {}
         /\ Tilings(d) # {} =>
              /\ FieldsOf(d) = TrueFields(d)
              /\ \E n \in Nat : DOMAIN ParseProtoWire(d).fields = 1..n
<1> DEFINE p == ParseProtoWire(d)
<1>1. /\ p.ok <=> Tilings(d) # {}
      /\ \A C \in Tilings(d) : p.fields = FieldsOfTiling(d, C)
  BY ParserTiles DEF ParsesAsTiled
<1> HIDE DEF p
<1>2. \A C \in Tilings(d) : DOMAIN FieldsOfTiling(d, C) = 1..Cardinality(C)
  BY DEF FieldsOfTiling
<1> DEFINE Parsed == {p.fields[i] : i \in DOMAIN p.fields}
           In(C)  == {FieldsOfTiling(d, C)[k] : k \in 1..Cardinality(C)}
<1>3. \A C \in Tilings(d) : In(C) = Parsed
  BY <1>1, <1>2
<1>4. Tilings(d) # {} => TrueFields(d) = Parsed
  <2>1. TrueFields(d) = UNION {In(C) : C \in Tilings(d)}
    BY DEF TrueFields
  <2> HIDE DEF In, Parsed
  <2> QED
    BY <1>3, <2>1
<1>5. Tilings(d) = {} => TrueFields(d) = {}
  BY DEF TrueFields
<1>6. Tilings(d) # {} => \E n \in Nat : DOMAIN p.fields = 1..n
  <2>1. ASSUME NEW C \in Tilings(d) PROVE Cardinality(C) \in Nat
    <3>1. Len(d) \in Nat /\ C \in SUBSET (1..Len(d))
      BY DEF Tilings
    <3>2. IsFiniteSet(1..Len(d))
      BY <3>1, FS_Interval
    <3>3. IsFiniteSet(C)
      BY <3>1, <3>2, FS_Subset
    <3> QED
      BY <3>3, FS_CardinalityType
  <2> QED
    BY <1>1, <1>2, <2>1
<1> QED
  BY <1>1, <1>4, <1>5, <1>6 DEF p, FieldsOf

\* Samples look like protobuf to Enrich exactly when they are fields from end
\* to end that agree on their wire types (binary.go:82-87).
THEOREM LooksMeansIs ==
  \A D \in SUBSET Seq(Byte) : LooksLikeProtobuf(D) <=> AreProtobuf(D)
<1> TAKE D \in SUBSET Seq(Byte)
<1>1. \A d \in D : /\ ParseProtoWire(d).ok <=> Tilings(d) # {}
                   /\ Tilings(d) # {} => FieldsOf(d) = TrueFields(d)
  BY FieldsOfIs
<1>2. (\A d \in D : ParseProtoWire(d).ok /\ FieldsOf(d) # {})
        <=> \A d \in D : Tilings(d) # {} /\ TrueFields(d) # {}
  BY <1>1
<1>3. ASSUME \A d \in D : FieldsOf(d) = TrueFields(d)
      PROVE  Consistent(UNION {TrueFields(d) : d \in D})
               <=> \A d, e \in D : \A f \in FieldsOf(d), g \in FieldsOf(e) :
                     f.number = g.number => f.wire = g.wire
  BY <1>3 DEF Consistent
<1>4. (\A d \in D : Tilings(d) # {}) => \A d \in D : FieldsOf(d) = TrueFields(d)
  BY <1>1
<1> QED
  BY <1>2, <1>3, <1>4 DEF LooksLikeProtobuf, AreProtobuf

\* The first field of each number is the first in every reading of the bytes.
LEMMA FirstFieldsLead ==
  ASSUME NEW d \in Seq(Byte), Tilings(d) # {}
  PROVE  FirstFields(d) = LeadingFields(d)
<1> DEFINE fs == ParseProtoWire(d).fields
           First(gs) == {gs[k] : k \in {l \in DOMAIN gs :
                                         \A m \in 1..(l - 1) : gs[m].number # gs[l].number}}
<1>1. \A C \in Tilings(d) : FieldsOfTiling(d, C) = fs
  BY ParserTiles DEF ParsesAsTiled
<1>2. LeadingFields(d) = UNION {First(FieldsOfTiling(d, C)) : C \in Tilings(d)}
  BY DEF LeadingFields
<1>3. FirstFields(d) = First(fs)
  BY DEF FirstFields
<1> HIDE DEF fs, First
<1> QED
  BY <1>1, <1>2, <1>3

\* An example Enrich reports is one whose bytes do not parse, or in which the first
\* field of a declared number has another wire type; so it contradicts the declared
\* message. Every example that contradicts it is reported unless one field number
\* in it has two wire types: only the first is looked at (protovalidate.go:127-134).
THEOREM ConflictMeansContradiction ==
  \A d \in Seq(Byte) : \A expected :
    /\ Conflicts(d, expected) <=> ContradictsFirst(d, expected)
    /\ Conflicts(d, expected) => Contradicts(d, expected)
    /\ Consistent(TrueFields(d)) /\ Contradicts(d, expected) => Conflicts(d, expected)
<1> TAKE d \in Seq(Byte)
<1> TAKE expected
<1> DEFINE fs == ParseProtoWire(d).fields
<1>1. /\ ParseProtoWire(d).ok <=> Tilings(d) # {}
      /\ Tilings(d) = {} => TrueFields(d) = {}
      /\ Tilings(d) # {} => FieldsOf(d) = TrueFields(d) /\ \E n \in Nat : DOMAIN fs = 1..n
  BY FieldsOfIs
<1>2. FirstFields(d) \subseteq FieldsOf(d)
  BY DEF FirstFields, FieldsOf
<1>3. Conflicts(d, expected) => Contradicts(d, expected)
  BY <1>1, <1>2 DEF Conflicts, Contradicts
<1>4. ASSUME Consistent(TrueFields(d)), Tilings(d) # {}, NEW f \in TrueFields(d)
      PROVE  \E g \in FirstFields(d) : g.number = f.number /\ g.wire = f.wire
  <2> HIDE DEF fs
  <2>1. PICK i \in DOMAIN fs : f = fs[i]
    BY <1>1, <1>4 DEF FieldsOf, fs
  <2> DEFINE Same == {l \in DOMAIN fs : fs[l].number = f.number}
  <2>2. PICK l \in Same : \A m \in Same : l <= m
    <3>1. Same \in SUBSET Nat /\ Same # {}
      BY <1>1, <1>4, <2>1
    <3> HIDE DEF Same
    <3> QED
      BY <3>1, LeastElement
  <2>3. l \in DOMAIN fs /\ l \in Nat /\ \A m \in 1..(l - 1) : fs[m].number # fs[l].number
    BY <1>1, <1>4, <2>2
  <2>4. fs[l] \in FirstFields(d)
    BY <2>3 DEF FirstFields, fs
  <2>5. fs[l] \in TrueFields(d)
    BY <1>1, <1>2, <1>4, <2>4
  <2> QED
    BY <1>4, <2>2, <2>4, <2>5 DEF Consistent
<1>5. Consistent(TrueFields(d)) /\ Contradicts(d, expected) => Conflicts(d, expected)
  BY <1>1, <1>4 DEF Conflicts, Contradicts
<1>6. Conflicts(d, expected) <=> ContradictsFirst(d, expected)
  BY <1>1, FirstFieldsLead DEF Conflicts, ContradictsFirst
<1> QED
  BY <1>3, <1>5, <1>6

-----------------------------------------------------------------------------
(***************************************************************************)
(* What is decided for one schema, from its examples.                      *)
(***************************************************************************)
LEMMA SampleBytesType == \A s : SampleBytes(s) \in SUBSET Seq(Byte)
<1> TAKE s
<1>1. \A e \in Base64Examples(s) : e.text \in DOMAIN BytesOf
  BY DEF Base64Examples, IsBase64
<1> QED
  BY <1>1, BytesAssumption DEF SampleBytes

\* A string without a format is marked as base64 exactly when it has two
\* examples or more, and all of them are base64 of the fields of one message
\* (binary.go:58-86).
THEOREM MarkedOnEvidence ==
  \A s : DetectSchemaBinary(s) =
    IF /\ "string" \in s.types /\ s.format = "" /\ s.encoding = ""
       /\ Len(s.examples) >= 2 /\ \A i \in DOMAIN s.examples : IsBase64(s.examples[i])
       /\ AreProtobuf(SampleBytes(s))
    THEN [s EXCEPT !.encoding = "base64"] ELSE s
<1> TAKE s
<1>1. LooksLikeProtobuf(SampleBytes(s)) <=> AreProtobuf(SampleBytes(s))
  BY LooksMeansIs, SampleBytesType
<1> QED
  BY <1>1 DEF DetectSchemaBinary, minSamplesForBinaryDetection

\* A schema is a problem exactly when it declares a message and does not agree with
\* it: its declaration names no one message, or an example is no protobuf or has
\* another wire type in the first field of a declared number
\* (protovalidate.go:85-153). An example so blamed does contradict the message.
THEOREM ProblemMeansContradiction ==
  \A s :
    /\ HasProblem(s) <=> Declared(s) /\ ~Agrees(s)
    /\ HasProblem(s) =>
         \/ ~Compiles(s.content)
         \/ \E d \in SampleBytes(s) : Contradicts(d, Expected(s.content))
<1> TAKE s
<1>1. \A d \in SampleBytes(s) :
        /\ Conflicts(d, Expected(s.content)) <=> ContradictsFirst(d, Expected(s.content))
        /\ Conflicts(d, Expected(s.content)) => Contradicts(d, Expected(s.content))
  BY ConflictMeansContradiction, SampleBytesType
<1> QED
  BY <1>1 DEF Declared, HasProblem, Agrees

=============================================================================
