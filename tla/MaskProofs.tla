------------------------------ MODULE MaskProofs ----------------------------
(***************************************************************************)
(* Masker.Value replaces every secret and nothing else, whatever the       *)
(* payload. First what brackets and depths are in any JSON, then that the  *)
(* stack knows where in the payload the loop is, then what is written.     *)
(***************************************************************************)
EXTENDS MaskProps, RanksProofs

-----------------------------------------------------------------------------
(***************************************************************************)
(* Depth                                                                   *)
(***************************************************************************)
LEMMA JsonType ==
  ASSUME NEW ts, IsJson(ts)
  PROVE  /\ Len(ts) \in Nat /\ DOMAIN ts = 1..Len(ts)
         /\ OpenPositions(ts) \in SUBSET (1..Len(ts))
         /\ ClosePositions(ts) \in SUBSET (1..Len(ts))
         /\ \A j \in ClosePositions(ts) : Depth(ts, j) > 0
         /\ Depth(ts, Len(ts) + 1) = 0
<1>1. ts \in Seq({ts[i] : i \in DOMAIN ts})
  BY DEF IsJson
<1>2. Len(ts) \in Nat /\ DOMAIN ts = 1..Len(ts)
  BY <1>1
<1> QED
  BY <1>2 DEF IsJson, OpenPositions, ClosePositions

LEMMA DepthType ==
  ASSUME NEW ts, IsJson(ts), NEW n \in Int
  PROVE  Depth(ts, n) \in Int
<1>1. n - 1 \in Int
  OBVIOUS
<1>2. Rank(OpenPositions(ts), n - 1) \in Nat /\ Rank(ClosePositions(ts), n - 1) \in Nat
  BY <1>1, JsonType, RankType
<1> QED
  BY <1>2 DEF Depth

LEMMA DepthStep ==
  ASSUME NEW ts, IsJson(ts), NEW i \in 1..Len(ts)
  PROVE  /\ ts[i].kind \in Openers => Depth(ts, i + 1) = Depth(ts, i) + 1
         /\ ts[i].kind \in Closers => Depth(ts, i + 1) = Depth(ts, i) - 1
         /\ ts[i].kind \notin Openers \cup Closers => Depth(ts, i + 1) = Depth(ts, i)
<1> DEFINE O == OpenPositions(ts)
           C == ClosePositions(ts)
<1>1. Len(ts) \in Nat /\ DOMAIN ts = 1..Len(ts) /\ O \in SUBSET (1..Len(ts)) /\ C \in SUBSET (1..Len(ts))
  BY JsonType
<1>2. i \in O <=> ts[i].kind \in Openers
  BY <1>1 DEF OpenPositions
<1>3. i \in C <=> ts[i].kind \in Closers
  BY <1>1 DEF ClosePositions
<1>4. ~(ts[i].kind \in Openers /\ ts[i].kind \in Closers)
  BY DEF Openers, Closers
<1>5. i \in Int /\ i - 1 \in Int /\ (i + 1) - 1 = i
  BY <1>1
<1>6. /\ Rank(O, i) = IF i \in O THEN Rank(O, i - 1) + 1 ELSE Rank(O, i - 1)
      /\ Rank(C, i) = IF i \in C THEN Rank(C, i - 1) + 1 ELSE Rank(C, i - 1)
      /\ Rank(O, i - 1) \in Nat /\ Rank(C, i - 1) \in Nat
  <2> HIDE DEF O, C
  <2> QED
    BY <1>1, <1>5, RankStep, RankType
<1>7. Depth(ts, i) = Rank(O, i - 1) - Rank(C, i - 1)
  BY DEF Depth
<1>8. Depth(ts, i + 1) = Rank(O, i) - Rank(C, i)
  BY <1>5 DEF Depth
<1> HIDE DEF O, C
<1> QED
  BY <1>2, <1>3, <1>4, <1>6, <1>7, <1>8

LEMMA DepthFirst ==
  ASSUME NEW ts, IsJson(ts)
  PROVE  Depth(ts, 1) = 0
<1>1. ASSUME NEW S \in SUBSET (1..Len(ts)) PROVE Rank(S, 1 - 1) = 0
  <2>0. \A j \in S : ~(j <= 1 - 1)
    OBVIOUS
  <2>1. {j \in S : j <= 1 - 1} = {}
    BY <2>0
  <2> QED
    BY <2>1, FS_EmptySet DEF Rank
<1>2. Rank(OpenPositions(ts), 1 - 1) = 0 /\ Rank(ClosePositions(ts), 1 - 1) = 0
  BY <1>1, JsonType
<1> QED
  BY <1>2 DEF Depth

LEMMA DepthNat ==
  ASSUME NEW ts, IsJson(ts), NEW i \in 1..(Len(ts) + 1)
  PROVE  Depth(ts, i) \in Nat
<1> DEFINE N == {n \in Nat : n \in 1..(Len(ts) + 1) /\ Depth(ts, n) < 0}
<1>1. SUFFICES ASSUME N # {} PROVE FALSE
  <2>1. i \in Nat /\ Depth(ts, i) \in Int
    BY JsonType, DepthType
  <2> QED
    BY <2>1
<1>2. PICK n \in N : \A m \in N : n <= m
  <2>1. N \in SUBSET Nat
    OBVIOUS
  <2> HIDE DEF N
  <2> QED
    BY <1>1, <2>1, LeastElement
<1>3. Len(ts) \in Nat /\ n \in Nat /\ n \in 1..(Len(ts) + 1) /\ Depth(ts, n) < 0
  BY JsonType
<1>4. n # 1
  BY <1>3, DepthFirst
<1>5. n - 1 \in 1..Len(ts) /\ n - 1 \in Nat /\ (n - 1) + 1 = n /\ n - 1 \in 1..(Len(ts) + 1)
  BY <1>3, <1>4
<1>6. Depth(ts, n) \in Int /\ Depth(ts, n - 1) \in Int
  BY <1>5, <1>3, DepthType
<1>7. ~(Depth(ts, n - 1) < 0)
  BY <1>2, <1>5
<1>8. /\ ts[n - 1].kind \in Openers => Depth(ts, n) = Depth(ts, n - 1) + 1
      /\ ts[n - 1].kind \in Closers => Depth(ts, n) = Depth(ts, n - 1) - 1
      /\ ts[n - 1].kind \notin Openers \cup Closers => Depth(ts, n) = Depth(ts, n - 1)
  BY <1>5, DepthStep
<1>9. ts[n - 1].kind \in Closers => Depth(ts, n - 1) > 0
  BY <1>5, JsonType DEF ClosePositions
<1> QED
  BY <1>3, <1>6, <1>7, <1>8, <1>9

-----------------------------------------------------------------------------
(***************************************************************************)
(* A value ends where the depth is back to what it was, and is deeper      *)
(* until then.                                                             *)
(***************************************************************************)
LEMMA ValueEndIs ==
  ASSUME NEW ts, IsJson(ts), NEW i \in 1..Len(ts), ts[i].kind \notin Closers
  PROVE  /\ ValueEnd(ts, i) \in i..Len(ts)
         /\ Depth(ts, ValueEnd(ts, i) + 1) = Depth(ts, i)
         /\ \A l \in (i + 1)..ValueEnd(ts, i) : Depth(ts, l) > Depth(ts, i)
<1> DEFINE N == {n \in Nat : n \in i..Len(ts) /\ Depth(ts, n + 1) <= Depth(ts, i)}
           d == Depth(ts, i)
<1>0. Len(ts) \in Nat /\ i \in Nat /\ i >= 1 /\ i <= Len(ts) /\ i \in 1..(Len(ts) + 1)
  BY JsonType
<1>1. d \in Nat
  BY <1>0, DepthNat
<1>2. Len(ts) \in N
  <2>1. Depth(ts, Len(ts) + 1) = 0
    BY JsonType
  <2> QED
    BY <1>0, <1>1, <2>1
<1>3. PICK e \in N : \A m \in N : e <= m
  <2>1. N \in SUBSET Nat /\ N # {}
    BY <1>2
  <2> HIDE DEF N
  <2> QED
    BY <2>1, LeastElement
<1>4. e \in Nat /\ e \in i..Len(ts) /\ Depth(ts, e + 1) <= d
  OBVIOUS
<1>5. ASSUME NEW l \in (i + 1)..e PROVE Depth(ts, l) > d
  <2>1. l - 1 \in Nat /\ l - 1 \in i..Len(ts) /\ (l - 1) + 1 = l /\ ~(e <= l - 1) /\ l \in Int
    BY <1>0, <1>4
  <2>2. ~(Depth(ts, l) <= d)
    BY <1>3, <2>1
  <2>3. Depth(ts, l) \in Int
    BY <2>1, DepthType
  <2> QED
    BY <1>1, <2>2, <2>3
<1>6. Depth(ts, e + 1) = d
  <2>1. /\ ts[e].kind \in Openers => Depth(ts, e + 1) = Depth(ts, e) + 1
        /\ ts[e].kind \in Closers => Depth(ts, e + 1) = Depth(ts, e) - 1
        /\ ts[e].kind \notin Openers \cup Closers => Depth(ts, e + 1) = Depth(ts, e)
    <3>1. e \in 1..Len(ts)
      BY <1>0, <1>4
    <3> QED
      BY <3>1, DepthStep
  <2>2. Depth(ts, e) \in Int
    BY <1>4, DepthType
  <2>3. e = i \/ Depth(ts, e) > d
    BY <1>0, <1>4, <1>5
  <2> HIDE DEF N
  <2> QED
    BY <1>1, <1>4, <2>1, <2>2, <2>3
<1>7. ValueEnd(ts, i) = e
  <2> DEFINE P(j) == Balanced(ts, i, j) /\ \A l \in i..(j - 1) : ~Balanced(ts, i, l)
  <2>1. P(e)
    <3>1. ASSUME NEW l \in i..(e - 1) PROVE ~Balanced(ts, i, l)
      <4>1. l + 1 \in (i + 1)..e
        BY <1>0, <1>4
      <4>2. Depth(ts, l + 1) > d
        BY <4>1, <1>5
      <4> QED
        BY <4>2, <1>1 DEF Balanced
    <3> QED
      BY <1>6, <3>1 DEF Balanced
  <2>2. ASSUME NEW j \in i..Len(ts), P(j) PROVE j = e
    <3>1. j \in N
      <4>1. Depth(ts, j + 1) = d
        BY <2>2 DEF Balanced
      <4> QED
        BY <1>0, <1>1, <4>1
    <3>2. e <= j
      BY <3>1, <1>3
    <3>3. ~(e \in i..(j - 1))
      BY <2>1, <2>2
    <3> HIDE DEF N
    <3> QED
      BY <1>0, <1>4, <3>2, <3>3
  <2>3. ValueEnd(ts, i) = CHOOSE j \in i..Len(ts) : P(j)
    BY DEF ValueEnd
  <2> HIDE DEF P, N
  <2> QED
    BY <1>4, <2>1, <2>2, <2>3
<1> HIDE DEF N
<1> QED
  BY <1>4, <1>5, <1>6, <1>7

-----------------------------------------------------------------------------
(***************************************************************************)
(* Which brackets are open at a place: those that nothing since has been   *)
(* as shallow as. There is one of each depth.                              *)
(***************************************************************************)
OpenAt(ts, i, j) ==
  /\ i \in OpenPositions(ts) /\ j \in 1..(Len(ts) + 1) /\ i < j
  /\ \A l \in (i + 1)..j : Depth(ts, l) > Depth(ts, i)

LEMMA OpenAtType ==
  ASSUME NEW ts, IsJson(ts), NEW i, NEW j, OpenAt(ts, i, j)
  PROVE  /\ i \in 1..Len(ts) /\ i \in Nat /\ j \in Nat /\ i + 1 <= j /\ j <= Len(ts) + 1
         /\ Len(ts) \in Nat /\ Depth(ts, i) \in Nat /\ Depth(ts, j) \in Nat
         /\ Depth(ts, j) > Depth(ts, i) /\ ts[i].kind \in Openers
<1>1. i \in OpenPositions(ts) /\ Len(ts) \in Nat /\ i \in 1..Len(ts)
  BY JsonType DEF OpenAt
<1>2. j \in 1..(Len(ts) + 1) /\ i < j
  BY DEF OpenAt
<1>3. i \in Nat /\ j \in Nat /\ i + 1 <= j /\ j <= Len(ts) + 1 /\ i \in 1..(Len(ts) + 1) /\ j \in (i + 1)..j
  BY <1>1, <1>2
<1>4. Depth(ts, i) \in Nat /\ Depth(ts, j) \in Nat
  BY <1>2, <1>3, DepthNat
<1>5. Depth(ts, j) > Depth(ts, i)
  BY <1>3 DEF OpenAt
<1>6. ts[i].kind \in Openers
  BY <1>1 DEF OpenPositions
<1> QED
  BY <1>1, <1>3, <1>4, <1>5, <1>6

LEMMA OpenAtUnique ==
  ASSUME NEW ts, IsJson(ts), NEW j, NEW i1, NEW i2, OpenAt(ts, i1, j), OpenAt(ts, i2, j),
         Depth(ts, i1) = Depth(ts, i2)
  PROVE  i1 = i2
<1>1. i1 \in Nat /\ i2 \in Nat /\ j \in Nat /\ i1 + 1 <= j /\ i2 + 1 <= j /\ Depth(ts, i1) \in Nat
  BY OpenAtType
<1>2. ~(i1 < i2)
  <2>1. ASSUME i1 < i2 PROVE Depth(ts, i2) > Depth(ts, i1)
    <3>1. i2 \in (i1 + 1)..j
      BY <1>1, <2>1
    <3> QED
      BY <3>1 DEF OpenAt
  <2> QED
    BY <1>1, <2>1
<1>3. ~(i2 < i1)
  <2>1. ASSUME i2 < i1 PROVE Depth(ts, i1) > Depth(ts, i2)
    <3>1. i1 \in (i2 + 1)..j
      BY <1>1, <2>1
    <3> QED
      BY <3>1 DEF OpenAt
  <2> QED
    BY <1>1, <2>1
<1> QED
  BY <1>1, <1>2, <1>3

\* A bracket stays open while nothing is as shallow as it is.
LEMMA OpenAtLater ==
  ASSUME NEW ts, IsJson(ts), NEW i, NEW j, NEW k \in 1..(Len(ts) + 1), OpenAt(ts, i, j), j <= k,
         \A l \in (j + 1)..k : Depth(ts, l) > Depth(ts, i)
  PROVE  OpenAt(ts, i, k)
<1>1. i \in Nat /\ j \in Nat /\ i + 1 <= j /\ Len(ts) \in Nat
  BY OpenAtType
<1>2. ASSUME NEW l \in (i + 1)..k PROVE Depth(ts, l) > Depth(ts, i)
  <2>1. l \in (i + 1)..j \/ l \in (j + 1)..k
    BY <1>1
  <2> QED
    BY <2>1 DEF OpenAt
<1>3. i < k
  BY <1>1
<1> QED
  BY <1>2, <1>3 DEF OpenAt

\* What stands in the bracket at i.
LEMMA InsideIs ==
  ASSUME NEW ts, IsJson(ts), NEW i \in OpenPositions(ts), NEW j
  PROVE  j \in Inside(ts, i) <=> j \in 1..Len(ts) /\ OpenAt(ts, i, j) /\ Depth(ts, j) = Depth(ts, i) + 1
<1>1. Len(ts) \in Nat /\ i \in 1..Len(ts)
  BY JsonType
<1>2. j \in (i + 1)..Len(ts) => j \in 1..Len(ts) /\ j \in 1..(Len(ts) + 1) /\ i < j
  BY <1>1
<1>3. j \in 1..Len(ts) /\ i < j => j \in (i + 1)..Len(ts)
  BY <1>1
<1> QED
  BY <1>2, <1>3 DEF Inside, OpenAt

LEMMA InsideType ==
  ASSUME NEW ts, IsJson(ts), NEW i \in OpenPositions(ts)
  PROVE  Inside(ts, i) \in SUBSET (1..Len(ts)) /\ \A n \in Int : Place(ts, i, n) \in Nat
<1>1. Inside(ts, i) \in SUBSET (1..Len(ts))
  BY InsideIs
<1>2. ASSUME NEW n \in Int PROVE Place(ts, i, n) \in Nat
  <2>1. n - 1 \in Int
    OBVIOUS
  <2> QED
    BY <1>1, <2>1, JsonType, RankType DEF Place
<1> QED
  BY <1>1, <1>2

LEMMA PlaceStep ==
  ASSUME NEW ts, IsJson(ts), NEW i \in OpenPositions(ts), NEW j \in Inside(ts, i)
  PROVE  Place(ts, i, j + 1) = Place(ts, i, j) + 1
<1>1. Inside(ts, i) \in SUBSET (1..Len(ts)) /\ Len(ts) \in Nat
  BY InsideType, JsonType
<1>2. j \in Int /\ (j + 1) - 1 = j
  BY <1>1
<1>3. Rank(Inside(ts, i), j) = Rank(Inside(ts, i), j - 1) + 1
  BY <1>1, <1>2, RankStep
<1> QED
  BY <1>2, <1>3 DEF Place

\* Between two places with nothing inside.
LEMMA PlaceSame ==
  ASSUME NEW ts, IsJson(ts), NEW i \in OpenPositions(ts), NEW m \in Int, NEW n \in Int, m <= n,
         \A l \in m..(n - 1) : l \notin Inside(ts, i)
  PROVE  Place(ts, i, m) = Place(ts, i, n)
<1>1. Inside(ts, i) \in SUBSET (1..Len(ts)) /\ Len(ts) \in Nat
  BY InsideType, JsonType
<1>2. m - 1 \in Int /\ n - 1 \in Int /\ m - 1 <= n - 1
  OBVIOUS
<1>3. \A l \in Inside(ts, i) : ~(m - 1 < l /\ l <= n - 1)
  <2>1. ASSUME NEW l \in Inside(ts, i), m - 1 < l, l <= n - 1 PROVE FALSE
    <3>1. l \in Int
      BY <1>1
    <3>2. l \in m..(n - 1)
      BY <2>1, <3>1
    <3> QED
      BY <3>2
  <2> QED
    BY <2>1
<1>4. Rank(Inside(ts, i), m - 1) = Rank(Inside(ts, i), n - 1)
  BY <1>1, <1>2, <1>3, RankSame
<1> QED
  BY <1>4 DEF Place

\* In an object names and values take turns.
LEMMA TurnsInObject ==
  ASSUME NEW ts, IsJson(ts), NEW i \in Objects(ts), NEW j \in Inside(ts, i)
  PROVE  /\ i \in OpenPositions(ts)
         /\ Place(ts, i, j) % 2 = 0 => ts[j].kind \in {"str", "bad"} \cup Closers
         /\ Place(ts, i, j) % 2 # 0 => ts[j].kind \notin Closers
BY DEF IsJson, Objects, OpenPositions, Openers

-----------------------------------------------------------------------------
(***************************************************************************)
(* Names and their values                                                  *)
(***************************************************************************)
LEMMA AfterName ==
  ASSUME NEW ts, IsJson(ts), NEW i \in Objects(ts), NEW j \in Inside(ts, i),
         Place(ts, i, j) % 2 = 0, ts[j].kind = "str"
  PROVE  /\ j + 1 \in Inside(ts, i) /\ Place(ts, i, j + 1) = Place(ts, i, j) + 1
         /\ Place(ts, i, j + 1) % 2 = 1
         /\ j + 1 \in 1..Len(ts) /\ ts[j + 1].kind \notin Closers
         /\ Depth(ts, j + 1) = Depth(ts, j) /\ Depth(ts, j) = Depth(ts, i) + 1
<1>1. i \in OpenPositions(ts)
  BY TurnsInObject
<1>2. j \in 1..Len(ts) /\ OpenAt(ts, i, j) /\ Depth(ts, j) = Depth(ts, i) + 1
  BY <1>1, InsideIs
<1>3. Len(ts) \in Nat /\ j \in Nat /\ j + 1 \in 1..(Len(ts) + 1) /\ Depth(ts, i) \in Nat /\ j \in Int
  BY <1>2, JsonType, OpenAtType
<1>4. Depth(ts, j + 1) = Depth(ts, j)
  <2>1. ts[j].kind \notin Openers \cup Closers
    BY DEF Openers, Closers
  <2> QED
    BY <1>2, <2>1, DepthStep
<1>5. j + 1 \in 1..Len(ts)
  <2>1. Depth(ts, j + 1) # 0
    BY <1>2, <1>3, <1>4
  <2>2. j # Len(ts)
    BY <2>1, JsonType
  <2> QED
    BY <1>2, <1>3, <2>2
<1>6. OpenAt(ts, i, j + 1)
  <2>1. \A l \in (j + 1)..(j + 1) : Depth(ts, l) > Depth(ts, i)
    BY <1>2, <1>3, <1>4
  <2>2. j <= j + 1
    BY <1>3
  <2>3. OpenAt(ts, i, j) /\ j + 1 \in 1..(Len(ts) + 1)
    BY <1>2, <1>3
  <2> QED
    BY <2>1, <2>2, <2>3, OpenAtLater
<1>7. j + 1 \in Inside(ts, i)
  BY <1>1, <1>2, <1>4, <1>5, <1>6, InsideIs
<1>8. Place(ts, i, j + 1) = Place(ts, i, j) + 1 /\ Place(ts, i, j) \in Nat
  BY <1>1, <1>3, PlaceStep, InsideType
<1>9. Place(ts, i, j + 1) % 2 = 1
  BY <1>8
<1>10. ts[j + 1].kind \notin Closers
  BY <1>7, <1>9, TurnsInObject
<1> QED
  BY <1>2, <1>4, <1>5, <1>7, <1>8, <1>9, <1>10

\* In which object a token stands is no matter of choice.
LEMMA InsideUnique ==
  ASSUME NEW ts, IsJson(ts), NEW i1 \in OpenPositions(ts), NEW i2 \in OpenPositions(ts),
         NEW j, j \in Inside(ts, i1), j \in Inside(ts, i2)
  PROVE  i1 = i2
<1>1. OpenAt(ts, i1, j) /\ OpenAt(ts, i2, j) /\ Depth(ts, i1) + 1 = Depth(ts, i2) + 1
  BY InsideIs
<1>2. Depth(ts, i1) \in Nat /\ Depth(ts, i2) \in Nat
  BY <1>1, OpenAtType
<1>3. Depth(ts, i1) = Depth(ts, i2)
  BY <1>1, <1>2
<1> QED
  BY <1>1, <1>3, OpenAtUnique

LEMMA SecretValue ==
  ASSUME NEW ts, IsJson(ts), NEW j \in Secrets(ts)
  PROVE  /\ j \in 1..Len(ts) /\ j + 1 \in 1..Len(ts) /\ ts[j].kind = "str"
         /\ ts[j + 1].kind \notin Closers
         /\ Depth(ts, j + 1) = Depth(ts, j)
         /\ ValueEnd(ts, j + 1) \in (j + 1)..Len(ts)
         /\ Value(ts, j) = (j + 1)..ValueEnd(ts, j + 1)
         /\ Depth(ts, ValueEnd(ts, j + 1) + 1) = Depth(ts, j)
         /\ \A l \in (j + 2)..ValueEnd(ts, j + 1) : Depth(ts, l) > Depth(ts, j)
<1> DEFINE e == ValueEnd(ts, j + 1)
<1>1. j \in 1..Len(ts) /\ ts[j].kind = "str" /\ IsNamePlace(ts, j) /\ Len(ts) \in Nat
  BY JsonType DEF Secrets, Secret
<1>2. PICK i \in Objects(ts) : j \in Inside(ts, i) /\ Place(ts, i, j) % 2 = 0
  BY <1>1 DEF IsNamePlace
<1>3. /\ j + 1 \in 1..Len(ts) /\ ts[j + 1].kind \notin Closers
      /\ Depth(ts, j + 1) = Depth(ts, j)
  BY <1>1, <1>2, AfterName
<1>4. /\ e \in (j + 1)..Len(ts)
      /\ Depth(ts, e + 1) = Depth(ts, j + 1)
      /\ \A l \in ((j + 1) + 1)..e : Depth(ts, l) > Depth(ts, j + 1)
  BY <1>3, ValueEndIs
<1>5. (j + 1) + 1 = j + 2 /\ j \in Nat /\ e \in Nat /\ e + 1 \in Nat
  BY <1>1, <1>4
<1>6. \A l \in (j + 2)..e : Depth(ts, l) > Depth(ts, j)
  BY <1>3, <1>4, <1>5
<1>7. Depth(ts, e + 1) = Depth(ts, j)
  BY <1>3, <1>4
<1>d. Depth(ts, j) \in Int
  BY <1>5, DepthType
<1> HIDE DEF e
<1>8. ASSUME NEW l \in (j + 1)..Len(ts)
      PROVE  (\A m \in (j + 2)..l : Depth(ts, m) > Depth(ts, j)) <=> l <= e
  <2>1. CASE l <= e
    <3>1. \A m \in (j + 2)..l : m \in (j + 2)..e
      BY <2>1, <1>1, <1>5
    <3> QED
      BY <2>1, <3>1, <1>6
  <2>2. CASE ~(l <= e)
    <3>1. e + 1 \in (j + 2)..l
      BY <2>2, <1>1, <1>4, <1>5
    <3>2. ~(Depth(ts, e + 1) > Depth(ts, j))
      BY <1>7, <1>d
    <3> QED
      BY <2>2, <3>1, <3>2
  <2> QED
    BY <2>1, <2>2
<1>9. Value(ts, j) = {l \in (j + 1)..Len(ts) : l <= e}
  BY <1>8 DEF Value
<1>10. {l \in (j + 1)..Len(ts) : l <= e} = (j + 1)..e
  BY <1>1, <1>4, <1>5
<1>11. Value(ts, j) = (j + 1)..e
  BY <1>9, <1>10
<1> QED
  BY <1>1, <1>3, <1>4, <1>6, <1>7, <1>11 DEF e

-----------------------------------------------------------------------------
(***************************************************************************)
(* The stack                                                               *)
(***************************************************************************)
LevelRecord == [object : BOOLEAN, expectName : BOOLEAN]

\* Level d of the stack is the bracket at i.
IsLevel(ts, levels, p, d, i) ==
  /\ OpenAt(ts, i, p) /\ Depth(ts, i) = d - 1
  /\ levels[d].object = (ts[i].kind = "{")

\* The stack is the brackets open at p, outermost first, and if the last is an
\* object it says whether a name comes next.
Knows(ts, levels, p) ==
  /\ levels \in Seq(LevelRecord) /\ p \in 1..(Len(ts) + 1)
  /\ Len(levels) = Depth(ts, p)
  /\ \A d \in 1..Len(levels) : \E i \in OpenPositions(ts) : IsLevel(ts, levels, p, d, i)
  /\ \A i \in Objects(ts) :
       OpenAt(ts, i, p) /\ Depth(ts, i) = Len(levels) - 1
         => levels[Len(levels)].expectName = (Place(ts, i, p) % 2 = 0)

LEMMA KnowsType ==
  ASSUME NEW ts, IsJson(ts), NEW levels, NEW p, Knows(ts, levels, p)
  PROVE  /\ levels \in Seq(LevelRecord) /\ Len(levels) \in Nat /\ Len(ts) \in Nat
         /\ p \in Nat /\ p \in 1..(Len(ts) + 1) /\ Depth(ts, p) = Len(levels)
         /\ \A d \in 1..Len(levels) : levels[d] \in LevelRecord
<1>1. levels \in Seq(LevelRecord) /\ p \in 1..(Len(ts) + 1) /\ Len(levels) = Depth(ts, p)
  BY DEF Knows
<1>2. Len(levels) \in Nat /\ \A d \in 1..Len(levels) : levels[d] \in LevelRecord
  BY <1>1
<1> QED
  BY <1>1, <1>2, JsonType

LEMMA AppendIs ==
  ASSUME NEW S, NEW s \in Seq(S), NEW x \in S
  PROVE  /\ Append(s, x) \in Seq(S) /\ Len(Append(s, x)) = Len(s) + 1
         /\ Append(s, x)[Len(s) + 1] = x
         /\ \A k \in 1..Len(s) : Append(s, x)[k] = s[k]
OBVIOUS

LEMMA SetExpectNameIs ==
  ASSUME NEW levels \in Seq(LevelRecord), NEW v \in BOOLEAN
  PROVE  /\ SetExpectName(levels, v) \in Seq(LevelRecord)
         /\ Len(SetExpectName(levels, v)) = Len(levels)
         /\ \A d \in 1..Len(levels) : SetExpectName(levels, v)[d].object = levels[d].object
         /\ levels # <<>> /\ levels[Len(levels)].object
              => SetExpectName(levels, v)[Len(levels)].expectName = v
<1> DEFINE n == Len(levels)
           s == [levels EXCEPT ![n].expectName = v]
<1>1. n \in Nat /\ \A d \in 1..n : levels[d] \in LevelRecord
  OBVIOUS
<1>2. levels \in [1..n -> LevelRecord]
  OBVIOUS
<1>3. CASE levels # <<>> /\ levels[n].object
  <2>1. n \in 1..n
    BY <1>1, <1>3
  <2>2. [levels[n] EXCEPT !.expectName = v] \in LevelRecord
    BY <1>1, <2>1 DEF LevelRecord
  <2>3. s \in [1..n -> LevelRecord]
    BY <1>2, <2>1, <2>2
  <2>4. /\ s[n].expectName = v /\ s[n].object = levels[n].object
    BY <1>1, <1>2, <2>1 DEF LevelRecord
  <2>5. \A d \in 1..n : d # n => s[d] = levels[d]
    BY <1>2, <2>1
  <2>6. s \in Seq(LevelRecord) /\ Len(s) = n
    <3> HIDE DEF s
    <3> QED
      BY <1>1, <2>3
  <2>7. SetExpectName(levels, v) = s
    BY <1>3 DEF SetExpectName
  <2> HIDE DEF s, n
  <2>8. \A d \in 1..n : s[d].object = levels[d].object
    BY <2>4, <2>5
  <2> QED
    BY <2>4, <2>6, <2>7, <2>8 DEF n
<1>4. CASE ~(levels # <<>> /\ levels[n].object)
  <2>1. SetExpectName(levels, v) = levels
    BY <1>4 DEF SetExpectName
  <2> QED
    BY <1>4, <2>1
<1> QED
  BY <1>3, <1>4

LEMMA SetExpectNameTwice ==
  ASSUME NEW levels \in Seq(LevelRecord), NEW v \in BOOLEAN, NEW w \in BOOLEAN
  PROVE  SetExpectName(SetExpectName(levels, v), w) = SetExpectName(levels, w)
<1> DEFINE n == Len(levels)
           s == [levels EXCEPT ![n].expectName = v]
<1>1. n \in Nat /\ levels \in [1..n -> LevelRecord]
  OBVIOUS
<1>2. CASE levels # <<>> /\ levels[n].object
  <2>1. n \in 1..n
    BY <1>1, <1>2
  <2>2. SetExpectName(levels, v) = s
    BY <1>2 DEF SetExpectName
  <2>3. s # <<>> /\ Len(s) = n /\ s[n].object
    <3>1. LET t == SetExpectName(levels, v) IN
          Len(t) = n /\ t[n].object = levels[n].object /\ t \in Seq(LevelRecord)
      <4> HIDE DEF s
      <4> QED
        BY <2>1, SetExpectNameIs
    <3> HIDE DEF s
    <3> QED
      BY <2>1, <2>2, <3>1, <1>2
  <2>4. SetExpectName(s, w) = [s EXCEPT ![n].expectName = w]
    BY <2>3 DEF SetExpectName
  <2>5. [s EXCEPT ![n].expectName = w] = [levels EXCEPT ![n].expectName = w]
    <3>1. [[levels[n] EXCEPT !.expectName = v] EXCEPT !.expectName = w] = [levels[n] EXCEPT !.expectName = w]
      <4>1. levels[n] \in LevelRecord
        BY <1>1, <2>1
      <4> QED
        BY <4>1 DEF LevelRecord
    <3> QED
      BY <1>1, <2>1, <3>1
  <2> QED
    BY <1>2, <2>2, <2>4, <2>5 DEF SetExpectName
<1>3. CASE ~(levels # <<>> /\ levels[n].object)
  BY <1>3 DEF SetExpectName
<1> QED
  BY <1>2, <1>3

\* The outer levels stay while nothing is as shallow as they are.
LEMMA LevelsStay ==
  ASSUME NEW ts, IsJson(ts), NEW levels, NEW p, Knows(ts, levels, p),
         NEW q \in 1..(Len(ts) + 1), p <= q,
         NEW n \in 0..Len(levels), \A l \in (p + 1)..q : Depth(ts, l) >= n,
         NEW d \in 1..n, NEW i, IsLevel(ts, levels, p, d, i)
  PROVE  IsLevel(ts, levels, q, d, i)
<1>1. OpenAt(ts, i, p) /\ Depth(ts, i) = d - 1
  BY DEF IsLevel
<1>2. d \in Nat /\ n \in Nat /\ p \in Nat /\ q \in Nat
  BY KnowsType
<1>3. \A l \in (p + 1)..q : Depth(ts, l) > Depth(ts, i)
  <2>1. ASSUME NEW l \in (p + 1)..q PROVE Depth(ts, l) > Depth(ts, i)
    <3>1. l \in Int /\ Depth(ts, l) >= n
      BY <1>2
    <3>2. Depth(ts, l) \in Int
      BY <3>1, DepthType
    <3> QED
      BY <1>1, <1>2, <3>1, <3>2
  <2> QED
    BY <2>1
<1>4. OpenAt(ts, i, q)
  BY <1>1, <1>3, OpenAtLater
<1> QED
  BY <1>4 DEF IsLevel

LEMMA LevelUnique ==
  ASSUME NEW ts, IsJson(ts), NEW levels, NEW p, NEW i \in Objects(ts), NEW i1, NEW d,
         OpenAt(ts, i, p), Depth(ts, i1) = Depth(ts, i), IsLevel(ts, levels, p, d, i1)
  PROVE  i1 = i /\ levels[d].object = TRUE
<1>1. i1 = i
  BY OpenAtUnique DEF IsLevel
<1> QED
  BY <1>1 DEF IsLevel, Objects

\* Past a scalar, a name, or a name and its value: the same brackets are open.
LEMMA KnowsFlat ==
  ASSUME NEW ts, IsJson(ts), NEW levels, NEW p, Knows(ts, levels, p),
         NEW q \in 1..(Len(ts) + 1), p <= q, Depth(ts, q) = Depth(ts, p),
         \A l \in (p + 1)..q : Depth(ts, l) >= Depth(ts, p),
         NEW v \in BOOLEAN,
         \A i \in Objects(ts) :
           OpenAt(ts, i, p) /\ Depth(ts, i) = Len(levels) - 1 => v = (Place(ts, i, q) % 2 = 0)
  PROVE  Knows(ts, SetExpectName(levels, v), q)
<1> DEFINE new == SetExpectName(levels, v)
           n == Len(levels)
<1>1. /\ levels \in Seq(LevelRecord) /\ n \in Nat /\ Len(ts) \in Nat /\ Depth(ts, p) = n
      /\ \A d \in 1..n : levels[d] \in LevelRecord
  BY KnowsType
<1>2. /\ new \in Seq(LevelRecord) /\ Len(new) = n
      /\ \A d \in 1..n : new[d].object = levels[d].object
      /\ levels # <<>> /\ levels[n].object => new[n].expectName = v
  BY <1>1, SetExpectNameIs
<1>3. ASSUME NEW d \in 1..n, NEW i, IsLevel(ts, levels, p, d, i)
      PROVE  IsLevel(ts, levels, q, d, i) /\ IsLevel(ts, new, q, d, i)
  <2>1. n \in 0..Len(levels) /\ \A l \in (p + 1)..q : Depth(ts, l) >= n
    BY <1>1
  <2>2. IsLevel(ts, levels, q, d, i)
    BY <1>3, <2>1, LevelsStay
  <2> QED
    BY <1>2, <2>2 DEF IsLevel
<1>4. \A d \in 1..n : \E i \in OpenPositions(ts) : IsLevel(ts, levels, p, d, i)
  BY DEF Knows
<1> HIDE DEF new, n
<1>5. ASSUME NEW i \in Objects(ts), OpenAt(ts, i, q), Depth(ts, i) = Len(new) - 1
      PROVE  new[Len(new)].expectName = (Place(ts, i, q) % 2 = 0)
  <2>1. Depth(ts, i) \in Nat
    BY <1>5, OpenAtType
  <2>2. n \in 1..n /\ levels # <<>>
    <3>1. n \in 1..n
      BY <1>1, <1>2, <1>5, <2>1
    <3> QED
      BY <1>1, <3>1 DEF n
  <2>3. PICK i1 \in OpenPositions(ts) : IsLevel(ts, levels, p, n, i1)
    BY <1>4, <2>2
  <2>4. IsLevel(ts, levels, q, n, i1)
    BY <1>3, <2>2, <2>3
  <2>5. i1 = i /\ levels[n].object = TRUE
    <3>1. Depth(ts, i1) = Depth(ts, i) /\ OpenAt(ts, i, q)
      BY <1>2, <1>5, <2>4 DEF IsLevel
    <3> QED
      BY <2>4, <3>1, LevelUnique
  <2>6. OpenAt(ts, i, p)
    BY <2>3, <2>5 DEF IsLevel
  <2>7. v = (Place(ts, i, q) % 2 = 0)
    BY <1>2, <1>5, <2>6 DEF n
  <2> QED
    BY <1>2, <2>2, <2>5, <2>7
<1>6. \A d \in 1..Len(new) : \E i \in OpenPositions(ts) : IsLevel(ts, new, q, d, i)
  BY <1>2, <1>3, <1>4
<1>7. Len(new) = Depth(ts, q)
  BY <1>1, <1>2
<1>8. Knows(ts, new, q)
  BY <1>2, <1>5, <1>6, <1>7 DEF Knows
<1> QED
  BY <1>8 DEF new

\* Past an opening bracket: one more is open, with nothing in it yet.
LEMMA KnowsOpen ==
  ASSUME NEW ts, IsJson(ts), NEW levels, NEW p \in 1..Len(ts), Knows(ts, levels, p),
         ts[p].kind \in Openers
  PROVE  Knows(ts, Append(levels, Level(ts[p].kind = "{")), p + 1)
<1> DEFINE top == Level(ts[p].kind = "{")
           new == Append(levels, top)
           n == Len(levels)
<1>1. /\ levels \in Seq(LevelRecord) /\ n \in Nat /\ Len(ts) \in Nat /\ Depth(ts, p) = n
      /\ p \in Nat /\ p + 1 \in 1..(Len(ts) + 1) /\ DOMAIN ts = 1..Len(ts)
  BY KnowsType, JsonType
<1>2. top \in LevelRecord /\ top.object = (ts[p].kind = "{") /\ top.expectName = (ts[p].kind = "{")
  BY DEF Level, LevelRecord
<1>3. p \in OpenPositions(ts)
  BY <1>1 DEF OpenPositions
<1>4. Depth(ts, p + 1) = n + 1
  BY <1>1, DepthStep
<1> HIDE DEF top
<1>5. /\ new \in Seq(LevelRecord) /\ Len(new) = n + 1 /\ new[n + 1] = top
      /\ \A d \in 1..n : new[d] = levels[d]
  <2>1. levels \in Seq(LevelRecord) /\ top \in LevelRecord
    BY <1>1, <1>2
  <2> HIDE DEF n
  <2>2. /\ Append(levels, top) \in Seq(LevelRecord) /\ Len(Append(levels, top)) = Len(levels) + 1
        /\ Append(levels, top)[Len(levels) + 1] = top
        /\ \A k \in 1..Len(levels) : Append(levels, top)[k] = levels[k]
    BY <2>1, AppendIs
  <2> QED
    BY <2>2 DEF n
<1>6. IsLevel(ts, new, p + 1, n + 1, p)
  <2>1. \A l \in (p + 1)..(p + 1) : Depth(ts, l) > Depth(ts, p)
    BY <1>1, <1>4
  <2>2. OpenAt(ts, p, p + 1)
    BY <1>1, <1>3, <2>1 DEF OpenAt
  <2>3. Depth(ts, p) = (n + 1) - 1
    BY <1>1
  <2>4. new[n + 1].object = (ts[p].kind = "{")
    BY <1>2, <1>5
  <2> QED
    BY <2>2, <2>3, <2>4 DEF IsLevel
<1>7. ASSUME NEW d \in 1..n PROVE \E i \in OpenPositions(ts) : IsLevel(ts, new, p + 1, d, i)
  <2>1. PICK i \in OpenPositions(ts) : IsLevel(ts, levels, p, d, i)
    BY DEF Knows
  <2>2. /\ n \in 0..Len(levels) /\ \A l \in (p + 1)..(p + 1) : Depth(ts, l) >= n
        /\ p <= p + 1
    BY <1>1, <1>4
  <2>3. IsLevel(ts, levels, p + 1, d, i)
    BY <1>1, <2>1, <2>2, LevelsStay
  <2>4. IsLevel(ts, new, p + 1, d, i)
    BY <1>5, <2>3 DEF IsLevel
  <2> QED
    BY <2>4
<1> HIDE DEF new, n
<1>8. \A d \in 1..Len(new) : \E i \in OpenPositions(ts) : IsLevel(ts, new, p + 1, d, i)
  <2>1. ASSUME NEW d \in 1..Len(new) PROVE \E i \in OpenPositions(ts) : IsLevel(ts, new, p + 1, d, i)
    <3>1. d \in 1..n \/ d = n + 1
      BY <1>1, <1>5
    <3> QED
      BY <3>1, <1>3, <1>6, <1>7
  <2> QED
    BY <2>1
<1>9. ASSUME NEW i \in Objects(ts), OpenAt(ts, i, p + 1), Depth(ts, i) = Len(new) - 1
      PROVE  new[Len(new)].expectName = (Place(ts, i, p + 1) % 2 = 0)
  <2>1. i = p
    <3>1. Depth(ts, p) = Depth(ts, i) /\ OpenAt(ts, i, p + 1)
      BY <1>1, <1>5, <1>9
    <3>2. OpenAt(ts, p, p + 1)
      BY <1>6 DEF IsLevel
    <3> QED
      BY <3>1, <3>2, OpenAtUnique
  <2>2. Inside(ts, p) \in SUBSET (1..Len(ts))
    BY <1>3, InsideType
  <2>3. \A l \in Inside(ts, p) : ~(l <= p)
    <3>1. ASSUME NEW l \in Inside(ts, p) PROVE ~(l <= p)
      <4>1. OpenAt(ts, p, l)
        BY <1>3, InsideIs
      <4> QED
        BY <4>1, <1>1, OpenAtType
    <3> QED
      BY <3>1
  <2>4. {l \in Inside(ts, p) : l <= p} = {}
    BY <2>3
  <2>5. Place(ts, p, p + 1) = 0
    <3>1. (p + 1) - 1 = p
      BY <1>1
    <3> QED
      BY <2>4, <3>1, FS_EmptySet DEF Place, Rank
  <2>6. ts[p].kind = "{"
    BY <2>1 DEF Objects
  <2>7. Place(ts, i, p + 1) % 2 = 0
    BY <2>1, <2>5
  <2>8. new[Len(new)].expectName = (ts[p].kind = "{")
    BY <1>2, <1>5
  <2> QED
    BY <2>6, <2>7, <2>8
<1>10. Knows(ts, new, p + 1)
  BY <1>1, <1>4, <1>5, <1>8, <1>9 DEF Knows
<1> QED
  BY <1>10 DEF new, top

\* Past a closing bracket: one less is open, and what ended in the one around
\* it was a value.
LEMMA KnowsClose ==
  ASSUME NEW ts, IsJson(ts), NEW levels, NEW p \in 1..Len(ts), Knows(ts, levels, p),
         ts[p].kind \in Closers
  PROVE  Knows(ts, AfterValue(SubSeq(levels, 1, Len(levels) - 1)), p + 1)
<1> DEFINE n == Len(levels) - 1
           rest == SubSeq(levels, 1, n)
           new == AfterValue(rest)
<1>1. /\ levels \in Seq(LevelRecord) /\ Len(levels) \in Nat /\ Len(ts) \in Nat
      /\ Depth(ts, p) = Len(levels)
      /\ p \in Nat /\ p + 1 \in 1..(Len(ts) + 1) /\ DOMAIN ts = 1..Len(ts)
  BY KnowsType, JsonType
<1>2. Len(levels) > 0
  BY <1>1, JsonType DEF ClosePositions
<1>3. n \in Nat /\ n + 1 = Len(levels)
  BY <1>1, <1>2
<1>4. Depth(ts, p + 1) = n
  BY <1>1, DepthStep
<1>5. rest \in Seq(LevelRecord) /\ Len(rest) = n /\ \A d \in 1..n : rest[d] = levels[d]
  BY <1>1, <1>3
<1> HIDE DEF rest, n
<1>6. /\ new \in Seq(LevelRecord) /\ Len(new) = n
      /\ \A d \in 1..n : new[d].object = rest[d].object
      /\ rest # <<>> /\ rest[n].object => new[n].expectName = TRUE
  BY <1>5, SetExpectNameIs DEF AfterValue
<1> HIDE DEF new
<1>7. ASSUME NEW d \in 1..n, NEW i, IsLevel(ts, levels, p, d, i)
      PROVE  IsLevel(ts, levels, p + 1, d, i) /\ IsLevel(ts, new, p + 1, d, i)
  <2>1. /\ n \in 0..Len(levels) /\ \A l \in (p + 1)..(p + 1) : Depth(ts, l) >= n
        /\ p <= p + 1
    BY <1>1, <1>3, <1>4
  <2>2. IsLevel(ts, levels, p + 1, d, i)
    BY <1>1, <1>7, <2>1, LevelsStay
  <2> QED
    BY <1>5, <1>6, <2>2 DEF IsLevel
<1>8. \A d \in 1..(n + 1) : \E i \in OpenPositions(ts) : IsLevel(ts, levels, p, d, i)
  BY <1>3 DEF Knows
<1>9. \A d \in 1..n : d \in 1..(n + 1)
  BY <1>3
<1>10. \A d \in 1..Len(new) : \E i \in OpenPositions(ts) : IsLevel(ts, new, p + 1, d, i)
  BY <1>6, <1>7, <1>8, <1>9
<1>11. ASSUME NEW i \in Objects(ts), OpenAt(ts, i, p + 1), Depth(ts, i) = Len(new) - 1
       PROVE  new[Len(new)].expectName = (Place(ts, i, p + 1) % 2 = 0)
  <2>1. Depth(ts, i) \in Nat
    BY <1>11, OpenAtType
  <2>2. n \in 1..n /\ n + 1 \in 1..(n + 1) /\ rest # <<>>
    <3>1. n \in 1..n /\ n + 1 \in 1..(n + 1)
      BY <1>3, <1>6, <1>11, <2>1
    <3> QED
      BY <3>1, <1>5
  <2>3. PICK i1 \in OpenPositions(ts) : IsLevel(ts, levels, p, n, i1)
    BY <1>8, <1>9, <2>2
  <2>4. PICK c \in OpenPositions(ts) : IsLevel(ts, levels, p, n + 1, c)
    BY <1>8, <2>2
  <2>5. i1 = i /\ levels[n].object = TRUE
    <3>1. IsLevel(ts, levels, p + 1, n, i1)
      BY <1>7, <2>2, <2>3
    <3>2. Depth(ts, i1) = Depth(ts, i) /\ OpenAt(ts, i, p + 1)
      BY <1>6, <1>11, <3>1 DEF IsLevel
    <3> QED
      BY <3>1, <3>2, LevelUnique
  <2>6. OpenAt(ts, i, p) /\ OpenAt(ts, c, p) /\ Depth(ts, c) = Depth(ts, i) + 1
    <3>1. OpenAt(ts, i, p) /\ OpenAt(ts, c, p)
      BY <2>3, <2>4, <2>5 DEF IsLevel
    <3>2. Depth(ts, i) = n - 1 /\ Depth(ts, c) = (n + 1) - 1
      BY <2>3, <2>4, <2>5 DEF IsLevel
    <3> QED
      BY <1>3, <3>1, <3>2
  <2>7. /\ i \in Nat /\ c \in Nat /\ c \in 1..Len(ts) /\ i + 1 <= p /\ c + 1 <= p
        /\ Depth(ts, i) \in Nat /\ ts[c].kind \in Openers
    BY <2>6, OpenAtType
  <2>8. i < c
    <3>1. ASSUME ~(i < c) PROVE FALSE
      <4>1. i = c \/ i \in (c + 1)..p
        BY <1>1, <2>7, <3>1
      <4>2. i = c \/ Depth(ts, i) > Depth(ts, c)
        BY <2>6, <4>1 DEF OpenAt
      <4> QED
        BY <2>6, <2>7, <4>2
    <3> QED
      BY <3>1
  <2>9. i \in OpenPositions(ts)
    BY <2>6 DEF OpenAt
  <2>10. c \in Inside(ts, i)
    <3>1. \A l \in (i + 1)..c : l \in (i + 1)..p
      BY <1>1, <2>7
    <3>2. OpenAt(ts, i, c)
      BY <1>1, <2>6, <2>7, <2>8, <3>1 DEF OpenAt
    <3> QED
      BY <2>6, <2>7, <2>9, <3>2, InsideIs
  <2>11. Place(ts, i, c) % 2 # 0
    <3>1. ts[c].kind \notin {"str", "bad"} \cup Closers
      BY <2>7 DEF Openers, Closers
    <3> QED
      BY <2>10, <3>1, TurnsInObject
  <2>12. Place(ts, i, c + 1) = Place(ts, i, c) + 1 /\ Place(ts, i, c) \in Nat
    <3>1. c \in Int
      BY <2>7
    <3> QED
      BY <2>9, <2>10, <3>1, PlaceStep, InsideType
  <2>13. Place(ts, i, c + 1) = Place(ts, i, p + 1)
    <3>1. ASSUME NEW l \in (c + 1)..((p + 1) - 1) PROVE l \notin Inside(ts, i)
      <4>1. l \in (c + 1)..p
        BY <1>1, <2>7
      <4>2. Depth(ts, l) > Depth(ts, c)
        BY <2>6, <4>1 DEF OpenAt
      <4>3. l \in Inside(ts, i) => Depth(ts, l) = Depth(ts, c)
        BY <2>6, <2>9, InsideIs
      <4> QED
        BY <2>6, <2>7, <4>2, <4>3
    <3>2. c + 1 \in Int /\ p + 1 \in Int /\ c + 1 <= p + 1
      BY <1>1, <2>7
    <3> QED
      BY <2>9, <3>1, <3>2, PlaceSame
  <2>14. Place(ts, i, p + 1) % 2 = 0
    BY <2>11, <2>12, <2>13
  <2>15. new[n].expectName = TRUE
    BY <1>5, <1>6, <2>2, <2>5
  <2> QED
    BY <1>6, <2>14, <2>15
<1>12. Knows(ts, new, p + 1)
  BY <1>1, <1>4, <1>6, <1>10, <1>11 DEF Knows
<1> QED
  BY <1>12 DEF new, rest, n

\* The innermost bracket holds what stands at p; a name comes next just if the
\* stack says so.
LEMMA TopHolds ==
  ASSUME NEW ts, IsJson(ts), NEW levels, NEW p \in 1..Len(ts), Knows(ts, levels, p),
         NEW i \in Objects(ts), OpenAt(ts, i, p), Depth(ts, i) = Len(levels) - 1
  PROVE  /\ p \in Inside(ts, i) /\ i \in OpenPositions(ts) /\ Place(ts, i, p) \in Nat
         /\ IsNamePlace(ts, p) <=> Place(ts, i, p) % 2 = 0
<1>1. Depth(ts, p) = Depth(ts, i) + 1
  BY KnowsType, OpenAtType
<1>2. i \in OpenPositions(ts)
  BY DEF OpenAt
<1>3. p \in Inside(ts, i)
  BY <1>1, <1>2, InsideIs
<1>4. Place(ts, i, p) \in Nat
  <2>1. p \in Int
    BY KnowsType
  <2> QED
    BY <1>2, <2>1, InsideType
<1>5. ASSUME IsNamePlace(ts, p) PROVE Place(ts, i, p) % 2 = 0
  <2>1. PICK i1 \in Objects(ts) : p \in Inside(ts, i1) /\ Place(ts, i1, p) % 2 = 0
    BY <1>5 DEF IsNamePlace
  <2>2. i1 = i
    BY <1>2, <1>3, <2>1, TurnsInObject, InsideUnique
  <2> QED
    BY <2>1, <2>2
<1>6. ASSUME Place(ts, i, p) % 2 = 0 PROVE IsNamePlace(ts, p)
  BY <1>3, <1>6 DEF IsNamePlace
<1> QED
  BY <1>2, <1>3, <1>4, <1>5, <1>6

LEMMA ExpectsNameIs ==
  ASSUME NEW ts, IsJson(ts), NEW levels, NEW p \in 1..Len(ts), Knows(ts, levels, p)
  PROVE  IsNamePlace(ts, p) <=>
           levels # <<>> /\ levels[Len(levels)].object /\ levels[Len(levels)].expectName
<1> DEFINE n == Len(levels)
<1>1. /\ levels \in Seq(LevelRecord) /\ n \in Nat /\ Depth(ts, p) = n
      /\ \A d \in 1..n : levels[d] \in LevelRecord
  BY KnowsType
<1>2. ASSUME IsNamePlace(ts, p)
      PROVE  levels # <<>> /\ levels[n].object /\ levels[n].expectName
  <2>1. PICK i \in Objects(ts) : p \in Inside(ts, i) /\ Place(ts, i, p) % 2 = 0
    BY <1>2 DEF IsNamePlace
  <2>2. i \in OpenPositions(ts) /\ OpenAt(ts, i, p) /\ n = Depth(ts, i) + 1
    BY <1>1, <2>1, TurnsInObject, InsideIs
  <2>3. Depth(ts, i) = n - 1 /\ n \in 1..n
    <3>1. Depth(ts, i) \in Nat
      BY <2>2, OpenAtType
    <3> QED
      BY <2>2, <3>1
  <2>4. levels[n].expectName = (Place(ts, i, p) % 2 = 0)
    BY <2>2, <2>3 DEF Knows
  <2>5. PICK i1 \in OpenPositions(ts) : IsLevel(ts, levels, p, n, i1)
    BY <2>3 DEF Knows
  <2>6. levels[n].object = TRUE
    <3>1. Depth(ts, i1) = Depth(ts, i)
      BY <2>3, <2>5 DEF IsLevel
    <3> QED
      BY <2>2, <2>5, <3>1, LevelUnique
  <2>7. (Place(ts, i, p) % 2 = 0) = TRUE
    BY <2>1
  <2>8. levels[n].expectName = TRUE
    BY <2>4, <2>7
  <2>9. levels # <<>>
    BY <1>1, <2>3
  <2> QED
    BY <2>6, <2>8, <2>9
<1>3. ASSUME levels # <<>>, levels[n].object, levels[n].expectName
      PROVE  IsNamePlace(ts, p)
  <2>1. n \in 1..n
    BY <1>1, <1>3
  <2>2. PICK i \in OpenPositions(ts) : IsLevel(ts, levels, p, n, i)
    BY <2>1 DEF Knows
  <2>3. OpenAt(ts, i, p) /\ Depth(ts, i) = n - 1 /\ ts[i].kind = "{"
    BY <1>3, <2>2 DEF IsLevel
  <2>4. i \in Objects(ts)
    BY <2>3 DEF OpenPositions, Objects
  <2>5. levels[n].expectName = (Place(ts, i, p) % 2 = 0)
    BY <2>3, <2>4 DEF Knows
  <2>6. Place(ts, i, p) % 2 = 0
    BY <1>3, <2>5
  <2> QED
    BY <2>3, <2>4, <2>6, TopHolds
<1> QED
  BY <1>2, <1>3

\* Past a scalar that is no name, and past a name that is not covered.
LEMMA KnowsToken ==
  ASSUME NEW ts, IsJson(ts), NEW levels, NEW p \in 1..Len(ts), Knows(ts, levels, p),
         ts[p].kind \notin Openers \cup Closers,
         NEW v \in BOOLEAN, v <=> ~IsNamePlace(ts, p)
  PROVE  Knows(ts, SetExpectName(levels, v), p + 1)
<1>1. p \in Nat /\ Len(ts) \in Nat /\ p + 1 \in 1..(Len(ts) + 1) /\ p <= p + 1 /\ Depth(ts, p) \in Nat
  BY KnowsType
<1>2. Depth(ts, p + 1) = Depth(ts, p)
  BY DepthStep
<1>3. \A l \in (p + 1)..(p + 1) : Depth(ts, l) >= Depth(ts, p)
  BY <1>1, <1>2
<1>4. ASSUME NEW i \in Objects(ts), OpenAt(ts, i, p), Depth(ts, i) = Len(levels) - 1
      PROVE  v = (Place(ts, i, p + 1) % 2 = 0)
  <2>1. /\ p \in Inside(ts, i) /\ i \in OpenPositions(ts) /\ Place(ts, i, p) \in Nat
        /\ IsNamePlace(ts, p) <=> Place(ts, i, p) % 2 = 0
    BY <1>4, TopHolds
  <2>2. Place(ts, i, p + 1) = Place(ts, i, p) + 1
    BY <2>1, PlaceStep
  <2>3. Place(ts, i, p + 1) % 2 = 0 <=> ~(Place(ts, i, p) % 2 = 0)
    BY <2>1, <2>2
  <2> QED
    BY <2>1, <2>3
<1> QED
  BY <1>1, <1>2, <1>3, <1>4, KnowsFlat

\* Past a covered name and its value.
LEMMA KnowsSecret ==
  ASSUME NEW ts, IsJson(ts), NEW levels, NEW p \in Secrets(ts), Knows(ts, levels, p)
  PROVE  Knows(ts, SetExpectName(levels, TRUE), ValueEnd(ts, p + 1) + 1)
<1> DEFINE e == ValueEnd(ts, p + 1)
<1>1. /\ p \in 1..Len(ts) /\ p + 1 \in 1..Len(ts) /\ ts[p].kind = "str"
      /\ Depth(ts, p + 1) = Depth(ts, p) /\ e \in (p + 1)..Len(ts)
      /\ Depth(ts, e + 1) = Depth(ts, p)
      /\ \A l \in (p + 2)..e : Depth(ts, l) > Depth(ts, p)
  BY SecretValue
<1> HIDE DEF e
<1>2. /\ p \in Nat /\ Len(ts) \in Nat /\ e \in Nat /\ e + 1 \in 1..(Len(ts) + 1) /\ p <= e + 1
      /\ Depth(ts, p) \in Nat /\ (p + 1) + 1 = p + 2 /\ (e + 1) - 1 = e
  BY <1>1, KnowsType
<1>3. \A l \in (p + 1)..(e + 1) : Depth(ts, l) >= Depth(ts, p)
  <2>1. ASSUME NEW l \in (p + 1)..(e + 1) PROVE Depth(ts, l) >= Depth(ts, p)
    <3>1. l = p + 1 \/ l = e + 1 \/ l \in (p + 2)..e
      BY <1>2
    <3>2. l \in Int /\ Depth(ts, l) \in Int
      BY <1>2, DepthType
    <3> QED
      BY <1>1, <1>2, <3>1, <3>2
  <2> QED
    BY <2>1
<1>4. ASSUME NEW i \in Objects(ts), OpenAt(ts, i, p), Depth(ts, i) = Len(levels) - 1
      PROVE  TRUE = (Place(ts, i, e + 1) % 2 = 0)
  <2>1. /\ p \in Inside(ts, i) /\ i \in OpenPositions(ts) /\ Place(ts, i, p) \in Nat
        /\ Place(ts, i, p) % 2 = 0
    BY <1>1, <1>4, TopHolds DEF Secrets, Secret
  <2>2. p + 1 \in Inside(ts, i) /\ Place(ts, i, p + 1) = Place(ts, i, p) + 1
    BY <1>1, <2>1, AfterName
  <2>3. Place(ts, i, p + 2) = Place(ts, i, p) + 2
    <3>1. Place(ts, i, (p + 1) + 1) = Place(ts, i, p + 1) + 1
      BY <2>1, <2>2, PlaceStep
    <3> QED
      BY <1>2, <2>1, <2>2, <3>1
  <2>4. Depth(ts, p) = Depth(ts, i) + 1
    BY <2>1, InsideIs
  <2>5. ASSUME NEW l \in (p + 2)..((e + 1) - 1) PROVE l \notin Inside(ts, i)
    <3>1. Depth(ts, l) > Depth(ts, p)
      BY <1>1, <1>2
    <3>2. l \in Inside(ts, i) => Depth(ts, l) = Depth(ts, p)
      BY <2>1, <2>4, InsideIs
    <3> QED
      BY <1>2, <3>1, <3>2
  <2>6. Place(ts, i, p + 2) = Place(ts, i, e + 1)
    <3>1. p + 2 \in Int /\ e + 1 \in Int /\ p + 2 <= e + 1
      BY <1>1, <1>2
    <3> QED
      BY <2>1, <2>5, <3>1, PlaceSame
  <2> QED
    BY <2>1, <2>3, <2>6
<1>5. Knows(ts, SetExpectName(levels, TRUE), e + 1)
  <2>1. TRUE \in BOOLEAN
    OBVIOUS
  <2> QED
    BY <1>1, <1>2, <1>3, <1>4, <2>1, KnowsFlat
<1> QED
  BY <1>5 DEF e

-----------------------------------------------------------------------------
(***************************************************************************)
(* What is written                                                         *)
(***************************************************************************)
\* Up to p, the masked tokens are written and no token was unreadable; no
\* secret that has begun is still to end.
WroteUpTo(ts, written, p) ==
  LET H == Hidden(ts)
      W == Written(ts, H)
  IN  /\ Len(written) = Rank(W, p - 1)
      /\ \A k \in 1..Len(written) : written[k] = Image(ts, H, Nth(W, k))
      /\ \A j \in Secrets(ts) : j < p => \A l \in Value(ts, j) : l < p
      /\ \A l \in DOMAIN ts : l < p => ts[l].kind # "bad"

LEMMA WrittenType ==
  ASSUME NEW ts, IsJson(ts)
  PROVE  /\ Written(ts, Hidden(ts)) \in SUBSET (1..Len(ts))
         /\ Cardinality(Written(ts, Hidden(ts))) \in Nat
         /\ Hidden(ts) \in SUBSET (1..Len(ts))
         /\ \A j \in Secrets(ts) : j \in 1..Len(ts) /\ j + 1 \in Value(ts, j)
<1>1. ASSUME NEW j \in Secrets(ts)
      PROVE  /\ j \in 1..Len(ts) /\ j + 1 \in 1..Len(ts) /\ j + 1 \in Value(ts, j)
             /\ Value(ts, j) \in SUBSET (1..Len(ts))
  <2>1. /\ j \in 1..Len(ts) /\ j + 1 \in 1..Len(ts)
        /\ ValueEnd(ts, j + 1) \in (j + 1)..Len(ts)
        /\ Value(ts, j) = (j + 1)..ValueEnd(ts, j + 1)
    BY SecretValue
  <2> QED
    BY <2>1, JsonType
<1>2. Hidden(ts) \in SUBSET (1..Len(ts))
  BY <1>1 DEF Hidden
<1>3. Written(ts, Hidden(ts)) \in SUBSET (1..Len(ts))
  BY <1>1, JsonType DEF Written
<1>4. Cardinality(Written(ts, Hidden(ts))) \in Nat
  <2>1. 0 \in Int
    OBVIOUS
  <2> QED
    BY <1>3, <2>1, JsonType, RankType
<1> QED
  BY <1>1, <1>2, <1>3, <1>4

LEMMA NotHidden ==
  ASSUME NEW ts, IsJson(ts), NEW w, NEW p \in 1..Len(ts), WroteUpTo(ts, w, p)
  PROVE  p \notin Hidden(ts)
<1>1. ASSUME NEW j \in Secrets(ts), p \in Value(ts, j) PROVE FALSE
  <2>1. Value(ts, j) = (j + 1)..ValueEnd(ts, j + 1) /\ j \in 1..Len(ts)
    BY SecretValue
  <2>2. j < p /\ ~(p < p)
    BY <1>1, <2>1, JsonType
  <2> QED
    BY <1>1, <2>2 DEF WroteUpTo
<1> QED
  BY <1>1 DEF Hidden

\* A token that is no secret's name is written as it is.
LEMMA WroteToken ==
  ASSUME NEW ts, IsJson(ts), NEW T, NEW w \in Seq(T), NEW p \in 1..Len(ts), WroteUpTo(ts, w, p),
         ts[p] \in T, ts[p].kind # "bad", p \notin Secrets(ts)
  PROVE  WroteUpTo(ts, w \o <<ts[p]>>, p + 1)
<1> DEFINE H == Hidden(ts)
           W == Written(ts, H)
           new == w \o <<ts[p]>>
<1>1. /\ Len(ts) \in Nat /\ DOMAIN ts = 1..Len(ts) /\ p \in Nat /\ p \in Int /\ p - 1 \in Int
      /\ (p + 1) - 1 = p
  BY JsonType
<1>2. W \in SUBSET (1..Len(ts)) /\ Cardinality(W) \in Nat
  BY WrittenType
<1>3. p \notin H /\ p \in W
  <2>1. p \notin H
    BY NotHidden
  <2> QED
    BY <1>1, <2>1 DEF Written
<1>4. /\ Len(w) = Rank(W, p - 1)
      /\ \A k \in 1..Len(w) : w[k] = Image(ts, H, Nth(W, k))
      /\ \A j \in Secrets(ts) : j < p => \A l \in Value(ts, j) : l < p
      /\ \A l \in DOMAIN ts : l < p => ts[l].kind # "bad"
  BY DEF WroteUpTo
<1>5. \A j \in Secrets(ts) : j \in 1..Len(ts) /\ \A l \in Value(ts, j) : l \in Int
  BY <1>1, SecretValue
<1>6. Len(w) \in Nat /\ Len(new) = Len(w) + 1 /\ new[Len(w) + 1] = ts[p]
      /\ \A k \in 1..Len(w) : new[k] = w[k]
  OBVIOUS
<1> HIDE DEF H, W, new
<1>7. Rank(W, p) = Len(w) + 1 /\ Nth(W, Rank(W, p)) = p
  BY <1>1, <1>2, <1>3, <1>4, RankStep, NthIs
<1>8. Len(new) = Rank(W, (p + 1) - 1)
  BY <1>1, <1>6, <1>7
<1>9. ASSUME NEW k \in 1..Len(new) PROVE new[k] = Image(ts, H, Nth(W, k))
  <2>1. k \in 1..Len(w) \/ k = Len(w) + 1
    BY <1>6
  <2>2. Image(ts, H, Nth(W, Len(w) + 1)) = ts[p]
    BY <1>3, <1>7 DEF Image
  <2> QED
    BY <1>4, <1>6, <2>1, <2>2
<1>10. ASSUME NEW j \in Secrets(ts), j < p + 1, NEW l \in Value(ts, j) PROVE l < p + 1
  <2>1. j # p
    OBVIOUS
  <2>2. j < p
    BY <1>1, <1>5, <1>10, <2>1
  <2> QED
    BY <1>1, <1>4, <1>5, <2>2
<1>11. ASSUME NEW l \in DOMAIN ts, l < p + 1 PROVE ts[l].kind # "bad"
  <2>1. l < p \/ l = p
    BY <1>1, <1>11
  <2> QED
    BY <1>4, <2>1
<1> QED
  BY <1>8, <1>9, <1>10, <1>11 DEF WroteUpTo, H, W, new

\* A secret's name is written and then the replacement; the value, with all the
\* secrets in it, is passed over.
LEMMA WroteSecret ==
  ASSUME NEW ts, IsJson(ts), NEW T, NEW w \in Seq(T), NEW p \in Secrets(ts), WroteUpTo(ts, w, p),
         ts[p] \in T, Token("str", Replacement) \in T,
         \A l \in (p + 1)..ValueEnd(ts, p + 1) : ts[l].kind # "bad"
  PROVE  WroteUpTo(ts, w \o <<ts[p], Token("str", Replacement)>>, ValueEnd(ts, p + 1) + 1)
<1> DEFINE H == Hidden(ts)
           W == Written(ts, H)
           r == Token("str", Replacement)
           new == w \o <<ts[p], r>>
           e == ValueEnd(ts, p + 1)
<1>1. /\ p \in 1..Len(ts) /\ p + 1 \in 1..Len(ts) /\ ts[p].kind = "str"
      /\ Depth(ts, p + 1) = Depth(ts, p) /\ e \in (p + 1)..Len(ts)
      /\ Value(ts, p) = (p + 1)..e
      /\ Depth(ts, e + 1) = Depth(ts, p)
      /\ \A l \in (p + 2)..e : Depth(ts, l) > Depth(ts, p)
  BY SecretValue
<1> HIDE DEF e
<1>2. /\ Len(ts) \in Nat /\ DOMAIN ts = 1..Len(ts) /\ p \in Nat /\ p \in Int /\ p - 1 \in Int
      /\ (p + 1) - 1 = p /\ p + 1 \in Int /\ e \in Nat /\ e \in Int /\ (e + 1) - 1 = e /\ p + 1 <= e
      /\ e + 1 \in Int
  BY <1>1, JsonType
<1>3. W \in SUBSET (1..Len(ts)) /\ Cardinality(W) \in Nat
  BY WrittenType
<1>4. p \notin H /\ p \in W /\ p + 1 \in W /\ p + 1 \in H
  <2>1. p \notin H
    BY <1>1, NotHidden
  <2>2. p + 1 \in Value(ts, p)
    BY <1>1, <1>2
  <2> QED
    BY <1>1, <1>2, <2>1, <2>2 DEF Written, Hidden
<1>5. /\ Len(w) = Rank(W, p - 1)
      /\ \A k \in 1..Len(w) : w[k] = Image(ts, H, Nth(W, k))
      /\ \A j \in Secrets(ts) : j < p => \A l \in Value(ts, j) : l < p
      /\ \A l \in DOMAIN ts : l < p => ts[l].kind # "bad"
  BY DEF WroteUpTo
<1>6. /\ Len(w) \in Nat /\ Len(new) = Len(w) + 2 /\ new[Len(w) + 1] = ts[p] /\ new[Len(w) + 2] = r
      /\ \A k \in 1..Len(w) : new[k] = w[k]
  <2> HIDE DEF r
  <2> QED
    OBVIOUS
<1>7. ASSUME NEW l \in W PROVE ~(p + 1 < l /\ l <= e)
  <2>1. SUFFICES ASSUME p + 1 < l, l <= e PROVE FALSE
    OBVIOUS
  <2>2. l \in Int
    BY <1>3
  <2>3. l \in Value(ts, p)
    BY <1>1, <1>2, <2>1, <2>2
  <2>4. l \in H
    BY <2>3 DEF Hidden
  <2>5. PICK j \in Secrets(ts) \ H : l = j + 1
    BY <2>4 DEF Written
  <2>6. j \in 1..Len(ts)
    BY SecretValue
  <2>7. j \in Value(ts, p)
    BY <1>1, <1>2, <2>1, <2>5, <2>6
  <2> QED
    BY <2>5, <2>7 DEF Hidden
<1>8. ASSUME NEW j \in Secrets(ts), j < e + 1, NEW l \in Value(ts, j) PROVE l < e + 1
  <2>1. /\ j \in 1..Len(ts) /\ j \in Nat /\ l \in Int /\ l \in (j + 1)..ValueEnd(ts, j + 1)
        /\ ValueEnd(ts, j + 1) \in Int /\ ts[j].kind = "str"
        /\ Depth(ts, j + 1) = Depth(ts, j)
        /\ \A m \in (j + 2)..ValueEnd(ts, j + 1) : Depth(ts, m) > Depth(ts, j)
    BY <1>2, SecretValue
  <2>2. CASE j < p
    BY <1>2, <1>5, <2>1, <2>2
  <2>3. CASE j = p
    BY <1>1, <1>2, <2>3
  <2>4. CASE j = p + 1
    <3>1. PICK i \in Objects(ts) : p \in Inside(ts, i) /\ Place(ts, i, p) % 2 = 0
      BY DEF Secrets, Secret, IsNamePlace
    <3>2. PICK i1 \in Objects(ts) : j \in Inside(ts, i1) /\ Place(ts, i1, j) % 2 = 0
      BY DEF Secrets, Secret, IsNamePlace
    <3>3. p + 1 \in Inside(ts, i) /\ Place(ts, i, p + 1) % 2 = 1
      BY <1>1, <3>1, AfterName
    <3>4. i \in OpenPositions(ts) /\ i1 \in OpenPositions(ts)
      BY <3>1, <3>2, TurnsInObject
    <3>5. i1 = i
      BY <2>4, <3>2, <3>3, <3>4, InsideUnique
    <3> QED
      BY <2>4, <3>2, <3>3, <3>5
  <2>5. CASE p + 1 < j
    <3>1. j \in (p + 2)..e
      BY <1>2, <1>8, <2>1, <2>5
    <3>2. Depth(ts, j) > Depth(ts, p)
      BY <1>1, <3>1
    <3>3. Depth(ts, j) \in Int /\ Depth(ts, p) \in Int
      BY <1>2, <2>1, DepthType
    <3>4. j # e
      BY <1>1, <2>1, <3>2, <3>3
    <3>5. ASSUME ~(l < e + 1) PROVE e + 1 \in (j + 2)..ValueEnd(ts, j + 1)
      <4> DEFINE v == ValueEnd(ts, j + 1)
      <4>1. j <= e /\ j # e /\ j \in Int /\ e \in Int /\ e + 1 <= l
        BY <1>2, <2>1, <3>1, <3>4, <3>5
      <4>2. v \in Int /\ l <= v /\ l \in Int
        BY <2>1
      <4> HIDE DEF v
      <4>3. j + 2 <= e + 1 /\ e + 1 <= v /\ e + 1 \in Int
        BY <4>1, <4>2
      <4>4. e + 1 \in (j + 2)..v
        BY <4>1, <4>2, <4>3
      <4> QED
        BY <4>4 DEF v
    <3>6. e + 1 \in (j + 2)..ValueEnd(ts, j + 1) => Depth(ts, e + 1) > Depth(ts, j)
      BY <2>1
    <3> QED
      BY <1>1, <3>2, <3>3, <3>5, <3>6
  <2> QED
    BY <1>2, <2>1, <2>2, <2>3, <2>4, <2>5
<1> HIDE DEF H, W, new, r
<1>9. /\ Rank(W, p) = Len(w) + 1 /\ Nth(W, Len(w) + 1) = p
      /\ Rank(W, p + 1) = Len(w) + 2 /\ Nth(W, Len(w) + 2) = p + 1
  <2>1. Rank(W, p) = Len(w) + 1 /\ Nth(W, Rank(W, p)) = p
    BY <1>2, <1>3, <1>4, <1>5, RankStep, NthIs
  <2>2. Rank(W, p + 1) = Rank(W, (p + 1) - 1) + 1 /\ Nth(W, Rank(W, p + 1)) = p + 1
    BY <1>2, <1>3, <1>4, RankStep, NthIs
  <2>3. Rank(W, p + 1) = Len(w) + 2
    BY <1>2, <1>6, <2>1, <2>2
  <2> QED
    BY <2>1, <2>2, <2>3
<1>10. Len(new) = Rank(W, (e + 1) - 1)
  <2>1. Rank(W, p + 1) = Rank(W, e)
    BY <1>2, <1>3, <1>7, RankSame
  <2> QED
    BY <1>2, <1>6, <1>9, <2>1
<1>11. ASSUME NEW k \in 1..Len(new) PROVE new[k] = Image(ts, H, Nth(W, k))
  <2>1. k \in 1..Len(w) \/ k = Len(w) + 1 \/ k = Len(w) + 2
    BY <1>6
  <2>2. Image(ts, H, Nth(W, Len(w) + 1)) = ts[p]
    BY <1>4, <1>9 DEF Image
  <2>3. Image(ts, H, Nth(W, Len(w) + 2)) = r
    BY <1>4, <1>9 DEF Image, r
  <2> QED
    BY <1>5, <1>6, <2>1, <2>2, <2>3
<1>12. ASSUME NEW l \in DOMAIN ts, l < e + 1 PROVE ts[l].kind # "bad"
  <2>1. l < p \/ l = p \/ l \in (p + 1)..e
    BY <1>2, <1>12
  <2>2. \A m \in (p + 1)..e : ts[m].kind # "bad"
    BY DEF e
  <2> QED
    BY <1>1, <1>5, <2>1, <2>2
<1>13. WroteUpTo(ts, new, e + 1)
  BY <1>8, <1>10, <1>11, <1>12 DEF WroteUpTo, H, W
<1> QED
  BY <1>13 DEF new, e, r

-----------------------------------------------------------------------------
(***************************************************************************)
(* The loop                                                                *)
(***************************************************************************)
OutTokens(ts) == {ts[i] : i \in DOMAIN ts} \cup {Token("str", Replacement)}

MaskInv ==
  /\ input \in Payloads /\ masking \in {"reading", "done", "failed"}
  /\ out \in Seq(OutTokens(input))
  /\ masking # "failed" => Knows(input, stack, pos) /\ WroteUpTo(input, out, pos)
  /\ masking = "done" => pos = Len(input) + 1
  /\ masking = "failed" => out = <<>> /\ HasBad(input)

LEMMA MaskInvInit == MaskInit => MaskInv
<1> SUFFICES ASSUME MaskInit PROVE MaskInv
  OBVIOUS
<1>1. input \in Payloads /\ pos = 1 /\ stack = <<>> /\ out = <<>> /\ masking = "reading"
  BY DEF MaskInit
<1>2. IsJson(input)
  BY <1>1, PayloadsAssumption
<1>3. Len(input) \in Nat /\ DOMAIN input = 1..Len(input) /\ 1 \in 1..(Len(input) + 1)
  BY <1>2, JsonType
<1>4. Knows(input, stack, pos)
  <2>1. stack \in Seq(LevelRecord) /\ Len(stack) = 0 /\ 1..Len(stack) = {}
    BY <1>1
  <2>2. Depth(input, 1) = 0
    BY <1>2, DepthFirst
  <2>3. \A i \in Objects(input) : ~OpenAt(input, i, pos)
    <3>1. ASSUME NEW i, OpenAt(input, i, pos) PROVE FALSE
      BY <1>1, <1>2, <3>1, OpenAtType
    <3> QED
      BY <3>1
  <2> QED
    BY <1>1, <1>3, <2>1, <2>2, <2>3 DEF Knows
<1>5. WroteUpTo(input, out, pos)
  <2> DEFINE W == Written(input, Hidden(input))
  <2>1. Rank(W, 1 - 1) = 0
    <3>1. W \in SUBSET (1..Len(input))
      BY <1>2, WrittenType
    <3>2. \A j \in W : ~(j <= 1 - 1)
      BY <1>3, <3>1
    <3>3. {j \in W : j <= 1 - 1} = {}
      BY <3>2
    <3> QED
      BY <3>3, FS_EmptySet DEF Rank
  <2>2. \A j \in Secrets(input) : ~(j < 1)
    <3>1. \A j \in Secrets(input) : j \in 1..Len(input)
      BY <1>2, SecretValue
    <3> QED
      BY <1>3, <3>1
  <2>3. \A l \in DOMAIN input : ~(l < 1)
    BY <1>3
  <2>4. Len(out) = 0 /\ 1..Len(out) = {}
    BY <1>1
  <2> HIDE DEF W
  <2> QED
    BY <1>1, <2>1, <2>2, <2>3, <2>4 DEF WroteUpTo, W
<1>6. out \in Seq(OutTokens(input))
  BY <1>1
<1> QED
  BY <1>1, <1>4, <1>5, <1>6 DEF MaskInv

\* One token read and written as it is.
LEMMA OneToken ==
  ASSUME MaskInv, masking = "reading", pos <= Len(input),
         input[pos].kind # "bad", pos \notin Secrets(input),
         Write(<<Tok>>), GoTo(pos + 1), input' = input, masking' = masking,
         Knows(input, stack', pos + 1)
  PROVE  MaskInv'
<1>1. IsJson(input) /\ input \in Payloads /\ Knows(input, stack, pos) /\ WroteUpTo(input, out, pos)
  BY PayloadsAssumption DEF MaskInv
<1>2. /\ Len(input) \in Nat /\ DOMAIN input = 1..Len(input) /\ pos \in 1..Len(input)
      /\ out \in Seq(OutTokens(input)) /\ input[pos] \in OutTokens(input)
  BY <1>1, JsonType, KnowsType DEF MaskInv, OutTokens
<1>3. out' = out \o <<input[pos]>> /\ pos' = pos + 1
  BY DEF Write, Tok, GoTo
<1>4. WroteUpTo(input, out \o <<input[pos]>>, pos + 1)
  BY <1>1, <1>2, WroteToken
<1>5. out' \in Seq(OutTokens(input))
  BY <1>2, <1>3
<1> QED
  BY <1>1, <1>3, <1>4, <1>5 DEF MaskInv

LEMMA MaskInvStep == MaskInv /\ [MaskStep]_maskVars => MaskInv'
<1> SUFFICES ASSUME MaskInv, [MaskStep]_maskVars PROVE MaskInv'
  OBVIOUS
<1>1. input \in Payloads /\ IsJson(input) /\ Len(input) \in Nat /\ DOMAIN input = 1..Len(input)
  BY PayloadsAssumption, JsonType DEF MaskInv
<1>2. ASSUME Reading
      PROVE  /\ masking = "reading" /\ pos \in 1..Len(input) /\ pos <= Len(input)
             /\ Knows(input, stack, pos) /\ WroteUpTo(input, out, pos)
             /\ stack \in Seq(LevelRecord)
             /\ IsNamePlace(input, pos) <=> ExpectsName
             /\ pos \in Secrets(input) <=> AtName /\ Covered(Tok.text)
  <2>1. masking = "reading" /\ pos <= Len(input) /\ Knows(input, stack, pos) /\ WroteUpTo(input, out, pos)
    BY <1>2 DEF Reading, MaskInv
  <2>2. pos \in 1..Len(input) /\ stack \in Seq(LevelRecord)
    BY <1>1, <2>1, KnowsType
  <2>3. IsNamePlace(input, pos) <=> ExpectsName
    BY <1>1, <2>1, <2>2, ExpectsNameIs DEF ExpectsName, Top
  <2>4. pos \in Secrets(input) <=> AtName /\ Covered(Tok.text)
    BY <1>1, <2>2, <2>3 DEF Secrets, Secret, AtName, Tok
  <2> QED
    BY <2>1, <2>2, <2>3, <2>4
<1>3. CASE ReadEOF
  <2>1. /\ masking = "reading" /\ pos > Len(input) /\ masking' = "done"
        /\ UNCHANGED <<input, pos, stack, out>>
    BY <1>3 DEF ReadEOF
  <2>2. Knows(input, stack, pos) /\ WroteUpTo(input, out, pos)
    BY <2>1 DEF MaskInv
  <2>3. pos = Len(input) + 1
    BY <1>1, <2>1, <2>2, KnowsType
  <2> QED
    BY <1>1, <2>1, <2>2, <2>3 DEF MaskInv
<1>4. CASE ReadFails
  <2>1. Reading /\ input[pos].kind = "bad" /\ masking' = "failed" /\ out' = <<>> /\ input' = input
    BY <1>4 DEF ReadFails, Fails, Tok
  <2>2. HasBad(input)
    BY <1>1, <1>2, <2>1 DEF HasBad
  <2>3. <<>> \in Seq(OutTokens(input))
    OBVIOUS
  <2> QED
    BY <1>1, <2>1, <2>2, <2>3 DEF MaskInv
<1>5. CASE Open
  <2>1. /\ Reading /\ input[pos].kind \in Openers /\ Write(<<Tok>>) /\ GoTo(pos + 1)
        /\ stack' = Append(stack, Level(input[pos].kind = "{")) /\ input' = input /\ masking' = masking
    BY <1>5 DEF Open, Tok
  <2>2. input[pos].kind # "bad" /\ input[pos].kind # "str"
    BY <2>1 DEF Openers
  <2>3. pos \notin Secrets(input)
    BY <2>2 DEF Secrets, Secret
  <2>4. Knows(input, stack', pos + 1)
    BY <1>1, <1>2, <2>1, KnowsOpen
  <2> QED
    BY <1>2, <2>1, <2>2, <2>3, <2>4, OneToken
<1>6. CASE Close
  <2>1. /\ Reading /\ input[pos].kind \in Closers /\ Write(<<Tok>>) /\ GoTo(pos + 1)
        /\ stack' = AfterValue(SubSeq(stack, 1, Len(stack) - 1)) /\ input' = input /\ masking' = masking
    BY <1>6 DEF Close, Tok, Pop
  <2>2. input[pos].kind # "bad" /\ input[pos].kind # "str"
    BY <2>1 DEF Closers
  <2>3. pos \notin Secrets(input)
    BY <2>2 DEF Secrets, Secret
  <2>4. Knows(input, stack', pos + 1)
    BY <1>1, <1>2, <2>1, KnowsClose
  <2> QED
    BY <1>2, <2>1, <2>2, <2>3, <2>4, OneToken
<1>7. CASE Name
  <2>1. /\ Reading /\ AtName /\ ~Covered(Tok.text) /\ Write(<<Tok>>) /\ GoTo(pos + 1)
        /\ stack' = SetExpectName(stack, FALSE) /\ input' = input /\ masking' = masking
    BY <1>7 DEF Name
  <2>2. input[pos].kind = "str" /\ IsNamePlace(input, pos)
    BY <1>2, <2>1 DEF AtName, Tok
  <2>3. input[pos].kind \notin Openers \cup Closers /\ input[pos].kind # "bad"
    BY <2>2 DEF Openers, Closers
  <2>4. pos \notin Secrets(input)
    BY <1>2, <2>1
  <2>5. Knows(input, stack', pos + 1)
    BY <1>1, <1>2, <2>1, <2>2, <2>3, KnowsToken
  <2> QED
    BY <1>2, <2>1, <2>3, <2>4, <2>5, OneToken
<1>8. CASE MaskedName
  <2> DEFINE e == ValueEnd(input, pos + 1)
             r == Token("str", Replacement)
  <2>1. /\ Reading /\ AtName /\ Covered(Tok.text) /\ \A l \in (pos + 1)..e : input[l].kind # "bad"
        /\ out' = out \o <<input[pos], r>> /\ pos' = e + 1
        /\ stack' = AfterValue(SetExpectName(stack, FALSE)) /\ input' = input /\ masking' = masking
    BY <1>8 DEF MaskedName, Skippable, Write, GoTo, Tok
  <2>2. pos \in Secrets(input) /\ masking = "reading"
    BY <1>2, <2>1
  <2>3. input[pos] \in OutTokens(input) /\ r \in OutTokens(input) /\ out \in Seq(OutTokens(input))
    BY <1>1, <1>2, <2>1 DEF OutTokens, MaskInv
  <2>4. WroteUpTo(input, out', pos')
    BY <1>1, <1>2, <2>1, <2>2, <2>3, WroteSecret
  <2>5. stack' = SetExpectName(stack, TRUE)
    BY <1>2, <2>1, SetExpectNameTwice DEF AfterValue
  <2>6. Knows(input, stack', pos')
    BY <1>1, <1>2, <2>1, <2>2, <2>5, KnowsSecret
  <2>7. out' \in Seq(OutTokens(input))
    <3> HIDE DEF r
    <3> QED
      BY <2>1, <2>3
  <2> QED
    BY <1>1, <2>1, <2>2, <2>4, <2>6, <2>7 DEF MaskInv
<1>9. CASE SkipFails
  <2>1. /\ Reading /\ AtName /\ Covered(Tok.text) /\ masking' = "failed" /\ out' = <<>> /\ input' = input
    BY <1>9 DEF SkipFails, Fails
  <2>2. PICK l \in (pos + 1)..ValueEnd(input, pos + 1) : input[l].kind = "bad"
    BY <1>9 DEF SkipFails, Skippable
  <2>3. pos \in Secrets(input)
    BY <1>2, <2>1
  <2>4. /\ pos \in 1..Len(input) /\ ValueEnd(input, pos + 1) \in (pos + 1)..Len(input)
    BY <1>1, <2>3, SecretValue
  <2>5. l \in DOMAIN input
    BY <1>1, <2>4
  <2>6. HasBad(input)
    BY <2>2, <2>5 DEF HasBad
  <2>7. <<>> \in Seq(OutTokens(input))
    OBVIOUS
  <2> QED
    BY <1>1, <2>1, <2>6, <2>7 DEF MaskInv
<1>10. CASE Scalar
  <2>1. /\ Reading /\ input[pos].kind \in Scalars /\ ~AtName /\ Write(<<Tok>>) /\ GoTo(pos + 1)
        /\ stack' = SetExpectName(stack, TRUE) /\ input' = input /\ masking' = masking
    BY <1>10 DEF Scalar, AfterValue, Tok
  <2>2. input[pos].kind \notin Openers \cup Closers /\ input[pos].kind # "bad"
    BY <2>1 DEF Openers, Closers, Scalars
  <2>3. ~IsNamePlace(input, pos)
    <3>1. ASSUME IsNamePlace(input, pos) PROVE FALSE
      <4>1. PICK i \in Objects(input) : pos \in Inside(input, i) /\ Place(input, i, pos) % 2 = 0
        BY <3>1 DEF IsNamePlace
      <4>2. input[pos].kind \in {"str", "bad"} \cup Closers
        BY <1>1, <4>1, TurnsInObject
      <4>3. input[pos].kind = "str"
        BY <2>2, <4>2
      <4> QED
        BY <1>2, <2>1, <3>1, <4>3 DEF AtName, Tok
    <3> QED
      BY <3>1
  <2>4. pos \notin Secrets(input)
    BY <1>2, <2>1
  <2>5. Knows(input, stack', pos + 1)
    BY <1>1, <1>2, <2>1, <2>2, <2>3, KnowsToken
  <2> QED
    BY <1>2, <2>1, <2>2, <2>4, <2>5, OneToken
<1>11. CASE UNCHANGED maskVars
  BY <1>11 DEF maskVars, MaskInv
<1> QED
  BY <1>3, <1>4, <1>5, <1>6, <1>7, <1>8, <1>9, <1>10, <1>11 DEF MaskStep

LEMMA MaskInvExact == MaskInv => MaskIsExact
<1> SUFFICES ASSUME MaskInv PROVE MaskIsExact
  OBVIOUS
<1> DEFINE H == Hidden(input)
           W == Written(input, H)
           M == MaskedTokens(input)
<1>1. IsJson(input) /\ Len(input) \in Nat /\ DOMAIN input = 1..Len(input) /\ out \in Seq(OutTokens(input))
  BY PayloadsAssumption, JsonType DEF MaskInv
<1>2. W \in SUBSET (1..Len(input)) /\ Cardinality(W) \in Nat
  BY <1>1, WrittenType
<1>3. M = [k \in 1..Cardinality(W) |-> Image(input, H, Nth(W, k))]
  BY DEF MaskedTokens
<1> HIDE DEF H, W, M
<1>4. Len(M) = Cardinality(W) /\ \A k \in 1..Cardinality(W) : M[k] = Image(input, H, Nth(W, k))
  BY <1>2, <1>3
<1>5. ASSUME masking # "failed"
      PROVE  /\ Len(out) <= Len(M) /\ \A k \in DOMAIN out : out[k] = M[k]
             /\ masking = "done" => Len(out) = Len(M) /\ ~HasBad(input)
  <2>1. /\ Len(out) = Rank(W, pos - 1)
        /\ \A k \in 1..Len(out) : out[k] = Image(input, H, Nth(W, k))
        /\ \A l \in DOMAIN input : l < pos => input[l].kind # "bad"
    BY <1>5 DEF MaskInv, WroteUpTo, H, W
  <2>2. pos \in Nat /\ pos - 1 \in Int
    BY <1>1, <1>5, KnowsType DEF MaskInv
  <2>3. Len(out) \in Nat /\ Len(out) <= Cardinality(W) /\ DOMAIN out = 1..Len(out)
    <3>1. Rank(W, pos - 1) \in Nat /\ Rank(W, pos - 1) <= Cardinality(W)
      BY <1>1, <1>2, <2>2, RankType
    <3> QED
      BY <1>1, <2>1, <3>1
  <2>4. \A k \in DOMAIN out : out[k] = M[k]
    BY <1>2, <1>4, <2>1, <2>3
  <2>5. ASSUME masking = "done" PROVE Len(out) = Len(M) /\ ~HasBad(input)
    <3>1. pos = Len(input) + 1 /\ pos - 1 = Len(input)
      BY <1>1, <2>5 DEF MaskInv
    <3>2. \A l \in W : l <= Len(input)
      BY <1>1, <1>2
    <3>3. {l \in W : l <= Len(input)} = W
      BY <3>2
    <3>4. Len(out) = Len(M)
      BY <1>4, <2>1, <3>1, <3>3 DEF Rank
    <3>5. \A l \in DOMAIN input : l < pos
      BY <1>1, <3>1
    <3> QED
      BY <2>1, <3>4, <3>5 DEF HasBad
  <2> QED
    BY <1>4, <2>3, <2>4, <2>5
<1>6. masking = "failed" => out = <<>> /\ HasBad(input)
  BY DEF MaskInv
<1> QED
  BY <1>5, <1>6 DEF MaskIsExact, M

(***************************************************************************)
(* Whatever the payload, Value replaces the value of every covered member  *)
(* at any depth, and writes everything else as it was, in order; it fails, *)
(* with no value, just when a token cannot be read (mask.go:155-259).      *)
(***************************************************************************)
THEOREM MaskExact == MaskSpec => []MaskIsExact
<1>1. MaskInit => MaskInv
  BY MaskInvInit
<1>2. MaskInv /\ [MaskStep]_maskVars => MaskInv'
  BY MaskInvStep
<1>3. MaskInv => MaskIsExact
  BY MaskInvExact
<1> QED
  BY <1>1, <1>2, <1>3, PTL DEF MaskSpec

=============================================================================
