---------------------------- MODULE FramesProofs ----------------------------
(***************************************************************************)
(* Facts about the functions of Frames and Until, for every frame, kind    *)
(* and stop condition: what a rerun keeps of a capture, and how the stop   *)
(* condition and the report agree.                                         *)
(***************************************************************************)
EXTENDS Until, RanksProofs, SequenceTheorems

-----------------------------------------------------------------------------
(***************************************************************************)
(* Session.sends: every element of Sends(fs) is a send frame of fs, none   *)
(* is left out and their order is kept.                                    *)
(***************************************************************************)
LEMMA SendPositionsType ==
  ASSUME NEW fs \in Seq(Frame)
  PROVE  /\ Len(fs) \in Nat
         /\ SendPositions(fs) \in SUBSET (1..Len(fs))
         /\ Cardinality(SendPositions(fs)) \in Nat
<1>1. Len(fs) \in Nat
  OBVIOUS
<1>2. SendPositions(fs) \in SUBSET (1..Len(fs))
  BY DEF SendPositions
<1>3. 0 \in Int
  OBVIOUS
<1> QED
  BY <1>1, <1>2, <1>3, RankType

LEMMA SendsType ==
  ASSUME NEW fs \in Seq(Frame)
  PROVE  /\ Sends(fs) \in Seq(Frame)
         /\ Len(Sends(fs)) = Cardinality(SendPositions(fs))
         /\ DOMAIN Sends(fs) = 1..Cardinality(SendPositions(fs))
         /\ \A k \in DOMAIN Sends(fs) :
              /\ Nth(SendPositions(fs), k) \in SendPositions(fs)
              /\ Sends(fs)[k] = fs[Nth(SendPositions(fs), k)]
              /\ IsSend(Sends(fs)[k])
<1> DEFINE I == SendPositions(fs)
           C == Cardinality(I)
<1>1. Len(fs) \in Nat /\ I \in SUBSET (1..Len(fs)) /\ C \in Nat
  BY SendPositionsType
<1>2. ASSUME NEW k \in 1..C PROVE Nth(I, k) \in I
  <2> HIDE DEF I
  <2> QED
    BY <1>1, NthInSet
<1>3. Sends(fs) = [k \in 1..C |-> fs[Nth(I, k)]]
  BY DEF Sends
<1>4. \A i \in I : fs[i] \in Frame /\ IsSend(fs[i])
  BY DEF SendPositions
<1>5. \A k \in 1..C : Nth(I, k) \in I /\ fs[Nth(I, k)] \in Frame /\ IsSend(fs[Nth(I, k)])
  BY <1>2, <1>4
<1>6. /\ DOMAIN Sends(fs) = 1..C
      /\ \A k \in 1..C : Sends(fs)[k] = fs[Nth(I, k)]
  BY <1>3
<1>7. Sends(fs) \in [1..C -> Frame]
  BY <1>3, <1>5
<1>8. Sends(fs) \in Seq(Frame) /\ Len(Sends(fs)) = C
  BY <1>1, <1>7
<1> QED
  BY <1>5, <1>6, <1>8

\* A frame at the end leaves the send frames before it where they are, and is
\* the last of them if it is one.
LEMMA SendsAppend ==
  ASSUME NEW fs \in Seq(Frame), NEW f \in Frame
  PROVE  /\ Len(Sends(fs)) <= Len(Sends(Append(fs, f)))
         /\ \A k \in DOMAIN Sends(fs) : Sends(Append(fs, f))[k] = Sends(fs)[k]
         /\ ~IsSend(f) => Len(Sends(Append(fs, f))) = Len(Sends(fs))
         /\ IsSend(f) => /\ Len(Sends(Append(fs, f))) = Len(Sends(fs)) + 1
                         /\ Sends(Append(fs, f))[Len(Sends(fs)) + 1] = f
<1> DEFINE gs == Append(fs, f)
           I == SendPositions(fs)
           J == SendPositions(gs)
<1>1. /\ gs \in Seq(Frame) /\ Len(fs) \in Nat /\ Len(gs) = Len(fs) + 1
      /\ DOMAIN fs = 1..Len(fs) /\ DOMAIN gs = 1..Len(gs)
      /\ \A i \in DOMAIN fs : gs[i] = fs[i]
      /\ gs[Len(fs) + 1] = f
  OBVIOUS
<1>2. /\ I \in SUBSET (1..Len(fs)) /\ Cardinality(I) \in Nat /\ IsFiniteSet(I)
      /\ J \in SUBSET (1..Len(gs)) /\ Cardinality(J) \in Nat
      /\ IsFiniteSet(J)
  <2>1. gs \in Seq(Frame) /\ 0 \in Int
    BY <1>1
  <2> HIDE DEF gs
  <2> QED
    BY <2>1, SendPositionsType, RankType
<1>3. \A i \in 1..Len(fs) : i \in I <=> i \in J
  BY <1>1 DEF SendPositions
<1>4. /\ Len(Sends(fs)) = Cardinality(I) /\ DOMAIN Sends(fs) = 1..Cardinality(I)
      /\ \A k \in DOMAIN Sends(fs) : Sends(fs)[k] = fs[Nth(I, k)]
  BY SendsType
<1>5. /\ Len(Sends(gs)) = Cardinality(J) /\ DOMAIN Sends(gs) = 1..Cardinality(J)
      /\ \A k \in DOMAIN Sends(gs) : Sends(gs)[k] = gs[Nth(J, k)]
  <2>1. gs \in Seq(Frame)
    BY <1>1
  <2> HIDE DEF gs
  <2> QED
    BY <2>1, SendsType
<1> HIDE DEF gs, I, J
<1>6. Cardinality(I) <= Cardinality(J)
  <2>1. I \in SUBSET J
    BY <1>2, <1>3
  <2> QED
    BY <1>2, <2>1, FS_Subset
<1>7. ASSUME NEW k \in 1..Cardinality(I) PROVE Nth(I, k) \in I /\ Nth(J, k) = Nth(I, k)
  <2> DEFINE i == Nth(I, k)
  <2>1. i \in I /\ Rank(I, i) = k
    BY <1>1, <1>2, NthInSet
  <2> HIDE DEF i
  <2>2. i \in J /\ i \in 1..Len(fs)
    BY <1>2, <1>3, <2>1
  <2>3. \A j : j \in I /\ j <= i <=> j \in J /\ j <= i
    <3>1. \A j \in J : j \in Int /\ j >= 1 /\ (j <= i => j \in 1..Len(fs))
      BY <1>1, <1>2, <2>2
    <3> QED
      BY <1>2, <1>3, <3>1
  <2>4. {j \in I : j <= i} = {j \in J : j <= i}
    BY <2>3
  <2>5. Rank(J, i) = k
    BY <2>1, <2>4 DEF Rank
  <2>6. Len(gs) \in Nat
    BY <1>1
  <2>7. Nth(J, k) = i
    BY <1>2, <2>2, <2>5, <2>6, NthIs
  <2> QED
    BY <2>1, <2>7 DEF i
<1>8. ASSUME NEW k \in DOMAIN Sends(fs) PROVE Sends(gs)[k] = Sends(fs)[k]
  <2>1. k \in 1..Cardinality(I) /\ k \in DOMAIN Sends(gs)
    BY <1>2, <1>4, <1>5, <1>6
  <2>2. Nth(I, k) \in DOMAIN fs
    BY <1>1, <1>2, <1>7, <2>1
  <2> QED
    BY <1>1, <1>4, <1>5, <1>7, <2>1, <2>2
<1>9. Len(fs) + 1 \in DOMAIN gs /\ Len(fs) + 1 \notin I /\ \A i \in J : i \in 1..Len(fs) \/ i = Len(fs) + 1
  BY <1>1, <1>2
<1>10. Len(fs) + 1 \in J <=> IsSend(f)
  BY <1>1, <1>9 DEF J, SendPositions
<1>11. ASSUME ~IsSend(f) PROVE Len(Sends(gs)) = Len(Sends(fs))
  <2>1. J = I
    BY <1>2, <1>3, <1>9, <1>10, <1>11
  <2> QED
    BY <1>4, <1>5, <2>1
<1>12. ASSUME IsSend(f)
       PROVE  Len(Sends(gs)) = Len(Sends(fs)) + 1 /\ Sends(gs)[Len(Sends(fs)) + 1] = f
  <2>1. J = I \cup {Len(fs) + 1}
    BY <1>2, <1>3, <1>9, <1>10, <1>12
  <2>2. Cardinality(J) = Cardinality(I) + 1
    BY <1>2, <1>9, <2>1, FS_AddElement
  <2>3. Rank(J, Len(fs) + 1) = Cardinality(J)
    <3>1. \A i \in J : i <= Len(fs) + 1
      BY <1>1, <1>2
    <3>2. {i \in J : i <= Len(fs) + 1} = J
      BY <3>1
    <3> QED
      BY <3>2 DEF Rank
  <2>4. Nth(J, Cardinality(J)) = Len(fs) + 1
    <3>1. Len(gs) \in Nat /\ Len(fs) + 1 \in J
      BY <1>1, <1>10, <1>12
    <3>2. Nth(J, Rank(J, Len(fs) + 1)) = Len(fs) + 1
      BY <1>2, <3>1, NthIs
    <3> QED
      BY <2>3, <3>2
  <2>5. Cardinality(J) \in DOMAIN Sends(gs)
    BY <1>2, <1>5, <2>2
  <2> QED
    BY <1>1, <1>4, <1>5, <2>2, <2>4, <2>5
<1> QED
  BY <1>4, <1>5, <1>6, <1>8, <1>11, <1>12 DEF gs

\* Send frames only: there is nothing to leave out.
LEMMA SendsOfSends ==
  ASSUME NEW fs \in Seq(Frame), \A i \in DOMAIN fs : IsSend(fs[i])
  PROVE  Len(Sends(fs)) = Len(fs) /\ \A k \in DOMAIN fs : Sends(fs)[k] = fs[k]
<1> DEFINE L == Len(fs)
           I == SendPositions(fs)
<1>1. L \in Nat /\ DOMAIN fs = 1..L
  OBVIOUS
<1>2. I = 1..L
  BY <1>1 DEF SendPositions
<1>3. Cardinality(I) = L
  BY <1>1, <1>2, FS_Interval
<1>4. ASSUME NEW k \in 1..L PROVE Nth(I, k) = k
  <2>1. {j \in I : j <= k} = 1..k
    BY <1>1, <1>2
  <2>2. Rank(I, k) = k
    <3>1. k \in Int /\ k >= 1
      BY <1>1
    <3>2. Cardinality(1..k) = k
      BY <3>1, FS_Interval
    <3> QED
      BY <2>1, <3>2 DEF Rank
  <2>3. I \in SUBSET (1..L) /\ k \in I
    BY <1>2
  <2> HIDE DEF I, L
  <2> QED
    BY <1>1, <2>2, <2>3, NthIs
<1>5. /\ Len(Sends(fs)) = Cardinality(I) /\ DOMAIN Sends(fs) = 1..Cardinality(I)
      /\ \A k \in DOMAIN Sends(fs) : Sends(fs)[k] = fs[Nth(I, k)]
  BY SendsType
<1> QED
  BY <1>1, <1>3, <1>4, <1>5

-----------------------------------------------------------------------------
(***************************************************************************)
(* Masker.Frame, payload and countReceived.                                *)
(***************************************************************************)
\* A payload masked is a payload, it has no clear secret, and it is there
\* exactly when the payload was.
LEMMA MaskValueType ==
  ASSUME NEW p \in Payload \cup {Nil}
  PROVE  /\ MaskValue(p) \in Payload \cup {Nil}
         /\ MaskValue(p) = Nil <=> p = Nil
         /\ p # Nil => MaskValue(p).secret # "clear"
<1>1. CASE p = Nil
  BY <1>1 DEF MaskValue
<1>2. CASE p # Nil
  <2>1. p \in Payload
    BY <1>2
  <2>2. MaskValue(p) \in Payload /\ MaskValue(p).secret # "clear"
    BY <1>2, <2>1, KindsAssumption DEF MaskValue, Payload
  <2> QED
    BY <1>2, <2>2, NilAssumption
<1> QED
  BY <1>1, <1>2

\* What is masked stays as it is.
LEMMA MaskValueTwice ==
  ASSUME NEW p \in Payload \cup {Nil}
  PROVE  MaskValue(MaskValue(p)) = MaskValue(p)
<1>1. CASE p = Nil
  BY <1>1 DEF MaskValue
<1>2. CASE p # Nil
  <2> DEFINE q == MaskValue(p)
  <2>1. /\ q \in Payload /\ q # Nil /\ q.secret # "clear"
        /\ MaskedDiscriminator /\ q.kind # Nil => q.kind = Stars
    BY <1>2, KindsAssumption, NilAssumption DEF MaskValue, Payload
  <2> HIDE DEF q
  <2> QED
    BY <2>1, KindsAssumption DEF MaskValue, Payload
<1> QED
  BY <1>1, <1>2

LEMMA MaskFrameFields ==
  ASSUME NEW f \in Frame
  PROVE  /\ MaskFrame(f).send = MaskValue(f.send)
         /\ MaskFrame(f).receive = MaskValue(f.receive)
         /\ MaskFrame(f).at = f.at
<1> DEFINE x == MaskValue(f.send)
           y == MaskValue(f.receive)
<1>1. MaskFrame(f) = [f EXCEPT !.send = x, !.receive = y]
  BY DEF MaskFrame
<1> HIDE DEF x, y
<1>2. LET g == [f EXCEPT !.send = x, !.receive = y]
      IN  g.send = x /\ g.receive = y /\ g.at = f.at
  BY DEF Frame
<1> QED
  BY <1>1, <1>2 DEF x, y

LEMMA MaskFrameType ==
  ASSUME NEW f \in Frame
  PROVE  /\ MaskFrame(f) \in Frame
         /\ MaskFrame(f).at = f.at
         /\ IsSend(MaskFrame(f)) <=> IsSend(f)
         /\ IsReceive(MaskFrame(f)) <=> IsReceive(f)
         /\ IsMasked(MaskFrame(f))
<1>1. f.send \in Payload \cup {Nil} /\ f.receive \in Payload \cup {Nil} /\ f.at \in Nat
  BY DEF Frame
<1>2. /\ MaskFrame(f).send = MaskValue(f.send)
      /\ MaskFrame(f).receive = MaskValue(f.receive)
      /\ MaskFrame(f).at = f.at
      /\ MaskFrame(f) \in Frame
  <2> DEFINE x == MaskValue(f.send)
             y == MaskValue(f.receive)
  <2>1. MaskFrame(f) = [f EXCEPT !.send = x, !.receive = y]
    BY DEF MaskFrame
  <2>2. x \in Payload \cup {Nil} /\ y \in Payload \cup {Nil}
    BY <1>1, MaskValueType
  <2> HIDE DEF x, y
  <2>3. /\ [f EXCEPT !.send = x, !.receive = y].send = x
        /\ [f EXCEPT !.send = x, !.receive = y].receive = y
        /\ [f EXCEPT !.send = x, !.receive = y].at = f.at
        /\ [f EXCEPT !.send = x, !.receive = y] \in Frame
    BY <2>2 DEF Frame
  <2> QED
    BY <2>1, <2>3 DEF x, y
<1>4. /\ IsSend(MaskFrame(f)) <=> IsSend(f)
      /\ IsReceive(MaskFrame(f)) <=> IsReceive(f)
  BY <1>1, <1>2, MaskValueType DEF IsSend, IsReceive
<1>5. IsMasked(MaskFrame(f))
  BY <1>1, <1>2, MaskValueType DEF IsMasked
<1> QED
  BY <1>2, <1>4, <1>5

LEMMA PayloadOfType ==
  ASSUME NEW m \in Message
  PROVE  PayloadOf(m) \in Payload
BY DEF PayloadOf, Message, Payload, IsJSON, WireForm

LEMMA DiscriminateType ==
  ASSUME NEW p \in Payload
  PROVE  Discriminate(p) \in Kinds \cup {Nil}
BY DEF Discriminate, Payload

LEMMA CountReceivedType ==
  ASSUME NEW fs \in Seq(Frame), NEW d \in BOOLEAN
  PROVE  /\ IsFiniteSet(ReceivePositions(fs))
         /\ CountReceived(fs, d).count \in Nat
         /\ CountReceived(fs, d).seen \in [Kinds -> Nat]
<1>1. Len(fs) \in Nat /\ ReceivePositions(fs) \in SUBSET (1..Len(fs))
  BY DEF ReceivePositions
<1>2. IsFiniteSet(ReceivePositions(fs))
  <2>1. 0 \in Int
    OBVIOUS
  <2> QED
    BY <1>1, <2>1, RankType
<1>3. Cardinality(ReceivePositions(fs)) \in Nat
  BY <1>2, FS_CardinalityType
<1>4. ASSUME NEW k \in Kinds PROVE Cardinality(KindPositions(fs, k)) \in Nat
  <2>1. KindPositions(fs, k) \in SUBSET ReceivePositions(fs)
    BY DEF KindPositions
  <2> QED
    BY <1>2, <2>1, FS_Subset, FS_CardinalityType
<1> QED
  BY <1>2, <1>3, <1>4 DEF CountReceived

-----------------------------------------------------------------------------
(***************************************************************************)
(* Until.satisfied and newSessionReport compare the same counts, so they   *)
(* agree: a report is complete exactly when the recording it describes met *)
(* what was asked for.                                                     *)
(***************************************************************************)
\* newSessionReport and SessionReport.Complete against Until.satisfied
\* (report.go:33-81, until.go:62-79): a satisfied condition gives a complete
\* report, and when anything was asked for, only a satisfied one does.
THEOREM CompleteWhenSatisfied ==
  ASSUME NEW u \in UntilType, NEW count \in Nat, NEW seen \in [Kinds -> Nat]
  PROVE  /\ Satisfied(u, count, seen) => Complete(NewSessionReport(u, count, seen))
         /\ Asked(u) => (Complete(NewSessionReport(u, count, seen))
                            <=> Satisfied(u, count, seen))
<1> DEFINE sr == NewSessionReport(u, count, seen)
<1>1. u.messages \in Int /\ u.kinds \in [Kinds -> Int \cup {Nil}]
  BY DEF UntilType
<1>2. sr.short = 0 <=> count >= u.messages
  BY <1>1 DEF NewSessionReport
<1>3. ASSUME NEW k \in Kinds
      PROVE  sr.missing[k] = 0 <=> (k \in KindsAsked(u) => seen[k] >= u.kinds[k])
  <2>1. k \in KindsAsked(u) => u.kinds[k] \in Int
    BY <1>1 DEF KindsAsked
  <2> QED
    BY <1>3, <2>1 DEF NewSessionReport
<1>4. Complete(sr) <=> /\ count >= u.messages
                       /\ \A k \in KindsAsked(u) : seen[k] >= u.kinds[k]
  <2>1. KindsAsked(u) \subseteq Kinds
    BY DEF KindsAsked
  <2> HIDE DEF sr
  <2> QED
    BY <1>2, <1>3, <2>1 DEF Complete
<1> QED
  BY <1>4 DEF Satisfied

\* Until.satisfied only ever turns true as frames arrive (until.go:62-79), so
\* what a later count finds satisfied needs no earlier frame taken back.
THEOREM SatisfiedIsStable ==
  ASSUME NEW u \in UntilType,
         NEW count \in Nat, NEW seen \in [Kinds -> Nat],
         NEW more \in Nat, NEW seenMore \in [Kinds -> Nat],
         more >= count, \A k \in Kinds : seenMore[k] >= seen[k],
         Satisfied(u, count, seen)
  PROVE  Satisfied(u, more, seenMore)
<1>1. u.messages \in Int /\ u.kinds \in [Kinds -> Int \cup {Nil}]
  BY DEF UntilType
<1>2. more >= u.messages
  BY <1>1 DEF Satisfied
<1>3. ASSUME NEW k \in KindsAsked(u) PROVE seenMore[k] >= u.kinds[k]
  <2>1. k \in Kinds /\ u.kinds[k] \in Int
    BY <1>1 DEF KindsAsked
  <2>2. seen[k] >= u.kinds[k]
    BY DEF Satisfied
  <2> QED
    BY <2>1, <2>2
<1> QED
  BY <1>2, <1>3 DEF Satisfied

=============================================================================
