------------------------- MODULE RecordedFramesProofs -----------------------
(***************************************************************************)
(* What Record makes of the frames of a session: they stay valid, those of *)
(* one run are never mixed with those of another, and what this run kept   *)
(* is masked; nothing happens to them while the mutex is held, and         *)
(* otherwise only what SessionLog lets happen. For any number of sessions, *)
(* any recorded frames, any stop condition and any messages.               *)
(***************************************************************************)
EXTENDS RecorderProofs

Active == SendingOnly \cup Listening \cup Closing

\* What runs up to one left: one run's capture, masked unless nobody knows whose.
Captured(fs, run) ==
  /\ \A i \in DOMAIN fs : fs[i].at <= run
  /\ \A i \in DOMAIN fs : IsReceive(fs[i]) /\ fs[i].at > 1 => IsMasked(fs[i])
  /\ \A i, j \in ReceivePositions(fs) : fs[i].at = fs[j].at
\* As Record found the frames, but for masking.
Before(s) == Captured(frames[s], epoch - 1)
\* Masked, and received in this run if received at all.
Kept(f) == IsMasked(f) /\ f.at <= epoch /\ (IsReceive(f) => f.at = epoch)
Own(s) == uri[s] # "literal" /\ \A i \in DOMAIN frames[s] : Kept(frames[s][i])

SessionInv(s) ==
  /\ pc[s] \in BeforeReset => Before(s) /\ reports[s] = Nil
  /\ pc[s] \in Active => Own(s)
  /\ pc[s] = "done" => Own(s) \/ (Before(s) /\ (reports[s] = Nil \/ reports[s].skipped))
  /\ pc[s] \in Committing => Kept(inflight[s].frame) /\ ValidFrame(inflight[s].frame)
  /\ pc[s] \in {"commitUnsub", "saveUnsub"} => ~IsReceive(inflight[s].frame)

FramesInv ==
  /\ call \in {"validate", "running"} => result.outcome = "none"
  /\ FramesStayValid
  /\ \A s \in Sess : SessionInv(s)

-----------------------------------------------------------------------------
LEMMA InitFramesInv == Init => FramesInv
<1> SUFFICES ASSUME Init PROVE FramesInv
  OBVIOUS
<1>1. \A s \in Sess : Before(s)
  <2>1. ASSUME Init, NEW s \in Sess PROVE Before(s)
    <3>1. frames[s] \in StartFrames /\ epoch = 2
      BY <2>1 DEF Init
    <3>2. \A i \in DOMAIN frames[s] : frames[s][i].at = IF IsReceive(frames[s][i]) THEN 1 ELSE 0
      BY <3>1, ClockAssumption
    <3> QED
      BY <3>1, <3>2 DEF Before, Captured, ReceivePositions
  <2> QED
    BY <2>1
<1>2. \A s \in Sess : SessionInv(s)
  BY <1>1 DEF Init, CallInit, SessionInv, BeforeReset, Active, SendingOnly, Listening, Closing,
              Committing
<1> QED
  BY <1>2 DEF Init, CallInit, FramesInv, FramesStayValid

\* A goroutine that leaves the frames alone keeps the invariant when what it
\* enters asks no more than what it leaves, or it reports a skipped session.
LEMMA MoveFramesInv ==
  ASSUME NEW s \in Sess, FramesInv,
         UNCHANGED <<frames, uri, epoch, call, result>>,
         \A t \in Sess \ {s} : /\ pc'[t] = pc[t]
                               /\ inflight'[t] = inflight[t]
                               /\ reports'[t] = reports[t],
         \/ /\ pc[s] \in BeforeReset
            /\ \/ pc'[s] \in BeforeReset /\ reports'[s] = reports[s]
               \/ pc'[s] = "done" /\ (reports'[s] = reports[s] \/ reports'[s].skipped)
         \/ /\ pc[s] \in Active
            /\ pc'[s] \in Active \cup {"done"}
            /\ pc'[s] \in Committing =>
                 (Kept(inflight[s].frame) /\ ValidFrame(inflight[s].frame))'
            /\ pc'[s] \in {"commitUnsub", "saveUnsub"} => ~IsReceive(inflight'[s].frame)
  PROVE  FramesInv'
<1>1. \A t \in Sess : (Before(t)' <=> Before(t)) /\ (Own(t)' <=> Own(t))
  BY DEF Before, Own, Kept
<1>2. \A t \in Sess \ {s} : SessionInv(t)'
  BY <1>1 DEF FramesInv, SessionInv, Kept
<1>3. SessionInv(s)'
  <2>1. SessionInv(s)
    BY DEF FramesInv
  <2>2. CASE pc[s] \in BeforeReset
    BY <1>1, <2>1, <2>2 DEF SessionInv, BeforeReset, Active, SendingOnly, Listening, Closing,
                            Committing
  <2>3. CASE pc[s] \in Active
    BY <1>1, <2>1, <2>3 DEF SessionInv, BeforeReset, Active, SendingOnly, Listening, Closing,
                            Committing
  <2> QED
    BY <2>2, <2>3 DEF BeforeReset, Active, SendingOnly, Listening, Closing
<1>4. FramesStayValid'
  BY DEF FramesInv, FramesStayValid
<1> QED
  BY <1>2, <1>3, <1>4 DEF FramesInv

\* Inside session(): nothing to commit.
LEMMA ActiveFramesInv ==
  ASSUME NEW s \in Sess, FramesInv,
         UNCHANGED <<frames, uri, epoch, call, result>>,
         \A t \in Sess \ {s} : /\ pc'[t] = pc[t]
                               /\ inflight'[t] = inflight[t]
                               /\ reports'[t] = reports[t],
         pc[s] \in Active, pc'[s] \in (Active \cup {"done"}) \ Committing
  PROVE  FramesInv'
BY MoveFramesInv DEF Committing

LEMMA ResetFramesInv == ASSUME NEW s \in Sess PROVE IInv /\ FramesInv /\ Reset(s) => FramesInv'
<1> SUFFICES ASSUME IInv, FramesInv, Reset(s) PROVE FramesInv'
  OBVIOUS
<1> DEFINE kept == Sends(frames[s])
           masked == MaskInPlace(kept)
           I == SendPositions(frames[s])
<1>1. frames[s] \in Seq(Frame) /\ frames \in [Sess -> Seq(Frame)] /\ uri \in [Sess -> URI]
      /\ pc \in [Sess -> PC]
  BY DEF IInv, TypeOK
<1>2. /\ call = "running" /\ result.outcome = "none" /\ pc[s] = "reset" /\ reports[s] = Nil
      /\ \A i \in DOMAIN frames[s] :
           /\ ValidFrame(frames[s][i])
           /\ frames[s][i].at <= epoch - 1
      /\ epoch \in Nat
  BY DEF Reset, IInv, TypeOK, FramesInv, FramesStayValid, SessionInv, Before, Captured, BeforeReset
<1>3. kept \in Seq(Frame)
      /\ \A k \in DOMAIN kept : /\ kept[k] \in Frame
                                /\ kept[k].at <= epoch - 1
                                /\ IsSend(kept[k]) /\ ~IsReceive(kept[k])
  <2>1. kept \in Seq(Frame)
        /\ \A k \in DOMAIN kept : \E i \in I : kept[k] = frames[s][i] /\ IsSend(kept[k])
    BY <1>1, SendsType
  <2>2. I \subseteq DOMAIN frames[s]
    BY DEF SendPositions
  <2> HIDE DEF kept, I
  <2>3. ASSUME NEW k \in DOMAIN kept
        PROVE  /\ kept[k] \in Frame
               /\ kept[k].at <= epoch - 1
               /\ IsSend(kept[k]) /\ ~IsReceive(kept[k])
    <3>1. PICK i \in DOMAIN frames[s] : kept[k] = frames[s][i] /\ IsSend(kept[k])
      BY <2>1, <2>2
    <3>2. ValidFrame(kept[k]) /\ kept[k].at <= epoch - 1
      BY <1>2, <3>1
    <3>3. ~IsReceive(kept[k])
      BY <3>1, <3>2 DEF ValidFrame, IsSend, IsReceive
    <3>4. kept[k] \in Frame
      BY <2>1
    <3> QED
      BY <3>1, <3>2, <3>3, <3>4
  <2> QED
    BY <2>1, <2>3
<1>4. DOMAIN masked = DOMAIN kept
      /\ \A k \in DOMAIN masked : /\ masked[k].at <= epoch - 1
                                  /\ IsSend(masked[k]) /\ ~IsReceive(masked[k])
  <2>1. DOMAIN masked = DOMAIN kept
        /\ \A k \in DOMAIN kept : masked[k] \in {kept[k], MaskFrame(kept[k])}
    BY DEF MaskInPlace
  <2> HIDE DEF masked, kept
  <2> QED
    BY <1>3, <2>1, MaskFrameType
<1>5. frames' = [frames EXCEPT ![s] = masked]
  BY DEF Reset
<1>6. frames'[s] = masked /\ \A t \in Sess \ {s} : frames'[t] = frames[t]
  <2> HIDE DEF masked
  <2> QED
    BY <1>1, <1>5
<1>7. FramesStayValid'
  <2>1. \A k \in DOMAIN frames'[s] : ValidFrame(frames'[s][k])
    <3> HIDE DEF masked
    <3> QED
      BY <1>4, <1>6 DEF ValidFrame
  <2>2. \A t \in Sess : \A i \in DOMAIN frames'[t] : ValidFrame(frames'[t][i])
    BY <1>2, <1>6, <2>1 DEF FramesInv, FramesStayValid
  <2> QED
    BY <2>2 DEF FramesStayValid
<1>8. \A t \in Sess \ {s} : SessionInv(t)'
  <2>1. ASSUME NEW t \in Sess \ {s}
        PROVE  /\ pc'[t] = pc[t] /\ uri'[t] = uri[t] /\ frames'[t] = frames[t]
               /\ reports' = reports /\ inflight' = inflight /\ epoch' = epoch
    BY <1>1, <1>6 DEF Reset, Goto, Fail
  <2> QED
    BY <2>1 DEF FramesInv, SessionInv, Before, Own, Kept
<1>9. SessionInv(s)'
  <2>1. CASE FirstRefused(kept, Len(kept))
    <3>1. pc'[s] = "done" /\ reports' = reports
      BY <1>1, <2>1 DEF Reset, Fail
    <3>3. epoch' = epoch
      BY DEF Reset
    <3>2. Before(s)'
      <4> HIDE DEF masked
      <4> QED
        BY <1>4, <1>6, <3>3 DEF Before, Captured, ReceivePositions
    <3> QED
      BY <1>2, <3>1, <3>2 DEF SessionInv, BeforeReset, Active, SendingOnly, Listening, Closing,
                              Committing
  <2>2. CASE ~FirstRefused(kept, Len(kept))
    <3>1. pc'[s] = "saveReset" /\ uri' = [uri EXCEPT ![s] = MaskURI(@)]
      BY <1>1, <2>2 DEF Reset, Goto
    <3>2. uri'[s] # "literal"
      BY <1>1, <3>1 DEF MaskURI
    <3>3. \A k \in DOMAIN kept : masked[k] = MaskFrame(kept[k])
      <4>1. Len(kept) \in Nat /\ DOMAIN kept = 1..Len(kept)
        BY <1>3
      <4>2. \A k \in DOMAIN kept : ~FirstRefused(kept, k)
        <5> HIDE DEF kept
        <5> QED
          BY <2>2, <4>1 DEF FirstRefused
      <4> QED
        BY <4>2 DEF MaskInPlace
    <3>4. \A k \in DOMAIN frames'[s] : IsMasked(frames'[s][k]) /\ ~IsReceive(frames'[s][k])
      <4> HIDE DEF masked, kept
      <4> QED
        BY <1>3, <1>4, <1>6, <3>3, MaskFrameType
    <3>5. Own(s)'
      <4>1. \A k \in DOMAIN frames'[s] : frames'[s][k].at <= epoch /\ epoch' = epoch
        <5>1. \A k \in DOMAIN masked : masked[k] \in Frame
          <6>1. \A k \in DOMAIN kept : kept[k] \in Frame
            BY <1>3
          <6> HIDE DEF masked, kept
          <6> QED
            BY <1>4, <3>3, <6>1, MaskFrameType
        <5>2. \A k \in DOMAIN masked : masked[k].at \in Int
          <6> HIDE DEF masked
          <6> QED
            BY <5>1 DEF Frame
        <5> HIDE DEF masked
        <5> QED
          BY <1>2, <1>4, <1>6, <5>2 DEF Reset
      <4> QED
        BY <3>2, <3>4, <4>1 DEF Own, Kept
    <3> QED
      BY <3>1, <3>5 DEF SessionInv, BeforeReset, Active, SendingOnly, Listening, Closing,
                        Committing
  <2> QED
    BY <2>1, <2>2
<1> QED
  BY <1>7, <1>8, <1>9 DEF FramesInv, Reset

LEMMA CommitFramesInv == ASSUME NEW s \in Sess PROVE IInv /\ FramesInv /\ Commit(s) => FramesInv'
<1> SUFFICES ASSUME IInv, FramesInv, Commit(s) PROVE FramesInv'
  OBVIOUS
<1> DEFINE f == inflight[s].frame
<1>1. frames[s] \in Seq(Frame) /\ frames \in [Sess -> Seq(Frame)] /\ pc \in [Sess -> PC]
      /\ f \in Frame
  BY DEF IInv, TypeOK, ReadyInv, Commit, Committing, InFlight
<1>2. Kept(f) /\ ValidFrame(f) /\ Own(s) /\ call = "running" /\ result.outcome = "none"
  BY DEF FramesInv, SessionInv, Commit, Committing, Active, SendingOnly, Listening, Closing
<1>3. /\ UNCHANGED <<uri, epoch, call, result, inflight, reports>>
      /\ frames' = [frames EXCEPT ![s] = Append(frames[s], f)]
      /\ pc[s] \in {"commit", "commitUnsub"} /\ pc'[s] \in {"saveFrame", "saveUnsub"}
      /\ \A t \in Sess \ {s} : pc'[t] = pc[t]
  BY <1>1 DEF Commit, Goto, world
<1> HIDE DEF f
<1>4. /\ \A t \in Sess \ {s} : frames'[t] = frames[t]
      /\ \A i \in DOMAIN frames'[s] :
           \/ i \in DOMAIN frames[s] /\ frames'[s][i] = frames[s][i]
           \/ frames'[s][i] = f
  <2>1. frames'[s] = Append(frames[s], f) /\ \A t \in Sess \ {s} : frames'[t] = frames[t]
    BY <1>1, <1>3
  <2> QED
    BY <1>1, <2>1
<1>5. FramesStayValid'
  <2>1. \A t \in Sess : \A i \in DOMAIN frames'[t] : ValidFrame(frames'[t][i])
    BY <1>2, <1>4 DEF FramesInv, FramesStayValid
  <2> QED
    BY <2>1 DEF FramesStayValid
<1>6. \A t \in Sess \ {s} : SessionInv(t)'
  BY <1>3, <1>4 DEF FramesInv, SessionInv, Before, Own, Kept
<1>7. Own(s)'
  BY <1>2, <1>3, <1>4 DEF Own, Kept
<1>8. SessionInv(s)'
  <2>1. Kept(f)' /\ ValidFrame(f)'
    BY <1>2, <1>3 DEF Kept, ValidFrame, f
  <2>2. pc'[s] = "saveUnsub" => ~IsReceive(f)
    BY <1>1, <1>3 DEF Commit, Goto, FramesInv, SessionInv, f
  <2> QED
    BY <1>3, <1>7, <2>1, <2>2 DEF SessionInv, BeforeReset, Active, SendingOnly, Listening, Closing, f
<1> QED
  BY <1>3, <1>5, <1>6, <1>8 DEF FramesInv

LEMMA ReceiveFramesInv ==
  ASSUME NEW s \in Sess, NEW m \in Messages
  PROVE  IInv /\ FramesInv /\ Receive(s, m) => FramesInv'
<1> SUFFICES ASSUME IInv, FramesInv, Receive(s, m) PROVE FramesInv'
  OBVIOUS
<1> DEFINE f == ReceiveFrame(epoch, PayloadOf(m))
           x == [frame |-> MaskFrame(f), kind |-> Discriminate(f.receive)]
<1>1. m \in Message /\ epoch \in Nat /\ pc \in [Sess -> PC]
      /\ inflight \in [Sess -> InFlight \cup {Nil}]
  BY MessagesAssumption DEF IInv, TypeOK
<1>2. f \in Frame /\ PayloadOf(m) \in Payload /\ ~IsSend(f) /\ IsReceive(f) /\ f.at = epoch
  BY <1>1, ReceivedFrameType, PayloadOfType, NilAssumption DEF ReceiveFrame, IsSend, IsReceive
<1>3. Kept(MaskFrame(f)) /\ ValidFrame(MaskFrame(f))
  <2> HIDE DEF f
  <2> QED
    BY <1>1, <1>2, MaskFrameType DEF Kept, ValidFrame
<1>4. /\ UNCHANGED <<frames, uri, epoch, call, result, reports>> /\ pc[s] = "read"
      /\ \/ Fail(s) /\ UNCHANGED inflight
         \/ Goto(s, "commit") /\ inflight' = [inflight EXCEPT ![s] = x]
  BY DEF Receive, shared, record, world
<1>5. CASE Fail(s) /\ UNCHANGED inflight
  <2>1. pc'[s] = "done" /\ \A t \in Sess \ {s} : pc'[t] = pc[t]
    BY <1>1, <1>5 DEF Fail
  <2> QED
    BY <1>4, <1>5, <2>1, ActiveFramesInv DEF Active, Listening, Committing
<1>6. CASE Goto(s, "commit") /\ inflight' = [inflight EXCEPT ![s] = x]
  <2>1. pc'[s] = "commit" /\ \A t \in Sess \ {s} : pc'[t] = pc[t]
    BY <1>1, <1>6 DEF Goto
  <2>2. inflight'[s] = x /\ \A t \in Sess \ {s} : inflight'[t] = inflight[t]
    <3> HIDE DEF x
    <3> QED
      BY <1>1, <1>6
  <2>3. (Kept(inflight[s].frame) /\ ValidFrame(inflight[s].frame))'
    <3>1. inflight'[s].frame = MaskFrame(f)
      BY <2>2
    <3> QED
      BY <1>3, <1>4, <3>1 DEF Kept
  <2> QED
    BY <1>4, <2>1, <2>2, <2>3, MoveFramesInv DEF Active, Listening, Committing
<1> QED
  BY <1>4, <1>5, <1>6

LEMMA UnsubFramesInv ==
  ASSUME NEW s \in Sess, NEW ok \in BOOLEAN
  PROVE  IInv /\ FramesInv /\ Unsub(s, ok) => FramesInv'
<1> SUFFICES ASSUME IInv, FramesInv, Unsub(s, ok) PROVE FramesInv'
  OBVIOUS
<1> DEFINE u == Unsubscribe[s]
           x == [frame |-> MaskFrame(SendFrame(u)), kind |-> Nil]
<1>1. pc \in [Sess -> PC] /\ inflight \in [Sess -> InFlight \cup {Nil}] /\ epoch \in Nat
  BY DEF IInv, TypeOK
<1>2. ASSUME u # Nil
      PROVE  /\ Kept(MaskFrame(SendFrame(u))) /\ ValidFrame(MaskFrame(SendFrame(u)))
             /\ ~IsReceive(MaskFrame(SendFrame(u)))
  <2>1. u \in Payload
    BY <1>2, UnsubscribeAssumption
  <2>2. /\ SendFrame(u) \in Frame /\ SendFrame(u).at = 0
        /\ IsSend(SendFrame(u)) /\ ~IsReceive(SendFrame(u))
    BY <1>2, <2>1, SentFrameType DEF SendFrame, IsSend, IsReceive
  <2> QED
    BY <1>1, <2>2, MaskFrameType DEF Kept, ValidFrame
<1>3. /\ UNCHANGED <<frames, uri, epoch, call, result, reports>> /\ pc[s] = "unsub"
      /\ \/ Goto(s, "close") /\ UNCHANGED inflight
         \/ u # Nil /\ Goto(s, "commitUnsub") /\ inflight' = [inflight EXCEPT ![s] = x]
  BY DEF Unsub, shared, record
<1>4. CASE Goto(s, "close") /\ UNCHANGED inflight
  <2>1. pc'[s] = "close" /\ \A t \in Sess \ {s} : pc'[t] = pc[t]
    BY <1>1, <1>4 DEF Goto
  <2> QED
    BY <1>3, <1>4, <2>1, ActiveFramesInv DEF Active, Closing, Committing
<1>5. CASE u # Nil /\ Goto(s, "commitUnsub") /\ inflight' = [inflight EXCEPT ![s] = x]
  <2>1. pc'[s] = "commitUnsub" /\ \A t \in Sess \ {s} : pc'[t] = pc[t]
    BY <1>1, <1>5 DEF Goto
  <2>2. inflight'[s] = x /\ \A t \in Sess \ {s} : inflight'[t] = inflight[t]
    <3> HIDE DEF x
    <3> QED
      BY <1>1, <1>5
  <2>3. (Kept(inflight[s].frame) /\ ValidFrame(inflight[s].frame))'
    <3>1. inflight'[s].frame = MaskFrame(SendFrame(u))
      BY <2>2
    <3> QED
      BY <1>2, <1>3, <1>5, <3>1 DEF Kept
  <2>4. ~IsReceive(inflight'[s].frame)
    <3>1. inflight'[s].frame = MaskFrame(SendFrame(u))
      BY <2>2
    <3> QED
      BY <1>2, <1>5, <3>1
  <2> QED
    BY <1>3, <2>1, <2>2, <2>3, <2>4, MoveFramesInv DEF Active, Closing, Committing
<1> QED
  BY <1>3, <1>4, <1>5

\* The steps before the earlier capture is discarded.
LEMMA EarlyFramesInv ==
  ASSUME NEW s \in Sess, NEW ok \in BOOLEAN
  PROVE  IInv /\ FramesInv /\ (Count(s) \/ Dial(s, ok)) => FramesInv'
<1> SUFFICES ASSUME IInv, FramesInv, Count(s) \/ Dial(s, ok) PROVE FramesInv'
  OBVIOUS
<1>1. pc \in [Sess -> PC] /\ reports \in [Sess -> Report \cup {Nil}]
  BY DEF IInv, TypeOK
<1>2. UNCHANGED <<frames, uri, epoch, call, result, inflight>>
  BY DEF Count, Dial, shared, record
<1>3. CASE Count(s)
  <2> DEFINE had == CountReceived(frames[s], until.discriminator)
             r == [NewSessionReport(until, had.count, had.seen) EXCEPT !.skipped = TRUE]
  <2>1. r.skipped
    BY DEF NewSessionReport
  <2>2. \/ Goto(s, "done") /\ reports' = [reports EXCEPT ![s] = r]
        \/ Goto(s, "dial") /\ UNCHANGED reports
    BY <1>3 DEF Count
  <2> HIDE DEF r
  <2>3. /\ pc[s] = "count"
        /\ \/ pc'[s] = "done" /\ reports'[s].skipped
           \/ pc'[s] = "dial" /\ reports'[s] = reports[s]
        /\ \A t \in Sess \ {s} : pc'[t] = pc[t] /\ reports'[t] = reports[t]
    BY <1>1, <1>3, <2>1, <2>2 DEF Count, Goto
  <2> QED
    BY <1>2, <2>3, MoveFramesInv DEF BeforeReset
<1>4. CASE Dial(s, ok)
  <2>1. /\ pc[s] = "dial" /\ pc'[s] \in {"reset", "done"} /\ reports' = reports
        /\ \A t \in Sess \ {s} : pc'[t] = pc[t]
    BY <1>1, <1>4 DEF Dial, Goto, Fail
  <2> QED
    BY <1>2, <2>1, MoveFramesInv DEF BeforeReset
<1> QED
  BY <1>3, <1>4

\* The steps of a dialled session that commit nothing.
LEMMA LateFramesInv ==
  ASSUME NEW s \in Sess, NEW ok \in BOOLEAN, NEW how \in {"handshake", "broken", "grace"}
  PROVE  /\ IInv
         /\ FramesInv
         /\ \/ SaveReset(s, ok) \/ Send(s, ok) \/ Check(s) \/ ReadTimeout(s) \/ ReadFails(s)
            \/ SaveFrame(s, ok) \/ SaveUnsub(s, ok) \/ WriteClose(s, ok)
            \/ AwaitNothing(s) \/ AwaitAnswer(s, how)
         => FramesInv'
<1> USE DEF Active, SendingOnly, Listening, Closing, Committing
<1> SUFFICES ASSUME IInv, FramesInv,
                    \/ SaveReset(s, ok) \/ Send(s, ok) \/ Check(s) \/ ReadTimeout(s)
                    \/ ReadFails(s) \/ SaveFrame(s, ok) \/ SaveUnsub(s, ok)
                    \/ WriteClose(s, ok) \/ AwaitNothing(s) \/ AwaitAnswer(s, how)
             PROVE  FramesInv'
  OBVIOUS
<1>1. /\ pc \in [Sess -> PC] /\ reports \in [Sess -> Report \cup {Nil}]
      /\ inflight \in [Sess -> InFlight \cup {Nil}]
  BY DEF IInv, TypeOK
<1>2. CASE SaveReset(s, ok)
  <2>1. /\ pc[s] \in Active /\ pc'[s] \in {"send", "done"} /\ UNCHANGED <<inflight, reports>>
        /\ \A t \in Sess \ {s} : pc'[t] = pc[t]
        /\ UNCHANGED <<frames, uri, epoch, call, result>>
    BY <1>1, <1>2 DEF SaveReset, Goto, Fail, shared
  <2> QED
    BY <2>1, ActiveFramesInv
<1>3. CASE Send(s, ok)
  <2>1. pc[s] = "send" /\ (Goto(s, "listen") \/ Goto(s, "send") \/ Fail(s))
    BY <1>3, Zenon DEF Send
  <2>2. /\ pc'[s] \in {"send", "listen", "done"} /\ \A t \in Sess \ {s} : pc'[t] = pc[t]
        /\ UNCHANGED <<frames, uri, epoch, call, result, inflight, reports>>
    BY <1>1, <1>3, <2>1 DEF Send, Goto, Fail, shared, record
  <2> QED
    BY <2>1, <2>2, ActiveFramesInv
<1>4. CASE Check(s) \/ ReadTimeout(s) \/ ReadFails(s)
  <2>1. /\ pc[s] \in {"listen", "read"}
        /\ EndListen(s) \/ (Goto(s, "read") /\ UNCHANGED reports) \/ (Fail(s) /\ UNCHANGED reports)
        /\ UNCHANGED <<frames, uri, epoch, call, result, inflight>>
    BY <1>4 DEF Check, ReadTimeout, ReadFails, shared, record
  <2>2. /\ pc'[s] \in {"unsub", "read", "done"}
        /\ \A t \in Sess \ {s} : pc'[t] = pc[t] /\ reports'[t] = reports[t]
    BY <1>1, <2>1 DEF EndListen, Goto, Fail
  <2> QED
    BY <2>1, <2>2, ActiveFramesInv
<1>5. CASE SaveFrame(s, ok)
  <2>1. /\ pc[s] \in Active /\ pc'[s] \in {"listen", "done"} /\ UNCHANGED reports
        /\ \A t \in Sess \ {s} : pc'[t] = pc[t] /\ inflight'[t] = inflight[t]
        /\ UNCHANGED <<frames, uri, epoch, call, result>>
    BY <1>1, <1>5 DEF SaveFrame, Goto, Fail, shared
  <2> QED
    BY <2>1, ActiveFramesInv
<1>6. CASE SaveUnsub(s, ok)
  <2>1. /\ pc[s] \in Active /\ pc'[s] = "close" /\ UNCHANGED reports
        /\ \A t \in Sess \ {s} : pc'[t] = pc[t] /\ inflight'[t] = inflight[t]
        /\ UNCHANGED <<frames, uri, epoch, call, result>>
    BY <1>1, <1>6 DEF SaveUnsub, Goto, shared
  <2> QED
    BY <2>1, ActiveFramesInv
<1>7. CASE WriteClose(s, ok) \/ AwaitNothing(s) \/ AwaitAnswer(s, how)
  <2>1. /\ pc[s] \in Active /\ pc'[s] \in {"await", "done"} /\ UNCHANGED <<inflight, reports>>
        /\ \A t \in Sess \ {s} : pc'[t] = pc[t]
        /\ UNCHANGED <<frames, uri, epoch, call, result>>
    BY <1>1, <1>7 DEF WriteClose, AwaitNothing, AwaitAnswer, Goto, shared, record
  <2> QED
    BY <2>1, ActiveFramesInv
<1> QED
  BY <1>2, <1>3, <1>4, <1>5, <1>6, <1>7

\* Record's own steps, and those of the outside world.
Outside == Interrupt \/ \E s \in Sess : Expire(s) \/ \E m \in Messages : Panic(s, m)
LEMMA CallFramesInv == IInv /\ FramesInv /\ (Validate \/ Return \/ Outside) => FramesInv'
<1> SUFFICES ASSUME IInv, FramesInv, Validate \/ Return \/ Outside PROVE FramesInv'
  OBVIOUS
<1>1. /\ UNCHANGED <<frames, uri, epoch, inflight, reports>>
      /\ \A t \in Sess : (Before(t)' <=> Before(t)) /\ (Own(t)' <=> Own(t))
  BY DEF Validate, Return, Outside, Panic, Expire, Interrupt, shared, record, local, Before, Own, Kept
<1>2. \A t \in Sess : SessionInv(t)'
  <2>1. CASE UNCHANGED pc
    BY <1>1, <2>1 DEF FramesInv, SessionInv, Kept
  <2>2. CASE Validate /\ pc' = [t \in Sess |-> "count"]
    <3>1. \A t \in Sess : pc[t] = "idle"
      BY <2>2 DEF Validate, IInv, ReadyInv
    <3> QED
      BY <1>1, <2>2, <3>1 DEF FramesInv, SessionInv, BeforeReset, Active, SendingOnly, Listening,
                              Closing, Committing
  <2>3. UNCHANGED pc \/ (Validate /\ pc' = [t \in Sess |-> "count"])
    BY DEF Validate, Return, Outside, Panic, Expire, Interrupt, local
  <2> QED
    BY <2>1, <2>2, <2>3
<1>3. FramesStayValid'
  <2>1. CASE Validate /\ ValidCall
    BY <1>1, <2>1 DEF ValidCall, ValidSession, FramesStayValid
  <2>2. CASE Validate /\ ~ValidCall
    <3>1. result' = [result EXCEPT !.outcome = "rejected"] /\ result \in Result
          /\ call' = "returned"
      BY <2>2 DEF Validate, IInv, TypeOK
    <3>2. result'.outcome = "rejected"
      BY <3>1 DEF Result
    <3> QED
      BY <3>1, <3>2 DEF FramesStayValid
  <2>3. CASE Return
    BY <1>1, <2>3 DEF FramesInv, FramesStayValid, Return
  <2>4. CASE call' = "panicked"
    BY <2>4 DEF FramesStayValid
  <2>5. CASE UNCHANGED <<call, result>>
    BY <1>1, <2>5 DEF FramesInv, FramesStayValid
  <2>6. Outside => call' = "panicked" \/ UNCHANGED <<call, result>>
    BY DEF Outside, Panic, Expire, Interrupt, record
  <2> QED
    BY <2>1, <2>2, <2>3, <2>4, <2>5, <2>6
<1>4. call' \in {"validate", "running"} => result'.outcome = "none"
  BY DEF FramesInv, Validate, Return, Outside, Panic, Expire, Interrupt, record
<1> QED
  BY <1>1, <1>2, <1>3, <1>4 DEF FramesInv

LEMMA NextFramesInv == IInv /\ FramesInv /\ [Next]_vars => FramesInv'
<1> SUFFICES ASSUME IInv, FramesInv, [Next]_vars PROVE FramesInv'
  OBVIOUS
<1>0. CASE Finished \/ UNCHANGED vars
  <2>1. UNCHANGED vars
    BY <1>0 DEF Finished
  <2> QED
    BY <2>1 DEF vars, shared, record, local, world, FramesInv, FramesStayValid, SessionInv, Before,
                Own, Kept
<1>1. CASE Validate \/ Return \/ Interrupt
  BY <1>1, CallFramesInv DEF Outside
<1>2. CASE \E s \in Sess : Step(s)
  <2>1. PICK s \in Sess : Step(s)
    BY <1>2
  <2>2. CASE Locking(s)
    BY <2>2, EarlyFramesInv, ResetFramesInv, CommitFramesInv DEF Locking
  <2>3. CASE Private(s)
    BY <2>3, LateFramesInv DEF Private
  <2>4. CASE ReadEnds(s)
    BY <2>4, LateFramesInv DEF ReadEnds
  <2>5. CASE Read(s)
    <3>1. CASE \E m \in Messages : Receive(s, m)
      BY <3>1, ReceiveFramesInv
    <3>2. CASE \E m \in Messages : Panic(s, m)
      BY <3>2, CallFramesInv DEF Outside
    <3>3. CASE ReadTimeout(s) \/ ReadFails(s)
      BY <3>3, LateFramesInv
    <3>4. CASE \E how \in {"handshake", "broken"} : AwaitAnswer(s, how)
      BY <3>4, LateFramesInv
    <3> QED
      BY <2>5, <3>1, <3>2, <3>3, <3>4 DEF Read
  <2>6. CASE Expire(s)
    BY <2>6, CallFramesInv DEF Outside
  <2>7. CASE \E ok \in BOOLEAN : Bounded(s, ok) \/ Write(s, ok)
    BY <2>7, EarlyFramesInv, LateFramesInv, UnsubFramesInv DEF Bounded, Write
  <2> QED
    BY <2>1, <2>2, <2>3, <2>4, <2>5, <2>6, <2>7 DEF Step
<1>3. CASE \E s \in Sess, ok \in BOOLEAN : Saved(s, ok)
  BY <1>3, LateFramesInv DEF Saved
<1> QED
  BY <1>0, <1>1, <1>2, <1>3 DEF Next

-----------------------------------------------------------------------------
\* The invariant of the frames, beside that of the types and the mutex
\* (record.go:135-231).
THEOREM FramesInductive == Spec => []FramesInv
<1>1. Init => FramesInv
  BY InitFramesInv
<1>2. IInv /\ FramesInv /\ [Next]_vars => FramesInv'
  BY NextFramesInv
<1> QED
  BY <1>1, <1>2, Inductive, PTL DEF Spec

\* No session ends with the frames of two connections mixed, and so on two
\* clocks: a capture is discarded before it is made again (record.go:193-197).
THEOREM ClocksNeverMix == Spec => []OneClock
<1>1. IInv /\ FramesInv => OneClock
  <2> SUFFICES ASSUME IInv, FramesInv, NEW s \in Sess,
                      NEW i \in ReceivePositions(frames[s]), NEW j \in ReceivePositions(frames[s])
               PROVE  frames[s][i].at = frames[s][j].at
    BY DEF OneClock
  <2>1. /\ i \in DOMAIN frames[s] /\ IsReceive(frames[s][i])
        /\ j \in DOMAIN frames[s] /\ IsReceive(frames[s][j])
    BY DEF ReceivePositions
  <2>2. Own(s) \/ Before(s)
    BY DEF IInv, TypeOK, PC, FramesInv, SessionInv, BeforeReset, Active, SendingOnly, Listening,
           Closing
  <2> QED
    BY <2>1, <2>2 DEF Own, Kept, Before, Captured, ReceivePositions
<1> QED
  BY <1>1, Inductive, FramesInductive, PTL

\* What this run captured is masked, and once a session's earlier capture is
\* discarded so is everything left of it (record.go:177-182, 198-209).
THEOREM EverythingKeptIsMasked == Spec => []KeptMasked
<1>1. IInv /\ FramesInv => KeptMasked
  <2> SUFFICES ASSUME IInv, FramesInv, NEW s \in Sess
               PROVE  /\ \A i \in DOMAIN frames[s] :
                           frames[s][i].at = epoch => IsMasked(frames[s][i])
                      /\ Recording(s) => /\ \A i \in DOMAIN frames[s] : IsMasked(frames[s][i])
                                         /\ uri[s] # "literal"
    BY DEF KeptMasked
  <2>1. CASE Own(s)
    BY <2>1 DEF Own, Kept
  <2>2. CASE ~Own(s)
    <3>1. SessionInv(s) /\ pc[s] \in PC /\ epoch \in Nat
          /\ \A i \in DOMAIN frames[s] : frames[s][i].at \in Nat
      <4>1. \A i \in DOMAIN frames[s] : frames[s][i] \in Frame
        BY DEF IInv, TypeOK
      <4> QED
        BY <4>1 DEF FramesInv, IInv, TypeOK, Frame
    <3>2. Before(s) /\ ~Recording(s)
      BY <2>2, <3>1 DEF SessionInv, Recording, PC, BeforeReset, Active, SendingOnly, Listening,
                        Closing
    <3>3. \A i \in DOMAIN frames[s] : frames[s][i].at # epoch
      BY <3>1, <3>2 DEF Before, Captured
    <3> QED
      BY <3>2, <3>3
  <2> QED
    BY <2>1, <2>2
<1> QED
  BY <1>1, Inductive, FramesInductive, PTL

\* A file of valid frames is a file of valid frames after the run, whatever the
\* server sent and wherever a session failed (sessions.go:52-53).
THEOREM FramesRemainValid == Spec => []FramesStayValid
<1>1. FramesInv => FramesStayValid
  BY DEF FramesInv
<1> QED
  BY <1>1, FramesInductive, PTL

-----------------------------------------------------------------------------
(***************************************************************************)
(* What may happen to the shared frames: nothing while the mutex is held,  *)
(* and otherwise only what SessionLog lets happen to them.                 *)
(***************************************************************************)

\* Where a frame waiting to be committed came from: off this run's connection,
\* or it is the unsubscribe that close() sent.
OriginInv ==
  \A s \in Sess :
    /\ pc[s] = "commit" =>
         \E p \in Payload : inflight[s].frame = MaskFrame(ReceiveFrame(epoch, p))
    /\ pc[s] = "commitUnsub" =>
         \E p \in Payload : inflight[s].frame = MaskFrame(SendFrame(p))

LogInv == IInv /\ OriginInv

\* The phase SessionLog sees, and its variables.
Phases == [s \in Sess |-> PhaseOf(pc[s])]
LogVars == <<frames, Phases, epoch>>

-----------------------------------------------------------------------------
\* The steps that touch neither what a goroutine is about to commit nor bring
\* one to a commit.
LEMMA MoveOriginInv ==
  ASSUME LogInv, NEW s \in Sess, NEW label \in PC \ {"commit", "commitUnsub"},
         pc' = [pc EXCEPT ![s] = label], UNCHANGED epoch,
         \A t \in Sess \ {s} : inflight'[t] = inflight[t]
  PROVE  OriginInv'
<1>1. pc \in [Sess -> PC]
  BY DEF LogInv, IInv, TypeOK
<1>2. pc'[s] = label /\ \A t \in Sess \ {s} : pc'[t] = pc[t]
  BY <1>1
<1> QED
  BY <1>2 DEF LogInv, OriginInv

LEMMA CallOriginInv ==
  LogInv /\ (Validate \/ Return \/ Interrupt \/ Finished \/ UNCHANGED vars) => OriginInv'
<1> SUFFICES ASSUME LogInv, Validate \/ Return \/ Interrupt \/ Finished \/ UNCHANGED vars
             PROVE  OriginInv'
  OBVIOUS
<1>1. CASE Validate
  <2>1. UNCHANGED <<epoch, inflight>>
        /\ \/ UNCHANGED pc
           \/ pc' = [s \in Sess |-> "count"]
    BY <1>1 DEF Validate
  <2> QED
    BY <2>1 DEF LogInv, OriginInv
<1>2. CASE Return \/ Interrupt \/ Finished \/ UNCHANGED vars
  <2>1. UNCHANGED <<pc, epoch, inflight>>
    BY <1>2 DEF Return, Interrupt, Finished, vars, record, local
  <2> QED
    BY <2>1 DEF LogInv, OriginInv
<1> QED
  BY <1>1, <1>2

LEMMA ReceiveOriginInv ==
  ASSUME NEW s \in Sess, NEW m \in Messages PROVE LogInv /\ Receive(s, m) => OriginInv'
<1> SUFFICES ASSUME LogInv, Receive(s, m) PROVE OriginInv'
  OBVIOUS
<1> DEFINE f == ReceiveFrame(epoch, PayloadOf(m))
           x == [frame |-> MaskFrame(f), kind |-> Discriminate(f.receive)]
<1>1. /\ pc \in [Sess -> PC] /\ inflight \in [Sess -> InFlight \cup {Nil}]
      /\ PayloadOf(m) \in Payload
  BY MessagesAssumption, PayloadOfType DEF LogInv, IInv, TypeOK
<1>2. UNCHANGED epoch
  BY DEF Receive, record
<1>3. CASE MaskFrameRefuses(f)
  <2>1. pc' = [pc EXCEPT ![s] = "done"] /\ UNCHANGED inflight
    BY <1>3 DEF Receive, Fail
  <2> QED
    BY <1>2, <2>1, MoveOriginInv DEF PC
<1>4. CASE ~MaskFrameRefuses(f)
  <2>1. pc' = [pc EXCEPT ![s] = "commit"] /\ inflight' = [inflight EXCEPT ![s] = x]
    BY <1>4 DEF Receive, Goto
  <2>2. x.frame = MaskFrame(ReceiveFrame(epoch, PayloadOf(m)))
    OBVIOUS
  <2> HIDE DEF x
  <2>3. /\ pc'[s] = "commit" /\ inflight'[s] = x
        /\ \A t \in Sess \ {s} : pc'[t] = pc[t] /\ inflight'[t] = inflight[t]
    BY <1>1, <2>1
  <2> QED
    BY <1>1, <1>2, <2>2, <2>3 DEF LogInv, OriginInv
<1> QED
  BY <1>3, <1>4

LEMMA UnsubOriginInv ==
  ASSUME NEW s \in Sess, NEW ok \in BOOLEAN PROVE LogInv /\ Unsub(s, ok) => OriginInv'
<1> SUFFICES ASSUME LogInv, Unsub(s, ok) PROVE OriginInv'
  OBVIOUS
<1> DEFINE u == Unsubscribe[s]
           x == [frame |-> MaskFrame(SendFrame(u)), kind |-> Nil]
<1>1. pc \in [Sess -> PC] /\ inflight \in [Sess -> InFlight \cup {Nil}]
  BY DEF LogInv, IInv, TypeOK
<1>2. UNCHANGED epoch
  BY DEF Unsub, record
<1>3. CASE u # Nil /\ ok /\ ~MaskRefuses(u)
  <2>1. pc' = [pc EXCEPT ![s] = "commitUnsub"] /\ inflight' = [inflight EXCEPT ![s] = x]
    BY <1>3 DEF Unsub, Goto
  <2>2. x.frame = MaskFrame(SendFrame(u)) /\ u \in Payload
    BY <1>3, UnsubscribeAssumption
  <2> HIDE DEF x
  <2>3. /\ pc'[s] = "commitUnsub" /\ inflight'[s] = x
        /\ \A t \in Sess \ {s} : pc'[t] = pc[t] /\ inflight'[t] = inflight[t]
    BY <1>1, <2>1
  <2> QED
    BY <1>2, <2>2, <2>3 DEF LogInv, OriginInv
<1>4. CASE ~(u # Nil /\ ok /\ ~MaskRefuses(u))
  <2>1. pc' = [pc EXCEPT ![s] = "close"] /\ UNCHANGED inflight
    BY <1>4 DEF Unsub, Goto
  <2> QED
    BY <1>2, <2>1, MoveOriginInv DEF PC
<1> QED
  BY <1>3, <1>4

-----------------------------------------------------------------------------
\* How a step that leaves the frames alone may change the phase.
PhaseAhead(p, q) == p = q \/ q = "ended" \/ (p = "open" /\ q = "closing")

\* The steps of a goroutine that neither touch the frames nor read one to commit.
Quiet(s) ==
  \/ Count(s) \/ Check(s) \/ ReadTimeout(s) \/ ReadFails(s) \/ AwaitNothing(s)
  \/ \E how \in {"handshake", "broken", "grace"} : AwaitAnswer(s, how)
  \/ \E ok \in BOOLEAN : \/ Dial(s, ok) \/ SaveReset(s, ok) \/ Send(s, ok)
                         \/ SaveFrame(s, ok) \/ SaveUnsub(s, ok) \/ WriteClose(s, ok)

\* They move one goroutine, and in SessionLog end its session, or its listening,
\* or are nothing at all.
LEMMA QuietMoves ==
  ASSUME NEW s \in Sess, LogInv, Quiet(s)
  PROVE  /\ UNCHANGED <<frames, epoch>>
         /\ \A t \in Sess \ {s} : inflight'[t] = inflight[t]
         /\ \E label \in PC \ {"commit", "commitUnsub"} :
              /\ pc' = [pc EXCEPT ![s] = label]
              /\ PhaseAhead(PhaseOf(pc[s]), PhaseOf(label))
<1> USE DEF PC, PhaseAhead, PhaseOf, BeforeReset, Listening, Goto, Fail, EndListen,
            shared, record, local
<1>1. CASE Count(s)
  BY <1>1 DEF Count
<1>2. CASE Check(s)
  BY <1>2 DEF Check
<1>3. CASE ReadTimeout(s) \/ ReadFails(s)
  BY <1>3 DEF ReadTimeout, ReadFails
<1>4. CASE AwaitNothing(s) \/ \E how \in {"handshake", "broken", "grace"} : AwaitAnswer(s, how)
  BY <1>4 DEF AwaitNothing, AwaitAnswer
<1>5. CASE \E ok \in BOOLEAN : Dial(s, ok) \/ SaveReset(s, ok)
  BY <1>5 DEF Dial, SaveReset
<1>6. CASE \E ok \in BOOLEAN : Send(s, ok)
  <2>1. UNCHANGED <<frames, epoch, inflight>>
    BY <1>6 DEF Send
  <2>2. /\ pc[s] = "send"
        /\ \E label \in {"listen", "send", "done"} : pc' = [pc EXCEPT ![s] = label]
    BY <1>6 DEF Send
  <2> QED
    BY <2>1, <2>2
<1>7. CASE \E ok \in BOOLEAN : SaveFrame(s, ok) \/ SaveUnsub(s, ok)
  <2>1. inflight \in [Sess -> InFlight \cup {Nil}] /\ inflight' = [inflight EXCEPT ![s] = Nil]
    BY <1>7 DEF LogInv, IInv, TypeOK, SaveFrame, SaveUnsub
  <2>2. \A t \in Sess \ {s} : inflight'[t] = inflight[t]
    BY <2>1
  <2> QED
    BY <1>7, <2>2 DEF SaveFrame, SaveUnsub
<1>8. CASE \E ok \in BOOLEAN : WriteClose(s, ok)
  BY <1>8 DEF WriteClose
<1> QED
  BY <1>1, <1>2, <1>3, <1>4, <1>5, <1>6, <1>7, <1>8 DEF Quiet

\* What Reset and Commit do to the call's own variables.
LEMMA LockedMoves ==
  ASSUME NEW s \in Sess, LogInv, Reset(s) \/ Commit(s)
  PROVE  /\ UNCHANGED <<epoch, inflight>>
         /\ \E label \in {"done", "saveReset", "saveFrame", "saveUnsub"} :
              pc' = [pc EXCEPT ![s] = label]
BY DEF Reset, Commit, Goto, Fail

-----------------------------------------------------------------------------
\* Every step of a goroutine is one of these.
LEMMA StepKinds ==
  ASSUME NEW s \in Sess, Step(s) \/ \E ok \in BOOLEAN : Saved(s, ok)
  PROVE  \/ Quiet(s) \/ Reset(s) \/ Commit(s) \/ Expire(s)
         \/ \E m \in Messages : Receive(s, m) \/ Panic(s, m)
         \/ \E ok \in BOOLEAN : Unsub(s, ok)
BY DEF Step, Saved, Quiet, Locking, Private, ReadEnds, Read, Bounded, Write

LEMMA NextOriginInv == LogInv /\ [Next]_vars => OriginInv'
<1> SUFFICES ASSUME LogInv, [Next]_vars PROVE OriginInv'
  OBVIOUS
<1>1. CASE Validate \/ Return \/ Interrupt \/ Finished \/ UNCHANGED vars
  BY <1>1, CallOriginInv
<1>2. ASSUME NEW s \in Sess, Step(s) \/ \E ok \in BOOLEAN : Saved(s, ok)
      PROVE  OriginInv'
  <2>1. CASE Quiet(s)
    BY <2>1, QuietMoves, MoveOriginInv
  <2>2. CASE Reset(s) \/ Commit(s)
    BY <2>2, LockedMoves, MoveOriginInv DEF PC
  <2>3. CASE Expire(s) \/ \E m \in Messages : Panic(s, m)
    <3>1. UNCHANGED <<pc, epoch, inflight>>
      BY <2>3 DEF Expire, Panic, record, local
    <3> QED
      BY <3>1 DEF LogInv, OriginInv
  <2>4. CASE \E m \in Messages : Receive(s, m)
    BY <2>4, ReceiveOriginInv
  <2>5. CASE \E ok \in BOOLEAN : Unsub(s, ok)
    BY <2>5, UnsubOriginInv
  <2> QED
    BY <1>2, <2>1, <2>2, <2>3, <2>4, <2>5, StepKinds
<1> QED
  BY <1>1, <1>2 DEF Next

\* A goroutine that waits for the mutex with a frame got it from its own
\* connection, or sent it itself (record.go:266-281, 290-300).
LEMMA LogInvariant == Spec => []LogInv
<1>1. Init => LogInv
  BY InitIInv DEF LogInv, OriginInv, Init, CallInit
<1>2. LogInv /\ [Next]_vars => LogInv'
  BY NextIInv, NextOriginInv DEF LogInv
<1> QED
  BY <1>1, <1>2, PTL DEF Spec

-----------------------------------------------------------------------------
\* Nothing in the sessions moves while a Save writes them: others may read their
\* connections and wait to commit, but what touches frames or URIs needs mu, and
\* whoever holds it is in Save (record.go:79, 198-211).
THEOREM FileStillDuringSave == Spec => HeldMeansStill
<1>1. ASSUME LogInv, [Next]_vars, mu # Nil PROVE UNCHANGED shared
  <2>1. CASE Validate \/ Return \/ Interrupt \/ Finished \/ UNCHANGED vars
    BY <2>1 DEF Validate, Return, Interrupt, Finished, vars
  <2>2. ASSUME NEW s \in Sess, Step(s) \/ \E ok \in BOOLEAN : Saved(s, ok)
        PROVE  UNCHANGED shared
    <3>1. ~Reset(s) /\ ~Commit(s)
      BY <1>1 DEF Reset, Commit, MuFree
    <3>2. CASE Quiet(s)
      BY <3>2 DEF Quiet, Count, Check, ReadTimeout, ReadFails, AwaitNothing, AwaitAnswer,
                  Dial, SaveReset, Send, SaveFrame, SaveUnsub, WriteClose
    <3>3. CASE Expire(s) \/ \E m \in Messages : Receive(s, m) \/ Panic(s, m)
      BY <3>3 DEF Expire, Receive, Panic
    <3>4. CASE \E ok \in BOOLEAN : Unsub(s, ok)
      BY <3>4 DEF Unsub
    <3> QED
      BY <2>2, <3>1, <3>2, <3>3, <3>4, StepKinds
  <2> QED
    BY <1>1, <2>1, <2>2 DEF Next
<1>2. LogInv /\ [Next]_vars => [mu # Nil => UNCHANGED shared]_vars
  BY <1>1
<1> QED
  BY <1>2, LogInvariant, PTL DEF Spec, HeldMeansStill

-----------------------------------------------------------------------------
(***************************************************************************)
(* The refinement. SessionLog has the definitions of Frames for itself;    *)
(* they are the same.                                                      *)
(***************************************************************************)
LEMMA SameFrames ==
  /\ Log!Sess = Sess
  /\ Log!Payload = Payload
  /\ \A f : Log!MaskFrame(f) = MaskFrame(f)
  /\ \A t, p : Log!ReceiveFrame(t, p) = ReceiveFrame(t, p)
  /\ \A p : Log!SendFrame(p) = SendFrame(p)
  /\ \A fs : Log!Sends(fs) = Sends(fs)
<1>1. Log!Sess = Sess /\ Log!Payload = Payload
  BY DEF Sess, Payload, Log!Sess, Log!Payload
<1>2. \A f : Log!MaskFrame(f) = MaskFrame(f)
  BY DEF MaskFrame, MaskValue, Log!MaskFrame, Log!MaskValue
<1>3. \A t, p : Log!ReceiveFrame(t, p) = ReceiveFrame(t, p)
  BY DEF ReceiveFrame, Log!ReceiveFrame
<1>4. \A p : Log!SendFrame(p) = SendFrame(p)
  BY DEF SendFrame, Log!SendFrame
<1>5. \A fs : Log!Sends(fs) = Sends(fs)
  BY Zenon DEF Sends, SendPositions, IsSend, Nth, Rank,
               Log!Sends, Log!SendPositions, Log!IsSend, Log!Nth, Log!Rank,
               Cardinality, Log!Cardinality
<1> QED
  BY <1>1, <1>2, <1>3, <1>4, <1>5

\* A goroutine's move, seen as a move of its session's phase.
LEMMA PhaseMove ==
  ASSUME LogInv, NEW s \in Sess, NEW label, pc' = [pc EXCEPT ![s] = label]
  PROVE  /\ Phases[s] = PhaseOf(pc[s])
         /\ Phases' = [Phases EXCEPT ![s] = PhaseOf(label)]
<1>1. pc \in [Sess -> PC]
  BY DEF LogInv, IInv, TypeOK
<1>2. Phases' = [t \in Sess |-> PhaseOf(pc'[t])]
  BY DEF Phases, PhaseOf, BeforeReset, Listening
<1>3. \A t \in Sess : PhaseOf(pc'[t]) = IF t = s THEN PhaseOf(label) ELSE PhaseOf(pc[t])
  <2> HIDE DEF PhaseOf
  <2> QED
    BY <1>1
<1> QED
  BY <1>2, <1>3 DEF Phases

LEMMA AheadRefines ==
  ASSUME LogInv, NEW s \in Sess, NEW label \in PC, UNCHANGED <<frames, epoch>>,
         pc' = [pc EXCEPT ![s] = label], PhaseAhead(PhaseOf(pc[s]), PhaseOf(label))
  PROVE  Log!Next \/ UNCHANGED LogVars
<1> DEFINE p == PhaseOf(pc[s])
           q == PhaseOf(label)
<1>1. /\ Phases[s] = p /\ Phases' = [Phases EXCEPT ![s] = q]
      /\ Phases = [t \in Sess |-> Phases[t]]
  BY PhaseMove DEF Phases
<1>2. CASE p = q
  BY <1>1, <1>2 DEF LogVars
<1>3. CASE p # q /\ q = "ended"
  <2>1. Log!End(s)
    BY <1>1, <1>3 DEF Log!End, Log!Enter, Phases
  <2> QED
    BY <2>1, SameFrames DEF Log!Next
<1>4. CASE p # q /\ p = "open" /\ q = "closing"
  <2>1. Log!StopListening(s)
    BY <1>1, <1>4 DEF Log!StopListening, Log!Enter, Phases
  <2> QED
    BY <2>1, SameFrames DEF Log!Next
<1> QED
  BY <1>2, <1>3, <1>4 DEF PhaseAhead

\* Masking in place masks an initial segment: all of it, or up to the first
\* frame the masker refuses.
LEMMA MaskedPrefix ==
  ASSUME NEW fs \in Seq(Frame)
  PROVE  \E n \in 0..Len(fs) :
           /\ ~FirstRefused(fs, Len(fs)) => n = Len(fs)
           /\ MaskInPlace(fs) =
                [k \in DOMAIN fs |-> IF k <= n THEN MaskFrame(fs[k]) ELSE fs[k]]
<1>1. Len(fs) \in Nat /\ DOMAIN fs = 1..Len(fs)
  OBVIOUS
<1>2. CASE ~FirstRefused(fs, Len(fs))
  <2>1. \A k \in DOMAIN fs : k <= Len(fs) /\ ~FirstRefused(fs, k)
    <3>1. \A k \in DOMAIN fs : k <= Len(fs) /\ 1..k \subseteq 1..Len(fs)
      BY <1>1
    <3> QED
      BY <1>2, <3>1 DEF FirstRefused
  <2>2. MaskInPlace(fs) =
          [k \in DOMAIN fs |-> IF k <= Len(fs) THEN MaskFrame(fs[k]) ELSE fs[k]]
    BY <2>1 DEF MaskInPlace
  <2>3. Len(fs) \in 0..Len(fs)
    BY <1>1
  <2> QED
    BY <2>2, <2>3
<1>3. CASE FirstRefused(fs, Len(fs))
  <2> DEFINE R == {j \in 1..Len(fs) : MaskFrameRefuses(fs[j])}
  <2>1. PICK m \in R : \A j \in R : m <= j
    <3>1. R \in SUBSET Nat /\ R # {}
      BY <1>1, <1>3 DEF FirstRefused
    <3> HIDE DEF R
    <3> QED
      BY <3>1, LeastElement
  <2>2. m \in 1..Len(fs) /\ MaskFrameRefuses(fs[m])
    OBVIOUS
  <2>3. \A k \in DOMAIN fs : FirstRefused(fs, k) <=> ~(k <= m - 1)
    <3>1. ASSUME NEW k \in DOMAIN fs, k <= m - 1 PROVE ~FirstRefused(fs, k)
      <4>1. \A j \in 1..k : j \in 1..Len(fs) /\ ~(m <= j)
        BY <1>1, <2>2, <3>1
      <4> QED
        BY <2>1, <4>1 DEF FirstRefused
    <3>2. ASSUME NEW k \in DOMAIN fs, ~(k <= m - 1) PROVE FirstRefused(fs, k)
      <4>1. m \in 1..k
        BY <1>1, <2>2, <3>2
      <4> QED
        BY <2>2, <4>1 DEF FirstRefused
    <3> QED
      BY <3>1, <3>2
  <2>4. MaskInPlace(fs) =
          [k \in DOMAIN fs |-> IF k <= m - 1 THEN MaskFrame(fs[k]) ELSE fs[k]]
    BY <2>3 DEF MaskInPlace
  <2>5. m - 1 \in 0..Len(fs)
    BY <1>1, <2>2
  <2> QED
    BY <1>3, <2>4, <2>5
<1> QED
  BY <1>2, <1>3

\* Discarding an earlier capture.
LEMMA ResetRefines ==
  ASSUME LogInv, NEW s \in Sess, Reset(s)
  PROVE  Log!Next
<1> DEFINE kept == Sends(frames[s])
<1>1. kept \in Seq(Frame) /\ UNCHANGED epoch
  BY SendsType DEF LogInv, IInv, TypeOK, Reset
<1>2. PICK n \in 0..Len(kept) :
        /\ ~FirstRefused(kept, Len(kept)) => n = Len(kept)
        /\ MaskInPlace(kept) =
             [k \in DOMAIN kept |-> IF k <= n THEN MaskFrame(kept[k]) ELSE kept[k]]
  <2> HIDE DEF kept
  <2> QED
    BY <1>1, MaskedPrefix
<1>3. PICK label \in {"done", "saveReset"} :
        /\ pc' = [pc EXCEPT ![s] = label]
        /\ label = "saveReset" => ~FirstRefused(kept, Len(kept))
  BY DEF Reset, Fail, Goto
<1>4. pc[s] = "reset" /\ frames' = [frames EXCEPT ![s] = MaskInPlace(kept)]
  BY DEF Reset
<1>5. PICK p \in {"open", "ended"} :
        /\ Phases[s] = "kept" /\ Phases' = [Phases EXCEPT ![s] = p]
        /\ p = "open" => n = Len(kept)
  <2>1. PhaseOf("reset") = "kept" /\ PhaseOf("done") = "ended" /\ PhaseOf("saveReset") = "open"
    BY DEF PhaseOf, BeforeReset, Listening
  <2>2. Phases[s] = "kept" /\ Phases' = [Phases EXCEPT ![s] = PhaseOf(label)]
    BY <1>3, <1>4, <2>1, PhaseMove
  <2> QED
    BY <1>2, <1>3, <2>1, <2>2
<1>6. Log!Discard(s)
  <2>1. frames' = [frames EXCEPT ![s] =
          [k \in DOMAIN kept |-> IF k <= n THEN MaskFrame(kept[k]) ELSE kept[k]]]
    BY <1>2, <1>4
  <2>2. Log!Sends(frames[s]) = kept
    BY SameFrames
  <2> HIDE DEF kept
  <2>3. [k \in DOMAIN kept |-> IF k <= n THEN MaskFrame(kept[k]) ELSE kept[k]]
          = [k \in DOMAIN kept |-> IF k <= n THEN Log!MaskFrame(kept[k]) ELSE kept[k]]
    BY SameFrames
  <2>4. frames' = [frames EXCEPT ![s] =
          [k \in DOMAIN Log!Sends(frames[s]) |->
             IF k <= n THEN Log!MaskFrame(Log!Sends(frames[s])[k])
                       ELSE Log!Sends(frames[s])[k]]]
    BY <2>1, <2>2, <2>3, Zenon
  <2>5. n \in 0..Len(Log!Sends(frames[s])) /\ (p = "open" => n = Len(Log!Sends(frames[s])))
    BY <1>2, <1>5, <2>2
  <2>6. Log!Enter(s, p)
    BY <1>5 DEF Log!Enter, Phases
  <2>7. [t \in Sess |-> PhaseOf(pc[t])][s] = "kept"
    BY <1>5 DEF Phases
  <2> QED
    BY <2>4, <2>5, <2>6, <2>7, Zenon DEF Log!Discard
<1> QED
  BY <1>1, <1>6, SameFrames DEF Log!Next

\* Keeping a frame: one received, or the unsubscribe.
LEMMA CommitRefines ==
  ASSUME LogInv, NEW s \in Sess, Commit(s)
  PROVE  Log!Next
<1>1. /\ UNCHANGED epoch
      /\ frames' = [frames EXCEPT ![s] = Append(@, inflight[s].frame)]
  BY DEF Commit
<1>2. /\ PhaseOf("commit") = "open" /\ PhaseOf("saveFrame") = "open"
      /\ PhaseOf("commitUnsub") = "closing" /\ PhaseOf("saveUnsub") = "ended"
  BY DEF PhaseOf, BeforeReset, Listening
<1>3. CASE pc[s] = "commit"
  <2>1. Phases[s] = "open" /\ Phases' = [Phases EXCEPT ![s] = "open"]
    <3>1. pc' = [pc EXCEPT ![s] = "saveFrame"]
      BY <1>3 DEF Commit, Goto
    <3>2. Phases[s] = PhaseOf(pc[s])
      BY <3>1, PhaseMove
    <3>3. Phases' = [Phases EXCEPT ![s] = PhaseOf("saveFrame")]
      BY <3>1, PhaseMove
    <3> QED
      BY <1>2, <1>3, <3>2, <3>3
  <2>2. PICK p \in Payload : inflight[s].frame = MaskFrame(ReceiveFrame(epoch, p))
    BY <1>3 DEF LogInv, OriginInv
  <2>3. Phases' = Phases
    BY <2>1 DEF Phases
  <2>4. Log!Capture(s)
    BY <1>1, <2>1, <2>2, <2>3, SameFrames DEF Log!Capture, Phases
  <2> QED
    BY <1>1, <2>4, SameFrames DEF Log!Next
<1>4. CASE pc[s] = "commitUnsub"
  <2>1. Phases[s] = "closing" /\ Phases' = [Phases EXCEPT ![s] = "ended"]
    BY <1>2, <1>4, PhaseMove DEF Commit, Goto
  <2>2. PICK p \in Payload : inflight[s].frame = MaskFrame(SendFrame(p))
    BY <1>4 DEF LogInv, OriginInv
  <2>3. Log!Depart(s)
    BY <1>1, <2>1, <2>2, SameFrames DEF Log!Depart, Log!Enter, Phases
  <2> QED
    BY <1>1, <2>3, SameFrames DEF Log!Next
<1> QED
  BY <1>3, <1>4 DEF Commit

\* Getting hold of a frame to commit shows in SessionLog only when it fails.
LEMMA FetchRefines ==
  ASSUME LogInv, NEW s \in Sess,
         \/ \E m \in Messages : Receive(s, m)
         \/ \E ok \in BOOLEAN : Unsub(s, ok)
  PROVE  Log!Next \/ UNCHANGED LogVars
<1>1. UNCHANGED <<frames, epoch>>
  BY DEF Receive, Unsub, shared, record
<1>2. PICK label \in PC : pc' = [pc EXCEPT ![s] = label]
                          /\ PhaseAhead(PhaseOf(pc[s]), PhaseOf(label))
  <2>1. CASE \E m \in Messages : Receive(s, m)
    BY <2>1 DEF Receive, Fail, Goto, PC, PhaseAhead, PhaseOf, BeforeReset, Listening
  <2>2. CASE \E ok \in BOOLEAN : Unsub(s, ok)
    BY <2>2 DEF Unsub, Goto, PC, PhaseAhead, PhaseOf, BeforeReset, Listening
  <2> QED
    BY <2>1, <2>2
<1> QED
  BY <1>1, <1>2, AheadRefines

LEMMA NextRefines == LogInv /\ [Next]_vars => Log!Next \/ UNCHANGED LogVars
<1> SUFFICES ASSUME LogInv, [Next]_vars PROVE Log!Next \/ UNCHANGED LogVars
  OBVIOUS
<1>1. CASE Validate
  <2>1. \A s \in Sess : pc[s] = "idle" /\ pc'[s] \in {"idle", "count"}
    BY <1>1 DEF Validate, LogInv, IInv, ReadyInv
  <2>2. PhaseOf("idle") = PhaseOf("count")
    BY DEF PhaseOf, BeforeReset, Listening
  <2>3. UNCHANGED <<frames, epoch>>
    BY <1>1 DEF Validate, shared
  <2>4. Phases' = [s \in Sess |-> PhaseOf(pc'[s])]
    BY DEF Phases, PhaseOf, BeforeReset, Listening
  <2>5. \A s \in Sess : PhaseOf(pc'[s]) = PhaseOf(pc[s])
    BY <2>1, <2>2
  <2> QED
    BY <2>3, <2>4, <2>5 DEF LogVars, Phases
<1>2. CASE Return \/ Interrupt \/ Finished \/ UNCHANGED vars
      \/ \E s \in Sess : Expire(s) \/ \E m \in Messages : Panic(s, m)
  <2>1. UNCHANGED <<frames, epoch, pc>>
    BY <1>2 DEF Return, Interrupt, Finished, Expire, Panic, vars, shared, record, local
  <2> QED
    BY <2>1 DEF LogVars, Phases, PhaseOf, BeforeReset, Listening
<1>3. ASSUME NEW s \in Sess, Step(s) \/ \E ok \in BOOLEAN : Saved(s, ok)
      PROVE  Log!Next \/ UNCHANGED LogVars
  <2>1. CASE Quiet(s)
    BY <2>1, QuietMoves, AheadRefines
  <2>2. CASE Reset(s) \/ Commit(s)
    BY <2>2, ResetRefines, CommitRefines
  <2>3. CASE \/ \E m \in Messages : Receive(s, m)
             \/ \E ok \in BOOLEAN : Unsub(s, ok)
    BY <2>3, FetchRefines
  <2> QED
    BY <1>2, <1>3, <2>1, <2>2, <2>3, StepKinds
<1> QED
  BY <1>1, <1>2, <1>3 DEF Next

\* Record implements SessionLog: whatever the goroutines interleave, a session's
\* frames are kept, or its capture is discarded once, and then they only grow by
\* masked frames of this run's connection and at the end by the unsubscribe
\* (record.go:51-60, 193-196, 290-300).
THEOREM RecordImplementsSessionLog == Spec => ImplementsSessionLog
<1>1. Init => Log!Init
  <2> SUFFICES ASSUME Init PROVE Log!Init
    OBVIOUS
  <2>1. frames \in [Sess -> StartFrames] /\ epoch \in Nat
    BY DEF Init
  <2>2. [s \in Sess |-> PhaseOf(pc[s])] = [s \in Sess |-> "kept"]
    BY DEF Init, CallInit, PhaseOf, BeforeReset, Listening
  <2> QED
    BY <2>1, <2>2, SameFrames DEF Log!Init
<1>2. LogInv /\ [Next]_vars => [Log!Next]_LogVars
  BY NextRefines
<1> QED
  BY <1>1, <1>2, LogInvariant, PTL DEF Spec, ImplementsSessionLog, Log!Spec, LogVars, Phases

-----------------------------------------------------------------------------
(***************************************************************************)
(* listen counts beside the file it records to, and decides by its counts  *)
(* when to stop. They agree, for any number of sessions, any frames, any   *)
(* stop condition and any messages, as long as masking does not cover the  *)
(* discriminator.                                                          *)
(***************************************************************************)
\* A frame appended to a session counts if it was received, and for its kind.
LEMMA AppendCounts ==
  ASSUME NEW fs \in Seq(Frame), NEW f \in Frame, NEW d \in BOOLEAN
  PROVE  LET had == CountReceived(fs, d)
             has == CountReceived(Append(fs, f), d)
         IN  /\ ~IsReceive(f) => has = had
             /\ IsReceive(f) =>
                  /\ has.count = had.count + 1
                  /\ \A k \in Kinds : has.seen[k] =
                       had.seen[k] + (IF d /\ k = Discriminate(f.receive) THEN 1 ELSE 0)
<1> DEFINE gs == Append(fs, f)
           new == Len(fs) + 1
           P == ReceivePositions(fs)
           Q == ReceivePositions(gs)
<1>1. /\ Len(fs) \in Nat /\ DOMAIN fs = 1..Len(fs) /\ DOMAIN gs = 1..new
      /\ gs[new] = f /\ \A i \in DOMAIN fs : gs[i] = fs[i]
      /\ new \notin DOMAIN fs
  OBVIOUS
<1>2. IsFiniteSet(P)
  BY CountReceivedType
<1> HIDE DEF gs, new
<1>3. DOMAIN gs = DOMAIN fs \cup {new}
  BY <1>1 DEF new
<1>4. Q = IF IsReceive(f) THEN P \cup {new} ELSE P
  <2>1. \A i : i \in Q <=> i \in DOMAIN gs /\ IsReceive(gs[i])
    BY DEF ReceivePositions
  <2>2. \A i : i \in P <=> i \in DOMAIN fs /\ IsReceive(fs[i])
    BY DEF ReceivePositions
  <2> HIDE DEF P, Q
  <2>3. \A i : i \in Q <=> i \in P \/ (i = new /\ IsReceive(f))
    BY <1>1, <1>3, <2>1, <2>2
  <2> QED
    BY <2>3
<1>5. new \notin P /\ \A i \in P : gs[i] = fs[i]
  BY <1>1 DEF ReceivePositions
<1>6. \A k : KindPositions(gs, k) =
        IF IsReceive(f) /\ k = Discriminate(f.receive)
          THEN KindPositions(fs, k) \cup {new} ELSE KindPositions(fs, k)
  <2> TAKE k
  <2>1. \A i : i \in KindPositions(gs, k) <=> i \in Q /\ Discriminate(gs[i].receive) = k
    BY DEF KindPositions
  <2>2. \A i : i \in KindPositions(fs, k) <=> i \in P /\ Discriminate(fs[i].receive) = k
    BY DEF KindPositions
  <2> HIDE DEF P, Q
  <2>3. \A i : i \in KindPositions(gs, k) <=>
          i \in KindPositions(fs, k) \/ (i = new /\ IsReceive(f) /\ k = Discriminate(f.receive))
    BY <1>1, <1>4, <1>5, <2>1, <2>2
  <2> QED
    BY <2>3
<1>7. \A k : IsFiniteSet(KindPositions(fs, k)) /\ new \notin KindPositions(fs, k)
  <2> TAKE k
  <2>1. KindPositions(fs, k) \in SUBSET P
    BY DEF KindPositions
  <2> HIDE DEF P
  <2> QED
    BY <1>2, <1>5, <2>1, FS_Subset
<1> HIDE DEF P, Q
<1>8. ~IsReceive(f) => CountReceived(gs, d) = CountReceived(fs, d)
  BY <1>4, <1>6 DEF CountReceived, P, Q
<1>9. ASSUME IsReceive(f) PROVE CountReceived(gs, d).count = CountReceived(fs, d).count + 1
  <2>1. Cardinality(P \cup {new}) = Cardinality(P) + 1
    BY <1>2, <1>5, FS_AddElement
  <2> QED
    BY <1>4, <1>9, <2>1 DEF CountReceived, P, Q
<1>10. ASSUME IsReceive(f), NEW k \in Kinds
       PROVE  CountReceived(gs, d).seen[k] = CountReceived(fs, d).seen[k]
                + (IF d /\ k = Discriminate(f.receive) THEN 1 ELSE 0)
  <2>1. Cardinality(KindPositions(fs, k)) \in Nat
    BY <1>7, FS_CardinalityType
  <2>2. Cardinality(KindPositions(fs, k) \cup {new}) = Cardinality(KindPositions(fs, k)) + 1
    BY <1>7, FS_AddElement
  <2> DEFINE old == Cardinality(KindPositions(fs, k))
             now == Cardinality(KindPositions(gs, k))
  <2>3. /\ CountReceived(gs, d).seen[k] = IF d THEN now ELSE 0
        /\ CountReceived(fs, d).seen[k] = IF d THEN old ELSE 0
    BY <1>10 DEF CountReceived
  <2>4. now = IF k = Discriminate(f.receive) THEN old + 1 ELSE old
    BY <1>6, <1>10, <2>2
  <2> HIDE DEF old, now
  <2> QED
    BY <2>1, <2>3, <2>4 DEF old
<1> QED
  BY <1>8, <1>9, <1>10 DEF gs

\* Where there is nothing received, nothing is counted.
LEMMA NothingReceived ==
  ASSUME NEW fs, \A i \in DOMAIN fs : ~IsReceive(fs[i]), NEW d \in BOOLEAN
  PROVE  CountReceived(fs, d) = [count |-> 0, seen |-> [k \in Kinds |-> 0]]
<1>1. ReceivePositions(fs) = {} /\ \A k : KindPositions(fs, k) = {}
  BY DEF ReceivePositions, KindPositions
<1> QED
  BY <1>1, FS_EmptySet DEF CountReceived

-----------------------------------------------------------------------------
(***************************************************************************)
(* What a goroutine knows of its counts at each point. Between Commit and  *)
(* the return of Save the file is one frame ahead; that frame is on the    *)
(* way with the kind it will be counted by. It is read only while the      *)
(* condition is unmet, and when listen or the skip check ends it is met,   *)
(* or the context is done, or a read timed out. Nothing that is received   *)
(* comes after that.                                                       *)
(***************************************************************************)
Ahead(s) == pc[s] = "saveFrame"
Counted(s) ==
  /\ Received(s).count = tally[s].count + (IF Ahead(s) THEN 1 ELSE 0)
  /\ \A k \in Kinds : Received(s).seen[k] = tally[s].seen[k]
       + (IF Ahead(s) /\ until.discriminator /\ k = inflight[s].kind THEN 1 ELSE 0)
Ended(s) == ctxDone(s) \/ readErr[s] = "timeout"
Described(s) ==
  /\ SameCounts(reports[s], NewSessionReport(until, Received(s).count, Received(s).seen))
  /\ Satisfied(until, Received(s).count, Received(s).seen) \/ Ended(s)

CountInv(s) ==
  /\ pc[s] \in BeforeReset \cup SendingOnly =>
       tally[s].count = 0 /\ \A k \in Kinds : tally[s].seen[k] = 0
  /\ pc[s] \in Listening \cup Closing => Counted(s)
  /\ pc[s] \in {"commit", "saveFrame"} =>
       /\ IsReceive(inflight[s].frame)
       /\ inflight[s].kind = Discriminate(inflight[s].frame.receive)
  /\ pc[s] = "commitUnsub" => ~IsReceive(inflight[s].frame)
  /\ pc[s] \in Listening \ {"listen"} => ~Satisfied(until, tally[s].count, tally[s].seen)
  /\ reports[s] # Nil => pc[s] \in Closing \cup {"done"} /\ Described(s)

TallyInv == \A s \in Sess : CountInv(s)

\* Everything the invariants before this one say.
BaseInv == IInv /\ FramesInv

\* The step is another session's, as far as this one can tell.
Untouched(t) ==
  /\ UNCHANGED <<until, pc[t], frames[t], tally[t], inflight[t], reports[t]>>
  /\ Ended(t) => Ended(t)'

LEMMA UntouchedCounts ==
  ASSUME NEW t \in Sess, CountInv(t), Untouched(t)
  PROVE  CountInv(t)'
BY DEF Untouched, CountInv, Counted, Described, Received, Ahead

\* A goroutine that goes on, and leaves its frames, counts and report alone.
LEMMA MoveCounts ==
  ASSUME NEW s \in Sess, CountInv(s),
         UNCHANGED <<until, frames[s], tally[s], reports[s]>>,
         reports[s] # Nil /\ Ended(s) => Ended(s)',
         \/ /\ pc[s] \in BeforeReset \cup SendingOnly
            /\ pc'[s] \in BeforeReset \cup SendingOnly \cup {"done"}
         \/ pc[s] \in Listening /\ pc'[s] = "done"
         \/ /\ pc[s] \in Closing
            /\ pc'[s] \in (Closing \cup {"done"}) \ {"commitUnsub"}
  PROVE  CountInv(s)'
<1> USE DEF BeforeReset, SendingOnly, Listening, Closing
<1>1. reports[s] # Nil => pc[s] \in Closing \cup {"done"} /\ Described(s)
  BY DEF CountInv
<1>2. reports[s] # Nil /\ Described(s) => Described(s)'
  BY DEF Described, Received
<1>3. reports'[s] # Nil => pc'[s] \in Closing \cup {"done"} /\ Described(s)'
  BY <1>1, <1>2
<1>4. CASE pc[s] \in Closing
  <2>1. Counted(s)'
    BY <1>4 DEF CountInv, Counted, Received, Ahead
  <2> QED
    BY <1>3, <1>4, <2>1 DEF CountInv
<1>5. CASE pc[s] \in Listening
  BY <1>3, <1>5 DEF CountInv
<1>6. CASE pc[s] \in BeforeReset \cup SendingOnly
  BY <1>3, <1>6 DEF CountInv
<1> QED
  BY <1>4, <1>5, <1>6

\* What a goroutine does leaves the others' counts and reports alone.
Acts(s) ==
  \/ Count(s) \/ Reset(s) \/ Commit(s) \/ Check(s) \/ ReadTimeout(s) \/ ReadFails(s)
  \/ AwaitNothing(s) \/ \E m \in Messages : Receive(s, m)
  \/ \E how \in {"handshake", "broken", "grace"} : AwaitAnswer(s, how)
  \/ \E ok \in BOOLEAN : \/ Dial(s, ok) \/ SaveReset(s, ok) \/ Send(s, ok) \/ SaveFrame(s, ok)
                         \/ Unsub(s, ok) \/ SaveUnsub(s, ok) \/ WriteClose(s, ok)

LEMMA ActsElsewhere ==
  ASSUME NEW s \in Sess, IInv, Acts(s), NEW t \in Sess \ {s}
  PROVE  Untouched(t)
<1>1. /\ pc \in [Sess -> PC] /\ reports \in [Sess -> Report \cup {Nil}]
      /\ inflight \in [Sess -> InFlight \cup {Nil}] /\ tally \in [Sess -> Tally]
      /\ frames \in [Sess -> Seq(Frame)] /\ readErr \in [Sess -> {"none", "timeout", "broken"}]
  BY DEF IInv, TypeOK
<1>2. UNCHANGED <<until, expired, interrupted>> /\ UNCHANGED readErr[t]
  <2>1. UNCHANGED <<until, expired, interrupted>>
    BY DEF Acts, Count, Reset, Commit, Check, ReadTimeout, ReadFails, AwaitNothing, Receive,
           AwaitAnswer, Dial, SaveReset, Send, SaveFrame, Unsub, SaveUnsub, WriteClose, record, world
  <2>2. UNCHANGED readErr \/ \E e : readErr' = [readErr EXCEPT ![s] = e]
    BY DEF Acts, Count, Reset, Commit, Check, ReadTimeout, ReadFails, AwaitNothing, Receive,
           AwaitAnswer, Dial, SaveReset, Send, SaveFrame, Unsub, SaveUnsub, WriteClose, world
  <2> QED
    BY <1>1, <2>1, <2>2
<1>3. UNCHANGED pc[t]
  <2>1. \E label : Goto(s, label) \/ Fail(s)
    BY Zenon DEF Acts, Count, Reset, Commit, Check, ReadTimeout, ReadFails, AwaitNothing, Receive,
         AwaitAnswer, Dial, SaveReset, Send, SaveFrame, Unsub, SaveUnsub, WriteClose, EndListen
  <2> QED
    BY <1>1, <2>1 DEF Goto, Fail
<1>4. UNCHANGED frames[t]
  <2>1. UNCHANGED frames \/ \E fs : frames' = [frames EXCEPT ![s] = fs]
    BY DEF Acts, Count, Reset, Commit, Check, ReadTimeout, ReadFails, AwaitNothing, Receive,
         AwaitAnswer, Dial, SaveReset, Send, SaveFrame, Unsub, SaveUnsub, WriteClose, shared
  <2> QED
    BY <1>1, <2>1
<1>5. UNCHANGED tally[t]
  BY <1>1 DEF Acts, Count, Reset, Commit, Check, ReadTimeout, ReadFails, AwaitNothing, Receive,
         AwaitAnswer, Dial, SaveReset, Send, SaveFrame, Unsub, SaveUnsub, WriteClose
<1>6. UNCHANGED inflight[t]
  BY <1>1 DEF Acts, Count, Reset, Commit, Check, ReadTimeout, ReadFails, AwaitNothing, Receive,
         AwaitAnswer, Dial, SaveReset, Send, SaveFrame, Unsub, SaveUnsub, WriteClose
<1>7. UNCHANGED reports[t]
  BY <1>1 DEF Acts, Count, Reset, Commit, Check, ReadTimeout, ReadFails, AwaitNothing, Receive,
         AwaitAnswer, Dial, SaveReset, Send, SaveFrame, Unsub, SaveUnsub, WriteClose, EndListen
<1> QED
  BY <1>2, <1>3, <1>4, <1>5, <1>6, <1>7 DEF Untouched, Ended, ctxDone

\* So only the goroutine's own counts are left to look at.
LEMMA OwnCounts ==
  ASSUME NEW s \in Sess, IInv, TallyInv, Acts(s), CountInv(s)'
  PROVE  TallyInv'
BY ActsElsewhere, UntouchedCounts DEF TallyInv

-----------------------------------------------------------------------------
LEMMA CountCounts == ASSUME NEW s \in Sess PROVE BaseInv /\ TallyInv /\ Count(s) => TallyInv'
<1> SUFFICES ASSUME BaseInv, TallyInv, Count(s) PROVE CountInv(s)'
  BY OwnCounts DEF BaseInv, Acts
<1> DEFINE had == CountReceived(frames[s], until.discriminator)
           sr == NewSessionReport(until, had.count, had.seen)
<1>1. /\ pc \in [Sess -> PC] /\ reports \in [Sess -> Report \cup {Nil}] /\ CountInv(s)
      /\ pc[s] = "count"
  BY DEF BaseInv, IInv, TypeOK, TallyInv, Count
<1>2. UNCHANGED <<until, frames, tally, expired, interrupted, readErr>>
  BY DEF Count, shared, record, world
<1>3. CASE Satisfied(until, had.count, had.seen)
  <2>1. reports'[s] = [sr EXCEPT !.skipped = TRUE] /\ pc'[s] = "done"
    BY <1>1, <1>3 DEF Count, Goto
  <2>2. SameCounts(reports'[s], sr)
    BY <2>1 DEF SameCounts, NewSessionReport
  <2>3. Described(s)'
    BY <1>2, <1>3, <2>2 DEF Described, Received
  <2> QED
    BY <2>1, <2>3 DEF CountInv, BeforeReset, SendingOnly, Listening, Closing
<1>4. CASE ~Satisfied(until, had.count, had.seen)
  <2>1. pc'[s] = "dial" /\ UNCHANGED reports
    BY <1>1, <1>4 DEF Count, Goto
  <2> QED
    BY <1>1, <1>2, <2>1, MoveCounts DEF BeforeReset, Ended, ctxDone
<1> QED
  BY <1>3, <1>4

\* Discarding the earlier capture: nothing has been counted or reported.
LEMMA ResetCounts == ASSUME NEW s \in Sess PROVE BaseInv /\ TallyInv /\ Reset(s) => TallyInv'
<1> SUFFICES ASSUME BaseInv, TallyInv, Reset(s) PROVE CountInv(s)'
  BY OwnCounts DEF BaseInv, Acts
<1>1. pc \in [Sess -> PC] /\ CountInv(s) /\ pc[s] = "reset"
  BY DEF BaseInv, IInv, TypeOK, TallyInv, Reset
<1>2. reports[s] = Nil
  BY <1>1 DEF BaseInv, FramesInv, SessionInv, BeforeReset
<1>3. UNCHANGED <<tally, reports>> /\ pc'[s] \in {"done", "saveReset"}
  BY <1>1 DEF Reset, Goto, Fail
<1> QED
  BY <1>1, <1>2, <1>3 DEF CountInv, BeforeReset, SendingOnly, Listening, Closing

\* When the send loop is through, the session holds send frames only.
LEMMA SendCounts ==
  ASSUME NEW s \in Sess, NEW ok \in BOOLEAN
  PROVE  BaseInv /\ TallyInv /\ Send(s, ok) => TallyInv'
<1> SUFFICES ASSUME BaseInv, TallyInv, Send(s, ok) PROVE CountInv(s)'
  BY OwnCounts DEF BaseInv, Acts
<1>1. /\ pc \in [Sess -> PC] /\ CountInv(s) /\ pc[s] = "send" /\ call = "running"
      /\ tally[s] \in Tally /\ until \in UntilType
  BY DEF BaseInv, IInv, TypeOK, ReadyInv, TallyInv, Send
<1>2. UNCHANGED <<until, frames, tally, reports, expired, interrupted, readErr>>
  BY DEF Send, shared, record
<1>3. Goto(s, "listen") \/ Goto(s, "send") \/ Fail(s)
  BY Zenon DEF Send
<1>4. pc'[s] \in {"listen", "send", "done"}
  BY <1>1, <1>3 DEF Goto, Fail
<1>5. CASE pc'[s] \in {"send", "done"}
  BY <1>1, <1>2, <1>5, MoveCounts DEF SendingOnly, Ended, ctxDone
<1>6. CASE pc'[s] = "listen"
  <2>1. \A i \in DOMAIN frames[s] : ~IsReceive(frames[s][i])
    <3>1. \A i \in DOMAIN frames[s] : IsSend(frames[s][i]) /\ ValidFrame(frames[s][i])
      BY <1>1 DEF BaseInv, IInv, ReadyInv, SendingOnly, FramesInv, FramesStayValid
    <3> QED
      BY <3>1 DEF ValidFrame
  <2>2. until.discriminator \in BOOLEAN
    BY <1>1 DEF UntilType
  <2>3. Received(s) = [count |-> 0, seen |-> [k \in Kinds |-> 0]]
    BY <2>1, <2>2, NothingReceived DEF Received
  <2>4. tally[s].count = 0 /\ \A k \in Kinds : tally[s].seen[k] = 0
    BY <1>1 DEF CountInv, SendingOnly
  <2>5. Counted(s)'
    BY <1>2, <1>6, <2>3, <2>4 DEF Counted, Received, Ahead
  <2>6. reports'[s] = Nil
    BY <1>1, <1>2 DEF CountInv, Closing
  <2> QED
    BY <1>6, <2>5, <2>6 DEF CountInv, BeforeReset, SendingOnly, Listening, Closing
<1> QED
  BY <1>4, <1>5, <1>6

-----------------------------------------------------------------------------
\* With no frame on the way to the file, the counts are the file's.
LEMMA CountsAgree ==
  ASSUME NEW s \in Sess, IInv, call = "running", Counted(s), ~Ahead(s)
  PROVE  tally[s].count = Received(s).count /\ tally[s].seen = Received(s).seen
<1>1. frames[s] \in Seq(Frame) /\ until.discriminator \in BOOLEAN /\ tally[s] \in Tally
  BY DEF IInv, TypeOK, ReadyInv, UntilType
<1>2. Received(s).count \in Nat /\ Received(s).seen \in [Kinds -> Nat]
  BY <1>1, CountReceivedType DEF Received
<1>3. tally[s].count \in Nat /\ tally[s].seen \in [Kinds -> Nat]
  BY <1>1 DEF Tally
<1>4. Received(s).count = tally[s].count /\ \A k \in Kinds : Received(s).seen[k] = tally[s].seen[k]
  <2>1. /\ Received(s).count = tally[s].count + 0
        /\ \A k \in Kinds : Received(s).seen[k] = tally[s].seen[k] + 0
    BY DEF Counted
  <2> QED
    BY <1>3, <2>1
<1>5. Received(s).seen = [k \in Kinds |-> Received(s).seen[k]]
      /\ tally[s].seen = [k \in Kinds |-> tally[s].seen[k]]
  BY <1>2, <1>3
<1> QED
  BY <1>4, <1>5

\* listen ends with its condition met, its context done or a read that timed out,
\* and reports what it counted.
LEMMA EndListenCounts ==
  ASSUME NEW s \in Sess, IInv, CountInv(s), call = "running", pc[s] \in {"listen", "read"},
         EndListen(s), UNCHANGED <<until, frames, tally, expired, interrupted>>,
         StopListening(s) \/ readErr'[s] = "timeout"
  PROVE  CountInv(s)'
<1>1. /\ pc \in [Sess -> PC] /\ reports \in [Sess -> Report \cup {Nil}]
  BY DEF IInv, TypeOK
<1>2. Counted(s) /\ ~Ahead(s)
  BY DEF CountInv, Listening, Ahead
<1>3. tally[s].count = Received(s).count /\ tally[s].seen = Received(s).seen
  BY <1>2, CountsAgree
<1>4. pc'[s] = "unsub"
  BY <1>1 DEF EndListen, Goto
<1>5. Counted(s)'
  BY <1>2, <1>4 DEF Counted, Received, Ahead
<1>6. Described(s)'
  <2>1. reports'[s] = [NewSessionReport(until, tally[s].count, tally[s].seen)
                         EXCEPT !.notJSON = tally[s].notJSON]
    BY <1>1 DEF EndListen
  <2>2. SameCounts(reports'[s], NewSessionReport(until, tally[s].count, tally[s].seen))
    BY <2>1 DEF SameCounts, NewSessionReport
  <2>3. Received(s)' = Received(s) /\ until' = until
    BY DEF Received
  <2>4. Satisfied(until, Received(s).count, Received(s).seen) \/ Ended(s)'
    BY <1>3 DEF StopListening, Ended, ctxDone
  <2>5. SameCounts(reports'[s], NewSessionReport(until, Received(s).count, Received(s).seen))
    BY <1>3, <2>2
  <2> HIDE DEF Received, Ended
  <2> QED
    BY <2>3, <2>4, <2>5 DEF Described
<1> QED
  BY <1>4, <1>5, <1>6 DEF CountInv, BeforeReset, SendingOnly, Listening, Closing

\* The ways out of a turn of listen's loop.
LEMMA ListenCounts ==
  ASSUME NEW s \in Sess
  PROVE  BaseInv /\ TallyInv /\ (Check(s) \/ ReadTimeout(s) \/ ReadFails(s)) => TallyInv'
<1> SUFFICES ASSUME BaseInv, TallyInv, Check(s) \/ ReadTimeout(s) \/ ReadFails(s)
             PROVE  CountInv(s)'
  BY OwnCounts DEF BaseInv, Acts
<1>1. /\ pc \in [Sess -> PC] /\ CountInv(s) /\ IInv /\ call = "running"
      /\ pc[s] \in {"listen", "read"}
      /\ UNCHANGED <<until, frames, tally, expired, interrupted>>
  BY DEF BaseInv, IInv, TypeOK, TallyInv, Check, ReadTimeout, ReadFails, shared, record, world
<1>2. CASE EndListen(s) /\ (StopListening(s) \/ readErr'[s] = "timeout")
  BY <1>1, <1>2, EndListenCounts
<1>3. CASE Fail(s) /\ UNCHANGED reports
  <2>1. pc'[s] = "done"
    BY <1>1, <1>3 DEF Fail
  <2>2. reports[s] = Nil
    BY <1>1 DEF CountInv, Closing
  <2> QED
    BY <1>1, <1>3, <2>1, <2>2, MoveCounts DEF Listening
<1>4. CASE Goto(s, "read") /\ UNCHANGED reports /\ pc[s] = "listen" /\ ~StopListening(s)
  <2>1. pc'[s] = "read"
    BY <1>1, <1>4 DEF Goto
  <2>2. Counted(s) /\ ~Ahead(s) /\ reports[s] = Nil
    BY <1>4 DEF CountInv, BaseInv, TallyInv, Listening, Closing, Ahead
  <2>3. Counted(s)'
    BY <1>1, <2>1, <2>2 DEF Counted, Received, Ahead
  <2>4. ~Satisfied(until, tally[s].count, tally[s].seen)'
    BY <1>1, <1>4 DEF StopListening
  <2> QED
    BY <1>4, <2>1, <2>2, <2>3, <2>4 DEF CountInv, BeforeReset, SendingOnly, Listening, Closing
<1>5. ReadTimeout(s) => readErr'[s] = "timeout"
  BY DEF ReadTimeout, BaseInv, IInv, TypeOK
<1> QED
  BY <1>1, <1>2, <1>3, <1>4, <1>5 DEF Check, ReadTimeout, ReadFails, StopListening, ctxDone

-----------------------------------------------------------------------------
\* The kind a frame is counted by is the kind it is kept with, unless masking
\* covers the discriminator.
LEMMA KindIsKept ==
  ASSUME MaskedDiscriminator = FALSE, NEW p \in Payload
  PROVE  Discriminate(MaskValue(p)) = Discriminate(p)
<1>1. p # Nil
  BY NilAssumption
<1>2. p = [form |-> p.form, kind |-> p.kind, secret |-> p.secret]
  BY DEF Payload
<1>3. MaskValue(p).form = p.form /\ MaskValue(p).kind = p.kind
  BY <1>1, <1>2 DEF MaskValue
<1> QED
  BY <1>3 DEF Discriminate

LEMMA ReceiveCounts ==
  ASSUME MaskedDiscriminator = FALSE, NEW s \in Sess, NEW m \in Messages
  PROVE  BaseInv /\ TallyInv /\ Receive(s, m) => TallyInv'
<1> SUFFICES ASSUME BaseInv, TallyInv, Receive(s, m) PROVE CountInv(s)'
  BY OwnCounts DEF BaseInv, Acts
<1> DEFINE f == ReceiveFrame(epoch, PayloadOf(m))
           x == [frame |-> MaskFrame(f), kind |-> Discriminate(f.receive)]
<1>1. /\ pc \in [Sess -> PC] /\ inflight \in [Sess -> InFlight \cup {Nil}]
      /\ tally \in [Sess -> Tally] /\ CountInv(s) /\ pc[s] = "read" /\ epoch \in Nat
  BY DEF BaseInv, IInv, TypeOK, TallyInv, Receive
<1>2. UNCHANGED <<until, frames, reports>>
  BY DEF Receive, shared, record
<1>3. tally'[s].count = tally[s].count /\ tally'[s].seen = tally[s].seen
  <2>1. tally' = [tally EXCEPT ![s].notJSON = IF IsJSON(m) THEN @ ELSE @ + 1]
    BY DEF Receive
  <2> QED
    BY <1>1, <2>1 DEF Tally
<1>4. /\ Counted(s) /\ ~Ahead(s) /\ reports[s] = Nil
      /\ ~Satisfied(until, tally[s].count, tally[s].seen)
  BY <1>1 DEF CountInv, Listening, Closing, Ahead
<1>5. \/ Fail(s) /\ UNCHANGED inflight
      \/ Goto(s, "commit") /\ inflight' = [inflight EXCEPT ![s] = x]
  BY DEF Receive
<1>6. CASE Fail(s)
  <2>1. pc'[s] = "done"
    BY <1>1, <1>6 DEF Fail
  <2> QED
    BY <1>2, <1>4, <2>1 DEF CountInv, BeforeReset, SendingOnly, Listening, Closing
<1>7. CASE Goto(s, "commit") /\ inflight' = [inflight EXCEPT ![s] = x]
  <2>1. pc'[s] = "commit"
    BY <1>1, <1>7 DEF Goto
  <2>2. inflight'[s] = x
    <3> HIDE DEF x
    <3> QED
      BY <1>1, <1>7
  <2>3. IsReceive(x.frame) /\ x.kind = Discriminate(x.frame.receive)
    <3>1. m \in Message
      BY MessagesAssumption
    <3>2. PayloadOf(m) \in Payload /\ f \in Frame /\ f.receive = PayloadOf(m)
      BY <1>1, <3>1, PayloadOfType, ReceivedFrameType DEF ReceiveFrame
    <3>3. x.frame.receive = MaskValue(f.receive)
      BY <3>2 DEF MaskFrame, Frame
    <3>4. x.kind = Discriminate(f.receive)
      OBVIOUS
    <3>5. MaskValue(f.receive) # Nil
      BY <3>2, MaskValueType, NilAssumption
    <3> HIDE DEF x, f
    <3> QED
      BY <3>2, <3>3, <3>4, <3>5, KindIsKept DEF IsReceive
  <2> HIDE DEF x
  <2>4. Counted(s)'
    BY <1>2, <1>3, <1>4, <2>1 DEF Counted, Received, Ahead
  <2>5. ~Satisfied(until, tally[s].count, tally[s].seen)'
    BY <1>2, <1>3, <1>4
  <2> QED
    BY <1>2, <1>4, <2>1, <2>2, <2>3, <2>4, <2>5
       DEF CountInv, BeforeReset, SendingOnly, Listening, Closing
<1> QED
  BY <1>5, <1>6, <1>7

\* The file gets ahead of the counts by the frame that is saved.
LEMMA CommitCounts == ASSUME NEW s \in Sess PROVE BaseInv /\ TallyInv /\ Commit(s) => TallyInv'
<1> SUFFICES ASSUME BaseInv, TallyInv, Commit(s) PROVE CountInv(s)'
  BY OwnCounts DEF BaseInv, Acts
<1> DEFINE f == inflight[s].frame
           d == until.discriminator
<1>1. /\ pc \in [Sess -> PC] /\ CountInv(s) /\ frames \in [Sess -> Seq(Frame)]
      /\ tally[s] \in Tally /\ call = "running" /\ pc[s] \in {"commit", "commitUnsub"}
  BY DEF BaseInv, IInv, TypeOK, TallyInv, Commit
<1>2. f \in Frame /\ d \in BOOLEAN
  BY <1>1 DEF BaseInv, IInv, ReadyInv, InFlight, Committing, UntilType
<1>3. /\ UNCHANGED <<until, tally, inflight, reports, expired, interrupted, readErr>>
      /\ frames' = [frames EXCEPT ![s] = Append(frames[s], f)]
  BY <1>1 DEF Commit, world
<1>4. frames'[s] = Append(frames[s], f)
  <2> HIDE DEF f
  <2> QED
    BY <1>1, <1>3
<1>5. Counted(s) /\ ~Ahead(s)
  BY <1>1 DEF CountInv, Listening, Closing, Ahead
<1>6. Received(s)' = CountReceived(Append(frames[s], f), d)
  BY <1>3, <1>4 DEF Received
<1> HIDE DEF f, d
<1>7. CASE pc[s] = "commit"
  <2>1. pc'[s] = "saveFrame"
    BY <1>1, <1>7 DEF Commit, Goto
  <2>2. IsReceive(f) /\ inflight[s].kind = Discriminate(f.receive)
    BY <1>1, <1>7 DEF CountInv, f
  <2>3. Received(s)'.count = Received(s).count + 1
    BY <1>1, <1>2, <1>6, <2>2, AppendCounts DEF Received, d
  <2>4. \A k \in Kinds : Received(s)'.seen[k] =
          Received(s).seen[k] + (IF d /\ k = inflight[s].kind THEN 1 ELSE 0)
    BY <1>1, <1>2, <1>6, <2>2, AppendCounts DEF Received, d
  <2>5. /\ Received(s).count = tally[s].count
        /\ \A k \in Kinds : Received(s).seen[k] = tally[s].seen[k]
    BY <1>1, <1>5, CountsAgree DEF BaseInv
  <2>6. Counted(s)'
    BY <1>3, <2>1, <2>3, <2>4, <2>5 DEF Counted, Ahead, d
  <2>7. (IsReceive(inflight[s].frame)
          /\ inflight[s].kind = Discriminate(inflight[s].frame.receive))'
    BY <1>3, <2>2 DEF f
  <2>8. ~Satisfied(until, tally[s].count, tally[s].seen)'
    BY <1>1, <1>3, <1>7 DEF CountInv, Listening
  <2>9. reports'[s] = Nil
    BY <1>1, <1>3, <1>7 DEF CountInv, Closing
  <2> QED
    BY <2>1, <2>6, <2>7, <2>8, <2>9 DEF CountInv, BeforeReset, SendingOnly, Listening, Closing
<1>8. CASE pc[s] = "commitUnsub"
  <2>1. pc'[s] = "saveUnsub"
    BY <1>1, <1>8 DEF Commit, Goto
  <2>2. ~IsReceive(f)
    BY <1>1, <1>8 DEF CountInv, f
  <2>3. Received(s)' = Received(s)
    BY <1>1, <1>2, <1>6, <2>2, AppendCounts DEF Received, d
  <2>4. Counted(s)'
    BY <1>3, <1>5, <2>1, <2>3 DEF Counted, Ahead
  <2>5. reports'[s] # Nil => Described(s)'
    BY <1>1, <1>3, <2>3 DEF CountInv, Described, Ended, ctxDone
  <2> QED
    BY <2>1, <2>4, <2>5 DEF CountInv, BeforeReset, SendingOnly, Listening, Closing
<1> QED
  BY <1>1, <1>7, <1>8

\* Save returned: the frame is counted, or the session fails.
LEMMA SaveFrameCounts ==
  ASSUME NEW s \in Sess, NEW ok \in BOOLEAN
  PROVE  BaseInv /\ TallyInv /\ SaveFrame(s, ok) => TallyInv'
<1> SUFFICES ASSUME BaseInv, TallyInv, SaveFrame(s, ok) PROVE CountInv(s)'
  BY OwnCounts DEF BaseInv, Acts
<1> DEFINE d == until.discriminator
           seen == [k \in Kinds |-> IF d /\ k = inflight[s].kind
                                      THEN tally[s].seen[k] + 1 ELSE tally[s].seen[k]]
<1>1. /\ pc \in [Sess -> PC] /\ CountInv(s) /\ tally \in [Sess -> Tally]
      /\ pc[s] = "saveFrame" /\ UNCHANGED <<until, frames, reports, expired, interrupted, readErr>>
  BY DEF BaseInv, IInv, TypeOK, TallyInv, SaveFrame, shared, world
<1>2. Counted(s) /\ Ahead(s) /\ reports[s] = Nil
  BY <1>1 DEF CountInv, Listening, Closing, Ahead
<1>3. CASE ok
  <2>1. pc'[s] = "listen"
    BY <1>1, <1>3 DEF SaveFrame, Goto
  <2>2. tally'[s].count = tally[s].count + 1 /\ tally'[s].seen = seen
    <3>1. tally' = [tally EXCEPT ![s].count = @ + 1, ![s].seen = seen]
      BY <1>3 DEF SaveFrame
    <3> HIDE DEF seen
    <3> QED
      BY <1>1, <3>1 DEF Tally
  <2>3. \A k \in Kinds : tally[s].seen[k] \in Nat
    BY <1>1 DEF Tally
  <2>4. /\ Received(s).count = tally[s].count + 1
        /\ \A k \in Kinds : Received(s).seen[k] =
             tally[s].seen[k] + (IF d /\ k = inflight[s].kind THEN 1 ELSE 0)
    BY <1>2 DEF Counted
  <2>5. tally[s].count \in Nat
    BY <1>1 DEF Tally
  <2>6. \A k \in Kinds : seen[k] =
          tally[s].seen[k] + (IF d /\ k = inflight[s].kind THEN 1 ELSE 0)
    BY <2>3
  <2>7. Received(s)' = Received(s)
    BY <1>1 DEF Received
  <2> HIDE DEF seen, d
  <2>8. /\ Received(s)'.count = tally'[s].count
        /\ \A k \in Kinds : Received(s)'.seen[k] = tally'[s].seen[k]
    BY <2>2, <2>4, <2>6, <2>7
  <2>9. Counted(s)'
    <3>1. tally'[s].count \in Int /\ \A k \in Kinds : tally'[s].seen[k] \in Int
      BY <2>2, <2>3, <2>5, <2>6
    <3> QED
      BY <2>1, <2>8, <3>1 DEF Counted, Ahead
  <2> QED
    BY <1>1, <1>2, <2>1, <2>9 DEF CountInv, BeforeReset, SendingOnly, Listening, Closing
<1>4. CASE ~ok
  <2>1. pc'[s] = "done" /\ UNCHANGED tally
    BY <1>1, <1>4 DEF SaveFrame, Fail
  <2> QED
    BY <1>1, <2>1, MoveCounts DEF Listening, Ended, ctxDone
<1> QED
  BY <1>3, <1>4

\* What close() records is sent, not received.
LEMMA UnsubCounts ==
  ASSUME NEW s \in Sess, NEW ok \in BOOLEAN
  PROVE  BaseInv /\ TallyInv /\ Unsub(s, ok) => TallyInv'
<1> SUFFICES ASSUME BaseInv, TallyInv, Unsub(s, ok) PROVE CountInv(s)'
  BY OwnCounts DEF BaseInv, Acts
<1> DEFINE u == Unsubscribe[s]
           x == [frame |-> MaskFrame(SendFrame(u)), kind |-> Nil]
<1>1. /\ pc \in [Sess -> PC] /\ inflight \in [Sess -> InFlight \cup {Nil}] /\ CountInv(s)
      /\ pc[s] = "unsub"
      /\ UNCHANGED <<until, frames, tally, reports, expired, interrupted, readErr>>
  BY DEF BaseInv, IInv, TypeOK, TallyInv, Unsub, shared, record
<1>2. \/ Goto(s, "close") /\ UNCHANGED inflight
      \/ u # Nil /\ Goto(s, "commitUnsub") /\ inflight' = [inflight EXCEPT ![s] = x]
  BY DEF Unsub
<1>3. CASE Goto(s, "close") /\ UNCHANGED inflight
  <2>1. pc'[s] = "close"
    BY <1>1, <1>3 DEF Goto
  <2> QED
    BY <1>1, <2>1, MoveCounts DEF Closing, Ended, ctxDone
<1>4. CASE u # Nil /\ Goto(s, "commitUnsub") /\ inflight' = [inflight EXCEPT ![s] = x]
  <2>1. pc'[s] = "commitUnsub"
    BY <1>1, <1>4 DEF Goto
  <2>2. inflight'[s] = x
    <3> HIDE DEF x
    <3> QED
      BY <1>1, <1>4
  <2>3. ~IsReceive(x.frame)
    <3>1. SendFrame(u) \in Frame /\ ~IsReceive(SendFrame(u))
      BY <1>4, UnsubscribeAssumption, SentFrameType DEF SendFrame, IsReceive
    <3> QED
      BY <3>1, MaskFrameType
  <2> HIDE DEF x
  <2>4. Counted(s)'
    BY <1>1, <2>1 DEF CountInv, Counted, Received, Ahead, Closing
  <2>5. reports'[s] # Nil => Described(s)'
    BY <1>1 DEF CountInv, Described, Received, Ended, ctxDone
  <2> QED
    BY <2>1, <2>2, <2>3, <2>4, <2>5 DEF CountInv, BeforeReset, SendingOnly, Listening, Closing
<1> QED
  BY <1>2, <1>3, <1>4

\* The steps that count nothing and report nothing.
LEMMA OtherCounts ==
  ASSUME NEW s \in Sess, NEW ok \in BOOLEAN, NEW how \in {"handshake", "broken", "grace"}
  PROVE  /\ BaseInv /\ TallyInv
         /\ \/ Dial(s, ok) \/ SaveReset(s, ok) \/ SaveUnsub(s, ok) \/ WriteClose(s, ok)
            \/ AwaitNothing(s) \/ AwaitAnswer(s, how)
         => TallyInv'
<1> DEFINE Moves == \/ Dial(s, ok) \/ SaveReset(s, ok) \/ SaveUnsub(s, ok) \/ WriteClose(s, ok)
                    \/ AwaitNothing(s) \/ AwaitAnswer(s, how)
<1> SUFFICES ASSUME BaseInv, TallyInv, Moves PROVE CountInv(s)'
  BY OwnCounts DEF BaseInv, Acts
<1>1. /\ pc \in [Sess -> PC] /\ CountInv(s)
      /\ UNCHANGED <<until, frames, tally, reports, expired, interrupted>>
  BY DEF BaseInv, IInv, TypeOK, TallyInv, Dial, SaveReset, SaveUnsub, WriteClose, AwaitNothing,
         AwaitAnswer, shared, record, world
<1>2. Ended(s) => Ended(s)'
  BY <1>1 DEF Dial, SaveReset, SaveUnsub, WriteClose, AwaitNothing, AwaitAnswer, world, Ended, ctxDone
<1>3. \/ pc[s] \in {"dial", "saveReset"} /\ pc'[s] \in {"reset", "send", "done"}
      \/ pc[s] \in {"saveUnsub", "close", "await"} /\ pc'[s] \in {"close", "await", "done"}
  BY <1>1 DEF Dial, SaveReset, SaveUnsub, WriteClose, AwaitNothing, AwaitAnswer, Goto, Fail
<1> QED
  BY <1>1, <1>2, <1>3, MoveCounts DEF BeforeReset, SendingOnly, Closing

\* Record's own steps, and those of the outside world.
LEMMA CallCounts == BaseInv /\ TallyInv /\ (Validate \/ Return \/ Outside) => TallyInv'
<1> SUFFICES ASSUME BaseInv, TallyInv, Validate \/ Return \/ Outside, NEW t \in Sess
             PROVE  CountInv(t)'
  BY DEF TallyInv
<1>1. /\ UNCHANGED <<until, frames, tally, inflight, reports>> /\ CountInv(t)
      /\ expired \in [Sess -> BOOLEAN]
  BY DEF BaseInv, IInv, TypeOK, TallyInv, Validate, Return, Outside, Panic, Expire, Interrupt,
         shared, record, local
<1>2. Ended(t) => Ended(t)'
  BY <1>1 DEF Validate, Return, Outside, Panic, Expire, Interrupt, world, Ended, ctxDone
<1>3. CASE UNCHANGED pc
  BY <1>1, <1>2, <1>3, UntouchedCounts DEF Untouched
<1>4. CASE Validate /\ pc' = [s \in Sess |-> "count"]
  <2>1. pc[t] = "idle" /\ pc'[t] = "count"
    BY <1>4 DEF Validate, BaseInv, IInv, ReadyInv
  <2> QED
    BY <1>1, <1>2, <2>1, MoveCounts DEF BeforeReset
<1> QED
  BY <1>3, <1>4 DEF Validate, Return, Outside, Panic, Expire, Interrupt, local

-----------------------------------------------------------------------------
LEMMA InitTally == Init => TallyInv
<1> SUFFICES ASSUME Init, NEW s \in Sess PROVE CountInv(s)
  BY DEF TallyInv
<1>1. pc[s] = "idle" /\ tally[s] = NoTally /\ reports[s] = Nil
  BY DEF Init, CallInit
<1> QED
  BY <1>1 DEF CountInv, NoTally, BeforeReset, SendingOnly, Listening, Closing

LEMMA NextTally ==
  ASSUME MaskedDiscriminator = FALSE
  PROVE  BaseInv /\ TallyInv /\ [Next]_vars => TallyInv'
<1> SUFFICES ASSUME BaseInv, TallyInv, [Next]_vars PROVE TallyInv'
  OBVIOUS
<1>0. CASE Finished \/ UNCHANGED vars
  <2>1. UNCHANGED vars
    BY <1>0 DEF Finished
  <2>2. \A t \in Sess : Untouched(t)
    BY <2>1 DEF vars, shared, record, local, world, Untouched, Ended, ctxDone
  <2> QED
    BY <2>2, UntouchedCounts DEF TallyInv
<1>1. CASE Validate \/ Return \/ Interrupt
  BY <1>1, CallCounts DEF Outside
<1>2. CASE \E s \in Sess : Step(s)
  <2>1. PICK s \in Sess : Step(s)
    BY <1>2
  <2>2. CASE Locking(s)
    BY <2>2, CountCounts, ResetCounts, CommitCounts DEF Locking
  <2>3. CASE Private(s)
    BY <2>3, ListenCounts, OtherCounts DEF Private
  <2>4. CASE ReadEnds(s)
    BY <2>4, ListenCounts, OtherCounts DEF ReadEnds
  <2>5. CASE Read(s)
    <3>1. CASE \E m \in Messages : Receive(s, m)
      BY <3>1, ReceiveCounts
    <3>2. CASE \E m \in Messages : Panic(s, m)
      BY <3>2, CallCounts DEF Outside
    <3>3. CASE ReadTimeout(s) \/ ReadFails(s)
      BY <3>3, ListenCounts
    <3>4. CASE \E how \in {"handshake", "broken"} : AwaitAnswer(s, how)
      BY <3>4, OtherCounts
    <3> QED
      BY <2>5, <3>1, <3>2, <3>3, <3>4 DEF Read
  <2>6. CASE Expire(s)
    BY <2>6, CallCounts DEF Outside
  <2>7. CASE \E ok \in BOOLEAN : Bounded(s, ok) \/ Write(s, ok)
    BY <2>7, OtherCounts, SendCounts, UnsubCounts DEF Bounded, Write
  <2> QED
    BY <2>1, <2>2, <2>3, <2>4, <2>5, <2>6, <2>7 DEF Step
<1>3. CASE \E s \in Sess, ok \in BOOLEAN : Saved(s, ok)
  BY <1>3, OtherCounts, SaveFrameCounts DEF Saved
<1> QED
  BY <1>0, <1>1, <1>2, <1>3 DEF Next

THEOREM TallyInductive == ASSUME MaskedDiscriminator = FALSE PROVE Spec => [](BaseInv /\ TallyInv)
<1>1. Init => TallyInv
  BY InitTally
<1>2. BaseInv /\ TallyInv /\ [Next]_vars => TallyInv'
  BY NextTally
<1>3. IInv /\ FramesInv => BaseInv
  BY DEF BaseInv
<1> QED
  BY <1>1, <1>2, <1>3, Inductive, FramesInductive, PTL DEF Spec

\* What listen decides by is what a count of the file would find, and so what a
\* rerun decides by (record.go:266-281, 317-318).
THEOREM TallyAgreesWithFile ==
  ASSUME MaskedDiscriminator = FALSE PROVE Spec => []TallyIsTheFile
<1>1. TallyInv => TallyIsTheFile
  <2> SUFFICES ASSUME TallyInv, NEW s \in Sess, pc[s] \in Listening \cup Closing,
                      NEW uncounted,
                      uncounted = IF pc[s] = "saveFrame" THEN inflight[s].kind ELSE Nil
               PROVE  /\ Received(s).count
                           = tally[s].count + (IF pc[s] = "saveFrame" THEN 1 ELSE 0)
                      /\ \A k \in Kinds : Received(s).seen[k] = tally[s].seen[k]
                           + (IF until.discriminator /\ k = uncounted THEN 1 ELSE 0)
    BY DEF TallyIsTheFile
  <2>1. Counted(s)
    BY DEF TallyInv, CountInv
  <2>2. \A k \in Kinds : k # Nil
    BY KindsAssumption
  <2> QED
    BY <2>1, <2>2 DEF Counted, Ahead
<1> QED
  BY <1>1, TallyInductive, PTL

\* What Record returns says what is in the file, for sessions it skipped and for
\* those it recorded (report.go:20-22; record.go:108, 141-144, 284-285).
THEOREM ReportsAreTrue ==
  ASSUME MaskedDiscriminator = FALSE PROVE Spec => []ReportsDescribeFrames
<1>1. TallyInv => ReportsDescribeFrames
  BY DEF TallyInv, CountInv, Described, ReportsDescribeFrames
<1> QED
  BY <1>1, TallyInductive, PTL

\* A session is reported short of its condition only when its context was done or
\* a read timed out, which a lost peer may cause as well as a quiet one; a server
\* that closes or resets the connection before that fails the session
\* (record.go:257-264, 391-396; until.go:19-21).
THEOREM ClosedFeedFails ==
  ASSUME MaskedDiscriminator = FALSE PROVE Spec => []ClosedFeedIsAnError
<1>1. TallyInv => ClosedFeedIsAnError
  BY DEF TallyInv, CountInv, Described, Ended, ClosedFeedIsAnError
<1> QED
  BY <1>1, TallyInductive, PTL

\* Only two things happen to the frames.
LEMMA FramesMove == [Next]_vars => UNCHANGED frames \/ \E t \in Sess : Reset(t) \/ Commit(t)
<1> SUFFICES ASSUME [Next]_vars
             PROVE  UNCHANGED frames \/ \E t \in Sess : Reset(t) \/ Commit(t)
  OBVIOUS
<1> DEFINE Moves == UNCHANGED frames \/ \E t \in Sess : Reset(t) \/ Commit(t)
<1>1. CASE Validate \/ Return \/ Interrupt \/ Finished \/ UNCHANGED vars
  BY <1>1 DEF Validate, Return, Interrupt, Finished, vars, shared
<1>2. ASSUME NEW t \in Sess, Step(t) PROVE Moves
  <2>1. CASE Locking(t)
    BY <2>1 DEF Locking, Count, shared
  <2>2. CASE Private(t) \/ ReadEnds(t)
    BY <2>2 DEF Private, ReadEnds, Check, AwaitNothing, AwaitAnswer, ReadTimeout, shared
  <2>3. CASE Read(t) \/ Expire(t)
    BY <2>3 DEF Read, Receive, Panic, ReadTimeout, ReadFails, AwaitAnswer, Expire, shared
  <2>4. CASE \E ok \in BOOLEAN : Bounded(t, ok) \/ Write(t, ok)
    BY <2>4 DEF Bounded, Write, Dial, WriteClose, Send, Unsub, shared
  <2> QED
    BY <1>2, <2>1, <2>2, <2>3, <2>4 DEF Step
<1>3. ASSUME NEW t \in Sess, NEW ok \in BOOLEAN, Saved(t, ok) PROVE UNCHANGED frames
  BY <1>3 DEF Saved, SaveReset, SaveFrame, SaveUnsub, shared
<1> HIDE DEF Moves
<1>4. UNCHANGED frames => Moves
  BY DEF Moves
<1>5. CASE Validate \/ Return \/ Interrupt \/ Finished \/ UNCHANGED vars
  BY <1>1, <1>4, <1>5 DEF Moves
<1>6. CASE \E t \in Sess : Step(t)
  BY <1>2, <1>6 DEF Moves
<1>7. CASE \E t \in Sess, ok \in BOOLEAN : Saved(t, ok)
  BY <1>3, <1>4, <1>7 DEF Moves
<1> QED
  BY <1>5, <1>6, <1>7 DEF Next

\* The recording stops with the frame that meets the condition: none is
\* received after it (until.go:16-17; record.go:244-247).
THEOREM RecordingStopsWhenMet ==
  ASSUME MaskedDiscriminator = FALSE PROVE Spec => StopsWhenMet
<1> DEFINE Grows(s) == /\ Recording(s)
                       /\ Len(frames'[s]) > Len(frames[s]) /\ IsReceive(Last(frames'[s]))
           Unmet(s) == ~Satisfied(until, Received(s).count, Received(s).seen)
<1>1. ASSUME BaseInv, TallyInv, NEW s \in Sess, Commit(s) PROVE Grows(s) => Unmet(s)
  <2> SUFFICES ASSUME Grows(s) PROVE Unmet(s)
    OBVIOUS
  <2> DEFINE f == inflight[s].frame
  <2>1. /\ frames \in [Sess -> Seq(Frame)] /\ IInv /\ call = "running" /\ CountInv(s)
        /\ pc[s] \in {"commit", "commitUnsub"}
    BY <1>1 DEF BaseInv, IInv, TypeOK, TallyInv, Commit
  <2>2. f \in Frame
    BY <2>1 DEF IInv, ReadyInv, InFlight, Committing
  <2>3. frames' = [frames EXCEPT ![s] = Append(frames[s], f)]
    BY <1>1, <2>1 DEF Commit
  <2>4. Last(frames'[s]) = f
    <3> HIDE DEF f
    <3>1. frames'[s] = Append(frames[s], f) /\ frames[s] \in Seq(Frame)
      BY <2>1, <2>3
    <3> QED
      BY <2>2, <3>1 DEF Last
  <2>5. pc[s] = "commit"
    BY <2>1, <2>4 DEF CountInv
  <2>6. ~Satisfied(until, tally[s].count, tally[s].seen) /\ Counted(s) /\ ~Ahead(s)
    BY <2>1, <2>5 DEF CountInv, Listening, Ahead
  <2> QED
    BY <2>1, <2>6, CountsAgree
<1>2. ASSUME BaseInv, [Next]_vars, NEW s \in Sess, ~Commit(s) PROVE ~Grows(s)
  <2>1. frames \in [Sess -> Seq(Frame)]
    BY <1>2 DEF BaseInv, IInv, TypeOK
  <2>2. UNCHANGED frames \/ \E t \in Sess : Reset(t) \/ Commit(t)
    BY <1>2, FramesMove
  <2>3. CASE UNCHANGED frames
    BY <2>1, <2>3
  <2>4. CASE \E t \in Sess : Reset(t) \/ Commit(t)
    <3>1. PICK t \in Sess : Reset(t) \/ Commit(t)
      BY <2>4
    <3>2. \E fs : frames' = [frames EXCEPT ![t] = fs]
      BY <3>1 DEF Reset, Commit
    <3>3. CASE t # s
      <4>1. frames'[s] = frames[s]
        BY <2>1, <3>2, <3>3
      <4> QED
        BY <2>1, <4>1
    <3>4. CASE t = s
      <4>1. pc[s] = "reset"
        BY <1>2, <3>1, <3>4 DEF Reset
      <4> QED
        BY <4>1 DEF Recording, Listening, Closing
    <3> QED
      BY <3>3, <3>4
  <2> QED
    BY <2>2, <2>3, <2>4
<1>3. BaseInv /\ TallyInv /\ [Next]_vars =>
        [\A s \in Sess :
           Recording(s) /\ Len(frames'[s]) > Len(frames[s]) /\ IsReceive(Last(frames'[s]))
             => ~Satisfied(until, Received(s).count, Received(s).seen)]_vars
  BY <1>1, <1>2
<1> HIDE DEF Grows, Unmet
<1> QED
  BY <1>3, TallyInductive, PTL DEF Spec, StopsWhenMet

=============================================================================
