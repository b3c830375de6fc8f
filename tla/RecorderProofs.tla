---------------------------- MODULE RecorderProofs --------------------------
(***************************************************************************)
(* What holds of Recorder.Record for any number of sessions, any recorded  *)
(* frames, any stop condition and any messages.                            *)
(***************************************************************************)
EXTENDS RecorderProps, FramesProofs

Committing == {"commit", "saveFrame", "commitUnsub", "saveUnsub"}
SendingOnly == {"saveReset", "send"}

\* What the parts of session() rely on and do not check: Until was validated,
\* there is a frame to commit, and what the send loop plays are send frames.
ReadyInv ==
  /\ call = "validate" => \A s \in Sess : pc[s] = "idle"
  /\ call = "running" => until \in UntilType
  /\ \A s \in Sess : pc[s] \in Committing => inflight[s] \in InFlight
  /\ \A s \in Sess : pc[s] \in SendingOnly =>
       \A i \in DOMAIN frames[s] : IsSend(frames[s][i])

IInv == TypeOK /\ SavesSerialised /\ ReadyInv

-----------------------------------------------------------------------------
LEMMA NewReportType ==
  ASSUME NEW u \in UntilType, NEW count \in Nat, NEW seen \in [Kinds -> Nat],
         NEW n \in Nat, NEW b \in BOOLEAN
  PROVE  /\ NewSessionReport(u, count, seen) \in Report
         /\ [NewSessionReport(u, count, seen) EXCEPT !.notJSON = n] \in Report
         /\ [NewSessionReport(u, count, seen) EXCEPT !.skipped = b] \in Report
<1> DEFINE r == NewSessionReport(u, count, seen)
<1>1. u.messages \in Int /\ u.kinds \in [Kinds -> Int \cup {Nil}] /\ u.discriminator \in BOOLEAN
  BY DEF UntilType
<1>2. ASSUME NEW k \in Kinds
      PROVE  (IF k \in KindsAsked(u) /\ seen[k] < u.kinds[k] THEN u.kinds[k] - seen[k] ELSE 0)
               \in Nat
  <2>1. k \in KindsAsked(u) => u.kinds[k] \in Int
    BY <1>1 DEF KindsAsked
  <2> QED
    BY <2>1
<1>3. r.missing \in [Kinds -> Nat]
  BY <1>2 DEF NewSessionReport
<1>4. (IF count < u.messages THEN u.messages - count ELSE 0) \in Nat
  BY <1>1
<1>5. r \in Report
  BY <1>2, <1>4 DEF NewSessionReport, Report
<1> QED
  BY <1>5 DEF Report

\* Masking a session's frames in place leaves as many frames, in the same directions.
LEMMA MaskInPlaceType ==
  ASSUME NEW fs \in Seq(Frame)
  PROVE  /\ MaskInPlace(fs) \in Seq(Frame)
         /\ DOMAIN MaskInPlace(fs) = DOMAIN fs
         /\ \A k \in DOMAIN fs : IsSend(MaskInPlace(fs)[k]) <=> IsSend(fs[k])
<1>1. \A k \in DOMAIN fs : fs[k] \in Frame
  OBVIOUS
<1>2. \A k \in DOMAIN fs : MaskInPlace(fs)[k] \in {fs[k], MaskFrame(fs[k])}
  BY DEF MaskInPlace
<1>3. \A k \in DOMAIN fs : /\ MaskInPlace(fs)[k] \in Frame
                           /\ IsSend(MaskInPlace(fs)[k]) <=> IsSend(fs[k])
  BY <1>1, <1>2, MaskFrameType
<1>4. DOMAIN MaskInPlace(fs) = DOMAIN fs
  BY DEF MaskInPlace
<1>5. MaskInPlace(fs) \in [1..Len(fs) -> Frame]
  BY <1>3, <1>4 DEF MaskInPlace
<1> QED
  BY <1>3, <1>4, <1>5

LEMMA ReceivedFrameType ==
  ASSUME NEW m \in Message, NEW t \in Nat
  PROVE  /\ ReceiveFrame(t, PayloadOf(m)) \in Frame
         /\ Discriminate(ReceiveFrame(t, PayloadOf(m)).receive) \in Kinds \cup {Nil}
BY PayloadOfType, DiscriminateType DEF ReceiveFrame, Frame

LEMMA SentFrameType ==
  ASSUME NEW p \in Payload
  PROVE  SendFrame(p) \in Frame
BY DEF SendFrame, Frame

-----------------------------------------------------------------------------
LEMMA InitIInv == Init => IInv
<1> SUFFICES ASSUME Init PROVE IInv
  OBVIOUS
<1> USE DEF Init, CallInit
<1>1. NoTally \in Tally
  BY DEF NoTally, Tally
<1>2. frames \in [Sess -> Seq(Frame)] /\ uri \in [Sess -> URI] /\ until \in UntilType \cup {Nil}
  BY StartAssumption, UntilsAssumption
<1>3. /\ pc \in [Sess -> PC] /\ next \in [Sess -> Nat \ {0}] /\ tally \in [Sess -> Tally]
      /\ result \in Result /\ inflight \in [Sess -> InFlight \cup {Nil}]
      /\ reports \in [Sess -> Report \cup {Nil}]
  BY <1>1 DEF PC, Result
<1>4. wire \in [Sess -> Seq(WireItem)]
  OBVIOUS
<1>5. TypeOK
  BY <1>2, <1>3, <1>4 DEF TypeOK
<1>6. SavesSerialised
  <2>1. \A s \in Sess : s # Nil
    BY NilAssumption, NSessionsAssumption DEF Sess
  <2> QED
    BY <2>1 DEF SavesSerialised, Saving
<1>7. ReadyInv
  BY DEF ReadyInv, Committing, SendingOnly
<1> QED
  BY <1>5, <1>6, <1>7 DEF IInv

LEMMA StutterIInv == IInv /\ UNCHANGED vars => IInv'
BY DEF IInv, TypeOK, SavesSerialised, ReadyInv, vars, shared, record, local, world

LEMMA ValidateIInv == IInv /\ Validate => IInv'
<1> SUFFICES ASSUME IInv, Validate PROVE IInv'
  OBVIOUS
<1>1. CASE ValidCall
  <2>1. /\ call' = "running" /\ pc' = [s \in Sess |-> "count"] /\ UNCHANGED result
        /\ until \in UntilType
    BY <1>1 DEF Validate, ValidCall, IInv, TypeOK
  <2>2. TypeOK'
    BY <2>1 DEF IInv, TypeOK, Validate, shared, world, PC
  <2>3. SavesSerialised'
    BY <2>1 DEF IInv, SavesSerialised, ReadyInv, Validate, Saving
  <2>4. ReadyInv'
    BY <2>1 DEF ReadyInv, Validate, Committing, SendingOnly
  <2> QED
    BY <2>2, <2>3, <2>4 DEF IInv
<1>2. CASE ~ValidCall
  <2>1. /\ call' = "returned" /\ UNCHANGED pc
        /\ result' = [result EXCEPT !.outcome = "rejected"]
    BY <1>2 DEF Validate
  <2>2. result' \in Result
    BY <2>1 DEF IInv, TypeOK, Result
  <2>3. TypeOK'
    BY <2>1, <2>2 DEF IInv, TypeOK, Validate, shared, world
  <2>4. SavesSerialised' /\ ReadyInv'
    BY <2>1 DEF IInv, SavesSerialised, ReadyInv, Validate, shared, Committing, SendingOnly
  <2> QED
    BY <2>3, <2>4 DEF IInv
<1> QED
  BY <1>1, <1>2

LEMMA CountIInv == ASSUME NEW s \in Sess PROVE IInv /\ Count(s) => IInv'
<1> SUFFICES ASSUME IInv, Count(s) PROVE IInv'
  OBVIOUS
<1> DEFINE had == CountReceived(frames[s], until.discriminator)
<1>1. until \in UntilType /\ until.discriminator \in BOOLEAN /\ frames[s] \in Seq(Frame)
  BY DEF IInv, TypeOK, ReadyInv, Count, UntilType
<1>2. [NewSessionReport(until, had.count, had.seen) EXCEPT !.skipped = TRUE] \in Report
  BY <1>1, CountReceivedType, NewReportType
<1>3. reports' \in [Sess -> Report \cup {Nil}]
  BY <1>2 DEF IInv, TypeOK, Count
<1>4. pc' \in [Sess -> PC] /\ failed' = failed
      /\ pc'[s] \in {"done", "dial"} /\ \A t \in Sess \ {s} : pc'[t] = pc[t]
  BY DEF IInv, TypeOK, Count, Goto, PC
<1>5. TypeOK'
  BY <1>3, <1>4 DEF IInv, TypeOK, Count, shared, record, world
<1>6. SavesSerialised'
  BY <1>4 DEF IInv, SavesSerialised, Count, record, Saving
<1>7. ReadyInv'
  BY <1>4 DEF IInv, ReadyInv, Count, record, shared, Committing, SendingOnly
<1> QED
  BY <1>5, <1>6, <1>7 DEF IInv

LEMMA DialIInv == ASSUME NEW s \in Sess, NEW ok \in BOOLEAN PROVE IInv /\ Dial(s, ok) => IInv'
<1> SUFFICES ASSUME IInv, Dial(s, ok) PROVE IInv'
  OBVIOUS
<1>1. /\ pc' \in [Sess -> PC] /\ failed' \in [Sess -> BOOLEAN] /\ pc[s] = "dial"
      /\ pc'[s] \in {"done", "reset"} /\ \A t \in Sess \ {s} : pc'[t] = pc[t]
  BY DEF IInv, TypeOK, Dial, Goto, Fail, PC
<1>2. TypeOK'
  BY <1>1 DEF IInv, TypeOK, Dial, shared, record, world
<1>3. SavesSerialised'
  BY <1>1 DEF IInv, SavesSerialised, Dial, record, Saving
<1>4. ReadyInv'
  BY <1>1 DEF IInv, ReadyInv, Dial, record, shared, Committing, SendingOnly
<1> QED
  BY <1>2, <1>3, <1>4 DEF IInv

LEMMA ResetIInv == ASSUME NEW s \in Sess PROVE IInv /\ Reset(s) => IInv'
<1> SUFFICES ASSUME IInv, Reset(s) PROVE IInv'
  OBVIOUS
<1> DEFINE kept == Sends(frames[s])
<1>1. frames[s] \in Seq(Frame) /\ frames \in [Sess -> Seq(Frame)]
  BY DEF IInv, TypeOK
<1>2. kept \in Seq(Frame) /\ \A k \in DOMAIN kept : IsSend(kept[k])
  BY <1>1, SendsType
<1>3. MaskInPlace(kept) \in Seq(Frame)
      /\ \A k \in DOMAIN MaskInPlace(kept) : IsSend(MaskInPlace(kept)[k])
  BY <1>2, MaskInPlaceType
<1>4. frames' = [frames EXCEPT ![s] = MaskInPlace(kept)]
  BY DEF Reset
<1>5. frames' \in [Sess -> Seq(Frame)]
      /\ \A k \in DOMAIN frames'[s] : IsSend(frames'[s][k])
      /\ \A t \in Sess \ {s} : frames'[t] = frames[t]
  BY <1>1, <1>3, <1>4
<1>6. uri' \in [Sess -> URI]
  BY DEF IInv, TypeOK, Reset, MaskURI, URI
<1>7. /\ pc' \in [Sess -> PC] /\ failed' \in [Sess -> BOOLEAN] /\ mu = Nil /\ pc[s] = "reset"
      /\ \/ pc'[s] = "done" /\ mu' = mu
         \/ pc'[s] = "saveReset" /\ mu' = s
      /\ \A t \in Sess \ {s} : pc'[t] = pc[t]
  <2>1. /\ mu = Nil /\ pc[s] = "reset"
        /\ (Fail(s) /\ mu' = mu) \/ (Goto(s, "saveReset") /\ mu' = s)
    BY DEF Reset, MuFree
  <2> QED
    BY <2>1 DEF IInv, TypeOK, Goto, Fail, PC
<1>8. TypeOK'
  BY <1>5, <1>6, <1>7 DEF IInv, TypeOK, Reset, world
<1>9. SavesSerialised'
  BY <1>7, NilAssumption DEF IInv, SavesSerialised, Saving, Sess
<1>10. ReadyInv'
  BY <1>5, <1>7 DEF IInv, ReadyInv, Reset, Committing, SendingOnly
<1> QED
  BY <1>8, <1>9, <1>10 DEF IInv

LEMMA SaveResetIInv ==
  ASSUME NEW s \in Sess, NEW ok \in BOOLEAN PROVE IInv /\ SaveReset(s, ok) => IInv'
<1> SUFFICES ASSUME IInv, SaveReset(s, ok) PROVE IInv'
  OBVIOUS
<1>1. /\ pc' \in [Sess -> PC] /\ failed' \in [Sess -> BOOLEAN] /\ mu' = Nil
      /\ pc[s] = "saveReset" /\ pc'[s] \in {"send", "done"}
      /\ \A t \in Sess \ {s} : pc'[t] = pc[t]
  BY DEF IInv, TypeOK, SaveReset, Goto, Fail, PC, Unlock
<1>2. TypeOK'
  BY <1>1 DEF IInv, TypeOK, SaveReset, shared, world
<1>3. SavesSerialised'
  BY <1>1, NilAssumption, NSessionsAssumption DEF IInv, SavesSerialised, Saving, Sess
<1>4. ReadyInv'
  BY <1>1 DEF IInv, ReadyInv, SaveReset, shared, Committing, SendingOnly
<1> QED
  BY <1>2, <1>3, <1>4 DEF IInv

LEMMA SendIInv == ASSUME NEW s \in Sess, NEW ok \in BOOLEAN PROVE IInv /\ Send(s, ok) => IInv'
<1> SUFFICES ASSUME IInv, Send(s, ok) PROVE IInv'
  OBVIOUS
<1>1. /\ pc' \in [Sess -> PC] /\ failed' \in [Sess -> BOOLEAN] /\ pc[s] = "send"
      /\ pc'[s] \in {"send", "listen", "done"} /\ \A t \in Sess \ {s} : pc'[t] = pc[t]
  <2>1. pc[s] = "send" /\ (Goto(s, "listen") \/ Goto(s, "send") \/ Fail(s))
    BY Zenon DEF Send
  <2> QED
    BY <2>1 DEF IInv, TypeOK, Goto, Fail, PC
<1>2. frames[s] \in Seq(Frame) /\ next[s] \in Nat \ {0} /\ next \in [Sess -> Nat \ {0}]
      /\ wire \in [Sess -> Seq(WireItem)]
  BY DEF IInv, TypeOK
<1>3. next' \in [Sess -> Nat \ {0}]
  <2>1. next' = next \/ \E n \in {next[s], next[s] + 1} : next' = [next EXCEPT ![s] = n]
    BY DEF Send
  <2>2. next[s] + 1 \in Nat \ {0}
    BY <1>2
  <2>3. \A n \in {next[s], next[s] + 1} : [next EXCEPT ![s] = n] \in [Sess -> Nat \ {0}]
    BY <1>2, <2>2
  <2> QED
    BY <1>2, <2>1, <2>3
<1>4. wire' \in [Sess -> Seq(WireItem)]
  <2>1. CASE next[s] > Len(frames[s])
    BY <1>2, <2>1 DEF Send
  <2>2. CASE ~ (next[s] > Len(frames[s]))
    <3>1. next[s] \in DOMAIN frames[s]
      BY <1>2, <2>2
    <3>2. frames[s][next[s]] \in Frame /\ IsSend(frames[s][next[s]])
      BY <1>1, <1>2, <3>1 DEF IInv, ReadyInv, SendingOnly
    <3>3. SentPayload(s) \in Payload
      BY <3>2 DEF SentPayload, Frame, IsSend
    <3>4. [type |-> "sent", data |-> SentPayload(s)] \in WireItem
      BY <3>3 DEF WireItem
    <3>5. Append(wire[s], [type |-> "sent", data |-> SentPayload(s)]) \in Seq(WireItem)
      BY <1>2, <3>4
    <3> QED
      BY <1>2, <2>2, <3>5 DEF Send
  <2> QED
    BY <2>1, <2>2
<1>5. TypeOK'
  BY <1>1, <1>3, <1>4 DEF IInv, TypeOK, Send, shared, record
<1>6. SavesSerialised'
  BY <1>1 DEF IInv, SavesSerialised, Send, record, Saving
<1>7. ReadyInv'
  BY <1>1 DEF IInv, ReadyInv, Send, record, shared, Committing, SendingOnly
<1> QED
  BY <1>5, <1>6, <1>7 DEF IInv

\* What the three ways out of listen have in common.
LEMMA EndListenType ==
  ASSUME NEW s \in Sess, IInv, call = "running", EndListen(s)
  PROVE  /\ reports' \in [Sess -> Report \cup {Nil}]
         /\ pc' \in [Sess -> PC] /\ UNCHANGED failed
         /\ pc'[s] = "unsub" /\ \A t \in Sess \ {s} : pc'[t] = pc[t]
<1>1. until \in UntilType /\ tally[s] \in Tally
  BY DEF IInv, TypeOK, ReadyInv
<1>2. /\ tally[s].count \in Nat /\ tally[s].seen \in [Kinds -> Nat] /\ tally[s].notJSON \in Nat
  BY <1>1 DEF Tally
<1>3. [NewSessionReport(until, tally[s].count, tally[s].seen)
         EXCEPT !.notJSON = tally[s].notJSON] \in Report
  BY <1>1, <1>2, NewReportType
<1>4. reports' \in [Sess -> Report \cup {Nil}]
  BY <1>3 DEF EndListen, IInv, TypeOK
<1> QED
  BY <1>4 DEF EndListen, Goto, IInv, TypeOK, PC

LEMMA CheckIInv == ASSUME NEW s \in Sess PROVE IInv /\ Check(s) => IInv'
<1> SUFFICES ASSUME IInv, Check(s) PROVE IInv'
  OBVIOUS
<1>1. /\ pc' \in [Sess -> PC] /\ UNCHANGED failed /\ reports' \in [Sess -> Report \cup {Nil}]
      /\ pc[s] = "listen" /\ pc'[s] \in {"unsub", "read"}
      /\ \A t \in Sess \ {s} : pc'[t] = pc[t]
  <2>1. CASE StopListening(s)
    BY <2>1, EndListenType DEF Check
  <2>2. CASE ~StopListening(s)
    BY <2>2 DEF Check, Goto, IInv, TypeOK, PC
  <2> QED
    BY <2>1, <2>2
<1>2. TypeOK'
  BY <1>1 DEF IInv, TypeOK, Check, shared, record, world
<1>3. SavesSerialised'
  BY <1>1 DEF IInv, SavesSerialised, Check, record, Saving
<1>4. ReadyInv'
  BY <1>1 DEF IInv, ReadyInv, Check, record, shared, Committing, SendingOnly
<1> QED
  BY <1>2, <1>3, <1>4 DEF IInv

LEMMA ReceiveIInv == ASSUME NEW s \in Sess, NEW m \in Messages PROVE IInv /\ Receive(s, m) => IInv'
<1> SUFFICES ASSUME IInv, Receive(s, m) PROVE IInv'
  OBVIOUS
<1> DEFINE f == ReceiveFrame(epoch, PayloadOf(m))
           x == [frame |-> MaskFrame(f), kind |-> Discriminate(f.receive)]
<1>1. m \in Message /\ epoch \in Nat
  BY MessagesAssumption DEF IInv, TypeOK
<1>2. x \in InFlight
  <2>1. f \in Frame /\ Discriminate(f.receive) \in Kinds \cup {Nil}
    BY <1>1, ReceivedFrameType
  <2>2. MaskFrame(f) \in Frame
    BY <2>1, MaskFrameType
  <2> QED
    BY <2>1, <2>2 DEF InFlight
<1>3. inflight \in [Sess -> InFlight \cup {Nil}] /\ tally \in [Sess -> Tally]
  BY DEF IInv, TypeOK
<1>4. tally' \in [Sess -> Tally]
  <2>1. tally' = [tally EXCEPT ![s].notJSON = IF IsJSON(m) THEN @ ELSE @ + 1]
    BY DEF Receive
  <2> QED
    BY <1>3, <2>1 DEF Tally
<1>5. /\ pc' \in [Sess -> PC] /\ failed' \in [Sess -> BOOLEAN] /\ pc[s] = "read"
      /\ inflight' \in [Sess -> InFlight \cup {Nil}]
      /\ \/ pc'[s] = "done"
         \/ pc'[s] = "commit" /\ inflight'[s] \in InFlight
      /\ \A t \in Sess \ {s} : pc'[t] = pc[t] /\ inflight'[t] = inflight[t]
  <2>1. /\ pc[s] = "read"
        /\ \/ Fail(s) /\ UNCHANGED inflight
           \/ Goto(s, "commit") /\ inflight' = [inflight EXCEPT ![s] = x]
    BY DEF Receive
  <2> HIDE DEF x
  <2>2. CASE Fail(s) /\ UNCHANGED inflight
    BY <1>3, <2>1, <2>2 DEF IInv, TypeOK, Fail, PC
  <2>3. CASE Goto(s, "commit") /\ inflight' = [inflight EXCEPT ![s] = x]
    <3>1. inflight' \in [Sess -> InFlight \cup {Nil}] /\ inflight'[s] = x
          /\ \A t \in Sess \ {s} : inflight'[t] = inflight[t]
      BY <1>2, <1>3, <2>3
    <3> QED
      BY <1>2, <2>1, <2>3, <3>1 DEF IInv, TypeOK, Goto, PC
  <2> QED
    BY <2>1, <2>2, <2>3
<1>6. wire' \in [Sess -> Seq(WireItem)]
  <2> DEFINE item == [type |-> "read", data |-> PayloadOf(m)]
  <2>1. wire \in [Sess -> Seq(WireItem)] /\ wire' = [wire EXCEPT ![s] = Append(wire[s], item)]
    BY DEF IInv, TypeOK, Receive
  <2>2. item \in WireItem
    BY <1>1, PayloadOfType DEF WireItem
  <2> HIDE DEF item
  <2>3. Append(wire[s], item) \in Seq(WireItem)
    BY <2>1, <2>2
  <2> QED
    BY <2>1, <2>3
<1>7. TypeOK'
  BY <1>4, <1>5, <1>6 DEF IInv, TypeOK, Receive, shared, record
<1>8. SavesSerialised'
  BY <1>5 DEF IInv, SavesSerialised, Receive, record, Saving
<1>9. ReadyInv'
  BY <1>5 DEF IInv, ReadyInv, Receive, record, shared, Committing, SendingOnly
<1> QED
  BY <1>7, <1>8, <1>9 DEF IInv

LEMMA PanicIInv == ASSUME NEW s \in Sess, NEW m \in Messages PROVE IInv /\ Panic(s, m) => IInv'
BY DEF IInv, TypeOK, SavesSerialised, ReadyInv, Panic, shared, local, world

LEMMA ReadTimeoutIInv == ASSUME NEW s \in Sess PROVE IInv /\ ReadTimeout(s) => IInv'
<1> SUFFICES ASSUME IInv, ReadTimeout(s) PROVE IInv'
  OBVIOUS
<1>1. /\ pc' \in [Sess -> PC] /\ UNCHANGED failed /\ reports' \in [Sess -> Report \cup {Nil}]
      /\ pc[s] = "read" /\ pc'[s] = "unsub" /\ \A t \in Sess \ {s} : pc'[t] = pc[t]
  BY EndListenType DEF ReadTimeout
<1>2. readErr' \in [Sess -> {"none", "timeout", "broken"}]
  BY DEF IInv, TypeOK, ReadTimeout
<1>3. TypeOK'
  BY <1>1, <1>2 DEF IInv, TypeOK, ReadTimeout, shared, record
<1>4. SavesSerialised'
  BY <1>1 DEF IInv, SavesSerialised, ReadTimeout, record, Saving
<1>5. ReadyInv'
  BY <1>1 DEF IInv, ReadyInv, ReadTimeout, record, shared, Committing, SendingOnly
<1> QED
  BY <1>3, <1>4, <1>5 DEF IInv

LEMMA ReadFailsIInv == ASSUME NEW s \in Sess PROVE IInv /\ ReadFails(s) => IInv'
<1> SUFFICES ASSUME IInv, ReadFails(s) PROVE IInv'
  OBVIOUS
<1>1. /\ pc' \in [Sess -> PC] /\ failed' \in [Sess -> BOOLEAN]
      /\ reports' \in [Sess -> Report \cup {Nil}]
      /\ pc[s] = "read" /\ pc'[s] \in {"unsub", "done"} /\ \A t \in Sess \ {s} : pc'[t] = pc[t]
  <2>1. CASE ctxDone(s)
    <3>1. EndListen(s) /\ call = "running" /\ pc[s] = "read"
      BY <2>1 DEF ReadFails
    <3> QED
      BY <3>1, EndListenType DEF IInv, TypeOK
  <2>2. CASE ~ctxDone(s)
    BY <2>2 DEF ReadFails, Fail, IInv, TypeOK, PC
  <2> QED
    BY <2>1, <2>2
<1>2. readErr' \in [Sess -> {"none", "timeout", "broken"}]
  BY DEF IInv, TypeOK, ReadFails
<1>3. TypeOK'
  BY <1>1, <1>2 DEF IInv, TypeOK, ReadFails, shared, record
<1>4. SavesSerialised'
  BY <1>1 DEF IInv, SavesSerialised, ReadFails, record, Saving
<1>5. ReadyInv'
  BY <1>1 DEF IInv, ReadyInv, ReadFails, record, shared, Committing, SendingOnly
<1> QED
  BY <1>3, <1>4, <1>5 DEF IInv

LEMMA CommitIInv == ASSUME NEW s \in Sess PROVE IInv /\ Commit(s) => IInv'
<1> SUFFICES ASSUME IInv, Commit(s) PROVE IInv'
  OBVIOUS
<1>1. inflight[s] \in InFlight /\ inflight[s].frame \in Frame /\ frames[s] \in Seq(Frame)
      /\ frames \in [Sess -> Seq(Frame)]
  BY DEF IInv, TypeOK, ReadyInv, Commit, Committing, InFlight
<1>2. Append(frames[s], inflight[s].frame) \in Seq(Frame)
  BY <1>1
<1>3. frames' \in [Sess -> Seq(Frame)] /\ \A t \in Sess \ {s} : frames'[t] = frames[t]
  BY <1>1, <1>2 DEF Commit
<1>4. /\ pc' \in [Sess -> PC] /\ UNCHANGED failed /\ mu = Nil /\ mu' = s
      /\ pc[s] \in {"commit", "commitUnsub"} /\ pc'[s] \in {"saveFrame", "saveUnsub"}
      /\ \A t \in Sess \ {s} : pc'[t] = pc[t]
  BY DEF IInv, TypeOK, Commit, Goto, PC, MuFree
<1>5. TypeOK'
  BY <1>3, <1>4 DEF IInv, TypeOK, Commit, world
<1>6. SavesSerialised'
  BY <1>4, NilAssumption DEF IInv, SavesSerialised, Saving, Sess
<1>7. ReadyInv'
  BY <1>1, <1>3, <1>4 DEF IInv, ReadyInv, Commit, Committing, SendingOnly
<1> QED
  BY <1>5, <1>6, <1>7 DEF IInv

LEMMA SaveFrameIInv ==
  ASSUME NEW s \in Sess, NEW ok \in BOOLEAN PROVE IInv /\ SaveFrame(s, ok) => IInv'
<1> SUFFICES ASSUME IInv, SaveFrame(s, ok) PROVE IInv'
  OBVIOUS
<1>1. /\ pc' \in [Sess -> PC] /\ failed' \in [Sess -> BOOLEAN] /\ mu' = Nil
      /\ pc[s] = "saveFrame" /\ pc'[s] \in {"listen", "done"}
      /\ \A t \in Sess \ {s} : pc'[t] = pc[t]
  BY DEF IInv, TypeOK, SaveFrame, Goto, Fail, PC, Unlock
<1>2. inflight' \in [Sess -> InFlight \cup {Nil}]
      /\ \A t \in Sess \ {s} : inflight'[t] = inflight[t]
  BY DEF IInv, TypeOK, SaveFrame
<1>3. tally' \in [Sess -> Tally]
  <2> DEFINE seen == [k \in Kinds |-> IF until.discriminator /\ k = inflight[s].kind
                                      THEN tally[s].seen[k] + 1 ELSE tally[s].seen[k]]
  <2>1. tally[s] \in Tally /\ tally \in [Sess -> Tally]
    BY DEF IInv, TypeOK
  <2>2. seen \in [Kinds -> Nat]
    BY <2>1 DEF Tally
  <2>3. CASE ~ok
    BY <2>1, <2>3 DEF SaveFrame
  <2>4. CASE ok
    <3>1. tally' = [tally EXCEPT ![s].count = @ + 1, ![s].seen = seen]
      BY <2>4 DEF SaveFrame
    <3> HIDE DEF seen
    <3> DEFINE n == tally[s].count + 1
               y == [tally[s] EXCEPT !.count = n, !.seen = seen]
    <3>2. y \in Tally
      <4>1. n \in Nat
        BY <2>1 DEF Tally
      <4> HIDE DEF n
      <4> QED
        BY <2>1, <2>2, <4>1 DEF Tally
    <3>3. tally' = [tally EXCEPT ![s] = y]
      BY <2>1, <3>1 DEF Tally
    <3> HIDE DEF y
    <3> QED
      BY <2>1, <3>2, <3>3
  <2> QED
    BY <2>3, <2>4
<1>4. TypeOK'
  BY <1>1, <1>2, <1>3 DEF IInv, TypeOK, SaveFrame, shared, world
<1>5. SavesSerialised'
  BY <1>1, NilAssumption, NSessionsAssumption DEF IInv, SavesSerialised, Saving, Sess
<1>6. ReadyInv'
  BY <1>1, <1>2 DEF IInv, ReadyInv, SaveFrame, shared, Committing, SendingOnly
<1> QED
  BY <1>4, <1>5, <1>6 DEF IInv

LEMMA UnsubIInv == ASSUME NEW s \in Sess, NEW ok \in BOOLEAN PROVE IInv /\ Unsub(s, ok) => IInv'
<1> SUFFICES ASSUME IInv, Unsub(s, ok) PROVE IInv'
  OBVIOUS
<1> DEFINE u == Unsubscribe[s]
           x == [frame |-> MaskFrame(SendFrame(u)), kind |-> Nil]
<1>1. inflight \in [Sess -> InFlight \cup {Nil}] /\ wire \in [Sess -> Seq(WireItem)]
  BY DEF IInv, TypeOK
<1>2. u # Nil => u \in Payload
  BY UnsubscribeAssumption
<1>3. u # Nil => x \in InFlight
  <2>1. u # Nil => MaskFrame(SendFrame(u)) \in Frame
    BY <1>2, SentFrameType, MaskFrameType
  <2> QED
    BY <2>1 DEF InFlight
<1>4. pc[s] = "unsub"
      /\ \/ Goto(s, "close") /\ UNCHANGED inflight
         \/ u # Nil /\ Goto(s, "commitUnsub") /\ inflight' = [inflight EXCEPT ![s] = x]
  BY DEF Unsub
<1>5. /\ pc' \in [Sess -> PC] /\ UNCHANGED failed
      /\ inflight' \in [Sess -> InFlight \cup {Nil}]
      /\ \/ pc'[s] = "close"
         \/ pc'[s] = "commitUnsub" /\ inflight'[s] \in InFlight
      /\ \A t \in Sess \ {s} : pc'[t] = pc[t] /\ inflight'[t] = inflight[t]
  <2> HIDE DEF x, u
  <2>1. CASE Goto(s, "close") /\ UNCHANGED inflight
    BY <1>1, <2>1 DEF IInv, TypeOK, Goto, PC
  <2>2. CASE u # Nil /\ Goto(s, "commitUnsub") /\ inflight' = [inflight EXCEPT ![s] = x]
    <3>1. inflight' \in [Sess -> InFlight \cup {Nil}] /\ inflight'[s] = x
          /\ \A t \in Sess \ {s} : inflight'[t] = inflight[t]
      BY <1>1, <1>3, <2>2
    <3> QED
      BY <1>3, <2>2, <3>1 DEF IInv, TypeOK, Goto, PC
  <2> QED
    BY <1>4, <2>1, <2>2
<1>6. wire' \in [Sess -> Seq(WireItem)]
  <2>1. u # Nil => [type |-> "sent", data |-> u] \in WireItem
    BY <1>2 DEF WireItem
  <2>2. u # Nil => Append(wire[s], [type |-> "sent", data |-> u]) \in Seq(WireItem)
    BY <1>1, <2>1
  <2> QED
    BY <1>1, <2>2 DEF Unsub
<1>7. TypeOK'
  BY <1>5, <1>6 DEF IInv, TypeOK, Unsub, shared, record
<1>8. SavesSerialised'
  BY <1>4, <1>5 DEF IInv, SavesSerialised, Unsub, record, Saving
<1>9. ReadyInv'
  BY <1>5 DEF IInv, ReadyInv, Unsub, record, shared, Committing, SendingOnly
<1> QED
  BY <1>7, <1>8, <1>9 DEF IInv

LEMMA SaveUnsubIInv ==
  ASSUME NEW s \in Sess, NEW ok \in BOOLEAN PROVE IInv /\ SaveUnsub(s, ok) => IInv'
<1> SUFFICES ASSUME IInv, SaveUnsub(s, ok) PROVE IInv'
  OBVIOUS
<1>1. /\ pc' \in [Sess -> PC] /\ UNCHANGED failed /\ mu' = Nil
      /\ pc[s] = "saveUnsub" /\ pc'[s] = "close"
      /\ \A t \in Sess \ {s} : pc'[t] = pc[t] /\ inflight'[t] = inflight[t]
      /\ inflight' \in [Sess -> InFlight \cup {Nil}]
  BY DEF IInv, TypeOK, SaveUnsub, Goto, PC, Unlock
<1>2. TypeOK'
  BY <1>1 DEF IInv, TypeOK, SaveUnsub, shared, world
<1>3. SavesSerialised'
  BY <1>1, NilAssumption, NSessionsAssumption DEF IInv, SavesSerialised, Saving, Sess
<1>4. ReadyInv'
  BY <1>1 DEF IInv, ReadyInv, SaveUnsub, shared, Committing, SendingOnly
<1> QED
  BY <1>2, <1>3, <1>4 DEF IInv

LEMMA WriteCloseIInv ==
  ASSUME NEW s \in Sess, NEW ok \in BOOLEAN PROVE IInv /\ WriteClose(s, ok) => IInv'
<1> SUFFICES ASSUME IInv, WriteClose(s, ok) PROVE IInv'
  OBVIOUS
<1>1. /\ pc' \in [Sess -> PC] /\ UNCHANGED failed /\ pc[s] = "close" /\ pc'[s] = "await"
      /\ \A t \in Sess \ {s} : pc'[t] = pc[t]
  BY DEF IInv, TypeOK, WriteClose, Goto, PC
<1>2. wire' \in [Sess -> Seq(WireItem)]
  <2>1. wire \in [Sess -> Seq(WireItem)] /\ [type |-> "close", data |-> Nil] \in WireItem
    BY DEF IInv, TypeOK, WireItem
  <2>2. Append(wire[s], [type |-> "close", data |-> Nil]) \in Seq(WireItem)
    BY <2>1
  <2> QED
    BY <2>1, <2>2 DEF WriteClose
<1>3. TypeOK'
  BY <1>1, <1>2 DEF IInv, TypeOK, WriteClose, shared, record
<1>4. SavesSerialised'
  BY <1>1 DEF IInv, SavesSerialised, WriteClose, record, Saving
<1>5. ReadyInv'
  BY <1>1 DEF IInv, ReadyInv, WriteClose, record, shared, Committing, SendingOnly
<1> QED
  BY <1>3, <1>4, <1>5 DEF IInv

\* The wait for the handshake, however it ends.
LEMMA AwaitIInv ==
  ASSUME NEW s \in Sess, NEW how \in {"handshake", "broken", "grace"}
  PROVE  IInv /\ (AwaitNothing(s) \/ AwaitAnswer(s, how)) => IInv'
<1> SUFFICES ASSUME IInv, AwaitNothing(s) \/ AwaitAnswer(s, how) PROVE IInv'
  OBVIOUS
<1>1. /\ pc' \in [Sess -> PC] /\ UNCHANGED failed /\ pc[s] = "await" /\ pc'[s] = "done"
      /\ \A t \in Sess \ {s} : pc'[t] = pc[t]
  BY DEF IInv, TypeOK, AwaitNothing, AwaitAnswer, Goto, PC
<1>2. readErr' \in [Sess -> {"none", "timeout", "broken"}]
  BY DEF IInv, TypeOK, AwaitNothing, AwaitAnswer
<1>3. TypeOK'
  BY <1>1, <1>2 DEF IInv, TypeOK, AwaitNothing, AwaitAnswer, shared, record
<1>4. SavesSerialised'
  BY <1>1 DEF IInv, SavesSerialised, AwaitNothing, AwaitAnswer, record, Saving
<1>5. ReadyInv'
  BY <1>1 DEF IInv, ReadyInv, AwaitNothing, AwaitAnswer, record, shared, Committing, SendingOnly
<1> QED
  BY <1>3, <1>4, <1>5 DEF IInv

LEMMA ExpireIInv == ASSUME NEW s \in Sess PROVE IInv /\ Expire(s) => IInv'
BY DEF IInv, TypeOK, SavesSerialised, ReadyInv, Expire, shared, record, local

LEMMA InterruptIInv == IInv /\ Interrupt => IInv'
BY DEF IInv, TypeOK, SavesSerialised, ReadyInv, Interrupt, shared, record, local

LEMMA ReturnIInv == IInv /\ Return => IInv'
<1> SUFFICES ASSUME IInv, Return PROVE IInv'
  OBVIOUS
<1>1. failed \in [Sess -> BOOLEAN] /\ Sess \in SUBSET Nat
  BY NSessionsAssumption DEF IInv, TypeOK, Sess
<1>2. ASSUME \E s \in Sess : failed[s]
      PROVE  (CHOOSE s \in Sess : failed[s] /\ \A t \in 1..(s - 1) : ~failed[t]) \in Sess
  <2> DEFINE F == {s \in Sess : failed[s]}
  <2>1. F \in SUBSET Nat /\ F # {}
    BY <1>1, <1>2
  <2>2. PICK n \in F : \A m \in F : n <= m
    <3> HIDE DEF F
    <3> QED
      BY <2>1, LeastElement
  <2>3. n \in Sess /\ failed[n] /\ \A m \in Sess : failed[m] => n <= m
    BY <2>2
  <2>4. \A t \in 1..(n - 1) : t \in Sess /\ ~ (n <= t)
    BY <2>3, NSessionsAssumption DEF Sess
  <2>5. failed[n] /\ \A t \in 1..(n - 1) : ~failed[t]
    BY <2>3, <2>4
  <2> QED
    BY <2>3, <2>5
<1>3. result' \in Result
  BY <1>2 DEF Return, Result
<1>4. TypeOK'
  BY <1>3 DEF IInv, TypeOK, Return, shared, local, world
<1>5. SavesSerialised' /\ ReadyInv'
  BY DEF IInv, SavesSerialised, ReadyInv, Return, shared, local, Committing, SendingOnly
<1> QED
  BY <1>4, <1>5 DEF IInv

-----------------------------------------------------------------------------
LEMMA StepIInv == ASSUME NEW s \in Sess PROVE IInv /\ Step(s) => IInv'
<1> SUFFICES ASSUME IInv, Step(s) PROVE IInv'
  OBVIOUS
<1>1. CASE Locking(s)
  BY <1>1, CountIInv, ResetIInv, CommitIInv DEF Locking
<1>2. CASE Private(s)
  BY <1>2, CheckIInv, AwaitIInv DEF Private
<1>3. CASE ReadEnds(s)
  BY <1>3, ReadTimeoutIInv, AwaitIInv DEF ReadEnds
<1>4. CASE Read(s)
  BY <1>4, ReceiveIInv, PanicIInv, ReadTimeoutIInv, ReadFailsIInv, AwaitIInv DEF Read
<1>5. CASE Expire(s)
  BY <1>5, ExpireIInv
<1>6. CASE \E ok \in BOOLEAN : Bounded(s, ok) \/ Write(s, ok)
  BY <1>6, DialIInv, WriteCloseIInv, SendIInv, UnsubIInv DEF Bounded, Write
<1> QED
  BY <1>1, <1>2, <1>3, <1>4, <1>5, <1>6 DEF Step

LEMMA NextIInv == IInv /\ [Next]_vars => IInv'
<1> SUFFICES ASSUME IInv, [Next]_vars PROVE IInv'
  OBVIOUS
<1>1. CASE Validate
  BY <1>1, ValidateIInv
<1>2. CASE Return
  BY <1>2, ReturnIInv
<1>3. CASE Interrupt
  BY <1>3, InterruptIInv
<1>4. CASE Finished \/ UNCHANGED vars
  BY <1>4, StutterIInv DEF Finished
<1>5. CASE \E s \in Sess : Step(s)
  BY <1>5, StepIInv
<1>6. CASE \E s \in Sess, ok \in BOOLEAN : Saved(s, ok)
  BY <1>6, SaveResetIInv, SaveFrameIInv, SaveUnsubIInv DEF Saved
<1> QED
  BY <1>1, <1>2, <1>3, <1>4, <1>5, <1>6 DEF Next

\* The inductive invariant (record.go:51-101): types, the mutex, and what each
\* part of session() relies on.
THEOREM Inductive == Spec => []IInv
<1>1. Init => IInv
  BY InitIInv
<1>2. IInv /\ [Next]_vars => IInv'
  BY NextIInv
<1> QED
  BY <1>1, <1>2, PTL DEF Spec

\* Every variable always holds a value of its type, so no count is ever negative
\* and no goroutine commits a frame it does not have (record.go:135-315).
THEOREM TypeCorrect == Spec => []TypeOK
<1>1. IInv => TypeOK
  BY DEF IInv
<1> QED
  BY <1>1, Inductive, PTL

\* Save is never entered twice at the same time, and only by the holder of mu,
\* for any number of sessions (record.go:45-47, 79).
THEOREM SavesAreSerialised == Spec => []SavesSerialised
<1>1. IInv => SavesSerialised
  BY DEF IInv
<1> QED
  BY <1>1, Inductive, PTL

-----------------------------------------------------------------------------
(***************************************************************************)
(* The wire                                                                *)
(***************************************************************************)
Item(type, p) == [type |-> type, data |-> p]
Items == {"sent", "read"}

\* What was written and read is the frames kept, one for one.
Matched(items, fs, u) ==
  /\ Len(items) = Len(fs)
  /\ \A i \in DOMAIN fs : items[i].type \in Items /\ KeptAs(items[i], fs[i], u)

\* The same, and one item more.
OneAhead(items, fs, u) ==
  /\ Len(items) = Len(fs) + 1
  /\ \A i \in DOMAIN fs : items[i].type \in Items /\ KeptAs(items[i], fs[i], u)
  /\ items[Len(fs) + 1].type \in Items

\* The one more is an unsubscribe the masker refuses.
Refused(items, fs, u) ==
  /\ OneAhead(items, fs, u)
  /\ items[Len(fs) + 1] = Item("sent", u) /\ MaskRefuses(u)

\* What CrossedInOrder says of a session that has nothing to write or to commit.
Crossed(items, fs, u) ==
  LET crossed == {i \in DOMAIN items : items[i].type # "close"} IN
    /\ DOMAIN items \ crossed \subseteq {Len(items)}
    /\ \A i \in crossed \cap DOMAIN fs : KeptAs(items[i], fs[i], u)
    /\ DOMAIN fs \subseteq crossed
    /\ \A i \in crossed \ DOMAIN fs :
         i = Len(fs) + 1 /\ items[i] = Item("sent", u) /\ MaskRefuses(u)

\* What each part of session() leaves of wire and frames to the next.
WireFact(label, n, items, fs, report, x, u) ==
  /\ label \in BeforeReset \cup SendingOnly \cup Listening => report = Nil
  /\ label \in BeforeReset \cup {"saveReset"} => items = <<>> /\ n = 1
  /\ label \in SendingOnly => /\ Len(items) = n - 1 /\ n - 1 <= Len(fs)
                              /\ \A i \in DOMAIN items : items[i] = Item("sent", fs[i].send)
  /\ label \in {"listen", "read", "saveFrame", "unsub", "saveUnsub"} => Matched(items, fs, u)
  /\ label \in {"commit", "commitUnsub"} =>
       OneAhead(items, fs, u) /\ KeptAs(items[Len(fs) + 1], x.frame, u)
  /\ label = "close" => Matched(items, fs, u) \/ Refused(items, fs, u)
  /\ label = "await" \/ (label = "done" /\ report # Nil /\ ~report.skipped) =>
       Crossed(items, fs, u)

WireOf(s) == WireFact(pc[s], next[s], wire[s], frames[s], reports[s], inflight[s], Unsubscribe[s])
WireInv == \A s \in Sess : WireOf(s)

\* One item more, of any kind but a Close.
LEMMA ItemAhead ==
  ASSUME NEW fs \in Seq(Frame), NEW items \in Seq(WireItem), NEW u, NEW item \in WireItem,
         Matched(items, fs, u), item.type \in Items
  PROVE  LET more == Append(items, item)
         IN  OneAhead(more, fs, u) /\ more[Len(fs) + 1] = item
<1> DEFINE more == Append(items, item)
<1>1. /\ Len(more) = Len(fs) + 1 /\ more[Len(fs) + 1] = item
      /\ \A i \in DOMAIN fs : more[i] = items[i]
  BY DEF Matched
<1> HIDE DEF more
<1>2. OneAhead(more, fs, u)
  BY <1>1 DEF Matched, OneAhead
<1> QED
  BY <1>1, <1>2 DEF more

\* The item is matched again when its frame is appended.
LEMMA AheadMatched ==
  ASSUME NEW fs \in Seq(Frame), NEW items \in Seq(WireItem), NEW u, NEW f \in Frame,
         OneAhead(items, fs, u), KeptAs(items[Len(fs) + 1], f, u)
  PROVE  Matched(items, Append(fs, f), u)
<1> DEFINE more == Append(fs, f)
<1>1. /\ Len(more) = Len(fs) + 1 /\ more[Len(fs) + 1] = f /\ Len(fs) \in Nat
      /\ \A i \in DOMAIN more : i \in DOMAIN fs \/ i = Len(fs) + 1
      /\ \A i \in DOMAIN fs : more[i] = fs[i]
  OBVIOUS
<1> HIDE DEF more
<1>2. Matched(items, more, u)
  BY <1>1 DEF Matched, OneAhead
<1> QED
  BY <1>2 DEF more

\* A Close at the end, or none, takes nothing away.
LEMMA ClosedCrossed ==
  ASSUME NEW fs \in Seq(Frame), NEW items \in Seq(WireItem), NEW u,
         Matched(items, fs, u) \/ Refused(items, fs, u)
  PROVE  Crossed(items, fs, u) /\ Crossed(Append(items, Item("close", Nil)), fs, u)
<1> DEFINE close == Item("close", Nil)
           more == Append(items, close)
<1>1. close \in WireItem /\ close.type = "close"
  BY DEF Item, WireItem
<1> HIDE DEF close
<1>2. /\ Len(items) \in Nat /\ DOMAIN items = 1..Len(items)
      /\ Len(fs) \in Nat /\ DOMAIN fs = 1..Len(fs)
      /\ DOMAIN more = 1..(Len(items) + 1) /\ Len(more) = Len(items) + 1
      /\ more[Len(items) + 1] = close /\ \A i \in DOMAIN items : more[i] = items[i]
  BY <1>1
<1> HIDE DEF more
<1>3. /\ \A i \in DOMAIN fs : i \in DOMAIN items /\ KeptAs(items[i], fs[i], u)
      /\ \A i \in DOMAIN items \ DOMAIN fs :
           i = Len(fs) + 1 /\ items[i] = Item("sent", u) /\ MaskRefuses(u)
      /\ \A i \in DOMAIN items : items[i].type # "close"
  <2>1. CASE Matched(items, fs, u)
    BY <1>2, <2>1 DEF Matched, Items
  <2>2. CASE Refused(items, fs, u)
    <3>1. \A i \in DOMAIN items : i \in DOMAIN fs \/ i = Len(fs) + 1
      BY <1>2, <2>2 DEF Refused, OneAhead
    <3> QED
      BY <1>2, <2>2, <3>1 DEF Refused, OneAhead, Items
  <2> QED
    BY <2>1, <2>2
<1>4. Crossed(items, fs, u)
  BY <1>3 DEF Crossed
<1>5. {i \in DOMAIN more : more[i].type # "close"} = DOMAIN items
  <2>1. \A i \in DOMAIN more : i \in DOMAIN items \/ i = Len(items) + 1
    BY <1>2
  <2>2. \A i \in DOMAIN items : i \in DOMAIN more
    BY <1>2
  <2> QED
    BY <1>1, <1>2, <1>3, <2>1, <2>2
<1>6. DOMAIN more \ DOMAIN items \subseteq {Len(more)}
  BY <1>2
<1>7. Crossed(more, fs, u)
  BY <1>2, <1>3, <1>5, <1>6 DEF Crossed
<1> QED
  BY <1>4, <1>7 DEF more, close

\* A goroutine's step leaves the others' wires alone.
LEMMA OthersKeep ==
  ASSUME NEW s \in Sess, WireInv, WireOf(s)',
         \A t \in Sess \ {s} :
           /\ pc'[t] = pc[t] /\ next'[t] = next[t] /\ wire'[t] = wire[t]
           /\ frames'[t] = frames[t] /\ reports'[t] = reports[t] /\ inflight'[t] = inflight[t]
  PROVE  WireInv'
<1>1. ASSUME NEW t \in Sess, t # s PROVE WireOf(t)'
  <2>1. WireOf(t)
    BY DEF WireInv
  <2> QED
    BY <1>1, <2>1 DEF WireOf
<1> QED
  BY <1>1 DEF WireInv

LEMMA InitWire == Init => WireInv
BY DEF Init, CallInit, WireInv, WireOf, WireFact, BeforeReset, SendingOnly, Listening

LEMMA StillWire ==
  ASSUME WireInv, UNCHANGED <<pc, next, wire, frames, reports, inflight>> PROVE WireInv'
BY DEF WireInv, WireOf

LEMMA ValidateWire == ASSUME IInv, WireInv, Validate PROVE WireInv'
<1>1. UNCHANGED <<next, wire, frames, reports, inflight>>
  BY DEF Validate, shared, world
<1>2. CASE UNCHANGED pc
  BY <1>1, <1>2, StillWire
<1>3. CASE pc' = [s \in Sess |-> "count"]
  <2>1. \A s \in Sess : pc[s] = "idle" /\ pc'[s] = "count"
    BY <1>3 DEF IInv, ReadyInv, Validate
  <2> QED
    BY <1>1, <2>1 DEF WireInv, WireOf, WireFact, BeforeReset, SendingOnly, Listening
<1> QED
  BY <1>2, <1>3 DEF Validate

LEMMA CountWire == ASSUME NEW s \in Sess, IInv, WireInv, Count(s) PROVE WireInv'
<1> DEFINE had == CountReceived(frames[s], until.discriminator)
           r == [NewSessionReport(until, had.count, had.seen) EXCEPT !.skipped = TRUE]
<1>1. r.skipped = TRUE
  BY DEF NewSessionReport
<1>2. /\ UNCHANGED <<next, wire, frames, inflight>> /\ pc[s] = "count"
      /\ \/ Goto(s, "done") /\ reports' = [reports EXCEPT ![s] = r]
         \/ Goto(s, "dial") /\ UNCHANGED reports
  BY DEF Count, shared, world
<1> HIDE DEF r
<1>3. /\ \/ pc'[s] = "done" /\ reports'[s] = r
         \/ pc'[s] = "dial" /\ reports'[s] = reports[s]
      /\ \A t \in Sess \ {s} : pc'[t] = pc[t] /\ reports'[t] = reports[t]
  BY <1>2 DEF Goto, IInv, TypeOK
<1>4. WireOf(s)
  BY DEF WireInv
<1>5. WireOf(s)'
  BY <1>1, <1>2, <1>3, <1>4 DEF WireOf, WireFact, BeforeReset, SendingOnly, Listening
<1> QED
  BY <1>2, <1>3, <1>5, OthersKeep

\* Steps that end the session with an error, or go on with frames and wire as
\* they are, before anything is sent.
LEMMA DialWire == ASSUME NEW s \in Sess, NEW ok \in BOOLEAN, IInv, WireInv, Dial(s, ok) PROVE WireInv'
<1>1. /\ UNCHANGED <<next, wire, frames, inflight, reports>> /\ pc[s] = "dial"
      /\ pc'[s] \in {"done", "reset"} /\ \A t \in Sess \ {s} : pc'[t] = pc[t]
  BY DEF Dial, shared, world, Goto, Fail, IInv, TypeOK
<1>2. WireOf(s)
  BY DEF WireInv
<1>3. WireOf(s)'
  BY <1>1, <1>2 DEF WireOf, WireFact, BeforeReset, SendingOnly, Listening
<1> QED
  BY <1>1, <1>3, OthersKeep

LEMMA SaveResetWire ==
  ASSUME NEW s \in Sess, NEW ok \in BOOLEAN, IInv, WireInv, SaveReset(s, ok) PROVE WireInv'
<1>1. /\ UNCHANGED <<next, wire, frames, inflight, reports>> /\ pc[s] = "saveReset"
      /\ pc'[s] \in {"done", "send"} /\ \A t \in Sess \ {s} : pc'[t] = pc[t]
  BY DEF SaveReset, shared, world, Goto, Fail, IInv, TypeOK
<1>2. WireOf(s)
  BY DEF WireInv
<1>3. WireOf(s)'
  BY <1>1, <1>2 DEF WireOf, WireFact, BeforeReset, SendingOnly, Listening
<1> QED
  BY <1>1, <1>3, OthersKeep

\* Nothing was sent yet, whatever is discarded.
LEMMA ResetWire == ASSUME NEW s \in Sess, IInv, WireInv, Reset(s) PROVE WireInv'
<1> DEFINE new == MaskInPlace(Sends(frames[s]))
<1>1. frames \in [Sess -> Seq(Frame)] /\ new \in Seq(Frame)
  BY SendsType, MaskInPlaceType DEF IInv, TypeOK
<1>2. /\ UNCHANGED <<next, wire, inflight, reports>> /\ pc[s] = "reset"
      /\ frames' = [frames EXCEPT ![s] = new]
      /\ Fail(s) \/ Goto(s, "saveReset")
  BY DEF Reset, world
<1> HIDE DEF new
<1>3. /\ frames'[s] = new /\ \A t \in Sess \ {s} : frames'[t] = frames[t] /\ pc'[t] = pc[t]
      /\ pc'[s] \in {"done", "saveReset"}
  BY <1>1, <1>2 DEF Goto, Fail, IInv, TypeOK
<1>4. WireOf(s)
  BY DEF WireInv
<1>5. Len(new) \in Nat /\ Len(<<>>) = 0 /\ DOMAIN <<>> = {}
  BY <1>1
<1>6. WireOf(s)'
  BY <1>2, <1>3, <1>4, <1>5 DEF WireOf, WireFact, BeforeReset, SendingOnly, Listening
<1> QED
  BY <1>2, <1>3, <1>6, OthersKeep

LEMMA SendWire == ASSUME NEW s \in Sess, NEW ok \in BOOLEAN, IInv, WireInv, Send(s, ok) PROVE WireInv'
<1> DEFINE fs == frames[s]
           n == next[s]
           item == Item("sent", fs[n].send)
<1>1. /\ fs \in Seq(Frame) /\ n \in Nat \ {0} /\ wire[s] \in Seq(WireItem)
      /\ wire \in [Sess -> Seq(WireItem)] /\ next \in [Sess -> Nat \ {0}] /\ pc \in [Sess -> PC]
  BY DEF IInv, TypeOK
<1>2. /\ pc[s] = "send" /\ UNCHANGED <<frames, inflight, reports>>
      /\ \/ n > Len(fs) /\ Goto(s, "listen") /\ UNCHANGED <<next, wire>>
         \/ /\ ~(n > Len(fs)) /\ Goto(s, "send") /\ next' = [next EXCEPT ![s] = n + 1]
            /\ wire' = [wire EXCEPT ![s] = Append(wire[s], item)]
         \/ /\ Fail(s) /\ (next' = next \/ next' = [next EXCEPT ![s] = n])
            /\ (wire' = wire \/ wire' = [wire EXCEPT ![s] = wire[s]])
  BY DEF Send, SentPayload, shared, Item
<1>3. WireOf(s)
  BY DEF WireInv
<1>4. /\ reports[s] = Nil /\ Len(wire[s]) = n - 1 /\ n - 1 <= Len(fs)
      /\ \A i \in DOMAIN wire[s] : wire[s][i] = Item("sent", fs[i].send)
      /\ \A i \in DOMAIN fs : IsSend(fs[i])
  BY <1>2, <1>3 DEF WireOf, WireFact, IInv, ReadyInv, SendingOnly
<1> HIDE DEF fs, n, item
<1>5. CASE n > Len(fs) /\ Goto(s, "listen") /\ UNCHANGED <<next, wire>>
  <2>1. pc'[s] = "listen" /\ \A t \in Sess \ {s} : pc'[t] = pc[t]
    BY <1>1, <1>5 DEF Goto
  <2>2. Len(wire[s]) = Len(fs) /\ DOMAIN wire[s] = DOMAIN fs
    BY <1>1, <1>4, <1>5
  <2>3. Matched(wire[s], fs, Unsubscribe[s])
    <3>1. ASSUME NEW i \in DOMAIN fs
          PROVE  wire[s][i].type = "sent" /\ wire[s][i].data = fs[i].send
      <4>1. wire[s][i] = Item("sent", fs[i].send)
        BY <1>4, <2>2
      <4> QED
        BY <4>1 DEF Item
    <3> QED
      BY <1>4, <2>2, <3>1 DEF Matched, KeptAs, Items
  <2>4. WireOf(s)'
    BY <1>2, <1>4, <1>5, <2>1, <2>3 DEF WireOf, WireFact, BeforeReset, SendingOnly, Listening, fs
  <2> QED
    BY <1>2, <1>5, <2>1, <2>4, OthersKeep
<1>6. CASE /\ ~(n > Len(fs)) /\ Goto(s, "send") /\ next' = [next EXCEPT ![s] = n + 1]
           /\ wire' = [wire EXCEPT ![s] = Append(wire[s], item)]
  <2>1. /\ pc'[s] = "send" /\ next'[s] = n + 1 /\ wire'[s] = Append(wire[s], item)
        /\ \A t \in Sess \ {s} : pc'[t] = pc[t] /\ next'[t] = next[t] /\ wire'[t] = wire[t]
    BY <1>1, <1>6 DEF Goto
  <2>2. n \in DOMAIN fs /\ Len(wire[s]) + 1 = n
    BY <1>1, <1>4, <1>6
  <2>3. item \in WireItem
    <3>1. fs[n] \in Frame /\ IsSend(fs[n])
      BY <1>1, <1>4, <2>2
    <3> QED
      BY <3>1 DEF item, Item, WireItem, Frame, IsSend
  <2>4. /\ Len(wire'[s]) = n /\ wire'[s][n] = item /\ DOMAIN wire'[s] = 1..n
        /\ \A i \in DOMAIN wire[s] : wire'[s][i] = wire[s][i]
        /\ DOMAIN wire[s] = 1..(n - 1)
    BY <1>1, <1>4, <2>1, <2>2, <2>3
  <2>5. \A i \in DOMAIN wire'[s] : wire'[s][i] = Item("sent", fs[i].send)
    <3>1. \A i \in 1..n : i \in 1..(n - 1) \/ i = n
      BY <1>1
    <3> QED
      BY <1>4, <2>4, <3>1 DEF item
  <2>6. Len(wire'[s]) = (n + 1) - 1 /\ (n + 1) - 1 <= Len(fs)
    BY <1>1, <1>6, <2>4
  <2>7. WireOf(s)'
    BY <1>2, <1>4, <2>1, <2>5, <2>6 DEF WireOf, WireFact, BeforeReset, SendingOnly, Listening, fs
  <2> QED
    BY <1>2, <2>1, <2>7, OthersKeep
<1>7. CASE /\ Fail(s) /\ (next' = next \/ next' = [next EXCEPT ![s] = n])
           /\ (wire' = wire \/ wire' = [wire EXCEPT ![s] = wire[s]])
  <2>1. /\ pc'[s] = "done" /\ next'[s] = n /\ wire'[s] = wire[s]
        /\ \A t \in Sess \ {s} : pc'[t] = pc[t] /\ next'[t] = next[t] /\ wire'[t] = wire[t]
    BY <1>1, <1>7 DEF Fail, n
  <2>2. WireOf(s)'
    BY <1>2, <1>4, <2>1 DEF WireOf, WireFact, BeforeReset, SendingOnly, Listening
  <2> QED
    BY <1>2, <2>1, <2>2, OthersKeep
<1> QED
  BY <1>2, <1>5, <1>6, <1>7

\* A read that ends, and the look at the condition, add nothing to either side.
LEMMA ListenWire ==
  ASSUME NEW s \in Sess, IInv, WireInv, UNCHANGED <<next, wire, frames, inflight>>,
         \/ Check(s) \/ ReadTimeout(s) \/ ReadFails(s)
  PROVE  WireInv'
<1>1. /\ pc[s] \in {"listen", "read"}
      /\ \/ EndListen(s)
         \/ Goto(s, "read") /\ UNCHANGED reports
         \/ Fail(s) /\ UNCHANGED reports
  BY DEF Check, ReadTimeout, ReadFails
<1>2. /\ \/ pc'[s] = "unsub"
         \/ pc'[s] \in {"read", "done"} /\ reports'[s] = reports[s]
      /\ \A t \in Sess \ {s} : pc'[t] = pc[t] /\ reports'[t] = reports[t]
  BY <1>1 DEF EndListen, Goto, Fail, IInv, TypeOK
<1>3. WireOf(s)
  BY DEF WireInv
<1>4. WireOf(s)'
  BY <1>1, <1>2, <1>3 DEF WireOf, WireFact, BeforeReset, SendingOnly, Listening
<1> QED
  BY <1>2, <1>4, OthersKeep

\* What is read is the payload its frame is made from.
LEMMA ReceiveWire == ASSUME NEW s \in Sess, NEW m \in Messages, IInv, WireInv, Receive(s, m) PROVE WireInv'
<1> DEFINE p == PayloadOf(m)
           f == ReceiveFrame(epoch, p)
           x == [frame |-> MaskFrame(f), kind |-> Discriminate(f.receive)]
           item == Item("read", p)
           fs == frames[s]
           w == wire[s]
           more == Append(w, item)
<1>1. /\ wire \in [Sess -> Seq(WireItem)] /\ w \in Seq(WireItem) /\ fs \in Seq(Frame)
      /\ pc \in [Sess -> PC] /\ inflight \in [Sess -> InFlight \cup {Nil}]
      /\ m \in Message /\ epoch \in Nat
  BY MessagesAssumption DEF IInv, TypeOK
<1>2. item \in WireItem /\ item.type = "read" /\ item.data = p
  BY <1>1, PayloadOfType DEF Item, WireItem
<1>3. KeptAs(item, x.frame, Unsubscribe[s])
  <2>1. f \in Frame /\ IsReceive(f) /\ f.receive = p
    BY <1>1, PayloadOfType, ReceivedFrameType, NilAssumption DEF ReceiveFrame, IsReceive
  <2> HIDE DEF f
  <2>2. IsReceive(MaskFrame(f)) /\ MaskFrame(f).receive = MaskValue(p)
    BY <2>1, MaskFrameType, MaskFrameFields
  <2> HIDE DEF item
  <2> QED
    BY <1>2, <2>2 DEF KeptAs
<1>4. /\ UNCHANGED <<next, frames, reports>> /\ pc[s] = "read"
      /\ wire' = [wire EXCEPT ![s] = more]
      /\ \/ Fail(s) /\ UNCHANGED inflight
         \/ Goto(s, "commit") /\ inflight' = [inflight EXCEPT ![s] = x]
  BY DEF Receive, shared, Item
<1>5. WireOf(s)
  BY DEF WireInv
<1>6. Matched(w, fs, Unsubscribe[s]) /\ reports[s] = Nil
  BY <1>4, <1>5 DEF WireOf, WireFact, Listening
<1> HIDE DEF x, f, p, item, w, fs
<1>7. OneAhead(more, fs, Unsubscribe[s]) /\ more[Len(fs) + 1] = item
  BY <1>1, <1>2, <1>6, ItemAhead DEF Items
<1> HIDE DEF more
<1>8. /\ \/ pc'[s] = "done"
         \/ pc'[s] = "commit" /\ inflight'[s] = x
      /\ wire'[s] = more
      /\ \A t \in Sess \ {s} :
           pc'[t] = pc[t] /\ inflight'[t] = inflight[t] /\ wire'[t] = wire[t]
  BY <1>1, <1>4 DEF Goto, Fail
<1>9. WireOf(s)'
  BY <1>3, <1>4, <1>6, <1>7, <1>8 DEF WireOf, WireFact, BeforeReset, SendingOnly, Listening, fs
<1> QED
  BY <1>4, <1>8, <1>9, OthersKeep

\* The frame committed is that of the item it waited for.
LEMMA CommitWire == ASSUME NEW s \in Sess, IInv, WireInv, Commit(s) PROVE WireInv'
<1> DEFINE fs == frames[s]
           f == inflight[s].frame
           more == Append(fs, f)
           u == Unsubscribe[s]
           w == wire[s]
<1>1. fs \in Seq(Frame) /\ f \in Frame /\ w \in Seq(WireItem) /\ frames \in [Sess -> Seq(Frame)]
  BY DEF IInv, TypeOK, ReadyInv, Commit, Committing, InFlight
<1>2. /\ UNCHANGED <<next, wire, inflight, reports>> /\ frames' = [frames EXCEPT ![s] = more]
      /\ \/ pc[s] = "commit" /\ Goto(s, "saveFrame")
         \/ pc[s] = "commitUnsub" /\ Goto(s, "saveUnsub")
  BY DEF Commit, world
<1> HIDE DEF more
<1>3. /\ frames'[s] = more
      /\ \/ pc[s] = "commit" /\ pc'[s] = "saveFrame"
         \/ pc[s] = "commitUnsub" /\ pc'[s] = "saveUnsub"
      /\ \A t \in Sess \ {s} : pc'[t] = pc[t] /\ frames'[t] = frames[t]
  BY <1>1, <1>2 DEF Goto, IInv, TypeOK
<1>4. WireOf(s)
  BY DEF WireInv
<1>5. /\ OneAhead(w, fs, u) /\ KeptAs(w[Len(fs) + 1], f, u)
      /\ pc[s] = "commit" => reports[s] = Nil
  BY <1>3, <1>4 DEF WireOf, WireFact, Listening
<1> HIDE DEF fs, f, w, u
<1>6. Matched(w, more, u)
  BY <1>1, <1>5, AheadMatched DEF more
<1>7. WireOf(s)'
  BY <1>2, <1>3, <1>5, <1>6 DEF WireOf, WireFact, BeforeReset, SendingOnly, Listening, w, u
<1> QED
  BY <1>2, <1>3, <1>7, OthersKeep

LEMMA SaveFrameWire ==
  ASSUME NEW s \in Sess, NEW ok \in BOOLEAN, IInv, WireInv, SaveFrame(s, ok) PROVE WireInv'
<1>1. /\ UNCHANGED <<next, wire, frames, reports>> /\ pc[s] = "saveFrame"
      /\ pc'[s] \in {"done", "listen"}
      /\ \A t \in Sess \ {s} : pc'[t] = pc[t] /\ inflight'[t] = inflight[t]
  BY DEF SaveFrame, shared, world, Goto, Fail, IInv, TypeOK
<1>2. WireOf(s)
  BY DEF WireInv
<1>3. WireOf(s)'
  BY <1>1, <1>2 DEF WireOf, WireFact, BeforeReset, SendingOnly, Listening
<1> QED
  BY <1>1, <1>3, OthersKeep

\* The unsubscribe frame goes out as it is and is kept masked.
LEMMA UnsubWire == ASSUME NEW s \in Sess, NEW ok \in BOOLEAN, IInv, WireInv, Unsub(s, ok) PROVE WireInv'
<1> DEFINE u == Unsubscribe[s]
           fs == frames[s]
           w == wire[s]
           item == Item("sent", u)
           more == Append(w, item)
           x == [frame |-> MaskFrame(SendFrame(u)), kind |-> Nil]
<1>1. /\ wire \in [Sess -> Seq(WireItem)] /\ w \in Seq(WireItem) /\ fs \in Seq(Frame)
      /\ pc \in [Sess -> PC] /\ inflight \in [Sess -> InFlight \cup {Nil}]
  BY DEF IInv, TypeOK
<1>2. /\ UNCHANGED <<next, frames, reports>> /\ pc[s] = "unsub"
      /\ \/ Goto(s, "close") /\ UNCHANGED <<wire, inflight>>
         \/ /\ u # Nil /\ wire' = [wire EXCEPT ![s] = more]
            /\ \/ MaskRefuses(u) /\ Goto(s, "close") /\ UNCHANGED inflight
               \/ Goto(s, "commitUnsub") /\ inflight' = [inflight EXCEPT ![s] = x]
  BY DEF Unsub, shared, Item
<1>3. WireOf(s)
  BY DEF WireInv
<1>4. Matched(w, fs, u)
  BY <1>2, <1>3 DEF WireOf, WireFact
<1>5. u # Nil => /\ OneAhead(more, fs, u) /\ more[Len(fs) + 1] = item
                 /\ KeptAs(item, x.frame, u)
  <2> SUFFICES ASSUME u # Nil
               PROVE  /\ OneAhead(more, fs, u) /\ more[Len(fs) + 1] = item
                      /\ KeptAs(item, x.frame, u)
    OBVIOUS
  <2>1. u \in Payload
    BY UnsubscribeAssumption
  <2>2. item \in WireItem /\ item.type = "sent" /\ item.data = u
    BY <2>1 DEF Item, WireItem
  <2>3. SendFrame(u) \in Frame /\ IsSend(SendFrame(u)) /\ SendFrame(u).send = u
    BY <2>1, SentFrameType DEF SendFrame, IsSend
  <2>4. IsSend(x.frame) /\ x.frame.send = MaskValue(u)
    BY <2>3, MaskFrameType, MaskFrameFields
  <2> HIDE DEF w, fs, item, u, x
  <2>5. KeptAs(item, x.frame, u)
    BY <2>2, <2>4 DEF KeptAs
  <2> QED
    BY <1>1, <1>4, <2>2, <2>5, ItemAhead DEF Items
<1> HIDE DEF u, w, fs, more, x
<1>6. CASE Goto(s, "close") /\ UNCHANGED <<wire, inflight>>
  <2>1. pc'[s] = "close" /\ \A t \in Sess \ {s} : pc'[t] = pc[t]
    BY <1>1, <1>6 DEF Goto
  <2>2. WireOf(s)'
    BY <1>2, <1>4, <1>6, <2>1
       DEF WireOf, WireFact, BeforeReset, SendingOnly, Listening, w, fs, u
  <2> QED
    BY <1>2, <1>6, <2>1, <2>2, OthersKeep
<1>7. CASE /\ u # Nil /\ wire' = [wire EXCEPT ![s] = more]
           /\ MaskRefuses(u) /\ Goto(s, "close") /\ UNCHANGED inflight
  <2>1. /\ pc'[s] = "close" /\ wire'[s] = more
        /\ \A t \in Sess \ {s} : pc'[t] = pc[t] /\ wire'[t] = wire[t]
    BY <1>1, <1>7 DEF Goto
  <2>2. Refused(more, fs, u)
    BY <1>5, <1>7 DEF Refused
  <2>3. WireOf(s)'
    BY <1>2, <1>7, <2>1, <2>2
       DEF WireOf, WireFact, BeforeReset, SendingOnly, Listening, fs, u
  <2> QED
    BY <1>2, <1>7, <2>1, <2>3, OthersKeep
<1>8. CASE /\ u # Nil /\ wire' = [wire EXCEPT ![s] = more]
           /\ Goto(s, "commitUnsub") /\ inflight' = [inflight EXCEPT ![s] = x]
  <2>1. /\ pc'[s] = "commitUnsub" /\ wire'[s] = more /\ inflight'[s] = x
        /\ \A t \in Sess \ {s} :
             pc'[t] = pc[t] /\ wire'[t] = wire[t] /\ inflight'[t] = inflight[t]
    BY <1>1, <1>8 DEF Goto
  <2>2. WireOf(s)'
    BY <1>2, <1>5, <1>8, <2>1
       DEF WireOf, WireFact, BeforeReset, SendingOnly, Listening, fs, u
  <2> QED
    BY <1>2, <2>1, <2>2, OthersKeep
<1> QED
  BY <1>2, <1>6, <1>7, <1>8

LEMMA SaveUnsubWire ==
  ASSUME NEW s \in Sess, NEW ok \in BOOLEAN, IInv, WireInv, SaveUnsub(s, ok) PROVE WireInv'
<1>1. /\ UNCHANGED <<next, wire, frames, reports>> /\ pc[s] = "saveUnsub" /\ pc'[s] = "close"
      /\ \A t \in Sess \ {s} : pc'[t] = pc[t] /\ inflight'[t] = inflight[t]
  BY DEF SaveUnsub, shared, world, Goto, IInv, TypeOK
<1>2. WireOf(s)
  BY DEF WireInv
<1>3. WireOf(s)'
  BY <1>1, <1>2 DEF WireOf, WireFact, BeforeReset, SendingOnly, Listening
<1> QED
  BY <1>1, <1>3, OthersKeep

LEMMA WriteCloseWire ==
  ASSUME NEW s \in Sess, NEW ok \in BOOLEAN, IInv, WireInv, WriteClose(s, ok) PROVE WireInv'
<1> DEFINE u == Unsubscribe[s]
           fs == frames[s]
           w == wire[s]
           more == Append(w, Item("close", Nil))
<1>1. /\ wire \in [Sess -> Seq(WireItem)] /\ w \in Seq(WireItem) /\ fs \in Seq(Frame)
      /\ pc \in [Sess -> PC]
  BY DEF IInv, TypeOK
<1>2. /\ UNCHANGED <<next, frames, reports, inflight>> /\ pc[s] = "close" /\ Goto(s, "await")
      /\ wire' = [wire EXCEPT ![s] = w] \/ wire' = [wire EXCEPT ![s] = more]
  BY DEF WriteClose, shared, Item
<1>3. Matched(w, fs, u) \/ Refused(w, fs, u)
  BY <1>2 DEF WireInv, WireOf, WireFact
<1> HIDE DEF u, w, fs
<1>4. Crossed(w, fs, u) /\ Crossed(more, fs, u)
  BY <1>1, <1>3, ClosedCrossed
<1> HIDE DEF more
<1>5. /\ pc'[s] = "await" /\ wire'[s] \in {w, more}
      /\ \A t \in Sess \ {s} : pc'[t] = pc[t] /\ wire'[t] = wire[t]
  BY <1>1, <1>2 DEF Goto
<1>6. WireOf(s)'
  BY <1>2, <1>4, <1>5 DEF WireOf, WireFact, BeforeReset, SendingOnly, Listening, fs, u
<1> QED
  BY <1>2, <1>5, <1>6, OthersKeep

LEMMA AwaitWire ==
  ASSUME NEW s \in Sess, IInv, WireInv,
         AwaitNothing(s) \/ \E how \in {"handshake", "broken", "grace"} : AwaitAnswer(s, how)
  PROVE  WireInv'
<1>1. /\ UNCHANGED <<next, wire, frames, reports, inflight>>
      /\ pc[s] = "await" /\ pc'[s] = "done" /\ \A t \in Sess \ {s} : pc'[t] = pc[t]
  BY DEF AwaitNothing, AwaitAnswer, shared, Goto, IInv, TypeOK
<1>2. WireOf(s)
  BY DEF WireInv
<1>3. WireOf(s)'
  BY <1>1, <1>2 DEF WireOf, WireFact, BeforeReset, SendingOnly, Listening
<1> QED
  BY <1>1, <1>3, OthersKeep

LEMMA StepWire == ASSUME NEW s \in Sess, IInv, WireInv, Step(s) PROVE WireInv'
<1>1. CASE Locking(s)
  BY <1>1, CountWire, ResetWire, CommitWire DEF Locking
<1>2. CASE Private(s)
  <2>1. CASE Check(s)
    BY <2>1, ListenWire DEF Check, shared, world
  <2>2. CASE AwaitNothing(s)
    BY <2>2, AwaitWire
  <2> QED
    BY <1>2, <2>1, <2>2 DEF Private
<1>3. CASE ReadTimeout(s) \/ ReadFails(s)
  BY <1>3, ListenWire DEF ReadTimeout, ReadFails, shared
<1>4. CASE \E how \in {"handshake", "broken", "grace"} : AwaitAnswer(s, how)
  BY <1>4, AwaitWire
<1>5. ASSUME NEW m \in Messages, Receive(s, m) \/ Panic(s, m) PROVE WireInv'
  <2>1. CASE Receive(s, m)
    BY <2>1, ReceiveWire
  <2>2. CASE Panic(s, m)
    BY <2>2, StillWire DEF Panic, shared, local, world
  <2> QED
    BY <1>5, <2>1, <2>2
<1>6. CASE Expire(s)
  BY <1>6, StillWire DEF Expire, shared, local
<1>7. ASSUME NEW ok \in BOOLEAN, Bounded(s, ok) \/ Write(s, ok) PROVE WireInv'
  BY <1>7, DialWire, WriteCloseWire, SendWire, UnsubWire DEF Bounded, Write
<1> QED
  BY <1>1, <1>2, <1>3, <1>4, <1>5, <1>6, <1>7 DEF Step, ReadEnds, Read

LEMMA NextWire == IInv /\ WireInv /\ [Next]_vars => WireInv'
<1> SUFFICES ASSUME IInv, WireInv, [Next]_vars PROVE WireInv'
  OBVIOUS
<1>1. CASE Validate
  BY <1>1, ValidateWire
<1>2. CASE Return \/ Interrupt \/ Finished \/ UNCHANGED vars
  BY <1>2, StillWire DEF Return, Interrupt, Finished, vars, shared, record, local, world
<1>3. ASSUME NEW s \in Sess, Step(s) PROVE WireInv'
  BY <1>3, StepWire
<1>4. ASSUME NEW s \in Sess, NEW ok \in BOOLEAN, Saved(s, ok) PROVE WireInv'
  BY <1>4, SaveResetWire, SaveFrameWire, SaveUnsubWire DEF Saved
<1> QED
  BY <1>1, <1>2, <1>3, <1>4 DEF Next

LEMMA WireInOrder == IInv /\ WireInv => CrossedInOrder
<1> SUFFICES ASSUME IInv, WireInv, NEW s \in Sess, Recording(s)
             PROVE  LET crossed == {i \in DOMAIN wire[s] : wire[s][i].type # "close"}
                        kept == DOMAIN frames[s]
                    IN  /\ DOMAIN wire[s] \ crossed \subseteq {Len(wire[s])}
                        /\ \A i \in crossed \cap kept :
                             KeptAs(wire[s][i], frames[s][i], Unsubscribe[s])
                        /\ pc[s] \notin {"saveReset", "send"} => kept \subseteq crossed
                        /\ \A i \in crossed \ kept :
                             /\ i = Len(frames[s]) + 1
                             /\ \/ pc[s] \in {"commit", "commitUnsub"}
                                \/ /\ wire[s][i] = [type |-> "sent", data |-> Unsubscribe[s]]
                                   /\ MaskRefuses(Unsubscribe[s])
  BY DEF CrossedInOrder
<1> DEFINE fs == frames[s]
           w == wire[s]
           u == Unsubscribe[s]
           crossed == {i \in DOMAIN w : w[i].type # "close"}
<1>1. /\ fs \in Seq(Frame) /\ w \in Seq(WireItem) /\ next[s] \in Nat \ {0}
      /\ Len(fs) \in Nat /\ DOMAIN fs = 1..Len(fs) /\ Len(w) \in Nat /\ DOMAIN w = 1..Len(w)
  BY DEF IInv, TypeOK
<1>2. WireOf(s)
  BY DEF WireInv
<1>3. CASE pc[s] \in SendingOnly
  <2>1. /\ Len(w) = next[s] - 1 /\ next[s] - 1 <= Len(fs)
        /\ \A i \in DOMAIN w : w[i] = Item("sent", fs[i].send)
        /\ \A i \in DOMAIN fs : IsSend(fs[i])
    BY <1>2, <1>3 DEF WireOf, WireFact, IInv, ReadyInv
  <2> HIDE DEF fs, w, u
  <2>2. DOMAIN w \subseteq DOMAIN fs
    BY <1>1, <2>1
  <2>3. \A i \in DOMAIN w : w[i].type = "sent" /\ w[i].data = fs[i].send
    BY <2>1 DEF Item
  <2>4. crossed = DOMAIN w /\ \A i \in DOMAIN w : KeptAs(w[i], fs[i], u)
    BY <2>1, <2>2, <2>3 DEF KeptAs
  <2> QED
    BY <1>3, <2>2, <2>4 DEF SendingOnly, fs, w, u
<1>4. CASE pc[s] \in {"commit", "commitUnsub"}
  <2>1. OneAhead(w, fs, u)
    BY <1>2, <1>4 DEF WireOf, WireFact
  <2> HIDE DEF fs, w, u
  <2>2. \A i \in DOMAIN w : i \in DOMAIN fs \/ i = Len(fs) + 1
    BY <1>1, <2>1 DEF OneAhead
  <2>3. \A i \in DOMAIN fs : i \in DOMAIN w /\ KeptAs(w[i], fs[i], u)
    BY <1>1, <2>1 DEF OneAhead
  <2>4. crossed = DOMAIN w
    BY <2>1, <2>2 DEF OneAhead, Items
  <2> QED
    BY <1>4, <2>2, <2>3, <2>4 DEF fs, w, u
<1>5. ASSUME Crossed(w, fs, u)
      PROVE  /\ DOMAIN w \ crossed \subseteq {Len(w)}
             /\ \A i \in crossed \cap DOMAIN fs : KeptAs(w[i], fs[i], u)
             /\ DOMAIN fs \subseteq crossed
             /\ \A i \in crossed \ DOMAIN fs :
                  i = Len(fs) + 1 /\ w[i] = [type |-> "sent", data |-> u] /\ MaskRefuses(u)
  <2> HIDE DEF fs, w, u
  <2> QED
    BY <1>5 DEF Crossed, Item
<1>6. CASE \/ pc[s] \in {"listen", "read", "saveFrame", "unsub", "saveUnsub", "close"}
           \/ pc[s] = "await" \/ (pc[s] = "done" /\ reports[s] # Nil /\ ~reports[s].skipped)
  <2>1. Matched(w, fs, u) \/ Refused(w, fs, u) \/ Crossed(w, fs, u)
    BY <1>2, <1>6 DEF WireOf, WireFact
  <2>2. Crossed(w, fs, u)
    <3> HIDE DEF fs, w, u
    <3> QED
      BY <1>1, <2>1, ClosedCrossed
  <2> QED
    BY <1>5, <2>2
<1> QED
  BY <1>3, <1>4, <1>6 DEF Recording, SendingOnly, Listening, Closing

\* However many frames there are and wherever a write, a read or a Save fails, the
\* frames of a session are what it wrote and read, one for one, in the order it
\* did so (record.go:177-228, 266-281, 297-298), each as the masker leaves it.
THEOREM FramesCrossedInOrder == Spec => []CrossedInOrder
<1>1. Init => WireInv
  BY InitWire
<1>2. IInv /\ WireInv /\ [Next]_vars => WireInv'
  BY NextWire
<1>3. IInv /\ WireInv => CrossedInOrder
  BY WireInOrder
<1> QED
  BY <1>1, <1>2, <1>3, Inductive, PTL DEF Spec

=============================================================================
