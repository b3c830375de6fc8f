------------------------------ MODULE Recorder ------------------------------
(***************************************************************************)
(* One call of Recorder.Record (record.go): a goroutine per session dials, *)
(* discards what an earlier run captured, plays the send frames, listens   *)
(* until the stop condition or the timeout, and closes. The goroutines     *)
(* share the sessions of one file under a mutex, mu, which also serialises *)
(* Save.                                                                   *)
(*                                                                         *)
(* A goroutine is split where another can interfere or the outside world   *)
(* answers: at every Lock, at every call of Save (mu stays held, so the    *)
(* others wait, but readers that take no lock see the half-way state), and *)
(* at every network operation. Steps between those touch only the          *)
(* goroutine's own variables and are merged into the step before.          *)
(***************************************************************************)
EXTENDS Until

CONSTANTS
  NSessions,     \* len(ss)
  Unsubscribe,   \* Session.Unsubscribe of each session, Nil for none
  StartFrames,   \* what the frames of a session may be when Record is called
  StartURIs,     \* likewise its URI
  Untils,        \* the stop conditions to try, Nil for no Until at all
  Messages,      \* the messages a server may send
  MaxReceive     \* bound: messages one connection delivers before the rest is silence

Sess == 1..NSessions
URI == {"invalid", "plain", "literal", "masked"}

ASSUME NSessionsAssumption == NSessions \in Nat
ASSUME UnsubscribeAssumption == Unsubscribe \in [Sess -> Payload \cup {Nil}]
ASSUME StartAssumption == /\ StartFrames \subseteq Seq(Frame)
                          /\ StartURIs \subseteq URI
\* The frames of an earlier run carry epoch 1.
ASSUME ClockAssumption == \A fs \in StartFrames : \A i \in DOMAIN fs :
                            fs[i].at = IF IsReceive(fs[i]) THEN 1 ELSE 0
ASSUME UntilsAssumption == Untils \subseteq UntilType \cup {Nil}
ASSUME MessagesAssumption == Messages \subseteq Message
ASSUME MaxReceiveAssumption == MaxReceive \in Nat

VARIABLES
  frames,       \* ss[i].Frames, shared
  uri,          \* ss[i].URI, shared
  mu,           \* who holds the mutex, Nil for nobody
  until,        \* Recorder.Until
  epoch,        \* which run over the file this call is: the clock At is measured on
  call,         \* where Record itself is
  result,       \* what Record returned
  pc,           \* where each goroutine is
  next,         \* the send loop's index
  tally,        \* listen's count, notJSON and seen
  inflight,     \* a frame read or sent and not yet committed, and its kind
  reports,      \* reports[i]
  failed,       \* errs[i] # nil
  expired,      \* the session's context deadline passed
  interrupted,  \* the caller's context was cancelled
  readErr,      \* the connection's read error, which every later read returns
  wire          \* history: what the session wrote to its connection and read from it

shared == <<frames, uri>>
record == <<mu, until, epoch, call, result>>
local == <<pc, next, tally, inflight, reports, failed>>
world == <<expired, interrupted, readErr, wire>>
vars == <<shared, record, local, world>>

-----------------------------------------------------------------------------
PC == {"idle", "count", "dial", "reset", "saveReset", "send", "listen", "read",
       "commit", "saveFrame", "unsub", "commitUnsub", "saveUnsub", "close",
       "await", "done"}

\* Inside a call of Save.
Saving == {"saveReset", "saveFrame", "saveUnsub"}
\* The stretches of session() around the discarding of an earlier capture.
BeforeReset == {"idle", "count", "dial", "reset"}
Listening == {"listen", "read", "commit", "saveFrame"}
Closing == {"unsub", "commitUnsub", "saveUnsub", "close", "await"}
\* The deadline is looked at from the dial to the end of listen.
Timed == {"dial", "reset", "saveReset", "send"} \cup Listening

Report ==
  [skipped : BOOLEAN, received : Nat, seen : [Kinds -> Nat] \cup {Nil}, short : Nat,
   missing : [Kinds -> Nat], notJSON : Nat]
Tally == [count : Nat, notJSON : Nat, seen : [Kinds -> Nat]]
NoTally == [count |-> 0, notJSON |-> 0, seen |-> [k \in Kinds |-> 0]]
WireItem == [type : {"sent", "read"}, data : Payload] \cup [type : {"close"}, data : {Nil}]
Result == [outcome : {"none", "rejected", "failed", "reported"}, session : Sess \cup {Nil}]

ASSUME NoReportAssumption == Nil \notin Report

\* ctx.Err() # nil.
ctxDone(s) == expired[s] \/ interrupted

\* Session.Validate, and Record's checks of Until. (A mutant: Until's alone.)
ValidSession(s) == /\ uri[s] # "invalid"
                   /\ \A i \in DOMAIN frames[s] : ValidFrame(frames[s][i])
ValidUntilOnly == until # Nil /\ ValidUntil(until)
ValidCall == /\ \A s \in Sess : ValidSession(s)
             /\ until # Nil
             /\ ValidUntil(until)

\* A URI with a literal credential is masked, any other is kept.
MaskURI(u) == IF u = "literal" THEN "masked" ELSE u

-----------------------------------------------------------------------------
\* The goroutine returns with an error, or with what it has.
Fail(s) == /\ pc' = [pc EXCEPT ![s] = "done"]
           /\ failed' = [failed EXCEPT ![s] = TRUE]
Goto(s, label) == /\ pc' = [pc EXCEPT ![s] = label]
                  /\ UNCHANGED failed

\* mu.Lock() and mu.Unlock(). (A mutant: no lock is taken.)
NoLock == TRUE
MuFree == mu = Nil
Unlock == mu' = Nil

\* listen's report: the goroutine keeps it and goes on to close.
EndListen(s) ==
  /\ reports' = [reports EXCEPT ![s] =
       [NewSessionReport(until, tally[s].count, tally[s].seen)
          EXCEPT !.notJSON = tally[s].notJSON]]
  /\ Goto(s, "unsub")

-----------------------------------------------------------------------------
\* Record validates everything before it starts the goroutines.
Validate ==
  /\ call = "validate"
  /\ IF ValidCall
       THEN /\ call' = "running"
            /\ pc' = [s \in Sess |-> "count"]
            /\ UNCHANGED result
       ELSE /\ call' = "returned"
            /\ result' = [result EXCEPT !.outcome = "rejected"]
            /\ UNCHANGED pc
  /\ UNCHANGED <<shared, mu, until, epoch, next, tally, inflight, reports, failed, world>>

\* The frames are counted under mu; a session that already has what was asked
\* for is reported as skipped, with no dial.
Count(s) ==
  /\ call = "running" /\ pc[s] = "count" /\ MuFree
  /\ LET had == CountReceived(frames[s], until.discriminator) IN
       IF Satisfied(until, had.count, had.seen)
         THEN /\ reports' = [reports EXCEPT ![s] =
                   [NewSessionReport(until, had.count, had.seen) EXCEPT !.skipped = TRUE]]
              /\ Goto(s, "done")
         ELSE /\ UNCHANGED reports
              /\ Goto(s, "dial")
  /\ UNCHANGED <<shared, record, next, tally, inflight, world>>

\* A dial succeeds only under a live context; it may fail at any time.
Dial(s, ok) ==
  /\ call = "running" /\ pc[s] = "dial"
  /\ IF ok THEN ~ctxDone(s) /\ Goto(s, "reset") ELSE Fail(s)
  /\ UNCHANGED <<shared, record, next, tally, inflight, reports, world>>

(***************************************************************************)
(* What an earlier run captured is discarded, the authored frames and the  *)
(* URI are masked in place, and the file is saved, all under one Lock. A   *)
(* frame the masker refuses ends the session: the frames before it are     *)
(* masked, those after it are not, the earlier capture is gone, and        *)
(* nothing was saved. (A mutant: nothing is masked.)                       *)
(***************************************************************************)
FirstRefused(fs, k) == \E j \in 1..k : MaskFrameRefuses(fs[j])
MaskNothingInPlace(fs) == fs
MaskInPlace(fs) ==
  [k \in DOMAIN fs |-> IF FirstRefused(fs, k) THEN fs[k] ELSE MaskFrame(fs[k])]

Reset(s) ==
  /\ call = "running" /\ pc[s] = "reset" /\ MuFree
  /\ LET kept == Sends(frames[s]) IN
       /\ frames' = [frames EXCEPT ![s] = MaskInPlace(kept)]
       /\ IF FirstRefused(kept, Len(kept))
            THEN /\ Fail(s)
                 /\ UNCHANGED <<uri, mu>>
            ELSE /\ Goto(s, "saveReset")
                 /\ uri' = [uri EXCEPT ![s] = MaskURI(@)]
                 /\ mu' = s
  /\ UNCHANGED <<until, epoch, call, result, next, tally, inflight, reports, world>>

SaveReset(s, ok) ==
  /\ call = "running" /\ pc[s] = "saveReset"
  /\ Unlock
  /\ IF ok THEN Goto(s, "send") ELSE Fail(s)
  /\ UNCHANGED <<shared, until, epoch, call, result, next, tally, inflight, reports, world>>

\* The send loop writes the frames as Reset left them, that is masked; then
\* listen sets the read deadline, which may fail. (The mutant sends the first
\* frame every time.)
FirstPayload(s) == frames[s][1].send
SentPayload(s) == frames[s][next[s]].send
Send(s, ok) ==
  /\ call = "running" /\ pc[s] = "send"
  /\ IF next[s] > Len(frames[s])
       THEN /\ IF ok THEN Goto(s, "listen") ELSE Fail(s)
            /\ UNCHANGED <<next, wire>>
       ELSE /\ next' = [next EXCEPT ![s] = IF ok THEN @ + 1 ELSE @]
            /\ wire' = [wire EXCEPT ![s] =
                 IF ok THEN Append(@, [type |-> "sent", data |-> SentPayload(s)]) ELSE @]
            /\ IF ok THEN Goto(s, "send") ELSE Fail(s)
  /\ UNCHANGED <<shared, record, tally, inflight, reports, expired, interrupted, readErr>>

-----------------------------------------------------------------------------
\* The head of listen's loop. (The mutant looks at the clock alone.)
OutOfTime(s) == ctxDone(s)
StopListening(s) == Satisfied(until, tally[s].count, tally[s].seen) \/ ctxDone(s)
Check(s) ==
  /\ call = "running" /\ pc[s] = "listen"
  /\ IF StopListening(s)
       THEN EndListen(s)
       ELSE Goto(s, "read") /\ UNCHANGED reports
  /\ UNCHANGED <<shared, record, next, tally, inflight, world>>

(***************************************************************************)
(* ReadMessage delivers a message. It may do so after the deadline or an   *)
(* interrupt: data that is already buffered is returned, and nothing wakes *)
(* a blocked read but the deadline. The kind is read off the payload as it *)
(* came, before masking.                                                   *)
(***************************************************************************)
Receive(s, m) ==
  /\ call = "running" /\ pc[s] = "read" /\ tally[s].count < MaxReceive
  /\ ~QuotePanics(m)
  /\ LET f == ReceiveFrame(epoch, PayloadOf(m)) IN
       IF MaskFrameRefuses(f)
         THEN Fail(s) /\ UNCHANGED inflight
         ELSE /\ Goto(s, "commit")
              /\ inflight' = [inflight EXCEPT ![s] =
                   [frame |-> MaskFrame(f), kind |-> Discriminate(f.receive)]]
  /\ tally' = [tally EXCEPT ![s].notJSON = IF IsJSON(m) THEN @ ELSE @ + 1]
  /\ wire' = [wire EXCEPT ![s] = Append(@, [type |-> "read", data |-> PayloadOf(m)])]
  /\ UNCHANGED <<shared, record, next, reports, expired, interrupted, readErr>>

\* quote panics on text that is not UTF-8, and takes the process down.
Panic(s, m) ==
  /\ call = "running" /\ pc[s] = "read" /\ tally[s].count < MaxReceive
  /\ QuotePanics(m)
  /\ call' = "panicked"
  /\ UNCHANGED <<shared, mu, until, epoch, result, local, world>>

\* A read error that calls itself a timeout ends listen, whatever the context
\* says: that of the deadline, which may pass a moment before the context's, or
\* that of a peer the transport has given up on. (A mutant: no deadline is set.)
NoDeadline(s) == FALSE
ReadTimeout(s) ==
  /\ call = "running" /\ pc[s] = "read"
  /\ readErr' = [readErr EXCEPT ![s] = "timeout"]
  /\ EndListen(s)
  /\ UNCHANGED <<shared, record, next, tally, inflight, expired, interrupted, wire>>

\* Any other read error (the server closes or resets) is a failure, unless the
\* context is done as well. (A mutant takes it for the end of the feed.)
FeedEnds(s) ==
  /\ call = "running" /\ pc[s] = "read"
  /\ readErr' = [readErr EXCEPT ![s] = "broken"]
  /\ EndListen(s)
  /\ UNCHANGED <<shared, record, next, tally, inflight, expired, interrupted, wire>>
ReadFails(s) ==
  /\ call = "running" /\ pc[s] = "read"
  /\ readErr' = [readErr EXCEPT ![s] = "broken"]
  /\ IF ctxDone(s) THEN EndListen(s) ELSE Fail(s) /\ UNCHANGED reports
  /\ UNCHANGED <<shared, record, next, tally, inflight, expired, interrupted, wire>>

\* commit takes mu, appends, and saves before it unlocks.
Commit(s) ==
  /\ call = "running" /\ pc[s] \in {"commit", "commitUnsub"} /\ MuFree
  /\ mu' = s
  /\ frames' = [frames EXCEPT ![s] = Append(@, inflight[s].frame)]
  /\ Goto(s, IF pc[s] = "commit" THEN "saveFrame" ELSE "saveUnsub")
  /\ UNCHANGED <<uri, until, epoch, call, result, next, tally, inflight, reports, world>>

\* Only a frame that was saved is counted.
SaveFrame(s, ok) ==
  /\ call = "running" /\ pc[s] = "saveFrame"
  /\ Unlock
  /\ inflight' = [inflight EXCEPT ![s] = Nil]
  /\ IF ok
       THEN /\ tally' = [tally EXCEPT ![s].count = @ + 1,
                                      ![s].seen = [k \in Kinds |->
                 IF until.discriminator /\ k = inflight[s].kind THEN @[k] + 1 ELSE @[k]]]
            /\ Goto(s, "listen")
       ELSE Fail(s) /\ UNCHANGED tally
  /\ UNCHANGED <<shared, until, epoch, call, result, next, reports, world>>

-----------------------------------------------------------------------------
\* close sends the unsubscribe frame, and records it when it was sent and the
\* masker takes it.
Unsub(s, ok) ==
  /\ call = "running" /\ pc[s] = "unsub"
  /\ LET u == Unsubscribe[s] IN
       IF u # Nil /\ ok
         THEN /\ wire' = [wire EXCEPT ![s] = Append(@, [type |-> "sent", data |-> u])]
              /\ IF MaskRefuses(u)
                   THEN Goto(s, "close") /\ UNCHANGED inflight
                   ELSE /\ Goto(s, "commitUnsub")
                        /\ inflight' = [inflight EXCEPT ![s] =
                             [frame |-> MaskFrame(SendFrame(u)), kind |-> Nil]]
         ELSE Goto(s, "close") /\ UNCHANGED <<wire, inflight>>
  /\ UNCHANGED <<shared, record, next, tally, reports, expired, interrupted, readErr>>

\* The error of this save is dropped.
SaveUnsub(s, ok) ==
  /\ call = "running" /\ pc[s] = "saveUnsub"
  /\ Unlock
  /\ inflight' = [inflight EXCEPT ![s] = Nil]
  /\ Goto(s, "close")
  /\ UNCHANGED <<shared, until, epoch, call, result, next, tally, reports, world>>

WriteClose(s, ok) ==
  /\ call = "running" /\ pc[s] = "close"
  /\ wire' = [wire EXCEPT ![s] =
       IF ok THEN Append(@, [type |-> "close", data |-> Nil]) ELSE @]
  /\ Goto(s, "await")
  /\ UNCHANGED <<shared, record, next, tally, inflight, reports, expired, interrupted,
                 readErr>>

(***************************************************************************)
(* The wait for the server's half of the closing handshake. Messages that  *)
(* still arrive are read and dropped, which changes nothing here. It ends  *)
(* at the first read error: at once when listen already ended in one, as   *)
(* the connection returns that error again; else with the server's Close   *)
(* or a broken connection, or with the grace period.                       *)
(***************************************************************************)
AwaitNothing(s) ==
  /\ call = "running" /\ pc[s] = "await" /\ readErr[s] # "none"
  /\ Goto(s, "done")
  /\ UNCHANGED <<shared, record, next, tally, inflight, reports, expired, interrupted,
                 readErr, wire>>

\* (The mutant keeps a message that arrives meanwhile.)
AwaitRecording(s, how) ==
  /\ call = "running" /\ pc[s] = "await" /\ readErr[s] = "none"
  /\ frames' = [frames EXCEPT ![s] =
       Append(@, ReceiveFrame(epoch, [form |-> "string", kind |-> Nil, secret |-> "none"]))]
  /\ Goto(s, "done")
  /\ UNCHANGED <<uri, record, next, tally, inflight, reports, expired, interrupted, readErr, wire>>

AwaitAnswer(s, how) ==
  /\ call = "running" /\ pc[s] = "await" /\ readErr[s] = "none"
  /\ readErr' = [readErr EXCEPT ![s] = IF how = "grace" THEN "timeout" ELSE "broken"]
  /\ Goto(s, "done")
  /\ UNCHANGED <<shared, record, next, tally, inflight, reports, expired, interrupted, wire>>

-----------------------------------------------------------------------------
Expire(s) ==
  /\ call = "running" /\ pc[s] \in Timed /\ ~expired[s]
  /\ expired' = [expired EXCEPT ![s] = TRUE]
  /\ UNCHANGED <<shared, record, local, interrupted, readErr, wire>>

Interrupt ==
  /\ call = "running" /\ ~interrupted
  /\ interrupted' = TRUE
  /\ UNCHANGED <<shared, record, local, expired, readErr, wire>>

\* Record waits for every goroutine and returns the first error by index, or
\* all the reports.
Return ==
  /\ call = "running" /\ \A s \in Sess : pc[s] = "done"
  /\ call' = "returned"
  /\ result' =
       IF \E s \in Sess : failed[s]
         THEN [outcome |-> "failed",
               session |-> CHOOSE s \in Sess : failed[s] /\ \A t \in 1..(s - 1) : ~failed[t]]
         ELSE [outcome |-> "reported", session |-> Nil]
  /\ UNCHANGED <<shared, mu, until, epoch, local, world>>

-----------------------------------------------------------------------------
\* Everything but the goroutines' own progress.
CallInit ==
  /\ mu = Nil
  /\ call = "validate"
  /\ result = [outcome |-> "none", session |-> Nil]
  /\ pc = [s \in Sess |-> "idle"]
  /\ next = [s \in Sess |-> 1]
  /\ tally = [s \in Sess |-> NoTally]
  /\ inflight = [s \in Sess |-> Nil]
  /\ reports = [s \in Sess |-> Nil]
  /\ failed = [s \in Sess |-> FALSE]
  /\ expired = [s \in Sess |-> FALSE]
  /\ interrupted = FALSE
  /\ readErr = [s \in Sess |-> "none"]
  /\ wire = [s \in Sess |-> <<>>]

Init ==
  /\ CallInit
  /\ frames \in [Sess -> StartFrames]
  /\ uri \in [Sess -> StartURIs]
  /\ until \in Untils
  /\ epoch = 2

\* The steps that wait for mu, and those that wait for nobody.
Locking(s) == Count(s) \/ Reset(s) \/ Commit(s)
Private(s) == Check(s) \/ AwaitNothing(s)
\* Calls of Save return; so do the dial and the Close frame, by their deadlines.
Saved(s, ok) == SaveReset(s, ok) \/ SaveFrame(s, ok) \/ SaveUnsub(s, ok)
Bounded(s, ok) == Dial(s, ok) \/ WriteClose(s, ok)
\* WriteMessage has no deadline.
Write(s, ok) == Send(s, ok) \/ Unsub(s, ok)
\* What a read returns, by its deadline and before.
ReadEnds(s) == (expired[s] /\ ReadTimeout(s)) \/ AwaitAnswer(s, "grace")
Read(s) ==
  \/ \E m \in Messages : Receive(s, m) \/ Panic(s, m)
  \/ ReadTimeout(s) \/ ReadFails(s)
  \/ \E how \in {"handshake", "broken"} : AwaitAnswer(s, how)

\* Everything a goroutine does but call Save, which a caller provides.
Step(s) ==
  \/ Locking(s) \/ Private(s) \/ ReadEnds(s) \/ Read(s) \/ Expire(s)
  \/ \E ok \in BOOLEAN : Bounded(s, ok) \/ Write(s, ok)

Finished == call \in {"returned", "panicked"} /\ UNCHANGED vars

Next ==
  \/ Validate \/ Return \/ Interrupt \/ Finished
  \/ \E s \in Sess : Step(s) \/ \E ok \in BOOLEAN : Saved(s, ok)

Spec == Init /\ [][Next]_vars

(***************************************************************************)
(* Fairness. The Go scheduler runs every goroutine that can run, a Mutex   *)
(* hands itself over to a waiter that starves, contexts and deadlines      *)
(* expire, Save returns. A write to the connection has no deadline: that   *)
(* it returns is an assumption on the server, which must keep reading.     *)
(***************************************************************************)
FairWithoutWrites ==
  /\ WF_vars(Validate) /\ WF_vars(Return)
  /\ \A s \in Sess :
       /\ SF_vars(Locking(s))
       /\ WF_vars(Private(s)) /\ WF_vars(ReadEnds(s)) /\ WF_vars(Expire(s))
       /\ WF_vars(\E ok \in BOOLEAN : Saved(s, ok) \/ Bounded(s, ok))
       /\ WF_vars(next[s] > Len(frames[s]) /\ Send(s, TRUE))
       /\ WF_vars(Unsubscribe[s] = Nil /\ Unsub(s, TRUE))
FairWrites == \A s \in Sess : WF_vars(\E ok \in BOOLEAN : Write(s, ok))

FairSpec == Spec /\ FairWithoutWrites /\ FairWrites
StallSpec == Spec /\ FairWithoutWrites

=============================================================================
