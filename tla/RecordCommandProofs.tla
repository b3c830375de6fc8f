------------------------- MODULE RecordCommandProofs ------------------------
(***************************************************************************)
(* What the sessions file holds after any number of runs, any of which may *)
(* be killed or fail to write at any moment. For any number of sessions,   *)
(* any file to start from, any stop conditions and any messages.           *)
(*                                                                         *)
(* While a process records, every step is one of Recorder's, so what is    *)
(* known of a call of Record carries over; left are the steps that start   *)
(* and end a process, and what gets from memory to the file.               *)
(***************************************************************************)
EXTENDS RecordCommand, RecordedFramesProofs

\* Nothing of a run is in memory between two processes.
DownInv == process = "down" =>
  call = "validate" /\ \A s \in Sess : pc[s] = "idle" /\ frames[s] = <<>>

\* What is in the file was left by the runs so far.
FileInv ==
  file # Torn =>
    /\ file.frames \in [Sess -> Seq(Frame)] /\ file.uri \in [Sess -> URI]
    /\ \A s \in Sess : Captured(file.frames[s], epoch)

CommandInv ==
  /\ IInv /\ FramesInv
  /\ DiskTypeOK /\ DownInv /\ FileInv
  /\ until \in Untils \cup {Nil}

-----------------------------------------------------------------------------
\* What the sessions are left with passes for a file's content.
LEMMA LeftIsCaptured ==
  ASSUME NEW s \in Sess, IInv, FramesInv
  PROVE  Captured(frames[s], epoch)
<1>1. /\ SessionInv(s) /\ pc[s] \in PC /\ epoch \in Nat
      /\ \A i \in DOMAIN frames[s] : frames[s][i] \in Frame
  BY DEF IInv, TypeOK, FramesInv
<1>2. Own(s) \/ Before(s)
  BY <1>1 DEF SessionInv, PC, BeforeReset, Active, SendingOnly, Listening, Closing
<1>3. CASE Own(s)
  BY <1>3 DEF Own, Kept, Captured, ReceivePositions
<1>4. CASE Before(s)
  <2>1. \A i \in DOMAIN frames[s] : frames[s][i].at \in Nat
    BY <1>1 DEF Frame
  <2> QED
    BY <1>1, <1>4, <2>1 DEF Before, Captured
<1> QED
  BY <1>2, <1>3, <1>4

\* The first frames of the first process.
LEMMA StartsCaptured ==
  ASSUME NEW fs \in StartFrames
  PROVE  Captured(fs, 1)
<1>1. \A i \in DOMAIN fs : fs[i].at = IF IsReceive(fs[i]) THEN 1 ELSE 0
  BY ClockAssumption
<1> QED
  BY <1>1 DEF Captured, ReceivePositions

LEMMA NoTallyType == NoTally \in Tally
BY DEF NoTally, Tally

LEMMA InitCommandInv == CommandInit => CommandInv
<1> SUFFICES ASSUME CommandInit PROVE CommandInv
  OBVIOUS
<1> USE DEF CommandInit, CallInit
<1>1. IInv
  <2>1. /\ frames \in [Sess -> Seq(Frame)] /\ uri \in [Sess -> URI] /\ pc \in [Sess -> PC]
        /\ wire \in [Sess -> Seq(WireItem)] /\ next \in [Sess -> Nat \ {0}]
        /\ inflight \in [Sess -> InFlight \cup {Nil}]
        /\ reports \in [Sess -> Report \cup {Nil}]
    BY DEF URI, PC
  <2>2. tally \in [Sess -> Tally] /\ result \in Result
    BY NoTallyType DEF Result
  <2>3. TypeOK
    BY <2>1, <2>2 DEF TypeOK
  <2>4. SavesSerialised
    <3>1. \A s \in Sess : s # Nil
      BY NilAssumption, NSessionsAssumption DEF Sess
    <3> QED
      BY <3>1 DEF SavesSerialised, Saving
  <2> QED
    BY <2>3, <2>4 DEF IInv, ReadyInv, Committing, SendingOnly
<1>2. FramesInv
  <2>1. \A s \in Sess : Before(s)
    BY DEF Before, Captured, ReceivePositions
  <2> QED
    BY <2>1 DEF FramesInv, FramesStayValid, SessionInv, BeforeReset, Active, SendingOnly, Listening,
                Closing, Committing
<1>3. file.frames \in [Sess -> StartFrames] /\ file.uri \in [Sess -> StartURIs]
  OBVIOUS
<1>4. file.frames \in [Sess -> Seq(Frame)] /\ file.uri \in [Sess -> URI]
  BY <1>3, StartAssumption
<1>5. FileInv
  BY <1>3, <1>4, StartsCaptured DEF FileInv
<1>6. DiskTypeOK /\ DownInv
  BY <1>4 DEF DiskTypeOK, DownInv
<1> QED
  BY <1>1, <1>2, <1>5, <1>6 DEF CommandInv

-----------------------------------------------------------------------------
\* A process in which nothing has happened yet, over frames of earlier runs.
LEMMA FreshInv ==
  ASSUME IInv, Fresh,
         frames' \in [Sess -> Seq(Frame)], uri' \in [Sess -> URI],
         until' \in UntilType \cup {Nil}, epoch' \in Nat,
         \A s \in Sess : Captured(frames'[s], epoch' - 1)
  PROVE  IInv' /\ FramesInv'
<1> USE DEF Fresh
<1>1. IInv'
  <2>1. /\ pc' \in [Sess -> PC] /\ wire' \in [Sess -> Seq(WireItem)]
        /\ next' \in [Sess -> Nat \ {0}] /\ inflight' \in [Sess -> InFlight \cup {Nil}]
        /\ reports' \in [Sess -> Report \cup {Nil}]
    BY DEF PC
  <2>2. tally' \in [Sess -> Tally] /\ result' \in Result
    BY NoTallyType DEF Result
  <2>3. TypeOK'
    BY <2>1, <2>2 DEF TypeOK
  <2>4. SavesSerialised'
    <3>1. \A s \in Sess : s # Nil
      BY NilAssumption, NSessionsAssumption DEF Sess
    <3> QED
      BY <3>1 DEF SavesSerialised, Saving
  <2> QED
    BY <2>3, <2>4 DEF IInv, ReadyInv, Committing, SendingOnly
<1>2. FramesInv'
  <2>1. \A s \in Sess : Before(s)'
    BY DEF Before
  <2> QED
    BY <2>1 DEF FramesInv, FramesStayValid, SessionInv, BeforeReset, Active, SendingOnly, Listening,
                Closing, Committing
<1> QED
  BY <1>1, <1>2

\* Nothing Record does changes what it was called with.
LEMMA NextStays == [Next]_vars => UNCHANGED <<until, epoch>>
<1> SUFFICES ASSUME [Next]_vars PROVE UNCHANGED <<until, epoch>>
  OBVIOUS
<1> USE DEF record
<1>1. CASE Validate \/ Return \/ Interrupt \/ Finished \/ UNCHANGED vars
  BY <1>1 DEF Validate, Return, Interrupt, Finished, vars
<1>2. ASSUME NEW s \in Sess, Step(s) PROVE UNCHANGED <<until, epoch>>
  <2>1. CASE Locking(s)
    BY <2>1 DEF Locking, Count, Reset, Commit
  <2>2. CASE Private(s) \/ ReadEnds(s)
    BY <2>2 DEF Private, ReadEnds, Check, AwaitNothing, AwaitAnswer, ReadTimeout
  <2>3. CASE Read(s) \/ Expire(s)
    BY <2>3 DEF Read, Receive, Panic, ReadTimeout, ReadFails, AwaitAnswer, Expire
  <2>4. CASE \E ok \in BOOLEAN : Bounded(s, ok) \/ Write(s, ok)
    BY <2>4 DEF Bounded, Write, Dial, WriteClose, Send, Unsub
  <2> QED
    BY <1>2, <2>1, <2>2, <2>3, <2>4 DEF Step
<1>3. ASSUME NEW s \in Sess, NEW ok \in BOOLEAN, Saved(s, ok) PROVE UNCHANGED <<until, epoch>>
  BY <1>3 DEF Saved, SaveReset, SaveFrame, SaveUnsub
<1> QED
  BY <1>1, <1>2, <1>3 DEF Next

\* The steps of a process that runs.
Runs == Record \/ Truncate \/ Finish \/ NoMoreRuns
        \/ \E ok \in BOOLEAN, s \in Sess : Save(s, ok)

LEMMA RunsAreNext == Runs => [Next]_vars
<1> SUFFICES ASSUME Runs PROVE Next \/ UNCHANGED vars
  OBVIOUS
<1>1. CASE Record
  BY <1>1 DEF Record, Next
<1>2. CASE Truncate \/ Finish \/ NoMoreRuns
  BY <1>2 DEF Truncate, Finish, NoMoreRuns, allVars
<1>3. CASE \E ok \in BOOLEAN, s \in Sess : Save(s, ok)
  BY <1>3 DEF Save, Next
<1> QED
  BY <1>1, <1>2, <1>3 DEF Runs

LEMMA RunsCommandInv == CommandInv /\ Runs => CommandInv'
<1> SUFFICES ASSUME CommandInv, Runs PROVE CommandInv'
  OBVIOUS
<1>1. [Next]_vars /\ UNCHANGED <<until, epoch>>
  BY RunsAreNext, NextStays
<1>2. IInv' /\ FramesInv'
  BY <1>1, NextIInv, NextFramesInv DEF CommandInv
<1>3. \/ UNCHANGED file /\ writing' \in BOOLEAN
      \/ file' = Torn /\ writing' = TRUE
      \/ file' = Snapshot /\ UNCHANGED shared /\ writing' = FALSE
  <2>1. CASE Record \/ Truncate \/ Finish \/ NoMoreRuns
    BY <2>1 DEF Record, Truncate, Finish, NoMoreRuns, allVars, disk, CommandInv, DiskTypeOK
  <2>2. ASSUME NEW ok \in BOOLEAN, NEW s \in Sess, Save(s, ok)
        PROVE  \/ UNCHANGED file /\ writing' = FALSE
               \/ file' = Snapshot /\ UNCHANGED shared /\ writing' = FALSE
    BY <2>2 DEF Save, WriteReturns, Saved, SaveReset, SaveFrame, SaveUnsub
  <2> QED
    BY <2>1, <2>2 DEF Runs
<1>4. FileInv'
  <2>1. CASE UNCHANGED file
    BY <1>1, <2>1 DEF CommandInv, FileInv
  <2>2. CASE file' = Torn
    BY <2>2 DEF FileInv, Torn
  <2>3. CASE file' = Snapshot /\ UNCHANGED shared
    <3>1. \A s \in Sess : Captured(frames[s], epoch)
      BY LeftIsCaptured DEF CommandInv
    <3>2. file'.frames = frames /\ file'.uri = uri
      BY <2>3 DEF Snapshot
    <3> QED
      BY <1>1, <3>1, <3>2 DEF FileInv, CommandInv, IInv, TypeOK
  <2> QED
    BY <1>3, <2>1, <2>2, <2>3
<1>5. process' \in {"down", "recording", "finishing"} /\ UNCHANGED settled
      /\ (process' = "down" => process = "down" /\ UNCHANGED vars)
  BY DEF Runs, Record, Truncate, Finish, NoMoreRuns, Save, allVars, disk, CommandInv, DiskTypeOK
<1>6. DiskTypeOK'
  <2>1. writing' \in BOOLEAN
    BY <1>3
  <2>2. file' = Torn \/ (file'.frames \in [Sess -> Seq(Frame)] /\ file'.uri \in [Sess -> URI])
    BY <1>4 DEF FileInv, Torn
  <2> QED
    BY <1>5, <2>1, <2>2 DEF CommandInv, DiskTypeOK, Torn
<1>7. DownInv'
  BY <1>5 DEF CommandInv, DownInv, vars, shared, record, local
<1> QED
  BY <1>1, <1>2, <1>4, <1>6, <1>7 DEF CommandInv

\* A process starts from the file, or cannot.
LEMMA LoadCommandInv == CommandInv /\ (Load \/ LoadFails) => CommandInv'
<1> SUFFICES ASSUME CommandInv, Load \/ LoadFails PROVE CommandInv'
  OBVIOUS
<1>1. epoch \in Nat /\ epoch' = epoch + 1 /\ UNCHANGED <<file, writing>>
  BY DEF CommandInv, IInv, TypeOK, Load, LoadFails, disk
<1>2. ASSUME NEW fs \in Seq(Frame), Captured(fs, epoch) PROVE Captured(fs, epoch')
  <2>1. \A i \in DOMAIN fs : fs[i] \in Frame
    OBVIOUS
  <2>2. \A i \in DOMAIN fs : fs[i].at \in Nat
    BY <2>1 DEF Frame
  <2> QED
    BY <1>1, <1>2, <2>2 DEF Captured
<1>3. FileInv'
  BY <1>1, <1>2 DEF CommandInv, FileInv, Torn
<1>4. CASE Load
  <2>1. /\ frames' \in [Sess -> Seq(Frame)] /\ uri' \in [Sess -> URI]
        /\ \A s \in Sess : Captured(frames'[s], epoch)
    BY <1>4 DEF CommandInv, FileInv, Load
  <2>2. until' \in UntilType \cup {Nil} /\ until' \in Untils \cup {Nil}
    BY <1>4, UntilsAssumption DEF Load
  <2>3. epoch' - 1 = epoch /\ epoch' \in Nat
    BY <1>1
  <2>4. IInv' /\ FramesInv'
    BY <1>4, <2>1, <2>2, <2>3, FreshInv DEF CommandInv, Load
  <2>5. DiskTypeOK' /\ DownInv'
    BY <1>4, <2>2 DEF CommandInv, DiskTypeOK, DownInv, Load, Torn
  <2> QED
    BY <1>3, <2>2, <2>4, <2>5 DEF CommandInv
<1>5. CASE LoadFails
  <2>1. UNCHANGED <<shared, mu, until, call, result, local, world, disk>> /\ process = "down"
    BY <1>5 DEF LoadFails
  <2>2. IInv'
    BY <1>1, <2>1 DEF CommandInv, IInv, TypeOK, SavesSerialised, ReadyInv, shared, local, world
  <2>3. FramesInv'
    <3>1. \A s \in Sess : pc[s] = "idle" /\ frames[s] = <<>> /\ call = "validate"
      BY <2>1 DEF CommandInv, DownInv
    <3>2. \A s \in Sess : Before(s)' /\ reports'[s] = Nil
      <4>1. \A s \in Sess : reports[s] = Nil
        BY <3>1 DEF CommandInv, FramesInv, SessionInv, BeforeReset
      <4>2. \A s \in Sess : frames'[s] = <<>>
        BY <2>1, <3>1 DEF shared
      <4> QED
        BY <2>1, <4>1, <4>2 DEF Before, Captured, ReceivePositions, local
    <3> QED
      BY <2>1, <3>1, <3>2
         DEF CommandInv, FramesInv, FramesStayValid, SessionInv, BeforeReset, Active, SendingOnly,
             Listening, Closing, Committing, shared, local
  <2>4. DiskTypeOK' /\ DownInv'
    BY <2>1 DEF CommandInv, DiskTypeOK, DownInv, disk, shared, local
  <2> QED
    BY <1>3, <2>1, <2>2, <2>3, <2>4 DEF CommandInv
<1> QED
  BY <1>4, <1>5

\* A process ends, by its own will or not; only Exit may have written the file.
LEMMA GoneCommandInv ==
  CommandInv /\ (Crash \/ \E ok \in BOOLEAN : Exit(ok)) => CommandInv'
<1> SUFFICES ASSUME CommandInv, Crash \/ \E ok \in BOOLEAN : Exit(ok) PROVE CommandInv'
  OBVIOUS
<1>1. Gone /\ epoch' = epoch /\ epoch \in Nat
  BY DEF Crash, Exit, Gone, CommandInv, IInv, TypeOK
<1>2. /\ frames' \in [Sess -> Seq(Frame)] /\ uri' \in [Sess -> URI]
      /\ \A s \in Sess : frames'[s] = <<>>
  BY <1>1 DEF Gone, URI
<1>3. \A s \in Sess : Captured(frames'[s], epoch' - 1)
  BY <1>2 DEF Captured, ReceivePositions
<1>4. IInv' /\ FramesInv'
  BY <1>1, <1>2, <1>3, FreshInv DEF CommandInv, Gone
<1>5. FileInv'
  <2>1. CASE UNCHANGED file
    BY <1>1, <2>1 DEF CommandInv, FileInv
  <2>2. CASE file' = Snapshot
    <3>1. \A s \in Sess : Captured(frames[s], epoch)
      BY LeftIsCaptured DEF CommandInv
    <3>2. file'.frames = frames /\ file'.uri = uri
      BY <2>2 DEF Snapshot
    <3> QED
      BY <1>1, <3>1, <3>2 DEF FileInv, CommandInv, IInv, TypeOK
  <2> QED
    BY <2>1, <2>2 DEF Crash, Exit, WriteReturns
<1>6. DiskTypeOK'
  <2>1. file' = Torn \/ (file'.frames \in [Sess -> Seq(Frame)] /\ file'.uri \in [Sess -> URI])
    BY <1>5 DEF FileInv, Torn
  <2>2. writing' = FALSE /\ process' = "down" /\ settled' \in Untils \cup {Nil}
    BY DEF Crash, Exit, WriteReturns, Gone, CommandInv, DiskTypeOK
  <2> QED
    BY <2>1, <2>2 DEF DiskTypeOK, Torn
<1>7. DownInv' /\ until' \in Untils \cup {Nil}
  BY <1>1 DEF Gone, Fresh, DownInv
<1> QED
  BY <1>4, <1>5, <1>6, <1>7 DEF CommandInv

LEMMA NextCommandInv == CommandInv /\ [CommandNext]_allVars => CommandInv'
<1> SUFFICES ASSUME CommandInv, [CommandNext]_allVars PROVE CommandInv'
  OBVIOUS
<1>1. CASE UNCHANGED allVars
  BY <1>1 DEF allVars, vars, disk, shared, record, local, world, CommandInv, IInv, TypeOK,
              SavesSerialised, ReadyInv, FramesInv, FramesStayValid, SessionInv, Before, Own, Kept,
              DiskTypeOK, DownInv, FileInv
<1>2. CASE CommandNext
  BY <1>2, RunsCommandInv, LoadCommandInv, GoneCommandInv DEF CommandNext, Runs
<1> QED
  BY <1>1, <1>2

-----------------------------------------------------------------------------
\* How many frames a sequence holds that were received in a run.
HereAt(fs, run) == Cardinality({i \in ReceivePositions(fs) : fs[i].at = run})

LEMMA HereAppend ==
  ASSUME NEW fs \in Seq(Frame), NEW f \in Frame, NEW run
  PROVE  /\ HereAt(fs, run) \in Nat
         /\ HereAt(Append(fs, f), run) \in {HereAt(fs, run), HereAt(fs, run) + 1}
         /\ ~IsReceive(f) => HereAt(Append(fs, f), run) = HereAt(fs, run)
<1> DEFINE gs == Append(fs, f)
           new == Len(fs) + 1
           P == {i \in ReceivePositions(fs) : fs[i].at = run}
           Q == {i \in ReceivePositions(gs) : gs[i].at = run}
<1>1. /\ Len(fs) \in Nat /\ DOMAIN fs = 1..Len(fs) /\ DOMAIN gs = 1..new
      /\ gs[new] = f /\ \A i \in DOMAIN fs : gs[i] = fs[i]
      /\ new \notin DOMAIN fs
  OBVIOUS
<1>2. IsFiniteSet(ReceivePositions(fs))
  BY CountReceivedType
<1>3. P \in SUBSET ReceivePositions(fs) /\ ReceivePositions(fs) \in SUBSET DOMAIN fs
  BY DEF ReceivePositions
<1>4. \A i : i \in P <=> i \in DOMAIN fs /\ IsReceive(fs[i]) /\ fs[i].at = run
  BY DEF ReceivePositions
<1>5. \A i : i \in Q <=> i \in DOMAIN gs /\ IsReceive(gs[i]) /\ gs[i].at = run
  BY DEF ReceivePositions
<1>6. DOMAIN gs = DOMAIN fs \cup {new}
  BY <1>1
<1> HIDE DEF gs, new, P, Q
<1>7. IsFiniteSet(P) /\ new \notin P
  BY <1>1, <1>2, <1>3, FS_Subset
<1>8. Cardinality(P) \in Nat /\ Cardinality(P \cup {new}) = Cardinality(P) + 1
  BY <1>7, FS_CardinalityType, FS_AddElement
<1>9. Q = IF IsReceive(f) /\ f.at = run THEN P \cup {new} ELSE P
  <2>1. \A i : i \in Q <=> i \in P \/ (i = new /\ IsReceive(f) /\ f.at = run)
    BY <1>1, <1>4, <1>5, <1>6
  <2> QED
    BY <2>1
<1>10. HereAt(fs, run) = Cardinality(P) /\ HereAt(gs, run) = Cardinality(Q)
  BY DEF HereAt, P, Q
<1> QED
  BY <1>8, <1>9, <1>10 DEF gs

\* A session that has received nothing in this run.
LEMMA HereNothing ==
  ASSUME NEW fs, NEW run, \A i \in DOMAIN fs : IsReceive(fs[i]) => fs[i].at # run
  PROVE  HereAt(fs, run) = 0
<1>1. {i \in ReceivePositions(fs) : fs[i].at = run} = {}
  BY DEF ReceivePositions
<1> QED
  BY <1>1, FS_EmptySet DEF HereAt

(***************************************************************************)
(* How far the file lags behind what a session received: by nothing, but   *)
(* for the frame whose Save has not returned, or failed and ended the      *)
(* session. A later Save of any session makes up for it.                   *)
(***************************************************************************)
Lag(s) ==
  LET saved == HereAt(file.frames[s], epoch)
      here == HereAt(frames[s], epoch)
  IN  saved = here \/ (pc[s] \in {"saveFrame", "done"} /\ saved = here - 1)

LagInv == process # "down" /\ file # Torn => \A s \in Sess : Lag(s)

\* A session that neither receives nor leaves its failed Save.
LEMMA LagStays ==
  ASSUME NEW t \in Sess, Lag(t), UNCHANGED <<file, epoch, frames[t]>>,
         pc[t] \in {"saveFrame", "done"} => pc'[t] \in {"saveFrame", "done"}
  PROVE  Lag(t)'
BY DEF Lag

\* What a step of a goroutine does to its own lag.
LEMMA StepLag ==
  ASSUME NEW s \in Sess, CommandInv, Step(s), Lag(s), UNCHANGED file
  PROVE  Lag(s)'
<1>1. UNCHANGED epoch /\ epoch \in Nat /\ pc \in [Sess -> PC] /\ frames \in [Sess -> Seq(Frame)]
  BY NextStays DEF Next, CommandInv, IInv, TypeOK
<1>2. CASE Reset(s)
  <2>1. pc[s] = "reset" /\ Before(s)
    BY <1>2 DEF Reset, CommandInv, FramesInv, SessionInv, BeforeReset
  <2>2. HereAt(frames[s], epoch) = 0
    <3>1. \A i \in DOMAIN frames[s] : frames[s][i] \in Frame
      BY <1>1
    <3>2. \A i \in DOMAIN frames[s] : frames[s][i].at # epoch
      BY <1>1, <2>1, <3>1 DEF Before, Captured, Frame
    <3> QED
      BY <3>2, HereNothing
  <2>3. HereAt(frames'[s], epoch) = 0
    <3>1. frames'[s] = MaskInPlace(Sends(frames[s]))
      BY <1>1, <1>2 DEF Reset
    <3>2. \A i \in DOMAIN frames'[s] : ~IsReceive(frames'[s][i])
      <4>1. pc'[s] \in {"done", "saveReset"} /\ call' = "running" /\ call = "running"
            /\ result' = result
        BY <1>1, <1>2 DEF Reset, Goto, Fail
      <4>2. /\ Sends(frames[s]) \in Seq(Frame)
            /\ \A k \in DOMAIN Sends(frames[s]) : IsSend(Sends(frames[s])[k])
        BY <1>1, SendsType
      <4>3. /\ DOMAIN MaskInPlace(Sends(frames[s])) = DOMAIN Sends(frames[s])
            /\ \A k \in DOMAIN Sends(frames[s]) : IsSend(MaskInPlace(Sends(frames[s]))[k])
        BY <4>2, MaskInPlaceType
      <4>4. \A i \in DOMAIN frames'[s] : ValidFrame(frames'[s][i])
        <5>1. FramesInv'
          BY <1>2, ResetFramesInv DEF CommandInv
        <5>2. result.outcome = "none"
          BY <4>1 DEF CommandInv, FramesInv
        <5> QED
          BY <4>1, <5>1, <5>2 DEF FramesInv, FramesStayValid
      <4> QED
        BY <3>1, <4>3, <4>4 DEF ValidFrame
    <3> QED
      BY <3>2, HereNothing
  <2> QED
    BY <1>1, <2>1, <2>2, <2>3 DEF Lag
<1>3. CASE Commit(s)
  <2> DEFINE f == inflight[s].frame
  <2>1. /\ pc[s] \in {"commit", "commitUnsub"}
        /\ pc'[s] = (IF pc[s] = "commit" THEN "saveFrame" ELSE "saveUnsub")
    BY <1>1, <1>3 DEF Commit, Goto
  <2>2. f \in Frame /\ (pc[s] = "commitUnsub" => ~IsReceive(f))
    BY <2>1 DEF CommandInv, IInv, ReadyInv, InFlight, Committing, FramesInv, SessionInv
  <2>3. frames'[s] = Append(frames[s], f)
    <3>1. frames' = [frames EXCEPT ![s] = Append(frames[s], f)]
      BY <1>1, <1>3 DEF Commit
    <3> HIDE DEF f
    <3> QED
      BY <1>1, <3>1
  <2>4. HereAt(file.frames[s], epoch) = HereAt(frames[s], epoch)
    BY <2>1 DEF Lag
  <2> HIDE DEF f
  <2>5. /\ HereAt(frames[s], epoch) \in Nat
        /\ HereAt(frames'[s], epoch) \in {HereAt(frames[s], epoch), HereAt(frames[s], epoch) + 1}
        /\ ~IsReceive(f) => HereAt(frames'[s], epoch) = HereAt(frames[s], epoch)
    BY <1>1, <2>2, <2>3, HereAppend
  <2> QED
    BY <1>1, <2>1, <2>2, <2>4, <2>5 DEF Lag
<1>4. CASE ~Reset(s) /\ ~Commit(s)
  <2>1. UNCHANGED frames /\ (pc[s] \notin {"saveFrame", "done"} \/ UNCHANGED pc)
    <3>1. CASE Locking(s) \/ Private(s) \/ ReadEnds(s)
      BY <1>4, <3>1 DEF Locking, Private, ReadEnds, Count, Check, AwaitNothing, AwaitAnswer,
                        ReadTimeout, shared
    <3>2. CASE Read(s) \/ Expire(s)
      BY <3>2 DEF Read, Receive, Panic, ReadTimeout, ReadFails, AwaitAnswer, Expire, shared, local
    <3>3. CASE \E ok \in BOOLEAN : Bounded(s, ok) \/ Write(s, ok)
      BY <3>3 DEF Bounded, Write, Dial, WriteClose, Send, Unsub, shared
    <3> QED
      BY <3>1, <3>2, <3>3 DEF Step
  <2> QED
    BY <1>1, <2>1, LagStays
<1> QED
  BY <1>2, <1>3, <1>4

\* Another goroutine's step.
LEMMA OtherLag ==
  ASSUME NEW s \in Sess, CommandInv, Step(s), NEW t \in Sess \ {s}, Lag(t), UNCHANGED file
  PROVE  Lag(t)'
<1>1. [Next]_vars
  BY DEF Next
<1>2. UNCHANGED <<pc[t], frames[t]>>
  <2>1. CASE Acts(s)
    BY <2>1, ActsElsewhere DEF CommandInv, Untouched
  <2>2. CASE Expire(s) \/ \E m \in Messages : Panic(s, m)
    BY <2>2 DEF Expire, Panic, shared, local
  <2>3. Acts(s) \/ Expire(s) \/ \E m \in Messages : Panic(s, m)
    BY DEF Step, Locking, Private, ReadEnds, Read, Bounded, Write, Acts
  <2> QED
    BY <2>1, <2>2, <2>3
<1>3. UNCHANGED epoch
  BY <1>1, NextStays
<1> QED
  BY <1>2, <1>3, LagStays

\* The file was just written: it holds what memory holds.
LEMMA SnapshotLag == ASSUME file' = Snapshot, UNCHANGED frames PROVE LagInv'
<1>1. file'.frames = frames'
  BY DEF Snapshot
<1> QED
  BY <1>1 DEF LagInv, Lag

LEMMA RunsLag == CommandInv /\ LagInv /\ Runs => LagInv'
<1> SUFFICES ASSUME CommandInv, LagInv, Runs PROVE LagInv'
  OBVIOUS
<1>1. UNCHANGED epoch
  BY RunsAreNext, NextStays
<1>2. ASSUME UNCHANGED <<vars, file>>, process' # "down" => process # "down" PROVE LagInv'
  BY <1>2 DEF LagInv, Lag, vars, shared, local, record
<1>3. CASE Record
  <2>1. UNCHANGED <<file, process>>
    BY <1>3 DEF Record, disk
  <2>2. ASSUME process # "down", file # Torn, NEW t \in Sess PROVE Lag(t)'
    <3>1. Lag(t)
      BY <2>2 DEF LagInv
    <3>2. CASE Validate \/ Return \/ Interrupt
      <4>1. UNCHANGED frames /\ (UNCHANGED pc \/ pc[t] = "idle")
        BY <3>2 DEF Validate, Return, Interrupt, shared, local, CommandInv, IInv, ReadyInv
      <4> QED
        BY <1>1, <2>1, <3>1, <4>1, LagStays
    <3>3. ASSUME NEW s \in Sess, Step(s) PROVE Lag(t)'
      BY <2>1, <3>1, <3>3, StepLag, OtherLag
    <3> QED
      BY <1>3, <3>2, <3>3 DEF Record
  <2> QED
    BY <2>1, <2>2 DEF LagInv
<1>4. CASE Truncate
  BY <1>4 DEF Truncate, LagInv, Torn
<1>5. CASE Finish \/ NoMoreRuns
  BY <1>2, <1>5 DEF Finish, NoMoreRuns, allVars, disk
<1>6. ASSUME NEW s \in Sess, NEW ok \in BOOLEAN, Save(s, ok) PROVE LagInv'
  <2>1. UNCHANGED <<frames, process>> /\ pc \in [Sess -> PC]
    BY <1>6 DEF Save, Saved, SaveReset, SaveFrame, SaveUnsub, shared, CommandInv, IInv, TypeOK
  <2>2. CASE ok
    BY <1>6, <2>1, <2>2, SnapshotLag DEF Save, WriteReturns
  <2>3. CASE ~ok
    <3>1. UNCHANGED file
      BY <1>6, <2>3 DEF Save, WriteReturns
    <3>2. pc[s] \in {"saveFrame", "done"} => pc'[s] = "done"
      BY <1>6, <2>1, <2>3 DEF Save, Saved, SaveReset, SaveFrame, SaveUnsub, Fail
    <3>3. \A t \in Sess \ {s} : pc'[t] = pc[t]
      BY <1>6, <2>1 DEF Save, Saved, SaveReset, SaveFrame, SaveUnsub, Fail, Goto
    <3>4. \A t \in Sess : pc[t] \in {"saveFrame", "done"} => pc'[t] \in {"saveFrame", "done"}
      BY <3>2, <3>3
    <3> QED
      BY <1>1, <2>1, <3>1, <3>4, LagStays DEF LagInv
  <2> QED
    BY <2>2, <2>3
<1> QED
  BY <1>3, <1>4, <1>5, <1>6 DEF Runs

LEMMA NextLag == CommandInv /\ LagInv /\ [CommandNext]_allVars => LagInv'
<1> SUFFICES ASSUME CommandInv, LagInv, [CommandNext]_allVars PROVE LagInv'
  OBVIOUS
<1>1. CASE UNCHANGED allVars
  BY <1>1 DEF allVars, vars, disk, shared, record, local, LagInv, Lag
<1>2. CASE Load
  <2>1. file'.frames = frames'
    BY <1>2 DEF Load
  <2> QED
    BY <2>1 DEF LagInv, Lag
<1>3. CASE LoadFails \/ Crash \/ \E ok \in BOOLEAN : Exit(ok)
  BY <1>3 DEF LoadFails, Crash, Exit, Gone, disk, LagInv
<1> QED
  BY <1>1, <1>2, <1>3, RunsLag DEF CommandNext, Runs

(***************************************************************************)
(* The file is torn only while a write is behind its truncation, or was    *)
(* left there by a write that failed: what such a write leaves behind is   *)
(* an error of its session or, for an unsubscribe, no trace but that there *)
(* was one to send.                                                        *)
(***************************************************************************)
TornInv ==
  /\ \A s \in Sess : pc[s] \in {"commitUnsub", "saveUnsub"} => Unsubscribe[s] # Nil
  /\ process # "down" /\ file = Torn => BehindTruncation

\* Nothing a goroutine does takes back an error or the end of a closing.
LEMMA StepTorn ==
  ASSUME NEW s \in Sess, IInv, Step(s) \/ \E ok \in BOOLEAN : Saved(s, ok), TornInv
  PROVE  /\ \A t \in Sess : pc'[t] \in {"commitUnsub", "saveUnsub"} => Unsubscribe[t] # Nil
         /\ \A t \in Sess : failed[t] => failed'[t]
         /\ \A t \in Sess : pc[t] \in {"close", "await", "done"}
              => pc'[t] \in {"close", "await", "done"}
<1>1. /\ pc \in [Sess -> PC] /\ failed \in [Sess -> BOOLEAN]
  BY DEF IInv, TypeOK
<1>2. CASE Expire(s) \/ \E m \in Messages : Panic(s, m)
  BY <1>2 DEF Expire, Panic, local, TornInv
<1>3. CASE Acts(s)
  <2>1. \/ Fail(s)
        \/ \E label : Goto(s, label) /\ (label \in {"commitUnsub", "saveUnsub"} => Unsubscribe[s] # Nil)
                                     /\ (pc[s] \in {"close", "await", "done"} => label \in {"await", "done"})
    <3>1. CASE \/ Count(s) \/ Reset(s) \/ Check(s) \/ ReadTimeout(s) \/ ReadFails(s)
               \/ \E m \in Messages : Receive(s, m)
      BY <3>1, Zenon DEF Count, Reset, Check, ReadTimeout, ReadFails, Receive, EndListen
    <3>2. CASE AwaitNothing(s) \/ \E how \in {"handshake", "broken", "grace"} : AwaitAnswer(s, how)
      BY <3>2, Zenon DEF AwaitNothing, AwaitAnswer
    <3>3. CASE Commit(s)
      <4>1. Goto(s, IF pc[s] = "commit" THEN "saveFrame" ELSE "saveUnsub")
            /\ pc[s] \in {"commit", "commitUnsub"}
        BY <3>3 DEF Commit
      <4>2. CASE pc[s] = "commit"
        BY <4>1, <4>2
      <4>3. CASE pc[s] = "commitUnsub"
        BY <4>1, <4>3 DEF TornInv
      <4> QED
        BY <4>1, <4>2, <4>3
    <3>4. ASSUME NEW ok \in BOOLEAN,
                 Dial(s, ok) \/ SaveReset(s, ok) \/ Send(s, ok) \/ SaveFrame(s, ok) \/ SaveUnsub(s, ok)
                   \/ WriteClose(s, ok)
          PROVE  Fail(s) \/ \E label \in {"reset", "send", "listen", "close", "await"} :
                              Goto(s, label) /\ (pc[s] \in {"close", "await", "done"} => label = "await")
      BY <3>4, Zenon DEF Dial, SaveReset, Send, SaveFrame, SaveUnsub, WriteClose
    <3>5. ASSUME NEW ok \in BOOLEAN, Unsub(s, ok)
          PROVE  \/ Goto(s, "close") \/ (Goto(s, "commitUnsub") /\ Unsubscribe[s] # Nil)
      BY <3>5, Zenon DEF Unsub
    <3>6. ASSUME NEW ok \in BOOLEAN, Unsub(s, ok) PROVE pc[s] = "unsub"
      BY <3>6 DEF Unsub
    <3> QED
      BY <1>3, <3>1, <3>2, <3>3, <3>4, <3>5, <3>6 DEF Acts
  <2>2. CASE Fail(s)
    BY <1>1, <2>2 DEF Fail, TornInv
  <2>3. ASSUME NEW label, Goto(s, label),
               label \in {"commitUnsub", "saveUnsub"} => Unsubscribe[s] # Nil,
               pc[s] \in {"close", "await", "done"} => label \in {"await", "done"}
        PROVE  /\ \A t \in Sess : pc'[t] \in {"commitUnsub", "saveUnsub"} => Unsubscribe[t] # Nil
               /\ \A t \in Sess : failed[t] => failed'[t]
               /\ \A t \in Sess : pc[t] \in {"close", "await", "done"}
                    => pc'[t] \in {"close", "await", "done"}
    BY <1>1, <2>3 DEF Goto, TornInv
  <2> QED
    BY <2>1, <2>2, <2>3
<1>4. Acts(s) \/ Expire(s) \/ \E m \in Messages : Panic(s, m)
  BY DEF Step, Saved, Locking, Private, ReadEnds, Read, Bounded, Write, Acts
<1> QED
  BY <1>2, <1>3, <1>4

\* A write that fails leaves its trace; one that succeeds leaves no torn file.
LEMMA SaveTorn ==
  ASSUME NEW s \in Sess, NEW ok \in BOOLEAN, CommandInv, TornInv, Save(s, ok)
  PROVE  file' = Torn => BehindTruncation'
<1>1. /\ pc \in [Sess -> PC] /\ failed \in [Sess -> BOOLEAN] /\ uri \in [Sess -> URI]
  BY DEF CommandInv, IInv, TypeOK
<1>2. CASE ok
  <2>1. file'.uri = uri
    BY <1>2 DEF Save, WriteReturns, Snapshot
  <2>2. file' = Torn => file'.uri = Nil
    BY DEF Torn
  <2> QED
    BY <1>1, <2>1, <2>2, TornAssumption
<1>3. CASE ~ok
  <2>1. CASE SaveReset(s, ok) \/ SaveFrame(s, ok)
    <3>1. failed'[s]
      BY <1>1, <1>3, <2>1 DEF SaveReset, SaveFrame, Fail
    <3> QED
      BY <3>1 DEF BehindTruncation
  <2>2. CASE SaveUnsub(s, ok)
    <3>1. pc'[s] = "close" /\ Unsubscribe[s] # Nil
      BY <1>1, <2>2 DEF SaveUnsub, Goto, TornInv
    <3> QED
      BY <3>1 DEF BehindTruncation
  <2> QED
    BY <2>1, <2>2 DEF Save, Saved
<1> QED
  BY <1>2, <1>3

LEMMA NextTorn == CommandInv /\ TornInv /\ [CommandNext]_allVars => TornInv'
<1> SUFFICES ASSUME CommandInv, TornInv, [CommandNext]_allVars PROVE TornInv'
  OBVIOUS
<1>1. CASE \/ UNCHANGED allVars \/ LoadFails \/ Finish \/ NoMoreRuns
  <2>1. /\ UNCHANGED <<pc, failed, file, writing>> /\ (process' # "down" => process # "down")
    BY <1>1 DEF LoadFails, Finish, NoMoreRuns, allVars, vars, disk, local
  <2> QED
    BY <2>1 DEF TornInv, BehindTruncation, Torn
<1>2. CASE Load \/ Crash \/ \E ok \in BOOLEAN : Exit(ok)
  <2>1. \A s \in Sess : pc'[s] = "idle"
    BY <1>2 DEF Load, Crash, Exit, Gone, Fresh
  <2>2. process' = "down" \/ file' # Torn
    BY <1>2 DEF Load, Crash, Exit, Gone
  <2> QED
    BY <2>1, <2>2 DEF TornInv, Torn
<1>3. CASE Truncate
  BY <1>3 DEF Truncate, TornInv, BehindTruncation, vars, local
<1>4. CASE Record
  <2>1. UNCHANGED <<file, process, writing>>
    BY <1>4 DEF Record, disk
  <2>2. /\ \A t \in Sess : pc'[t] \in {"commitUnsub", "saveUnsub"} => Unsubscribe[t] # Nil
        /\ \A t \in Sess : failed[t] => failed'[t]
        /\ \A t \in Sess : pc[t] \in {"close", "await", "done"}
             => pc'[t] \in {"close", "await", "done"}
    <3>1. CASE Validate
      <4>1. UNCHANGED failed /\ \A t \in Sess : pc[t] = "idle" /\ pc'[t] \in {"idle", "count"}
        BY <3>1 DEF Validate, CommandInv, IInv, ReadyInv
      <4> QED
        BY <4>1
    <3>2. CASE Return \/ Interrupt
      BY <3>2 DEF Return, Interrupt, local, TornInv
    <3>3. ASSUME NEW s \in Sess, Step(s)
          PROVE  /\ \A t \in Sess : pc'[t] \in {"commitUnsub", "saveUnsub"} => Unsubscribe[t] # Nil
                 /\ \A t \in Sess : failed[t] => failed'[t]
                 /\ \A t \in Sess : pc[t] \in {"close", "await", "done"}
                      => pc'[t] \in {"close", "await", "done"}
      BY <3>3, StepTorn DEF CommandInv
    <3> QED
      BY <1>4, <3>1, <3>2, <3>3 DEF Record
  <2> QED
    BY <2>1, <2>2 DEF TornInv, BehindTruncation, Torn
<1>5. ASSUME NEW s \in Sess, NEW ok \in BOOLEAN, Save(s, ok) PROVE TornInv'
  <2>1. \A t \in Sess : pc'[t] \in {"commitUnsub", "saveUnsub"} => Unsubscribe[t] # Nil
    BY <1>5, StepTorn DEF Save, CommandInv
  <2> QED
    BY <1>5, <2>1, SaveTorn DEF TornInv
<1> QED
  BY <1>1, <1>2, <1>3, <1>4, <1>5 DEF CommandNext

(***************************************************************************)
(* What anyone finds in the sessions file, at any moment of any of the     *)
(* runs.                                                                   *)
(***************************************************************************)
LEMMA CommandHolds == CommandSpec => [](CommandInv /\ LagInv /\ TornInv)
<1>1. CommandInit => CommandInv /\ LagInv /\ TornInv
  BY InitCommandInv DEF CommandInit, CallInit, LagInv, TornInv
<1>2. (CommandInv /\ LagInv /\ TornInv) /\ [CommandNext]_allVars
        => (CommandInv /\ LagInv /\ TornInv)'
  BY NextCommandInv, NextLag, NextTorn
<1> QED
  BY <1>1, <1>2, PTL DEF CommandSpec

\* The inductive invariant of the runs over one file: what is known of a call of
\* Record holds in each of them, and what is in the file could have been left
\* by one of the runs so far (main.go:68-124; file.go:15-49).
THEOREM CommandInductive == CommandSpec => []CommandInv
BY CommandHolds, PTL

\* The file is torn, or a next run can load it (file.go:15-49).
THEOREM FileTypeCorrect == CommandSpec => []DiskTypeOK
<1>1. CommandInv => DiskTypeOK
  BY DEF CommandInv
<1> QED
  BY <1>1, CommandInductive, PTL

\* No file mixes the captures of two connections, whichever runs were killed
\* between Reset and the first frame (record.go:57-60, 193-212).
THEOREM FileKeepsOneClock == CommandSpec => []OneClockOnDisk
<1>1. CommandInv => OneClockOnDisk
  BY DEF CommandInv, FileInv, OneClockOnDisk, Captured
<1> QED
  BY <1>1, CommandInductive, PTL

\* Whatever way a run ends, no frame it received is in the file unmasked
\* (record.go:31, 176-190; mask.go:246-248).
THEOREM FileIsMasked == CommandSpec => []MaskedOnDisk
<1>1. CommandInv => MaskedOnDisk
  BY DEF CommandInv, FileInv, MaskedOnDisk, Captured, ReceivePositions
<1> QED
  BY <1>1, CommandInductive, PTL

\* While a process runs, the file lacks at most the frame a session has in
\* flight and never holds one that was not received: between the moment a message
\* has been read and the return of its Save it is one behind, and a Save that
\* failed ends its session (record.go:40-43, 271-276; main.go:97-99). Else it is
\* torn, and then a write is behind its truncation (file.go:48) or failed there:
\* only there does a crash lose more.
THEOREM LossIsBounded == CommandSpec => []LossBounded
<1>1. CommandInv /\ LagInv /\ TornInv => LossBounded
  <2> SUFFICES ASSUME CommandInv, LagInv, process # "down", file # Torn, NEW s \in Sess
               PROVE  LET received == Here(frames[s]) + (IF pc[s] = "commit" THEN 1 ELSE 0)
                      IN  Here(file.frames[s]) \in {received - 1, received}
    BY DEF LossBounded, TornInv
  <2>1. \A fs : Here(fs) = HereAt(fs, epoch)
    BY DEF Here, HereAt
  <2>2. HereAt(frames[s], epoch) \in Nat
    <3>1. frames[s] \in Seq(Frame)
      BY DEF CommandInv, IInv, TypeOK
    <3>2. IsFiniteSet(ReceivePositions(frames[s]))
      BY <3>1, CountReceivedType
    <3>3. {i \in ReceivePositions(frames[s]) : frames[s][i].at = epoch}
            \in SUBSET ReceivePositions(frames[s])
      OBVIOUS
    <3> QED
      BY <3>2, <3>3, FS_Subset, FS_CardinalityType DEF HereAt
  <2>3. Lag(s)
    BY DEF LagInv
  <2> QED
    BY <2>1, <2>2, <2>3 DEF Lag
<1> QED
  BY <1>1, CommandHolds, PTL

-----------------------------------------------------------------------------
(***************************************************************************)
(* A rerun over the same file loses nothing that was authored, and does    *)
(* not record again what is there.                                         *)
(*                                                                         *)
(* The authored frames. They are the first send frames wherever the frames *)
(* of a session are held: Reset keeps the send frames and masks them again *)
(* in place, which changes nothing that was masked, and whatever a run     *)
(* appends comes after them.                                               *)
(***************************************************************************)
Carries(fs, given) ==
  /\ Len(given) <= Len(Sends(fs))
  /\ \A k \in DOMAIN given : MaskValue(Sends(fs)[k].send) = MaskValue(given[k].send)

AuthoredInv ==
  /\ authored \in [Sess -> Seq(Frame)]
  /\ file # Torn => \A s \in Sess : Carries(file.frames[s], authored[s])
  /\ process # "down" => \A s \in Sess : Carries(frames[s], authored[s])

LEMMA FramesHaveLength ==
  ASSUME NEW fs \in Seq(Frame)
  PROVE  Len(fs) \in Nat /\ DOMAIN fs = 1..Len(fs) /\ \A k \in DOMAIN fs : fs[k] \in Frame
OBVIOUS

LEMMA CarriesAppend ==
  ASSUME NEW fs \in Seq(Frame), NEW given \in Seq(Frame), NEW f \in Frame, Carries(fs, given)
  PROVE  Carries(Append(fs, f), given)
<1> DEFINE gs == Append(fs, f)
<1>1. /\ Len(Sends(fs)) <= Len(Sends(gs))
      /\ \A k \in DOMAIN Sends(fs) : Sends(gs)[k] = Sends(fs)[k]
  BY SendsAppend
<1>2. gs \in Seq(Frame)
  OBVIOUS
<1> HIDE DEF gs
<1>3. Sends(fs) \in Seq(Frame) /\ Sends(gs) \in Seq(Frame)
  BY <1>2, SendsType
<1>4. /\ Len(Sends(fs)) \in Nat /\ DOMAIN Sends(fs) = 1..Len(Sends(fs))
      /\ Len(given) \in Nat /\ DOMAIN given = 1..Len(given)
      /\ Len(Sends(gs)) \in Nat
  BY <1>3, FramesHaveLength
<1>5. Len(given) <= Len(Sends(gs)) /\ \A k \in DOMAIN given : k \in DOMAIN Sends(fs)
  BY <1>1, <1>4 DEF Carries
<1> QED
  BY <1>1, <1>5 DEF Carries, gs

LEMMA CarriesReset ==
  ASSUME NEW fs \in Seq(Frame), NEW given \in Seq(Frame), Carries(fs, given)
  PROVE  Carries(MaskInPlace(Sends(fs)), given)
<1> DEFINE kept == Sends(fs)
           gs == MaskInPlace(kept)
<1>1. kept \in Seq(Frame) /\ \A k \in DOMAIN kept : IsSend(kept[k])
  BY SendsType
<1>2. \A k \in DOMAIN kept : gs[k] \in {kept[k], MaskFrame(kept[k])}
  BY DEF MaskInPlace
<1> HIDE DEF kept
<1>3. /\ gs \in Seq(Frame) /\ DOMAIN gs = DOMAIN kept
      /\ \A k \in DOMAIN gs : IsSend(gs[k])
  BY <1>1, MaskInPlaceType
<1> HIDE DEF gs
<1>4. Len(Sends(gs)) = Len(gs) /\ \A k \in DOMAIN gs : Sends(gs)[k] = gs[k]
  BY <1>3, SendsOfSends
<1>5. /\ Len(given) \in Nat /\ DOMAIN given = 1..Len(given)
      /\ Len(kept) \in Nat /\ DOMAIN kept = 1..Len(kept)
      /\ Len(gs) \in Nat /\ DOMAIN gs = 1..Len(gs)
      /\ \A k \in DOMAIN kept : kept[k] \in Frame
  BY <1>1, <1>3, FramesHaveLength
<1>0. Len(gs) = Len(kept)
  BY <1>3, <1>5
<1>6. Len(given) <= Len(kept)
      /\ \A k \in DOMAIN given : MaskValue(kept[k].send) = MaskValue(given[k].send)
  BY DEF Carries, kept
<1>7. ASSUME NEW k \in DOMAIN given PROVE MaskValue(Sends(gs)[k].send) = MaskValue(given[k].send)
  <2>1. k \in DOMAIN kept /\ kept[k] \in Frame /\ kept[k].send \in Payload \cup {Nil}
    <3>1. k \in DOMAIN kept
      BY <1>5, <1>6
    <3> QED
      BY <1>5, <3>1 DEF Frame
  <2>2. gs[k].send \in {kept[k].send, MaskValue(kept[k].send)}
    BY <1>2, <2>1, MaskFrameFields
  <2>3. MaskValue(gs[k].send) = MaskValue(kept[k].send)
    BY <2>1, <2>2, MaskValueTwice
  <2> QED
    BY <1>3, <1>4, <1>6, <2>1, <2>3
<1> QED
  BY <1>0, <1>4, <1>6, <1>7 DEF Carries, gs, kept

LEMMA RunsAuthored == CommandInv /\ AuthoredInv /\ Runs => AuthoredInv'
<1> SUFFICES ASSUME CommandInv, AuthoredInv, Runs PROVE AuthoredInv'
  OBVIOUS
<1>1. [Next]_vars
  BY RunsAreNext
<1>2. /\ UNCHANGED authored
      /\ process' # "down" => process # "down"
      /\ \/ UNCHANGED file
         \/ file' = Torn
         \/ file' = Snapshot /\ UNCHANGED frames /\ process # "down"
  <2>1. CASE Record \/ Truncate \/ Finish \/ NoMoreRuns
    BY <2>1 DEF Record, Truncate, Finish, NoMoreRuns, allVars, disk
  <2>2. CASE \E ok \in BOOLEAN, s \in Sess : Save(s, ok)
    BY <2>2 DEF Save, WriteReturns, Saved, SaveReset, SaveFrame, SaveUnsub, shared
  <2> QED
    BY <2>1, <2>2 DEF Runs
<1>3. frames \in [Sess -> Seq(Frame)]
  BY DEF CommandInv, IInv, TypeOK
<1>4. ASSUME process # "down", NEW s \in Sess PROVE Carries(frames'[s], authored[s])
  <2>1. Carries(frames[s], authored[s]) /\ authored[s] \in Seq(Frame)
    BY <1>4 DEF AuthoredInv
  <2>2. CASE UNCHANGED frames
    BY <2>1, <2>2
  <2>3. ASSUME NEW t \in Sess, Reset(t) PROVE Carries(frames'[s], authored[s])
    <3>1. frames' = [frames EXCEPT ![t] = MaskInPlace(Sends(frames[t]))]
      BY <2>3 DEF Reset
    <3>2. frames'[s] = IF s = t THEN MaskInPlace(Sends(frames[s])) ELSE frames[s]
      BY <1>3, <3>1
    <3> QED
      BY <1>3, <2>1, <3>2, CarriesReset
  <2>4. ASSUME NEW t \in Sess, Commit(t) PROVE Carries(frames'[s], authored[s])
    <3> DEFINE f == inflight[t].frame
    <3>1. f \in Frame
      BY <2>4 DEF Commit, CommandInv, IInv, ReadyInv, InFlight, Committing
    <3>2. frames' = [frames EXCEPT ![t] = Append(frames[t], f)]
      BY <1>3, <2>4 DEF Commit
    <3> HIDE DEF f
    <3>3. frames'[s] = IF s = t THEN Append(frames[s], f) ELSE frames[s]
      BY <1>3, <3>2
    <3> QED
      BY <1>3, <2>1, <3>1, <3>3, CarriesAppend
  <2> QED
    BY <1>1, <2>2, <2>3, <2>4, FramesMove
<1>5. ASSUME file' # Torn, NEW s \in Sess PROVE Carries(file'.frames[s], authored[s])
  <2>1. CASE UNCHANGED file
    BY <1>5, <2>1 DEF AuthoredInv
  <2>2. CASE file' = Snapshot /\ UNCHANGED frames /\ process # "down"
    <3>1. file'.frames = frames
      BY <2>2 DEF Snapshot
    <3> QED
      BY <2>2, <3>1 DEF AuthoredInv
  <2> QED
    BY <1>2, <1>5, <2>1, <2>2
<1>6. file' # Torn => \A s \in Sess : Carries(file'.frames[s], authored'[s])
  BY <1>2, <1>5
<1>7. process' # "down" => \A s \in Sess : Carries(frames'[s], authored'[s])
  BY <1>2, <1>4
<1> QED
  BY <1>2, <1>6, <1>7 DEF AuthoredInv, Torn

LEMMA NextAuthored == CommandInv /\ AuthoredInv /\ [CommandNext]_allVars => AuthoredInv'
<1> SUFFICES ASSUME CommandInv, AuthoredInv, [CommandNext]_allVars PROVE AuthoredInv'
  OBVIOUS
<1>1. CASE UNCHANGED allVars
  BY <1>1 DEF allVars, vars, disk, shared, AuthoredInv, Torn
<1>2. CASE Load
  BY <1>2 DEF Load, AuthoredInv, Torn
<1>3. CASE LoadFails
  BY <1>3 DEF LoadFails, disk, AuthoredInv, Torn
<1>4. CASE Crash
  BY <1>4 DEF Crash, Gone, AuthoredInv, Torn
<1>5. CASE \E ok \in BOOLEAN : Exit(ok)
  <2>1. UNCHANGED authored /\ process' = "down" /\ process # "down"
        /\ (UNCHANGED file \/ file' = Snapshot)
    BY <1>5 DEF Exit, WriteReturns, Gone
  <2>2. CASE UNCHANGED file
    BY <2>1, <2>2 DEF AuthoredInv, Torn
  <2>3. CASE file' = Snapshot
    <3>1. file'.frames = frames
      BY <2>3 DEF Snapshot
    <3> QED
      BY <2>1, <3>1 DEF AuthoredInv
  <2> QED
    BY <2>1, <2>2, <2>3
<1> QED
  BY <1>1, <1>2, <1>3, <1>4, <1>5, RunsAuthored DEF CommandNext, Runs

LEMMA InitAuthored == CommandInit => AuthoredInv
<1> SUFFICES ASSUME CommandInit PROVE AuthoredInv
  OBVIOUS
<1>1. \A s \in Sess : file.frames[s] \in Seq(Frame) /\ authored[s] = Sends(file.frames[s])
  BY StartAssumption DEF CommandInit
<1>2. ASSUME NEW fs \in Seq(Frame) PROVE Sends(fs) \in Seq(Frame) /\ Carries(fs, Sends(fs))
  <2>1. Sends(fs) \in Seq(Frame)
    BY SendsType
  <2>2. Len(Sends(fs)) \in Nat
    BY <2>1
  <2> QED
    BY <2>1, <2>2 DEF Carries
<1>3. authored \in [Sess -> Seq(Frame)]
  BY <1>1, <1>2 DEF CommandInit
<1>4. process = "down"
  BY DEF CommandInit
<1> QED
  BY <1>1, <1>2, <1>3, <1>4 DEF AuthoredInv

\* What carries the authored frames has them first.
LEMMA CarriesLeads ==
  ASSUME NEW fs \in Seq(Frame), NEW given \in Seq(Frame), Carries(fs, given)
  PROVE  LeadsWith(fs, given)
<1> SUFFICES ASSUME NEW now, now = MaskedPayloads(Sends(fs))
             PROVE  /\ Len(now) >= Len(given)
                    /\ SubSeq(now, 1, Len(given)) = MaskedPayloads(given)
  BY DEF LeadsWith
<1>1. Sends(fs) \in Seq(Frame) /\ \A f \in Frame : f.send \in Payload \cup {Nil}
  BY SendsType DEF Frame
<1>2. DOMAIN Sends(fs) = 1..Len(Sends(fs)) /\ Len(Sends(fs)) \in Nat
      /\ DOMAIN given = 1..Len(given) /\ Len(given) \in Nat
  BY <1>1, FramesHaveLength
<1>3. now = [k \in 1..Len(Sends(fs)) |-> MaskValue(Sends(fs)[k].send)]
  BY <1>2 DEF MaskedPayloads
<1>4. now \in Seq(Payload \cup {Nil}) /\ Len(now) = Len(Sends(fs))
  <2>1. \A k \in 1..Len(Sends(fs)) : MaskValue(Sends(fs)[k].send) \in Payload \cup {Nil}
    BY <1>1, <1>2, MaskValueType
  <2> QED
    BY <1>2, <1>3, <2>1
<1>5. Len(given) <= Len(Sends(fs))
      /\ \A k \in 1..Len(given) : MaskValue(Sends(fs)[k].send) = MaskValue(given[k].send)
  BY <1>2 DEF Carries
<1>6. SubSeq(now, 1, Len(given)) = [k \in 1..Len(given) |-> now[k]]
  BY <1>2, <1>4, <1>5
<1>7. [k \in 1..Len(given) |-> now[k]] = MaskedPayloads(given)
  <2>1. \A k \in 1..Len(given) : now[k] = MaskValue(given[k].send)
    <3>1. \A k \in 1..Len(given) : k \in 1..Len(Sends(fs))
      BY <1>2, <1>5
    <3> QED
      BY <1>3, <1>5, <3>1
  <2>2. MaskedPayloads(given) = [k \in 1..Len(given) |-> MaskValue(given[k].send)]
    BY <1>2 DEF MaskedPayloads
  <2> QED
    BY <2>1, <2>2
<1> QED
  BY <1>2, <1>4, <1>5, <1>6, <1>7

\* Whatever fails, is killed or is run again, the frames the file was authored with
\* are in every file that can be loaded and in the memory of every process, and
\* nothing ever comes to be played before them (record.go:193-212;
\* sessions.go:126-137). Where a crash finds the file torn (file.go:48), both are
\* gone: that alone loses them.
THEOREM AuthoredFramesSurvive == CommandSpec => []AuthoredSurvive
<1>1. CommandInv /\ AuthoredInv => AuthoredSurvive
  <2> SUFFICES ASSUME CommandInv, AuthoredInv PROVE AuthoredSurvive
    OBVIOUS
  <2>1. ASSUME file # Torn, NEW s \in Sess PROVE LeadsWith(file.frames[s], authored[s])
    <3>1. file.frames[s] \in Seq(Frame) /\ authored[s] \in Seq(Frame)
          /\ Carries(file.frames[s], authored[s])
      BY <2>1 DEF CommandInv, FileInv, AuthoredInv
    <3> QED
      BY <3>1, CarriesLeads
  <2>2. ASSUME process # "down", NEW s \in Sess PROVE LeadsWith(frames[s], authored[s])
    <3>1. frames[s] \in Seq(Frame) /\ authored[s] \in Seq(Frame)
          /\ Carries(frames[s], authored[s])
      BY <2>2 DEF CommandInv, IInv, TypeOK, AuthoredInv
    <3> QED
      BY <3>1, CarriesLeads
  <2> QED
    BY <2>1, <2>2 DEF AuthoredSurvive
<1>2. (CommandInv /\ AuthoredInv) /\ [CommandNext]_allVars => (CommandInv /\ AuthoredInv)'
  BY NextCommandInv, NextAuthored
<1>3. CommandInit => CommandInv /\ AuthoredInv
  BY InitCommandInv, InitAuthored
<1> QED
  BY <1>1, <1>2, <1>3, PTL DEF CommandSpec

-----------------------------------------------------------------------------
(***************************************************************************)
(* A rerun skips what is complete. When a run ended well and complete, its *)
(* reports were true, so the frames it left satisfy its condition, and the *)
(* file holds those frames. A rerun that asks for the same finds them in   *)
(* every session, so no session gets past its count and nothing changes.   *)
(***************************************************************************)
Has(fs, u) ==
  LET had == CountReceived(fs, u.discriminator) IN Satisfied(u, had.count, had.seen)

\* Every session that ends has a report or an error.
ReportedInv ==
  /\ \A s \in Sess : pc[s] \in Closing \cup {"done"} => reports[s] # Nil \/ failed[s]
  /\ result.outcome = "reported" => \A s \in Sess : pc[s] = "done" /\ ~failed[s]

SettledInv ==
  settled # Nil /\ Asked(settled) =>
    /\ file # Torn => \A s \in Sess : Has(file.frames[s], settled)
    /\ process # "down" =>
         /\ until = settled
         /\ \A s \in Sess : pc[s] \in {"idle", "count", "done"} /\ Has(frames[s], settled)

SkipInv == CommandInv /\ TallyInv /\ ReportedInv /\ SettledInv

LEMMA EndListenReports ==
  ASSUME NEW s \in Sess, IInv, call = "running", EndListen(s)
  PROVE  reports'[s] # Nil /\ UNCHANGED failed
<1> DEFINE r == [NewSessionReport(until, tally[s].count, tally[s].seen)
                   EXCEPT !.notJSON = tally[s].notJSON]
<1>1. /\ until \in UntilType /\ reports \in [Sess -> Report \cup {Nil}]
      /\ tally[s].count \in Nat /\ tally[s].notJSON \in Nat /\ tally[s].seen \in [Kinds -> Nat]
  BY DEF IInv, ReadyInv, TypeOK, Tally
<1>2. r \in Report
  BY <1>1, NewReportType
<1>3. reports' = [reports EXCEPT ![s] = r]
  BY DEF EndListen
<1> HIDE DEF r
<1>4. reports'[s] = r
  BY <1>1, <1>3
<1> QED
  BY <1>2, <1>4, NoReportAssumption DEF EndListen, Goto

\* A goroutine comes to its end with a report or an error.
LEMMA ActsReports ==
  ASSUME NEW s \in Sess, IInv, ReportedInv, Acts(s), pc'[s] \in Closing \cup {"done"}
  PROVE  reports'[s] # Nil \/ failed'[s]
<1> USE DEF Closing
<1>0. /\ pc \in [Sess -> PC] /\ failed \in [Sess -> BOOLEAN] /\ call = "running"
      /\ reports \in [Sess -> Report \cup {Nil}]
  BY DEF IInv, TypeOK, Acts, Count, Reset, Commit, Check, ReadTimeout, ReadFails, AwaitNothing,
         Receive, AwaitAnswer, Dial, SaveReset, Send, SaveFrame, Unsub, SaveUnsub, WriteClose
<1>1. CASE Fail(s)
  BY <1>0, <1>1 DEF Fail
<1>2. CASE EndListen(s)
  BY <1>0, <1>2, EndListenReports
<1>3. CASE pc[s] \in Closing /\ UNCHANGED <<reports, failed>>
  BY <1>3 DEF ReportedInv
<1>4. CASE Count(s)
  <2> DEFINE had == CountReceived(frames[s], until.discriminator)
             r == [NewSessionReport(until, had.count, had.seen) EXCEPT !.skipped = TRUE]
  <2>1. until \in UntilType /\ frames[s] \in Seq(Frame) /\ until.discriminator \in BOOLEAN
    BY <1>0 DEF IInv, ReadyInv, TypeOK, UntilType
  <2>2. had.count \in Nat /\ had.seen \in [Kinds -> Nat]
    BY <2>1, CountReceivedType
  <2>3. r \in Report
    <3> HIDE DEF had
    <3> QED
      BY <2>1, <2>2, NewReportType
  <2>4. reports' = [reports EXCEPT ![s] = r]
    BY <1>0, <1>4 DEF Count, Goto
  <2> HIDE DEF r
  <2>5. reports'[s] = r
    BY <1>0, <2>4
  <2> QED
    BY <2>3, <2>5, NoReportAssumption
<1>5. CASE Check(s) \/ ReadTimeout(s) \/ ReadFails(s)
  <2>1. EndListen(s) \/ Fail(s) \/ pc'[s] = "read"
    BY <1>0, <1>5 DEF Check, ReadTimeout, ReadFails, Goto
  <2> QED
    BY <1>1, <1>2, <2>1
<1>6. CASE Reset(s) \/ \E m \in Messages : Receive(s, m)
  <2>1. Fail(s) \/ pc'[s] \in {"saveReset", "commit"}
    BY <1>0, <1>6 DEF Reset, Receive, Goto
  <2> QED
    BY <1>1, <2>1
<1>7. CASE \E ok \in BOOLEAN : Dial(s, ok) \/ SaveReset(s, ok) \/ Send(s, ok) \/ SaveFrame(s, ok)
  <2>1. Fail(s) \/ pc'[s] \in {"reset", "send", "listen"}
    BY <1>0, <1>7 DEF Dial, SaveReset, Send, SaveFrame, Goto
  <2> QED
    BY <1>1, <2>1
<1>8. CASE Commit(s)
  BY <1>0, <1>3, <1>8 DEF Commit, Goto
<1>9. CASE \/ AwaitNothing(s) \/ \E how \in {"handshake", "broken", "grace"} : AwaitAnswer(s, how)
           \/ \E ok \in BOOLEAN : Unsub(s, ok) \/ SaveUnsub(s, ok) \/ WriteClose(s, ok)
  BY <1>3, <1>9 DEF AwaitNothing, AwaitAnswer, Unsub, SaveUnsub, WriteClose, Goto
<1> QED
  BY <1>4, <1>5, <1>6, <1>7, <1>8, <1>9 DEF Acts

LEMMA NextIsActs ==
  Next => Validate \/ Return \/ Outside \/ Finished \/ \E s \in Sess : Acts(s)
<1> SUFFICES ASSUME Next, ~(Validate \/ Return \/ Outside \/ Finished)
             PROVE  \E s \in Sess : Acts(s)
  OBVIOUS
<1>1. PICK s \in Sess : Step(s) \/ \E ok \in BOOLEAN : Saved(s, ok)
  BY DEF Next, Outside
<1>2. ~Expire(s) /\ ~\E m \in Messages : Panic(s, m)
  BY DEF Outside
<1>3. Step(s) => Acts(s)
  BY <1>2 DEF Step, Locking, Private, ReadEnds, Read, Bounded, Write, Acts
<1>4. (\E ok \in BOOLEAN : Saved(s, ok)) => Acts(s)
  BY DEF Saved, Acts
<1> QED
  BY <1>1, <1>3, <1>4

LEMMA NextReported == IInv /\ FramesInv /\ ReportedInv /\ [Next]_vars => ReportedInv'
<1> SUFFICES ASSUME IInv, FramesInv, ReportedInv, [Next]_vars PROVE ReportedInv'
  OBVIOUS
<1>1. CASE Finished \/ UNCHANGED vars
  BY <1>1 DEF Finished, vars, local, record, ReportedInv
<1>2. CASE Outside
  BY <1>2 DEF Outside, Interrupt, Expire, Panic, record, local, ReportedInv
<1>3. CASE Validate
  <2>1. UNCHANGED <<reports, failed>> /\ result.outcome = "none"
        /\ \A s \in Sess : pc'[s] \in {"idle", "count"}
    BY <1>3 DEF Validate, FramesInv, IInv, ReadyInv
  <2>2. result'.outcome # "reported"
    BY <1>3, <2>1 DEF Validate, IInv, TypeOK, Result
  <2> QED
    BY <2>1, <2>2 DEF ReportedInv, Closing
<1>4. CASE Return
  BY <1>4 DEF Return, local, ReportedInv
<1>5. ASSUME NEW s \in Sess, Acts(s) PROVE ReportedInv'
  <2>1. call = "running" /\ result' = result
    BY <1>5 DEF Acts, Count, Reset, Commit, Check, ReadTimeout, ReadFails, AwaitNothing, Receive,
         AwaitAnswer, Dial, SaveReset, Send, SaveFrame, Unsub, SaveUnsub, WriteClose, record
  <2>2. \A t \in Sess \ {s} : failed'[t] = failed[t] /\ pc'[t] = pc[t] /\ reports'[t] = reports[t]
    <3>1. (\E label : Goto(s, label)) \/ Fail(s)
      BY <1>5, Zenon DEF Acts, Count, Reset, Commit, Check, ReadTimeout, ReadFails, AwaitNothing,
           Receive, AwaitAnswer, Dial, SaveReset, Send, SaveFrame, Unsub, SaveUnsub, WriteClose,
           EndListen
    <3>2. \A t \in Sess \ {s} : failed'[t] = failed[t]
      BY <3>1 DEF Goto, Fail, IInv, TypeOK
    <3> QED
      BY <1>5, <3>2, ActsElsewhere DEF Untouched
  <2>3. result'.outcome # "reported"
    BY <2>1 DEF FramesInv
  <2>4. pc'[s] \in Closing \cup {"done"} => reports'[s] # Nil \/ failed'[s]
    BY <1>5, ActsReports
  <2> QED
    BY <2>2, <2>3, <2>4 DEF ReportedInv
<1> QED
  BY <1>1, <1>2, <1>3, <1>4, <1>5, NextIsActs

-----------------------------------------------------------------------------
\* A new process has counted and reported nothing.
LEMMA FreshSkip == Fresh => TallyInv' /\ ReportedInv'
<1> SUFFICES ASSUME Fresh PROVE TallyInv' /\ ReportedInv'
  OBVIOUS
<1>1. \A s \in Sess : pc'[s] = "idle" /\ tally'[s] = NoTally /\ reports'[s] = Nil
  BY DEF Fresh
<1>2. \A s \in Sess : CountInv(s)'
  BY <1>1 DEF CountInv, NoTally, BeforeReset, SendingOnly, Listening, Closing
<1>3. result'.outcome = "none"
  BY DEF Fresh
<1> QED
  BY <1>1, <1>2, <1>3 DEF TallyInv, ReportedInv, Closing

\* A goroutine that has not dialled can only count.
LEMMA OnlyCounts ==
  ASSUME NEW s \in Sess, Step(s), pc[s] \in {"idle", "count", "done"}
  PROVE  Count(s)
BY DEF Step, Locking, Private, ReadEnds, Read, Bounded, Write, Reset, Commit, Check, ReadTimeout,
       ReadFails, AwaitNothing, Receive, Panic, AwaitAnswer, Dial, Send, Unsub, WriteClose, Expire,
       Timed, Listening

LEMMA RunsSettled == CommandInv /\ SettledInv /\ Runs => SettledInv'
<1> SUFFICES ASSUME CommandInv, SettledInv, Runs, settled # Nil, Asked(settled) PROVE SettledInv'
  <2>1. Runs => UNCHANGED settled
    BY DEF Runs, Record, Truncate, Finish, NoMoreRuns, Save, disk, allVars
  <2> QED
    BY <2>1 DEF SettledInv
<1>1. UNCHANGED <<settled, until>> /\ (process' # "down" => process # "down")
  <2>1. UNCHANGED until
    BY RunsAreNext, NextStays
  <2> QED
    BY <2>1 DEF Runs, Record, Truncate, Finish, NoMoreRuns, Save, disk, allVars
<1>2. ASSUME process # "down"
      PROVE  UNCHANGED frames /\ \A s \in Sess : pc'[s] \in {"idle", "count", "done"}
  <2>1. until = settled
        /\ \A s \in Sess : pc[s] \in {"idle", "count", "done"} /\ Has(frames[s], settled)
    BY <1>2 DEF SettledInv
  <2>2. CASE Truncate \/ Finish \/ NoMoreRuns
    BY <2>1, <2>2 DEF Truncate, Finish, NoMoreRuns, allVars, vars, shared, local
  <2>3. CASE \E ok \in BOOLEAN, s \in Sess : Save(s, ok)
    BY <2>1, <2>3 DEF Save, Saved, SaveReset, SaveFrame, SaveUnsub
  <2>4. CASE Validate \/ Return \/ Interrupt
    BY <2>1, <2>4 DEF Validate, Return, Interrupt, shared, local
  <2>5. ASSUME NEW s \in Sess, Step(s)
        PROVE  UNCHANGED frames /\ \A t \in Sess : pc'[t] \in {"idle", "count", "done"}
    <3>1. Count(s)
      BY <2>1, <2>5, OnlyCounts
    <3>2. Satisfied(until, CountReceived(frames[s], until.discriminator).count,
                           CountReceived(frames[s], until.discriminator).seen)
      BY <2>1 DEF Has
    <3>3. UNCHANGED frames /\ pc' = [pc EXCEPT ![s] = "done"]
      BY <3>1, <3>2 DEF Count, Goto, shared
    <3>4. pc \in [Sess -> PC]
      BY DEF CommandInv, IInv, TypeOK
    <3> QED
      BY <2>1, <3>3, <3>4
  <2> QED
    BY <2>2, <2>3, <2>4, <2>5 DEF Runs, Record
<1>3. ASSUME file' # Torn, NEW s \in Sess PROVE Has(file'.frames[s], settled)
  <2>1. CASE UNCHANGED file
    BY <1>3, <2>1 DEF SettledInv
  <2>2. CASE file' = Snapshot /\ process # "down"
    <3>1. file'.frames = frames
      BY <2>2 DEF Snapshot
    <3> QED
      BY <2>2, <3>1 DEF SettledInv
  <2>3. UNCHANGED file \/ file' = Torn \/ (file' = Snapshot /\ process # "down")
    BY DEF Runs, Record, Truncate, Finish, NoMoreRuns, Save, WriteReturns, disk, allVars
  <2> QED
    BY <1>3, <2>1, <2>2, <2>3
<1>4. file' # Torn => \A s \in Sess : Has(file'.frames[s], settled')
  BY <1>1, <1>3
<1>5. process' # "down" =>
        /\ until' = settled'
        /\ \A s \in Sess : pc'[s] \in {"idle", "count", "done"} /\ Has(frames'[s], settled')
  BY <1>1, <1>2 DEF SettledInv
<1> QED
  BY <1>4, <1>5 DEF SettledInv, Torn, Has

\* What a run that ended well and complete leaves satisfies its condition.
LEMMA CompleteHas ==
  ASSUME CommandInv, TallyInv, ReportedInv, result.outcome = "reported", ReportComplete,
         until # Nil, Asked(until), NEW s \in Sess
  PROVE  Has(frames[s], until)
<1>1. until \in UntilType /\ frames[s] \in Seq(Frame) /\ until.discriminator \in BOOLEAN
  BY DEF CommandInv, IInv, TypeOK, UntilType
<1> DEFINE had == CountReceived(frames[s], until.discriminator)
           sr == NewSessionReport(until, had.count, had.seen)
<1>2. had.count \in Nat /\ had.seen \in [Kinds -> Nat]
  BY <1>1, CountReceivedType
<1>3. SameCounts(reports[s], sr)
  <2>1. reports[s] # Nil
    BY DEF ReportedInv
  <2> QED
    BY <2>1 DEF TallyInv, CountInv, Described, Received
<1>4. Complete(sr)
  <2> HIDE DEF sr
  <2> QED
    BY <1>3 DEF ReportComplete, Complete, SameCounts
<1>5. Satisfied(until, had.count, had.seen)
  <2> HIDE DEF had
  <2> QED
    BY <1>1, <1>2, <1>4, CompleteWhenSatisfied
<1> QED
  BY <1>5 DEF Has

LEMMA NextSkip ==
  ASSUME MaskedDiscriminator = FALSE
  PROVE  SkipInv /\ [CommandNext]_allVars => SkipInv'
<1> SUFFICES ASSUME SkipInv, [CommandNext]_allVars PROVE SkipInv'
  OBVIOUS
<1>0. CommandInv' /\ CommandInv /\ BaseInv
  BY NextCommandInv DEF SkipInv, CommandInv, BaseInv
<1>1. CASE Runs
  <2>1. [Next]_vars
    BY <1>1, RunsAreNext
  <2>2. TallyInv' /\ ReportedInv'
    BY <1>0, <2>1, NextTally, NextReported DEF SkipInv, BaseInv
  <2> QED
    BY <1>0, <1>1, <2>2, RunsSettled DEF SkipInv
<1>2. CASE LoadFails \/ UNCHANGED allVars
  <2>1. /\ UNCHANGED <<until, expired, interrupted, readErr, pc, frames, tally, inflight, reports, failed>>
        /\ UNCHANGED <<result, file, process, settled>>
    BY <1>2 DEF LoadFails, allVars, vars, disk, shared, record, local, world
  <2>2. \A s \in Sess : Untouched(s)
    BY <2>1 DEF Untouched, Ended, ctxDone
  <2>3. TallyInv'
    BY <2>2, UntouchedCounts DEF SkipInv, TallyInv
  <2>4. ReportedInv' /\ SettledInv'
    BY <2>1 DEF SkipInv, ReportedInv, SettledInv, Has, Torn
  <2> QED
    BY <1>0, <2>3, <2>4 DEF SkipInv
<1>3. CASE Load
  <2>1. TallyInv' /\ ReportedInv'
    BY <1>3, FreshSkip DEF Load
  <2>2. SettledInv'
    <3> SUFFICES ASSUME settled' # Nil, Asked(settled') PROVE SettledInv'
      BY DEF SettledInv
    <3>1. settled' = settled /\ until' = settled /\ UNCHANGED file /\ file # Torn
          /\ frames' = file.frames /\ \A s \in Sess : pc'[s] = "idle"
      BY <1>3 DEF Load, Fresh
    <3>2. \A s \in Sess : Has(file.frames[s], settled)
      BY <3>1 DEF SkipInv, SettledInv
    <3>3. \A s \in Sess : Has(file'.frames[s], settled') /\ Has(frames'[s], settled')
      BY <3>1, <3>2
    <3> QED
      BY <3>1, <3>3 DEF SettledInv
  <2> QED
    BY <1>0, <2>1, <2>2 DEF SkipInv
<1>4. CASE Crash
  <2>1. TallyInv' /\ ReportedInv'
    BY <1>4, FreshSkip DEF Crash, Gone
  <2>2. UNCHANGED <<file, settled>> /\ process' = "down"
    BY <1>4 DEF Crash, Gone
  <2>3. SettledInv'
    BY <2>2 DEF SkipInv, SettledInv, Has, Torn
  <2> QED
    BY <1>0, <2>1, <2>3 DEF SkipInv
<1>5. ASSUME NEW ok \in BOOLEAN, Exit(ok) PROVE SkipInv'
  <2>1. TallyInv' /\ ReportedInv'
    BY <1>5, FreshSkip DEF Exit, Gone
  <2>2. process' = "down"
    BY <1>5 DEF Exit, Gone
  <2>3. ASSUME settled' # Nil, Asked(settled'), NEW s \in Sess
        PROVE  Has(file'.frames[s], settled')
    <3>1. /\ settled' = until /\ file' = Snapshot /\ until # Nil /\ Asked(until)
          /\ result.outcome = "reported" /\ ReportComplete
      BY <1>5, <2>3 DEF Exit, WriteReturns
    <3>2. file'.frames = frames
      BY <3>1 DEF Snapshot
    <3>3. Has(frames[s], until)
      BY <1>0, <3>1, CompleteHas DEF SkipInv
    <3> QED
      BY <3>1, <3>2, <3>3
  <2>4. SettledInv'
    BY <2>2, <2>3 DEF SettledInv
  <2> QED
    BY <1>0, <2>1, <2>4 DEF SkipInv
<1> QED
  BY <1>1, <1>2, <1>3, <1>4, <1>5 DEF CommandNext, Runs

LEMMA InitSkip == CommandInit => SkipInv
<1> SUFFICES ASSUME CommandInit PROVE SkipInv
  OBVIOUS
<1>1. \A s \in Sess : pc[s] = "idle" /\ tally[s] = NoTally /\ reports[s] = Nil
  BY DEF CommandInit, CallInit
<1>2. \A s \in Sess : CountInv(s)
  BY <1>1 DEF CountInv, NoTally, BeforeReset, SendingOnly, Listening, Closing
<1>3. result.outcome = "none" /\ settled = Nil
  BY DEF CommandInit, CallInit
<1> QED
  BY <1>1, <1>2, <1>3, InitCommandInv DEF SkipInv, TallyInv, ReportedInv, SettledInv, Closing

\* A recording that ended complete is not recorded again: a rerun that asks for
\* the same dials no server (record.go:55-57, 136-145; doc.go:21-23).
THEOREM CompleteIsNotRerun ==
  ASSUME MaskedDiscriminator = FALSE PROVE CommandSpec => RerunSkips
<1>1. SkipInv /\ SkipInv' /\ [CommandNext]_allVars =>
        [\A s \in Sess :
           settled # Nil /\ until = settled /\ Asked(until)
             => ~(pc[s] = "count" /\ pc'[s] = "dial")]_allVars
  <2> SUFFICES ASSUME SkipInv, SkipInv', CommandNext, NEW s \in Sess,
                      settled # Nil, until = settled, Asked(until), pc[s] = "count"
               PROVE  pc'[s] # "dial"
    OBVIOUS
  <2>1. process # "down"
    BY DEF SkipInv, CommandInv, DownInv
  <2>2. CASE process' = "down"
    BY <2>2 DEF SkipInv, CommandInv, DownInv
  <2>3. CASE process' # "down"
    <3>1. Runs
      BY <2>1, <2>3 DEF CommandNext, Runs, Load, LoadFails, Crash, Exit, Gone
    <3>2. UNCHANGED <<settled, until>>
      BY <3>1, RunsAreNext, NextStays
         DEF Runs, Record, Truncate, Finish, NoMoreRuns, Save, disk, allVars
    <3> QED
      BY <2>3, <3>2 DEF SkipInv, SettledInv
  <2> QED
    BY <2>2, <2>3
<1> QED
  BY <1>1, InitSkip, NextSkip, PTL DEF CommandSpec, RerunSkips

=============================================================================
