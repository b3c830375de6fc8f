---------------------------- MODULE RecordCommand ---------------------------
(***************************************************************************)
(* The record command (cmd/asyncapi-record/main.go) run again and again    *)
(* over one sessions file: it loads the file, calls Record with a Save     *)
(* that writes the whole file, and writes it once more before it exits. It *)
(* may be killed at any moment. Memory is lost with the process, the file  *)
(* is not; os.WriteFile truncates it before it writes (file.go:48), so     *)
(* between the two the file holds nothing that can be loaded.              *)
(***************************************************************************)
EXTENDS RecorderProps

CONSTANTS
  MaxRuns   \* bound: how often the command is started

ASSUME MaxRunsAssumption == MaxRuns \in Nat
\* What was written is told from what was only truncated.
ASSUME TornAssumption == Nil \notin [Sess -> URI]

VARIABLES
  file,       \* the sessions file: the frames and URIs it holds, or Torn
  process,    \* where run() is
  writing,    \* inside os.WriteFile, after the truncation
  authored,   \* history: the send frames the file was authored with
  settled     \* history: the stop condition of a run that ended well and complete

disk == <<file, process, writing, authored, settled>>
allVars == <<vars, disk>>

Torn == [frames |-> Nil, uri |-> Nil]
\* What WriteToFile marshals. (Mutants: the receive frames, the URIs are forgotten.)
FramesOnly == [frames |-> frames, uri |-> Nil]
SendsOnly == [frames |-> [s \in Sess |-> Sends(frames[s])], uri |-> uri]
Snapshot == [frames |-> frames, uri |-> uri]

\* json.Marshal refuses a raw value that is not strict JSON.
Marshals == \A s \in Sess : \A i \in DOMAIN frames[s] :
              ~MaskRefuses(frames[s][i].send) /\ ~MaskRefuses(frames[s][i].receive)

-----------------------------------------------------------------------------
\* A process of its own: nothing of an earlier one is in memory.
Fresh ==
  /\ mu' = Nil
  /\ call' = "validate"
  /\ result' = [outcome |-> "none", session |-> Nil]
  /\ pc' = [s \in Sess |-> "idle"]
  /\ next' = [s \in Sess |-> 1]
  /\ tally' = [s \in Sess |-> NoTally]
  /\ inflight' = [s \in Sess |-> Nil]
  /\ reports' = [s \in Sess |-> Nil]
  /\ failed' = [s \in Sess |-> FALSE]
  /\ expired' = [s \in Sess |-> FALSE]
  /\ interrupted' = FALSE
  /\ readErr' = [s \in Sess |-> "none"]
  /\ wire' = [s \in Sess |-> <<>>]

\* The process is gone.
Gone ==
  /\ Fresh
  /\ process' = "down"
  /\ frames' = [s \in Sess |-> <<>>]
  /\ uri' = [s \in Sess |-> "plain"]
  /\ until' = Nil
  /\ UNCHANGED epoch

\* run(): the file is loaded, and Record called with the condition the flags say.
Load ==
  /\ process = "down" /\ epoch <= MaxRuns /\ file # Torn
  /\ Fresh
  /\ frames' = file.frames
  /\ uri' = file.uri
  /\ until' \in Untils
  /\ epoch' = epoch + 1
  /\ process' = "recording"
  /\ settled' = IF until' = settled THEN settled ELSE Nil
  /\ UNCHANGED <<file, writing, authored>>

\* A file that does not parse ends run() before anything is done.
LoadFails ==
  /\ process = "down" /\ epoch <= MaxRuns /\ file = Torn
  /\ epoch' = epoch + 1
  /\ UNCHANGED <<shared, mu, until, call, result, local, world, disk>>

\* Record goes on while no goroutine returns from Save.
Record ==
  /\ process = "recording"
  /\ Validate \/ Return \/ Interrupt \/ \E s \in Sess : Step(s)
  /\ UNCHANGED disk

-----------------------------------------------------------------------------
\* Somebody is in WriteToFile: the holder of mu, or run() at its end.
InWriteToFile == process = "finishing" \/ (process = "recording" /\ mu # Nil)

Truncate ==
  /\ InWriteToFile /\ ~writing /\ Marshals
  /\ file' = Torn
  /\ writing' = TRUE
  /\ UNCHANGED <<vars, process, authored, settled>>

\* WriteToFile returns: the file is written, or the write failed before or
\* after the truncation.
WriteReturns(ok) ==
  /\ IF ok THEN writing /\ file' = Snapshot
           ELSE UNCHANGED file
  /\ writing' = FALSE

Save(s, ok) ==
  /\ process = "recording"
  /\ Saved(s, ok)
  /\ WriteReturns(ok)
  /\ UNCHANGED <<process, authored, settled>>

\* The write after Record, whatever Record returned.
Finish ==
  /\ process = "recording" /\ call = "returned"
  /\ process' = "finishing"
  /\ UNCHANGED <<vars, file, writing, authored, settled>>

\* Report.Complete.
ReportComplete == \A s \in Sess : Complete(reports[s])

Exit(ok) ==
  /\ process = "finishing"
  /\ WriteReturns(ok)
  /\ settled' = IF ok /\ result.outcome = "reported" /\ ReportComplete THEN until ELSE Nil
  /\ Gone
  /\ UNCHANGED authored

\* A kill, a power cut, or a panic of any goroutine.
Crash ==
  /\ process # "down"
  /\ writing' = FALSE
  /\ Gone
  /\ UNCHANGED <<file, authored, settled>>

-----------------------------------------------------------------------------
CommandInit ==
  /\ CallInit
  /\ frames = [s \in Sess |-> <<>>]
  /\ uri = [s \in Sess |-> "plain"]
  /\ until = Nil
  /\ epoch = 1
  /\ file \in [frames : [Sess -> StartFrames], uri : [Sess -> StartURIs]]
  /\ process = "down"
  /\ writing = FALSE
  /\ authored = [s \in Sess |-> Sends(file.frames[s])]
  /\ settled = Nil

NoMoreRuns == process = "down" /\ epoch = MaxRuns + 1 /\ UNCHANGED allVars

CommandNext ==
  \/ Load \/ LoadFails \/ Record \/ Truncate \/ Finish \/ Crash \/ NoMoreRuns
  \/ \E ok \in BOOLEAN : Exit(ok) \/ \E s \in Sess : Save(s, ok)

CommandSpec == CommandInit /\ [][CommandNext]_allVars

-----------------------------------------------------------------------------
MaskedPayloads(fs) == [k \in DOMAIN fs |-> MaskValue(fs[k].send)]
Here(fs) == Cardinality({i \in ReceivePositions(fs) : fs[i].at = epoch})

\* The file is either torn or holds sessions a run can start from.
DiskTypeOK ==
  /\ file = Torn \/ /\ file.frames \in [Sess -> Seq(Frame)]
                    /\ file.uri \in [Sess -> URI]
  /\ process \in {"down", "recording", "finishing"}
  /\ writing \in BOOLEAN
  /\ settled \in Untils \cup {Nil}

\* Somebody's write is behind its truncation, or failed there: that of a reset or
\* of a frame, which fails its session, or that of an unsubscribe, whose error is
\* dropped.
BehindTruncation ==
  writing \/ \E s \in Sess :
    failed[s] \/ (Unsubscribe[s] # Nil /\ pc[s] \in {"close", "await", "done"})

\* All that this run received is in the file but for at most the one frame a
\* session has in flight, and nothing that was not received (record.go:40-43,
\* main.go:97-99): also after a write that failed before the truncation, and
\* after a later one made up for one that failed behind it. The file is torn only
\* while a write is behind its truncation or was left there. So a crash outside
\* of those moments loses no more; for one inside see CrashLosesOneFrame.
LossBounded ==
  process # "down" =>
    IF file = Torn THEN BehindTruncation ELSE
      \A s \in Sess :
        LET received == Here(frames[s]) + (IF pc[s] = "commit" THEN 1 ELSE 0)
        IN  Here(file.frames[s]) \in {received - 1, received}

\* A rerun of a recording that ended complete dials nothing, in any session,
\* when it asks for the same (record.go:55-57; doc.go:21-23).
RerunSkips ==
  [][\A s \in Sess :
       settled # Nil /\ until = settled /\ Asked(until)
         => ~(pc[s] = "count" /\ pc'[s] = "dial")]_allVars

LeadsWith(fs, given) ==
  LET now == MaskedPayloads(Sends(fs))
  IN  /\ Len(now) >= Len(given)
      /\ SubSeq(now, 1, Len(given)) = MaskedPayloads(given)

\* The authored send frames are in every file that can be loaded and in the memory
\* of every process, in order and ahead of any other send frame, however many
\* reruns, failures and crashes came before (record.go:195-197). A crash loses
\* them only where it finds the file torn.
AuthoredSurvive ==
  /\ file # Torn => \A s \in Sess : LeadsWith(file.frames[s], authored[s])
  /\ process # "down" => \A s \in Sess : LeadsWith(frames[s], authored[s])

\* No file that can be loaded mixes the captures of two connections
\* (record.go:57-60).
OneClockOnDisk ==
  file # Torn =>
    \A s \in Sess : \A i, j \in ReceivePositions(file.frames[s]) :
      file.frames[s][i].at = file.frames[s][j].at

\* What any of these runs received is masked wherever it is found in the file,
\* however the run that wrote it ended (record.go:31, 176-190; mask.go:246-248).
MaskedOnDisk ==
  file # Torn =>
    \A s \in Sess : \A i \in ReceivePositions(file.frames[s]) :
      file.frames[s][i].at > 1 => IsMasked(file.frames[s][i])

-----------------------------------------------------------------------------
\* record.go:195 "Only the authored send frames are kept": what a rerun plays is
\* what was authored.
KeepsOnlyAuthored ==
  \A s \in Sess : pc[s] \in {"saveReset", "send"} =>
    MaskedPayloads(frames[s]) = MaskedPayloads(authored[s])

-----------------------------------------------------------------------------
\* record.go:40-43 "a crash mid-recording loses at most the frame in flight, not
\* the whole session": wherever the process is killed, the file it leaves can be
\* loaded and lacks at most one of the frames each session had.
CrashLosesOneFrame ==
  [][process = "recording" /\ process' = "down" =>
       /\ file' # Torn
       /\ \A s \in Sess : Here(frames[s]) - Here(file'.frames[s]) <= 1]_allVars

=============================================================================
