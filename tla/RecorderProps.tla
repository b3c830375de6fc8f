--------------------------- MODULE RecorderProps ----------------------------
(***************************************************************************)
(* What Recorder.Record promises about the frames, the mutex, the wire and *)
(* the reports, for one call.                                              *)
(***************************************************************************)
EXTENDS Recorder

\* The session was dialled, its earlier capture discarded, and it has not failed.
Recording(s) ==
  \/ pc[s] \in {"saveReset", "send"} \cup Listening \cup Closing
  \/ pc[s] = "done" /\ reports[s] # Nil /\ ~reports[s].skipped

Last(seq) == seq[Len(seq)]
Received(s) == CountReceived(frames[s], until.discriminator)
\* The reports agree in all that can be told from the frames.
SameCounts(a, b) == /\ a.received = b.received /\ a.seen = b.seen
                    /\ a.short = b.short /\ a.missing = b.missing
InFlight == [frame : Frame, kind : Kinds \cup {Nil}]

\* Every variable holds a value of its Go type; the counts are never negative.
TypeOK ==
  /\ frames \in [Sess -> Seq(Frame)]
  /\ uri \in [Sess -> URI]
  /\ mu \in Sess \cup {Nil}
  /\ until \in UntilType \cup {Nil}
  /\ epoch \in Nat
  /\ call \in {"validate", "running", "panicked", "returned"}
  /\ result \in Result
  /\ pc \in [Sess -> PC]
  /\ next \in [Sess -> Nat \ {0}]
  /\ tally \in [Sess -> Tally]
  /\ inflight \in [Sess -> InFlight \cup {Nil}]
  /\ reports \in [Sess -> Report \cup {Nil}]
  /\ failed \in [Sess -> BOOLEAN]
  /\ expired \in [Sess -> BOOLEAN]
  /\ interrupted \in BOOLEAN
  /\ readErr \in [Sess -> {"none", "timeout", "broken"}]
  /\ wire \in [Sess -> Seq(WireItem)]

-----------------------------------------------------------------------------
\* Calls of Save are serialised, and made by the holder of mu (record.go:45-47,
\* 79): a Save that is not safe for concurrent use is never entered twice.
SavesSerialised == \A s \in Sess : pc[s] \in Saving <=> mu = s

\* While a Save is under way nothing it writes moves: no frame is appended, no
\* capture discarded and no URI masked by another session (record.go:79, 198-211).
HeldMeansStill == [][mu # Nil => UNCHANGED shared]_vars

\* Every frame this run captured is masked before it is kept, and once a
\* session's earlier capture is discarded all that is left of it, its URI
\* included, is masked (record.go:31, 177-182, 198-209; mask.go:246-248).
KeptMasked ==
  \A s \in Sess :
    /\ \A i \in DOMAIN frames[s] : frames[s][i].at = epoch => IsMasked(frames[s][i])
    /\ Recording(s) => /\ \A i \in DOMAIN frames[s] : IsMasked(frames[s][i])
                       /\ uri[s] # "literal"

\* The receive frames of a session were all measured on one connection's clock:
\* a capture is never extended into another (record.go:57-60, 193-196).
OneClock ==
  \A s \in Sess : \A i, j \in ReceivePositions(frames[s]) :
    frames[s][i].at = frames[s][j].at

\* Every frame of the file goes in exactly one direction after a run that
\* started from such frames (sessions.go:52-53).
FramesStayValid ==
  call \in {"running", "returned"} /\ result.outcome # "rejected" =>
    \A s \in Sess : \A i \in DOMAIN frames[s] : ValidFrame(frames[s][i])

-----------------------------------------------------------------------------
\* listen's tally of a session is what a count of its frames would find, but
\* for the frame being saved: what decides when to stop and what a rerun will
\* decide on are the same numbers (record.go:266-281, 317-318).
TallyIsTheFile ==
  \A s \in Sess : pc[s] \in Listening \cup Closing =>
    LET uncounted == IF pc[s] = "saveFrame" THEN inflight[s].kind ELSE Nil IN
      /\ Received(s).count = tally[s].count + (IF pc[s] = "saveFrame" THEN 1 ELSE 0)
      /\ \A k \in Kinds : Received(s).seen[k] =
           tally[s].seen[k] + (IF until.discriminator /\ k = uncounted THEN 1 ELSE 0)

\* The report of a session describes the frames Record leaves in it, whether
\* they were there before or captured now, and nothing close() appended
\* (report.go:20-22; record.go:108, 141-144, 284-285).
ReportsDescribeFrames ==
  call = "returned" =>
    \A s \in Sess : reports[s] # Nil /\ ~failed[s] =>
      SameCounts(reports[s], NewSessionReport(until, Received(s).count, Received(s).seen))

\* A frame is received only while the stop condition is unmet: a recording
\* stops as soon as every condition that was set is satisfied (until.go:16-17).
StopsWhenMet ==
  [][\A s \in Sess :
       Recording(s) /\ Len(frames'[s]) > Len(frames[s]) /\ IsReceive(Last(frames'[s]))
         => ~Satisfied(until, Received(s).count, Received(s).seen)]_vars

\* A session that ends without an error and with its condition unmet, by what the
\* file holds of it, ended because its context was done or because a read timed
\* out, never because the server closed or reset the connection while there was
\* time (record.go:257-264; until.go:19-21). A read that times out need not be a
\* quiet feed: isTimeout takes any error that says so, the loss of the peer too,
\* though it calls it the deadline's (record.go:391).
ClosedFeedIsAnError ==
  \A s \in Sess :
    pc[s] \in Closing \cup {"done"} /\ reports[s] # Nil =>
      \/ Satisfied(until, Received(s).count, Received(s).seen)
      \/ ctxDone(s) \/ readErr[s] = "timeout"

\* What was read is kept masked. What was sent is kept as it went out, but for
\* the unsubscribe frame u, which is masked only when it is kept.
KeptAs(item, f, u) ==
  IF item.type = "read"
    THEN IsReceive(f) /\ f.receive = MaskValue(item.data)
    ELSE IsSend(f) /\ (f.send = item.data \/ (item.data = u /\ f.send = MaskValue(u)))

\* The frames of a session are, one for one, what it wrote to its connection and
\* read from it, in the order it did so (record.go:177-228, 297-298). Only the
\* send loop has frames still to write; only the last item may be missing, while
\* it waits for its commit, or because it is an unsubscribe the masker refuses.
\* A Close comes last. This is not the order on the wire that sessions.go:39
\* speaks of: what a server says during the send loop is read after it. And what
\* goes out is the frame as it is kept, so masked, and not as somebody wrote it
\* (record.go:196).
CrossedInOrder ==
  \A s \in Sess : Recording(s) =>
    LET crossed == {i \in DOMAIN wire[s] : wire[s][i].type # "close"}
        kept == DOMAIN frames[s]
    IN  /\ DOMAIN wire[s] \ crossed \subseteq {Len(wire[s])}
        /\ \A i \in crossed \cap kept : KeptAs(wire[s][i], frames[s][i], Unsubscribe[s])
        /\ pc[s] \notin {"saveReset", "send"} => kept \subseteq crossed
        /\ \A i \in crossed \ kept :
             /\ i = Len(frames[s]) + 1
             /\ \/ pc[s] \in {"commit", "commitUnsub"}
                \/ /\ wire[s][i] = [type |-> "sent", data |-> Unsubscribe[s]]
                   /\ MaskRefuses(Unsubscribe[s])

\* Record returns, or the process is gone, whatever the servers say and whenever
\* they stop saying it (record.go:100; until.go:39-41).
RecordReturns == (call = "running") ~> (call \in {"returned", "panicked"})

-----------------------------------------------------------------------------
\* The phase of SessionLog a goroutine is in.
PhaseOf(label) ==
  CASE label \in BeforeReset -> "kept"
    [] label \in {"saveReset", "send"} \cup Listening -> "open"
    [] label \in {"unsub", "commitUnsub"} -> "closing"
    [] OTHER -> "ended"

Log == INSTANCE SessionLog WITH log <- frames, clock <- epoch,
                                phase <- [s \in Sess |-> PhaseOf(pc[s])]

\* Record implements SessionLog: whatever the goroutines interleave, each session
\* is kept, or discarded once and then only extended (record.go:51-60).
ImplementsSessionLog == Log!Spec

-----------------------------------------------------------------------------
\* until.go:16-17 "Recording stops ... when Timeout expires": a session whose
\* deadline passed comes to its end.
TimeoutEnds == \A s \in Sess : expired[s] ~> (pc[s] = "done" \/ call # "running")

=============================================================================
