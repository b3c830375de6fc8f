----------------------------- MODULE SessionLog -----------------------------
(***************************************************************************)
(* What recording promises a session's frames, with no mutex, network,     *)
(* deadline or tally in sight: the frames of a session are kept as they    *)
(* are, or its capture is discarded once and then only grows, first by     *)
(* masked frames received over one connection and at the end by at most    *)
(* one frame sent (record.go:51-60, 193-196, 290-300).                     *)
(***************************************************************************)
EXTENDS Frames

CONSTANTS NSessions, StartFrames

VARIABLES log, phase, clock

Sess == 1..NSessions
Phase == {"kept", "open", "closing", "ended"}

Init == /\ log \in [Sess -> StartFrames]
        /\ phase = [s \in Sess |-> "kept"]
        /\ clock \in Nat

Enter(s, p) == phase' = [phase EXCEPT ![s] = p]

\* The capture is discarded; what stays are the send frames, in order, masked.
\* The session may end right there, masked only as far as the masker went.
Discard(s) ==
  /\ phase[s] = "kept"
  /\ \E p \in {"open", "ended"} :
       /\ Enter(s, p)
       /\ \E n \in 0..Len(Sends(log[s])) :
            /\ p = "open" => n = Len(Sends(log[s]))
            /\ log' = [log EXCEPT ![s] =
                 [k \in DOMAIN Sends(log[s]) |->
                    IF k <= n THEN MaskFrame(Sends(log[s])[k]) ELSE Sends(log[s])[k]]]

\* A message is captured, masked, on this run's clock.
Capture(s) ==
  /\ phase[s] = "open"
  /\ \E p \in Payload :
       log' = [log EXCEPT ![s] = Append(@, MaskFrame(ReceiveFrame(clock, p)))]
  /\ UNCHANGED phase

StopListening(s) ==
  /\ phase[s] = "open"
  /\ Enter(s, "closing")
  /\ UNCHANGED log

\* The unsubscribe frame is recorded.
Depart(s) ==
  /\ phase[s] = "closing"
  /\ Enter(s, "ended")
  /\ \E p \in Payload : log' = [log EXCEPT ![s] = Append(@, MaskFrame(SendFrame(p)))]

\* Skipped, failed or closed.
End(s) ==
  /\ phase[s] # "ended"
  /\ Enter(s, "ended")
  /\ UNCHANGED log

Next == /\ \E s \in Sess : Discard(s) \/ Capture(s) \/ StopListening(s) \/ Depart(s) \/ End(s)
        /\ UNCHANGED clock

Spec == Init /\ [][Next]_<<log, phase, clock>>

=============================================================================
