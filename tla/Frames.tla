------------------------------- MODULE Frames -------------------------------
(***************************************************************************)
(* The data a sessions file holds (sessions.go) and the pure functions the *)
(* recorder applies to it: what a frame off the wire is kept as            *)
(* (record.go, payload), what masking makes of it (mask.go, Frame), which  *)
(* frames a rerun keeps (Session.sends) and how recorded frames are        *)
(* tallied (countReceived).                                                *)
(*                                                                         *)
(* A payload is abstracted to the three things the recorder's behaviour    *)
(* depends on: whether the strict JSON decoder of the masker accepts it,   *)
(* the value of its discriminator field, and whether a field that looks    *)
(* like a credential still has its own value.                              *)
(***************************************************************************)
EXTENDS Integers, Sequences, FiniteSets, Ranks

CONSTANTS
  Kinds,                \* values the discriminator field takes
  Stars,                \* the kind a masked discriminator reads as ("***")
  Nil,                  \* an absent payload, map or session report
  MaskedDiscriminator   \* TRUE: the discriminator's name is one Mask covers

ASSUME KindsAssumption == /\ Nil \notin Kinds
                          /\ Stars \in Kinds
                          /\ IsFiniteSet(Kinds)
ASSUME MaskedDiscriminatorAssumption == MaskedDiscriminator \in BOOLEAN

-----------------------------------------------------------------------------
(***************************************************************************)
(* A jsontext.Value. form "json" is what both decoders accept, "lax" what  *)
(* Value.Compact accepts and the masker's decoder does not (a duplicate    *)
(* member name, a string that is not UTF-8), "string" a JSON string made   *)
(* from something that was not JSON. A string has no fields, so it has     *)
(* neither a kind nor a secret.                                            *)
(***************************************************************************)
Payload ==
  [form : {"json", "lax"}, kind : Kinds \cup {Nil}, secret : {"none", "clear", "masked"}]
    \cup [form : {"string"}, kind : {Nil}, secret : {"none"}]

(***************************************************************************)
(* A frame. at is the run whose connection clock its At was measured on,   *)
(* 0 for the At of a send frame, which is never set.                       *)
(***************************************************************************)
Frame == [at : Nat, send : Payload \cup {Nil}, receive : Payload \cup {Nil}]

ASSUME NilAssumption == Nil \notin Payload /\ Nil \notin Nat

SendFrame(p) == [at |-> 0, send |-> p, receive |-> Nil]
ReceiveFrame(t, p) == [at |-> t, send |-> Nil, receive |-> p]

IsSend(f) == f.send # Nil
IsReceive(f) == f.receive # Nil

\* Frame.Validate: exactly one direction.
ValidFrame(f) == IsSend(f) # IsReceive(f)

-----------------------------------------------------------------------------
(***************************************************************************)
(* A message off the wire, by what payload() can tell of it: JSON, JSON    *)
(* only Compact accepts, other text, such text that is not UTF-8, or       *)
(* binary.                                                                 *)
(***************************************************************************)
WireForm == {"json", "lax", "text", "badtext", "binary"}
Message == [form : WireForm, kind : Kinds \cup {Nil}, secret : {"none", "clear"}]

IsJSON(m) == m.form \in {"json", "lax"}

\* quote() panics: json.Marshal refuses a Go string that is not UTF-8.
QuotePanics(m) == m.form = "badtext"

\* payload(): JSON is kept as it came, anything else as a JSON string.
PayloadOf(m) ==
  IF IsJSON(m)
    THEN [form |-> m.form, kind |-> m.kind, secret |-> m.secret]
    ELSE [form |-> "string", kind |-> Nil, secret |-> "none"]

\* discriminate(): the kind, or Nil when the payload names none. Its decoder
\* is as strict as the masker's.
Discriminate(p) == IF p.form = "json" THEN p.kind ELSE Nil

-----------------------------------------------------------------------------
\* Masker.Value refuses what its decoder refuses.
MaskRefuses(p) == p # Nil /\ p.form = "lax"

\* Masker.Value: every covered field reads "***", the discriminator included
\* when its name is one of those covered.
MaskValue(p) ==
  IF p = Nil THEN Nil
  ELSE [p EXCEPT !.secret = IF @ = "clear" THEN "masked" ELSE @,
                 !.kind = IF MaskedDiscriminator /\ @ # Nil THEN Stars ELSE @]

\* Masker.Frame, which masks both directions and stops at the first refusal.
MaskFrameRefuses(f) == MaskRefuses(f.send) \/ MaskRefuses(f.receive)
\* (Mutants: nothing is masked; the discriminator is masked too.)
MaskFrameNothing(f) == f
MaskFrameAndKind(f) ==
  [f EXCEPT !.send = MaskValue(@),
            !.receive = IF @ = Nil THEN Nil ELSE [MaskValue(@) EXCEPT !.kind = Stars]]
MaskFrame(f) == [f EXCEPT !.send = MaskValue(@), !.receive = MaskValue(@)]

IsMasked(f) == \A p \in {f.send, f.receive} \ {Nil} : p.secret # "clear"

-----------------------------------------------------------------------------
SendPositions(fs) == {i \in DOMAIN fs : IsSend(fs[i])}

\* Mutants: discard nothing, as an extending rerun would; lose the first.
SendsAll(fs) == fs
SendsButFirst(fs) ==
  LET I == SendPositions(fs) IN [k \in 1..(Cardinality(I) - 1) |-> fs[Nth(I, k + 1)]]

\* Session.sends: the send frames, in order.
Sends(fs) ==
  LET I == SendPositions(fs) IN [k \in 1..Cardinality(I) |-> fs[Nth(I, k)]]

-----------------------------------------------------------------------------
ReceivePositions(fs) == {i \in DOMAIN fs : IsReceive(fs[i])}
KindPositions(fs, k) == {i \in ReceivePositions(fs) : Discriminate(fs[i].receive) = k}

(***************************************************************************)
(* countReceived: the tally of the receive frames, and of each kind when   *)
(* there is a discriminator to tell kinds by. A Go map reads 0 for a kind  *)
(* it does not hold, so seen is total.                                     *)
(***************************************************************************)
CountReceived(fs, discriminator) ==
  [count |-> Cardinality(ReceivePositions(fs)),
   seen  |-> [k \in Kinds |-> IF discriminator THEN Cardinality(KindPositions(fs, k)) ELSE 0]]

=============================================================================
