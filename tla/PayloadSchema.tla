---------------------------- MODULE PayloadSchema ---------------------------
(***************************************************************************)
(* The way of a payload into the document: the recorder masks it           *)
(* (MaskTokens), Enrich infers its schema and merges it into the one its   *)
(* message has (SchemaMerge), marks binary fields, checks declared ones,   *)
(* and only then is the document written. Run after run, over the schema   *)
(* of one message; EnrichDoc says which message that is.                   *)
(*                                                                         *)
(* Recording and enriching are told as one: a payload is merged as soon as *)
(* it is masked. Neither looks at what the other has in hand, so nothing   *)
(* is lost by it. Between runs somebody may declare a field's message.     *)
(***************************************************************************)
EXTENDS MaskTokens, SchemaMerge

CONSTANTS
  Pools,         \* sets of payloads that come for one message, with a bound on how many
  Declarations   \* what may be pasted in: contentSchemas

VARIABLES
  pool,       \* where payloads come from
  schema,     \* the message's schema in memory
  saved,      \* the same on disk
  outcome,    \* "none", "running", "saved", "refused", "mismatch", "edited"
  payload,    \* history: the payload being masked
  seen,       \* history: the payloads in schema
  savedSeen,  \* history: the payloads in saved
  recorded,   \* history: the payloads this run, or the last, enriched from
  samples     \* how many payloads came

docVars == <<pool, schema, saved, outcome, payload, seen, savedSeen, recorded, samples>>
vars == <<maskVars, docVars>>

-----------------------------------------------------------------------------
\* A payload is a tree; these are its tokens.
RECURSIVE Tokens(_)
MemberTokens(ms) ==
  [i \in DOMAIN ms |->
     <<IF \E j \in 1..(i - 1) : ms[j].name = ms[i].name
         THEN Token("bad", "") ELSE Token("str", ms[i].name)>>
     \o Tokens(ms[i].value)]
Tokens(v) ==
  CASE v.kind = "object" ->
         <<Token("{", "")>> \o FlattenSeq(MemberTokens(v.members)) \o <<Token("}", "")>>
    [] v.kind = "array" ->
         <<Token("[", "")>> \o FlattenSeq([i \in DOMAIN v.elems |-> Tokens(v.elems[i])])
           \o <<Token("]", "")>>
    [] v.kind \in {"str", "num"} -> <<Token(v.kind, v.text)>>
    [] v.kind \in {"bool", "null"} -> <<Token(v.kind, "")>>

Arrive(v) ==
  /\ masking = "idle" /\ samples < pool.samples
  /\ payload' = v
  /\ input' = Tokens(v) /\ pos' = 1 /\ stack' = <<>> /\ out' = <<>> /\ masking' = "reading"
  /\ samples' = samples + 1
  /\ recorded' = IF outcome = "running" THEN recorded ELSE {}
  /\ outcome' = "running"
  /\ UNCHANGED <<pool, schema, saved, seen, savedSeen>>

Mask == MaskStep /\ UNCHANGED docVars

\* The payload the masker refuses is not recorded.
Dropped ==
  /\ masking = "failed" /\ masking' = "idle"
  /\ UNCHANGED <<input, pos, stack, out, docVars>>

-----------------------------------------------------------------------------
\* A run that ends without writing leaves the document on disk for the next.
GiveUp(how) ==
  /\ outcome' = how
  /\ schema' = saved /\ seen' = savedSeen
  /\ UNCHANGED <<pool, saved, savedSeen, payload, samples>>

\* ensureMessage: the schema the message gets, or Refused.
MessageSchema == MergeOptional(schema, NewSchemaFromJSON(out))

EnsureMessage ==
  /\ masking = "done" /\ MessageSchema # Refused
  /\ schema' = MessageSchema
  /\ seen' = seen \cup {payload} /\ recorded' = recorded \cup {payload}
  /\ masking' = "idle"
  /\ UNCHANGED <<input, pos, stack, out, pool, saved, outcome, payload, savedSeen, samples>>

MessageRefused ==
  /\ masking = "done" /\ MessageSchema = Refused
  /\ masking' = "idle"
  /\ UNCHANGED <<input, pos, stack, out, recorded>>
  /\ GiveUp("refused")

Detected == DetectBinaryEncodings(schema)

\* Enrich succeeds and the document is written.
Save ==
  /\ masking = "idle" /\ outcome = "running" /\ schema # Nil
  /\ ValidateProtoSchemas(Detected)
  /\ schema' = Detected /\ saved' = Detected /\ savedSeen' = seen
  /\ outcome' = "saved"
  /\ UNCHANGED <<maskVars, pool, payload, seen, recorded, samples>>

Mismatch ==
  /\ masking = "idle" /\ outcome = "running" /\ schema # Nil
  /\ ~ValidateProtoSchemas(Detected)
  /\ UNCHANGED <<maskVars, recorded>>
  /\ GiveUp("mismatch")

\* Somebody describes a string of the document: itself, or one of its members.
Described(s, cs) == [s EXCEPT !.content = cs, !.authored = "described"]
Describable(s) == "string" \in s.types /\ s.content = Nil
Describe(cs) ==
  /\ masking = "idle" /\ outcome \in {"saved", "refused", "mismatch"} /\ saved # Nil
  /\ saved' \in
       {Described(s, cs) : s \in {t \in {saved} : Describable(t)}}
         \cup {[saved EXCEPT !.props[k] = Described(@, cs)] :
                 k \in {l \in DOMAIN saved.props : Describable(saved.props[l])}}
  /\ schema' = saved'
  /\ outcome' = "edited"
  /\ UNCHANGED <<maskVars, pool, payload, seen, savedSeen, recorded, samples>>

-----------------------------------------------------------------------------
Init ==
  /\ pool \in Pools
  /\ schema = Nil /\ saved = Nil /\ outcome = "none"
  /\ payload = Nil /\ seen = {} /\ savedSeen = {} /\ recorded = {} /\ samples = 0
  /\ input = <<>> /\ pos = 1 /\ stack = <<>> /\ out = <<>> /\ masking = "idle"

NoMorePayloads ==
  /\ masking = "idle" /\ samples = pool.samples
  /\ outcome # "running" \/ schema = Nil
  /\ UNCHANGED vars

Next ==
  \/ \E v \in pool.payloads : Arrive(v)
  \/ Mask \/ Dropped \/ EnsureMessage \/ MessageRefused
  \/ Save \/ Mismatch
  \/ \E cs \in Declarations : Describe(cs)
  \/ NoMorePayloads

Spec == Init /\ [][Next]_vars

=============================================================================
