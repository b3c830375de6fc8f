------------------------- MODULE PayloadSchemaProps -------------------------
(***************************************************************************)
(* What the way of a payload into the document must keep to. Every         *)
(* reference definition here looks at the payloads themselves, as trees    *)
(* and as sets, and knows nothing of tokens, order or merging.             *)
(***************************************************************************)
EXTENDS PayloadSchema, MaskProps, WireProps

JsonObject(ms) == [kind |-> "object", members |-> ms]
JsonArray(es) == [kind |-> "array", elems |-> es]
JsonString(text) == [kind |-> "str", text |-> text]

\* A payload with every covered member's value replaced.
RECURSIVE MaskTree(_)
MaskTree(v) ==
  CASE v.kind = "object" ->
         JsonObject([i \in DOMAIN v.members |->
           [v.members[i] EXCEPT !.value =
             IF Covered(v.members[i].name) THEN JsonString(Replacement) ELSE MaskTree(@)]])
    [] v.kind = "array" -> JsonArray([i \in DOMAIN v.elems |-> MaskTree(v.elems[i])])
    [] OTHER -> v

-----------------------------------------------------------------------------
(***************************************************************************)
(* Sets of values                                                          *)
(***************************************************************************)
Of(V, kinds) == {v \in V : v.kind \in kinds}
Keys(o) == {o.members[i].name : i \in DOMAIN o.members}
MembersAt(V, keys) ==
  UNION {{o.members[i].value : i \in {j \in DOMAIN o.members : o.members[j].name \in keys}} :
           o \in Of(V, {"object"})}
AllKeys(V) == UNION {Keys(o) : o \in Of(V, {"object"})}
Elements(V) == UNION {ToSet(a.elems) : a \in Of(V, {"array"})}
NumericMaps(V) == {o \in Of(V, {"object"}) : Keys(o) # {} /\ Keys(o) \subseteq NumericKeys}
NamedObjects(V) == {o \in Of(V, {"object"}) : ~(Keys(o) \subseteq NumericKeys)}

TypeOf(v) ==
  CASE v.kind = "str"  -> "string"
    [] v.kind = "num"  -> IF v.text \in IntegerTexts THEN "integer" ELSE "number"
    [] v.kind = "bool" -> "boolean"
    [] OTHER           -> v.kind
FormatOfValue(v) ==
  CASE v.kind = "str" /\ v.text \in DOMAIN FormatOf -> FormatOf[v.text]
    [] TypeOf(v) = "number"                         -> "double"
    [] OTHER                                        -> ""

\* The places of a schema, each with the values that came there: an object all
\* of whose names are numbers is a map, and any other has fields.
RECURSIVE Places(_, _)
Places(s, V) ==
  {[schema |-> s, values |-> V]}
    \cup UNION {Places(s.props[k], MembersAt(NamedObjects(V), {k})) : k \in DOMAIN s.props}
    \cup (IF s.items = Nil THEN {} ELSE Places(s.items, Elements(V)))
    \cup (IF s.values = Nil THEN {} ELSE Places(s.values, MembersAt(NumericMaps(V), NumericKeys)))

PlacesOf(s, payloads) ==
  IF s = Nil THEN {} ELSE Places(s, {MaskTree(v) : v \in payloads})

\* Objects are maps by number everywhere or nowhere.
MapsApart(V) == NumericMaps(V) = {} \/ NamedObjects(V) = {}

-----------------------------------------------------------------------------
(***************************************************************************)
(* What a set of values says of their schema                               *)
(***************************************************************************)
NonNull(V) == {v \in V : v.kind # "null"}
Uniform(V) ==
  /\ MapsApart(V)
  /\ \E kinds \in {{"object"}, {"array"}, {"str", "num", "bool"}} : NonNull(V) \subseteq Of(V, kinds)

TypesOf(V) ==
  LET T == {TypeOf(v) : v \in V} IN IF "number" \in T THEN T \ {"integer"} ELSE T

ExampleTokens(V) ==
  {Token(v.kind, v.text) : v \in {w \in Of(V, {"str", "num"}) : w.text # Replacement}}

Summary(V) ==
  LET N == NonNull(V)
      formats == {FormatOfValue(v) : v \in N}
  IN  [types |-> TypesOf(V),
       format |-> IF Cardinality(formats) = 1 THEN CHOOSE f \in formats : TRUE ELSE "",
       props |-> UNION {Keys(o) : o \in NamedObjects(V)},
       required |-> {k \in AllKeys(NamedObjects(V)) : \A o \in N : k \in Keys(o)},
       hasItems |-> Elements(V) # {},
       hasValues |-> NumericMaps(V) # {}]

\* The schema is what its samples have in common, whatever the order they came
\* in, how often, and split over how many runs (merge.go:23-27): at every place
\* the types seen, the fields seen, required the fields all have, the format
\* all have. Stated where a place holds one kind of value.
Summarises ==
  LET places == PlacesOf(schema, seen) IN
    (\A p \in places : Uniform(p.values)) =>
      \A p \in places :
        LET s == p.schema IN
          [types |-> s.types, format |-> s.format, props |-> DOMAIN s.props,
           required |-> s.required, hasItems |-> s.items # Nil, hasValues |-> s.values # Nil]
            = Summary(p.values)

-----------------------------------------------------------------------------
\* v conforms to s, as JSON Schema has it; a format says something of strings
\* and numbers only.
RECURSIVE Conforms(_, _)
Conforms(v, s) ==
  /\ TypeOf(v) \in s.types \cup (IF "number" \in s.types THEN {"integer"} ELSE {})
  /\ v.kind \in {"str", "num"} /\ s.format # "" => FormatOfValue(v) = s.format
  /\ v.kind = "object" =>
       /\ s.required \subseteq Keys(v)
       /\ \A i \in DOMAIN v.members :
            LET m == v.members[i] IN
              IF m.name \in DOMAIN s.props THEN Conforms(m.value, s.props[m.name])
              ELSE s.values # Nil => Conforms(m.value, s.values)
  /\ v.kind = "array" /\ s.items # Nil => \A i \in DOMAIN v.elems : Conforms(v.elems[i], s.items)

\* Every payload conforms to the schema it was merged into (merge.go:11-12).
DescribesEverySample ==
  schema # Nil => \A v \in seen : Conforms(MaskTree(v), schema)

\* So it is where no place holds both maps by number and other objects, or
\* formatted values beside objects or arrays.
FormatsApart(V) ==
  Of(V, {"object", "array"}) = {} \/ {FormatOfValue(v) : v \in V} \subseteq {""}
DescribesSamples ==
  (\A p \in PlacesOf(schema, seen) : MapsApart(p.values) /\ FormatsApart(p.values))
    => DescribesEverySample

\* A schema's examples were recorded at its place, are no credentials, and are
\* all there are, up to three different ones (merge.go:182-208).
ExamplesHonest ==
  \A p \in PlacesOf(schema, seen) :
    LET have == ToSet(p.schema.examples)
        all == ExampleTokens(p.values)
    IN  /\ have \subseteq all /\ Cardinality(have) = Len(p.schema.examples)
        /\ Uniform(p.values) => Cardinality(have) = Min({3, Cardinality(all)})

\* Merging leaves no schema that contradicts itself: what is required is a
\* property, items belong to arrays, properties to objects, and never both.
SchemaTypeOK ==
  \A p \in PlacesOf(schema, seen) :
    LET s == p.schema IN
      /\ s.types # {} /\ s.types \subseteq DataType
      /\ ~({"integer", "number"} \subseteq s.types) /\ ~({"object", "array"} \subseteq s.types)
      /\ s.required \subseteq DOMAIN s.props
      /\ DOMAIN s.props # {} \/ s.values # Nil => "object" \in s.types
      /\ s.items # Nil => "array" \in s.types

-----------------------------------------------------------------------------
\* A field in the document is marked base64 when its examples are base64 of
\* protobuf that agrees, and stays so; what is marked had two such examples
\* (binary.go:52-56), which are still the first.
EncodingEvidence ==
  outcome = "saved" =>
    \A p \in PlacesOf(saved, savedSeen) :
      LET s == p.schema
          clean(n) == /\ \A i \in 1..n : IsBase64(s.examples[i])
                      /\ AreProtobuf({BytesOf[s.examples[i].text] : i \in 1..n})
      IN  /\ s.encoding = "base64" => Len(s.examples) >= 2 /\ clean(2)
          /\ Len(s.examples) >= 2 /\ clean(Len(s.examples)) /\ s.format = "" /\ "string" \in s.types
               => s.encoding = "base64"

-----------------------------------------------------------------------------
(***************************************************************************)
(* Declared messages                                                       *)
(***************************************************************************)
BytesAt(V) == {BytesOf[v.text] : v \in {w \in Of(V, {"str"}) : w.text \in DOMAIN BytesOf}}

\* A document that Enrich wrote has no declaration that names no message, and no
\* example that contradicts the message declared for it (enrich.go:28-35): the
\* next run would fail over what this one left. Nor was anything else recorded at
\* that place, in this run or an earlier one, that does, as long as what came
\* there is of one kind and no more than the three values that are kept. Of a
\* number that repeats within an example only the first field counts, here as in
\* the code (protovalidate.go:127-134); a later one of another wire type passes,
\* and so does what comes after three values (ToldImmediately).
SavedMatchesDeclared ==
  outcome = "saved" =>
    \A p \in {q \in PlacesOf(saved, savedSeen) : Declared(q.schema)} :
      /\ Agrees(p.schema)
      /\ Uniform(p.values) /\ Cardinality(ExampleTokens(p.values)) <= 3 =>
           \A d \in BytesAt(p.values) : ~ContradictsFirst(d, Expected(p.schema.content))

\* Enrich blames the recording only when a declared field got bytes that
\* contradict its message, or when the declaration means no message.
AlarmIsReal ==
  outcome = "mismatch" =>
    \E p \in {q \in PlacesOf(saved, savedSeen \cup recorded) : Declared(q.schema)} :
      \/ ~Compiles(p.schema.content)
      \/ \E d \in BytesAt(p.values) : Contradicts(d, Expected(p.schema.content))

\* What enrich.go:28-35 says, of all that was recorded: a run that succeeds was
\* given nothing that contradicts a declared message.
ToldImmediately ==
  outcome = "saved" =>
    \A p \in {q \in PlacesOf(saved, recorded) : Declared(q.schema)} :
      \A d \in BytesAt(p.values) : ~Contradicts(d, Expected(p.schema.content))

-----------------------------------------------------------------------------
RECURSIVE Extends(_, _)
Extends(s, t) ==
  LET optional(a, b) == a # Nil => b # Nil /\ Extends(a, b) IN
    /\ s.types \subseteq t.types \cup (IF "number" \in t.types THEN {"integer"} ELSE {})
    /\ s.types # {"null"} =>
         /\ t.required \subseteq s.required /\ t.format \in {s.format, ""}
         /\ IsPrefix(s.examples, t.examples)
         /\ s.encoding # "" => t.encoding = s.encoding
         /\ s.authored # "" => t.authored = s.authored
         /\ s.content # Nil => t.content = s.content
         /\ DOMAIN s.props \subseteq DOMAIN t.props
         /\ \A k \in DOMAIN s.props : Extends(s.props[k], t.props[k])
         /\ optional(s.items, t.items) /\ optional(s.values, t.values)

\* A run extends the schema on disk (enrich.go:24-26): types and fields are
\* only added, demands only dropped, and what a person wrote into it, a
\* description or a declared message, is still there.
OnlyWidens == [][saved # Nil => Extends(saved, saved')]_vars

=============================================================================
