------------------------------ MODULE WireProps -----------------------------
(***************************************************************************)
(* What bytes are as protobuf fields, for the parser to agree with: cut    *)
(* into pieces, each of which reads as a tag and its value. What a         *)
(* varint's bytes are worth is taken from the code (VarintValue).          *)
(***************************************************************************)
EXTENDS ProtoWire, MaskTokens

CONSTANT Data   \* the byte strings the wire parser is compared on

ASSUME DataAssumption == Data \subseteq Seq(Byte)

\* The bytes after the i-th up to the j-th are a varint; a value of its type.
IsVarint(d, i, j) ==
  /\ i < j /\ j - i <= MaxVarintBytes
  /\ d[j] < 128 /\ \A l \in (i + 1)..(j - 1) : d[l] >= 128
IsValue(d, i, j, wire) ==
  \/ wire = 0 /\ IsVarint(d, i, j)
  \/ wire = 1 /\ j = i + Size64
  \/ wire = 2 /\ \E m \in (i + 1)..j : IsVarint(d, i, m) /\ VarintValue(d, i, m) = j - m
  \/ wire = 5 /\ j = i + Size32
FieldsIn(d, i, j) ==
  {[number |-> VarintValue(d, i, m) \div 8, wire |-> VarintValue(d, i, m) % 8] :
     m \in {l \in (i + 1)..j :
              /\ IsVarint(d, i, l) /\ VarintValue(d, i, l) >= 8
              /\ IsValue(d, l, j, VarintValue(d, i, l) % 8)}}

\* A tiling is the set of the pieces' last bytes; Cut(C, k) is the k-th.
Cut(C, k) == IF k = 0 THEN 0 ELSE Nth(C, k)
Tilings(d) ==
  {C \in SUBSET (1..Len(d)) :
     /\ d # <<>> => Len(d) \in C
     /\ \A k \in 1..Cardinality(C) : FieldsIn(d, Cut(C, k - 1), Cut(C, k)) # {}}
FieldsOfTiling(d, C) ==
  [k \in 1..Cardinality(C) |-> CHOOSE f \in FieldsIn(d, Cut(C, k - 1), Cut(C, k)) : TRUE]

\* The parser accepts bytes exactly when every one of them belongs to a field
\* (binary.go:136-142), and returns those fields in order: past a varint that
\* overflows its word, a length that does, and values that end with the data.
ParsesAsTiled(d) ==
  LET p == ParseProtoWire(d) IN
    /\ p.ok <=> Tilings(d) # {}
    /\ \A C \in Tilings(d) : p.fields = FieldsOfTiling(d, C)

\* These are functions; they are compared once, before any payload.
WireTiles == input = <<>> => \A d \in Data : ParsesAsTiled(d)

-----------------------------------------------------------------------------
TrueFields(d) ==
  UNION {{FieldsOfTiling(d, C)[k] : k \in 1..Cardinality(C)} : C \in Tilings(d)}

\* Bytes that are the fields of one message.
Consistent(F) == \A f, g \in F : f.number = g.number => f.wire = g.wire
AreProtobuf(D) ==
  /\ \A d \in D : Tilings(d) # {} /\ TrueFields(d) # {}
  /\ Consistent(UNION {TrueFields(d) : d \in D})

\* Bytes that a message with these wire types by number cannot be.
Contradicts(d, expected) ==
  \/ Tilings(d) = {}
  \/ \E f \in TrueFields(d) : f.number \in DOMAIN expected /\ f.wire # expected[f.number]

\* Bytes that contradict it in the first field of some number already.
LeadingFields(d) ==
  UNION {LET fs == FieldsOfTiling(d, C) IN
           {fs[k] : k \in {l \in DOMAIN fs : \A m \in 1..(l - 1) : fs[m].number # fs[l].number}} :
             C \in Tilings(d)}
ContradictsFirst(d, expected) ==
  \/ Tilings(d) = {}
  \/ \E f \in LeadingFields(d) : f.number \in DOMAIN expected /\ f.wire # expected[f.number]

\* A schema whose contentSchema declares a message, and its examples agree.
Declared(s) == s.content # Nil /\ s.content.format = "protobuf"
Agrees(s) ==
  /\ Compiles(s.content)
  /\ \A d \in SampleBytes(s) : ~ContradictsFirst(d, Expected(s.content))

=============================================================================
