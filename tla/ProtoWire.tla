------------------------------ MODULE ProtoWire -----------------------------
(***************************************************************************)
(* Reading bytes as raw protobuf wire format (binary.go): readVarint,      *)
(* parseProtoWire, looksLikeProtobuf; and what is decided by it for one    *)
(* schema, from its examples (detectSchemaBinary, protovalidate.go). Sizes *)
(* are constants, so that an instance may scale them down together: the    *)
(* code has 64-bit words, at most 10 bytes to a varint, and fixed values   *)
(* of 8 and 4 bytes.                                                       *)
(***************************************************************************)
EXTENDS Integers, Sequences, FiniteSetsExt

CONSTANTS
  Word, MaxVarintBytes, Size64, Size32,
  BytesOf,   \* for the texts that are base64, their bytes
  Nil        \* no contentSchema, items or values

\* Word is how many values a word has, 2^64. As 10 bytes are to 64 bits: the
\* least number that holds a word.
ASSUME WordAssumption ==
  /\ Word \in Nat \ {0} /\ MaxVarintBytes \in Nat \ {0}
  /\ 128^(MaxVarintBytes - 1) < Word /\ Word <= 128^MaxVarintBytes
ASSUME SizeAssumption == Size32 \in Nat \ {0} /\ Size64 = 2 * Size32

Byte == 0..255
ASSUME BytesAssumption == \A t \in DOMAIN BytesOf : BytesOf[t] \in Seq(Byte)

\* What the bytes after the i-th up to the j-th are worth: seven bits of each,
\* the lowest first. What is shifted out of the word is lost.
VarintValue(data, i, j) ==
  LET value[l \in i..j] ==
        IF l = i THEN 0 ELSE value[l - 1] + (((data[l] % 128) * 128^(l - i - 1)) % Word)
  IN  value[j]

\* readVarint from the bytes after the i-th, with n = 0 for its error.
ReadVarint(data, i) ==
  LET lasts == {j \in (i + 1)..Len(data) : j <= i + MaxVarintBytes /\ data[j] < 128}
  IN  IF lasts = {} THEN [value |-> 0, n |-> 0]
      ELSE [value |-> VarintValue(data, i, Min(lasts)), n |-> Min(lasts) - i]

Failed == -1

\* Where the value after the i-th byte ends. (The mutant compares a length
\* with all the data.)
FieldEndLoose(data, i, wire) ==
  LET v == ReadVarint(data, i) IN
    CASE wire = 0 /\ v.n > 0                         -> i + v.n
      [] wire = 1 /\ i + Size64 <= Len(data)         -> i + Size64
      [] wire = 2 /\ v.n > 0 /\ v.value <= Len(data) -> i + v.n + v.value
      [] wire = 5 /\ i + Size32 <= Len(data)         -> i + Size32
      [] OTHER                                       -> Failed
FieldEnd(data, i, wire) ==
  LET v == ReadVarint(data, i) IN
    CASE wire = 0 /\ v.n > 0                                     -> i + v.n
      [] wire = 1 /\ i + Size64 <= Len(data)                     -> i + Size64
      [] wire = 2 /\ v.n > 0 /\ v.value <= Len(data) - (i + v.n) -> i + v.n + v.value
      [] wire = 5 /\ i + Size32 <= Len(data)                     -> i + Size32
      [] OTHER                                                   -> Failed

\* The field after the i-th byte, and where it ends.
ReadField(data, i) ==
  LET tag == ReadVarint(data, i)
      wire == tag.value % 8
  IN  [field |-> [number |-> tag.value \div 8, wire |-> wire],
       end |-> IF tag.n = 0 \/ tag.value < 8 THEN Failed
               ELSE FieldEnd(data, i + tag.n, wire)]

ParseProtoWire(data) ==
  LET rest[i \in Nat] ==
        LET read == ReadField(data, i)
            after == rest[read.end]
        IN  IF i >= Len(data) THEN [ok |-> TRUE, fields |-> <<>>]
            ELSE IF read.end = Failed \/ ~after.ok THEN [ok |-> FALSE, fields |-> <<>>]
            ELSE [ok |-> TRUE, fields |-> <<read.field>> \o after.fields]
  IN  rest[0]

FieldsOf(data) == LET p == ParseProtoWire(data) IN {p.fields[i] : i \in DOMAIN p.fields}

\* (The mutant does not compare the samples.)
LooksLikeProtobufEach(samples) ==
  \A d \in samples : ParseProtoWire(d).ok /\ FieldsOf(d) # {}
LooksLikeProtobuf(samples) ==
  /\ \A d \in samples : ParseProtoWire(d).ok /\ FieldsOf(d) # {}
  /\ \A d, e \in samples : \A f \in FieldsOf(d), g \in FieldsOf(e) :
       f.number = g.number => f.wire = g.wire

\* The examples that are base64 strings, and their bytes.
IsBase64(e) == e.kind = "str" /\ e.text \in DOMAIN BytesOf
Base64Examples(s) == {s.examples[i] : i \in {j \in DOMAIN s.examples : IsBase64(s.examples[j])}}
SampleBytes(s) == {BytesOf[e.text] : e \in Base64Examples(s)}

minSamplesForBinaryDetection == 2

\* detectSchemaBinary
DetectSchemaBinary(s) ==
  IF /\ "string" \in s.types /\ s.format = "" /\ s.encoding = ""
     /\ Len(s.examples) >= minSamplesForBinaryDetection
     /\ \A i \in DOMAIN s.examples : IsBase64(s.examples[i])
     /\ LooksLikeProtobuf(SampleBytes(s))
  THEN [s EXCEPT !.encoding = "base64"]
  ELSE s

-----------------------------------------------------------------------------
(***************************************************************************)
(* What a .proto declares (protovalidate.go). A contentSchema is its       *)
(* format, the messages its source defines, by name and each with the      *)
(* kinds of its fields by number (a failed compilation, or a schema that   *)
(* is no string, is source = "broken" and has none), and the message its   *)
(* extension names, "" for none.                                           *)
(***************************************************************************)
VarintKinds == {"bool", "enum", "int32", "sint32", "uint32", "int64", "sint64", "uint64"}
Fixed64Kinds == {"fixed64", "sfixed64", "double"}
BytesKinds == {"string", "bytes", "message"}
Fixed32Kinds == {"fixed32", "sfixed32", "float"}
Kind == VarintKinds \cup Fixed64Kinds \cup BytesKinds \cup Fixed32Kinds \cup {"group"}

WireTypeForKind(k) ==
  CASE k \in VarintKinds  -> 0
    [] k \in Fixed64Kinds -> 1
    [] k \in BytesKinds   -> 2
    [] k \in Fixed32Kinds -> 5

\* expectedWireTypes: a group is left out.
ExpectedWireTypes(message) ==
  [n \in {m \in DOMAIN message : message[m] # "group"} |-> WireTypeForKind(message[n])]

\* compileProtoMessage: the messages that may be meant; it is an error
\* unless there is just one.
Candidates(cs) ==
  IF cs.source = "broken" THEN {}
  ELSE IF cs.named # "" THEN {cs.named} \cap DOMAIN cs.messages
  ELSE DOMAIN cs.messages
Compiles(cs) == Cardinality(Candidates(cs)) = 1
Expected(cs) == ExpectedWireTypes(cs.messages[CHOOSE m \in Candidates(cs) : TRUE])

\* What one example's bytes show against the declaration: they do not parse,
\* or the first field of some declared number has another wire type. (The
\* mutants miss bytes that do not parse, or expect every field declared.)
ConflictsIfParsed(data, expected) ==
  \E f \in FieldsOf(data) : f.number \in DOMAIN expected /\ f.wire # expected[f.number]
FirstFields(data) ==
  LET fs == ParseProtoWire(data).fields IN
    {fs[i] : i \in {j \in DOMAIN fs : \A l \in 1..(j - 1) : fs[l].number # fs[j].number}}
ConflictsUndeclared(data, expected) ==
  \/ ~ParseProtoWire(data).ok
  \/ \E f \in FirstFields(data) :
       f.number \notin DOMAIN expected \/ f.wire # expected[f.number]
Conflicts(data, expected) ==
  \/ ~ParseProtoWire(data).ok
  \/ \E f \in FirstFields(data) :
       f.number \in DOMAIN expected /\ f.wire # expected[f.number]

\* validateSchemaProtoContent: an example that is not base64 is passed over.
HasProblem(s) ==
  /\ s.content # Nil /\ s.content.format = "protobuf"
  /\ \/ ~Compiles(s.content)
     \/ \E d \in SampleBytes(s) : Conflicts(d, Expected(s.content))

=============================================================================
