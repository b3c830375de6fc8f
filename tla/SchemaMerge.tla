----------------------------- MODULE SchemaMerge ----------------------------
(***************************************************************************)
(* What Enrich makes of payloads: the schema of one (schema.go), two       *)
(* schemas merged (merge.go), and the walk over all of it that marks what  *)
(* is base64 protobuf and checks declared messages (ProtoWire).            *)
(*                                                                         *)
(* A schema is a record; items and values (additionalProperties) are Nil   *)
(* when there are none. The order of types and of properties is left out.  *)
(* authored stands for title and description. An example is the token it   *)
(* is the text of. Refused is the result of a merge that fails.            *)
(***************************************************************************)
EXTENDS JsonTokens, ProtoWire, SequencesExt

CONSTANTS
  Refused,
  FormatOf,        \* stringFormat, for the texts that have a format
  IntegerTexts,    \* the numbers Atoi takes
  NumericKeys      \* the member names made of digits

maxExamples == 3

DataType == {"object", "array", "string", "integer", "number", "boolean", "null"}

OfType(t) ==
  [types |-> {t}, format |-> "", examples |-> <<>>, encoding |-> "", props |-> <<>>,
   required |-> {}, items |-> Nil, values |-> Nil, authored |-> "", content |-> Nil]

-----------------------------------------------------------------------------
(***************************************************************************)
(* Merging                                                                 *)
(***************************************************************************)
\* Integer is part of number. (The mutant leaves the narrower one.)
UnionTypesNarrow(a, b) ==
  (a \cup b) \ (IF {"integer", "number"} \subseteq a \cup b THEN {"number"} ELSE {})
UnionTypesBoth(a, b) == a \cup b
UnionTypes(a, b) ==
  (a \cup b) \ (IF {"integer", "number"} \subseteq a \cup b THEN {"integer"} ELSE {})

\* (The mutant takes any schema that allows null for one that says nothing.)
IsNullableOnly(s) == "null" \in s.types
IsNullOnly(s) == s.types = {"null"}

\* (The mutant does not look for an equal example.)
AddExampleAgain(have, e) == IF Len(have) >= maxExamples THEN have ELSE Append(have, e)
AddExample(have, e) ==
  IF Len(have) >= maxExamples \/ Contains(have, e) THEN have ELSE Append(have, e)

MergeScalar(a, b) ==
  [a EXCEPT !.format = IF @ = b.format THEN @ ELSE "",
            !.examples = FoldLeft(AddExample, @, b.examples)]

\* (The mutant: what either side requires.)
KeptAll(a, b) == a.required \cup b.required
Kept(a, b) == a.required \cap b.required

RECURSIVE MergeSchema(_, _)

MergeOptional(a, b) ==
  IF a = Nil THEN b ELSE IF b = Nil THEN a ELSE MergeSchema(a, b)

\* With additionalProperties on either side, nothing but those is merged.
MergeValues(a, b) ==
  LET v == MergeOptional(a.values, b.values) IN
    IF v = Refused THEN Refused ELSE [a EXCEPT !.values = v]

MergeProperties(a, b) ==
  LET keys == DOMAIN a.props \cup DOMAIN b.props
      side(s, k) == IF k \in DOMAIN s.props THEN s.props[k] ELSE Nil
      merged == [k \in keys |-> MergeOptional(side(a, k), side(b, k))]
  IN  IF \E k \in keys : merged[k] = Refused THEN Refused
      ELSE [a EXCEPT !.props = merged, !.required = Kept(a, b)]

MergeObject(a, b) ==
  IF a.values # Nil \/ b.values # Nil THEN MergeValues(a, b) ELSE MergeProperties(a, b)

MergeArray(a, b) ==
  LET i == MergeOptional(a.items, b.items) IN
    IF i = Refused THEN Refused ELSE [a EXCEPT !.items = i]

\* A schema of nulls only has no shape: the other's is adopted whole.
MergeSchema(a, b) ==
  LET types == UnionTypes(a.types, b.types)
      both == [a EXCEPT !.types = types,
                        !.authored = IF @ # "" THEN @ ELSE b.authored]
  IN  IF a = Refused \/ b = Refused THEN Refused
      ELSE IF IsNullOnly(b) THEN both
      ELSE IF IsNullOnly(a) THEN [b EXCEPT !.types = types]
      ELSE IF {"object", "array"} \subseteq types THEN Refused
      ELSE IF "object" \in types THEN MergeObject(both, b)
      ELSE IF "array" \in types THEN MergeArray(both, b)
      ELSE MergeScalar(both, b)

-----------------------------------------------------------------------------
(***************************************************************************)
(* Inference. The decoder stands before the i-th token; next is where it   *)
(* stands afterwards.                                                      *)
(***************************************************************************)
StringFormat(text) == IF text \in DOMAIN FormatOf THEN FormatOf[text] ELSE ""

StringSchema(t) ==
  [OfType("string") EXCEPT !.format = StringFormat(t.text),
                           !.examples = IF t.text = Replacement THEN <<>> ELSE <<t>>]
NumberSchema(t) ==
  IF t.text \in IntegerTexts THEN [OfType("integer") EXCEPT !.examples = <<t>>]
  ELSE [OfType("number") EXCEPT !.format = "double", !.examples = <<t>>]

\* Numeric keys only: a map. Otherwise every key of this one is required.
ObjectSchema(pairs) ==
  LET keys == {pairs[i].name : i \in DOMAIN pairs}
      schemaOf(k) == pairs[CHOOSE i \in DOMAIN pairs : pairs[i].name = k].schema
      merge(a, p) == MergeOptional(a, p.schema)
  IN  IF \E i \in DOMAIN pairs : pairs[i].schema = Refused THEN Refused
      ELSE IF pairs = <<>> THEN OfType("object")
      ELSE IF keys \subseteq NumericKeys THEN
        LET v == FoldLeft(merge, Nil, pairs) IN
          IF v = Refused THEN Refused ELSE [OfType("object") EXCEPT !.values = v]
      ELSE [OfType("object") EXCEPT !.props = [k \in keys |-> schemaOf(k)], !.required = keys]

ArraySchema(elems) ==
  LET i == FoldLeft(MergeOptional, Nil, elems) IN
    IF i = Refused THEN Refused ELSE [OfType("array") EXCEPT !.items = i]

\* The examples of a credential are dropped by its key.
WithoutExamples(k, s) ==
  IF s # Refused /\ Masks(NewMasker({}), k) THEN [s EXCEPT !.examples = <<>>] ELSE s

RECURSIVE DecodeObject(_, _, _), DecodeArray(_, _, _)
DecodeSchema(ts, i) ==
  CASE ts[i].kind = "str"  -> [schema |-> StringSchema(ts[i]), next |-> i + 1]
    [] ts[i].kind = "num"  -> [schema |-> NumberSchema(ts[i]), next |-> i + 1]
    [] ts[i].kind = "bool" -> [schema |-> OfType("boolean"), next |-> i + 1]
    [] ts[i].kind = "null" -> [schema |-> OfType("null"), next |-> i + 1]
    [] ts[i].kind = "{"    -> DecodeObject(ts, i + 1, <<>>)
    [] ts[i].kind = "["    -> DecodeArray(ts, i + 1, <<>>)
DecodeObject(ts, i, pairs) ==
  LET d == DecodeSchema(ts, i + 1)
      pair == [name |-> ts[i].text, schema |-> WithoutExamples(ts[i].text, d.schema)]
  IN  IF ts[i].kind = "}" THEN [schema |-> ObjectSchema(pairs), next |-> i + 1]
      ELSE DecodeObject(ts, d.next, Append(pairs, pair))
DecodeArray(ts, i, elems) ==
  LET d == DecodeSchema(ts, i) IN
    IF ts[i].kind = "]" THEN [schema |-> ArraySchema(elems), next |-> i + 1]
    ELSE DecodeArray(ts, d.next, Append(elems, d.schema))

\* newSchemaFromJSON
NewSchemaFromJSON(tokens) == DecodeSchema(tokens, 1).schema

-----------------------------------------------------------------------------
(***************************************************************************)
(* Walking a schema                                                        *)
(***************************************************************************)
Parts(s) == {s.props[k] : k \in DOMAIN s.props} \cup ({s.items, s.values} \ {Nil})

RECURSIVE Walk(_)
Walk(s) == {s} \cup UNION {Walk(c) : c \in Parts(s)}

RECURSIVE DetectBinaryEncodings(_)
DetectBinaryEncodings(s) ==
  LET optional(t) == IF t = Nil THEN Nil ELSE DetectBinaryEncodings(t) IN
    [DetectSchemaBinary(s) EXCEPT
       !.props = [k \in DOMAIN @ |-> DetectBinaryEncodings(@[k])],
       !.items = optional(@), !.values = optional(@)]

ValidateProtoSchemas(s) == \A t \in Walk(s) : ~HasProblem(t)

=============================================================================
