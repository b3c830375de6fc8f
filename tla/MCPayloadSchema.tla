--------------------------- MODULE MCPayloadSchema --------------------------
(***************************************************************************)
(* Small instances of PayloadSchema for TLC.                               *)
(***************************************************************************)
EXTENDS PayloadSchemaProps

Str(text) == JsonString(text)
Num(text) == [kind |-> "num", text |-> text]
Bool == [kind |-> "bool"]
Null == [kind |-> "null"]
Obj(ms) == JsonObject([i \in DOMAIN ms |-> [name |-> ms[i][1], value |-> ms[i][2]]])
Arr(es) == JsonArray(es)

\* Names: api_key is covered under another spelling, pin by the caller's choice.
MCNormalize == [k \in {"a", "b", "0", "1", "token", "pin"} |-> k] @@ [api_key |-> "apikey"]
MCDefault == {"token", "apikey"}

MCFormat == [uuid1 |-> "uuid", uuid2 |-> "uuid", mail |-> "email"]
MCIntegers == {"1", "2"}

\* One field each unless said otherwise: wire types as in the names.
MCBytes ==
  [varint1 |-> <<8, 1>>, varint2 |-> <<8, 129, 1>>, len1 |-> <<10, 1, 7>>,
   other2 |-> <<16, 1>>, both |-> <<8, 1, 18, 0>>, torn |-> <<8>>, none |-> <<>>,
   twice |-> <<8, 1, 13, 7>>]

Pool(n, vs) == [samples |-> n, payloads |-> vs]

ScalarPool == Pool(4, {Null, Str("uuid1"), Str("uuid2"), Str("mail"), Str("plain"),
                       Num("1"), Num("1.5"), Bool})

ObjectPool ==
  Pool(3, {Null, Str("mail"),
           Obj(<< <<"a", Str("uuid1")>> >>),
           Obj(<< <<"a", Str("a")>>, <<"b", Null>> >>),
           Obj(<< <<"b", Obj(<< <<"a", Num("1.5")>>, <<"b", Bool>> >>)>>, <<"a", Str("uuid2")>> >>),
           Obj(<< <<"b", Obj(<< <<"b", Bool>> >>)>> >>),
           Arr(<<Null>>)})

MapPool ==
  Pool(3, {Obj(<<>>), Obj(<< <<"0", Num("1")>>, <<"1", Str("plain")>> >>),
           Obj(<< <<"1", Null>> >>), Obj(<< <<"0", Num("1.5")>> >>),
           Obj(<< <<"1", Obj(<<>>)>>, <<"0", Arr(<<>>)>> >>),
           Obj(<< <<"0", Num("2")>>, <<"a", Num("2")>> >>)})

ArrayPool ==
  Pool(3, {Arr(<<>>), Arr(<<Null>>), Arr(<<Num("1"), Num("2"), Num("1.5"), Num("7.5")>>),
           Arr(<<Str("mail"), Num("1")>>), Arr(<<Arr(<<>>), Arr(<<Str("uuid1")>>)>>),
           Arr(<<Obj(<< <<"a", Bool>> >>), Obj(<<>>)>>)})

SecretPool ==
  Pool(2, {Obj(<< <<"token", Obj(<< <<"a", Arr(<<Null>>)>>, <<"a", Null>> >>)>>, <<"a", Str("token")>> >>),
           Obj(<< <<"a", Arr(<<Obj(<< <<"api_key", Num("1")>> >>), Str("uuid1")>>)>>, <<"b", Str("b")>> >>),
           Obj(<< <<"a", Obj(<< <<"pin", Num("2")>>, <<"b", Str("***")>> >>)>>, <<"pin", Str("mail")>> >>),
           Obj(<< <<"a", Num("1")>>, <<"a", Num("2")>> >>)})

BytesPool ==
  Pool(4, {Str("varint1"), Str("varint2"), Str("len1"), Str("other2"), Str("torn"), Str("plain")})

FieldPool ==
  Pool(3, {Obj(<< <<"a", Str(t)>> >>) : t \in {"varint1", "varint2", "both", "none", "twice"}}
            \cup {Obj(<< <<"a", Null>> >>)})

\* One payload at a time, for the masker: brackets nested four deep, with
\* something before or after each, and the covered name anywhere.
One == Num("1")
Nested(vs) ==
  UNION {{Arr(<<v>>), Arr(<<v, One>>), Arr(<<One, v>>)} : v \in vs}
    \cup {Obj(<< <<k, v>> >>) : k \in {"a", "token"}, v \in vs}
    \cup UNION {{Obj(<< <<k, v>>, <<l, One>> >>), Obj(<< <<l, One>>, <<k, v>> >>)} :
                  k, l \in {"a", "token"}, v \in vs}
Outer(vs) ==
  UNION {{Arr(<<v, One>>), Obj(<< <<"a", v>>, <<"token", One>> >>),
          Obj(<< <<"token", v>>, <<"a", One>> >>)} : v \in vs}
NestedPool == Pool(1, Outer(Nested(Nested({Obj(<<>>)}))))

AllPools ==
  {ScalarPool, ObjectPool, MapPool, ArrayPool, SecretPool, BytesPool, FieldPool, NestedPool}
RequiredPool == {Pool(2, {Obj(<< <<"a", Num("1")>> >>), Obj(<< <<"0", Num("1")>> >>)})}
DriftPool == {Pool(4, {Str("varint1"), Str("varint2"), Str("other2"), Str("len1")})}

\* Messages: one that calls field 1 an integer, one of two to choose from, and
\* three that say nothing: an unnamed choice, broken source, another format.
Quote == [Tick |-> (1 :> "int64" @@ 3 :> "group")]
TwoMessages == [Tick |-> (1 :> "string"), Bar |-> (2 :> "sint32")]
Decl(f, src, ms, n) == [format |-> f, source |-> src, messages |-> ms, named |-> n]
OneDeclaration == {Decl("protobuf", "proto", Quote, "")}
AllDeclarations ==
  OneDeclaration \cup
  {Decl("protobuf", "proto", TwoMessages, "Tick"), Decl("protobuf", "proto", TwoMessages, ""),
   Decl("protobuf", "broken", <<>>, ""), Decl("avro", "proto", Quote, "")}

\* Bytes that make tags of each kind, varints that go on, and lengths; and of
\* four, those with which one field can end within another's room.
MCData ==
  BoundedSeq({0, 1, 8, 9, 10, 11, 13, 129, 255}, 3) \cup BoundedSeq({1, 9, 10, 13, 129, 255}, 4)

MCPayloads == {Tokens(v) : v \in UNION {p.payloads : p \in AllPools}}

=============================================================================
