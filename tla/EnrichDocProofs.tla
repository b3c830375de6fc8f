-------------------------- MODULE EnrichDocProofs --------------------------
(***************************************************************************)
(* Whatever sessions Enrich is run over, however often, and whichever of   *)
(* its searches' matches it takes: the document it extends stays closed,   *)
(* gets no second server for a host and no second channel for a server,    *)
(* loses nothing, and describes what the sessions showed and no more.      *)
(***************************************************************************)
EXTENDS EnrichDoc, FiniteSetTheorems, SequenceTheorems, WellFoundedInduction, TLAPS

-----------------------------------------------------------------------------
(***************************************************************************)
(* Maps, and the key that uniqueKey finds.                                 *)
(***************************************************************************)
LEMMA PutIsMap ==
  ASSUME NEW m, IsMap(m), NEW k, NEW v
  PROVE  IsMap(Put(m, k, v))
<1>1. IsFiniteSet(DOMAIN m \cup {k})
  BY FS_AddElement DEF IsMap
<1> QED
  BY <1>1 DEF IsMap, Put

\* Initial segments are finite sets, and strict inclusion is well-founded on
\* them: a non-empty set of naturals has a least element.
LEMMA LeastNatural ==
  ASSUME NEW S \in SUBSET Nat, S # {}
  PROVE  \E n \in S : \A m \in S : n <= m
<1> DEFINE T == {0..n : n \in S}
<1>1. T \subseteq FiniteSubsetsOf(Nat) /\ T # {}
  <2>1. ASSUME NEW n \in S PROVE 0..n \in FiniteSubsetsOf(Nat)
    <3>1. IsFiniteSet(0..n)
      BY FS_Interval
    <3>2. 0..n \in SUBSET Nat
      OBVIOUS
    <3> QED
      BY <3>1, <3>2 DEF FiniteSubsetsOf
  <2> QED
    BY <2>1
<1>2. IsWellFoundedOn(StrictSubsetOrdering(Nat), FiniteSubsetsOf(Nat))
  BY FS_StrictSubsetOrderingWellFounded
<1>3. PICK x \in T : \A y \in T : ~ (<<y, x>> \in StrictSubsetOrdering(Nat))
  <2> HIDE DEF T
  <2> QED
    BY <1>1, <1>2, WFMin
<1>4. PICK n \in S : x = 0..n
  OBVIOUS
<1>5. ASSUME NEW m \in S, m < n PROVE FALSE
  <2>1. <<0..m, 0..n>> \in StrictSubsetOrdering(Nat)
    <3>1. 0..m \subseteq 0..n
      BY <1>5
    <3>2. n \in 0..n /\ n \notin 0..m
      BY <1>5
    <3> QED
      BY <3>1, <3>2 DEF StrictSubsetOrdering
  <2> QED
    BY <2>1, <1>3, <1>4
<1> QED
  BY <1>5

\* Of one key more than the map has, one is free; uniqueKey takes the first.
LEMMA FreeKey ==
  ASSUME NEW m, IsMap(m), NEW base
  PROVE  UniqueKey(m, base) \notin DOMAIN m
<1> DEFINE c == Cardinality(DOMAIN m)
           Taken == {n \in 1..(c + 1) : <<base, n>> \in DOMAIN m}
           Free == {n \in 1..(c + 1) : <<base, n>> \notin DOMAIN m}
<1>1. c \in Nat
  BY FS_CardinalityType DEF IsMap
<1>2. Free # {}
  <2> SUFFICES ASSUME Free = {} PROVE FALSE
    OBVIOUS
  <2> DEFINE key == [n \in 1..(c + 1) |-> <<base, n>>]
  <2>1. key \in Injection(1..(c + 1), DOMAIN m)
    <3>1. key \in [1..(c + 1) -> DOMAIN m]
      OBVIOUS
    <3>2. \A i, j \in 1..(c + 1) : key[i] = key[j] => i = j
      OBVIOUS
    <3> QED
      BY <3>1, <3>2 DEF Injection, IsInjective
  <2>2. IsFiniteSet(DOMAIN m)
    BY DEF IsMap
  <2>3. Cardinality(1..(c + 1)) <= c
    <3> HIDE DEF key
    <3> QED
      BY <2>1, <2>2, FS_Injection
  <2>4. Cardinality(1..(c + 1)) = c + 1
    BY <1>1, FS_Interval
  <2> QED
    BY <1>1, <2>3, <2>4
<1>3. PICK f \in Free : \A n \in Free : f <= n
  <2>1. Free \in SUBSET Nat
    BY <1>1
  <2> HIDE DEF Free
  <2> QED
    BY <1>2, <2>1, LeastNatural
<1>4. f \in 1..(c + 1) /\ <<base, f>> \notin DOMAIN m
  OBVIOUS
<1>5. \A l \in 1..(f - 1) : <<base, l>> \in DOMAIN m
  BY <1>1, <1>3, <1>4
<1> DEFINE n0 == CHOOSE n \in 1..(c + 1) :
                   /\ <<base, n>> \notin DOMAIN m
                   /\ \A l \in 1..(n - 1) : <<base, l>> \in DOMAIN m
<1>6. <<base, n0>> \notin DOMAIN m
  BY <1>4, <1>5
<1>7. UniqueKey(m, base) = <<base, n0>>
  BY DEF UniqueKey
<1> QED
  BY <1>6, <1>7

-----------------------------------------------------------------------------
(***************************************************************************)
(* What is true of the document in memory and of the one on disk. A server *)
(* or channel that Enrich added is found again, because it is no           *)
(* reference: without that, a host or a server could get a second one.     *)
(***************************************************************************)
AddedAreFound(d) ==
  /\ \A k \in DOMAIN d.servers \ DOMAIN start.servers : ~d.servers[k].ref
  /\ \A c \in DOMAIN d.channels \ DOMAIN start.channels : ~d.channels[c].ref

DocumentInv(d) ==
  /\ IsDocument(d) /\ Closed(d)
  /\ ServersOnce(d) /\ ChannelsOnce(d) /\ AddedAreFound(d)
  /\ Extended(start, d)

LEMMA ExtendedReflexive ==
  ASSUME NEW d
  PROVE  Extended(d, d)
BY DEF Extended

LEMMA ExtendedTransitive ==
  ASSUME NEW d, NEW e, NEW f, Extended(d, e), Extended(e, f)
  PROVE  Extended(d, f)
<1>1. \A k \in DOMAIN d.servers : k \in DOMAIN f.servers /\ f.servers[k] = d.servers[k]
  BY DEF Extended
<1>2. ASSUME NEW c \in DOMAIN d.channels
      PROVE  /\ c \in DOMAIN f.channels
             /\ f.channels[c].servers = d.channels[c].servers
             /\ Named(d.channels[c]) \subseteq Named(f.channels[c])
  <2>1. /\ c \in DOMAIN e.channels
        /\ e.channels[c].servers = d.channels[c].servers
        /\ Named(d.channels[c]) \subseteq Named(e.channels[c])
    BY DEF Extended
  <2>2. /\ c \in DOMAIN f.channels
        /\ f.channels[c].servers = e.channels[c].servers
        /\ Named(e.channels[c]) \subseteq Named(f.channels[c])
    BY <2>1 DEF Extended
  <2> QED
    BY <2>1, <2>2
<1>3. ASSUME NEW o \in DOMAIN d.operations
      PROVE  /\ o \in DOMAIN f.operations
             /\ f.operations[o].action = d.operations[o].action
             /\ f.operations[o].channel = d.operations[o].channel
             /\ d.operations[o].messages \subseteq f.operations[o].messages
  <2>1. /\ o \in DOMAIN e.operations
        /\ e.operations[o].action = d.operations[o].action
        /\ e.operations[o].channel = d.operations[o].channel
        /\ d.operations[o].messages \subseteq e.operations[o].messages
    BY DEF Extended
  <2>2. /\ o \in DOMAIN f.operations
        /\ f.operations[o].action = e.operations[o].action
        /\ f.operations[o].channel = e.operations[o].channel
        /\ e.operations[o].messages \subseteq f.operations[o].messages
    BY <2>1 DEF Extended
  <2> QED
    BY <2>1, <2>2
<1>4. ASSUME NEW n \in DOMAIN d.schemas
      PROVE  n \in DOMAIN f.schemas /\ d.schemas[n].shapes \subseteq f.schemas[n].shapes
  <2>1. n \in DOMAIN e.schemas /\ d.schemas[n].shapes \subseteq e.schemas[n].shapes
    BY DEF Extended
  <2>2. n \in DOMAIN f.schemas /\ e.schemas[n].shapes \subseteq f.schemas[n].shapes
    BY <2>1 DEF Extended
  <2> QED
    BY <2>1, <2>2
<1> QED
  BY <1>1, <1>2, <1>3, <1>4 DEF Extended

-----------------------------------------------------------------------------
(***************************************************************************)
(* What each addition keeps.                                               *)
(***************************************************************************)
LEMMA ServerAdded ==
  ASSUME NEW d, DocumentInv(d),
         NEW key, key \notin DOMAIN d.servers,
         NEW host, NEW name,
         \A k \in DOMAIN d.servers : ~d.servers[k].ref => d.servers[k].host # host,
         NEW e,
         e = [d EXCEPT
                !.servers = Put(@, key, [host |-> host, ref |-> FALSE, security |-> name]),
                !.schemes = @ \cup ({name} \ {Nil})]
  PROVE  DocumentInv(e) /\ Extended(d, e)
<1> DEFINE server == [host |-> host, ref |-> FALSE, security |-> name]
           servers == Put(d.servers, key, server)
<1>1. e = [servers |-> servers, channels |-> d.channels, operations |-> d.operations,
           schemas |-> d.schemas, schemes |-> d.schemes \cup ({name} \ {Nil})]
  BY DEF DocumentInv, IsDocument
<1>2. /\ IsMap(servers)
      /\ DOMAIN servers = DOMAIN d.servers \cup {key}
      /\ \A x \in DOMAIN d.servers \cup {key} :
           servers[x] = IF x = key THEN server ELSE d.servers[x]
  <2>1. IsMap(d.servers)
    BY DEF DocumentInv, IsDocument
  <2> HIDE DEF server
  <2>2. IsMap(servers)
    BY <2>1, PutIsMap, Zenon
  <2> QED
    BY <2>2 DEF Put
<1>3. /\ e.servers = servers /\ e.channels = d.channels /\ e.operations = d.operations
      /\ e.schemas = d.schemas /\ e.schemes = d.schemes \cup ({name} \ {Nil})
  BY <1>1
<1>4. /\ DOMAIN e.servers = DOMAIN d.servers \cup {key}
      /\ e.servers[key].host = host
      /\ ~e.servers[key].ref
      /\ e.servers[key].security = name
      /\ \A k \in DOMAIN d.servers : e.servers[k] = d.servers[k]
  <2>1. /\ DOMAIN e.servers = DOMAIN d.servers \cup {key}
        /\ e.servers[key] = server
        /\ \A k \in DOMAIN d.servers : e.servers[k] = d.servers[k]
    <3> HIDE DEF server, servers
    <3> QED
      BY <1>2, <1>3
  <2>2. server.host = host /\ ~server.ref /\ server.security = name
    OBVIOUS
  <2> HIDE DEF server, servers
  <2> QED
    BY <2>1, <2>2
<1> HIDE DEF server, servers
<1>5. Extended(d, e)
  BY <1>3, <1>4 DEF Extended
<1>6. IsDocument(e)
  BY <1>1, <1>2, <1>3 DEF DocumentInv, IsDocument
<1>7. Closed(e)
  <2>1. ServersKnown(e)
    BY <1>3, <1>4 DEF DocumentInv, Closed, ServersKnown
  <2>2. SchemasKnown(e) /\ OperationsKnown(e)
    BY <1>3 DEF DocumentInv, Closed, SchemasKnown, OperationsKnown
  <2>3. SchemesKnown(e)
    BY <1>3, <1>4 DEF DocumentInv, Closed, SchemesKnown
  <2> QED
    BY <2>1, <2>2, <2>3 DEF Closed
<1>8. key \notin DOMAIN start.servers
  BY DEF DocumentInv, Extended
<1>9. AddedAreFound(e)
  BY <1>3, <1>4 DEF DocumentInv, AddedAreFound
<1>10. ServersOnce(e)
  <2> SUFFICES ASSUME NEW k \in DOMAIN e.servers,
                      NEW l \in DOMAIN e.servers \ DOMAIN start.servers,
                      ~e.servers[k].ref, e.servers[k].host = e.servers[l].host
               PROVE  k = l
    BY DEF ServersOnce
  <2>1. CASE k # key /\ l # key
    BY <1>4, <2>1 DEF DocumentInv, ServersOnce
  <2>2. CASE k # key /\ l = key
    BY <1>4, <2>2
  <2>3. CASE k = key /\ l # key
    BY <1>4, <2>3 DEF DocumentInv, AddedAreFound
  <2> QED
    BY <2>1, <2>2, <2>3
<1>11. ChannelsOnce(e)
  BY <1>3 DEF DocumentInv, ChannelsOnce
<1>12. Extended(start, e)
  BY <1>5, ExtendedTransitive DEF DocumentInv
<1> QED
  BY <1>5, <1>6, <1>7, <1>9, <1>10, <1>11, <1>12 DEF DocumentInv

LEMMA ChannelAdded ==
  ASSUME NEW d, DocumentInv(d),
         NEW server \in DOMAIN d.servers,
         NEW key, key \notin DOMAIN d.channels,
         \A c \in DOMAIN d.channels : ~d.channels[c].ref => server \notin d.channels[c].servers,
         NEW e,
         e = [d EXCEPT !.channels =
                Put(@, key, [servers |-> {server}, messages |-> {}, ref |-> FALSE])]
  PROVE  DocumentInv(e) /\ Extended(d, e)
<1> DEFINE channel == [servers |-> {server}, messages |-> {}, ref |-> FALSE]
           channels == Put(d.channels, key, channel)
<1>1. e = [servers |-> d.servers, channels |-> channels, operations |-> d.operations,
           schemas |-> d.schemas, schemes |-> d.schemes]
  BY DEF DocumentInv, IsDocument
<1>2. /\ IsMap(channels)
      /\ DOMAIN channels = DOMAIN d.channels \cup {key}
      /\ \A x \in DOMAIN d.channels \cup {key} :
           channels[x] = IF x = key THEN channel ELSE d.channels[x]
  <2>1. IsMap(d.channels)
    BY DEF DocumentInv, IsDocument
  <2> HIDE DEF channel
  <2>2. IsMap(channels)
    BY <2>1, PutIsMap, Zenon
  <2> QED
    BY <2>2 DEF Put
<1>3. /\ e.servers = d.servers /\ e.channels = channels /\ e.operations = d.operations
      /\ e.schemas = d.schemas /\ e.schemes = d.schemes
  BY <1>1
<1>4. /\ DOMAIN e.channels = DOMAIN d.channels \cup {key}
      /\ e.channels[key] = channel
      /\ e.channels[key].servers = {server}
      /\ e.channels[key].messages = {}
      /\ ~e.channels[key].ref
      /\ \A c \in DOMAIN d.channels : e.channels[c] = d.channels[c]
  <2>1. channel.servers = {server} /\ channel.messages = {} /\ ~channel.ref
    OBVIOUS
  <2> HIDE DEF channel, channels
  <2> QED
    BY <1>2, <1>3, <2>1
<1>5. Extended(d, e)
  BY <1>3, <1>4 DEF Extended
<1>6. IsDocument(e)
  <2>1. ASSUME NEW c \in DOMAIN e.channels
        PROVE  LET ch == e.channels[c] IN
          /\ ch = [servers |-> ch.servers, messages |-> ch.messages, ref |-> ch.ref]
          /\ ch.messages \in (SUBSET Names) \cup {Nil}
    <3>1. CASE c = key
      BY <1>4, <3>1
    <3>2. CASE c # key
      <4>1. c \in DOMAIN d.channels /\ e.channels[c] = d.channels[c]
        BY <1>4, <3>2
      <4> HIDE DEF channel, channels
      <4> QED
        BY <4>1 DEF DocumentInv, IsDocument
    <3> QED
      BY <3>1, <3>2
  <2> HIDE DEF channel, channels
  <2> QED
    BY <1>1, <1>2, <1>3, <2>1 DEF DocumentInv, IsDocument
<1> HIDE DEF channel, channels
<1>7. Closed(e)
  <2>1. ServersKnown(e)
    BY <1>3, <1>4 DEF DocumentInv, Closed, ServersKnown
  <2>2. SchemasKnown(e)
    BY <1>3, <1>4 DEF DocumentInv, Closed, SchemasKnown, Named
  <2>3. OperationsKnown(e)
    <3> SUFFICES ASSUME NEW o \in DOMAIN d.operations
                 PROVE  /\ d.operations[o].channel \in DOMAIN e.channels
                        /\ d.operations[o].messages
                             \subseteq Named(e.channels[d.operations[o].channel])
      BY <1>3 DEF OperationsKnown
    <3>1. /\ d.operations[o].channel \in DOMAIN d.channels
          /\ d.operations[o].messages \subseteq Named(d.channels[d.operations[o].channel])
      BY DEF DocumentInv, Closed, OperationsKnown
    <3>2. /\ d.operations[o].channel \in DOMAIN e.channels
          /\ e.channels[d.operations[o].channel] = d.channels[d.operations[o].channel]
      BY <1>4, <3>1
    <3> QED
      BY <3>1, <3>2
  <2>4. SchemesKnown(e)
    BY <1>3 DEF DocumentInv, Closed, SchemesKnown
  <2> QED
    BY <2>1, <2>2, <2>3, <2>4 DEF Closed
<1>8. AddedAreFound(e)
  BY <1>3, <1>4 DEF DocumentInv, AddedAreFound
<1>9. ServersOnce(e)
  BY <1>3 DEF DocumentInv, ServersOnce
<1>10. ChannelsOnce(e)
  <2> SUFFICES ASSUME NEW c \in DOMAIN e.channels,
                      NEW f \in DOMAIN e.channels \ DOMAIN start.channels,
                      ~e.channels[c].ref,
                      e.channels[c].servers \cap e.channels[f].servers # {}
               PROVE  c = f
    BY DEF ChannelsOnce
  <2>1. CASE c # key /\ f # key
    BY <1>4, <2>1 DEF DocumentInv, ChannelsOnce
  <2>2. CASE c # key /\ f = key
    BY <1>4, <2>2
  <2>3. CASE c = key /\ f # key
    BY <1>4, <2>3 DEF DocumentInv, AddedAreFound
  <2> QED
    BY <2>1, <2>2, <2>3
<1>11. Extended(start, e)
  BY <1>5, ExtendedTransitive DEF DocumentInv
<1> QED
  BY <1>5, <1>6, <1>7, <1>8, <1>9, <1>10, <1>11 DEF DocumentInv


WithMessage(d, c, name, schema) ==
  [d EXCEPT !.schemas = Put(@, SchemaName[name], schema), !.channels[c].messages = @ \cup {name}]

LEMMA MessageAdded ==
  ASSUME NEW d, DocumentInv(d),
         NEW c \in DOMAIN d.channels, d.channels[c].messages # Nil,
         NEW name \in Names, NEW schema, name \in schema.from,
         SchemaName[name] \in DOMAIN d.schemas =>
           /\ d.schemas[SchemaName[name]].shapes \subseteq schema.shapes
           /\ d.schemas[SchemaName[name]].from \subseteq schema.from,
         NEW e, e = WithMessage(d, c, name, schema)
  PROVE  /\ DocumentInv(e) /\ Extended(d, e)
         /\ name \in Named(e.channels[c])
<1> DEFINE key == SchemaName[name]
           schemas == Put(d.schemas, key, schema)
           channel == [d.channels[c] EXCEPT !.messages = @ \cup {name}]
           channels == [d.channels EXCEPT ![c] = channel]
<1>1. e = [servers |-> d.servers, channels |-> channels, operations |-> d.operations,
           schemas |-> schemas, schemes |-> d.schemes]
  BY DEF WithMessage, DocumentInv, IsDocument
<1>2. /\ IsMap(schemas)
      /\ DOMAIN schemas = DOMAIN d.schemas \cup {key}
      /\ schemas[key] = schema
      /\ \A n \in DOMAIN d.schemas : n # key => schemas[n] = d.schemas[n]
  <2>1. IsMap(d.schemas)
    BY DEF DocumentInv, IsDocument
  <2> HIDE DEF key
  <2>2. IsMap(schemas)
    BY <2>1, PutIsMap, Zenon
  <2> QED
    BY <2>2 DEF Put
<1>3. /\ e.servers = d.servers /\ e.channels = channels /\ e.operations = d.operations
      /\ e.schemas = schemas /\ e.schemes = d.schemes
  BY <1>1
<1>4. /\ channel = [servers |-> d.channels[c].servers,
                    messages |-> d.channels[c].messages \cup {name},
                    ref |-> d.channels[c].ref]
      /\ d.channels[c].messages \in SUBSET Names
  <2>1. /\ d.channels[c] = [servers |-> d.channels[c].servers,
                            messages |-> d.channels[c].messages,
                            ref |-> d.channels[c].ref]
        /\ d.channels[c].messages \in SUBSET Names
    BY DEF DocumentInv, IsDocument
  <2> QED
    BY <2>1
<1>5. /\ IsMap(channels)
      /\ DOMAIN channels = DOMAIN d.channels
      /\ channels[c] = channel
      /\ \A f \in DOMAIN d.channels : f # c => channels[f] = d.channels[f]
  <2> HIDE DEF channel
  <2> QED
    BY DEF DocumentInv, IsDocument, IsMap
<1>6. /\ channel.servers = d.channels[c].servers
      /\ channel.messages = d.channels[c].messages \cup {name}
      /\ channel.ref = d.channels[c].ref
  BY <1>4
<1>7. Named(channel) = Named(d.channels[c]) \cup {name}
  <2>1. channel.messages # Nil
    BY <1>4, <1>6, NilAssumption
  <2> HIDE DEF channel
  <2> QED
    BY <1>6, <2>1 DEF Named
<1>8. e.channels[c] = channel
  BY <1>3, <1>5
<1> HIDE DEF channel, channels, schemas, key
<1>9. \A f \in DOMAIN d.channels :
        /\ f \in DOMAIN e.channels
        /\ e.channels[f].servers = d.channels[f].servers
        /\ e.channels[f].ref = d.channels[f].ref
        /\ Named(d.channels[f]) \subseteq Named(e.channels[f])
  <2> TAKE f \in DOMAIN d.channels
  <2>1. CASE f = c
    BY <1>3, <1>5, <1>6, <1>7, <2>1
  <2>2. CASE f # c
    BY <1>3, <1>5, <2>2
  <2> QED
    BY <2>1, <2>2
<1>10. DOMAIN e.channels = DOMAIN d.channels
  BY <1>3, <1>5
<1>11. Extended(d, e)
  <2>1. \A n \in DOMAIN d.schemas :
          n \in DOMAIN e.schemas /\ d.schemas[n].shapes \subseteq e.schemas[n].shapes
    BY <1>2, <1>3 DEF key
  <2> QED
    BY <1>3, <1>9, <2>1 DEF Extended
<1>12. IsDocument(e)
  <2>1. \A f \in DOMAIN e.channels : LET ch == e.channels[f] IN
          /\ ch = [servers |-> ch.servers, messages |-> ch.messages, ref |-> ch.ref]
          /\ ch.messages \in (SUBSET Names) \cup {Nil}
    <3> TAKE f \in DOMAIN e.channels
    <3>1. CASE f = c
      <4>1. channel = [servers |-> channel.servers, messages |-> channel.messages,
                       ref |-> channel.ref]
        BY <1>4, <1>6
      <4>2. channel.messages \in SUBSET Names
        BY <1>4, <1>6
      <4> QED
        BY <1>8, <3>1, <4>1, <4>2
    <3>2. CASE f # c
      BY <1>3, <1>5, <3>2 DEF DocumentInv, IsDocument
    <3> QED
      BY <3>1, <3>2
  <2> QED
    BY <1>1, <1>2, <1>3, <1>5, <2>1 DEF DocumentInv, IsDocument
<1>13. Closed(e)
  <2>1. ServersKnown(e)
    BY <1>3, <1>9, <1>10 DEF DocumentInv, Closed, ServersKnown
  <2>2. SchemasKnown(e)
    <3> SUFFICES ASSUME NEW f \in DOMAIN d.channels, NEW m \in Named(e.channels[f])
                 PROVE  SchemaName[m] \in DOMAIN schemas /\ m \in schemas[SchemaName[m]].from
      BY <1>3, <1>10 DEF SchemasKnown
    <3>1. CASE m = name
      BY <1>2, <3>1 DEF key
    <3>2. CASE m # name
      <4>1. m \in Named(d.channels[f])
        <5>1. CASE f = c
          BY <1>7, <1>8, <3>2, <5>1
        <5>2. CASE f # c
          BY <1>3, <1>5, <5>2
        <5> QED
          BY <5>1, <5>2
      <4>2. SchemaName[m] \in DOMAIN d.schemas /\ m \in d.schemas[SchemaName[m]].from
        BY <4>1 DEF DocumentInv, Closed, SchemasKnown
      <4> QED
        BY <1>2, <4>2 DEF key
    <3> QED
      BY <3>1, <3>2
  <2>3. OperationsKnown(e)
    <3> SUFFICES ASSUME NEW o \in DOMAIN d.operations
                 PROVE  /\ d.operations[o].channel \in DOMAIN e.channels
                        /\ d.operations[o].messages
                             \subseteq Named(e.channels[d.operations[o].channel])
      BY <1>3 DEF OperationsKnown
    <3>1. /\ d.operations[o].channel \in DOMAIN d.channels
          /\ d.operations[o].messages \subseteq Named(d.channels[d.operations[o].channel])
      BY DEF DocumentInv, Closed, OperationsKnown
    <3> QED
      BY <1>9, <3>1
  <2>4. SchemesKnown(e)
    BY <1>3 DEF DocumentInv, Closed, SchemesKnown
  <2> QED
    BY <2>1, <2>2, <2>3, <2>4 DEF Closed
<1>14. ServersOnce(e)
  BY <1>3 DEF DocumentInv, ServersOnce
<1>15. ChannelsOnce(e)
  BY <1>9, <1>10 DEF DocumentInv, ChannelsOnce
<1>16. AddedAreFound(e)
  BY <1>3, <1>9, <1>10 DEF DocumentInv, AddedAreFound
<1>17. Extended(start, e)
  BY <1>11, ExtendedTransitive DEF DocumentInv
<1> QED
  BY <1>7, <1>8, <1>11, <1>12, <1>13, <1>14, <1>15, <1>16, <1>17 DEF DocumentInv


OperationIn(d, direction, names) ==
  [d EXCEPT !.operations = WithOperation(@, direction, names)]

\* The key ensureOperation chooses is a new one or that of an operation of the
\* same channel: it never takes over another channel's operation.
LEMMA OperationAdded ==
  ASSUME NEW d, DocumentInv(d), cur.channel \in DOMAIN d.channels,
         NEW direction,
         NEW names, names \subseteq Named(d.channels[cur.channel]),
         NEW e, e = OperationIn(d, direction, names)
  PROVE  /\ DocumentInv(e) /\ Extended(d, e)
         /\ e.channels = d.channels
<1> DEFINE ops == d.operations
           key == OperationKey(ops, direction)
           had == IF key \in DOMAIN ops THEN ops[key]
                  ELSE [action |-> direction, channel |-> cur.channel, messages |-> {}]
           op == [had EXCEPT !.messages = @ \cup names]
           new == WithOperation(ops, direction, names)
<1>1. e = [servers |-> d.servers, channels |-> d.channels, operations |-> new,
           schemas |-> d.schemas, schemes |-> d.schemes]
  <2> HIDE DEF new
  <2>1. e = [d EXCEPT !.operations = new]
    BY DEF new, OperationIn
  <2> QED
    BY <2>1 DEF DocumentInv, IsDocument
<1>2. /\ e.servers = d.servers /\ e.channels = d.channels /\ e.operations = new
      /\ e.schemas = d.schemas /\ e.schemes = d.schemes
  <2> HIDE DEF new
  <2> QED
    BY <1>1
<1>3. key \in DOMAIN ops => ops[key].channel = cur.channel
  <2>1. UniqueKey(ops, <<direction, cur.server>>) \notin DOMAIN ops
    BY FreeKey DEF DocumentInv, IsDocument
  <2> QED
    BY <2>1 DEF OperationKey
<1>4. /\ had = [action |-> had.action, channel |-> cur.channel, messages |-> had.messages]
      /\ had.channel = cur.channel
      /\ had.messages \subseteq Named(d.channels[cur.channel])
  <2> HIDE DEF key
  <2>1. CASE key \in DOMAIN ops
    <3>1. had = ops[key]
      BY <2>1
    <3>2. ops[key] = [action |-> ops[key].action, channel |-> ops[key].channel,
                      messages |-> ops[key].messages]
      BY <2>1 DEF DocumentInv, IsDocument
    <3>3. ops[key].messages \subseteq Named(d.channels[ops[key].channel])
      BY <2>1 DEF DocumentInv, Closed, OperationsKnown
    <3> HIDE DEF had
    <3> QED
      BY <1>3, <2>1, <3>1, <3>2, <3>3
  <2>2. CASE key \notin DOMAIN ops
    BY <2>2
  <2> QED
    BY <2>1, <2>2
<1>5. key \in DOMAIN ops => had = ops[key]
  BY DEF had
<1> HIDE DEF key, had
<1>6. /\ op = [action |-> had.action, channel |-> cur.channel,
               messages |-> had.messages \cup names]
      /\ op.action = had.action
      /\ op.channel = cur.channel
      /\ op.messages = had.messages \cup names
  BY <1>4
<1> HIDE DEF op
<1>7. /\ IsMap(new)
      /\ \A o \in DOMAIN ops : o \in DOMAIN new /\ (o # key => new[o] = ops[o])
      /\ \A o \in DOMAIN new : o \notin DOMAIN ops => o = key
      /\ key \in DOMAIN new =>
           \/ new[key] = op
           \/ key \in DOMAIN ops /\ new[key] = ops[key]
  <2>1. IsMap(ops)
    BY DEF DocumentInv, IsDocument
  <2>2. CASE names = {}
    <3>1. new = ops
      BY <2>2 DEF WithOperation
    <3> QED
      BY <2>1, <2>2, <3>1
  <2>3. CASE names # {}
    <3>1. new = Put(ops, key, op)
      BY <2>3 DEF WithOperation, key, had, op
    <3>2. IsMap(Put(ops, key, op))
      BY <2>1, PutIsMap, Zenon
    <3>3. /\ DOMAIN Put(ops, key, op) = DOMAIN ops \cup {key}
          /\ \A o \in DOMAIN ops \cup {key} :
               Put(ops, key, op)[o] = IF o = key THEN op ELSE ops[o]
      BY DEF Put
    <3> HIDE DEF new
    <3> QED
      BY <3>1, <3>2, <3>3
  <2> QED
    BY <2>2, <2>3
<1> HIDE DEF new
<1>8. \A o \in DOMAIN new :
        /\ new[o] = [action |-> new[o].action, channel |-> new[o].channel,
                     messages |-> new[o].messages]
        /\ new[o].channel \in DOMAIN d.channels
        /\ new[o].messages \subseteq Named(d.channels[new[o].channel])
  <2> TAKE o \in DOMAIN new
  <2>1. CASE o \in DOMAIN ops /\ new[o] = ops[o]
    BY <2>1 DEF DocumentInv, IsDocument, Closed, OperationsKnown
  <2>2. CASE o = key /\ new[o] = op
    BY <1>4, <1>6, <2>2
  <2> QED
    BY <1>7, <2>1, <2>2
<1>9. Extended(d, e)
  <2>1. \A o \in DOMAIN ops :
          /\ o \in DOMAIN new
          /\ new[o].action = ops[o].action
          /\ new[o].channel = ops[o].channel
          /\ ops[o].messages \subseteq new[o].messages
    <3> TAKE o \in DOMAIN ops
    <3>1. CASE new[o] = ops[o]
      BY <1>7, <3>1
    <3>2. CASE o = key /\ new[o] = op
      BY <1>3, <1>5, <1>6, <1>7, <3>2
    <3> QED
      BY <1>7, <3>1, <3>2
  <2> QED
    BY <1>2, <2>1 DEF Extended
<1>10. IsDocument(e)
  BY <1>1, <1>2, <1>7, <1>8 DEF DocumentInv, IsDocument
<1>11. Closed(e)
  BY <1>2, <1>8 DEF DocumentInv, Closed, ServersKnown, SchemasKnown, OperationsKnown,
                    SchemesKnown
<1>12. ServersOnce(e) /\ ChannelsOnce(e) /\ AddedAreFound(e)
  BY <1>2 DEF DocumentInv, ServersOnce, ChannelsOnce, AddedAreFound
<1>13. Extended(start, e)
  BY <1>9, ExtendedTransitive DEF DocumentInv
<1> QED
  BY <1>2, <1>9, <1>10, <1>11, <1>12, <1>13 DEF DocumentInv

LEMMA DocumentReloaded ==
  ASSUME NEW d, DocumentInv(d)
  PROVE  DocumentInv(Reloaded(d)) /\ Extended(d, Reloaded(d))
<1> DEFINE e == Reloaded(d)
           channels == [c \in DOMAIN d.channels |->
              ReloadedChannel(d.channels[c])]
<1>1. e = [servers |-> d.servers, channels |-> channels, operations |-> d.operations,
           schemas |-> d.schemas, schemes |-> d.schemes]
  <2>1. e = [d EXCEPT !.channels = channels]
    BY DEF Reloaded
  <2> HIDE DEF e, channels
  <2> QED
    BY <2>1 DEF DocumentInv, IsDocument
<1>2. /\ e.servers = d.servers /\ e.channels = channels /\ e.operations = d.operations
      /\ e.schemas = d.schemas /\ e.schemes = d.schemes
  <2> HIDE DEF e, channels
  <2> QED
    BY <1>1
<1>3. DOMAIN channels = DOMAIN d.channels /\ IsMap(channels)
  BY DEF DocumentInv, IsDocument, IsMap
<1>4. \A c \in DOMAIN d.channels :
        /\ channels[c] = [servers |-> channels[c].servers, messages |-> channels[c].messages,
                          ref |-> channels[c].ref]
        /\ channels[c].servers = d.channels[c].servers
        /\ channels[c].ref = d.channels[c].ref
        /\ channels[c].messages = IF d.channels[c].messages = {} THEN Nil
                                  ELSE d.channels[c].messages
        /\ channels[c].messages \in (SUBSET Names) \cup {Nil}
  <2> TAKE c \in DOMAIN d.channels
  <2> DEFINE messages == IF d.channels[c].messages = {} THEN Nil ELSE d.channels[c].messages
  <2>1. channels[c] = [d.channels[c] EXCEPT !.messages = messages]
    BY DEF ReloadedChannel
  <2>2. /\ d.channels[c] = [servers |-> d.channels[c].servers,
                            messages |-> d.channels[c].messages,
                            ref |-> d.channels[c].ref]
        /\ messages \in (SUBSET Names) \cup {Nil}
    BY DEF DocumentInv, IsDocument
  <2>3. channels[c] = [servers |-> d.channels[c].servers, messages |-> messages,
                       ref |-> d.channels[c].ref]
    <3> HIDE DEF channels, messages
    <3> QED
      BY <2>1, <2>2
  <2> HIDE DEF channels
  <2> QED
    BY <2>2, <2>3
<1> HIDE DEF e, channels
<1>5. \A c \in DOMAIN d.channels :
        /\ e.channels[c].servers = d.channels[c].servers
        /\ e.channels[c].ref = d.channels[c].ref
        /\ Named(e.channels[c]) = Named(d.channels[c])
  BY <1>2, <1>4 DEF Named
<1>6. DOMAIN e.channels = DOMAIN d.channels
  BY <1>2, <1>3
<1>7. Extended(d, e)
  BY <1>2, <1>5, <1>6 DEF Extended
<1>8. IsDocument(e)
  BY <1>1, <1>2, <1>3, <1>4 DEF DocumentInv, IsDocument
<1>9. Closed(e)
  <2>1. ServersKnown(e) /\ SchemesKnown(e)
    BY <1>2, <1>5, <1>6 DEF DocumentInv, Closed, ServersKnown, SchemesKnown
  <2>2. SchemasKnown(e)
    BY <1>2, <1>5, <1>6 DEF DocumentInv, Closed, SchemasKnown
  <2>3. OperationsKnown(e)
    <3> SUFFICES ASSUME NEW o \in DOMAIN d.operations
                 PROVE  /\ d.operations[o].channel \in DOMAIN e.channels
                        /\ d.operations[o].messages
                             \subseteq Named(e.channels[d.operations[o].channel])
      BY <1>2 DEF OperationsKnown
    <3>1. /\ d.operations[o].channel \in DOMAIN d.channels
          /\ d.operations[o].messages \subseteq Named(d.channels[d.operations[o].channel])
      BY DEF DocumentInv, Closed, OperationsKnown
    <3> QED
      BY <1>5, <1>6, <3>1
  <2> QED
    BY <2>1, <2>2, <2>3 DEF Closed
<1>10. ServersOnce(e)
  BY <1>2 DEF DocumentInv, ServersOnce
<1>11. ChannelsOnce(e)
  BY <1>5, <1>6 DEF DocumentInv, ChannelsOnce
<1>12. AddedAreFound(e)
  BY <1>2, <1>5, <1>6 DEF DocumentInv, AddedAreFound
<1>13. Extended(start, e)
  BY <1>7, ExtendedTransitive DEF DocumentInv
<1>14. DocumentInv(e) /\ Extended(d, e)
  BY <1>7, <1>8, <1>9, <1>10, <1>11, <1>12, <1>13 DEF DocumentInv
<1> QED
  BY <1>14 DEF e


-----------------------------------------------------------------------------
(***************************************************************************)
(* The invariant. Enrich refers to what it found or added by key: its      *)
(* server and channel are in the document, and the messages it will put in *)
(* the operations are in that channel already.                             *)
(***************************************************************************)
CurInv ==
  /\ pc \in {"idle", "server", "channel", "frames"}
  /\ cur.frame \in Nat \ {0}
  /\ cur = [server |-> cur.server, channel |-> cur.channel, frame |-> cur.frame,
            sent |-> cur.sent, received |-> cur.received]
  /\ pc \in {"channel", "frames"} => todo # <<>> /\ cur.server \in DOMAIN doc.servers
  /\ pc = "channel" => cur.sent = {} /\ cur.received = {}
  /\ pc = "frames" =>
       /\ cur.channel \in DOMAIN doc.channels
       /\ cur.sent \cup cur.received \subseteq Named(doc.channels[cur.channel])

IInv ==
  /\ DocumentInv(doc) /\ DocumentInv(saved)
  /\ Extended(saved, doc)
  /\ todo \in Seq(Recordings)
  /\ CurInv

\* A recorded session has items with a direction and a payload.
LEMMA ItemsTyped ==
  ASSUME todo \in Seq(Recordings), todo # <<>>
  PROVE  Items(Session) \in Seq([direction : Direction, payload : Payload])
<1> DEFINE I == [direction : Direction, payload : Payload]
<1>1. IsSession(Session)
  BY InputsAssumption DEF Session
<1>2. Session.frames \in Seq(I)
  BY <1>1 DEF IsSession
<1>3. Items(Session) \in Seq(I)
  <2>1. CASE Session.unsubscribe = Nil
    BY <1>2, <2>1 DEF Items
  <2>2. CASE Session.unsubscribe # Nil
    <3>1. [direction |-> "send", payload |-> Session.unsubscribe] \in I
      BY <1>1, <2>2 DEF IsSession, Direction
    <3>2. <<[direction |-> "send", payload |-> Session.unsubscribe]>> \in Seq(I)
      BY <3>1
    <3> HIDE DEF I
    <3> QED
      BY <1>2, <2>2, <3>2 DEF Items
  <2> QED
    BY <2>1, <2>2
<1> QED
  BY <1>3

\* The messages of a recorded session have names.
LEMMA ItemName ==
  ASSUME todo \in Seq(Recordings), todo # <<>>, cur.frame \in Nat \ {0},
         cur.frame <= Len(Items(Session))
  PROVE  MessageName(Item) \in Names
<1> DEFINE I == [direction : Direction, payload : Payload]
<1>1. Items(Session) \in Seq(I)
  BY ItemsTyped
<1>2. Item \in I
  <2> HIDE DEF I
  <2> QED
    BY <1>1 DEF Item
<1> QED
  BY <1>2, NamesAssumption DEF MessageName, Payload, Direction

LEMMA InitIInv == Init => IInv
<1> SUFFICES ASSUME Init PROVE IInv
  OBVIOUS
<1>1. IsDocument(saved) /\ Closed(saved)
  BY StartsAssumption DEF Init
<1>2. DocumentInv(saved)
  BY <1>1, ExtendedReflexive DEF Init, DocumentInv, ServersOnce, ChannelsOnce, AddedAreFound
<1>3. Extended(saved, doc)
  BY ExtendedReflexive DEF Init
<1>4. CurInv
  BY DEF Init, CurInv, Idle
<1> QED
  BY <1>2, <1>3, <1>4 DEF Init, IInv

\* What a step that writes nothing to disk has to show of the document.
LEMMA DocumentStep ==
  ASSUME IInv, UNCHANGED <<saved, start>>, DocumentInv(doc'), Extended(doc, doc')
  PROVE  DocumentInv(doc)' /\ DocumentInv(saved)' /\ Extended(saved, doc)'
<1>1. Extended(saved, doc')
  BY ExtendedTransitive DEF IInv
<1>2. DocumentInv(doc)'
  BY DEF DocumentInv, ServersOnce, ChannelsOnce, AddedAreFound
<1>3. DocumentInv(saved)'
  BY DEF IInv, DocumentInv, ServersOnce, ChannelsOnce, AddedAreFound
<1> QED
  BY <1>1, <1>2, <1>3

\* A run that ends, written or not, goes on from what is on disk.
LEMMA EndsStep ==
  ASSUME IInv, NEW how, Ends(how), DocumentInv(saved')
  PROVE  IInv'
<1>1. DocumentInv(saved)' /\ DocumentInv(doc)'
  BY DEF Ends, DocumentInv, ServersOnce, ChannelsOnce, AddedAreFound
<1>2. Extended(saved, doc)'
  BY ExtendedReflexive DEF Ends
<1>3. CurInv'
  BY DEF Ends, CurInv, Idle
<1>4. (todo \in Seq(Recordings))'
  BY DEF Ends
<1> QED
  BY <1>1, <1>2, <1>3, <1>4 DEF IInv

LEMMA BeginStep ==
  ASSUME IInv, NEW ss \in Inputs, Begin(ss)
  PROVE  IInv'
<1>1. DocumentInv(saved)' /\ DocumentInv(doc)'
  BY DEF IInv, Begin, DocumentInv, ServersOnce, ChannelsOnce, AddedAreFound
<1>2. Extended(saved, doc)'
  BY ExtendedReflexive DEF Begin
<1>3. CurInv'
  BY DEF Begin, CurInv, Idle
<1>4. (todo \in Seq(Recordings))'
  BY InputsAssumption DEF Begin
<1> QED
  BY <1>1, <1>2, <1>3, <1>4 DEF IInv

LEMMA FoundServerStep ==
  ASSUME IInv, FoundServer
  PROVE  IInv'
<1>1. DocumentInv(doc') /\ Extended(doc, doc')
  BY ExtendedReflexive DEF IInv, FoundServer
<1>2. DocumentInv(doc)' /\ DocumentInv(saved)' /\ Extended(saved, doc)'
  BY <1>1, DocumentStep DEF FoundServer
<1>3. PICK k \in DOMAIN doc.servers : cur' = [Idle EXCEPT !.server = k]
  BY DEF FoundServer, MatchingServers
<1>4. CurInv'
  <2>1. cur' = [server |-> k, channel |-> Nil, frame |-> 1, sent |-> {}, received |-> {}]
    BY <1>3 DEF Idle
  <2>2. pc' = "channel" /\ todo' # <<>> /\ doc' = doc
    BY DEF FoundServer
  <2> QED
    BY <2>1, <2>2 DEF CurInv
<1> QED
  BY <1>2, <1>4 DEF IInv, FoundServer

LEMMA NewServerStep ==
  ASSUME IInv, NewServer
  PROVE  /\ IInv' /\ Extended(doc, doc') /\ doc'.operations = doc.operations
         /\ doc'.servers[cur'.server].host = Session.host
<1> DEFINE key == UniqueKey(doc.servers, HostKey[Session.host])
           server(name) == [host |-> Session.host, ref |-> FALSE, security |-> name]
<1>1. PICK name :
        doc' = [doc EXCEPT !.servers = Put(@, key, server(name)),
                           !.schemes = @ \cup ({name} \ {Nil})]
  BY DEF NewServer
<1>2. key \notin DOMAIN doc.servers
  BY FreeKey DEF IInv, DocumentInv, IsDocument
<1>3. \A k \in DOMAIN doc.servers : ~doc.servers[k].ref => doc.servers[k].host # Session.host
  BY DEF NewServer, MatchingServers
<1>4. DocumentInv(doc') /\ Extended(doc, doc')
  <2>1. DocumentInv(doc)
    BY DEF IInv
  <2> HIDE DEF key
  <2> QED
    BY <1>1, <1>2, <1>3, <2>1, ServerAdded
<1>5. DocumentInv(doc)' /\ DocumentInv(saved)' /\ Extended(saved, doc)'
  BY <1>4, DocumentStep DEF NewServer
<1>6. /\ key \in DOMAIN doc'.servers /\ doc'.servers[key].host = Session.host
      /\ doc'.operations = doc.operations
  <2>1. doc'.servers = Put(doc.servers, key, server(name)) /\ doc'.operations = doc.operations
    <3> HIDE DEF key, server
    <3> QED
      BY <1>1 DEF IInv, DocumentInv, IsDocument
  <2>2. server(name).host = Session.host
    OBVIOUS
  <2> HIDE DEF key, server
  <2> QED
    BY <2>1, <2>2 DEF Put
<1>7. CurInv'
  <2>1. cur' = [server |-> key, channel |-> Nil, frame |-> 1, sent |-> {}, received |-> {}]
    BY DEF NewServer, Idle
  <2>2. pc' = "channel" /\ todo' # <<>>
    BY DEF NewServer
  <2> HIDE DEF key
  <2> QED
    BY <1>6, <2>1, <2>2 DEF CurInv
<1>8. cur'.server = key
  BY DEF NewServer, Idle
<1> HIDE DEF key
<1> QED
  BY <1>4, <1>5, <1>6, <1>7, <1>8 DEF IInv, NewServer

LEMMA FoundChannelStep ==
  ASSUME IInv, FoundChannel
  PROVE  IInv'
<1>1. DocumentInv(doc') /\ Extended(doc, doc')
  BY ExtendedReflexive DEF IInv, FoundChannel
<1>2. DocumentInv(doc)' /\ DocumentInv(saved)' /\ Extended(saved, doc)'
  BY <1>1, DocumentStep DEF FoundChannel
<1>3. PICK c \in DOMAIN doc.channels : cur' = [cur EXCEPT !.channel = c]
  BY DEF FoundChannel, ChannelsOf
<1>4. CurInv'
  BY <1>3 DEF IInv, FoundChannel, CurInv
<1> QED
  BY <1>2, <1>4 DEF IInv, FoundChannel

LEMMA NewChannelStep ==
  ASSUME IInv, NewChannel
  PROVE  /\ IInv' /\ Extended(doc, doc') /\ doc'.operations = doc.operations
         /\ cur.server \in doc'.channels[cur'.channel].servers
<1> DEFINE key == UniqueKey(doc.channels, cur.server)
           channel == [servers |-> {cur.server}, messages |-> {}, ref |-> FALSE]
<1>1. doc' = [doc EXCEPT !.channels = Put(@, key, channel)]
  BY DEF NewChannel
<1>2. key \notin DOMAIN doc.channels
  BY FreeKey DEF IInv, DocumentInv, IsDocument
<1>3. \A c \in DOMAIN doc.channels :
        ~doc.channels[c].ref => cur.server \notin doc.channels[c].servers
  BY DEF NewChannel, ChannelsOf
<1>4. DocumentInv(doc') /\ Extended(doc, doc')
  <2>1. DocumentInv(doc) /\ cur.server \in DOMAIN doc.servers
    BY DEF IInv, CurInv, NewChannel
  <2> HIDE DEF key
  <2> QED
    BY <1>1, <1>2, <1>3, <2>1, ChannelAdded
<1>5. DocumentInv(doc)' /\ DocumentInv(saved)' /\ Extended(saved, doc)'
  BY <1>4, DocumentStep DEF NewChannel
<1>6. /\ key \in DOMAIN doc'.channels /\ doc'.servers = doc.servers
      /\ cur.server \in doc'.channels[key].servers /\ doc'.operations = doc.operations
  <2>1. /\ doc'.channels = Put(doc.channels, key, channel) /\ doc'.servers = doc.servers
        /\ doc'.operations = doc.operations
    <3> HIDE DEF key, channel
    <3> QED
      BY <1>1 DEF IInv, DocumentInv, IsDocument
  <2>2. cur.server \in channel.servers
    OBVIOUS
  <2> HIDE DEF key, channel
  <2> QED
    BY <2>1, <2>2 DEF Put
<1>7. CurInv'
  <2>1. cur' = [cur EXCEPT !.channel = key]
    BY DEF NewChannel
  <2> HIDE DEF key
  <2> QED
    BY <1>6, <2>1 DEF IInv, NewChannel, CurInv
<1>8. cur'.channel = key
  <2> HIDE DEF key
  <2>1. cur' = [cur EXCEPT !.channel = key]
    BY DEF NewChannel, key
  <2> QED
    BY <2>1 DEF IInv, CurInv
<1> HIDE DEF key
<1> QED
  BY <1>4, <1>5, <1>6, <1>7, <1>8 DEF IInv, NewChannel

LEMMA EnsureMessageStep ==
  ASSUME IInv, EnsureMessage
  PROVE  /\ IInv' /\ Extended(doc, doc') /\ doc'.operations = doc.operations
         /\ MessageName(Item) \in Names
         /\ LET key == SchemaName[MessageName(Item)] IN
              key \in DOMAIN doc'.schemas /\ Item.payload.shape \in doc'.schemas[key].shapes
<1> DEFINE name == MessageName(Item)
           key == SchemaName[name]
           c == cur.channel
<1>1. /\ DocumentInv(doc)
      /\ todo # <<>> /\ todo \in Seq(Recordings)
      /\ cur.server \in DOMAIN doc.servers
      /\ c \in DOMAIN doc.channels
      /\ cur.frame \in Nat \ {0}
      /\ cur.sent \cup cur.received \subseteq Named(doc.channels[c])
  BY DEF IInv, CurInv, EnsureMessage
<1>2. name \in Names
  BY <1>1, ItemName DEF EnsureMessage
<1>3. /\ name \in MergedSchema.from
      /\ key \in DOMAIN doc.schemas =>
           /\ doc.schemas[key].shapes \subseteq MergedSchema.shapes
           /\ doc.schemas[key].from \subseteq MergedSchema.from
  <2> HIDE DEF name
  <2> QED
    BY DEF MergedSchema, name
<1>4. doc.channels[c].messages # Nil
  BY DEF EnsureMessage, Messages
<1>5. doc' = WithMessage(doc, c, name, MergedSchema)
  BY DEF EnsureMessage, WithMessage
<1>6. /\ cur' = [cur EXCEPT !.frame = @ + 1,
            !.sent = IF Item.direction = "send" THEN @ \cup {name} ELSE @,
            !.received = IF Item.direction = "receive" THEN @ \cup {name} ELSE @]
      /\ pc = "frames" /\ UNCHANGED <<saved, start, pc, todo>>
  BY DEF EnsureMessage
<1>0. Item.payload.shape \in MergedSchema.shapes
  BY DEF MergedSchema
<1> HIDE DEF name, key, c
<1>7. /\ DocumentInv(doc') /\ Extended(doc, doc')
      /\ name \in Named(doc'.channels[c])
  <2>1. SchemaName[name] \in DOMAIN doc.schemas =>
          /\ doc.schemas[SchemaName[name]].shapes \subseteq MergedSchema.shapes
          /\ doc.schemas[SchemaName[name]].from \subseteq MergedSchema.from
    BY <1>3 DEF key
  <2>2. DocumentInv(doc')
    BY <1>1, <1>2, <1>3, <1>4, <1>5, <2>1, MessageAdded
  <2>3. Extended(doc, doc')
    BY <1>1, <1>2, <1>3, <1>4, <1>5, <2>1, MessageAdded
  <2>4. name \in Named(doc'.channels[c])
    BY <1>1, <1>2, <1>3, <1>4, <1>5, <2>1, MessageAdded
  <2> QED
    BY <2>2, <2>3, <2>4
<1>8. DocumentInv(doc)' /\ DocumentInv(saved)' /\ Extended(saved, doc)'
  BY <1>6, <1>7, DocumentStep
<1>9. cur.server \in DOMAIN doc'.servers /\ c \in DOMAIN doc'.channels
  BY <1>1, <1>7 DEF Extended
<1>10. CurInv'
  <2>1. cur' = [server |-> cur.server, channel |-> cur.channel, frame |-> cur.frame + 1,
                sent |-> IF Item.direction = "send" THEN cur.sent \cup {name} ELSE cur.sent,
                received |-> IF Item.direction = "receive" THEN cur.received \cup {name}
                             ELSE cur.received]
    BY <1>6 DEF IInv, CurInv
  <2>2. cur'.sent \cup cur'.received \subseteq Named(doc'.channels[c])
    BY <1>1, <1>7, <2>1 DEF Extended
  <2>3. cur'.frame \in Nat \ {0}
    BY <1>1, <2>1
  <2>4. cur'.server = cur.server /\ cur'.channel = c
    BY <2>1 DEF c
  <2>5. cur' = [server |-> cur'.server, channel |-> cur'.channel, frame |-> cur'.frame,
                sent |-> cur'.sent, received |-> cur'.received]
    BY <2>1
  <2>6. pc' = "frames" /\ todo' # <<>>
    BY <1>1, <1>6
  <2> QED
    BY <1>9, <2>2, <2>3, <2>4, <2>5, <2>6 DEF CurInv
<1>11. /\ doc'.operations = doc.operations
       /\ key \in DOMAIN doc'.schemas /\ doc'.schemas[key] = MergedSchema
  <2>1. doc'.operations = doc.operations /\ doc'.schemas = Put(doc.schemas, key, MergedSchema)
    BY <1>1, <1>5 DEF WithMessage, DocumentInv, IsDocument, key
  <2> QED
    BY <2>1 DEF Put
<1>12. IInv'
  BY <1>1, <1>6, <1>8, <1>10 DEF IInv
<1> QED
  BY <1>0, <1>2, <1>7, <1>11, <1>12 DEF key, name

\* The two operations are ensured one after the other.
LEMMA BothOperations ==
  ASSUME DocumentInv(doc), EnsureOperations
  PROVE  doc' = OperationIn(OperationIn(doc, "send", cur.sent), "receive", cur.received)
<1> DEFINE d1 == OperationIn(doc, "send", cur.sent)
           sent == WithOperation(doc.operations, "send", cur.sent)
           both == WithOperation(sent, "receive", cur.received)
<1>1. doc' = [doc EXCEPT !.operations = both]
  BY DEF EnsureOperations
<1>2. d1 = [doc EXCEPT !.operations = sent]
  BY DEF OperationIn
<1> HIDE DEF both, sent, d1
<1>3. /\ d1 = [servers |-> doc.servers, channels |-> doc.channels, operations |-> sent,
               schemas |-> doc.schemas, schemes |-> doc.schemes]
      /\ doc' = [servers |-> doc.servers, channels |-> doc.channels, operations |-> both,
                 schemas |-> doc.schemas, schemes |-> doc.schemes]
  BY <1>1, <1>2 DEF DocumentInv, IsDocument
<1>4. d1.operations = sent
  BY <1>3
<1>5. WithOperation(d1.operations, "receive", cur.received) = both
  BY <1>4 DEF both
<1>6. doc' = OperationIn(d1, "receive", cur.received)
  BY <1>3, <1>5 DEF OperationIn
<1> QED
  BY <1>6 DEF d1

LEMMA EnsureOperationsStep ==
  ASSUME IInv, EnsureOperations
  PROVE  IInv'
<1> DEFINE d1 == OperationIn(doc, "send", cur.sent)
<1>1. /\ DocumentInv(doc)
      /\ cur.channel \in DOMAIN doc.channels
      /\ cur.sent \subseteq Named(doc.channels[cur.channel])
      /\ cur.received \subseteq Named(doc.channels[cur.channel])
      /\ todo # <<>> /\ todo \in Seq(Recordings)
  BY DEF IInv, CurInv, EnsureOperations
<1>2. DocumentInv(d1) /\ Extended(doc, d1) /\ d1.channels = doc.channels
  BY <1>1, OperationAdded
<1>3. doc' = OperationIn(d1, "receive", cur.received)
  BY <1>1, BothOperations
<1>4. DocumentInv(doc') /\ Extended(d1, doc')
  <2> HIDE DEF d1
  <2> QED
    BY <1>1, <1>2, <1>3, OperationAdded
<1>5. Extended(doc, doc')
  <2> HIDE DEF d1
  <2> QED
    BY <1>2, <1>4, ExtendedTransitive
<1>6. DocumentInv(doc)' /\ DocumentInv(saved)' /\ Extended(saved, doc)'
  BY <1>4, <1>5, DocumentStep DEF EnsureOperations
<1>7. CurInv'
  BY DEF EnsureOperations, CurInv, Idle
<1>8. (todo \in Seq(Recordings))'
  BY <1>1 DEF EnsureOperations
<1> QED
  BY <1>6, <1>7, <1>8 DEF IInv

LEMMA ResolveStep ==
  ASSUME IInv, Resolve
  PROVE  IInv' /\ Extended(saved, saved')
<1>1. DocumentInv(Reloaded(doc)) /\ Extended(doc, Reloaded(doc))
  BY DocumentReloaded DEF IInv
<1>2. saved' = Reloaded(doc) /\ Ends("saved")
  BY DEF Resolve
<1>3. IInv'
  BY <1>1, <1>2, EndsStep
<1>4. Extended(saved, Reloaded(doc))
  BY <1>1, ExtendedTransitive DEF IInv
<1> QED
  BY <1>2, <1>3, <1>4

\* Every step keeps the invariant, and whatever it writes extends what was there.
LEMMA NextIInv ==
  ASSUME IInv, [Next]_vars
  PROVE  IInv' /\ Extended(saved, saved')
<1>1. ASSUME UNCHANGED <<saved, start>>, NEW how, Ends(how)
      PROVE  IInv' /\ Extended(saved, saved')
  <2>1. DocumentInv(saved')
    BY <1>1 DEF IInv
  <2>2. IInv'
    BY <1>1, <2>1, EndsStep
  <2> QED
    BY <1>1, <2>2, ExtendedReflexive
<1>2. ASSUME UNCHANGED saved, IInv'
      PROVE  IInv' /\ Extended(saved, saved')
  BY <1>2, ExtendedReflexive
<1>3. CASE \E ss \in Inputs : Begin(ss)
  BY <1>2, <1>3, BeginStep DEF Begin
<1>4. CASE FoundServer
  BY <1>2, <1>4, FoundServerStep DEF FoundServer
<1>5. CASE NewServer
  BY <1>2, <1>5, NewServerStep DEF NewServer
<1>6. CASE FoundChannel
  BY <1>2, <1>6, FoundChannelStep DEF FoundChannel
<1>7. CASE NewChannel
  BY <1>2, <1>7, NewChannelStep DEF NewChannel
<1>8. CASE EnsureMessage
  BY <1>2, <1>8, EnsureMessageStep DEF EnsureMessage
<1>9. CASE MessageRefused
  BY <1>1, <1>9 DEF MessageRefused, Ends
<1>10. CASE MessagePanics
  BY <1>1, <1>10 DEF MessagePanics, Ends
<1>11. CASE EnsureOperations
  BY <1>2, <1>11, EnsureOperationsStep DEF EnsureOperations
<1>12. CASE Resolve
  BY <1>12, ResolveStep
<1>13. CASE ResolveFails
  BY <1>1, <1>13 DEF ResolveFails, Ends
<1>14. CASE SessionRefused
  BY <1>1, <1>14 DEF SessionRefused, Ends
<1>15. CASE UNCHANGED vars
  <2>1. IInv'
    BY <1>15 DEF vars, IInv, CurInv, DocumentInv, ServersOnce, ChannelsOnce, AddedAreFound
  <2> QED
    BY <1>2, <1>15, <2>1 DEF vars
<1>16. CASE NoMoreRuns
  BY <1>15, <1>16 DEF NoMoreRuns
<1> QED
  BY <1>3, <1>4, <1>5, <1>6, <1>7, <1>8, <1>9, <1>10, <1>11, <1>12, <1>13, <1>14, <1>15, <1>16
     DEF Next

-----------------------------------------------------------------------------
\* The invariant holds in every state.
THEOREM EnrichInvariant == Spec => []IInv
<1>1. Init => IInv
  BY InitIInv
<1>2. IInv /\ [Next]_vars => IInv'
  BY NextIInv
<1> QED
  BY <1>1, <1>2, PTL DEF Spec

\* Enrich leaves no reference in the document, in memory or on disk, for the
\* reload to stumble over (enrich.go:68-87): whatever documents it starts from,
\* as long as they are closed themselves, and whatever sessions it is given.
THEOREM EnrichLeavesNothingDangling == Spec => []NothingDangles
<1>1. IInv => NothingDangles
  BY DEF IInv, DocumentInv, NothingDangles
<1> QED
  BY <1>1, EnrichInvariant, PTL

\* However many sessions and runs name a host or a server, and under whatever
\* keys they are stored, neither gets a second server or channel (doc.go:30-31,
\* 43-45).
THEOREM EnrichAddsNoDuplicate == Spec => []OneServerPerHost
<1>1. IInv => OneServerPerHost
  BY DEF IInv, DocumentInv, OneServerPerHost
<1> QED
  BY <1>1, EnrichInvariant, PTL

\* A run takes nothing back from the document on disk (enrich.go:24-26).
THEOREM EnrichOnlyExtends == Spec => OnlyExtends
<1>1. IInv /\ [Next]_vars => [Extended(saved, saved')]_vars
  BY NextIInv
<1> QED
  BY <1>1, EnrichInvariant, PTL DEF Spec, OnlyExtends

-----------------------------------------------------------------------------
(***************************************************************************)
(* What the document says of the recordings. ensureOperation takes the     *)
(* operation under the plain key for the direction's own, whatever its     *)
(* action is: so that has to be true of the document Enrich starts from.   *)
(***************************************************************************)
PlainKey(direction) == <<<<direction, Nil>>, 1>>
PlainMeans(d) ==
  \A direction \in Direction : PlainKey(direction) \in DOMAIN d.operations =>
    d.operations[PlainKey(direction)].action = direction

\* The two halves of DescribesRecordings, for a document and what was shown.
HostsOn(d, c) == {d.servers[k].host : k \in d.channels[c].servers}
Covered(d, f) ==
  /\ \E o \in DOMAIN d.operations :
       /\ d.operations[o].action = f.direction
       /\ f.host \in HostsOn(d, d.operations[o].channel)
       /\ f.name \in d.operations[o].messages
  /\ SchemaName[f.name] \in DOMAIN d.schemas
  /\ f.shape \in d.schemas[SchemaName[f.name]].shapes
Justified(d, op, m, facts) ==
  \E f \in facts :
    f.name = m /\ f.direction = op.action /\ f.host \in HostsOn(d, op.channel)
Grounded(d, facts) ==
  \A o \in DOMAIN d.operations : \A m \in d.operations[o].messages :
    \/ o \in DOMAIN start.operations /\ m \in start.operations[o].messages
    \/ Justified(d, d.operations[o], m, facts)
Describes(d, facts) ==
  (\A f \in facts : Covered(d, f)) /\ Grounded(d, facts) /\ PlainMeans(d)

LEMMA HostsExtend ==
  ASSUME NEW d, NEW e, Closed(d), Extended(d, e), NEW c \in DOMAIN d.channels
  PROVE  HostsOn(d, c) \subseteq HostsOn(e, c)
<1>1. d.channels[c].servers \subseteq DOMAIN d.servers
  BY DEF Closed, ServersKnown
<1>2. e.channels[c].servers = d.channels[c].servers
  BY DEF Extended
<1>3. \A k \in d.channels[c].servers : e.servers[k] = d.servers[k]
  BY <1>1 DEF Extended
<1> QED
  BY <1>2, <1>3 DEF HostsOn

LEMMA CoveredExtends ==
  ASSUME NEW d, NEW e, Closed(d), Extended(d, e), NEW f, Covered(d, f)
  PROVE  Covered(e, f)
<1>1. PICK o \in DOMAIN d.operations :
        /\ d.operations[o].action = f.direction
        /\ f.host \in HostsOn(d, d.operations[o].channel)
        /\ f.name \in d.operations[o].messages
  BY DEF Covered
<1>2. d.operations[o].channel \in DOMAIN d.channels
  BY DEF Closed, OperationsKnown
<1>3. HostsOn(d, d.operations[o].channel) \subseteq HostsOn(e, d.operations[o].channel)
  BY <1>2, HostsExtend
<1>4. /\ o \in DOMAIN e.operations
      /\ e.operations[o].action = f.direction
      /\ f.host \in HostsOn(e, e.operations[o].channel)
      /\ f.name \in e.operations[o].messages
  BY <1>1, <1>3 DEF Extended
<1>5. /\ SchemaName[f.name] \in DOMAIN e.schemas
      /\ f.shape \in e.schemas[SchemaName[f.name]].shapes
  BY DEF Covered, Extended
<1> QED
  BY <1>4, <1>5 DEF Covered

\* A step that leaves the operations alone leaves the description true.
LEMMA DescribesExtended ==
  ASSUME NEW d, NEW e, Closed(d), Extended(d, e), e.operations = d.operations,
         NEW facts, Describes(d, facts)
  PROVE  Describes(e, facts)
<1>1. \A f \in facts : Covered(e, f)
  BY CoveredExtends DEF Describes
<1>2. Grounded(e, facts)
  <2> SUFFICES ASSUME NEW o \in DOMAIN d.operations, NEW m \in d.operations[o].messages,
                      Justified(d, d.operations[o], m, facts)
               PROVE  Justified(e, d.operations[o], m, facts)
    BY DEF Describes, Grounded
  <2>1. d.operations[o].channel \in DOMAIN d.channels
    BY DEF Closed, OperationsKnown
  <2>2. HostsOn(d, d.operations[o].channel) \subseteq HostsOn(e, d.operations[o].channel)
    BY <2>1, HostsExtend
  <2> QED
    BY <2>2 DEF Justified
<1>3. PlainMeans(e)
  BY DEF Describes, PlainMeans
<1> QED
  BY <1>1, <1>2, <1>3 DEF Describes

\* An operation of this direction and channel lists the name.
Listed(d, direction, c, n) ==
  \E o \in DOMAIN d.operations :
    /\ d.operations[o].action = direction
    /\ d.operations[o].channel = c
    /\ n \in d.operations[o].messages
ListsAll(d, direction, c, names) == \A n \in names : Listed(d, direction, c, n)

\* The operation ensureOperation extends or adds is one of its direction and
\* channel, and the only one it touches.
LEMMA OperationPut ==
  ASSUME NEW d, DocumentInv(d), PlainMeans(d), NEW direction \in Direction, NEW names,
         NEW e, e = OperationIn(d, direction, names)
  PROVE  /\ e.servers = d.servers /\ e.channels = d.channels /\ e.schemas = d.schemas
         /\ PlainMeans(e)
         /\ ListsAll(e, direction, cur.channel, names)
         /\ \E key :
              /\ \A o \in DOMAIN e.operations :
                   o # key => o \in DOMAIN d.operations /\ e.operations[o] = d.operations[o]
              /\ names = {} => e.operations = d.operations
              /\ names # {} =>
                   /\ key \in DOMAIN e.operations
                   /\ e.operations[key].action = direction
                   /\ e.operations[key].channel = cur.channel
                   /\ names \subseteq e.operations[key].messages
                   /\ \A m \in e.operations[key].messages \ names :
                        /\ key \in DOMAIN d.operations
                        /\ d.operations[key].action = direction
                        /\ d.operations[key].channel = cur.channel
                        /\ m \in d.operations[key].messages
<1> DEFINE ops == d.operations
           key == OperationKey(ops, direction)
           had == IF key \in DOMAIN ops THEN ops[key]
                  ELSE [action |-> direction, channel |-> cur.channel, messages |-> {}]
           op == [had EXCEPT !.messages = @ \cup names]
           new == WithOperation(ops, direction, names)
<1>1. /\ e.servers = d.servers /\ e.channels = d.channels /\ e.operations = new
      /\ e.schemas = d.schemas
  <2> HIDE DEF new
  <2>1. e = [d EXCEPT !.operations = new]
    BY DEF new, OperationIn
  <2> QED
    BY <2>1 DEF DocumentInv, IsDocument
<1>2. UniqueKey(ops, <<direction, cur.server>>) \notin DOMAIN ops
  BY FreeKey DEF DocumentInv, IsDocument
<1>3. key \in DOMAIN ops => ops[key].channel = cur.channel /\ ops[key].action = direction
  <2>1. key \in DOMAIN ops => key = PlainKey(direction) /\ ops[key].channel = cur.channel
    BY <1>2 DEF OperationKey, PlainKey
  <2> QED
    BY <2>1 DEF PlainMeans
<1>4. \A other \in Direction : key = PlainKey(other) => other = direction
  <2> TAKE other \in Direction
  <2> HAVE key = PlainKey(other)
  <2>1. CASE key = PlainKey(direction)
    BY <2>1 DEF PlainKey
  <2>2. CASE key = UniqueKey(ops, <<direction, cur.server>>)
    <3>1. key[1] = <<direction, cur.server>>
      BY <2>2 DEF UniqueKey
    <3>2. key[1] = <<other, Nil>>
      BY DEF PlainKey
    <3> HIDE DEF key
    <3> QED
      BY <3>1, <3>2
  <2> QED
    BY <2>1, <2>2 DEF OperationKey, PlainKey
<1>5. /\ had = [action |-> direction, channel |-> cur.channel, messages |-> had.messages]
      /\ \A m \in had.messages : key \in DOMAIN ops /\ m \in ops[key].messages
  <2> HIDE DEF key
  <2>1. CASE key \in DOMAIN ops
    <3>1. had = ops[key]
      BY <2>1
    <3>2. ops[key] = [action |-> ops[key].action, channel |-> ops[key].channel,
                      messages |-> ops[key].messages]
      BY <2>1 DEF DocumentInv, IsDocument
    <3> HIDE DEF had
    <3> QED
      BY <1>3, <2>1, <3>1, <3>2
  <2>2. CASE key \notin DOMAIN ops
    BY <2>2
  <2> QED
    BY <2>1, <2>2
<1>6. names # {} => new = Put(ops, key, op)
  BY DEF WithOperation
<1>7. names = {} => new = ops
  BY DEF WithOperation
<1> HIDE DEF key, had
<1>8. /\ op.action = direction /\ op.channel = cur.channel
      /\ op.messages = had.messages \cup names
  BY <1>5
<1> HIDE DEF op, new
<1>9. names # {} =>
        /\ DOMAIN new = DOMAIN ops \cup {key}
        /\ new[key] = op
        /\ \A o \in DOMAIN ops : o # key => new[o] = ops[o]
  BY <1>6 DEF Put
<1>10. PlainMeans(e)
  <2> SUFFICES ASSUME NEW other \in Direction, PlainKey(other) \in DOMAIN new
               PROVE  new[PlainKey(other)].action = other
    BY <1>1 DEF PlainMeans
  <2>1. CASE names = {}
    BY <1>7, <2>1 DEF PlainMeans
  <2>2. CASE names # {} /\ PlainKey(other) # key
    BY <1>9, <2>2 DEF PlainMeans
  <2>3. CASE names # {} /\ PlainKey(other) = key
    BY <1>4, <1>8, <1>9, <2>3
  <2> QED
    BY <2>1, <2>2, <2>3
<1>11. \A o \in DOMAIN new : o # key => o \in DOMAIN ops /\ new[o] = ops[o]
  BY <1>7, <1>9
<1>12. names # {} =>
         /\ key \in DOMAIN new
         /\ new[key].action = direction
         /\ new[key].channel = cur.channel
         /\ names \subseteq new[key].messages
         /\ \A m \in new[key].messages \ names :
              /\ key \in DOMAIN ops
              /\ ops[key].action = direction
              /\ ops[key].channel = cur.channel
              /\ m \in ops[key].messages
  BY <1>3, <1>5, <1>8, <1>9
<1>13. ListsAll(e, direction, cur.channel, names)
  BY <1>1, <1>12 DEF ListsAll, Listed
<1> HIDE DEF ops
<1> QED
  BY <1>1, <1>7, <1>10, <1>11, <1>12, <1>13 DEF ops

\* So the names given to it are described when they were seen on a host of the
\* channel in that direction.
LEMMA OperationDescribed ==
  ASSUME NEW d, DocumentInv(d), PlainMeans(d), NEW direction \in Direction, NEW names,
         NEW e, e = OperationIn(d, direction, names),
         NEW facts, Grounded(d, facts),
         \A n \in names : \E f \in facts :
           f.name = n /\ f.direction = direction /\ f.host \in HostsOn(d, cur.channel)
  PROVE  /\ e.servers = d.servers /\ e.channels = d.channels /\ e.schemas = d.schemas
         /\ PlainMeans(e) /\ Grounded(e, facts)
<1>1. /\ e.servers = d.servers /\ e.channels = d.channels /\ e.schemas = d.schemas
      /\ PlainMeans(e)
  BY OperationPut
<1>2. PICK key :
        /\ \A o \in DOMAIN e.operations :
             o # key => o \in DOMAIN d.operations /\ e.operations[o] = d.operations[o]
        /\ names = {} => e.operations = d.operations
        /\ names # {} =>
             /\ key \in DOMAIN e.operations
             /\ e.operations[key].action = direction
             /\ e.operations[key].channel = cur.channel
             /\ names \subseteq e.operations[key].messages
             /\ \A m \in e.operations[key].messages \ names :
                  /\ key \in DOMAIN d.operations
                  /\ d.operations[key].action = direction
                  /\ d.operations[key].channel = cur.channel
                  /\ m \in d.operations[key].messages
  BY OperationPut
<1>3. \A c : HostsOn(e, c) = HostsOn(d, c)
  BY <1>1 DEF HostsOn
<1>4. Grounded(e, facts)
  <2> SUFFICES ASSUME NEW o \in DOMAIN e.operations, NEW m \in e.operations[o].messages,
                      ~(o \in DOMAIN start.operations /\ m \in start.operations[o].messages)
               PROVE  Justified(d, e.operations[o], m, facts)
    BY <1>3 DEF Grounded, Justified
  <2>1. CASE o \in DOMAIN d.operations /\ e.operations[o] = d.operations[o]
    BY <2>1 DEF Grounded
  <2>2. CASE o = key /\ names # {} /\ m \in names
    BY <1>2, <2>2 DEF Justified
  <2>3. CASE o = key /\ names # {} /\ m \notin names
    <3>1. /\ key \in DOMAIN d.operations
          /\ d.operations[key].action = direction
          /\ d.operations[key].channel = cur.channel
          /\ m \in d.operations[key].messages
      BY <1>2, <2>3
    <3>2. Justified(d, d.operations[key], m, facts)
      BY <2>3, <3>1 DEF Grounded
    <3> QED
      BY <1>2, <2>3, <3>1, <3>2 DEF Justified
  <2> QED
    BY <1>2, <2>1, <2>2, <2>3
<1> QED
  BY <1>1, <1>4

-----------------------------------------------------------------------------
(***************************************************************************)
(* The invariant of a run: the document describes what was shown in        *)
(* earlier runs and in the sessions it is through with, and what was       *)
(* collected of the current session is what its items so far show.         *)
(***************************************************************************)
Through == Len(input) - Len(todo)
SoFar == observed \cup UNION {Shown(input[i]) : i \in 1..Through}

TodoInv ==
  /\ input \in Seq(Recordings) /\ Len(todo) <= Len(input)
  /\ \A i \in DOMAIN todo : todo[i] = input[Through + i]

\* The names of the items before the current one that have this direction.
Met(direction) ==
  {MessageName(Items(Session)[i]) :
     i \in {j \in 1..(cur.frame - 1) : Items(Session)[j].direction = direction}}
Merged(d, item) ==
  LET key == SchemaName[MessageName(item)]
  IN  key \in DOMAIN d.schemas /\ item.payload.shape \in d.schemas[key].shapes
SessionInv ==
  /\ pc \in {"channel", "frames"} => doc.servers[cur.server].host = Session.host
  /\ pc = "channel" => cur.frame = 1
  /\ pc = "frames" =>
       /\ cur.server \in doc.channels[cur.channel].servers
       /\ cur.frame - 1 <= Len(Items(Session))
       /\ cur.sent = Met("send") /\ cur.received = Met("receive")
       /\ \A i \in 1..(cur.frame - 1) : Merged(doc, Items(Session)[i])

DescribeInv ==
  /\ TodoInv /\ SessionInv
  /\ Describes(doc, SoFar) /\ Describes(saved, observed)

\* What a step leaves of the description, with the history it reads unchanged.
LEMMA DescribesNext ==
  ASSUME UNCHANGED start, Describes(doc', SoFar'), Describes(saved', observed')
  PROVE  Describes(doc, SoFar)' /\ Describes(saved, observed)'
BY DEF Describes, Covered, Grounded, Justified, PlainMeans, PlainKey, HostsOn

\* A step within a session.
LEMMA DescribesWithin ==
  ASSUME IInv, DescribeInv, UNCHANGED <<start, saved, observed, todo, input>>,
         Extended(doc, doc'), doc'.operations = doc.operations
  PROVE  TodoInv' /\ Describes(doc, SoFar)' /\ Describes(saved, observed)'
<1>1. TodoInv' /\ SoFar' = SoFar
  BY DEF DescribeInv, TodoInv, Through, SoFar
<1>2. Describes(doc', SoFar)
  BY DescribesExtended DEF IInv, DocumentInv, DescribeInv
<1>3. Describes(saved', observed')
  BY DEF DescribeInv
<1> QED
  BY <1>1, <1>2, <1>3, DescribesNext

LEMMA InitDescribeInv ==
  ASSUME Init, \A d \in Starts : PlainMeans(d)
  PROVE  DescribeInv
<1>1. TodoInv /\ SoFar = {}
  BY DEF Init, TodoInv, Through, SoFar
<1>2. SessionInv
  BY DEF Init, SessionInv
<1>3. Describes(saved, {}) /\ doc = saved /\ observed = {}
  BY DEF Init, Describes, Grounded
<1> QED
  BY <1>1, <1>2, <1>3 DEF DescribeInv

LEMMA BeginDescribes ==
  ASSUME DescribeInv, NEW ss \in Inputs, Begin(ss)
  PROVE  DescribeInv'
<1>1. ss \in Seq(Recordings)
  BY InputsAssumption
<1>2. Through' = 0
  BY <1>1 DEF Begin, Through
<1>3. SoFar' = observed
  BY <1>2 DEF SoFar, Begin
<1>4. TodoInv'
  BY <1>1, <1>2 DEF TodoInv, Begin
<1>5. SessionInv'
  BY DEF SessionInv, Begin
<1>6. Describes(doc', SoFar') /\ Describes(saved', observed') /\ UNCHANGED start
  BY <1>3 DEF DescribeInv, Begin
<1> QED
  BY <1>4, <1>5, <1>6, DescribesNext DEF DescribeInv

\* A run that ends goes on from what is on disk.
LEMMA EndsDescribes ==
  ASSUME NEW how, Ends(how), Describes(saved', observed')
  PROVE  DescribeInv'
<1>1. TodoInv' /\ SoFar' = observed'
  BY DEF Ends, TodoInv, Through, SoFar
<1>2. SessionInv'
  BY DEF Ends, SessionInv
<1>3. Describes(doc', SoFar') /\ UNCHANGED start
  BY <1>1 DEF Ends
<1> QED
  BY <1>1, <1>2, <1>3, DescribesNext DEF DescribeInv

LEMMA FoundServerDescribes ==
  ASSUME IInv, DescribeInv, FoundServer
  PROVE  DescribeInv'
<1>1. TodoInv' /\ Describes(doc, SoFar)' /\ Describes(saved, observed)'
  BY DescribesWithin, ExtendedReflexive DEF FoundServer
<1>2. PICK k \in MatchingServers(Session.host) : cur' = [Idle EXCEPT !.server = k]
  BY DEF FoundServer
<1>3. cur'.server = k /\ cur'.frame = 1
  BY <1>2 DEF Idle
<1>4. doc.servers[k].host = Session.host
  BY DEF MatchingServers
<1>5. SessionInv'
  BY <1>3, <1>4 DEF FoundServer, SessionInv, Session
<1> QED
  BY <1>1, <1>5 DEF DescribeInv

LEMMA NewServerDescribes ==
  ASSUME IInv, DescribeInv, NewServer
  PROVE  DescribeInv'
<1>1. /\ Extended(doc, doc') /\ doc'.operations = doc.operations
      /\ doc'.servers[cur'.server].host = Session.host
  BY NewServerStep
<1>2. TodoInv' /\ Describes(doc, SoFar)' /\ Describes(saved, observed)'
  BY <1>1, DescribesWithin DEF NewServer
<1>3. cur'.frame = 1 /\ pc' = "channel" /\ UNCHANGED todo
  BY DEF NewServer, Idle
<1>4. SessionInv'
  BY <1>1, <1>3 DEF SessionInv, Session
<1> QED
  BY <1>2, <1>4 DEF DescribeInv

\* Before its first item nothing of a session is collected.
LEMMA NothingMet ==
  ASSUME cur.frame = 1
  PROVE  1..(cur.frame - 1) = {} /\ Met("send") = {} /\ Met("receive") = {}
BY DEF Met

\* A session that has its channel starts with its first item.
LEMMA ChannelDescribes ==
  ASSUME IInv, DescribeInv, pc = "channel", pc' = "frames",
         NEW c, cur' = [cur EXCEPT !.channel = c],
         Extended(doc, doc'), doc'.operations = doc.operations,
         cur.server \in doc'.channels[c].servers,
         UNCHANGED <<start, saved, observed, todo, input>>
  PROVE  DescribeInv'
<1>1. TodoInv' /\ Describes(doc, SoFar)' /\ Describes(saved, observed)'
  BY DescribesWithin
<1>2. /\ cur'.server = cur.server /\ cur'.channel = c /\ cur'.frame = 1
      /\ cur'.sent = {} /\ cur'.received = {}
  BY DEF IInv, CurInv, DescribeInv, SessionInv
<1>3. doc'.servers[cur.server].host = Session.host
  BY DEF IInv, CurInv, DescribeInv, SessionInv, Extended
<1>4. (cur.frame = 1)'
  BY <1>2
<1>5. (1..(cur.frame - 1) = {} /\ Met("send") = {} /\ Met("receive") = {})'
  BY <1>4, NothingMet, PTL
<1>6. cur'.frame - 1 <= Len(Items(Session'))
  <2>1. Items(Session) \in Seq([direction : Direction, payload : Payload])
    BY ItemsTyped DEF IInv, CurInv
  <2> QED
    BY <1>2, <2>1 DEF Session
<1>7. SessionInv'
  BY <1>2, <1>3, <1>5, <1>6 DEF SessionInv, Session
<1> QED
  BY <1>1, <1>7 DEF DescribeInv

LEMMA FoundChannelDescribes ==
  ASSUME IInv, DescribeInv, FoundChannel
  PROVE  DescribeInv'
<1>1. PICK c \in ChannelsOf(cur.server) : cur' = [cur EXCEPT !.channel = c]
  BY DEF FoundChannel
<1>2. cur.server \in doc'.channels[c].servers
  BY DEF FoundChannel, ChannelsOf
<1> QED
  BY <1>1, <1>2, ChannelDescribes, ExtendedReflexive DEF FoundChannel

LEMMA NewChannelDescribes ==
  ASSUME IInv, DescribeInv, NewChannel
  PROVE  DescribeInv'
<1> DEFINE key == UniqueKey(doc.channels, cur.server)
<1>1. /\ Extended(doc, doc') /\ doc'.operations = doc.operations
      /\ cur.server \in doc'.channels[cur'.channel].servers
  BY NewChannelStep
<1>2. cur' = [cur EXCEPT !.channel = key] /\ pc = "channel" /\ pc' = "frames"
      /\ UNCHANGED <<start, saved, observed, todo, input>>
  BY DEF NewChannel
<1> HIDE DEF key
<1>3. cur'.channel = key
  BY <1>2 DEF IInv, CurInv
<1> QED
  BY <1>1, <1>2, <1>3, ChannelDescribes

LEMMA MetNext ==
  ASSUME cur.frame \in Nat \ {0}, UNCHANGED todo, cur'.frame = cur.frame + 1,
         NEW direction
  PROVE  Met(direction)' = Met(direction) \cup
           (IF Item.direction = direction THEN {MessageName(Item)} ELSE {})
<1> DEFINE n == cur.frame
           items == Items(Session)
<1>1. Session' = Session
  BY DEF Session
<1>2. Met(direction)' =
        {MessageName(items[i]) : i \in {j \in 1..(n + 1 - 1) : items[j].direction = direction}}
  BY <1>1 DEF Met
<1>3. Met(direction) =
        {MessageName(items[i]) : i \in {j \in 1..(n - 1) : items[j].direction = direction}}
  BY DEF Met
<1>4. n \in Nat \ {0} /\ Item = items[n]
  BY DEF Item
<1> HIDE DEF n, items
<1>5. {j \in 1..(n + 1 - 1) : items[j].direction = direction} =
        {j \in 1..(n - 1) : items[j].direction = direction} \cup
          (IF items[n].direction = direction THEN {n} ELSE {})
  BY <1>4
<1> QED
  BY <1>2, <1>3, <1>4, <1>5

LEMMA MergedExtends ==
  ASSUME NEW d, NEW e, Extended(d, e), NEW item, Merged(d, item)
  PROVE  Merged(e, item)
BY DEF Merged, Extended

LEMMA EnsureMessageDescribes ==
  ASSUME IInv, DescribeInv, EnsureMessage
  PROVE  DescribeInv'
<1>1. /\ Extended(doc, doc') /\ doc'.operations = doc.operations
      /\ Merged(doc', Item)
  BY EnsureMessageStep DEF Merged
<1>2. /\ TodoInv' /\ Describes(doc, SoFar)' /\ Describes(saved, observed)'
      /\ pc = "frames" /\ pc' = "frames" /\ UNCHANGED todo
  BY <1>1, DescribesWithin DEF EnsureMessage
<1>3. /\ cur'.server = cur.server /\ cur'.channel = cur.channel
      /\ cur'.frame = cur.frame + 1
      /\ cur'.sent = IF Item.direction = "send" THEN cur.sent \cup {MessageName(Item)}
                     ELSE cur.sent
      /\ cur'.received = IF Item.direction = "receive" THEN cur.received \cup {MessageName(Item)}
                         ELSE cur.received
      /\ cur.frame \in Nat \ {0} /\ cur.frame <= Len(Items(Session))
  <2>1. cur = [server |-> cur.server, channel |-> cur.channel, frame |-> cur.frame,
               sent |-> cur.sent, received |-> cur.received] /\ cur.frame \in Nat \ {0}
    BY DEF IInv, CurInv
  <2>2. /\ cur' = [cur EXCEPT !.frame = @ + 1,
             !.sent = IF Item.direction = "send" THEN @ \cup {MessageName(Item)} ELSE @,
             !.received = IF Item.direction = "receive" THEN @ \cup {MessageName(Item)} ELSE @]
        /\ cur.frame <= Len(Items(Session))
    BY DEF EnsureMessage
  <2> QED
    BY <2>1, <2>2
<1>4. Met("send")' = cur'.sent /\ Met("receive")' = cur'.received
  <2>1. cur.sent = Met("send") /\ cur.received = Met("receive")
    BY <1>2 DEF DescribeInv, SessionInv
  <2>2. /\ Met("send")' = Met("send") \cup
             (IF Item.direction = "send" THEN {MessageName(Item)} ELSE {})
        /\ Met("receive")' = Met("receive") \cup
             (IF Item.direction = "receive" THEN {MessageName(Item)} ELSE {})
    BY <1>2, <1>3, MetNext
  <2> QED
    BY <1>3, <2>1, <2>2
<1>5. /\ doc'.servers[cur.server].host = Session.host
      /\ cur.server \in doc'.channels[cur.channel].servers
  <2>1. /\ doc.servers[cur.server].host = Session.host
        /\ cur.server \in doc.channels[cur.channel].servers
        /\ cur.server \in DOMAIN doc.servers /\ cur.channel \in DOMAIN doc.channels
    BY <1>2 DEF IInv, CurInv, DescribeInv, SessionInv
  <2> QED
    BY <1>1, <2>1 DEF Extended
<1>6. \A i \in 1..cur.frame : Merged(doc', Items(Session)[i])
  <2> TAKE i \in 1..cur.frame
  <2>1. CASE i = cur.frame
    BY <1>1, <2>1 DEF Item
  <2>2. CASE i # cur.frame
    <3>1. Merged(doc, Items(Session)[i])
      BY <1>2, <1>3, <2>2 DEF DescribeInv, SessionInv
    <3> QED
      BY <1>1, <3>1, MergedExtends
  <2> QED
    BY <2>1, <2>2
<1>7. Session' = Session
  BY <1>2 DEF Session
<1>8. cur'.frame - 1 = cur.frame
  BY <1>3
<1>9. SessionInv'
  BY <1>2, <1>3, <1>4, <1>5, <1>6, <1>7, <1>8 DEF SessionInv
<1> QED
  BY <1>2, <1>9 DEF DescribeInv

\* What a session shows is described by what was collected of it.
LEMMA ShownFacts ==
  ASSUME IInv, DescribeInv, EnsureOperations, NEW f \in Shown(Session)
  PROVE  /\ f.host \in HostsOn(doc, cur.channel)
         /\ \/ f.direction = "send" /\ f.name \in cur.sent
            \/ f.direction = "receive" /\ f.name \in cur.received
         /\ SchemaName[f.name] \in DOMAIN doc.schemas
         /\ f.shape \in doc.schemas[SchemaName[f.name]].shapes
<1> DEFINE items == Items(Session)
<1>1. PICK i \in DOMAIN items :
        f = [host |-> Session.host, direction |-> items[i].direction,
             name |-> MessageName(items[i]), shape |-> items[i].payload.shape]
  BY DEF Shown
<1>2. /\ f.host = Session.host /\ f.direction = items[i].direction
      /\ f.name = MessageName(items[i]) /\ f.shape = items[i].payload.shape
  BY <1>1
<1>3. /\ items \in Seq([direction : Direction, payload : Payload])
      /\ cur.frame \in Nat \ {0} /\ cur.frame > Len(items) /\ pc = "frames"
  BY ItemsTyped DEF IInv, CurInv, EnsureOperations
<1>4. /\ cur.server \in doc.channels[cur.channel].servers
      /\ doc.servers[cur.server].host = Session.host
      /\ cur.sent = Met("send") /\ cur.received = Met("receive")
      /\ \A j \in 1..(cur.frame - 1) : Merged(doc, items[j])
  BY <1>3 DEF DescribeInv, SessionInv
<1>5. i \in 1..(cur.frame - 1) /\ items[i].direction \in Direction
  <2>1. i \in DOMAIN items
    OBVIOUS
  <2> HIDE DEF items
  <2> DEFINE I == [direction : Direction, payload : Payload]
  <2>2. items[i].direction \in Direction
    <3>1. items \in Seq(I)
      BY <1>3
    <3> HIDE DEF I
    <3>2. items[i] \in I
      BY <2>1, <3>1
    <3> QED
      BY <3>2 DEF I
  <2> QED
    BY <1>3, <2>1, <2>2
<1> HIDE DEF items
<1>6. items[i].direction = "send" => f.name \in Met("send")
  BY <1>2, <1>5 DEF Met, items
<1>7. items[i].direction = "receive" => f.name \in Met("receive")
  BY <1>2, <1>5 DEF Met, items
<1>8. Merged(doc, items[i])
  BY <1>4, <1>5
<1>9. f.host \in HostsOn(doc, cur.channel)
  BY <1>2, <1>4 DEF HostsOn
<1>10. \/ f.direction = "send" /\ f.name \in cur.sent
       \/ f.direction = "receive" /\ f.name \in cur.received
  BY <1>2, <1>4, <1>5, <1>6, <1>7 DEF Direction
<1> QED
  BY <1>2, <1>8, <1>9, <1>10 DEF Merged

\* And what was collected, the session shows.
LEMMA CollectedShown ==
  ASSUME IInv, DescribeInv, EnsureOperations
  PROVE  /\ \A n \in cur.sent : \E f \in Shown(Session) :
              f.name = n /\ f.direction = "send" /\ f.host \in HostsOn(doc, cur.channel)
         /\ \A n \in cur.received : \E f \in Shown(Session) :
              f.name = n /\ f.direction = "receive" /\ f.host \in HostsOn(doc, cur.channel)
<1> DEFINE items == Items(Session)
           fact(i) == [host |-> Session.host, direction |-> items[i].direction,
                       name |-> MessageName(items[i]), shape |-> items[i].payload.shape]
<1>1. /\ items \in Seq([direction : Direction, payload : Payload])
      /\ cur.frame \in Nat \ {0} /\ pc = "frames"
  BY ItemsTyped DEF IInv, CurInv, EnsureOperations
<1>2. cur.frame - 1 <= Len(items) /\ cur.sent = Met("send") /\ cur.received = Met("receive")
  BY <1>1 DEF DescribeInv, SessionInv
<1>3. \A i \in DOMAIN items : fact(i) \in Shown(Session)
  BY DEF Shown
<1>4. ASSUME NEW direction, NEW n \in Met(direction)
      PROVE  \E f \in Shown(Session) :
               f.name = n /\ f.direction = direction /\ f.host \in HostsOn(doc, cur.channel)
  <2>1. PICK i \in 1..(cur.frame - 1) :
          items[i].direction = direction /\ n = MessageName(items[i])
    BY DEF Met
  <2>2. i \in DOMAIN items
    <3> HIDE DEF items
    <3> QED
      BY <1>1, <1>2
  <2>3. fact(i) \in Shown(Session)
    BY <1>3, <2>2
  <2>4. fact(i).name = n /\ fact(i).direction = direction
    BY <2>1
  <2>5. fact(i).host \in HostsOn(doc, cur.channel)
    <3> HIDE DEF fact
    <3> QED
      BY <2>3, ShownFacts
  <2> HIDE DEF fact
  <2> QED
    BY <2>3, <2>4, <2>5
<1> QED
  BY <1>2, <1>4

\* Once the last item is met, the session's two operations say what it showed.
LEMMA EnsureOperationsDescribes ==
  ASSUME IInv, DescribeInv, EnsureOperations
  PROVE  DescribeInv'
<1> DEFINE d1 == OperationIn(doc, "send", cur.sent)
           facts == SoFar \cup Shown(Session)
           onHost(f) == f.host \in HostsOn(doc, cur.channel)
<1>1. /\ DocumentInv(doc) /\ cur.channel \in DOMAIN doc.channels
      /\ cur.sent \subseteq Named(doc.channels[cur.channel])
      /\ cur.received \subseteq Named(doc.channels[cur.channel])
      /\ todo # <<>> /\ todo \in Seq(Recordings)
  BY DEF IInv, CurInv, EnsureOperations
<1>2. DocumentInv(d1) /\ Extended(doc, d1)
  BY <1>1, OperationAdded
<1>3. doc' = OperationIn(d1, "receive", cur.received)
  BY <1>1, BothOperations
<1>4. DocumentInv(doc') /\ Extended(d1, doc') /\ Extended(doc, doc')
  <2>1. d1.channels = doc.channels
    BY <1>1, OperationAdded
  <2> HIDE DEF d1
  <2>2. DocumentInv(doc') /\ Extended(d1, doc')
    BY <1>1, <1>2, <1>3, <2>1, OperationAdded
  <2> QED
    BY <1>2, <2>2, ExtendedTransitive
<1>5. /\ \A f \in SoFar : Covered(doc, f)
      /\ Grounded(doc, facts) /\ PlainMeans(doc)
  BY DEF DescribeInv, Describes, Grounded, Justified
<1>6. /\ \A n \in cur.sent : \E f \in facts : f.name = n /\ f.direction = "send" /\ onHost(f)
      /\ \A n \in cur.received : \E f \in facts :
           f.name = n /\ f.direction = "receive" /\ onHost(f)
  BY CollectedShown
<1>7. /\ d1.servers = doc.servers /\ d1.channels = doc.channels /\ d1.schemas = doc.schemas
      /\ PlainMeans(d1) /\ Grounded(d1, facts)
      /\ ListsAll(d1, "send", cur.channel, cur.sent)
  <2>1. d1 = OperationIn(doc, "send", cur.sent) /\ "send" \in Direction
    BY DEF Direction
  <2>2. \A n \in cur.sent : \E f \in facts :
          f.name = n /\ f.direction = "send" /\ f.host \in HostsOn(doc, cur.channel)
    BY <1>6
  <2>3. DocumentInv(doc) /\ PlainMeans(doc) /\ Grounded(doc, facts)
    BY <1>1, <1>5
  <2> HIDE DEF d1, facts
  <2>4. /\ d1.servers = doc.servers /\ d1.channels = doc.channels /\ d1.schemas = doc.schemas
        /\ PlainMeans(d1)
    BY <2>1, <2>3, OperationPut
  <2>5. Grounded(d1, facts)
    BY <2>1, <2>2, <2>3, OperationDescribed
  <2>6. ListsAll(d1, "send", cur.channel, cur.sent)
    BY <2>1, <2>3, OperationPut
  <2> QED
    BY <2>4, <2>5, <2>6
<1>8. \A c : HostsOn(d1, c) = HostsOn(doc, c)
  BY <1>7 DEF HostsOn
<1> HIDE DEF d1, facts
<1>9. /\ doc'.servers = d1.servers /\ doc'.channels = d1.channels /\ doc'.schemas = d1.schemas
      /\ PlainMeans(doc') /\ Grounded(doc', facts)
      /\ ListsAll(doc', "receive", cur.channel, cur.received)
  <2>1. "receive" \in Direction
    BY DEF Direction
  <2>2. \A n \in cur.received : \E f \in facts :
          f.name = n /\ f.direction = "receive" /\ f.host \in HostsOn(d1, cur.channel)
    BY <1>6, <1>8
  <2>3. DocumentInv(d1) /\ PlainMeans(d1) /\ Grounded(d1, facts)
    BY <1>2, <1>7
  <2>4. /\ doc'.servers = d1.servers /\ doc'.channels = d1.channels
        /\ doc'.schemas = d1.schemas /\ PlainMeans(doc')
    BY <1>3, <2>1, <2>3, OperationPut
  <2>5. Grounded(doc', facts)
    BY <1>3, <2>1, <2>2, <2>3, OperationDescribed
  <2>6. ListsAll(doc', "receive", cur.channel, cur.received)
    BY <1>3, <2>1, <2>3, OperationPut
  <2> QED
    BY <2>4, <2>5, <2>6
<1>10. \A f \in Shown(Session) : Covered(doc', f)
  <2> TAKE f \in Shown(Session)
  <2>1. /\ f.host \in HostsOn(doc', cur.channel)
        /\ SchemaName[f.name] \in DOMAIN doc'.schemas
        /\ f.shape \in doc'.schemas[SchemaName[f.name]].shapes
    BY <1>7, <1>9, ShownFacts DEF HostsOn
  <2>2. CASE f.direction = "send" /\ f.name \in cur.sent
    <3>1. PICK o \in DOMAIN d1.operations :
            /\ d1.operations[o].action = "send"
            /\ d1.operations[o].channel = cur.channel
            /\ f.name \in d1.operations[o].messages
      BY <1>7, <2>2 DEF ListsAll, Listed
    <3>2. /\ o \in DOMAIN doc'.operations
          /\ doc'.operations[o].action = "send"
          /\ doc'.operations[o].channel = cur.channel
          /\ f.name \in doc'.operations[o].messages
      BY <1>4, <3>1 DEF Extended
    <3> QED
      BY <2>1, <2>2, <3>2 DEF Covered
  <2>3. CASE f.direction = "receive" /\ f.name \in cur.received
    BY <1>9, <2>1, <2>3 DEF Covered, ListsAll, Listed
  <2> QED
    BY <2>2, <2>3, ShownFacts
<1>11. \A f \in SoFar : Covered(doc', f)
  BY <1>1, <1>4, <1>5, CoveredExtends DEF DocumentInv
<1>12. Describes(doc', facts)
  BY <1>9, <1>10, <1>11 DEF Describes, facts
<1>13. /\ input' = input /\ todo' = Tail(todo) /\ observed' = observed
       /\ input \in Seq(Recordings) /\ Len(todo) <= Len(input)
       /\ \A i \in DOMAIN todo : todo[i] = input[Through + i]
  BY DEF EnsureOperations, DescribeInv, TodoInv
<1>14. Through \in Nat /\ Through' = Through + 1
  BY <1>1, <1>13 DEF Through
<1>15. TodoInv'
  <2>1. Len(todo') <= Len(input')
    BY <1>1, <1>13
  <2>2. ASSUME NEW i \in DOMAIN todo' PROVE todo'[i] = input'[Through' + i]
    <3>1. i \in Nat /\ todo'[i] = todo[i + 1] /\ i + 1 \in DOMAIN todo
      BY <1>1, <1>13
    <3>2. todo[i + 1] = input[Through + (i + 1)]
      BY <1>13, <3>1
    <3>3. Through + (i + 1) = Through' + i
      BY <1>14, <3>1
    <3> QED
      BY <1>13, <3>1, <3>2, <3>3
  <2> QED
    BY <1>13, <2>1, <2>2 DEF TodoInv
<1>16. SoFar' = facts
  <2>1. Session = input[Through + 1]
    BY <1>1, <1>13 DEF Session
  <2>2. 1..Through' = 1..Through \cup {Through + 1}
    BY <1>14
  <2>3. SoFar' = observed \cup UNION {Shown(input[i]) : i \in 1..Through'}
    BY <1>13 DEF SoFar
  <2> QED
    BY <2>1, <2>2, <2>3 DEF SoFar, facts
<1>17. SessionInv'
  BY DEF SessionInv, EnsureOperations
<1>18. Describes(saved', observed') /\ UNCHANGED start
  BY DEF DescribeInv, EnsureOperations
<1> QED
  BY <1>12, <1>15, <1>16, <1>17, <1>18, DescribesNext DEF DescribeInv

LEMMA ResolveDescribes ==
  ASSUME IInv, DescribeInv, Resolve
  PROVE  DescribeInv'
<1>1. Extended(doc, Reloaded(doc))
  BY DocumentReloaded DEF IInv
<1>2. Reloaded(doc).operations = doc.operations
  BY DEF Reloaded, IInv, DocumentInv, IsDocument
<1>3. observed' = SoFar
  <2>1. todo = <<>> /\ input \in Seq(Recordings)
    BY DEF Resolve, DescribeInv, TodoInv
  <2>2. 1..Through = DOMAIN input
    BY <2>1 DEF Through
  <2> QED
    BY <2>2 DEF Resolve, SoFar
<1>4. Describes(Reloaded(doc), SoFar)
  <2>1. Closed(doc) /\ Describes(doc, SoFar)
    BY DEF IInv, DocumentInv, DescribeInv
  <2> QED
    BY <1>1, <1>2, <2>1, DescribesExtended
<1>5. saved' = Reloaded(doc) /\ Ends("saved")
  BY DEF Resolve
<1>6. UNCHANGED start
  BY <1>5 DEF Ends
<1> QED
  BY <1>3, <1>4, <1>5, <1>6, EndsDescribes DEF Describes, Grounded

LEMMA NextDescribeInv ==
  ASSUME IInv, DescribeInv, [Next]_vars
  PROVE  DescribeInv'
<1>1. ASSUME UNCHANGED <<saved, observed>>, NEW how, Ends(how)
      PROVE  DescribeInv'
  BY <1>1, EndsDescribes DEF DescribeInv
<1>2. CASE \E ss \in Inputs : Begin(ss)
  BY <1>2, BeginDescribes
<1>3. CASE FoundServer
  BY <1>3, FoundServerDescribes
<1>4. CASE NewServer
  BY <1>4, NewServerDescribes
<1>5. CASE FoundChannel
  BY <1>5, FoundChannelDescribes
<1>6. CASE NewChannel
  BY <1>6, NewChannelDescribes
<1>7. CASE EnsureMessage
  BY <1>7, EnsureMessageDescribes
<1>8. CASE EnsureOperations
  BY <1>8, EnsureOperationsDescribes
<1>9. CASE Resolve
  BY <1>9, ResolveDescribes
<1>10. CASE SessionRefused \/ MessageRefused \/ MessagePanics \/ ResolveFails
  BY <1>1, <1>10 DEF SessionRefused, MessageRefused, MessagePanics, ResolveFails
<1>11. CASE UNCHANGED vars
  BY <1>11 DEF vars, DescribeInv, TodoInv, SessionInv, Describes, Covered, Grounded,
               Justified, PlainMeans, PlainKey, HostsOn, SoFar, Through, Session, Met, Merged
<1>12. CASE NoMoreRuns
  BY <1>11, <1>12 DEF NoMoreRuns
<1> QED
  BY <1>2, <1>3, <1>4, <1>5, <1>6, <1>7, <1>8, <1>9, <1>10, <1>11, <1>12 DEF Next

\* However often Enrich is run, over whatever sessions: what they showed is in
\* the document on disk, as a message of an operation of its direction on its
\* host and in its shape, and what an operation lists was shown on its host in
\* its direction, or was in the maintainer's document (doc.go:30-34; enrich.go:
\* 22-26). The maintainer's operations under the plain keys "send" and
\* "receive", if there are any, have to be of that action.
THEOREM EnrichDescribesRecordings ==
  ASSUME \A d \in Starts : PlainMeans(d)
  PROVE  Spec => []DescribesRecordings
<1>1. Init => DescribeInv
  BY InitDescribeInv
<1>2. IInv /\ DescribeInv /\ [Next]_vars => DescribeInv'
  BY NextDescribeInv
<1>3. DescribeInv => DescribesRecordings
  <2> SUFFICES ASSUME DescribeInv PROVE DescribesRecordings
    OBVIOUS
  <2>1. \A f \in observed : Covered(saved, f)
    BY DEF DescribeInv, Describes
  <2>2. \A o \in DOMAIN saved.operations :
          HostsOf(saved, o) = HostsOn(saved, saved.operations[o].channel)
    BY DEF HostsOf, HostsOn
  <2>3. Grounded(saved, observed)
    BY DEF DescribeInv, Describes
  <2> QED
    BY <2>1, <2>2, <2>3 DEF DescribesRecordings, Covered, Grounded, Justified
<1> QED
  BY <1>1, <1>2, <1>3, EnrichInvariant, PTL DEF Spec

=============================================================================
