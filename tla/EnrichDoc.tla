------------------------------ MODULE EnrichDoc -----------------------------
(***************************************************************************)
(* Enrich (enrich.go) run again and again over one AsyncAPI document: for  *)
(* each recorded session it finds or adds the server, the channel, a       *)
(* message per kind of frame, and the two operations. Go maps are ranged   *)
(* over in any order, so a search that stops at the first match may stop   *)
(* at any. A failure leaves the document half enriched in memory; the      *)
(* command then writes nothing (cmd/asyncapi-enrich/main.go).              *)
(*                                                                         *)
(* Keys are pairs <<base, n>> for the string uniqueKey builds from base    *)
(* and the suffix n (none for 1). A schema is abstracted to the set of     *)
(* JSON shapes merged into it and, as history, the messages they came in.  *)
(***************************************************************************)
EXTENDS Integers, Sequences, FiniteSets

CONSTANTS
  Nil,          \* an absent name, key or map
  Hosts,        \* u.Host of the URIs
  HostKey,      \* hostKey, by host: two hosts may share one
  Names,        \* message names: values of "type", sole keys, and the directions
  SchemaName,   \* pascalCase, by message name: two names may share one
  Starts,       \* the document before the first run
  Inputs,       \* the session lists of a sessions file
  MaxRuns       \* bound: how often Enrich is run

Direction == {"send", "receive"}
Shape == {"object", "array", "scalar"}

ASSUME NamesAssumption == Direction \subseteq Names /\ Nil \notin Names
ASSUME SchemaNameAssumption == DOMAIN SchemaName = Names
ASSUME HostKeyAssumption == DOMAIN HostKey = Hosts
ASSUME MaxRunsAssumption == MaxRuns \in Nat
ASSUME NilAssumption == \A S \in SUBSET Names : S # Nil

VARIABLES
  doc,       \* the document in memory
  saved,     \* the document on disk
  pc,        \* where Enrich is
  todo,      \* sessions still to enrich from, the current one first
  cur,       \* enrichSession's variables: serverKey, chKey, frame index, sent, received
  runs,      \* runs started
  outcome,   \* how the last run ended
  start,     \* history: the document before the first run
  input,     \* history: the sessions of this run
  observed   \* history: what the frames of all saved runs showed

vars == <<doc, saved, pc, todo, cur, runs, outcome, start, input, observed>>

Empty == [servers |-> <<>>, channels |-> <<>>, operations |-> <<>>, schemas |-> <<>>,
          schemes |-> {}]
Idle == [server |-> Nil, channel |-> Nil, frame |-> 1, sent |-> {}, received |-> {}]

\* m[k] = v
Put(m, k, v) == [x \in DOMAIN m \cup {k} |-> IF x = k THEN v ELSE m[x]]

\* uniqueKey: the first of base, base2, base3, ... that is not taken.
UniqueKey(m, base) ==
  <<base, CHOOSE n \in 1..(Cardinality(DOMAIN m) + 1) :
            /\ <<base, n>> \notin DOMAIN m
            /\ \A l \in 1..(n - 1) : <<base, l>> \in DOMAIN m>>

-----------------------------------------------------------------------------
\* The payloads of a session with their direction: its frames, and last its
\* Unsubscribe.
Items(s) ==
  s.frames \o IF s.unsubscribe = Nil THEN <<>>
              ELSE <<[direction |-> "send", payload |-> s.unsubscribe]>>

\* ensureMessage's name: the "type", else the sole key, else the direction.
MessageName(item) ==
  IF item.payload.type # Nil THEN item.payload.type
  ELSE IF item.payload.soleKey # Nil THEN item.payload.soleKey
  ELSE item.direction

\* What a sessions file may hold.
Payload == [type : Names \cup {Nil}, soleKey : Names \cup {Nil}, shape : Shape]
IsSession(s) ==
  /\ s.frames \in Seq([direction : Direction, payload : Payload])
  /\ s.unsubscribe \in Payload \cup {Nil}
Recordings == UNION {{ss[i] : i \in DOMAIN ss} : ss \in Inputs}

ASSUME InputsAssumption == Inputs \subseteq Seq(Recordings) /\ \A s \in Recordings : IsSession(s)

Session == Head(todo)
Item == Items(Session)[cur.frame]

\* mergeSchema refuses a schema both object- and array-shaped. (One of a field or
\* an item it refuses likewise; SchemaMerge has those, here a shape is all there is.)
MergeRefuses(shapes) == {"object", "array"} \subseteq shapes

-----------------------------------------------------------------------------
Begin(ss) ==
  /\ pc = "idle" /\ runs < MaxRuns
  /\ pc' = "server"
  /\ doc' = saved
  /\ todo' = ss
  /\ input' = ss
  /\ cur' = Idle
  /\ runs' = runs + 1
  /\ UNCHANGED <<saved, outcome, start, observed>>

Ends(how) ==
  /\ pc' = "idle"
  /\ outcome' = how
  /\ doc' = saved'
  /\ todo' = <<>>
  /\ cur' = Idle
  /\ input' = <<>>
  /\ UNCHANGED <<runs, start>>

\* The URI was checked with the environment's variables expanded, and is parsed
\* without: it may not be a URI then.
SessionRefused ==
  /\ pc = "server" /\ todo # <<>>
  /\ UNCHANGED <<saved, observed>>
  /\ Ends("refused")

\* Servers that are not references match by host. (The mutant looks
\* under the plain key only.)
MatchingPlainKey(host) ==
  {k \in DOMAIN doc.servers : ~doc.servers[k].ref /\ doc.servers[k].host = host /\ k[2] = 1}
MatchingServers(host) ==
  {k \in DOMAIN doc.servers : ~doc.servers[k].ref /\ doc.servers[k].host = host}

FoundServer ==
  /\ pc = "server" /\ todo # <<>>
  /\ \E k \in MatchingServers(Session.host) : cur' = [Idle EXCEPT !.server = k]
  /\ pc' = "channel"
  /\ UNCHANGED <<doc, saved, todo, runs, outcome, start, input, observed>>

\* addCredentialSecurity ranges over a map of the URI's parameters.
NewServer ==
  /\ pc = "server" /\ todo # <<>> /\ MatchingServers(Session.host) = {}
  /\ LET key == UniqueKey(doc.servers, HostKey[Session.host])
         credentials == {Session.params[i] : i \in DOMAIN Session.params}
     IN  /\ \E name \in IF credentials = {} THEN {Nil} ELSE credentials :
              doc' = [doc EXCEPT
                !.servers = Put(@, key, [host |-> Session.host, ref |-> FALSE, security |-> name]),
                !.schemes = @ \cup ({name} \ {Nil})]
         /\ cur' = [Idle EXCEPT !.server = key]
  /\ pc' = "channel"
  /\ UNCHANGED <<saved, todo, runs, outcome, start, input, observed>>

ChannelsOf(key) ==
  {c \in DOMAIN doc.channels : ~doc.channels[c].ref /\ key \in doc.channels[c].servers}

FoundChannel ==
  /\ pc = "channel"
  /\ \E c \in ChannelsOf(cur.server) : cur' = [cur EXCEPT !.channel = c]
  /\ pc' = "frames"
  /\ UNCHANGED <<doc, saved, todo, runs, outcome, start, input, observed>>

NewChannel ==
  /\ pc = "channel" /\ ChannelsOf(cur.server) = {}
  /\ LET key == UniqueKey(doc.channels, cur.server) IN
       /\ doc' = [doc EXCEPT !.channels =
            Put(@, key, [servers |-> {cur.server}, messages |-> {}, ref |-> FALSE])]
       /\ cur' = [cur EXCEPT !.channel = key]
  /\ pc' = "frames"
  /\ UNCHANGED <<saved, todo, runs, outcome, start, input, observed>>

-----------------------------------------------------------------------------
\* The schema of the message with this payload merged in.
MergedSchema ==
  LET name == MessageName(Item)
      key == SchemaName[name]
      had == IF key \in DOMAIN doc.schemas THEN doc.schemas[key]
             ELSE [shapes |-> {}, from |-> {}]
  IN  [shapes |-> had.shapes \cup {Item.payload.shape}, from |-> had.from \cup {name}]

Messages == doc.channels[cur.channel].messages

EnsureMessage ==
  /\ pc = "frames" /\ cur.frame <= Len(Items(Session))
  /\ ~MergeRefuses(MergedSchema.shapes)
  /\ Messages # Nil
  /\ LET name == MessageName(Item) IN
       /\ doc' = [doc EXCEPT !.schemas = Put(@, SchemaName[name], MergedSchema),
                             !.channels[cur.channel].messages = @ \cup {name}]
       /\ cur' = [cur EXCEPT !.frame = @ + 1,
            !.sent = IF Item.direction = "send" THEN @ \cup {name} ELSE @,
            !.received = IF Item.direction = "receive" THEN @ \cup {name} ELSE @]
  /\ UNCHANGED <<saved, pc, todo, runs, outcome, start, input, observed>>

\* The frame does not merge: Enrich returns the error.
MessageRefused ==
  /\ pc = "frames" /\ cur.frame <= Len(Items(Session))
  /\ MergeRefuses(MergedSchema.shapes)
  /\ UNCHANGED <<saved, observed>>
  /\ Ends("refused")

\* The channel was read from a document that names none of its messages: its
\* map is nil, and writing to it panics.
MessagePanics ==
  /\ pc = "frames" /\ cur.frame <= Len(Items(Session))
  /\ ~MergeRefuses(MergedSchema.shapes)
  /\ Messages = Nil
  /\ UNCHANGED <<saved, observed>>
  /\ Ends("panicked")

(***************************************************************************)
(* ensureOperation. The plain direction is the key unless another          *)
(* channel's operation has it; then a key is made that nothing has, not    *)
(* even an earlier operation of this direction and channel. (Mutants: the   *)
(* plain key all the same, and a new key every time.)                      *)
(***************************************************************************)
OperationKeyPlain(ops, direction) == <<<<direction, Nil>>, 1>>
OperationKeyFresh(ops, direction) == UniqueKey(ops, <<direction, Nil>>)
OperationKey(ops, direction) ==
  LET plain == <<<<direction, Nil>>, 1>> IN
    IF plain \in DOMAIN ops /\ ops[plain].channel # cur.channel
      THEN UniqueKey(ops, <<direction, cur.server>>)
      ELSE plain

\* (The mutant forgets the messages an operation had.)
WithOperationAnew(ops, direction, names) ==
  IF names = {} THEN ops
  ELSE Put(ops, OperationKey(ops, direction),
           [action |-> direction, channel |-> cur.channel, messages |-> names])
WithOperation(ops, direction, names) ==
  LET key == OperationKey(ops, direction)
      had == IF key \in DOMAIN ops THEN ops[key]
             ELSE [action |-> direction, channel |-> cur.channel, messages |-> {}]
  IN  IF names = {} THEN ops
      ELSE Put(ops, key, [had EXCEPT !.messages = @ \cup names])

EnsureOperations ==
  /\ pc = "frames" /\ cur.frame > Len(Items(Session))
  /\ doc' = [doc EXCEPT !.operations =
       WithOperation(WithOperation(@, "send", cur.sent), "receive", cur.received)]
  /\ todo' = Tail(todo)
  /\ cur' = Idle
  /\ pc' = "server"
  /\ UNCHANGED <<saved, runs, outcome, start, input, observed>>

-----------------------------------------------------------------------------
\* What a session shows: who said what to whom, in which shape.
Shown(s) ==
  {[host |-> s.host, direction |-> Items(s)[i].direction, name |-> MessageName(Items(s)[i]),
    shape |-> Items(s)[i].payload.shape] : i \in DOMAIN Items(s)}

\* Writing and reading the document back drops an empty messages map.
ReloadedChannel(channel) == [channel EXCEPT !.messages = IF @ = {} THEN Nil ELSE @]
Reloaded(d) ==
  [d EXCEPT !.channels = [c \in DOMAIN d.channels |-> ReloadedChannel(d.channels[c])]]

\* The document is sorted, resolved and written.
Resolve ==
  /\ pc = "server" /\ todo = <<>>
  /\ saved' = Reloaded(doc)
  /\ observed' = observed \cup UNION {Shown(input[i]) : i \in DOMAIN input}
  /\ Ends("saved")

\* Around that things may fail: the examples do not decode as the protobuf message
\* a maintainer declared, the document does not reload, or it was valid when it
\* was loaded and now is not.
ResolveFails ==
  /\ pc = "server" /\ todo = <<>>
  /\ UNCHANGED <<saved, observed>>
  /\ Ends("refused")

Init ==
  /\ saved \in Starts
  /\ doc = saved
  /\ start = saved
  /\ pc = "idle"
  /\ todo = <<>>
  /\ input = <<>>
  /\ cur = Idle
  /\ runs = 0
  /\ outcome = "none"
  /\ observed = {}

NoMoreRuns == pc = "idle" /\ runs = MaxRuns /\ UNCHANGED vars

Next ==
  \/ \E ss \in Inputs : Begin(ss)
  \/ SessionRefused \/ FoundServer \/ NewServer \/ FoundChannel \/ NewChannel
  \/ EnsureMessage \/ MessageRefused \/ MessagePanics \/ EnsureOperations
  \/ Resolve \/ ResolveFails \/ NoMoreRuns

Spec == Init /\ [][Next]_vars

-----------------------------------------------------------------------------
\* A document: maps with finitely many keys, whose entries have these fields.
IsMap(m) == m = [k \in DOMAIN m |-> m[k]] /\ IsFiniteSet(DOMAIN m)
IsDocument(d) ==
  /\ d = [servers |-> d.servers, channels |-> d.channels, operations |-> d.operations,
          schemas |-> d.schemas, schemes |-> d.schemes]
  /\ IsMap(d.servers) /\ IsMap(d.channels) /\ IsMap(d.operations) /\ IsMap(d.schemas)
  /\ \A c \in DOMAIN d.channels : LET ch == d.channels[c] IN
       /\ ch = [servers |-> ch.servers, messages |-> ch.messages, ref |-> ch.ref]
       /\ ch.messages \in (SUBSET Names) \cup {Nil}
  /\ \A o \in DOMAIN d.operations : LET op == d.operations[o] IN
       op = [action |-> op.action, channel |-> op.channel, messages |-> op.messages]

\* Everything a document refers to is in it: the servers of a channel, the
\* channel of an operation, its messages among the channel's, and the schema of
\* each message.
Named(channel) == IF channel.messages = Nil THEN {} ELSE channel.messages
ServersKnown(d) ==
  \A c \in DOMAIN d.channels : d.channels[c].servers \subseteq DOMAIN d.servers
SchemasKnown(d) ==
  \A c \in DOMAIN d.channels : \A m \in Named(d.channels[c]) :
    SchemaName[m] \in DOMAIN d.schemas /\ m \in d.schemas[SchemaName[m]].from
OperationsKnown(d) ==
  \A o \in DOMAIN d.operations :
    /\ d.operations[o].channel \in DOMAIN d.channels
    /\ d.operations[o].messages \subseteq Named(d.channels[d.operations[o].channel])
SchemesKnown(d) ==
  \A k \in DOMAIN d.servers : d.servers[k].security \in d.schemes \cup {Nil}
Closed(d) == ServersKnown(d) /\ SchemasKnown(d) /\ OperationsKnown(d) /\ SchemesKnown(d)

ASSUME StartsAssumption == \A d \in Starts : IsDocument(d) /\ Closed(d)

\* Enrich leaves no reference for the reload to stumble over (enrich.go:68-87),
\* not even half way through a run.
NothingDangles == Closed(doc) /\ Closed(saved)

\* No server is added for a host that has one, and no channel for a server that
\* has one, however many sessions and runs name them and whatever keys they were
\* given (doc.go:30-31, 43-45). What is only a reference is not looked at.
ServersOnce(d) ==
  \A k \in DOMAIN d.servers, l \in DOMAIN d.servers \ DOMAIN start.servers :
    ~d.servers[k].ref /\ d.servers[k].host = d.servers[l].host => k = l
ChannelsOnce(d) ==
  \A c \in DOMAIN d.channels, e \in DOMAIN d.channels \ DOMAIN start.channels :
    ~d.channels[c].ref /\ d.channels[c].servers \cap d.channels[e].servers # {} => c = e
OneServerPerHost == ServersOnce(saved) /\ ChannelsOnce(saved)

\* The hosts an operation is about.
HostsOf(d, o) == {d.servers[k].host : k \in d.channels[d.operations[o].channel].servers}

\* The document describes the recordings it was enriched from, all of them and
\* nothing else: what was seen is a message of an operation of its direction on
\* its host, in every shape it was seen in; and what an operation lists was seen,
\* or was there before (doc.go:30-34; enrich.go:22-26).
DescribesRecordings ==
  /\ \A f \in observed :
       /\ \E o \in DOMAIN saved.operations :
            /\ saved.operations[o].action = f.direction
            /\ f.host \in HostsOf(saved, o)
            /\ f.name \in saved.operations[o].messages
       /\ f.shape \in saved.schemas[SchemaName[f.name]].shapes
  /\ \A o \in DOMAIN saved.operations : \A m \in saved.operations[o].messages :
       \/ o \in DOMAIN start.operations /\ m \in start.operations[o].messages
       \/ \E f \in observed :
            /\ f.name = m /\ f.direction = saved.operations[o].action
            /\ f.host \in HostsOf(saved, o)

\* e has all that d has, under the same keys.
Extended(d, e) ==
  /\ \A k \in DOMAIN d.servers : k \in DOMAIN e.servers /\ e.servers[k] = d.servers[k]
  /\ \A c \in DOMAIN d.channels :
       /\ c \in DOMAIN e.channels
       /\ e.channels[c].servers = d.channels[c].servers
       /\ Named(d.channels[c]) \subseteq Named(e.channels[c])
  /\ \A o \in DOMAIN d.operations :
       /\ o \in DOMAIN e.operations
       /\ e.operations[o].action = d.operations[o].action
       /\ e.operations[o].channel = d.operations[o].channel
       /\ d.operations[o].messages \subseteq e.operations[o].messages
  /\ \A n \in DOMAIN d.schemas :
       n \in DOMAIN e.schemas /\ d.schemas[n].shapes \subseteq e.schemas[n].shapes

\* A run extends the document on disk and takes nothing back: what was there is
\* still there under its key, a server with its host, an operation with its
\* action and channel (enrich.go:24-26). A run that fails changes nothing.
OnlyExtends == [][Extended(saved, saved')]_vars

\* Enriching again reaches the same document rather than drift (enrich_test.go:
\* 24-27): a channel never gets two operations of one direction.
OneOperation ==
  \A o, p \in DOMAIN saved.operations :
    /\ saved.operations[o].action = saved.operations[p].action
    /\ saved.operations[o].channel = saved.operations[p].channel
    => o = p

-----------------------------------------------------------------------------
\* enrich.go:24-26 "It is safe to call more than once, on more than one
\* recording": no run panics.
SafeToCallAgain == outcome # "panicked"

=============================================================================
