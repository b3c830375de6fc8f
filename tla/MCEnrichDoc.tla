----------------------------- MODULE MCEnrichDoc ----------------------------
(***************************************************************************)
(* Small instances of EnrichDoc for TLC.                                   *)
(***************************************************************************)
EXTENDS EnrichDoc, TLC

CONSTANTS dotted, dashed, host, trade, Trade, subscribe, token, apiKey, prod, shared, feed, alerts

MCHosts == {dotted, dashed}
MCHostKey == [h \in MCHosts |-> host]
MCNames == Direction \cup {trade, Trade, subscribe}
MCSchemaName == [n \in MCNames |-> IF n = Trade THEN trade ELSE n]

Typed(n, x) == [type |-> n, soleKey |-> Nil, shape |-> x]
Wrapped(n) == [type |-> Nil, soleKey |-> n, shape |-> "object"]
Plain(x) == [type |-> Nil, soleKey |-> Nil, shape |-> x]
Sent(p) == [direction |-> "send", payload |-> p]
Got(p) == [direction |-> "receive", payload |-> p]

Sess(h, ps, fs, u) == [host |-> h, params |-> ps, frames |-> fs, unsubscribe |-> u]

Trades(h) == Sess(h, <<>>, <<Sent(Wrapped(subscribe)), Got(Typed(trade, "object"))>>, Nil)
Farewell(h) == Sess(h, <<token, apiKey>>, <<Got(Typed(Trade, "object"))>>, Wrapped(subscribe))
Rows(h) == Sess(h, <<>>, <<Got(Plain("array")), Got(Plain("scalar"))>>, Nil)
Objects(h) == Sess(h, <<>>, <<Got(Plain("object"))>>, Nil)
Silent(h) == Sess(h, <<>>, <<>>, Nil)

FromScratch == {Empty}

\* A document somebody wrote: its own keys, a server and a channel that are
\* references, two channels on one server, one of them without messages, and an
\* operation that has the plain name.
Prod == <<prod, 1>>
Shared == <<shared, 1>>
Feed == <<feed, 1>>
Alerts == <<alerts, 1>>
ByHand ==
  {[servers |-> (Prod :> [host |-> dotted, ref |-> FALSE, security |-> Nil])
                @@ (Shared :> [host |-> dashed, ref |-> TRUE, security |-> Nil]),
    channels |-> (Feed :> [servers |-> {Prod}, messages |-> {trade}, ref |-> FALSE])
                 @@ (Alerts :> [servers |-> {Prod, Shared}, messages |-> Nil, ref |-> FALSE])
                 @@ (Shared :> [servers |-> {Prod}, messages |-> Nil, ref |-> TRUE]),
    operations |-> (<<<<"send", Nil>>, 1>> :>
                      [action |-> "send", channel |-> Alerts, messages |-> {}]),
    schemas |-> (trade :> [shapes |-> {"object"}, from |-> {trade}]),
    schemes |-> {}]}

\* From scratch, and from a maintainer's document.
AnyStart == FromScratch \cup ByHand

Pool == {Trades(dotted), Farewell(dotted), Rows(dotted), Objects(dotted),
         Trades(dashed), Rows(dashed), Silent(dashed)}
AllInputs == {<<x>> : x \in Pool} \cup {<<x, y>> : x, y \in Pool}
TwoHostInputs == {<<Trades(dotted), Trades(dashed)>>}
SilentInputs == {<<Silent(dotted)>>, <<Trades(dotted)>>}

=============================================================================
