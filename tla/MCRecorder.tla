----------------------------- MODULE MCRecorder -----------------------------
(***************************************************************************)
(* Small instances of Recorder for TLC.                                    *)
(***************************************************************************)
EXTENDS RecorderProps

CONSTANTS trade, stars

MCKinds == {trade, stars}

JSON(k, x) == [form |-> "json", kind |-> k, secret |-> x]
Odd(f) == [form |-> f, kind |-> Nil, secret |-> "none"]

\* Authored frames, a frame of an earlier run, and frames no session may have.
Subscribe == SendFrame(JSON(Nil, "clear"))
Hello == SendFrame(JSON(Nil, "none"))
Had == ReceiveFrame(1, JSON(trade, "none"))
HadStars == ReceiveFrame(1, JSON(stars, "none"))
Neither == [at |-> 0, send |-> Nil, receive |-> Nil]
Both == [at |-> 1, send |-> JSON(Nil, "none"), receive |-> JSON(trade, "none")]
Refused == SendFrame(Odd("lax"))

OnlySubscribe == {<<Subscribe>>}
SomeFrames == {<<Subscribe>>, <<Hello, HadStars, Subscribe>>}
AnyFrames == {<<>>, <<Subscribe>>, <<Had>>, <<Hello, Had, Subscribe, Had>>,
              <<Had, Hello, Refused, Subscribe>>, <<Neither>>, <<Hello, Both>>}

Bye == JSON(Nil, "clear")
FirstUnsubscribes == [s \in Sess |-> IF s = 1 THEN Bye ELSE Nil]
NobodyUnsubscribes == [s \in Sess |-> Nil]

\* n messages, and as many of each kind as K says.
Cond(n, K) == [timeout |-> 1, messages |-> n, discriminator |-> TRUE,
               kinds |-> [k \in Kinds |-> IF k = trade THEN K ELSE Nil]]
OneCondition == {Cond(1, 1)}
AnyCondition ==
  {Cond(n, K) : n \in {-1, 0, 2}, K \in {Nil, -1, 0, 1, 2}}
    \cup {Nil, [Cond(1, 1) EXCEPT !.timeout = 0], [Cond(1, 1) EXCEPT !.discriminator = FALSE],
          [Cond(2, Nil) EXCEPT !.discriminator = FALSE]}

SomeMessages == {JSON(trade, "clear"), Odd("text")}
AnyMessages == {JSON(k, x) : k \in {trade, Nil}, x \in {"none", "clear"}}
                 \cup {Odd(f) : f \in {"lax", "text", "badtext", "binary"}}

=============================================================================
