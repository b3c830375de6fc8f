--------------------------- MODULE MCRecordCommand --------------------------
(***************************************************************************)
(* Small instances of RecordCommand for TLC.                               *)
(***************************************************************************)
EXTENDS RecordCommand

CONSTANTS trade, stars

JSON(k, x) == [form |-> "json", kind |-> k, secret |-> x]

Subscribe == SendFrame(JSON(Nil, "clear"))
Hello == SendFrame(JSON(Nil, "none"))
Bye == JSON(Nil, "none")

LastUnsubscribes == [s \in Sess |-> IF s = NSessions THEN Bye ELSE Nil]
OneAuthored == {<<Subscribe>>}
Had == ReceiveFrame(1, JSON(trade, "none"))
TwoAuthored == {<<Subscribe, Hello>>, <<Subscribe, Had, Hello>>}

\* n messages, and one of each kind of K.
Cond(n, K) == [timeout |-> 1, messages |-> n, discriminator |-> TRUE,
               kinds |-> [k \in Kinds |-> IF k \in K THEN 1 ELSE Nil]]
OneCondition == {Cond(2, {trade})}
TwoConditions == {Cond(1, {trade}), Cond(2, {})}

MCKinds == {trade, stars}
OneMessage == {JSON(trade, "clear")}
TwoMessages == {JSON(trade, "clear"), JSON(Nil, "none")}

=============================================================================
