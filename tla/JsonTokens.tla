----------------------------- MODULE JsonTokens -----------------------------
(***************************************************************************)
(* JSON as jsontext reads it, token by token, and the member names whose   *)
(* values are credentials (mask.go).                                       *)
(***************************************************************************)
EXTENDS Integers, Sequences, Ranks

CONSTANTS
  Replacement,         \* the text "***"
  NormalizeFieldName,  \* the member names, each with its normal form
  DefaultMaskedFields, \* normal forms every masker covers
  ExtraNames           \* names the recorder's caller adds

\* A token is its kind and, for a string or a number, its text. "bad" stands
\* where ReadToken fails: at the second of two equal member names, or at text
\* that is not UTF-8, which is all that can be wrong with a payload the
\* recorder has compacted (Frames).
Token(kind, text) == [kind |-> kind, text |-> text]
Openers == {"{", "["}
Closers == {"}", "]"}
Scalars == {"str", "num", "bool", "null"}

OpenPositions(ts) == {i \in DOMAIN ts : ts[i].kind \in Openers}
ClosePositions(ts) == {i \in DOMAIN ts : ts[i].kind \in Closers}
\* How many brackets are open before the i-th token.
Depth(ts, i) == Rank(OpenPositions(ts), i - 1) - Rank(ClosePositions(ts), i - 1)

\* The decoder's SkipValue: the value at i ends where its brackets balance.
Balanced(ts, i, j) == Depth(ts, j + 1) = Depth(ts, i)
ValueEnd(ts, i) ==
  CHOOSE j \in i..Len(ts) : Balanced(ts, i, j) /\ \A l \in i..(j - 1) : ~Balanced(ts, i, l)

-----------------------------------------------------------------------------
\* The tokens that stand in the bracket at i and in none within it: the first
\* token of each of its names and values, and the bracket that closes it.
Inside(ts, i) ==
  LET d == Depth(ts, i) IN
  {j \in (i + 1)..Len(ts) : /\ Depth(ts, j) = d + 1
                            /\ \A l \in (i + 1)..j : Depth(ts, l) > d}
Place(ts, i, j) == Rank(Inside(ts, i), j - 1)

Objects(ts) == {i \in DOMAIN ts : ts[i].kind = "{"}
IsNamePlace(ts, j) == \E i \in Objects(ts) : j \in Inside(ts, i) /\ Place(ts, i, j) % 2 = 0

\* JSON as the decoder lets it through: brackets balance, and in an object names
\* and values take turns.
IsJson(ts) ==
  /\ ts \in Seq({ts[i] : i \in DOMAIN ts})
  /\ \A j \in ClosePositions(ts) : Depth(ts, j) > 0
  /\ Depth(ts, Len(ts) + 1) = 0
  /\ \A i \in Objects(ts) : \A j \in Inside(ts, i) :
       IF Place(ts, i, j) % 2 = 0 THEN ts[j].kind \in {"str", "bad"} \cup Closers
       ELSE ts[j].kind \notin Closers

-----------------------------------------------------------------------------
\* NewMasker(extra...)
NewMasker(extra) ==
  DefaultMaskedFields \cup ({NormalizeFieldName[x] : x \in extra} \ {""})

Masks(fields, name) == NormalizeFieldName[name] \in fields

=============================================================================
