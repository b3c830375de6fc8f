------------------------------ MODULE MaskProps -----------------------------
(***************************************************************************)
(* What Masker.Value returns, said of the payload as a whole: by how deep  *)
(* each token lies and which place it has in its bracket, with no machine  *)
(* and no stack.                                                           *)
(***************************************************************************)
EXTENDS MaskTokens

\* The names of credentials, and the tokens of the value each stands before.
Secret(ts, j) == ts[j].kind = "str" /\ IsNamePlace(ts, j) /\ Covered(ts[j].text)
Secrets(ts) == {j \in DOMAIN ts : Secret(ts, j)}
Value(ts, j) ==
  LET d == Depth(ts, j) IN
  {l \in (j + 1)..Len(ts) : \A m \in (j + 2)..l : Depth(ts, m) > d}
Hidden(ts) == UNION {Value(ts, j) : j \in Secrets(ts)}

\* What is written: what is not hidden, and in place of each secret, unless it
\* is part of another, the replacement.
Written(ts, hidden) ==
  (DOMAIN ts \ hidden) \cup {j + 1 : j \in Secrets(ts) \ hidden}
Image(ts, hidden, i) == IF i \in hidden THEN Token("str", Replacement) ELSE ts[i]
MaskedTokens(ts) ==
  LET hidden  == Hidden(ts)
      written == Written(ts, hidden)
  IN  [k \in 1..Cardinality(written) |-> Image(ts, hidden, Nth(written, k))]

HasBad(ts) == \E i \in DOMAIN ts : ts[i].kind = "bad"

\* Value returns the payload with the value of every covered member replaced, at
\* any depth, all else kept in order (mask.go:155-159), and no other token is
\* written on the way; it returns an error, and nothing, just when the payload
\* cannot be read.
MaskIsExact ==
  LET masked == MaskedTokens(input) IN
  /\ masking \in {"reading", "done"} =>
       Len(out) <= Len(masked) /\ \A k \in DOMAIN out : out[k] = masked[k]
  /\ masking = "done" => Len(out) = Len(masked) /\ ~HasBad(input)
  /\ masking = "failed" => out = <<>> /\ HasBad(input)

=============================================================================
