-------------------------------- MODULE Ranks -------------------------------
(***************************************************************************)
(* The k-th smallest element of a set of positions. What filters a         *)
(* sequence, or cuts one into parts, is defined through ranks and not      *)
(* through a recursion, so that facts about it can be proved (RanksProofs).*)
(***************************************************************************)
EXTENDS Integers, FiniteSets

Rank(S, i) == Cardinality({j \in S : j <= i})
Nth(S, k) == CHOOSE i \in S : Rank(S, i) = k

=============================================================================
