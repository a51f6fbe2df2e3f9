---------------------------- MODULE TokenTotals -----------------------------
(***************************************************************************)
(* Sums of token counts, over agents or messages.  A sum is the size of a  *)
(* set of tokens, one element for each token one of them holds, so that    *)
(* facts about finite sets are facts about sums.                           *)
(***************************************************************************)
EXTENDS Integers, FiniteSets

TokensOf(f, S) == UNION {{a} \X (1 .. f[a]) : a \in S}

\* The sum of f over S.
Total(f, S) == Cardinality(TokensOf(f, S))

=============================================================================
