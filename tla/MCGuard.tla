------------------------------ MODULE MCGuard -------------------------------
(***************************************************************************)
(* The gate on a window of 50 tokens and 3 requests: a ping is 2% of the   *)
(* window, the share the 98% rule is there for.                            *)
(***************************************************************************)
EXTENDS Guard

MCNeeds == {1, 24, 48, 49, 50}

MCCosts == {1, 24, 47}

MCPauses == {0, 50}

=============================================================================
