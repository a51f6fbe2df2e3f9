--------------------------- MODULE MCCoordinator ----------------------------
(***************************************************************************)
(* Agents share a window a few calls wide.                                 *)
(***************************************************************************)
EXTENDS Coordinator, TLC

MCNeeds == {1, 2}

MCLargeNeeds == {3, 6}

MCPriorities == {0, 1}

Symmetry == Permutations(Agents)

=============================================================================
