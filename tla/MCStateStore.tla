---------------------------- MODULE MCStateStore ----------------------------
(* Naming functions and symmetry for StateStore. *)
EXTENDS StateStore, TLC

\* Every session has a file of its own.
MCOwnName == [id \in Ids |-> id]

\* Ids such as "x/y" and "x_y": one file for all.
MCOneName == [id \in Ids |-> CHOOSE n \in Names : TRUE]

\* Sound with MCOwnName only.
Symmetry == Permutations(Processes) \cup Permutations(Ids)

=============================================================================
