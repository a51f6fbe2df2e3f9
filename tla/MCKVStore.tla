----------------------------- MODULE MCKVStore -----------------------------
(* Symmetry for KVStore. *)
EXTENDS KVStore, TLC

Symmetry == Permutations(Ids) \cup Permutations(Blobs) \cup Permutations(Models)

=============================================================================
