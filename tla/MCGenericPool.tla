----------------------------- MODULE MCGenericPool -----------------------------
(* An instance of GenericPool for TLC: goroutines of one kind are alike. *)
EXTENDS GenericPool, TLC

Alike == Permutations(Getters \ Closers) \cup Permutations(Closers)
=============================================================================
