------------------------- MODULE MCClientLifecycle -------------------------
EXTENDS ClientLifecycle, TLC

(* Handles are interchangeable addresses, objects interchangeable slots. *)
Symmetry == Permutations(Handle) \cup Permutations(Object) \cup Permutations(Alias)

=============================================================================
