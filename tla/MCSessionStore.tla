--------------------------- MODULE MCSessionStore ---------------------------
(* Three requests over two ids. *)
EXTENDS SessionStore, TLC

Symmetry == Permutations(Request) \cup Permutations(Sid)
=============================================================================
