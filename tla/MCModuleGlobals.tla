-------------------------- MODULE MCModuleGlobals --------------------------
(* Two functions, three slots and a thread of the library. *)
EXTENDS ModuleGlobals, TLC

Symmetry == Permutations(Fun)
=============================================================================
