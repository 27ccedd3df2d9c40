----------------------------- MODULE MCPolicies -----------------------------
(* Instances of Policies: every option alone, and the options that compete  *)
(* for one field in pairs, used by two objects that share a handle.         *)
EXTENDS Policies, TLC

AllNames == UNION {Field[k] : k \in Kind} \cup {"read_timeout", "write_timeout"}
Competing == {"read_timeout", "write_timeout", "total_timeout"}
Pairs == {{m, n} : m, n \in Competing}
AloneAndInPairs == {{}} \cup {{n} : n \in AllNames} \cup Pairs
Symmetry == Permutations(Client)
=============================================================================
