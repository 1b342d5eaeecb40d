---------------------------- MODULE MCLruCache ----------------------------
(* The cache alone, for the run in which memory is short. *)
EXTENDS LruCache

CONSTANTS k1, k2, k3, k4

MCHashOf == [k \in {k1, k2, k3, k4} |-> IF k \in {k1, k2} THEN 0 ELSE 1]

\* lookup_cache and xinode_cache, securid_cache: those with a variable part.
LookupKind == [hashed |-> TRUE, var |-> TRUE, dofree |-> FALSE]
SecuridKind == [hashed |-> FALSE, var |-> TRUE, dofree |-> FALSE]
VarKinds == {LookupKind, SecuridKind}
============================================================================
