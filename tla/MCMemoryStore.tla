--------------------------- MODULE MCMemoryStore ---------------------------
(* MemoryStore for TLC: two processes, two memories, two texts, and one      *)
(* memory in the old table.                                                  *)
EXTENDS MemoryStore, TLC

CONSTANTS p1, p2, a, b, t, u

MCOldRows == (a :> t) @@ (b :> Gone)

Symmetry == Permutations({p1, p2})
============================================================================
