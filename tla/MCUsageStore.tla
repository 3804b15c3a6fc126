---------------------------- MODULE MCUsageStore ----------------------------
(* UsageStore for TLC: two days, two projects, two sessions.                 *)
EXTENDS UsageStore, TLC

CONSTANTS o1, o2, m1, g1, s1, s2

Symmetry == Permutations({o1, o2}) \cup Permutations({s1, s2})

MCDayOf == (1 :> 1) @@ (2 :> 1) @@ (3 :> 2)
============================================================================
