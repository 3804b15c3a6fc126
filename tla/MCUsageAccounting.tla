------------------------- MODULE MCUsageAccounting -------------------------
(* UsageAccounting for TLC: two processes; a priced profile, one of unknown *)
(* price and a disabled one.                                               *)
EXTENDS UsageAccounting, TLC

CONSTANTS p1, p2, paid, unpriced, off

MCPrice == (paid :> 3) @@ (unpriced :> Unknown) @@ (off :> 0)

Symmetry == Permutations(Proc)
============================================================================
