------------------------------- MODULE Usage -------------------------------
(***************************************************************************)
(* What the accounting of models.yaml and the usage database have in       *)
(* common: the tokens an answer may report and the cost nobody knows.      *)
(***************************************************************************)
EXTENDS Naturals

CONSTANTS
  TokenCounts, \* tokens an answer may report
  Unknown      \* an unknown price or cost: None in the code, NULL in the database

ASSUME UsageAssumption ==
  /\ TokenCounts \subseteq Nat
  /\ Unknown \notin Nat
============================================================================
