---------------------------- MODULE MCSddChange ----------------------------
(* SddChange for TLC: two processes, two templates, the first two phases, one *)
(* more and the last.                                                        *)
EXTENDS SddChange, TLC

CONSTANTS p1, p2, proposal, design

MCTemplates == <<proposal, design>>
MCPhases == <<"init", "explore", "archive">>

Symmetry == Permutations(Proc)
============================================================================
