----------------------------- MODULE MCToolLoop -----------------------------
(* ToolLoop for TLC: a free tool, one that needs approval, the exempt one    *)
(* with a single call per run, a blocked one and a name no tool has.         *)
EXTENDS ToolLoop, TLC

CONSTANTS search, add, check, marked, stranger

MCMaxCalls == (search :> 2) @@ (add :> 1) @@ (check :> 1) @@ (marked :> 2)
MCApprovals == {{}, {add}}
============================================================================
