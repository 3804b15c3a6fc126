------------------------ MODULE MCInteractiveSession ------------------------
(* InteractiveSession for TLC: a small window, a larger one and a profile    *)
(* whose window is unknown; messages of no, few and many characters.         *)
EXTENDS InteractiveSession, TLC

CONSTANTS small, large, unknown

MCWindow == (small :> 20) @@ (large :> 40) @@ (unknown :> 0)
============================================================================
