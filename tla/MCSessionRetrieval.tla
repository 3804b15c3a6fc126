------------------------ MODULE MCSessionRetrieval ------------------------
(* SessionRetrieval for TLC: a small window, a larger one and a profile whose *)
(* window is unknown.  A behaviour either has messages of no, few and many    *)
(* characters and makes no use of retrieval, or it has long messages only,    *)
(* and stores with an item that matches messages but no longer prompts, and a *)
(* sensitive one before the item that the prompts match.                      *)
EXTENDS SessionRetrieval, TLC

CONSTANTS small, large, unknown, key, note, fact

MCWindow == (small :> 20) @@ (large :> 40) @@ (unknown :> 0)
MCMatches == (key :> Text) @@ (note :> Text) @@ (fact :> {"asked", "message"})
MCPlans ==
  {[lengths |-> Lengths, exchanges |-> MaxExchanges, contents |-> {<<>>}, commands |-> 0],
   [lengths |-> {20}, exchanges |-> 2, commands |-> 3,
    contents |-> {<<>>, <<fact, key, note>>}]}
============================================================================
