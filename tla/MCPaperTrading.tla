--------------------------- MODULE MCPaperTrading ---------------------------
(***************************************************************************)
(* Three candidate signals on the bar of minute 4, of which a replay takes *)
(* the first two that are stored; the cap at one trade a day; two workers  *)
(* in PAPER mode and one in SHADOW mode.  The bar of minute 5 fills the    *)
(* entry and the bar of minute 6 stops the trade out, so a replay before   *)
(* each bar sees NO_FILL, DATA_ENDED and a final exit; another bar of      *)
(* minute 6, stored before or after it, overwrites it.                     *)
(***************************************************************************)
EXTENDS PaperReport

CONSTANTS w1, w2, w3, S

MCSettings ==
    [w \in Workers |-> [enabled |-> TRUE,
                        mode |-> IF w = w3 THEN "SHADOW" ELSE "PAPER"]]

MCConfig == [entryBuffer |-> 0, stopPct |-> 1, targetR |-> 8,
             quantity |-> 1, forceFlat |-> 4, cost |-> 1]

MCSignalRow ==
    [s \in SignalIds |-> [symbol |-> S, t |-> 4, contextOk |-> TRUE, candidate |-> TRUE]]

MCCandleRows ==
    {[symbol |-> S, t |-> r[1], low |-> r[2], high |-> r[3], close |-> r[4]] :
        r \in {<<4, 4, 4, 4>>, <<5, 4, 4, 4>>, <<6, 3, 4, 4>>, <<6, 4, 4, 4>>}}

MCInputs == {[symbol |-> S, start |-> 4, end |-> NoTime, limit |-> 2]}
=============================================================================
