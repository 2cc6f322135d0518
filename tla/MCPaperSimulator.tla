-------------------------- MODULE MCPaperSimulator --------------------------
EXTENDS PaperReplay

-----------------------------------------------------------------------------
(* Instance: a 6-minute day, IST two minutes ahead, force-flat at minute 4  *)
(* of the IST day.  Bars at 4..7 precede force-flat, 8 is at it, 3 belongs  *)
(* to the previous IST day and 10 to the next.  With close 4 the entry is   *)
(* 4, the stop 3, the target 6; close 6 with a 25 percent buffer rounds 7.5 *)
(* up to 8.                                                                 *)
MCSignal == [t |-> 4, contextOk |-> TRUE]
MCTimes == {3, 4, 5, 6, 7, 8, 10}
MCShapes ==
    {[low |-> l[1], high |-> l[2], close |-> l[3]] :
        l \in {<<4, 4, 4>>, <<3, 4, 4>>, <<3, 8, 5>>, <<5, 6, 6>>, <<1, 2, 2>>}}
MCBase == [entryBuffer |-> 0, stopPct |-> 1, targetR |-> 8,
           quantity |-> 2, forceFlat |-> 4, cost |-> 1]
MCConfigs ==
    {MCBase,
     [MCBase EXCEPT !.entryBuffer = 1, !.targetR = 4],
     [MCBase EXCEPT !.stopPct = 0],
     [MCBase EXCEPT !.quantity = 0]}
=============================================================================
