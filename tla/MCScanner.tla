----------------------------- MODULE MCScanner -----------------------------
(***************************************************************************)
(* Days of four minutes.  The benchmark s1 has a candle of the day before  *)
(* and one before the open; of its session minute 5 comes after minute 6.  *)
(* s2 has one minute of its session, stale at minute 8.                    *)
(***************************************************************************)
EXTENDS Scanner, TLC

CONSTANTS s1, s2, l1, l2, o1

MCStrategies == <<"orb", "vwap">>
MCInitialCandles == {<<s1, 3>>, <<s1, 4>>, <<s1, 6>>, <<s2, 3>>, <<s2, 5>>}
MCFeed == {<<s1, 5>>}
LoopSymmetry == Permutations(Loops)
MCSelections == {<<>>, <<s1, s2, s1>>}
=============================================================================
