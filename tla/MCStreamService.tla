--------------------------- MODULE MCStreamService ---------------------------
(* Tickers are created one after the other and are alike until then. *)
EXTENDS StreamService, TLC

CONSTANTS c1, c2, t1, t2, t3

TickerSymmetry == Permutations(Tickers)
=============================================================================
