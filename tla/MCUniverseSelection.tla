------------------------ MODULE MCUniverseSelection ------------------------
(***************************************************************************)
(* A watchlist of two symbols, of which the table has the first one,       *)
(* inactive, or none; two dumps with the tokens exchanged, one of them     *)
(* with a damaged item.  The pool has both symbols, one with a special     *)
(* character, one of another exchange, a malformed entry and a repetition. *)
(* A session lacks its first candle, another one a candle in between; both *)
(* may arrive late.  The third goes stale, or gets a gap.                  *)
(***************************************************************************)
EXTENDS UniverseSelection, TLC

CONSTANTS q1, q2, u1, u2

P(exchange, name) == [colons |-> 1, exchange |-> exchange, name |-> name]
Text(name) == [colons |-> 0, exchange |-> "", name |-> name]
E(exchange, name) == <<P(exchange, name)>>
K(name) == <<"NSE", name>>
Listed(name, n) == [key |-> K(name), token |-> n, bad |-> FALSE]

MCConfigured == <<E("NSE", 1), E("NSE", 2)>>

\* NSE:1,  NSE:1,2  NSE:1,NSE:2  ,NSE:1  ,  NSE:,  2,NSE:1
CommaLines == {<<P("NSE", 1), Text(0)>>, <<P("NSE", 1), Text(2)>>, <<P("NSE", 1), P("NSE", 2)>>,
               <<Text(0), P("NSE", 1)>>, <<Text(0), Text(0)>>, <<P("NSE", 0), Text(0)>>,
               <<Text(2), P("NSE", 1)>>}
OddLines == {E("NSE", 0), E("", 1), E("BSE", 1), <<Text(1)>>, <<[P("NSE", 5) EXCEPT !.colons = 2]>>}
PlainLines == {E("NSE", 1), E("NSE", 2)}
MCWatchlists ==
    UNION {[1 .. n -> PlainLines \cup OddLines \cup CommaLines] : n \in 0 .. 2}
    \cup [1 .. 3 -> PlainLines \cup {<<P("NSE", 1), Text(0)>>, <<Text(0), Text(0)>>}]
MCDumps == {<<Listed(1, 7), Listed(3, 9), Listed(2, 8)>>,
            <<Listed(2, 7), Listed(1, 8)>>,
            <<[Listed(1, 7) EXCEPT !.bad = TRUE], Listed(2, 8)>>}
MCTables == {K(3) :> [token |-> 9, active |-> TRUE],
             K(1) :> [token |-> 7, active |-> FALSE] @@ K(3) :> [token |-> 9, active |-> TRUE],
             K(1) :> [token |-> 7, active |-> TRUE] @@ K(2) :> [token |-> 8, active |-> TRUE]
                @@ K(3) :> [token |-> 9, active |-> TRUE]}
MCPool == <<E("NSE", 2), E("NSE", 1), E("NSE", 3), E("BSE", 1), E("", 1), E("NSE", 2)>>
Select(limit, dry, full, current, policy) ==
    [limit |-> limit, dry |-> dry, full |-> full, current |-> current, policy |-> policy]
MCParams == {Select(1, FALSE, TRUE, TRUE, "exclude"), Select(2, FALSE, TRUE, FALSE, "warn"),
             Select(1, FALSE, FALSE, FALSE, "warn"), Select(2, TRUE, TRUE, TRUE, "ignore")}
MCMarkets == {[price |-> "ok", turnover |-> "ok", atr |-> "ok", points |-> 2],
              [price |-> "low", turnover |-> "ok", atr |-> "none", points |-> 1]}
MCInitialCandles == {<<K(1), 2>>, <<K(1), 3>>, <<K(2), 1>>, <<K(2), 3>>, <<K(3), 1>>, <<K(3), 2>>}
MCFeed == {<<K(1), 1>>, <<K(2), 2>>, <<K(3), 4>>}
RequestSymmetry == Permutations(Requests) \cup Permutations(Selectors)
=============================================================================
