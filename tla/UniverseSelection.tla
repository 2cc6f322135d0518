------------------------- MODULE UniverseSelection -------------------------
(***************************************************************************)
(* Universe selection (backend/app/universe/service.py, validation.py,     *)
(* scoring.py and repository.py) over the instruments that syncs store and *)
(* the candles that the stream stores meanwhile.                           *)
(*                                                                         *)
(* A selection takes the time, validates its pool, loads and scores one    *)
(* symbol after the other and stores a run.  Of the indicators only what   *)
(* the exclusions and the ranking use is kept: a market is the side of its *)
(* limits on which a price, a turnover and an ATR are, and a score.        *)
(***************************************************************************)
EXTENDS InstrumentSync, CandleSessions

CONSTANTS
    Selectors,         \* tasks that select: calls of the route and the scheduler's job
    Pool,              \* the entries of the universe pool, lines of one part
    SpecialNames,      \* names with special characters
    ExcludeSpecial, RequireActive, RequireContinuity, StoreRuns, \* UNIVERSE_SELECTION_ settings
    MinCandles, StaleAfter,
    Params,            \* parameters of a request: [limit, dry, full, current, policy]
    Markets,           \* [price, turnover, atr, points]
    InitialCandles,    \* set of <<key, minute>>
    Feed,              \* candles that may still be stored
    FirstNow, MaxNow   \* bounds: the first and the last minute of the clock

ASSUME UniverseAssumption ==
    /\ Pool \in Seq(Line) /\ (\A i \in DOMAIN Pool : Len(Pool[i]) = 1) /\ SpecialNames \subseteq Nat
    /\ {ExcludeSpecial, RequireActive, RequireContinuity, StoreRuns} \subseteq BOOLEAN
    /\ MinCandles \in Nat \ {0} /\ StaleAfter \in Nat
    /\ Params \subseteq [limit : Nat \ {0}, dry : BOOLEAN, full : BOOLEAN, current : BOOLEAN,
                         policy : {"exclude", "warn", "ignore"}]
    /\ Markets \subseteq [price : {"low", "ok", "high"}, turnover : {"low", "ok"},
                          atr : {"none", "low", "ok", "high"}, points : Nat]
    /\ InitialCandles \cup Feed \subseteq (STRING \X Nat) \X Nat /\ IsFiniteSet(InitialCandles)
    /\ MaxNow \in Nat /\ FirstNow \in 0 .. MaxNow

VARIABLES
    now,        \* the clock, in minutes
    candles,    \* set of <<key, minute>>: the completed candles
    sel,        \* [Selectors -> Selection]: what each selection has done
    runs        \* universe_selection_runs

selVars == <<now, candles, sel, runs>>
vars == <<syncVars, selVars>>

-----------------------------------------------------------------------------
(* UniversePoolValidationService.validate. *)

PoolKeys == Keys(Pool, Parsed(Pool))
NonNseKeys == Keys(Pool, NonNse(Pool))
SpecialKeys == {k \in PoolKeys : k[2] \in SpecialNames}
InvalidEntries == {<<"invalid", i>> : i \in DOMAIN Pool \ Parsed(Pool)}

SyntacticallyEligible ==
    PoolKeys \ (NonNseKeys \cup (IF ExcludeSpecial THEN SpecialKeys ELSE {}))

PoolMissing == SyntacticallyEligible \ DOMAIN instruments
PoolInactive == {k \in SyntacticallyEligible \cap DOMAIN instruments : ~instruments[k].active}

EligibleForScoring ==
    SyntacticallyEligible \ (PoolMissing \cup (IF RequireActive THEN PoolInactive ELSE {}))

\* Mutant: what the settings exclude is not reported.
InstrumentExclusions == PoolMissing \cup PoolInactive

\* _validation_exclusions: whatever the settings, so that a symbol that they admit
\* despite its name or its row is reported as excluded and scored as well.
ValidationExclusions ==
    PoolMissing \cup PoolInactive \cup SpecialKeys \cup NonNseKeys \cup InvalidEntries

\* The symbols are scored in the order of the pool.
Position(k) == CHOOSE i \in DOMAIN Pool :
                  Key(Pool[i]) = k /\ \A j \in 1 .. i - 1 : Key(Pool[j]) # k
FirstOf(S) == CHOOSE k \in S : \A l \in S : Position(k) <= Position(l)

-----------------------------------------------------------------------------
(* score_symbol. *)

LoadCompletedBars(k) == {c[2] : c \in {d \in candles : d[1] = k}}

Stale(bars, started) == bars # {} /\ started > Latest(bars) + 2 + StaleAfter

\* Mutant: a session may begin at any minute.
WithoutStart(bars, p, started) ==
    LET current == CurrentSession(bars)
    IN  If(Cardinality(current) < MinCandles, "insufficient_candles")
        \cup If(RequireContinuity /\ ~CandleContinuityOk(current), "continuity")
        \cup If(Stale(bars, started) /\ p.policy = "exclude", "stale")

BarExclusions(bars, p, started) ==
    LET current == CurrentSession(bars)
        scoring == IF p.current THEN current ELSE TrailingBars(bars)
    IN  If(Cardinality(scoring) < MinCandles, "insufficient_candles")
        \cup If(p.current /\ ~SessionStartAvailable(current), "session_start_missing")
        \cup If(RequireContinuity /\ ~CandleContinuityOk(current), "continuity")
        \cup If(Stale(bars, started) /\ p.policy = "exclude", "stale")

\* An ATR that is not available is a warning.
MarketExclusions(m) ==
    If(m.price = "low", "price_below_min") \cup If(m.price = "high", "price_above_max")
    \cup If(m.turnover = "low", "turnover_below_min")
    \cup If(m.atr = "low", "atr_below_min") \cup If(m.atr = "high", "atr_above_max")

\* A symbol without candles has no market; its score counts once nothing excludes it.
ScoreSymbol(k, p, started, m) ==
    LET bars == LoadCompletedBars(k)
        exclusions == BarExclusions(bars, p, started)
                      \cup (IF bars = {} THEN {} ELSE MarketExclusions(m))
    IN  [symbol |-> k, included |-> exclusions = {},
         score |-> IF exclusions = {} THEN m.points ELSE 0]

-----------------------------------------------------------------------------
(* UniverseSelectionService.select. *)

NoSel == [pc |-> "idle", params |-> [limit |-> 1, dry |-> TRUE, full |-> TRUE, current |-> TRUE,
          policy |-> "exclude"], started |-> 0, todo |-> {}, results |-> {}, invalid |-> {}]

\* Up to the validation.
SelectBegin(q, p) ==
    /\ sel[q].pc = "idle" /\ begun < MaxBegun
    /\ begun' = begun + 1
    /\ sel' = [sel EXCEPT ![q] = [pc |-> "score", params |-> p, started |-> now,
                                  todo |-> EligibleForScoring, results |-> {},
                                  invalid |-> ValidationExclusions]]
    /\ UNCHANGED <<instruments, sync, now, candles, runs>>

Score(q, m) ==
    /\ sel[q].pc = "score" /\ sel[q].todo # {}
    /\ LET k == FirstOf(sel[q].todo)
       IN  sel' = [sel EXCEPT ![q].todo = @ \ {k},
                              ![q].results = @ \cup {ScoreSymbol(k, sel[q].params, sel[q].started, m)}]
    /\ UNCHANGED <<syncVars, now, candles, runs>>

\* Sorted by score and then by symbol.
Rank(included, r) ==
    1 + Cardinality({o \in included : \/ o.score > r.score
                                      \/ o.score = r.score /\ o.symbol[2] < r.symbol[2]})

\* Ranking, choice and the run; without include_excluded it lists no exclusions.
Run(s) ==
    LET included == {r \in s.results : r.included}
        symbols(S) == {r.symbol : r \in S}
    IN  [started |-> s.started, params |-> s.params,
         selected |-> symbols({r \in included : Rank(included, r) <= s.params.limit}),
         ranked |-> symbols(included),
         excluded |-> IF s.params.full THEN s.invalid \cup symbols(s.results \ included) ELSE {}]

Save(q) ==
    /\ sel[q].pc = "score" /\ sel[q].todo = {}
    /\ runs' = IF StoreRuns /\ ~sel[q].params.dry THEN Append(runs, Run(sel[q])) ELSE runs
    /\ sel' = [sel EXCEPT ![q] = NoSel]
    /\ UNCHANGED <<syncVars, now, candles>>

\* A call raises or the process restarts.
SelectFails(q) ==
    /\ sel[q].pc = "score"
    /\ sel' = [sel EXCEPT ![q] = NoSel]
    /\ UNCHANGED <<syncVars, now, candles, runs>>

-----------------------------------------------------------------------------
(* Candles, time, and the whole. *)

StoreCandle(c) ==
    /\ c \notin candles /\ c[2] < now
    /\ candles' = candles \cup {c}
    /\ UNCHANGED <<syncVars, now, sel, runs>>

Tick ==
    /\ now < MaxNow
    /\ now' = now + 1
    /\ UNCHANGED <<syncVars, candles, sel, runs>>

Init ==
    /\ SyncInit
    /\ now = FirstNow /\ candles = InitialCandles
    /\ sel = [q \in Selectors |-> NoSel]
    /\ runs = <<>>

Next ==
    \/ SyncNext /\ UNCHANGED selVars
    \/ \E q \in Selectors :
          \/ \E p \in Params : SelectBegin(q, p)
          \/ \E m \in Markets : Score(q, m)
          \/ Save(q) \/ SelectFails(q)
    \/ \E c \in Feed : StoreCandle(c)
    \/ Tick

Spec == Init /\ [][Next]_vars

-----------------------------------------------------------------------------
(* Properties. *)

\* A run stored with include_excluded lists every entry of the pool, as ranked or as
\* excluded.  It lists a symbol as both only where the settings admit a special character
\* or an inactive row that the validation reports all the same: an inactive symbol is then
\* ranked, although the document says that inactive instruments are excluded before the
\* ranking.  With or without the exclusions only entries that the validation finds
\* eligible are ranked, and as many are selected as the limit and the ranking allow.
PoolAccountedFor ==
    \A n \in DOMAIN runs :
        LET r == runs[n]
            place(i) == IF i \in Parsed(Pool) THEN Key(Pool[i]) ELSE <<"invalid", i>>
        IN  /\ r.params.full => \A i \in DOMAIN Pool : place(i) \in r.ranked \cup r.excluded
            /\ r.ranked \cap r.excluded \subseteq
                  {k \in SpecialKeys : ~ExcludeSpecial} \cup {k \in PoolKeys : ~RequireActive}
            /\ r.ranked \subseteq SyntacticallyEligible /\ r.selected \subseteq r.ranked
            /\ Cardinality(r.selected) =
                  IF Cardinality(r.ranked) < r.params.limit THEN Cardinality(r.ranked)
                                                           ELSE r.params.limit

\* A symbol selected on its current session has, whatever order its candles came in and
\* however long the selection took, every candle from the open to some minute that was
\* not stale when the selection started, and enough of them.
SelectedHaveFullSession ==
    \A n \in DOMAIN runs :
        LET r == runs[n]
        IN  r.params.current /\ RequireContinuity => \A k \in r.selected :
              \E t \in LoadCompletedBars(k) :
                 /\ DayOpen(t) .. t \subseteq LoadCompletedBars(k)
                 /\ t - DayOpen(t) + 1 >= MinCandles
                 /\ r.params.policy = "exclude" => r.started <= t + 2 + StaleAfter

\* The symbols of a stored selection keep their active rows, whatever other syncs write
\* during and after it: upsert_instruments only adds and activates rows.
SelectionStaysResolvable ==
    RequireActive => \A n \in DOMAIN runs :
        Resolved(runs[n].selected, instruments) = runs[n].selected
=============================================================================
