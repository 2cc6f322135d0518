----------------------------- MODULE Watchlist -----------------------------
(***************************************************************************)
(* The configured watchlist, read twice in the code: by the strict parser  *)
(* that instrument sync, the stream and the scanner use                    *)
(* (backend/app/market_data/watchlist.py) and by the diagnosis of the      *)
(* operator's routes (watchlist_validation.py); and what stream readiness  *)
(* (stream_readiness.py) makes of the diagnosis.                           *)
(*                                                                         *)
(* The source is a sequence of lines, and a line the sequence of its parts *)
(* between commas: one part in the environment's list, which is split at   *)
(* the commas and loses its blank entries there.  The diagnosis reads a    *)
(* line as one entry, its commas included; the strict parser gets the      *)
(* lines joined by commas, splits them again and drops the blank parts.    *)
(* A part is split at its first colon into an exchange and a name, each    *)
(* stripped and in upper case, "" and 0 when blank; a part without a colon *)
(* is all name.  Names are numbered in their order.  A table of            *)
(* instruments maps keys <<exchange, name>> to rows.                       *)
(***************************************************************************)
EXTENDS Integers, Sequences, FiniteSets

CONSTANT MaxInstruments    \* MARKET_DATA_MAX_INSTRUMENTS

ASSUME WatchlistAssumption == MaxInstruments \in Int

Part == {p \in [colons : Nat, exchange : STRING, name : Nat] : p.colons = 0 => p.exchange = ""}

BlankPart(p) == p.colons = 0 /\ p.name = 0

\* Blank lines and comments are skipped.
Line == {line \in Seq(Part) \ {<<>>} : Len(line) = 1 => ~BlankPart(line[1])}

-----------------------------------------------------------------------------
(* The strict parser: parse_watchlist raises if it finds a fault. *)

PartKey(p) == <<p.exchange, p.name>>

\* The places <<line, part>> of the parts that remain.
Places(lines) ==
    UNION {{<<i, j>> : j \in {n \in DOMAIN lines[i] : ~BlankPart(lines[i][n])}} : i \in DOMAIN lines}

At(lines, place) == lines[place[1]][place[2]]

StrictAccepts(lines) ==
    /\ MaxInstruments >= 1
    /\ Cardinality(Places(lines)) \in 1 .. MaxInstruments
    /\ \A a \in Places(lines) :
          /\ At(lines, a).colons >= 1 /\ At(lines, a).name # 0
          /\ At(lines, a).exchange = "NSE"
          /\ \A b \in Places(lines) : PartKey(At(lines, a)) = PartKey(At(lines, b)) => a = b

StrictSymbols(lines) == {PartKey(At(lines, a)) : a \in Places(lines)}

\* resolve_watchlist: the active rows only.
Resolved(symbols, table) == {k \in symbols \cap DOMAIN table : table[k].active}

-----------------------------------------------------------------------------
(* _diagnose_entries and validate. *)

OneColon(line) ==
    \E i \in DOMAIN line : line[i].colons = 1 /\ \A j \in DOMAIN line \ {i} : line[j].colons = 0

\* The text of a line without its blanks; with a comma it is no key of a table.
Key(line) ==
    IF Len(line) = 1 THEN PartKey(line[1]) ELSE <<line[1].exchange, line[1].name, Tail(line)>>
Keys(lines, S) == {Key(lines[i]) : i \in S}

\* Nothing before or nothing after the colon, not even a comma.
HalfBlank(line) ==
    \/ line[1].colons > 0 /\ line[1].exchange = ""
    \/ line[Len(line)].colons > 0 /\ line[Len(line)].name = 0

\* The entries that are neither malformed nor half blank.
Parsed(lines) == {i \in DOMAIN lines : OneColon(lines[i]) /\ ~HalfBlank(lines[i])}

Repeated(lines) ==
    {i \in Parsed(lines) : \E j \in Parsed(lines) : j < i /\ Key(lines[j]) = Key(lines[i])}

\* The exchange has a comma unless the colon is in the first part.
NonNse(lines) == {i \in Parsed(lines) : ~(lines[i][1].colons > 0 /\ lines[i][1].exchange = "NSE")}

\* normalized_symbols: a key that is repeated is left out altogether.
Normalized(lines) == Keys(lines, Parsed(lines) \ NonNse(lines)) \ Keys(lines, Repeated(lines))

If(condition, error) == IF condition THEN {error} ELSE {}

DiagnosisErrors(lines) ==
    If(lines = <<>>, "empty")
    \cup If(Parsed(lines) # DOMAIN lines, "format")
    \cup If(Repeated(lines) # {}, "duplicate")
    \cup If(NonNse(lines) # {}, "non_nse")
    \cup If(MaxInstruments < 1, "max_not_positive")
    \cup If(MaxInstruments >= 1 /\ Len(lines) > MaxInstruments, "over_limit")

Missing(lines, table) == Normalized(lines) \ DOMAIN table

Inactive(lines, table) ==
    {k \in Normalized(lines) \cap DOMAIN table : ~table[k].active}

\* load_watchlist_source: an unreadable file has no entries and an error of its own.
Loaded(lines, readable) == IF readable THEN lines ELSE <<>>
SourceErrors(readable) == If(~readable, "unreadable")

ReadyForSync(lines, readable) ==
    SourceErrors(readable) \cup DiagnosisErrors(Loaded(lines, readable)) = {}

\* Mutant: the errors of the diagnosis are warnings.
ReadyIfSynced(lines, readable, table) ==
    /\ readable
    /\ Missing(Loaded(lines, readable), table) = {}
    /\ Inactive(Loaded(lines, readable), table) = {}

ReadyForStream(lines, readable, table) ==
    /\ ReadyForSync(lines, readable)
    /\ Missing(Loaded(lines, readable), table) = {}
    /\ Inactive(Loaded(lines, readable), table) = {}

ValidationErrors(lines, readable, table) ==
    SourceErrors(readable)
    \cup DiagnosisErrors(Loaded(lines, readable))
    \cup If(Missing(Loaded(lines, readable), table) # {}, "not_synced")
    \cup If(Inactive(Loaded(lines, readable), table) # {}, "inactive")

-----------------------------------------------------------------------------
(* Stream readiness. *)

\* env: [enabled, websocket, mode, session, running, connected], all BOOLEAN.
ReadinessErrors(lines, readable, table, env) ==
    ValidationErrors(lines, readable, table)
    \cup If(~env.enabled, "disabled") \cup If(~env.websocket, "websocket_disabled")
    \cup If(~env.mode, "mode") \cup If(~env.session, "session")

CanStart(errors, env) == errors = {} /\ ~env.running
Ready(errors, env) == errors = {} /\ (CanStart(errors, env) \/ env.connected)

\* _recommended_action tries these in turn.
ActionChain(errors, env) ==
    << <<"format" \in errors, "fix_watchlist_format">>,
       <<"duplicate" \in errors, "remove_duplicate_watchlist_symbols">>,
       <<"non_nse" \in errors, "use_nse_symbols_only">>,
       <<"over_limit" \in errors, "increase_market_data_max_instruments">>,
       <<errors \cap {"not_synced", "inactive"} # {}, "run_instrument_sync">>,
       <<"session" \in errors, "login_kite">>,
       <<errors \cap {"disabled", "websocket_disabled"} # {}, "enable_read_only_market_data">>,
       <<"mode" \in errors, "fix_market_data_mode">>,
       <<env.running /\ ~env.connected, "inspect_stream_error_before_restart">>,
       <<env.running, "stream_already_running">>,
       <<TRUE, "ready_to_start_stream">> >>

RecommendedAction(errors, env) ==
    LET chain == ActionChain(errors, env)
        first == CHOOSE i \in DOMAIN chain : chain[i][1] /\ \A j \in 1 .. i - 1 : ~chain[j][1]
    IN  chain[first][2]
=============================================================================
