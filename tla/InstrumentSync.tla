--------------------------- MODULE InstrumentSync ---------------------------
(***************************************************************************)
(* The instruments table: instrument sync writes it                        *)
(* (backend/app/market_data/instrument_sync.py, upsert_instruments of      *)
(* repository.py), and the gate of the stream start route reads it before  *)
(* the stream service does (api/routes/market_data.py).                    *)
(*                                                                         *)
(* A sync upserts the items of Kite's dump one by one in one transaction   *)
(* and goes on after an item that failed.  After a failed statement        *)
(* PostgreSQL refuses the rest of the transaction and turns its COMMIT     *)
(* into a rollback.  Writers of one key or of one token wait for each      *)
(* other, and of two that wait for each other one fails.                   *)
(***************************************************************************)
EXTENDS Watchlist

CONSTANTS
    Requests,       \* tasks that handle requests
    Configured,     \* the lines of the configured watchlist
    Watchlists,     \* other watchlists that might be configured
    Dumps,          \* what Kite may answer: sequences of items
    InitialTables,  \* the tables that earlier syncs and operators may have left
    MaxBegun        \* bound: requests begun

\* bad: a field of the item cannot be converted.
Item == [key : STRING \X Nat, token : Nat, bad : BOOLEAN]

ASSUME InstrumentSyncAssumption ==
    /\ Watchlists \cup {Configured} \subseteq Seq(Line)
    /\ Dumps \subseteq Seq(Item) /\ MaxBegun \in Nat

ASSUME TableAssumption ==
    \A table \in InitialTables :
        \A k \in DOMAIN table : k \in STRING \X Nat /\ table[k].active \in BOOLEAN

VARIABLES
    instruments,    \* the table: a function from keys to [token, active]
    sync,           \* [Requests -> Sync]: what each request does about the table
    begun           \* number of requests begun

syncVars == <<instruments, sync, begun>>

NoRows == [k \in {} |-> [token |-> 0, active |-> TRUE]]

NoSync == [pc |-> "idle", dump |-> <<>>, next |-> 1, found |-> FALSE, writes |-> NoRows,
           inserted |-> 0, updated |-> 0, skipped |-> 0, failed |-> 0, aborted |-> FALSE,
           ready |-> FALSE]

Overlay(f, g) ==
    [k \in DOMAIN f \cup DOMAIN g |-> IF k \in DOMAIN f THEN f[k] ELSE g[k]]

\* The table as the transaction of a request sees it.
View(q) == Overlay(sync[q].writes, instruments)

ItemOf(q) == sync[q].dump[sync[q].next]

\* The configured symbols, (exchange, tradingsymbol) in upsert_instruments.
Wanted == StrictSymbols(Configured)

-----------------------------------------------------------------------------
(* Instrument sync. *)

\* sync up to the fetch; without a valid watchlist or a session it raises.
SyncBegin(q, dump) ==
    /\ sync[q].pc = "idle" /\ begun < MaxBegun
    /\ StrictAccepts(Configured)
    /\ sync' = [sync EXCEPT ![q] = [NoSync EXCEPT !.pc = "item", !.dump = dump]]
    /\ begun' = begun + 1
    /\ UNCHANGED instruments

Counted(q, field) == [sync[q] EXCEPT ![field] = @ + 1, !.next = @ + 1, !.pc = "item"]

\* An item is skipped, or fails before its first statement, or is looked up.
SyncItem(q) ==
    /\ sync[q].pc = "item" /\ sync[q].next <= Len(sync[q].dump)
    /\ sync' = [sync EXCEPT ![q] =
          CASE ItemOf(q).key \notin Wanted -> Counted(q, "skipped")
            [] ItemOf(q).key \in Wanted /\ (ItemOf(q).bad \/ sync[q].aborted) -> Counted(q, "failed")
            [] OTHER -> [sync[q] EXCEPT !.pc = "write", !.found = ItemOf(q).key \in DOMAIN View(q)]]
    /\ UNCHANGED <<instruments, begun>>

\* q has to wait for what p has written and not yet committed.
Waits(q, p) ==
    /\ sync[q].pc = "write"
    /\ \/ ItemOf(q).key \in DOMAIN sync[p].writes
       \/ \E k \in DOMAIN sync[p].writes : sync[p].writes[k].token = ItemOf(q).token

\* The unique constraints of the table refuse the row, which may have been inserted
\* since it was looked up.
Refused(q) ==
    \/ ~sync[q].found /\ ItemOf(q).key \in DOMAIN View(q)
    \/ \E k \in DOMAIN View(q) : k # ItemOf(q).key /\ View(q)[k].token = ItemOf(q).token

SyncWrite(q) ==
    /\ sync[q].pc = "write"
    /\ ~Refused(q)
    /\ \A p \in Requests \ {q} : ~Waits(q, p)
    /\ sync' = [sync EXCEPT ![q] =
          [Counted(q, IF sync[q].found THEN "updated" ELSE "inserted") EXCEPT
              !.writes = Overlay([k \in {ItemOf(q).key} |-> [token |-> ItemOf(q).token, active |-> TRUE]],
                                 sync[q].writes)]]
    /\ UNCHANGED <<instruments, begun>>

\* Mutant: a statement that fails is not counted.
SyncWriteIgnored(q) ==
    /\ sync[q].pc = "write"
    /\ Refused(q)
    /\ sync' = [sync EXCEPT ![q] = [Counted(q, "skipped") EXCEPT !.aborted = TRUE, !.writes = NoRows]]
    /\ UNCHANGED <<instruments, begun>>

\* The statement fails, and with it the transaction.
SyncWriteFails(q) ==
    /\ sync[q].pc = "write"
    /\ \/ Refused(q) /\ \A p \in Requests \ {q} : ~Waits(q, p)
       \/ \E p \in Requests \ {q} : Waits(q, p) /\ Waits(p, q)
    /\ sync' = [sync EXCEPT ![q] = [Counted(q, "failed") EXCEPT !.aborted = TRUE, !.writes = NoRows]]
    /\ UNCHANGED <<instruments, begun>>

\* Mutant: symbols that are no longer configured are deactivated.
SyncCommitPrunes(q) ==
    /\ sync[q].pc = "item" /\ sync[q].next > Len(sync[q].dump)
    /\ instruments' = [k \in DOMAIN View(q) |-> [View(q)[k] EXCEPT !.active = @ /\ k \in Wanted]]
    /\ sync' = [sync EXCEPT ![q].pc = "validate", ![q].writes = NoRows]
    /\ UNCHANGED begun

\* The commit; the validation that the reply contains is made after it.
SyncCommit(q) ==
    /\ sync[q].pc = "item" /\ sync[q].next > Len(sync[q].dump)
    /\ instruments' = View(q)
    /\ sync' = [sync EXCEPT ![q].pc = "validate", ![q].writes = NoRows]
    /\ UNCHANGED begun

-----------------------------------------------------------------------------
(* The stream start route. *)

\* Mutant: the gate asks for rows, active or not.
StartGateKnown(q, env) ==
    LET errors == ReadinessErrors(Configured, TRUE, instruments, env) \ {"inactive"}
    IN  /\ sync[q].pc = "idle" /\ begun < MaxBegun
        /\ CanStart(errors, env) \/ env.running
        /\ sync' = [sync EXCEPT ![q] = [NoSync EXCEPT !.pc = "start", !.ready = CanStart(errors, env)]]
        /\ begun' = begun + 1
        /\ UNCHANGED instruments

\* start_stream up to the answer of readiness: env is what it finds besides the table.
StartGate(q, env) ==
    LET errors == ReadinessErrors(Configured, TRUE, instruments, env)
    IN  /\ sync[q].pc = "idle" /\ begun < MaxBegun
        /\ CanStart(errors, env) \/ env.running
        /\ sync' = [sync EXCEPT ![q] = [NoSync EXCEPT !.pc = "start", !.ready = CanStart(errors, env)]]
        /\ begun' = begun + 1
        /\ UNCHANGED instruments

\* The request ends: its reply is sent, the stream service takes over, a call raises or
\* the process restarts.
SyncEnd(q) ==
    /\ sync[q].pc # "idle"
    /\ sync' = [sync EXCEPT ![q] = NoSync]
    /\ UNCHANGED <<instruments, begun>>

Envs == [enabled : BOOLEAN, websocket : BOOLEAN, mode : BOOLEAN, session : BOOLEAN,
         running : BOOLEAN, connected : BOOLEAN]

SyncInit ==
    /\ instruments \in InitialTables
    /\ sync = [q \in Requests |-> NoSync]
    /\ begun = 0

SyncNext ==
    \E q \in Requests :
        \/ \E dump \in Dumps : SyncBegin(q, dump)
        \/ SyncItem(q) \/ SyncWrite(q) \/ SyncWriteFails(q) \/ SyncCommit(q)
        \/ \E env \in Envs : StartGate(q, env)
        \/ SyncEnd(q)

-----------------------------------------------------------------------------
(* Properties. *)

\* The counts of a sync add up to the items of the dump; one that reports no failure
\* has stored every configured symbol of the dump; and unless a statement failed, which
\* shows as a failed item, what it counted as inserted or updated is in the table.
SyncReportIsHonest ==
    \A q \in Requests : sync[q].pc = "validate" =>
        LET dump == sync[q].dump
            items == {i \in DOMAIN dump : dump[i].key \in Wanted}
            stored == {i \in items : dump[i].key \in Resolved(Wanted, instruments)}
        IN  /\ sync[q].inserted + sync[q].updated + sync[q].skipped + sync[q].failed = Len(dump)
            /\ sync[q].failed = 0 => stored = items
            /\ sync[q].aborted => sync[q].failed > 0
            /\ ~sync[q].aborted => sync[q].inserted + sync[q].updated <= Cardinality(stored)

\* The gate of the start route and the stream service read the watchlist by different
\* rules and at different times: what the gate has found ready the service accepts.
GateImpliesStart ==
    \A q \in Requests : sync[q].pc = "start" /\ sync[q].ready =>
        StrictAccepts(Configured) /\ Resolved(Wanted, instruments) = Wanted

\* What the diagnosis calls ready for the stream, the strict parser accepts and the table
\* resolves, on every watchlist.  What it calls ready for a sync, the sync's parser accepts
\* unless a line has a comma: then the diagnosis passes lists that the sync refuses
\* ("NSE:A,B", or "NSE:A," before "NSE:A"), although the operations document says that it
\* reports whether a sync is safe.  What only the diagnosis refuses has a comma or several
\* colons in a line (",", ",NSE:A", "NSE:A,NSE:B", "NSE:A:B").
\* The route advises to start the stream exactly when it can be started, except that
\* the advice knows no empty list, unreadable file or limit below one.  Looked at
\* for every table before the first request.
ReadinessAgreesWithStart ==
    begun = 0 => \A lines \in Watchlists, readable \in BOOLEAN :
        LET accepted == readable /\ StrictAccepts(lines)
            symbols == StrictSymbols(lines)
            commas == \E i \in DOMAIN lines : Len(lines[i]) > 1
            manyColons == \E i \in DOMAIN lines : \E j \in DOMAIN lines[i] : lines[i][j].colons > 1
        IN  /\ ReadyForStream(lines, readable, instruments) =>
                  accepted /\ Resolved(symbols, instruments) = symbols
            /\ ReadyForSync(lines, readable) => accepted \/ commas
            /\ accepted => ReadyForSync(lines, readable) \/ commas \/ manyColons
            /\ \A env \in Envs :
                  LET errors == ReadinessErrors(lines, readable, instruments, env)
                  IN  /\ RecommendedAction(errors, env) = "ready_to_start_stream" <=>
                            ~env.running /\ errors \subseteq {"empty", "unreadable", "max_not_positive"}
                      /\ Ready(errors, env) => RecommendedAction(errors, env) \in
                            {"ready_to_start_stream", "stream_already_running"}
=============================================================================
