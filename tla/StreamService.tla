---------------------------- MODULE StreamService ----------------------------
(***************************************************************************)
(* The process-local quote stream controller (backend/app/market_data/     *)
(* websocket_service.py).                                                  *)
(*                                                                         *)
(* Two threads change its state.  On the event loop run the callers of     *)
(* start and stop (API routes and scheduler jobs, which share no lock),    *)
(* interleaved at their awaits, and the ends of candle saves.  On the      *)
(* ticker's reactor thread run the callbacks of every ticker ever created, *)
(* one after the other; they see the current stream, whichever ticker they *)
(* come from.                                                              *)
(*                                                                         *)
(* The ticker is external: it connects, loses its connection and connects  *)
(* again until close() is called, after which a connection that was about  *)
(* to open may still be announced before the end is.  Of the candle        *)
(* builder the module keeps the connection its volume baseline is from.    *)
(***************************************************************************)
EXTENDS Integers, FiniteSets

CONSTANTS
    Callers,          \* concurrent requests of start and stop
    Tickers,          \* tickers that can be created, a bound
    MaxConnections,   \* bound: connections a ticker makes
    MaxSaves          \* bound: candle saves in flight

ASSUME StreamAssumption ==
    /\ MaxConnections \in Nat /\ MaxSaves \in Nat

None == "none"

ASSUME NoneAssumption == None \notin Callers \cup Tickers

VARIABLES
    stage,         \* [Callers -> Stages]: where each request waits
    onLoop,        \* the caller that holds the event loop between two steps
    stream,        \* _stream
    connected,     \* _connected
    lastError,     \* _last_error
    saves,         \* _persistence_futures: candle saves in flight
    baseline,      \* the connection of the builder's baseline, or NoBaseline
    callback,      \* the on_connect under way on the reactor thread
    ticker,        \* external: [Tickers -> Phases]
    connection,    \* external: [Tickers -> Nat]: connections made so far
    subscribed,    \* external: the tickers whose ticks are delivered
    blamed,        \* history: the stream whose subscription failed
    victim         \* history: the last stream closed for a failure of another

service == <<stream, connected, lastError, saves, baseline>>
external == <<ticker, connection, subscribed>>
history == <<blamed, victim>>
vars == <<stage, onLoop, service, callback, external, history>>

Stages == {"idle", "watchlist", "session", "create", "stopping"}

Phases == {"new", "connecting", "open", "lost", "aborting", "closing", "closed"}

Errors == {None, "stream_start_failed", "stream_missing_on_connect",
           "stream_subscription_failed", "kite_websocket_error",
           "candle_persistence_failed", "candle_persistence_pending"}

NoBaseline == [ticker |-> None, number |-> 0]
Connection(t) == [ticker |-> t, number |-> connection[t]]

Init ==
    /\ stage = [c \in Callers |-> "idle"] /\ onLoop = None
    /\ stream = None /\ connected = FALSE /\ lastError = None
    /\ saves = 0 /\ baseline = NoBaseline
    /\ callback = "none" /\ blamed = None /\ victim = None
    /\ ticker = [t \in Tickers |-> "new"]
    /\ connection = [t \in Tickers |-> 0]
    /\ subscribed = {}

-----------------------------------------------------------------------------
(* The ticker. *)

\* close(): no more retries; the end is announced by an on_close.
Closed(phase) ==
    CASE phase = "connecting" -> "aborting"
      [] phase \in {"open", "lost"} -> "closing"
      [] OTHER -> phase

Disconnect(t) ==
    /\ ticker' = [ticker EXCEPT ![t] = Closed(@)]
    /\ subscribed' = subscribed \ {t}

ConnectionLost(t) ==
    /\ ticker[t] = "open"
    /\ ticker' = [ticker EXCEPT ![t] = "lost"]
    /\ subscribed' = subscribed \ {t}
    /\ UNCHANGED <<stage, onLoop, service, callback, connection, history>>

-----------------------------------------------------------------------------
(* start, on the event loop. *)

\* A caller runs from one await to the next unless another holds the loop.
Runs(c) == onLoop \in {None, c}

\* With a stream there is nothing to start.
Start(c) ==
    /\ Runs(c) /\ stage[c] = "idle"
    /\ stream = None
    /\ stage' = [stage EXCEPT ![c] = "watchlist"]
    /\ UNCHANGED <<onLoop, service, callback, external, history>>

\* The watchlist was inspected: all of it is known and active, or start fails.
Inspected(c) ==
    /\ Runs(c) /\ stage[c] = "watchlist"
    /\ \E next \in {"session", "idle"} : stage' = [stage EXCEPT ![c] = next]
    /\ UNCHANGED <<onLoop, service, callback, external, history>>

\* There is a session, and the status is reset; or start fails.
SessionObtained(c) ==
    /\ Runs(c) /\ stage[c] = "session"
    /\ \/ /\ stage' = [stage EXCEPT ![c] = "create"]
          /\ onLoop' = c
          /\ lastError' = None /\ connected' = FALSE
       \/ /\ stage' = [stage EXCEPT ![c] = "idle"]
          /\ UNCHANGED <<onLoop, lastError, connected>>
    /\ UNCHANGED <<stream, saves, baseline, callback, external, history>>

\* The ticker is created, becomes the stream and begins to connect; whatever
\* the stream is by now is replaced.
CreateStream(c, t) ==
    /\ onLoop = c /\ stage[c] = "create"
    /\ ticker[t] = "new"
    /\ stream' = t
    /\ ticker' = [ticker EXCEPT ![t] = "connecting"]
    /\ stage' = [stage EXCEPT ![c] = "idle"]
    /\ onLoop' = None
    /\ UNCHANGED <<connected, lastError, saves, baseline, callback, connection, subscribed, history>>

CreateFails(c) ==
    /\ onLoop = c /\ stage[c] = "create"
    /\ stream' = None /\ connected' = FALSE /\ lastError' = "stream_start_failed"
    /\ stage' = [stage EXCEPT ![c] = "idle"]
    /\ onLoop' = None
    /\ UNCHANGED <<saves, baseline, callback, external, history>>

-----------------------------------------------------------------------------
(* stop, on the event loop. *)

\* The stream is closed, and candle saves in flight are waited for.
Stop(c) ==
    /\ Runs(c) /\ stage[c] = "idle"
    /\ IF stream = None THEN UNCHANGED <<ticker, subscribed>> ELSE Disconnect(stream)
    /\ stage' = [stage EXCEPT ![c] = "stopping"]
    /\ onLoop' = IF saves = 0 THEN c ELSE None
    /\ UNCHANGED <<service, callback, connection, history>>

\* The saves have ended, or five seconds have passed.
StopEnds(c) ==
    /\ Runs(c) /\ stage[c] = "stopping"
    /\ stream' = None /\ connected' = FALSE
    /\ lastError' = IF saves > 0 THEN "candle_persistence_pending" ELSE lastError
    /\ stage' = [stage EXCEPT ![c] = "idle"]
    /\ onLoop' = None
    /\ UNCHANGED <<saves, baseline, callback, external, history>>

\* _observe_persistence_result.
SaveEnds ==
    /\ onLoop = None
    /\ saves > 0
    /\ saves' = saves - 1
    /\ lastError' \in {lastError, "candle_persistence_failed"}
    /\ UNCHANGED <<stage, onLoop, stream, connected, baseline, callback, external, history>>

-----------------------------------------------------------------------------
(* Callbacks, on the reactor thread. *)

\* on_connect finds out whether there is still a stream.
OnConnect(t) ==
    /\ callback = "none"
    /\ ticker[t] \in {"connecting", "aborting"}
    /\ connection[t] < MaxConnections
    /\ ticker' = [ticker EXCEPT ![t] = IF @ = "connecting" THEN "open" ELSE "closing"]
    /\ connection' = [connection EXCEPT ![t] = @ + 1]
    /\ IF stream = None
       THEN lastError' = "stream_missing_on_connect" /\ UNCHANGED callback
       ELSE callback' = "subscribe" /\ UNCHANGED lastError
    /\ UNCHANGED <<stage, onLoop, stream, connected, saves, baseline, subscribed, history>>

\* subscribe and set_mode on what is the stream now.
SubscribeSucceeds ==
    /\ callback = "subscribe"
    /\ stream # None /\ ticker[stream] = "open"
    /\ subscribed' = subscribed \cup {stream}
    /\ callback' = "mark"
    /\ UNCHANGED <<stage, onLoop, service, ticker, connection, history>>

\* Mutant: the failure is logged and not remembered.
SubscribeFailsSilently ==
    /\ callback = "subscribe"
    /\ connected' = FALSE
    /\ baseline' = NoBaseline
    /\ blamed' = stream
    /\ callback' = "drop"
    /\ UNCHANGED <<stage, onLoop, stream, lastError, saves, external, victim>>

\* There is no stream any more, it is not open, or the request fails.
SubscribeFails ==
    /\ callback = "subscribe"
    /\ connected' = FALSE
    /\ lastError' = "stream_subscription_failed"
    /\ baseline' = NoBaseline
    /\ blamed' = stream
    /\ callback' = "drop"
    /\ UNCHANGED <<stage, onLoop, stream, saves, external, victim>>

\* The except branch reads the stream again and closes what it finds, which a
\* start may have set since; without a stream the call fails and is ignored.
DropStream ==
    /\ callback = "drop"
    /\ IF stream = None THEN UNCHANGED <<ticker, subscribed>> ELSE Disconnect(stream)
    /\ victim' = IF stream \in {None, blamed} THEN victim ELSE stream
    /\ blamed' = None
    /\ callback' = "none"
    /\ UNCHANGED <<stage, onLoop, service, connection>>

MarkConnected ==
    /\ callback = "mark"
    /\ connected' = TRUE
    /\ callback' = "none"
    /\ UNCHANGED <<stage, onLoop, stream, lastError, saves, baseline, external, history>>

\* Mutant: the stream still counts as connected.
MarkDisconnectedKeepsConnected == baseline' = NoBaseline /\ UNCHANGED connected

\* Mutant: the candle in progress and its baseline survive the gap.
MarkDisconnectedKeepsCandles == connected' = FALSE /\ UNCHANGED baseline

MarkDisconnected == connected' = FALSE /\ baseline' = NoBaseline

\* on_close: the ticker has lost its connection and connects again, or it
\* was closed, or a connection it was closed for never opened.
OnClose(t) ==
    /\ callback = "none"
    /\ ticker[t] \in {"lost", "aborting", "closing"}
    /\ MarkDisconnected
    /\ ticker' = [ticker EXCEPT ![t] = IF @ = "lost" THEN "connecting" ELSE "closed"]
    /\ UNCHANGED <<stage, onLoop, stream, lastError, saves, callback, connection, subscribed, history>>

\* on_error: a connection fails, or the server reports an error on an open one.
MarkError(t) ==
    /\ callback = "none"
    /\ ticker[t] \in {"connecting", "open", "aborting"}
    /\ lastError' = "kite_websocket_error"
    /\ MarkDisconnected
    /\ UNCHANGED <<stage, onLoop, stream, saves, callback, external, history>>

\* on_ticks: the builder takes them, and candles they complete are saved.
HandleTicks(t) ==
    /\ callback = "none"
    /\ t \in subscribed
    /\ baseline' = Connection(t)
    /\ saves' \in {saves, saves + 1} \cap 0 .. MaxSaves
    /\ UNCHANGED <<stage, onLoop, stream, connected, lastError, callback, external, history>>

-----------------------------------------------------------------------------
CallerStep(c) ==
    \/ Start(c) \/ Inspected(c) \/ SessionObtained(c)
    \/ CreateFails(c) \/ \E t \in Tickers : CreateStream(c, t)
    \/ Stop(c) \/ StopEnds(c)

TickerStep(t) ==
    \/ ConnectionLost(t)
    \/ OnConnect(t) \/ OnClose(t) \/ MarkError(t) \/ HandleTicks(t)

Next ==
    \/ \E c \in Callers : CallerStep(c)
    \/ \E t \in Tickers : TickerStep(t)
    \/ SubscribeSucceeds \/ SubscribeFails \/ DropStream \/ MarkConnected
    \/ SaveEnds

Spec == Init /\ [][Next]_vars

-----------------------------------------------------------------------------
(* Properties. *)

\* The types of the fields of the service and of the tickers.
TypeOK ==
    /\ stage \in [Callers -> Stages] /\ onLoop \in Callers \cup {None}
    /\ stream \in Tickers \cup {None} /\ connected \in BOOLEAN /\ lastError \in Errors
    /\ saves \in Nat /\ baseline \in [ticker : Tickers \cup {None}, number : Nat]
    /\ callback \in {"none", "subscribe", "mark", "drop"}
    /\ blamed \in Tickers \cup {None} /\ victim \in Tickers \cup {None}
    /\ ticker \in [Tickers -> Phases] /\ connection \in [Tickers -> Nat]
    /\ subscribed \subseteq Tickers

\* What verify_stream calls healthy, up to counts and staleness.
Healthy == stream # None /\ connected /\ lastError = None

\* No callback is under way and no on_close is still to come.
Settled ==
    callback = "none" /\ \A t \in Tickers : ticker[t] \notin {"lost", "aborting", "closing"}

\* A ticker that connects, is open or lost, and was not closed, is the stream.
Owned(t) == ticker[t] \in {"connecting", "open", "lost"} => stream = t

\* However starts, stops and callbacks of old and new tickers interleave, a
\* stream that is reported healthy is open and subscribed once the callbacks
\* are delivered: no loss, failed subscription or stop is hidden, unless a
\* ticker the service has lost sight of is still running.
HealthyIsSubscribed ==
    (Settled /\ Healthy /\ \A t \in Tickers : Owned(t))
        => ticker[stream] = "open" /\ stream \in subscribed

\* A ticker that was closed never connects again and start does not replace it: a
\* stream that is dead without a stop under way shows the error that killed it, also
\* when starts that had passed their check clear errors meanwhile.  The one exception
\* is a flaw of _handle_connected: a start that clears the error of a failed subscription
\* and sets its own ticker before the handler gets to its disconnect has that ticker
\* closed instead, and no error says so.
DeadStreamReported ==
    (/\ stream # None /\ ticker[stream] \in {"aborting", "closing", "closed"}
     /\ onLoop = None /\ \A c \in Callers : stage[c] # "stopping")
        => lastError # None \/ stream = victim

\* "this controller owns the stream": a ticker that was not closed is the
\* service's stream, so that a stop ends all streaming.
NoOrphanStream == \A t \in Tickers : Owned(t)

\* "A WebSocket gap invalidates cumulative-volume baselines": the builder
\* never goes from the ticks of one connection to those of another.
GapInvalidates ==
    [][baseline' # baseline => NoBaseline \in {baseline, baseline'}]_vars

\* The same for the connections that one ticker makes by itself.
ReconnectInvalidates ==
    [][baseline'.ticker = baseline.ticker => baseline' = baseline]_vars
=============================================================================
