------------------------ MODULE StreamServiceProofs ------------------------
(***************************************************************************)
(* Theorems about StreamService: for any number of callers and tickers,    *)
(* whatever the interleaving of starts, stops and callbacks.               *)
(***************************************************************************)
EXTENDS StreamService, TLAPS

-----------------------------------------------------------------------------
(* Types. *)

\* The type invariant is kept by steps of callers.
LEMMA TypeCaller ==
    ASSUME TypeOK, NEW c \in Callers, CallerStep(c)
    PROVE  TypeOK'
<1> USE DEF TypeOK, service, external, history, Stages, Phases, Errors
<1>1. CASE Start(c) BY <1>1 DEF Start
<1>2. CASE Inspected(c) BY <1>2 DEF Inspected
<1>3. CASE SessionObtained(c) BY <1>3 DEF SessionObtained
<1>4. CASE CreateFails(c) BY <1>4 DEF CreateFails
<1>5. ASSUME NEW t \in Tickers, CreateStream(c, t) PROVE TypeOK' BY <1>5 DEF CreateStream
<1>6. CASE Stop(c) BY <1>6 DEF Stop, Disconnect, Closed
<1>7. CASE StopEnds(c) BY <1>7 DEF StopEnds
<1> QED BY <1>1, <1>2, <1>3, <1>4, <1>5, <1>6, <1>7 DEF CallerStep

\* And by everything else.
LEMMA TypeStep == TypeOK /\ [Next]_vars => TypeOK'
<1> SUFFICES ASSUME TypeOK, [Next]_vars PROVE TypeOK' OBVIOUS
<1>1. ASSUME NEW c \in Callers, CallerStep(c) PROVE TypeOK' BY <1>1, TypeCaller
<1> USE DEF TypeOK, service, external, history, Stages, Phases, Errors
<1>2. ASSUME NEW t \in Tickers, ConnectionLost(t) PROVE TypeOK' BY <1>2 DEF ConnectionLost
<1>3. ASSUME NEW t \in Tickers, OnConnect(t) PROVE TypeOK' BY <1>3 DEF OnConnect
<1>4. ASSUME NEW t \in Tickers, OnClose(t) PROVE TypeOK'
  BY <1>4 DEF OnClose, MarkDisconnected, NoBaseline
<1>5. ASSUME NEW t \in Tickers, MarkError(t) PROVE TypeOK'
  BY <1>5 DEF MarkError, MarkDisconnected, NoBaseline
<1>6. ASSUME NEW t \in Tickers, HandleTicks(t) PROVE TypeOK'
  BY <1>6, StreamAssumption DEF HandleTicks, Connection
<1>7. CASE SubscribeSucceeds BY <1>7 DEF SubscribeSucceeds
<1>8. CASE SubscribeFails BY <1>8 DEF SubscribeFails, NoBaseline
<1>12. CASE DropStream BY <1>12 DEF DropStream, Disconnect, Closed
<1>9. CASE MarkConnected BY <1>9 DEF MarkConnected
<1>10. CASE SaveEnds BY <1>10 DEF SaveEnds
<1>11. CASE UNCHANGED vars BY <1>11 DEF vars
<1> QED BY <1>1, <1>2, <1>3, <1>4, <1>5, <1>6, <1>7, <1>8, <1>9, <1>10, <1>11, <1>12 DEF Next, TickerStep

\* They hold at the start.
LEMMA TypeInit == Init => TypeOK
<1> SUFFICES ASSUME Init PROVE TypeOK OBVIOUS
<1>1. /\ stage \in [Callers -> Stages] /\ onLoop \in Callers \cup {None}
      /\ stream \in Tickers \cup {None} /\ lastError \in Errors
      /\ saves \in Nat /\ callback \in {"none", "subscribe", "mark", "drop"}
      /\ blamed \in Tickers \cup {None} /\ victim \in Tickers \cup {None}
      /\ ticker \in [Tickers -> Phases] /\ connection \in [Tickers -> Nat]
      /\ subscribed \subseteq Tickers
  BY DEF Init, Stages, Phases, Errors
<1>2. baseline \in [ticker : Tickers \cup {None}, number : Nat] BY DEF Init, NoBaseline
<1>3. connected \in BOOLEAN BY Zenon DEF Init
<1> QED BY <1>1, <1>2, <1>3 DEF TypeOK

\* The state of the stream controller stays well-formed.
THEOREM TypeCorrect == Spec => []TypeOK
BY TypeInit, TypeStep, PTL DEF Spec

-----------------------------------------------------------------------------
(* A stream that is called connected. *)

Doomed == {"lost", "closing", "aborting"}

\* Behind a stream that is, or is about to be, marked connected there is a ticker that
\* is open and subscribed, or one whose on_close is still to come and will unmark it.
Backed ==
    connected \/ callback = "mark" =>
        \E t \in Tickers : \/ ticker[t] = "open" /\ t \in subscribed
                           \/ ticker[t] \in Doomed

\* Closing a ticker leaves a backing ticker one: it still has to announce its end.
LEMMA BackedDisconnect ==
    ASSUME TypeOK, NEW s \in Tickers, Disconnect(s), NEW t \in Tickers,
           (ticker[t] = "open" /\ t \in subscribed) \/ ticker[t] \in Doomed
    PROVE  (ticker'[t] = "open" /\ t \in subscribed') \/ ticker'[t] \in Doomed
BY DEF TypeOK, Disconnect, Closed, Doomed, Phases

\* Every step keeps it.
LEMMA BackedStep == TypeOK /\ Backed /\ [Next]_vars => Backed'
<1> SUFFICES ASSUME TypeOK, Backed, [Next]_vars PROVE Backed' OBVIOUS
<1> USE DEF service, external, history
<1>s. CASE UNCHANGED <<connected, callback, ticker, subscribed>> BY <1>s DEF Backed
<1>f. CASE connected' = FALSE /\ callback' # "mark" BY <1>f DEF Backed
<1>d. ASSUME stream \in Tickers, Disconnect(stream), UNCHANGED <<connected, callback>>
      PROVE  Backed'
  BY <1>d, BackedDisconnect DEF Backed
<1>1. ASSUME NEW c \in Callers, CallerStep(c) PROVE Backed'
  <2>1. CASE Start(c) BY <1>s, <2>1 DEF Start
  <2>2. CASE Inspected(c) BY <1>s, <2>2 DEF Inspected
  <2>3. CASE SessionObtained(c)
    <3>1. (connected' = FALSE \/ connected' = connected) /\ UNCHANGED <<callback, ticker, subscribed>>
      BY <2>3 DEF SessionObtained
    <3> QED BY <3>1 DEF Backed
  <2>4. CASE CreateFails(c) BY <2>4 DEF CreateFails, Backed
  <2>5. ASSUME NEW t \in Tickers, CreateStream(c, t) PROVE Backed'
    <3>1. /\ ticker[t] = "new" /\ ticker' = [ticker EXCEPT ![t] = "connecting"]
          /\ UNCHANGED <<connected, callback, subscribed>>
      BY <2>5 DEF CreateStream
    <3> QED BY <3>1 DEF Backed, TypeOK, Doomed
  <2>6. CASE Stop(c)
    <3>1. CASE stream = None BY <1>s, <2>6, <3>1 DEF Stop
    <3>2. CASE stream # None BY <1>d, <2>6, <3>2 DEF Stop, TypeOK
    <3> QED BY <3>1, <3>2
  <2>7. CASE StopEnds(c) BY <2>7 DEF StopEnds, Backed
  <2> QED BY <1>1, <2>1, <2>2, <2>3, <2>4, <2>5, <2>6, <2>7 DEF CallerStep
<1>2. ASSUME NEW t \in Tickers, ConnectionLost(t) PROVE Backed'
  BY <1>2 DEF ConnectionLost, Backed, TypeOK, Doomed
<1>3. ASSUME NEW t \in Tickers, OnConnect(t) PROVE Backed'
  <2>1. /\ ticker[t] \in {"connecting", "aborting"} /\ UNCHANGED <<connected, subscribed>>
        /\ ticker' = [ticker EXCEPT ![t] = IF @ = "connecting" THEN "open" ELSE "closing"]
        /\ callback' # "mark"
    BY <1>3 DEF OnConnect
  <2> QED BY <2>1 DEF Backed, TypeOK, Doomed
<1>4. ASSUME NEW t \in Tickers, OnClose(t) PROVE Backed'
  BY <1>4, <1>f DEF OnClose, MarkDisconnected
<1>5. ASSUME NEW t \in Tickers, MarkError(t) PROVE Backed'
  BY <1>5, <1>f DEF MarkError, MarkDisconnected
<1>6. ASSUME NEW t \in Tickers, HandleTicks(t) PROVE Backed'
  BY <1>6, <1>s DEF HandleTicks
<1>7. CASE SubscribeSucceeds
  <2>1. stream \in Tickers /\ ticker'[stream] = "open" /\ stream \in subscribed'
    BY <1>7 DEF SubscribeSucceeds, TypeOK
  <2> QED BY <2>1 DEF Backed, TypeOK
<1>8. CASE SubscribeFails BY <1>8, <1>f DEF SubscribeFails
<1>12. CASE DropStream
  <2>1. callback' = "none" /\ callback = "drop" /\ UNCHANGED <<connected, stream>>
    BY <1>12 DEF DropStream
  <2>2. CASE stream = None
    <3>1. UNCHANGED <<ticker, subscribed>> BY <1>12, <2>2 DEF DropStream
    <3> QED BY <2>1, <3>1 DEF Backed
  <2>3. CASE stream # None
    <3>1. stream \in Tickers /\ Disconnect(stream) BY <1>12, <2>3 DEF DropStream, TypeOK
    <3> QED BY <2>1, <3>1, BackedDisconnect DEF Backed
  <2> QED BY <2>2, <2>3
<1>9. CASE MarkConnected BY <1>9 DEF MarkConnected, Backed
<1>10. CASE SaveEnds BY <1>10, <1>s DEF SaveEnds
<1>11. CASE UNCHANGED vars BY <1>11, <1>s DEF vars
<1> QED BY <1>1, <1>2, <1>3, <1>4, <1>5, <1>6, <1>7, <1>8, <1>9, <1>10, <1>11, <1>12 DEF Next, TickerStep

\* A stream that is reported healthy is open and subscribed.
THEOREM HealthCorrect == Spec => []HealthyIsSubscribed
<1>1. Init => TypeOK /\ Backed BY TypeInit DEF Init, Backed
<1>2. TypeOK /\ Backed /\ [Next]_vars => (TypeOK /\ Backed)' BY TypeStep, BackedStep
<1>3. TypeOK /\ Backed => HealthyIsSubscribed
  <2> SUFFICES ASSUME TypeOK, Backed, Settled, Healthy, \A t \in Tickers : Owned(t)
               PROVE  ticker[stream] = "open" /\ stream \in subscribed
    BY DEF HealthyIsSubscribed
  <2>1. PICK t \in Tickers : (ticker[t] = "open" /\ t \in subscribed) \/ ticker[t] \in Doomed
    BY DEF Backed, Healthy
  <2>2. ticker[t] = "open" /\ t \in subscribed BY <2>1 DEF Settled, Doomed
  <2>3. stream = t BY <2>2 DEF Owned
  <2> QED BY <2>2, <2>3
<1> QED BY <1>1, <1>2, <1>3, PTL DEF Spec

-----------------------------------------------------------------------------
(* A stream that is dead. *)

Dead == {"aborting", "closing", "closed"}

\* Who holds the loop between two steps creates a stream or ends a stop.
LoopOK == onLoop # None => stage[onLoop] \in {"create", "stopping"}

\* The handler of a failed subscription, on its way to close the stream it failed for,
\* has left an error, unless a start that holds the loop is about to replace that stream.
BlameOK ==
    /\ stream # None => ticker[stream] # "new"
    /\ blamed # None => ticker[blamed] # "new"
    /\ callback = "drop" /\ stream # None /\ stream = blamed /\ onLoop = None => lastError # None

\* Closing a ticker makes no ticker new.
LEMMA NewDisconnect ==
    ASSUME TypeOK, NEW s \in Tickers, Disconnect(s), NEW t \in Tickers, ticker[t] # "new"
    PROVE  ticker'[t] # "new"
BY DEF TypeOK, Disconnect, Closed, Phases

\* Every step keeps that.
LEMMA BlameStep == TypeOK /\ LoopOK /\ BlameOK /\ [Next]_vars => BlameOK'
<1> SUFFICES ASSUME TypeOK, LoopOK, BlameOK, [Next]_vars PROVE BlameOK' OBVIOUS
<1> USE DEF service, external, history
<1>n. \A c \in Callers : c # None BY NoneAssumption
<1>o. (stream # None => stream \in Tickers) /\ (blamed # None => blamed \in Tickers) BY DEF TypeOK
<1>e. "stream_missing_on_connect" # None /\ "candle_persistence_failed" # None /\ "stream_subscription_failed" # None
  BY DEF None
<1>s. ASSUME UNCHANGED <<stream, blamed, onLoop, lastError>>, callback' = callback \/ callback' # "drop",
             \A t \in Tickers : ticker[t] # "new" => ticker'[t] # "new"
      PROVE  BlameOK'
  BY <1>s, <1>o DEF BlameOK
<1>1. ASSUME NEW c \in Callers, CallerStep(c) PROVE BlameOK'
  <2>1. CASE Start(c) BY <1>s, <2>1 DEF Start
  <2>2. CASE Inspected(c) BY <1>s, <2>2 DEF Inspected
  <2>3. CASE SessionObtained(c)
    <3>1. CASE onLoop' = c BY <1>n, <2>3, <3>1 DEF SessionObtained, BlameOK
    <3>2. CASE onLoop' # c BY <1>s, <2>3, <3>2 DEF SessionObtained
    <3> QED BY <3>1, <3>2
  <2>4. CASE CreateFails(c) BY <2>4, <1>n DEF CreateFails, BlameOK
  <2>5. ASSUME NEW t \in Tickers, CreateStream(c, t) PROVE BlameOK'
    <3>1. /\ stream' = t /\ ticker[t] = "new" /\ UNCHANGED blamed
          /\ \A u \in Tickers : ticker'[u] = IF u = t THEN "connecting" ELSE ticker[u]
      BY <2>5 DEF CreateStream, TypeOK
    <3>2. blamed # t BY <3>1, <1>o, NoneAssumption DEF BlameOK
    <3> QED BY <3>1, <3>2, <1>o DEF BlameOK
  <2>6. CASE Stop(c)
    <3>1. onLoop = None BY <2>6 DEF Stop, Runs, LoopOK
    <3>2. \A t \in Tickers : ticker[t] # "new" => ticker'[t] # "new"
      <4>1. CASE stream = None BY <2>6, <4>1 DEF Stop
      <4>2. CASE stream # None BY <2>6, <4>2, <1>o, NewDisconnect DEF Stop
      <4> QED BY <4>1, <4>2
    <3>3. UNCHANGED <<stream, blamed, lastError, callback>> BY <2>6 DEF Stop
    <3> QED BY <3>1, <3>2, <3>3, <1>o DEF BlameOK
  <2>7. CASE StopEnds(c) BY <2>7, <1>n DEF StopEnds, BlameOK
  <2> QED BY <1>1, <2>1, <2>2, <2>3, <2>4, <2>5, <2>6, <2>7 DEF CallerStep
<1>2. ASSUME NEW t \in Tickers, ConnectionLost(t) PROVE BlameOK'
  BY <1>2, <1>s DEF ConnectionLost, TypeOK
<1>3. ASSUME NEW t \in Tickers, OnConnect(t) PROVE BlameOK'
  <2>1. /\ callback' # "drop" /\ UNCHANGED <<stream, blamed>>
        /\ ticker' = [ticker EXCEPT ![t] = IF @ = "connecting" THEN "open" ELSE "closing"]
    BY <1>3 DEF OnConnect
  <2>2. \A u \in Tickers : ticker[u] # "new" => ticker'[u] # "new" BY <2>1 DEF TypeOK
  <2> QED BY <2>1, <2>2, <1>o DEF BlameOK
<1>4. ASSUME NEW t \in Tickers, OnClose(t) PROVE BlameOK'
  <2>1. /\ UNCHANGED <<stream, blamed, onLoop, lastError, callback>>
        /\ ticker' = [ticker EXCEPT ![t] = IF @ = "lost" THEN "connecting" ELSE "closed"]
    BY <1>4 DEF OnClose
  <2>2. \A u \in Tickers : ticker[u] # "new" => ticker'[u] # "new" BY <2>1 DEF TypeOK
  <2> QED BY <1>s, <2>1, <2>2
<1>5. ASSUME NEW t \in Tickers, MarkError(t) PROVE BlameOK' BY <1>5, <1>o DEF MarkError, BlameOK
<1>6. ASSUME NEW t \in Tickers, HandleTicks(t) PROVE BlameOK' BY <1>6, <1>s DEF HandleTicks
<1>7. CASE SubscribeSucceeds BY <1>7, <1>s DEF SubscribeSucceeds
<1>8. CASE SubscribeFails BY <1>8, <1>e, <1>o DEF SubscribeFails, BlameOK
<1>12. CASE DropStream
  <2>1. callback' = "none" /\ blamed' = None /\ UNCHANGED stream BY <1>12 DEF DropStream
  <2>2. \A t \in Tickers : ticker[t] # "new" => ticker'[t] # "new"
    <3>1. CASE stream = None BY <1>12, <3>1 DEF DropStream
    <3>2. CASE stream # None BY <1>12, <3>2, <1>o, NewDisconnect DEF DropStream
    <3> QED BY <3>1, <3>2
  <2> QED BY <2>1, <2>2, <1>o DEF BlameOK
<1>9. CASE MarkConnected BY <1>9, <1>s DEF MarkConnected
<1>10. CASE SaveEnds BY <1>10, <1>e, <1>o DEF SaveEnds, BlameOK
<1>11. CASE UNCHANGED vars BY <1>11, <1>s DEF vars
<1> QED BY <1>1, <1>2, <1>3, <1>4, <1>5, <1>6, <1>7, <1>8, <1>9, <1>10, <1>11, <1>12 DEF Next, TickerStep

\* Every step keeps that and shows the error of a dead stream.
LEMMA DeadStep == TypeOK /\ LoopOK /\ BlameOK /\ DeadStreamReported /\ [Next]_vars
                    => (LoopOK /\ DeadStreamReported)'
<1> SUFFICES ASSUME TypeOK, LoopOK, BlameOK, DeadStreamReported, [Next]_vars
             PROVE  LoopOK' /\ DeadStreamReported'
  OBVIOUS
<1> USE DEF service, external, history
<1>n. \A c \in Callers : c # None BY NoneAssumption
<1>t. ASSUME UNCHANGED <<onLoop, stage>> PROVE LoopOK' BY <1>t DEF LoopOK
<1>1. ASSUME NEW c \in Callers, CallerStep(c) PROVE LoopOK' /\ DeadStreamReported'
  <2>0. Runs(c) => \A d \in Callers : d # c => onLoop # d BY <1>n DEF Runs
  <2>1. CASE Start(c)
    BY <1>n, <2>0, <2>1 DEF Start, Runs, TypeOK, LoopOK, DeadStreamReported
  <2>2. CASE Inspected(c)
    BY <1>n, <2>0, <2>2 DEF Inspected, Runs, TypeOK, LoopOK, DeadStreamReported
  <2>3. CASE SessionObtained(c)
    <3>1. CASE onLoop' = c
      BY <1>n, <2>3, <3>1 DEF SessionObtained, Runs, TypeOK, LoopOK, DeadStreamReported
    <3>2. CASE onLoop' # c
      BY <1>n, <2>3, <3>2 DEF SessionObtained, Runs, TypeOK, LoopOK, DeadStreamReported
    <3> QED BY <3>1, <3>2
  <2>4. CASE CreateFails(c)
    BY <1>n, <2>4 DEF CreateFails, LoopOK, DeadStreamReported
  <2>5. ASSUME NEW t \in Tickers, CreateStream(c, t) PROVE LoopOK' /\ DeadStreamReported'
    <3>1. stream' = t /\ ticker'[t] = "connecting" /\ onLoop' = None
      BY <2>5 DEF CreateStream, TypeOK
    <3> QED BY <3>1 DEF LoopOK, DeadStreamReported
  <2>6. CASE Stop(c)
    <3>1. stage' = [stage EXCEPT ![c] = "stopping"] /\ onLoop' \in {c, None} BY <2>6 DEF Stop
    <3>2. stage'[c] = "stopping" BY <3>1 DEF TypeOK
    <3> QED BY <1>n, <3>1, <3>2 DEF LoopOK, DeadStreamReported
  <2>7. CASE StopEnds(c)
    BY <2>7 DEF StopEnds, LoopOK, DeadStreamReported
  <2> QED BY <1>1, <2>1, <2>2, <2>3, <2>4, <2>5, <2>6, <2>7 DEF CallerStep
<1>2. ASSUME NEW t \in Tickers, ConnectionLost(t) PROVE LoopOK' /\ DeadStreamReported'
  BY <1>2, <1>t DEF ConnectionLost, TypeOK, DeadStreamReported
<1>3. ASSUME NEW t \in Tickers, OnConnect(t) PROVE LoopOK' /\ DeadStreamReported'
  <2>1. /\ ticker[t] \in {"connecting", "aborting"} /\ UNCHANGED <<stage, onLoop, stream, victim>>
        /\ ticker' = [ticker EXCEPT ![t] = IF @ = "connecting" THEN "open" ELSE "closing"]
        /\ lastError' = lastError \/ lastError' = "stream_missing_on_connect"
    BY <1>3 DEF OnConnect
  <2>2. lastError # None => lastError' # None BY <2>1 DEF None
  <2>3. stream # None /\ ticker'[stream] \in Dead => ticker[stream] \in Dead
    BY <2>1 DEF TypeOK, Dead
  <2> QED BY <1>t, <2>1, <2>2, <2>3 DEF DeadStreamReported, Dead
<1>4. ASSUME NEW t \in Tickers, OnClose(t) PROVE LoopOK' /\ DeadStreamReported'
  <2>1. /\ ticker[t] \in {"lost", "aborting", "closing"} /\ UNCHANGED <<stage, onLoop, stream, lastError, victim>>
        /\ ticker' = [ticker EXCEPT ![t] = IF @ = "lost" THEN "connecting" ELSE "closed"]
    BY <1>4 DEF OnClose
  <2>2. stream # None /\ ticker'[stream] \in Dead => ticker[stream] \in Dead
    BY <2>1 DEF TypeOK, Dead
  <2> QED BY <1>t, <2>1, <2>2 DEF DeadStreamReported, Dead
<1>5. ASSUME NEW t \in Tickers, MarkError(t) PROVE LoopOK' /\ DeadStreamReported'
  BY <1>5, <1>t DEF MarkError, DeadStreamReported, None
<1>6. ASSUME NEW t \in Tickers, HandleTicks(t) PROVE LoopOK' /\ DeadStreamReported'
  BY <1>6, <1>t DEF HandleTicks, DeadStreamReported
<1>7. CASE SubscribeSucceeds BY <1>7, <1>t DEF SubscribeSucceeds, DeadStreamReported
<1>8. CASE SubscribeFails BY <1>8, <1>t DEF SubscribeFails, DeadStreamReported, None
<1>12. CASE DropStream
  <2>1. /\ UNCHANGED <<stage, onLoop, stream, lastError>> /\ callback = "drop"
        /\ victim' = IF stream \in {None, blamed} THEN victim ELSE stream
    BY <1>12 DEF DropStream
  <2>2. stream # None /\ stream = blamed /\ onLoop = None => lastError # None BY <2>1 DEF BlameOK
  <2> QED BY <1>t, <2>1, <2>2 DEF DeadStreamReported
<1>9. CASE MarkConnected BY <1>9, <1>t DEF MarkConnected, DeadStreamReported
<1>10. CASE SaveEnds BY <1>10, <1>t DEF SaveEnds, DeadStreamReported, None
<1>11. CASE UNCHANGED vars BY <1>11, <1>t DEF vars, DeadStreamReported
<1> QED BY <1>1, <1>2, <1>3, <1>4, <1>5, <1>6, <1>7, <1>8, <1>9, <1>10, <1>11, <1>12 DEF Next, TickerStep

\* A dead stream that nobody is stopping shows an error, or its ticker was closed by the
\* handler of another stream's failed subscription.
THEOREM DeathCorrect == Spec => []DeadStreamReported
<1> DEFINE IInv == TypeOK /\ LoopOK /\ BlameOK /\ DeadStreamReported
<1>1. Init => IInv
  BY TypeInit DEF Init, LoopOK, BlameOK, DeadStreamReported
<1>2. IInv /\ [Next]_vars => IInv'
  BY TypeStep, DeadStep, BlameStep
<1>3. IInv => DeadStreamReported OBVIOUS
<1> HIDE DEF IInv
<1> QED BY <1>1, <1>2, <1>3, PTL DEF Spec

-----------------------------------------------------------------------------
(* The baseline of the candle builder. *)

\* Ticks come from open connections only, and the baseline is from the latest connection
\* of its ticker: a ticker connects again only after an on_close, which drops it.
BaselineOK ==
    /\ \A t \in subscribed : ticker[t] = "open"
    /\ baseline.ticker = None => baseline = NoBaseline
    /\ baseline.ticker # None =>
          /\ baseline.number = connection[baseline.ticker]
          /\ ticker[baseline.ticker] \in {"open", "lost", "closing", "closed"}

\* A step that leaves the connections alone and opens or reopens none.
LEMMA BaselineFrame ==
    ASSUME TypeOK, BaselineOK, UNCHANGED connection,
           baseline' = baseline \/ baseline' = NoBaseline,
           \A t \in subscribed' : ticker'[t] = "open",
           baseline' = baseline => \A t \in Tickers :
              ticker[t] \in {"open", "lost", "closing", "closed"} =>
                 ticker'[t] \in {"open", "lost", "closing", "closed"}
    PROVE  BaselineOK'
<1>1. CASE baseline' = NoBaseline
  <2>1. NoBaseline.ticker = None BY DEF NoBaseline
  <2> QED BY <1>1, <2>1 DEF BaselineOK, NoBaseline
<1>2. CASE baseline' = baseline
  <2>1. baseline.ticker # None => baseline.ticker \in Tickers BY DEF TypeOK
  <2> QED BY <1>2, <2>1 DEF BaselineOK, NoBaseline
<1> QED BY <1>1, <1>2

\* Closing a ticker is such a step.
LEMMA BaselineDisconnect ==
    ASSUME TypeOK, BaselineOK, NEW s \in Tickers, Disconnect(s)
    PROVE  /\ \A t \in subscribed' : ticker'[t] = "open"
           /\ \A t \in Tickers : ticker[t] \in {"open", "lost", "closing", "closed"} =>
                 ticker'[t] \in {"open", "lost", "closing", "closed"}
BY DEF TypeOK, BaselineOK, Disconnect, Closed, Phases

\* Every step keeps it and, where the ticker stays, the baseline.
LEMMA BaselineStep ==
    TypeOK /\ BaselineOK /\ [Next]_vars
       => BaselineOK' /\ (baseline'.ticker = baseline.ticker => baseline' = baseline)
<1> SUFFICES ASSUME TypeOK, BaselineOK, [Next]_vars
             PROVE  BaselineOK' /\ (baseline'.ticker = baseline.ticker => baseline' = baseline)
  OBVIOUS
<1> DEFINE Goal == BaselineOK' /\ (baseline'.ticker = baseline.ticker => baseline' = baseline)
<1>0. NoBaseline.ticker = None BY DEF NoBaseline
<1>k. ASSUME UNCHANGED <<connection, baseline, ticker, subscribed>> PROVE Goal
  <2>1. BaselineOK' BY <1>k, BaselineFrame DEF BaselineOK
  <2> QED BY <1>k, <2>1
<1>f. ASSUME UNCHANGED connection, baseline' = baseline \/ baseline' = NoBaseline,
             \A t \in subscribed' : ticker'[t] = "open",
             baseline' = baseline => \A t \in Tickers :
                ticker[t] \in {"open", "lost", "closing", "closed"} =>
                   ticker'[t] \in {"open", "lost", "closing", "closed"}
      PROVE  Goal
  <2>1. BaselineOK' BY <1>f, BaselineFrame
  <2>2. baseline' = NoBaseline /\ baseline'.ticker = baseline.ticker => baseline' = baseline
    BY <1>0 DEF BaselineOK
  <2> QED BY <1>f, <2>1, <2>2
<1> USE DEF service, external, history
<1>1. ASSUME NEW c \in Callers, CallerStep(c) PROVE Goal
  <2>1. CASE Start(c) BY <1>k, <2>1 DEF Start
  <2>2. CASE Inspected(c) BY <1>k, <2>2 DEF Inspected
  <2>3. CASE SessionObtained(c) BY <1>k, <2>3 DEF SessionObtained
  <2>4. CASE CreateFails(c) BY <1>k, <2>4 DEF CreateFails
  <2>5. ASSUME NEW t \in Tickers, CreateStream(c, t) PROVE Goal
    <3>1. /\ ticker[t] = "new" /\ ticker' = [ticker EXCEPT ![t] = "connecting"]
          /\ UNCHANGED <<connection, baseline, subscribed>>
      BY <2>5 DEF CreateStream
    <3>2. \A u \in Tickers : ticker'[u] = IF u = t THEN "connecting" ELSE ticker[u]
      BY <3>1 DEF TypeOK
    <3>3. \A u \in subscribed' : ticker'[u] = "open" BY <3>1, <3>2 DEF TypeOK, BaselineOK
    <3>4. \A u \in Tickers : ticker[u] \in {"open", "lost", "closing", "closed"} =>
             ticker'[u] \in {"open", "lost", "closing", "closed"}
      BY <3>1, <3>2
    <3> QED BY <1>f, <3>1, <3>3, <3>4
  <2>6. CASE Stop(c)
    <3>1. CASE stream = None BY <1>k, <2>6, <3>1 DEF Stop
    <3>2. CASE stream # None
      <4>1. stream \in Tickers /\ Disconnect(stream) /\ UNCHANGED <<connection, baseline>>
        BY <2>6, <3>2 DEF Stop, TypeOK
      <4> QED BY <1>f, <4>1, BaselineDisconnect
    <3> QED BY <3>1, <3>2
  <2>7. CASE StopEnds(c) BY <1>k, <2>7 DEF StopEnds
  <2> QED BY <1>1, <2>1, <2>2, <2>3, <2>4, <2>5, <2>6, <2>7 DEF CallerStep
<1>2. ASSUME NEW t \in Tickers, ConnectionLost(t) PROVE Goal
  <2>1. /\ ticker' = [ticker EXCEPT ![t] = "lost"] /\ subscribed' = subscribed \ {t}
        /\ UNCHANGED <<connection, baseline>>
    BY <1>2 DEF ConnectionLost
  <2>2. \A u \in Tickers : ticker'[u] = IF u = t THEN "lost" ELSE ticker[u] BY <2>1 DEF TypeOK
  <2>3. \A u \in subscribed' : ticker'[u] = "open" BY <2>1, <2>2 DEF TypeOK, BaselineOK
  <2>4. \A u \in Tickers : ticker[u] \in {"open", "lost", "closing", "closed"} =>
           ticker'[u] \in {"open", "lost", "closing", "closed"}
    BY <2>2
  <2> QED BY <1>f, <2>1, <2>3, <2>4
<1>3. ASSUME NEW t \in Tickers, OnConnect(t) PROVE Goal
  <2>1. /\ ticker[t] \in {"connecting", "aborting"} /\ UNCHANGED <<baseline, subscribed>>
        /\ ticker' = [ticker EXCEPT ![t] = IF @ = "connecting" THEN "open" ELSE "closing"]
        /\ connection' = [connection EXCEPT ![t] = @ + 1]
    BY <1>3 DEF OnConnect
  <2>2. \A u \in Tickers \ {t} : ticker'[u] = ticker[u] /\ connection'[u] = connection[u]
    BY <2>1 DEF TypeOK
  <2>3. t \notin subscribed /\ baseline.ticker # t
    BY <2>1, NoneAssumption DEF BaselineOK
  <2>4. \A u \in subscribed' : ticker'[u] = "open" BY <2>1, <2>2, <2>3 DEF TypeOK, BaselineOK
  <2>5. baseline.ticker # None => baseline.ticker \in Tickers \ {t} BY <2>3 DEF TypeOK
  <2>6. BaselineOK' BY <2>1, <2>2, <2>4, <2>5 DEF BaselineOK, NoBaseline
  <2> QED BY <2>1, <2>6
<1>4. ASSUME NEW t \in Tickers, OnClose(t) PROVE Goal
  <2>1. /\ baseline' = NoBaseline /\ UNCHANGED <<connection, subscribed>>
        /\ ticker[t] \in {"lost", "aborting", "closing"}
        /\ ticker' = [ticker EXCEPT ![t] = IF @ = "lost" THEN "connecting" ELSE "closed"]
    BY <1>4 DEF OnClose, MarkDisconnected
  <2>2. \A u \in subscribed' : ticker'[u] = "open" BY <2>1 DEF TypeOK, BaselineOK
  <2>3. BaselineOK' BY <1>0, <2>1, <2>2 DEF BaselineOK, NoBaseline
  <2> QED BY <1>0, <2>1, <2>3 DEF BaselineOK
<1>5. ASSUME NEW t \in Tickers, MarkError(t) PROVE Goal
  BY <1>5, <1>f DEF MarkError, MarkDisconnected, BaselineOK
<1>6. ASSUME NEW t \in Tickers, HandleTicks(t) PROVE Goal
  <2>1. t \in subscribed /\ baseline' = [ticker |-> t, number |-> connection[t]]
        /\ UNCHANGED <<ticker, connection, subscribed>>
    BY <1>6 DEF HandleTicks, Connection
  <2>2. baseline'.ticker = t /\ baseline'.number = connection[t] BY <2>1
  <2>3. t # None /\ ticker[t] = "open" BY <2>1, NoneAssumption DEF BaselineOK
  <2>4. BaselineOK' BY <2>1, <2>2, <2>3 DEF BaselineOK
  <2>5. ASSUME baseline.ticker = t PROVE baseline' = baseline
    BY <2>1, <2>3, <2>5 DEF BaselineOK, TypeOK
  <2> QED BY <2>2, <2>4, <2>5
<1>7. CASE SubscribeSucceeds
  <2>1. /\ stream \in Tickers /\ ticker[stream] = "open" /\ subscribed' = subscribed \cup {stream}
        /\ UNCHANGED <<baseline, ticker, connection>>
    BY <1>7 DEF SubscribeSucceeds, TypeOK
  <2> QED BY <1>f, <2>1 DEF BaselineOK
<1>8. CASE SubscribeFails
  <2>1. baseline' = NoBaseline /\ UNCHANGED <<connection, ticker, subscribed>> BY <1>8 DEF SubscribeFails
  <2> QED BY <1>f, <2>1 DEF BaselineOK
<1>12. CASE DropStream
  <2>1. UNCHANGED <<connection, baseline>> BY <1>12 DEF DropStream
  <2>2. CASE stream = None
    <3>1. UNCHANGED <<ticker, subscribed>> BY <1>12, <2>2 DEF DropStream
    <3> QED BY <1>k, <2>1, <3>1
  <2>3. CASE stream # None
    <3>1. stream \in Tickers /\ Disconnect(stream) BY <1>12, <2>3 DEF DropStream, TypeOK
    <3> QED BY <1>f, <2>1, <3>1, BaselineDisconnect
  <2> QED BY <2>2, <2>3
<1>9. CASE MarkConnected BY <1>9, <1>k DEF MarkConnected
<1>10. CASE SaveEnds BY <1>10, <1>k DEF SaveEnds
<1>11. CASE UNCHANGED vars BY <1>11, <1>k DEF vars
<1> QED BY <1>1, <1>2, <1>3, <1>4, <1>5, <1>6, <1>7, <1>8, <1>9, <1>10, <1>11, <1>12 DEF Next, TickerStep

\* The builder never goes on with the baseline of an earlier connection of a ticker.
THEOREM BaselineCorrect == Spec => ReconnectInvalidates
<1>1. Init => TypeOK /\ BaselineOK BY TypeInit DEF Init, BaselineOK, NoBaseline
<1>2. TypeOK /\ BaselineOK /\ [Next]_vars => (TypeOK /\ BaselineOK)' BY TypeStep, BaselineStep
<1>3. TypeOK /\ BaselineOK /\ [Next]_vars
        => [baseline'.ticker = baseline.ticker => baseline' = baseline]_vars
  BY BaselineStep
<1> QED BY <1>1, <1>2, <1>3, PTL DEF Spec, ReconnectInvalidates
=============================================================================
