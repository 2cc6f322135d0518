------------------------- MODULE DecisionEvaluation -------------------------
(***************************************************************************)
(* Evaluation of scanner candidates by a model (backend/app/decision/      *)
(* service.py, repository.py and automation.py).                           *)
(*                                                                         *)
(* Batches (the market-ops scanner job and the evaluate-latest route)      *)
(* share one process-local service and its evaluation lock.  Every         *)
(* operator request builds a service of its own, so that only the unique   *)
(* evaluation key stands between it and the batches.  A caller is at one   *)
(* of its awaits; what a service does between two awaits is one step.      *)
(* Signals are numbered in the order in which they were stored.            *)
(***************************************************************************)
EXTENDS Integers, Sequences, FiniteSets

CONSTANTS
    Batches,           \* callers of the automation service
    Operators,         \* callers of the evaluate route
    SignalCount,       \* signals that may be stored
    Signal,            \* [1 .. SignalCount -> row]
    Modes,             \* evaluation modes an API process may be started with
    Answers,           \* raw outputs of the model
    MinConfidence,     \* OPENAI_DECISION_MIN_CONFIDENCE, in percent
    MaxSignals,        \* MARKET_OPS_DECISION_AUTO_EVALUATE_MAX_SIGNALS
    NotifyVerdicts,    \* MARKET_OPS_DECISION_NOTIFY_VERDICTS
    MaxForced          \* bound: forced evaluations

Verdicts == {"ELIGIBLE", "WATCH", "REJECT"}

\* What is told apart of a signal: its status, whether its features can be
\* read, and whether quote or spread context is missing.
SignalRow == [candidate : BOOLEAN, features : BOOLEAN, warnings : BOOLEAN]

\* A raw output; wellFormed is the outcome of the structural checks (object,
\* prohibited fields and values, external facts, schema), own says that its
\* strategy is the signal's.
Answer == [wellFormed : BOOLEAN, own : BOOLEAN, sufficient : BOOLEAN,
           verdict : Verdicts, confidence : 0 .. 100]

ASSUME DecisionAssumption ==
    /\ Batches \cap Operators = {} /\ "free" \notin Batches \cup Operators
    /\ SignalCount \in Nat /\ Signal \in [1 .. SignalCount -> SignalRow]
    /\ Modes \subseteq {"HISTORICAL_REPLAY", "LIVE_SHADOW", "FUTURE_LIVE_ELIGIBILITY"}
    /\ Answers \subseteq Answer
    /\ MinConfidence \in 0 .. 100 /\ MaxSignals \in Int /\ MaxForced \in Nat
    /\ NotifyVerdicts \subseteq Verdicts

Callers == Batches \cup Operators
Free == "free"

\* The adapter raised: no key, a timeout, an incomplete or invalid response;
\* or the input could not be built.
NoAnswer == [wellFormed |-> FALSE, own |-> FALSE, sufficient |-> FALSE,
             verdict |-> "REJECT", confidence |-> 0]

VARIABLES
    mode,       \* evaluation mode of the API process
    stored,     \* signals 1 .. stored are in the table
    recs,       \* recommendations with their model runs, in the order of ids; told
                \* is history: the notifications of each, two at most
    lock,       \* holder of the automation service's _evaluation_lock
    job,        \* [Callers -> Job]: what each caller is doing
    calls       \* history: [signal -> model calls of batches that recorded or still may]

vars == <<mode, stored, recs, lock, job, calls>>

Idle == [pc |-> "idle", since |-> 0, until |-> 0, todo |-> <<>>, signal |-> 0,
         force |-> FALSE, raw |-> NoAnswer, rec |-> 0]

-----------------------------------------------------------------------------
(* _validate_output. *)

\* Missing quote or spread context turns ELIGIBLE into WATCH.
ShadowWatch(s, m) == m = "LIVE_SHADOW" /\ Signal[s].warnings

\* What ends as _safe_reject with an error code.
SafeReject(s, m, a) ==
    \/ ~a.wellFormed \/ ~a.own \/ ~a.sufficient
    \/ /\ a.verdict = "ELIGIBLE"
       /\ \/ a.confidence < MinConfidence
          \/ m = "FUTURE_LIVE_ELIGIBILITY" /\ Signal[s].warnings

Verdict(s, m, a) ==
    IF SafeReject(s, m, a) THEN "REJECT"
    ELSE IF a.verdict = "ELIGIBLE" /\ ShadowWatch(s, m) THEN "WATCH"
    ELSE a.verdict

Status(s, m, a) == IF SafeReject(s, m, a) THEN "FAILED" ELSE "COMPLETED"

-----------------------------------------------------------------------------
(* The tables. *)

\* The recommendation under the unforced evaluation key of s, if any.
FindByEvaluationKey(s) ==
    {i \in DOMAIN recs : recs[i].keyed /\ recs[i].signal = s /\ recs[i].mode = mode}

\* Evaluated under this identity, forced or not.
Evaluated(s) == \E i \in DOMAIN recs : recs[i].signal = s /\ recs[i].mode = mode

BoundedMax == IF MaxSignals < 1 THEN 1 ELSE IF MaxSignals > 50 THEN 50 ELSE MaxSignals

\* The candidates stored in the window since .. until without an evaluation.
UnevaluatedCandidates(since, until) ==
    {s \in since + 1 .. until : Signal[s].candidate /\ ~Evaluated(s)}

\* The first limit members of a set of signals, oldest or newest first.
Listed(S, limit, oldestFirst) ==
    LET Before(s, t) == IF oldestFirst THEN s < t ELSE s > t
        n == IF Cardinality(S) < limit THEN Cardinality(S) ELSE limit
    IN  {ids \in [1 .. n -> S] :
            /\ \A i, j \in 1 .. n : i < j => Before(ids[i], ids[j])
            /\ \A s \in S : (\A i \in 1 .. n : ids[i] # s)
                              => \A i \in 1 .. n : Before(ids[i], s)}

InsertSignal ==
    /\ stored < SignalCount
    /\ stored' = stored + 1
    /\ UNCHANGED <<mode, recs, lock, job, calls>>

-----------------------------------------------------------------------------
(* Starting. *)

\* The scanner batch begins: its window opens.
StartScan(c) ==
    /\ c \in Batches /\ job[c].pc = "idle"
    /\ job' = [job EXCEPT ![c] = [Idle EXCEPT !.pc = "scan", !.since = stored]]
    /\ UNCHANGED <<mode, stored, recs, lock, calls>>

\* The scan is over: its window closes; nothing follows when it met no
\* candidate of its own, or was a dry run.
ScanDone(c) ==
    /\ job[c].pc = "scan"
    /\ \/ job' = [job EXCEPT ![c].pc = "list", ![c].until = stored]
       \/ job' = [job EXCEPT ![c] = Idle]
    /\ UNCHANGED <<mode, stored, recs, lock, calls>>

\* The evaluate-latest route: all signals, newest first.
StartLatest(c) ==
    /\ c \in Batches /\ job[c].pc = "idle"
    /\ job' = [job EXCEPT ![c] = [Idle EXCEPT !.pc = "list", !.since = -1]]
    /\ UNCHANGED <<mode, stored, recs, lock, calls>>

\* The next signal of a batch, or its end.
NextSignal(j) ==
    IF j.todo = <<>> THEN Idle
    ELSE [Idle EXCEPT !.pc = "lock", !.signal = Head(j.todo), !.todo = Tail(j.todo)]

\* list_unevaluated_candidate_ids, cut to the limit.
List(c) ==
    /\ job[c].pc = "list"
    /\ \E ids \in IF job[c].since = -1
                  THEN Listed(UnevaluatedCandidates(0, stored), BoundedMax, FALSE)
                  ELSE Listed(UnevaluatedCandidates(job[c].since, job[c].until), BoundedMax, TRUE) :
          job' = [job EXCEPT ![c] = NextSignal([Idle EXCEPT !.todo = ids])]
    /\ UNCHANGED <<mode, stored, recs, lock, calls>>

\* The evaluate route; a signal that is no candidate is refused.
OperatorEvaluate(c, s, force) ==
    /\ c \in Operators /\ job[c].pc = "idle"
    /\ s <= stored /\ Signal[s].candidate
    /\ force => Cardinality({i \in DOMAIN recs : ~recs[i].keyed})
                  + Cardinality({o \in Operators : job[o].force}) < MaxForced
    /\ job' = [job EXCEPT ![c] = [Idle EXCEPT !.signal = s, !.force = force,
                  !.pc = IF ~force THEN "find"
                         ELSE IF Signal[s].features THEN "adapter" ELSE "record"]]
    /\ UNCHANGED <<mode, stored, recs, lock, calls>>

-----------------------------------------------------------------------------
(* _evaluate_locked. *)

\* Mutant: the listing is trusted, the key is not looked for again.
AcquireLockToModel(c) ==
    /\ job[c].pc = "lock" /\ lock = Free
    /\ lock' = c
    /\ job' = [job EXCEPT ![c].pc = "adapter"]
    /\ calls' = [calls EXCEPT ![job[c].signal] = @ + 1]
    /\ UNCHANGED <<mode, stored, recs>>

AcquireLock(c) ==
    /\ job[c].pc = "lock" /\ lock = Free
    /\ lock' = c
    /\ job' = [job EXCEPT ![c].pc = "find"]
    /\ UNCHANGED <<mode, stored, recs, calls>>

Unlocked(c) == IF lock = c THEN Free ELSE lock

ShouldNotify(i) ==
    LET r == recs[i]
    IN  \/ Status(r.signal, r.mode, r.raw) = "FAILED"
        \/ Verdict(r.signal, r.mode, r.raw) \in NotifyVerdicts

\* evaluate returns recommendation i: the lock is given back, and a batch
\* notifies a new decision before its next signal.
Return(c, i, existing) ==
    /\ lock' = Unlocked(c)
    /\ job' = [job EXCEPT ![c] =
                  IF c \in Operators THEN Idle
                  ELSE IF ~existing /\ ShouldNotify(i)
                  THEN [@ EXCEPT !.pc = "notify", !.rec = i]
                  ELSE NextSignal(@)]

\* An unforced evaluation looks for its key; without one the model is called
\* at once, unless the input cannot be built.
Find(c) ==
    LET s == job[c].signal IN
    /\ job[c].pc = "find"
    /\ \/ \E i \in FindByEvaluationKey(s) : Return(c, i, TRUE) /\ UNCHANGED calls
       \/ /\ FindByEvaluationKey(s) = {}
          /\ job' = [job EXCEPT ![c].pc = IF Signal[s].features THEN "adapter" ELSE "record"]
          /\ calls' = IF c \in Batches /\ Signal[s].features
                      THEN [calls EXCEPT ![s] = @ + 1] ELSE calls
          /\ UNCHANGED lock
    /\ UNCHANGED <<mode, stored, recs>>

\* The model answers, or the adapter raises.
AdapterAnswer(c, raw) ==
    /\ job[c].pc = "adapter"
    /\ job' = [job EXCEPT ![c].pc = "record", ![c].raw = raw]
    /\ UNCHANGED <<mode, stored, recs, lock, calls>>

\* Mutant: there is no unique index.
KeyTakenNever(c) == FALSE

\* The unique index on evaluation_key.
KeyTaken(c) == ~job[c].force /\ FindByEvaluationKey(job[c].signal) # {}

\* Model run and recommendation are committed together.
Record(c) ==
    /\ job[c].pc = "record" /\ ~KeyTaken(c)
    /\ recs' = Append(recs, [signal |-> job[c].signal, mode |-> mode,
                             keyed |-> ~job[c].force, batch |-> c \in Batches,
                             raw |-> job[c].raw, told |-> 0])
    /\ job' = [job EXCEPT ![c].pc = "reselect", ![c].rec = Len(recs'), ![c].raw = NoAnswer]
    /\ UNCHANGED <<mode, stored, lock, calls>>

\* Both are rolled back and the recommendation of the winner is looked for.
RecordConflict(c) ==
    /\ job[c].pc = "record" /\ KeyTaken(c)
    /\ job' = [job EXCEPT ![c].pc = "reread", ![c].raw = NoAnswer]
    /\ UNCHANGED <<mode, stored, recs, lock, calls>>

\* The stored row is the answer.
Reselect(c) ==
    /\ job[c].pc = "reselect"
    /\ Return(c, job[c].rec, FALSE)
    /\ UNCHANGED <<mode, stored, recs, calls>>

\* Mutant: the recommendation of the winner is taken for a new one.
RereadAsNew(c) ==
    /\ job[c].pc = "reread"
    /\ \E i \in FindByEvaluationKey(job[c].signal) : Return(c, i, FALSE)
    /\ UNCHANGED <<mode, stored, recs, calls>>

Reread(c) ==
    /\ job[c].pc = "reread"
    /\ \E i \in FindByEvaluationKey(job[c].signal) : Return(c, i, TRUE)
    /\ UNCHANGED <<mode, stored, recs, calls>>

\* The notification of a decision or of a failure was sent, or was not.
NotifyDone(c) ==
    /\ job[c].pc = "notify"
    /\ \/ job[c].rec # 0 /\ recs' = [recs EXCEPT ![job[c].rec].told = IF @ < 2 THEN @ + 1 ELSE @]
       \/ UNCHANGED recs
    /\ job' = [job EXCEPT ![c] = NextSignal(@)]
    /\ UNCHANGED <<mode, stored, lock, calls>>

-----------------------------------------------------------------------------
(* Failures. *)

\* A call of the model that will not be recorded.
Forget(c) ==
    IF c \in Batches /\ job[c].pc \in {"adapter", "record"} /\ Signal[job[c].signal].features
    THEN [calls EXCEPT ![job[c].signal] = @ - 1] ELSE calls

\* Mutant: an exception leaves the lock behind.
FailKeepsLock(c) ==
    /\ job[c].pc \in {"lock", "find", "record", "reselect", "reread"}
    /\ calls' = Forget(c)
    /\ job' = [job EXCEPT ![c] = IF c \in Operators THEN Idle
                                 ELSE [@ EXCEPT !.pc = "notify", !.rec = 0]]
    /\ UNCHANGED <<mode, stored, recs, lock>>

\* A database call raises: the batch warns and goes on with its next signal.
Fail(c) ==
    /\ job[c].pc \in {"lock", "find", "record", "reselect", "reread"}
    /\ lock' = Unlocked(c)
    /\ calls' = Forget(c)
    /\ job' = [job EXCEPT ![c] = IF c \in Operators THEN Idle
                                 ELSE [@ EXCEPT !.pc = "notify", !.rec = 0]]
    /\ UNCHANGED <<mode, stored, recs>>

\* A batch ends at its await: the scheduler is stopped in the middle of its
\* job, or the listing raises.
Cancel(c) ==
    /\ c \in Batches /\ job[c].pc # "idle"
    /\ lock' = Unlocked(c)
    /\ calls' = Forget(c)
    /\ job' = [job EXCEPT ![c] = Idle]
    /\ UNCHANGED <<mode, stored, recs>>

\* A new API process, maybe with another mode.
ApiRestart(m) ==
    /\ mode' = m /\ lock' = Free
    /\ job' = [c \in Callers |-> Idle]
    /\ calls' = [s \in 1 .. SignalCount |-> 0]
    /\ UNCHANGED <<stored, recs>>

-----------------------------------------------------------------------------
Init ==
    /\ mode \in Modes /\ stored = 0
    /\ recs = <<>> /\ lock = Free
    /\ job = [c \in Callers |-> Idle]
    /\ calls = [s \in 1 .. SignalCount |-> 0]

\* What a caller does by itself once it has begun.
Step(c) ==
    \/ ScanDone(c) \/ List(c) \/ AcquireLock(c) \/ Find(c)
    \/ \E raw \in Answers \cup {NoAnswer} : AdapterAnswer(c, raw)
    \/ Record(c) \/ RecordConflict(c) \/ Reselect(c) \/ Reread(c) \/ NotifyDone(c)

Next ==
    \/ InsertSignal
    \/ \E c \in Callers : Step(c) \/ Fail(c) \/ Cancel(c)
    \/ \E c \in Batches : StartScan(c) \/ StartLatest(c)
    \/ \E c \in Operators, s \in 1 .. SignalCount, force \in BOOLEAN :
          OperatorEvaluate(c, s, force)
    \/ \E m \in Modes : ApiRestart(m)

Spec == Init /\ [][Next]_vars

-----------------------------------------------------------------------------
(* Properties. *)

Job == [pc : {"idle", "scan", "list", "lock", "find", "adapter", "record",
              "reselect", "reread", "notify"},
        since : -1 .. SignalCount, until : 0 .. SignalCount,
        todo : Seq(1 .. SignalCount), signal : 0 .. SignalCount, force : BOOLEAN,
        raw : Answer, rec : Nat]

\* The awaits inside _evaluate_locked.
Locked == {"find", "adapter", "record", "reselect", "reread"}

\* Every variable has its type.
TypeOK ==
    /\ mode \in Modes /\ stored \in 0 .. SignalCount
    /\ recs \in Seq([signal : 1 .. SignalCount, mode : Modes, keyed : BOOLEAN,
                     batch : BOOLEAN, raw : Answer, told : 0 .. 2])
    /\ lock \in Batches \cup {Free}
    /\ job \in [Callers -> Job]
    /\ calls \in [1 .. SignalCount -> Nat]

\* The evaluation lock is held by the one batch that evaluates: overlapping
\* batches evaluate one after the other, and none waits for a batch that
\* failed, was cancelled or is busy notifying.
LockHeldByEvaluation == \A c \in Batches : job[c].pc \in Locked <=> lock = c

\* "signal/prompt/model idempotency": unforced evaluations store one
\* recommendation for a signal and an identity, across services, conflicts,
\* failures and restarts.
OneDecisionPerKey ==
    \A i, j \in DOMAIN recs :
        (recs[i].keyed /\ recs[j].keyed /\ recs[i].signal = recs[j].signal
           /\ recs[i].mode = recs[j].mode) => i = j

\* "already evaluated candidates do not cause model calls": the batches of a
\* process call the model once for a signal, however they overlap, unless
\* the call before was lost.
BatchesCallModelOnce == \A s \in 1 .. SignalCount : calls[s] <= 1

\* "New decisions may send one compact Telegram message each": a notified
\* decision was recorded by a batch, and is not notified again.
NotifiedOnce ==
    \A i \in DOMAIN recs : recs[i].told <= (IF recs[i].batch THEN 1 ELSE 0)
=============================================================================
