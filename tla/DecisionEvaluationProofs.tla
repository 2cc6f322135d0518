---------------------- MODULE DecisionEvaluationProofs ----------------------
(***************************************************************************)
(* Theorems about DecisionEvaluation for any number of batches, operators  *)
(* and signals, every mode and every answer of the model.                  *)
(***************************************************************************)
EXTENDS DecisionEvaluation, FiniteSetTheorems, TLAPS

-----------------------------------------------------------------------------
(* The inductive invariant. *)

Candidates == {s \in 1 .. SignalCount : Signal[s].candidate}

\* What the job of a caller looks like: only candidates are evaluated, batches
\* never force, operators have no batch.
JobOK(c, j) ==
    /\ j \in Job /\ j.todo \in Seq(Candidates)
    /\ j.pc \in {"lock"} \cup Locked => j.signal \in Candidates
    /\ c \in Batches => ~j.force
    /\ c \in Operators => j.pc \in {"idle"} \cup Locked

JobsOK == \A c \in Callers : JobOK(c, job[c])

OnlyCandidates == \A i \in DOMAIN recs : recs[i].signal \in Candidates

\* A caller that has a new recommendation on its hands.
Pending(j) == j.pc \in {"reselect", "notify"} /\ j.rec # 0

\* A recommendation that is still to be told has one caller and was not told.
PendingOK ==
    \A c \in Callers : Pending(job[c]) =>
        /\ job[c].rec \in DOMAIN recs
        /\ recs[job[c].rec].told = 0
        /\ c \in Batches => recs[job[c].rec].batch
        /\ \A d \in Callers : Pending(job[d]) /\ job[d].rec = job[c].rec => d = c

\* A job that has called the model for s and has not recorded it.
Calling(j, s) == j.pc \in {"adapter", "record"} /\ j.signal = s /\ Signal[s].features

\* The calls of batches: a counted one is recorded, or is under way.
CallsOK ==
    \A s \in 1 .. SignalCount :
        /\ calls[s] \in {0, 1}
        /\ calls[s] = 1 => FindByEvaluationKey(s) # {} \/ \E b \in Batches : Calling(job[b], s)
        /\ \A b \in Batches : Calling(job[b], s) => calls[s] = 1

IInv ==
    /\ TypeOK /\ JobsOK /\ OnlyCandidates
    /\ LockHeldByEvaluation /\ OneDecisionPerKey
    /\ NotifiedOnce /\ PendingOK /\ CallsOK

-----------------------------------------------------------------------------
(* Jobs. *)

\* What the adapter leaves when it raises is well-formed.
LEMMA NoAnswerTyped == NoAnswer \in Answer
<1>1. 0 \in 0 .. 100 /\ "REJECT" \in Verdicts
  BY DEF Verdicts
<1> QED
  BY <1>1, Zenon DEF NoAnswer, Answer

\* A sequence of members of a set is one of every larger set.
LEMMA SeqWider ==
    ASSUME NEW A, NEW B, A \subseteq B, NEW q \in Seq(A)
    PROVE  q \in Seq(B)
<1>1. Len(q) \in Nat /\ q \in [1 .. Len(q) -> A]
  OBVIOUS
<1>2. q \in [1 .. Len(q) -> B]
  BY <1>1
<1> QED
  BY <1>1, <1>2

\* Jobs that begin.
LEMMA NewJobOK ==
    ASSUME NEW c \in Callers, NEW j \in Job, j.todo = <<>>, j.rec = 0,
           j.pc \in Locked => j.signal \in Candidates, j.pc \in {"scan", "list"} \cup Locked,
           c \in Batches => ~j.force, c \in Operators => j.pc \in Locked
    PROVE  JobOK(c, j) /\ ~Pending(j)
<1>1. <<>> \in Seq(Candidates)
  OBVIOUS
<1> QED
  BY <1>1 DEF JobOK, Locked, Pending

\* A caller that does nothing is well-formed.
LEMMA IdleOK == \A c \in Callers : JobOK(c, Idle) /\ Idle.pc = "idle" /\ ~Pending(Idle)
  BY DecisionAssumption DEF JobOK, Idle, Job, NoAnswer, Answer, Verdicts, Locked, Candidates, Pending

\* The job of a caller moves to another await.
LEMMA MoveOK ==
    ASSUME NEW c \in Callers, NEW j, JobOK(c, j),
           NEW p \in {"list", "find", "adapter", "record", "reselect", "reread", "notify"},
           p \in Locked => j.signal \in Candidates,
           c \in Batches \/ p \in Locked
    PROVE  JobOK(c, [j EXCEPT !.pc = p])
  BY DecisionAssumption DEF JobOK, Job, Locked, Callers

\* The next signal of a batch is one of its candidates.
LEMMA NextSignalOK ==
    ASSUME NEW c \in Batches, NEW j, j.todo \in Seq(Candidates)
    PROVE  /\ JobOK(c, NextSignal(j))
           /\ NextSignal(j).pc \in {"idle", "lock"}
           /\ ~Pending(NextSignal(j))
<1>1. c \in Callers /\ c \notin Operators
  BY DecisionAssumption DEF Callers
<1>2. CASE j.todo = <<>>
  BY <1>1, <1>2, IdleOK DEF NextSignal
<1>3. CASE j.todo # <<>>
  <2>1. Head(j.todo) \in Candidates /\ Tail(j.todo) \in Seq(Candidates)
    BY <1>3
  <2>2. Candidates \subseteq 1 .. SignalCount
    BY DEF Candidates
  <2>3. Tail(j.todo) \in Seq(1 .. SignalCount)
    BY <2>1, <2>2, SeqWider
  <2>4. Head(j.todo) \in 0 .. SignalCount
    <3>1. \A s \in 1 .. SignalCount : s \in 0 .. SignalCount
      BY DecisionAssumption
    <3> QED BY <2>1, <2>2, <3>1
  <2>5. /\ Idle.since \in -1 .. SignalCount /\ Idle.until \in 0 .. SignalCount
        /\ Idle.force = FALSE /\ Idle.raw \in Answer /\ Idle.rec \in Nat
    BY <1>1, IdleOK DEF JobOK, Job, Idle
  <2>6. NextSignal(j) \in Job
    BY <1>3, <2>3, <2>4, <2>5 DEF NextSignal, Job, Idle
  <2> QED BY <1>1, <1>3, <2>1, <2>6 DEF NextSignal, JobOK, Idle, Pending
<1> QED
  BY <1>2, <1>3

\* One caller's job is replaced by a well-formed one.
LEMMA UpdateOK ==
    ASSUME TypeOK, JobsOK, NEW c \in Callers, NEW j, JobOK(c, j), job' = [job EXCEPT ![c] = j]
    PROVE  /\ job' \in [Callers -> Job]
           /\ JobsOK'
           /\ job'[c] = j
           /\ \A d \in Callers : d # c => job'[d] = job[d]
<1>1. job \in [Callers -> Job] /\ j \in Job
  BY DEF TypeOK, JobOK
<1>2. \A d \in Callers : job'[d] = IF d = c THEN j ELSE job[d]
  BY <1>1
<1> QED
  BY <1>1, <1>2 DEF JobsOK

-----------------------------------------------------------------------------
(* What a caller's step may do.  Every action of a caller is a Change. *)

\* The lock stays, is taken by a batch that begins, or is given back.
LockPart(c, j) ==
    \/ lock' = lock /\ (c \in Batches => (j.pc \in Locked <=> job[c].pc \in Locked))
    \/ lock = Free /\ lock' = c /\ c \in Batches /\ j.pc \in Locked
    \/ lock' = Unlocked(c) /\ j.pc \notin Locked

\* Calls stay, are recorded, begin, or are lost.
CallPart(c, j) ==
    \/ /\ calls' = calls
       /\ c \in Batches => \A s \in 1 .. SignalCount : Calling(j, s) <=> Calling(job[c], s)
    \/ /\ calls' = calls /\ j.pc \notin {"adapter", "record"}
       /\ \E s : s = job[c].signal /\ FindByEvaluationKey(s)' # {}
    \/ /\ c \in Batches /\ job[c].pc = "find" /\ FindByEvaluationKey(job[c].signal) = {}
       /\ j.signal = job[c].signal /\ j.pc = "adapter" /\ Signal[j.signal].features
       /\ calls' = [calls EXCEPT ![job[c].signal] = @ + 1]
    \/ calls' = Forget(c) /\ j.pc \notin {"adapter", "record"}

\* Recommendations stay, get a new one, or the caller's own is told.
RecsPart(c, j) ==
    \/ recs' = recs /\ (Pending(j) => Pending(job[c]) /\ j.rec = job[c].rec)
    \/ Record(c) /\ j.pc = "reselect" /\ j.rec = Len(recs) + 1
    \/ /\ Pending(job[c]) /\ c \in Batches /\ ~Pending(j)
       /\ recs' = [recs EXCEPT ![job[c].rec].told = IF @ < 2 THEN @ + 1 ELSE @]

Change(c, j) ==
    /\ JobOK(c, j) /\ job' = [job EXCEPT ![c] = j]
    /\ UNCHANGED <<mode, stored>>
    /\ LockPart(c, j) /\ CallPart(c, j) /\ RecsPart(c, j)

\* A job that neither holds the lock nor has anything to tell replaces another.
LEMMA QuietChange ==
    ASSUME NEW c \in Callers, NEW j, JobOK(c, j), job' = [job EXCEPT ![c] = j],
           c \in Batches => j.pc \notin Locked /\ job[c].pc \notin Locked,
           ~Pending(j), UNCHANGED <<mode, stored, recs, lock, calls>>
    PROVE  Change(c, j)
<1>1. LockPart(c, j)
  BY DEF LockPart
<1>2. CallPart(c, j)
  BY DEF CallPart, Calling, Locked
<1>3. RecsPart(c, j)
  BY DEF RecsPart
<1> QED
  BY <1>1, <1>2, <1>3 DEF Change

\* Starting and listing.
LEMMA StartChange ==
    ASSUME TypeOK, JobsOK, NEW c \in Callers,
           StartScan(c) \/ ScanDone(c) \/ StartLatest(c)
    PROVE  \E j : Change(c, j)
<1>1. JobOK(c, job[c]) /\ JobOK(c, Idle) /\ ~Pending(Idle)
  BY IdleOK DEF JobsOK
<1>2. job[c] \in Job /\ stored \in 0 .. SignalCount
  BY DEF TypeOK
<1>3. CASE StartScan(c)
  <2> DEFINE j == [Idle EXCEPT !.pc = "scan", !.since = stored]
  <2>1. JobOK(c, j) /\ j.pc = "scan"
    <3>1. j.pc = "scan" /\ j.todo = <<>> /\ j.rec = 0 /\ ~j.force
      BY DEF Idle
    <3>3. <<>> \in Seq(1 .. SignalCount) /\ 0 \in 0 .. SignalCount
      BY DecisionAssumption
    <3>2. c \notin Operators /\ stored \in -1 .. SignalCount
      BY <1>2, <1>3, DecisionAssumption DEF StartScan
    <3>4. j \in Job
      BY <3>2, <3>3, NoAnswerTyped DEF Job, Idle
    <3> QED BY <3>1, <3>2, <3>4, NewJobOK DEF Locked
  <2> QED BY <1>3, <2>1, QuietChange DEF StartScan, Locked, Pending
<1>4. CASE StartLatest(c)
  <2> DEFINE j == [Idle EXCEPT !.pc = "list", !.since = -1]
  <2>1. JobOK(c, j) /\ j.pc = "list"
    <3>1. j.pc = "list" /\ j.todo = <<>> /\ j.rec = 0 /\ ~j.force
      BY DEF Idle
    <3>3. <<>> \in Seq(1 .. SignalCount) /\ 0 \in 0 .. SignalCount
      BY DecisionAssumption
    <3>2. c \notin Operators /\ -1 \in -1 .. SignalCount
      BY <1>4, DecisionAssumption DEF StartLatest
    <3>4. j \in Job
      BY <3>2, <3>3, NoAnswerTyped DEF Job, Idle
    <3> QED BY <3>1, <3>2, <3>4, NewJobOK DEF Locked
  <2> QED BY <1>4, <2>1, QuietChange DEF StartLatest, Locked, Pending
<1>5. CASE ScanDone(c)
  <2> DEFINE j == [job[c] EXCEPT !.pc = "list", !.until = stored]
  <2>1. CASE job' = [job EXCEPT ![c] = Idle]
    BY <1>1, <1>5, <2>1, QuietChange DEF ScanDone, Locked, Idle
  <2>2. CASE job' = [job EXCEPT ![c].pc = "list", ![c].until = stored]
    <3>1. job' = [job EXCEPT ![c] = j]
      BY <2>2, <1>2 DEF TypeOK
    <3>2. JobOK(c, j) /\ j.pc = "list"
      BY <1>1, <1>2, <1>5, DecisionAssumption DEF ScanDone, JobOK, Job, Locked, Callers
    <3> QED BY <1>5, <3>1, <3>2, QuietChange DEF ScanDone, Locked, Pending
  <2> QED BY <1>5, <2>1, <2>2 DEF ScanDone
<1> QED
  BY <1>3, <1>4, <1>5

\* A listing is a sequence of candidates.
LEMMA ListedCandidates ==
    ASSUME NEW a \in Nat, NEW b \in 0 .. SignalCount, NEW oldest \in BOOLEAN,
           NEW ids \in Listed(UnevaluatedCandidates(a, b), BoundedMax, oldest)
    PROVE  ids \in Seq(Candidates)
<1> DEFINE S == UnevaluatedCandidates(a, b)
           n == IF Cardinality(S) < BoundedMax THEN Cardinality(S) ELSE BoundedMax
<1>1. S \subseteq a + 1 .. b /\ S \subseteq Candidates
  BY DecisionAssumption DEF UnevaluatedCandidates, Candidates
<1>2. IsFiniteSet(S)
  <2>1. a + 1 \in Int /\ b \in Int
    BY DecisionAssumption
  <2>2. IsFiniteSet((a + 1) .. b)
    BY <2>1, FS_Interval
  <2> QED BY <1>1, <2>2, FS_Subset
<1>3. Cardinality(S) \in Nat
  BY <1>2, FS_CardinalityType
<1>4. BoundedMax \in Nat
  BY DecisionAssumption DEF BoundedMax
<1>5. n \in Nat
  BY <1>3, <1>4
<1>6. ids \in [1 .. n -> S]
  BY DEF Listed
<1> QED
  BY <1>1, <1>5, <1>6

LEMMA ListChange ==
    ASSUME TypeOK, JobsOK, NEW c \in Callers, List(c)
    PROVE  \E j : Change(c, j)
<1>1. c \in Batches
  BY DEF JobsOK, JobOK, List, Callers, Locked
<1>2. job[c] \in Job /\ stored \in 0 .. SignalCount
  BY DEF TypeOK
<1>3. PICK ids : /\ ids \in Seq(Candidates)
                 /\ job' = [job EXCEPT ![c] = NextSignal([Idle EXCEPT !.todo = ids])]
  <2>1. CASE job[c].since = -1
    BY <2>1, <1>2, ListedCandidates DEF List
  <2>2. CASE job[c].since # -1
    <3>1. job[c].since \in Nat /\ job[c].until \in 0 .. SignalCount
      BY <1>2, <2>2, DecisionAssumption DEF Job
    <3> QED BY <2>2, <3>1, ListedCandidates DEF List
  <2> QED BY <2>1, <2>2
<1>4. [Idle EXCEPT !.todo = ids].todo = ids
  BY DEF Idle
<1> DEFINE j == NextSignal([Idle EXCEPT !.todo = ids])
<1>5. JobOK(c, j) /\ j.pc \in {"idle", "lock"} /\ ~Pending(j)
  BY <1>1, <1>3, <1>4, NextSignalOK
<1> QED
  BY <1>3, <1>5, QuietChange DEF List, Locked

LEMMA OperatorChange ==
    ASSUME TypeOK, JobsOK, NEW c \in Operators, NEW s \in 1 .. SignalCount,
           NEW force \in BOOLEAN, OperatorEvaluate(c, s, force)
    PROVE  \E j : Change(c, j)
<1> DEFINE p == IF ~force THEN "find" ELSE IF Signal[s].features THEN "adapter" ELSE "record"
           j == [Idle EXCEPT !.signal = s, !.force = force, !.pc = p]
<1>1. c \in Callers /\ c \notin Batches
  BY DecisionAssumption DEF Callers
<1>2. JobOK(c, Idle)
  BY <1>1, IdleOK
<1>3. s \in Candidates /\ p \in Locked /\ p \in {"find", "adapter", "record"}
  BY DEF OperatorEvaluate, Candidates, Locked
<1> HIDE DEF p
<1>4. JobOK(c, j) /\ j.pc = p
  <2>1. j.pc = p /\ j.todo = <<>> /\ j.rec = 0 /\ j.signal = s
    BY DEF Idle
  <2>2. /\ <<>> \in Seq(1 .. SignalCount) /\ 0 \in 0 .. SignalCount
        /\ 0 \in -1 .. SignalCount /\ s \in 0 .. SignalCount
    BY DecisionAssumption
  <2>3. j \in Job
    BY <1>3, <2>2, NoAnswerTyped DEF Job, Idle
  <2> QED BY <1>1, <1>3, <2>1, <2>3, NewJobOK
<1>5. job' = [job EXCEPT ![c] = j] /\ UNCHANGED <<mode, stored, recs, lock, calls>>
  BY DEF OperatorEvaluate, p
<1>6. ~Pending(j)
  BY <1>3, <1>4 DEF Pending
<1> QED
  BY <1>1, <1>4, <1>5, <1>6, QuietChange

\* Taking the lock, and an answer of the model.
LEMMA AcquireChange ==
    ASSUME TypeOK, JobsOK, NEW c \in Callers, AcquireLock(c)
    PROVE  \E j : Change(c, j)
<1> DEFINE j == [job[c] EXCEPT !.pc = "find"]
<1>1. c \in Batches
  BY DEF JobsOK, JobOK, AcquireLock, Callers, Locked
<1>2. job[c] \in Job /\ job \in [Callers -> Job]
  BY DEF TypeOK
<1>3. JobOK(c, j) /\ j.pc = "find"
  <2>1. JobOK(c, job[c]) /\ job[c].signal \in Candidates
    BY DEF JobsOK, JobOK, AcquireLock
  <2>2. JobOK(c, j)
    BY <1>1, <2>1, MoveOK
  <2> QED BY <1>2, <2>2 DEF Job
<1>4. job' = [job EXCEPT ![c] = j]
  BY <1>2 DEF AcquireLock
<1>5. LockPart(c, j)
  BY <1>1, <1>3 DEF LockPart, AcquireLock, Locked
<1>6. CallPart(c, j)
  BY <1>3 DEF CallPart, Calling, AcquireLock
<1>7. RecsPart(c, j)
  BY <1>3 DEF RecsPart, Pending, AcquireLock
<1> QED
  BY <1>3, <1>4, <1>5, <1>6, <1>7 DEF Change, AcquireLock

LEMMA AnswerChange ==
    ASSUME TypeOK, JobsOK, NEW c \in Callers, NEW raw \in Answers \cup {NoAnswer},
           AdapterAnswer(c, raw)
    PROVE  \E j : Change(c, j)
<1> DEFINE j == [job[c] EXCEPT !.pc = "record", !.raw = raw]
<1>1. job[c] \in Job /\ job \in [Callers -> Job]
  BY DEF TypeOK
<1>2. raw \in Answer
  BY NoAnswerTyped, DecisionAssumption
<1>3. JobOK(c, j) /\ j.pc = "record" /\ j.signal = job[c].signal
  BY <1>1, <1>2 DEF JobsOK, JobOK, AdapterAnswer, Job, Locked
<1>4. job' = [job EXCEPT ![c] = j]
  BY <1>1 DEF AdapterAnswer
<1>5. LockPart(c, j)
  BY <1>3 DEF LockPart, AdapterAnswer, Locked
<1>6. CallPart(c, j)
  BY <1>3 DEF CallPart, Calling, AdapterAnswer
<1>7. RecsPart(c, j)
  BY <1>3 DEF RecsPart, Pending, AdapterAnswer
<1> QED
  BY <1>3, <1>4, <1>5, <1>6, <1>7 DEF Change, AdapterAnswer

\* Returning an existing recommendation, or the one the caller has recorded.
LEMMA ReturnChange ==
    ASSUME TypeOK, JobsOK, NEW c \in Callers, NEW i \in Nat, NEW existing \in BOOLEAN,
           Return(c, i, existing), existing \/ (i = job[c].rec /\ job[c].pc = "reselect"),
           job[c].pc \in {"find", "reselect", "reread"},
           UNCHANGED <<mode, stored, recs, calls>>
    PROVE  \E j : Change(c, j)
<1>1. JobOK(c, job[c]) /\ job[c] \in Job
  BY DEF JobsOK, TypeOK
<1>2. PICK j : /\ JobOK(c, j) /\ job' = [job EXCEPT ![c] = j]
               /\ j.pc \in {"idle", "lock", "notify"}
               /\ Pending(j) => Pending(job[c]) /\ j.rec = job[c].rec
  <2>1. CASE c \in Operators
    BY <2>1, IdleOK DEF Return
  <2>2. CASE c \in Batches /\ (existing \/ ~ShouldNotify(i))
    BY <1>1, <2>2, NextSignalOK, DecisionAssumption DEF Return, JobOK
  <2>3. CASE c \in Batches /\ ~existing /\ ShouldNotify(i)
    <3> DEFINE j == [job[c] EXCEPT !.pc = "notify", !.rec = i]
    <3>1. job' = [job EXCEPT ![c] = j]
      BY <2>3, DecisionAssumption DEF Return
    <3>2. JobOK(c, j) /\ j.pc = "notify" /\ j.rec = i
      BY <1>1, <2>3, DecisionAssumption DEF JobOK, Job, Locked
    <3> QED BY <2>3, <3>1, <3>2 DEF Pending
  <2> QED BY <2>1, <2>2, <2>3 DEF Callers
<1>3. LockPart(c, j)
  BY <1>2 DEF LockPart, Return, Locked
<1>4. CallPart(c, j)
  BY <1>2 DEF CallPart, Calling
<1>5. RecsPart(c, j)
  BY <1>2 DEF RecsPart
<1> QED
  BY <1>2, <1>3, <1>4, <1>5 DEF Change

LEMMA FindChange ==
    ASSUME TypeOK, JobsOK, NEW c \in Callers, Find(c)
    PROVE  \E j : Change(c, j)
<1> DEFINE s == job[c].signal
<1>1. JobOK(c, job[c]) /\ job[c] \in Job /\ job \in [Callers -> Job] /\ job[c].pc = "find"
  BY DEF JobsOK, TypeOK, Find
<1>2. CASE \E i \in FindByEvaluationKey(s) : Return(c, i, TRUE) /\ UNCHANGED calls
  <2>1. PICK i \in FindByEvaluationKey(s) : Return(c, i, TRUE) /\ UNCHANGED calls
    BY <1>2
  <2>2. i \in Nat
    BY <2>1 DEF FindByEvaluationKey, TypeOK
  <2> QED BY <1>1, <2>1, <2>2, ReturnChange DEF Find
<1>3. CASE ~\E i \in FindByEvaluationKey(s) : Return(c, i, TRUE) /\ UNCHANGED calls
  <2> DEFINE p == IF Signal[s].features THEN "adapter" ELSE "record"
             j == [job[c] EXCEPT !.pc = p]
  <2>1. s \in Candidates
    BY <1>1 DEF JobOK, Locked
  <2>2. p \in {"adapter", "record"} /\ p \in Locked
    BY DEF Locked
  <2>3. JobOK(c, j) /\ j.pc = p /\ j.signal = s
    BY <1>1, <2>1, <2>2, MoveOK DEF Job
  <2>4. job' = [job EXCEPT ![c] = j] /\ UNCHANGED <<mode, stored, recs, lock>>
    BY <1>1, <1>3 DEF Find
  <2>5. LockPart(c, j)
    BY <1>1, <2>2, <2>3, <2>4 DEF LockPart, Locked
  <2>6. CallPart(c, j)
    <3>1. CASE c \in Batches /\ Signal[s].features
      BY <1>1, <1>3, <2>3, <3>1 DEF Find, CallPart
    <3>2. CASE c \in Batches /\ ~Signal[s].features
      <4>1. \A t \in 1 .. SignalCount : ~Calling(j, t) /\ ~Calling(job[c], t)
        BY <1>1, <2>3, <3>2 DEF Calling
      <4> QED BY <1>3, <3>2, <4>1 DEF Find, CallPart
    <3>3. CASE c \notin Batches
      BY <1>3, <3>3 DEF Find, CallPart
    <3> QED BY <3>1, <3>2, <3>3
  <2>7. RecsPart(c, j)
    BY <2>2, <2>3, <2>4 DEF RecsPart, Pending
  <2> QED BY <2>3, <2>4, <2>5, <2>6, <2>7 DEF Change
<1> QED
  BY <1>2, <1>3

RecType == [signal : 1 .. SignalCount, mode : Modes, keyed : BOOLEAN,
            batch : BOOLEAN, raw : Answer, told : 0 .. 2]

\* A committed recommendation is new, well-formed and under its key.
LEMMA RecordAppends ==
    ASSUME TypeOK, JobsOK, NEW c \in Callers, Record(c)
    PROVE  /\ job[c].signal \in Candidates
           /\ recs' \in Seq(RecType)
           /\ Len(recs') = Len(recs) + 1
           /\ \A i \in 1 .. Len(recs) : recs'[i] = recs[i]
           /\ Len(recs) + 1 \in DOMAIN recs'
           /\ recs'[Len(recs) + 1].signal = job[c].signal
           /\ recs'[Len(recs) + 1].mode = mode
           /\ recs'[Len(recs) + 1].keyed <=> ~job[c].force
           /\ recs'[Len(recs) + 1].batch <=> c \in Batches
           /\ recs'[Len(recs) + 1].told = 0
<1> DEFINE r == [signal |-> job[c].signal, mode |-> mode, keyed |-> ~job[c].force,
                 batch |-> c \in Batches, raw |-> job[c].raw, told |-> 0]
<1>1. recs \in Seq(RecType) /\ job[c] \in Job /\ mode \in Modes
  BY DEF TypeOK, RecType
<1>2. job[c].signal \in Candidates
  BY DEF JobsOK, JobOK, Record, Locked
<1>3. r \in RecType
  <2>1. job[c].signal \in 1 .. SignalCount
    BY <1>2 DEF Candidates
  <2>2. (c \in Batches) \in BOOLEAN /\ (~job[c].force) \in BOOLEAN
    OBVIOUS
  <2>4. job[c].raw \in Answer
    BY <1>1 DEF Job
  <2>3. 0 \in 0 .. 2
    OBVIOUS
  <2> QED BY <1>1, <2>1, <2>2, <2>3, <2>4, Zenon DEF RecType
<1>4. recs' = Append(recs, r)
  BY DEF Record
<1> HIDE DEF r
<1>5. /\ recs' \in Seq(RecType) /\ Len(recs') = Len(recs) + 1
      /\ \A i \in 1 .. Len(recs) : recs'[i] = recs[i]
      /\ recs'[Len(recs) + 1] = r
      /\ Len(recs) + 1 \in DOMAIN recs'
  BY <1>1, <1>3, <1>4
<1>6. r.signal = job[c].signal /\ r.mode = mode /\ r.told = 0
  BY DEF r
<1>7. (r.keyed <=> ~job[c].force) /\ (r.batch <=> c \in Batches)
  BY Zenon DEF r
<1> QED
  BY <1>2, <1>5, <1>6, <1>7

LEMMA RecordChange ==
    ASSUME TypeOK, JobsOK, NEW c \in Callers, Record(c)
    PROVE  \E j : Change(c, j)
<1> DEFINE n == Len(recs) + 1
           j == [job[c] EXCEPT !.pc = "reselect", !.rec = n, !.raw = NoAnswer]
<1>1. JobOK(c, job[c]) /\ job[c] \in Job /\ job \in [Callers -> Job] /\ job[c].pc = "record"
  BY DEF JobsOK, TypeOK, Record
<1>2. n \in Nat \ {0} /\ Len(recs') = n
  <2>1. Len(recs) \in Nat
    BY DEF TypeOK
  <2> QED BY <2>1, RecordAppends
<1>3. NoAnswer \in Answer
  BY NoAnswerTyped
<1>4. JobOK(c, j) /\ j.pc = "reselect" /\ j.rec = n
  BY <1>1, <1>2, <1>3 DEF JobOK, Job, Locked
<1>5. job' = [job EXCEPT ![c] = j]
  BY <1>1, <1>2 DEF Record
<1>6. LockPart(c, j)
  BY <1>1, <1>4 DEF LockPart, Record, Locked
<1>7. CallPart(c, j)
  <2>1. CASE c \in Batches
    <3>1. ASSUME NEW s, s = job[c].signal PROVE n \in FindByEvaluationKey(s)'
      <4>1. recs'[n].keyed /\ recs'[n].signal = s /\ recs'[n].mode = mode
        <5>1. ~job[c].force
          BY <1>1, <2>1 DEF JobOK
        <5> QED BY <3>1, <5>1, RecordAppends
      <4>2. n \in DOMAIN recs' /\ mode' = mode
        BY <1>2, RecordAppends DEF Record
      <4> QED BY <4>1, <4>2 DEF FindByEvaluationKey
    <3> QED BY <1>4, <3>1 DEF CallPart, Record
  <2>2. CASE c \notin Batches
    BY <2>2 DEF CallPart, Record
  <2> QED BY <2>1, <2>2
<1>8. RecsPart(c, j)
  BY <1>4 DEF RecsPart
<1> QED
  BY <1>4, <1>5, <1>6, <1>7, <1>8 DEF Change, Record

LEMMA ConflictChange ==
    ASSUME TypeOK, JobsOK, NEW c \in Callers, RecordConflict(c)
    PROVE  \E j : Change(c, j)
<1> DEFINE j == [job[c] EXCEPT !.pc = "reread", !.raw = NoAnswer]
<1>1. JobOK(c, job[c]) /\ job[c] \in Job /\ job \in [Callers -> Job] /\ job[c].pc = "record"
  BY DEF JobsOK, TypeOK, RecordConflict
<1>2. NoAnswer \in Answer
  BY NoAnswerTyped
<1>3. JobOK(c, j) /\ j.pc = "reread"
  BY <1>1, <1>2 DEF JobOK, Job, Locked
<1>4. job' = [job EXCEPT ![c] = j]
  BY <1>1 DEF RecordConflict
<1>5. LockPart(c, j)
  BY <1>1, <1>3 DEF LockPart, RecordConflict, Locked
<1>6. CallPart(c, j)
  <2>1. ASSUME NEW s, s = job[c].signal PROVE FindByEvaluationKey(s)' # {}
    BY <2>1 DEF RecordConflict, KeyTaken, FindByEvaluationKey
  <2> QED BY <1>3, <2>1 DEF CallPart, RecordConflict
<1>7. RecsPart(c, j)
  BY <1>3 DEF RecsPart, Pending, RecordConflict
<1> QED
  BY <1>3, <1>4, <1>5, <1>6, <1>7 DEF Change, RecordConflict

LEMMA RereadChange ==
    ASSUME TypeOK, JobsOK, NEW c \in Callers, Reselect(c) \/ Reread(c)
    PROVE  \E j : Change(c, j)
<1>1. job[c] \in Job
  BY DEF TypeOK
<1>2. CASE Reselect(c)
  BY <1>1, <1>2, ReturnChange DEF Reselect, Job
<1>3. CASE Reread(c)
  <2>1. PICK i \in FindByEvaluationKey(job[c].signal) : Return(c, i, TRUE)
    BY <1>3 DEF Reread
  <2>2. i \in Nat
    BY <2>1 DEF FindByEvaluationKey, TypeOK
  <2> QED BY <1>3, <2>1, <2>2, ReturnChange DEF Reread
<1> QED
  BY <1>2, <1>3

LEMMA NotifyChange ==
    ASSUME TypeOK, JobsOK, NEW c \in Callers, NotifyDone(c)
    PROVE  \E j : Change(c, j)
<1> DEFINE j == NextSignal(job[c])
<1>1. c \in Batches /\ job[c].todo \in Seq(Candidates) /\ job \in [Callers -> Job]
  BY DEF JobsOK, JobOK, NotifyDone, Callers, Locked, TypeOK
<1>2. JobOK(c, j) /\ j.pc \in {"idle", "lock"} /\ ~Pending(j)
  BY <1>1, NextSignalOK
<1>3. job' = [job EXCEPT ![c] = j]
  BY <1>1 DEF NotifyDone
<1>4. LockPart(c, j)
  BY <1>2 DEF LockPart, NotifyDone, Locked
<1>5. CallPart(c, j)
  BY <1>2 DEF CallPart, Calling, NotifyDone
<1>6. RecsPart(c, j)
  BY <1>1, <1>2 DEF RecsPart, Pending, NotifyDone
<1> QED
  BY <1>2, <1>3, <1>4, <1>5, <1>6 DEF Change, NotifyDone

LEMMA FailChange ==
    ASSUME TypeOK, JobsOK, NEW c \in Callers, Fail(c) \/ Cancel(c)
    PROVE  \E j : Change(c, j)
<1>1. JobOK(c, job[c]) /\ job[c] \in Job
  BY DEF JobsOK, TypeOK
<1>2. PICK j : /\ JobOK(c, j) /\ job' = [job EXCEPT ![c] = j]
               /\ j.pc \in {"idle", "notify"} /\ ~Pending(j)
  <2>1. CASE job' = [job EXCEPT ![c] = Idle]
    BY <2>1, IdleOK
  <2>2. CASE c \notin Operators /\ Fail(c)
    <3> DEFINE j == [job[c] EXCEPT !.pc = "notify", !.rec = 0]
    <3>1. JobOK(c, j) /\ j.pc = "notify" /\ j.rec = 0
      BY <1>1, <2>2 DEF JobOK, Job, Locked
    <3> QED BY <2>2, <3>1 DEF Fail, Pending
  <2> QED BY <2>1, <2>2 DEF Fail, Cancel
<1>3. LockPart(c, j)
  BY <1>2 DEF LockPart, Fail, Cancel, Locked
<1>4. CallPart(c, j)
  BY <1>2 DEF CallPart, Fail, Cancel
<1>5. RecsPart(c, j)
  BY <1>2 DEF RecsPart, Fail, Cancel
<1> QED
  BY <1>2, <1>3, <1>4, <1>5 DEF Change, Fail, Cancel

\* A step is a caller's Change, a new signal, a new process, or nothing.
LEMMA NextShape ==
    ASSUME TypeOK, JobsOK, [Next]_vars
    PROVE  \/ \E c \in Callers : \E j : Change(c, j)
           \/ InsertSignal
           \/ \E m \in Modes : ApiRestart(m)
           \/ UNCHANGED vars
<1>1. Batches \subseteq Callers /\ Operators \subseteq Callers
  BY DEF Callers
<1> QED
  BY <1>1, StartChange, ListChange, OperatorChange, AcquireChange, AnswerChange, FindChange,
     RecordChange, ConflictChange, RereadChange, NotifyChange, FailChange DEF Next, Step

-----------------------------------------------------------------------------
(* Every step keeps the invariant. *)

\* A row keeps everything but its count of notifications.
SameRow(q, r) ==
    /\ r.signal = q.signal /\ r.mode = q.mode
    /\ r.keyed <=> q.keyed
    /\ r.batch <=> q.batch

\* The rows after a Change: those before it, of which the caller's own may have
\* been told, and the new one of Record.
RowsKept(c, j) ==
    \A i \in DOMAIN recs :
        /\ i \in DOMAIN recs' /\ SameRow(recs[i], recs'[i])
        /\ \/ recs'[i].told = recs[i].told
           \/ /\ Pending(job[c]) /\ c \in Batches /\ ~Pending(j)
              /\ i = job[c].rec /\ recs'[i].told = 1

RowsNew(c) == \A i \in DOMAIN recs' : i \in DOMAIN recs \/ (Record(c) /\ i = Len(recs) + 1)

\* What a Change does to the recommendations.
LEMMA RecsChange ==
    ASSUME TypeOK, JobsOK, PendingOK, NEW c \in Callers, NEW j, Change(c, j)
    PROVE  recs' \in Seq(RecType) /\ RowsKept(c, j) /\ RowsNew(c)
<1>1. recs \in Seq(RecType)
  BY DEF TypeOK, RecType
<1>2. \A q : SameRow(q, q)
  BY Zenon DEF SameRow
<1>3. CASE recs' = recs
  BY <1>1, <1>2, <1>3 DEF RowsKept, RowsNew
<1>4. CASE Record(c)
  <2>1. /\ recs' \in Seq(RecType) /\ Len(recs') = Len(recs) + 1
        /\ \A i \in 1 .. Len(recs) : recs'[i] = recs[i]
    BY <1>4, RecordAppends
  <2>2. DOMAIN recs = 1 .. Len(recs) /\ DOMAIN recs' = 1 .. Len(recs) + 1 /\ Len(recs) \in Nat
    BY <1>1, <2>1
  <2>3. RowsKept(c, j)
    BY <1>2, <2>1, <2>2 DEF RowsKept
  <2>4. RowsNew(c)
    BY <1>4, <2>2 DEF RowsNew
  <2> QED BY <2>1, <2>3, <2>4
<1>5. CASE /\ Pending(job[c]) /\ c \in Batches /\ ~Pending(j)
           /\ recs' = [recs EXCEPT ![job[c].rec].told = IF @ < 2 THEN @ + 1 ELSE @]
  <2>1. PICK k \in DOMAIN recs : k = job[c].rec /\ recs[k].told = 0
    BY <1>5 DEF PendingOK
  <2>2. recs' = [recs EXCEPT ![k] = [recs[k] EXCEPT !.told = 1]]
    BY <1>1, <1>5, <2>1
  <2>3. recs[k] \in RecType
    BY <1>1
  <2>4. PICK r : r = [recs[k] EXCEPT !.told = 1]
    OBVIOUS
  <2>5. r \in RecType /\ r.told = 1
    <3>1. 1 \in 0 .. 2
      OBVIOUS
    <3> QED BY <2>3, <2>4, <3>1 DEF RecType
  <2>6. SameRow(recs[k], r)
    BY <2>3, <2>4 DEF SameRow, RecType
  <2>7. /\ recs' \in Seq(RecType) /\ DOMAIN recs' = DOMAIN recs
        /\ \A i \in DOMAIN recs : recs'[i] = IF i = k THEN r ELSE recs[i]
    BY <1>1, <2>2, <2>4, <2>5
  <2> QED BY <1>2, <1>5, <2>1, <2>5, <2>6, <2>7 DEF RowsKept, RowsNew
<1> QED
  BY <1>3, <1>4, <1>5 DEF Change, RecsPart

LEMMA TypeChange ==
    ASSUME IInv, NEW c \in Callers, NEW j, Change(c, j)
    PROVE  TypeOK' /\ JobsOK' /\ OnlyCandidates'
<1>0. TypeOK /\ JobsOK /\ PendingOK
  BY DEF IInv
<1>1. job' \in [Callers -> Job] /\ JobsOK'
  BY UpdateOK DEF IInv, Change
<1>2. mode' \in Modes /\ stored' \in 0 .. SignalCount
  BY DEF IInv, TypeOK, Change
<1>3. recs' \in Seq(RecType)
  BY <1>0, RecsChange DEF RowsKept, RowsNew, SameRow
<1>4. lock' \in Batches \cup {Free}
  BY DEF IInv, TypeOK, Change, LockPart, Unlocked
<1>5. calls' \in [1 .. SignalCount -> Nat]
  <2>1. calls \in [1 .. SignalCount -> Nat]
    BY DEF IInv, TypeOK
  <2>2. CASE calls' = calls
    BY <2>1, <2>2
  <2>3. CASE calls' = [calls EXCEPT ![job[c].signal] = @ + 1]
    <3>1. job[c].signal \in 1 .. SignalCount => calls[job[c].signal] + 1 \in Nat
      BY <2>1
    <3> QED BY <2>1, <2>3, <3>1
  <2>4. CASE calls' = Forget(c)
    <3>1. CASE c \in Batches /\ job[c].pc \in {"adapter", "record"} /\ Signal[job[c].signal].features
      <4>1. job[c].signal \in 1 .. SignalCount
        BY <3>1 DEF IInv, JobsOK, JobOK, Locked, Candidates
      <4>2. calls[job[c].signal] = 1
        BY <3>1, <4>1 DEF IInv, CallsOK, Calling
      <4> QED BY <2>1, <2>4, <3>1, <4>1, <4>2 DEF Forget
    <3> QED BY <2>1, <2>4, <3>1 DEF Forget
  <2> QED BY <2>2, <2>3, <2>4 DEF Change, CallPart
<1>6. OnlyCandidates'
  <2>1. ASSUME NEW i \in DOMAIN recs' PROVE recs'[i].signal \in Candidates
    <3>1. CASE i \in DOMAIN recs
      BY <3>1, <1>0, RecsChange DEF RowsKept, RowsNew, SameRow, IInv, OnlyCandidates
    <3>2. CASE Record(c) /\ i = Len(recs) + 1
      BY <3>2, <1>0, RecordAppends
    <3> QED BY <3>1, <3>2, <1>0, RecsChange DEF RowsKept, RowsNew, SameRow
  <2> QED BY <2>1 DEF OnlyCandidates, Candidates
<1> QED
  BY <1>1, <1>2, <1>3, <1>4, <1>5, <1>6 DEF TypeOK, RecType

LEMMA LockChange ==
    ASSUME IInv, NEW c \in Callers, NEW j, Change(c, j)
    PROVE  LockHeldByEvaluation'
<1>1. job'[c] = j /\ \A d \in Callers : d # c => job'[d] = job[d]
  BY UpdateOK DEF IInv, Change
<1>2. \A b \in Batches : b \in Callers /\ b # Free /\ b \notin Operators
  BY DecisionAssumption DEF Callers, Free
<1>3. lock \in Batches \cup {Free} /\ \A b \in Batches : job[b].pc \in Locked <=> lock = b
  BY DEF IInv, TypeOK, LockHeldByEvaluation
<1>4. ASSUME NEW b \in Batches PROVE job'[b].pc \in Locked <=> lock' = b
  BY <1>1, <1>2, <1>3, DecisionAssumption DEF Change, LockPart, Unlocked, Callers, Free
<1> QED
  BY <1>4 DEF LockHeldByEvaluation, Locked

LEMMA KeyChange ==
    ASSUME IInv, NEW c \in Callers, NEW j, Change(c, j)
    PROVE  OneDecisionPerKey'
<1>0. TypeOK /\ JobsOK /\ PendingOK
  BY DEF IInv
<1> SUFFICES ASSUME NEW i \in DOMAIN recs', NEW k \in DOMAIN recs',
                    recs'[i].keyed, recs'[k].keyed, recs'[i].signal = recs'[k].signal,
                    recs'[i].mode = recs'[k].mode
             PROVE  i = k
  BY DEF OneDecisionPerKey
<1>1. CASE i \in DOMAIN recs /\ k \in DOMAIN recs
  BY <1>1, <1>0, RecsChange DEF RowsKept, RowsNew, SameRow, IInv, OneDecisionPerKey
<1>2. ASSUME NEW a \in DOMAIN recs, Record(c), NEW n, n = Len(recs) + 1,
             recs'[a].keyed, recs'[n].keyed, recs'[a].signal = recs'[n].signal,
             recs'[a].mode = recs'[n].mode
      PROVE  FALSE
  <2>1. /\ recs'[n].signal = job[c].signal /\ recs'[n].mode = mode
        /\ recs'[n].keyed <=> ~job[c].force
    BY <1>2, <1>0, RecordAppends
  <2>2. recs[a].keyed /\ recs[a].signal = job[c].signal /\ recs[a].mode = mode
    BY <1>2, <2>1, <1>0, RecsChange DEF RowsKept, RowsNew, SameRow
  <2>3. a \in FindByEvaluationKey(job[c].signal)
    BY <2>2 DEF FindByEvaluationKey
  <2> QED BY <1>2, <2>1, <2>3 DEF Record, KeyTaken
<1> QED
  BY <1>1, <1>2, <1>0, RecsChange DEF RowsKept, RowsNew, SameRow

LEMMA ToldChange ==
    ASSUME IInv, NEW c \in Callers, NEW j, Change(c, j)
    PROVE  NotifiedOnce' /\ PendingOK'
<1>0. TypeOK /\ JobsOK /\ PendingOK
  BY DEF IInv
<1>1. job'[c] = j /\ \A d \in Callers : d # c => job'[d] = job[d]
  BY UpdateOK DEF IInv, Change
<1>2. recs \in Seq(RecType) /\ recs' \in Seq(RecType)
  BY <1>0, RecsChange DEF RowsKept, RowsNew, SameRow, IInv, TypeOK, RecType
<1>3. Record(c) => Len(recs) + 1 \in DOMAIN recs' /\ recs'[Len(recs) + 1].told = 0
                     /\ (recs'[Len(recs) + 1].batch <=> c \in Batches)
  BY <1>2, <1>0, RecordAppends
<1>4. NotifiedOnce'
  <2> SUFFICES ASSUME NEW i \in DOMAIN recs'
               PROVE  recs'[i].told <= (IF recs'[i].batch THEN 1 ELSE 0)
    BY DEF NotifiedOnce
  <2>1. CASE i \in DOMAIN recs /\ recs'[i].told = recs[i].told
    BY <2>1, <1>0, RecsChange DEF RowsKept, RowsNew, SameRow, IInv, NotifiedOnce
  <2>2. CASE i \in DOMAIN recs /\ recs'[i].told # recs[i].told
    <3>1. Pending(job[c]) /\ c \in Batches /\ i = job[c].rec /\ recs'[i].told = 1
          /\ (recs'[i].batch <=> recs[i].batch)
      BY <2>2, <1>0, RecsChange DEF RowsKept, RowsNew, SameRow
    <3> QED BY <3>1 DEF IInv, PendingOK
  <2>3. CASE Record(c) /\ i = Len(recs) + 1
    BY <1>3, <2>3
  <2> QED BY <2>1, <2>2, <2>3, <1>0, RecsChange DEF RowsKept, RowsNew, SameRow
<1>5. ASSUME NEW d \in Callers, Pending(job'[d])
      PROVE  \/ Pending(job[d]) /\ job'[d].rec = job[d].rec
             \/ d = c /\ Record(c) /\ job'[d].rec = Len(recs) + 1
  BY <1>1, <1>5 DEF Change, RecsPart, Pending
<1>6. ASSUME NEW d \in Callers, Pending(job'[d])
      PROVE  /\ job'[d].rec \in DOMAIN recs' /\ recs'[job'[d].rec].told = 0
             /\ d \in Batches => recs'[job'[d].rec].batch
  <2>1. CASE d = c /\ Record(c) /\ job'[d].rec = Len(recs) + 1
    BY <1>3, <2>1
  <2>2. CASE Pending(job[d]) /\ job'[d].rec = job[d].rec
    <3>1. /\ job[d].rec \in DOMAIN recs /\ recs[job[d].rec].told = 0
          /\ d \in Batches => recs[job[d].rec].batch
      BY <2>2 DEF IInv, PendingOK
    <3>2. Pending(job[c]) /\ job[c].rec = job[d].rec => d = c
      BY <2>2 DEF IInv, PendingOK
    <3>3. ~(Pending(job[c]) /\ ~Pending(j) /\ job[d].rec = job[c].rec)
      BY <1>1, <1>6, <3>2
    <3> QED BY <2>2, <3>1, <3>3, <1>0, RecsChange DEF RowsKept, RowsNew, SameRow
  <2> QED BY <1>5, <1>6, <2>1, <2>2
<1>7. ASSUME NEW d \in Callers, NEW e \in Callers, Pending(job'[d]), Pending(job'[e]),
             job'[e].rec = job'[d].rec
      PROVE  e = d
  <2>1. \A f \in Callers : Pending(job[f]) => job[f].rec \in 1 .. Len(recs)
    BY <1>2 DEF IInv, PendingOK
  <2>2. Len(recs) + 1 \notin 1 .. Len(recs)
    BY <1>2
  <2> QED BY <1>5, <1>7, <2>1, <2>2 DEF IInv, PendingOK
<1> QED
  BY <1>4, <1>6, <1>7 DEF PendingOK, Pending

\* Calls: only the holder of the lock calls, and the key it did not find is
\* still free of batches when it does.
LEMMA CallsChange ==
    ASSUME IInv, NEW c \in Callers, NEW j, Change(c, j)
    PROVE  CallsOK'
<1>0. TypeOK /\ JobsOK /\ PendingOK
  BY DEF IInv
<1>1. job'[c] = j /\ \A d \in Callers : d # c => job'[d] = job[d]
  BY UpdateOK DEF IInv, Change
<1>2. \A b \in Batches : b \in Callers
  BY DEF Callers
<1>3. calls \in [1 .. SignalCount -> Nat] /\ mode' = mode
  BY DEF IInv, TypeOK, Change
<1>4. \A s : FindByEvaluationKey(s) \subseteq FindByEvaluationKey(s)'
  BY <1>3, <1>0, RecsChange DEF RowsKept, RowsNew, SameRow, IInv, FindByEvaluationKey
\* Two batches never have a call under way at once.
<1>5. \A a, b \in Batches : job[a].pc \in {"find", "adapter", "record"}
                             /\ job[b].pc \in {"adapter", "record"} => a = b
  BY DEF IInv, LockHeldByEvaluation, Locked
<1>6. ASSUME NEW s \in 1 .. SignalCount
      PROVE  /\ calls'[s] \in {0, 1}
             /\ calls'[s] = 1 => FindByEvaluationKey(s)' # {} \/ \E b \in Batches : Calling(job'[b], s)
             /\ \A b \in Batches : Calling(job'[b], s) => calls'[s] = 1
  <2>1. /\ calls[s] \in {0, 1}
        /\ calls[s] = 1 => FindByEvaluationKey(s) # {} \/ \E b \in Batches : Calling(job[b], s)
        /\ \A b \in Batches : Calling(job[b], s) => calls[s] = 1
    BY <1>6 DEF IInv, CallsOK
  <2>2. CASE /\ calls' = calls
             /\ c \in Batches => \A t \in 1 .. SignalCount : Calling(j, t) <=> Calling(job[c], t)
    <3>1. \A b \in Batches : Calling(job'[b], s) <=> Calling(job[b], s)
      BY <1>1, <1>2, <2>2
    <3> QED BY <1>4, <2>1, <2>2, <3>1
  <2>3. CASE /\ calls' = calls /\ j.pc \notin {"adapter", "record"}
             /\ \E t : t = job[c].signal /\ FindByEvaluationKey(t)' # {}
    <3>1. ~Calling(j, s)
      BY <2>3 DEF Calling
    <3>2. Calling(job[c], s) => FindByEvaluationKey(s)' # {}
      BY <2>3 DEF Calling
    <3>3. \A b \in Batches : b # c => (Calling(job'[b], s) <=> Calling(job[b], s))
      BY <1>1, <1>2
    <3> QED BY <1>1, <1>4, <2>1, <2>3, <3>1, <3>2, <3>3
  <2>4. CASE /\ c \in Batches /\ job[c].pc = "find" /\ FindByEvaluationKey(job[c].signal) = {}
             /\ j.signal = job[c].signal /\ j.pc = "adapter" /\ Signal[j.signal].features
             /\ calls' = [calls EXCEPT ![job[c].signal] = @ + 1]
    <3>1. \A b \in Batches : ~Calling(job[b], s)
      BY <1>5, <2>4 DEF Calling
    <3>2. CASE s = job[c].signal
      <4>1. calls[s] = 0
        BY <2>1, <2>4, <3>1, <3>2
      <4>2. calls'[s] = 1
        BY <1>3, <2>4, <3>2, <4>1
      <4>3. Calling(job'[c], s)
        BY <1>1, <2>4, <3>2 DEF Calling
      <4> QED BY <2>4, <4>2, <4>3
    <3>3. CASE s # job[c].signal
      <4>1. calls'[s] = calls[s]
        BY <1>3, <2>4, <3>3
      <4>2. \A b \in Batches : ~Calling(job'[b], s)
        BY <1>1, <1>2, <2>4, <3>1, <3>3 DEF Calling
      <4> QED BY <1>4, <2>1, <3>1, <4>1, <4>2
    <3> QED BY <3>2, <3>3
  <2>5. CASE calls' = Forget(c) /\ j.pc \notin {"adapter", "record"}
    <3>1. ~Calling(j, s)
      BY <2>5 DEF Calling
    <3>2. CASE c \in Batches /\ Calling(job[c], s)
      <4>1. calls'[s] = 0
        BY <1>3, <2>1, <2>5, <3>2 DEF Forget, Calling
      <4>2. \A b \in Batches : ~Calling(job'[b], s)
        BY <1>1, <1>2, <1>5, <3>1, <3>2 DEF Calling
      <4> QED BY <4>1, <4>2
    <3>3. CASE ~(c \in Batches /\ Calling(job[c], s))
      <4>1. calls'[s] = calls[s]
        BY <1>3, <2>5, <3>3 DEF Forget, Calling
      <4>2. \A b \in Batches : Calling(job'[b], s) <=> Calling(job[b], s)
        BY <1>1, <1>2, <3>1, <3>3
      <4> QED BY <1>4, <2>1, <4>1, <4>2
    <3> QED BY <3>2, <3>3
  <2> QED BY <2>2, <2>3, <2>4, <2>5 DEF Change, CallPart
<1> QED
  BY <1>6 DEF CallsOK, Calling

LEMMA IInvInit == Init => IInv
<1> SUFFICES ASSUME Init PROVE IInv
  OBVIOUS
<1>1. \A c \in Callers : job[c] = Idle /\ JobOK(c, Idle) /\ Idle.pc = "idle" /\ ~Pending(Idle)
  BY IdleOK DEF Init
<1>2. recs = <<>> /\ DOMAIN recs = {} /\ lock = Free
  BY DEF Init
<1>3. TypeOK
  BY <1>1, DecisionAssumption DEF Init, TypeOK, JobOK
<1>4. LockHeldByEvaluation
  BY <1>1, <1>2, DecisionAssumption DEF LockHeldByEvaluation, Locked, Callers, Free
<1>5. CallsOK
  BY <1>1 DEF Init, CallsOK, Calling, Callers
<1> QED
  BY <1>1, <1>2, <1>3, <1>4, <1>5 DEF IInv, JobsOK, OnlyCandidates, OneDecisionPerKey,
     NotifiedOnce, PendingOK

LEMMA IInvStep == IInv /\ [Next]_vars => IInv'
<1> SUFFICES ASSUME IInv, [Next]_vars PROVE IInv'
  OBVIOUS
<1>1. CASE \E c \in Callers : \E j : Change(c, j)
  BY <1>1, TypeChange, LockChange, KeyChange, ToldChange, CallsChange DEF IInv
<1>2. CASE InsertSignal
  <2>1. stored' \in 0 .. SignalCount /\ UNCHANGED <<mode, recs, lock, job, calls>>
    BY <1>2, DecisionAssumption DEF InsertSignal, IInv, TypeOK
  <2> QED BY <2>1 DEF IInv, TypeOK, JobsOK, OnlyCandidates, LockHeldByEvaluation,
             OneDecisionPerKey, NotifiedOnce, PendingOK, CallsOK, FindByEvaluationKey
<1>3. CASE \E m \in Modes : ApiRestart(m)
  <2>1. \A c \in Callers : job'[c] = Idle /\ JobOK(c, Idle) /\ Idle.pc = "idle" /\ ~Pending(Idle)
    BY <1>3, IdleOK DEF ApiRestart
  <2>2. recs' = recs /\ lock' = Free /\ stored' = stored /\ mode' \in Modes
        /\ job' = [c \in Callers |-> Idle] /\ calls' = [s \in 1 .. SignalCount |-> 0]
    BY <1>3 DEF ApiRestart
  <2>3. TypeOK'
    BY <2>1, <2>2 DEF IInv, TypeOK, JobOK
  <2>4. LockHeldByEvaluation'
    BY <2>1, <2>2, DecisionAssumption DEF LockHeldByEvaluation, Locked, Callers, Free
  <2>5. CallsOK'
    BY <2>1, <2>2 DEF CallsOK, Calling, Callers
  <2>6. JobsOK' /\ PendingOK'
    BY <2>1 DEF JobsOK, PendingOK
  <2> QED BY <2>2, <2>3, <2>4, <2>5, <2>6 DEF IInv, OnlyCandidates, OneDecisionPerKey, NotifiedOnce
<1>4. CASE UNCHANGED vars
  BY <1>4 DEF vars, IInv, TypeOK, JobsOK, OnlyCandidates, LockHeldByEvaluation,
     OneDecisionPerKey, NotifiedOnce, PendingOK, CallsOK, FindByEvaluationKey
<1> QED
  BY <1>1, <1>2, <1>3, <1>4, NextShape DEF IInv

LEMMA IInvCorrect == Spec => []IInv
  BY IInvInit, IInvStep, PTL DEF Spec

-----------------------------------------------------------------------------
(* Theorems. *)

\* The state of the callers and of the tables is well-formed, whatever fails,
\* is cancelled or restarted.
THEOREM TypeCorrect == Spec => []TypeOK
<1>1. IInv => TypeOK
  BY DEF IInv
<1> QED
  BY <1>1, IInvCorrect, PTL

\* For any number of overlapping batches, the one that is inside
\* _evaluate_locked holds the service's evaluation lock.
THEOREM LockCorrect == Spec => []LockHeldByEvaluation
<1>1. IInv => LockHeldByEvaluation
  BY DEF IInv
<1> QED
  BY <1>1, IInvCorrect, PTL

\* For any number of batches and operators, record stores one unforced
\* recommendation for a signal and an evaluation identity.
THEOREM KeyCorrect == Spec => []OneDecisionPerKey
<1>1. IInv => OneDecisionPerKey
  BY DEF IInv
<1> QED
  BY <1>1, IInvCorrect, PTL

\* However many batches list a candidate before one of them evaluates it, they
\* call the model once for it.
THEOREM CallsCorrect == Spec => []BatchesCallModelOnce
<1>1. IInv => BatchesCallModelOnce
  BY DEF IInv, CallsOK, BatchesCallModelOnce
<1> QED
  BY <1>1, IInvCorrect, PTL

\* A decision is notified at most once, and only by the batch that recorded it.
THEOREM NotifyCorrect == Spec => []NotifiedOnce
<1>1. IInv => NotifiedOnce
  BY DEF IInv
<1> QED
  BY <1>1, IInvCorrect, PTL
=============================================================================
