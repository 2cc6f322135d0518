--------------------------- MODULE ScannerProofs ---------------------------
(***************************************************************************)
(* Theorems about Scanner: for any number of loops, operators, symbols and *)
(* candles, whatever the interleaving of their scans.                      *)
(***************************************************************************)
EXTENDS Scanner, FiniteSetTheorems, TLAPS

-----------------------------------------------------------------------------
(* Numbers: induction over a set, and the extrema that CHOOSE selects. *)

\* Induction, from the pigeonhole principle: on the numbers up to x that are not in S,
\* the predecessor is an injection that misses x.
LEMMA SetInduction ==
    ASSUME NEW S, 0 \in S, \A n \in Nat : n \in S => n + 1 \in S
    PROVE  Nat \subseteq S
<1> SUFFICES ASSUME NEW x \in Nat, x \notin S PROVE FALSE OBVIOUS
<1> DEFINE E == {n \in 0 .. x : n \notin S}
           pred == [n \in E |-> n - 1]
<1>1. IsFiniteSet(E)
  <2>1. E \in SUBSET (0 .. x) OBVIOUS
  <2>2. 0 \in Int /\ x \in Int OBVIOUS
  <2>3. IsFiniteSet(0 .. x) BY <2>2, FS_Interval
  <2> HIDE DEF E
  <2> QED BY <2>1, <2>3, FS_Subset
<1>2. \A n \in E : n - 1 \in E
  <2> SUFFICES ASSUME NEW n \in E PROVE n - 1 \in E OBVIOUS
  <2>1. n \in 1 .. x /\ n \notin S OBVIOUS
  <2>2. n - 1 \in Nat /\ (n - 1) + 1 = n BY <2>1
  <2>3. n - 1 \notin S BY <2>1, <2>2
  <2> QED BY <2>1, <2>3
<1>3. \A n \in E : n \in Int /\ n <= x OBVIOUS
<1>4. x \in E OBVIOUS
<1> HIDE DEF E
<1>5. pred \in [E -> E] BY <1>2
<1>6. \A m, n \in E : pred[m] = pred[n] => m = n BY <1>3
<1>7. pred \in Injection(E, E) BY <1>5, <1>6 DEF Injection, IsInjective
<1>8. pred \in Surjection(E, E) BY <1>1, <1>7, FS_Injection
<1>9. PICK n \in E : pred[n] = x BY <1>4, <1>8 DEF Surjection
<1>10. n - 1 = x BY <1>9
<1> QED BY <1>3, <1>10

\* A set of numbers has a least one.
LEMMA LeastExists ==
    ASSUME NEW T, T \subseteq Nat, T # {}
    PROVE  \E t \in T : \A u \in T : t <= u
<1> SUFFICES ASSUME \A t \in T : \E u \in T : u < t PROVE FALSE OBVIOUS
<1> DEFINE S == {n \in Nat : \A u \in T : n < u}
<1>1. 0 \in S OBVIOUS
<1>2. ASSUME NEW n \in Nat, n \in S PROVE n + 1 \in S
  <2> SUFFICES ASSUME NEW u \in T PROVE n + 1 < u BY <1>2
  <2>1. PICK v \in T : v < u OBVIOUS
  <2> QED BY <1>2, <2>1
<1>3. Nat \subseteq S
  <2> HIDE DEF S
  <2> QED BY <1>1, <1>2, SetInduction
<1>4. PICK t \in T : TRUE OBVIOUS
<1> QED BY <1>3, <1>4

\* A finite set of numbers is bounded.
LEMMA GreatestBounded ==
    ASSUME NEW T, T \subseteq Nat, T # {}, NEW b \in Nat, \A u \in T : u <= b
    PROVE  \E t \in T : \A u \in T : u <= t
<1> DEFINE D == {n \in Nat : \A u \in T : u <= n}
<1>1. D \subseteq Nat /\ b \in D OBVIOUS
<1>2. PICK m \in D : \A n \in D : m <= n
  <2> HIDE DEF D
  <2> QED BY <1>1, LeastExists
<1>3. m \in Nat /\ \A u \in T : u <= m OBVIOUS
<1>4. m \in T
  <2> SUFFICES ASSUME m \notin T PROVE FALSE OBVIOUS
  <2>1. \A u \in T : u \in Nat /\ u <= m /\ u # m BY <1>3
  <2>2. PICK v \in T : TRUE OBVIOUS
  <2>4. m - 1 \in Nat BY <1>3, <2>1, <2>2
  <2>5. \A u \in T : u <= m - 1 BY <1>3, <2>1
  <2>3. m - 1 \in D BY <2>4, <2>5
  <2> QED BY <1>2, <1>3, <2>3
<1> QED BY <1>3, <1>4

\* The numbers of a finite set are bounded: the initial segments that contain as many of
\* its members as possible contain all of them.
LEMMA FiniteBounded ==
    ASSUME NEW T, T \subseteq Nat, IsFiniteSet(T)
    PROVE  \E b \in Nat : \A u \in T : u <= b
<1> DEFINE Below(b) == {u \in T : u <= b}
           Left == {n \in Nat : \E b \in Nat : n = Cardinality(T \ Below(b))}
<1>1. \A b \in Nat : IsFiniteSet(T \ Below(b)) /\ Cardinality(T \ Below(b)) \in Nat
  BY FS_Difference, FS_CardinalityType
<1>2. Left \subseteq Nat /\ Cardinality(T \ Below(0)) \in Left BY <1>1
<1>3. PICK n \in Left : \A k \in Left : n <= k
  <2> HIDE DEF Left
  <2> QED BY <1>2, LeastExists
<1>4. PICK b \in Nat : n = Cardinality(T \ Below(b)) OBVIOUS
<1>5. T \ Below(b) = {}
  <2> SUFFICES ASSUME NEW u \in T \ Below(b) PROVE FALSE OBVIOUS
  <2>1. u \in Nat /\ u > b OBVIOUS
  <2>2. T \ Below(u) \subseteq (T \ Below(b)) \ {u}
    <3> SUFFICES ASSUME NEW v \in T, ~(v <= u) PROVE ~(v <= b) /\ v # u OBVIOUS
    <3> QED BY <2>1
  <2>3. Cardinality((T \ Below(b)) \ {u}) = n - 1 /\ IsFiniteSet((T \ Below(b)) \ {u})
    BY <1>1, <1>4, FS_RemoveElement
  <2>4. Cardinality(T \ Below(u)) <= n - 1 BY <2>2, <2>3, FS_Subset
  <2>5. Cardinality(T \ Below(u)) \in Left BY <1>1, <2>1
  <2>6. n \in Nat /\ Cardinality(T \ Below(u)) \in Nat BY <2>5
  <2> HIDE DEF Below, Left
  <2> QED BY <1>3, <2>4, <2>5, <2>6
<1> QED BY <1>5

\* Latest and First of a series.
LEMMA LatestOf ==
    ASSUME NEW T, T \subseteq Nat, IsFiniteSet(T), T # {}
    PROVE  Latest(T) \in T /\ \A u \in T : u <= Latest(T)
<1>1. \E t \in T : \A u \in T : u <= t BY FiniteBounded, GreatestBounded
<1> QED BY <1>1 DEF Latest

\* The first minute of a series.
LEMMA FirstOf ==
    ASSUME NEW T, T \subseteq Nat, T # {}
    PROVE  First(T) \in T /\ \A u \in T : First(T) <= u
<1>1. \E t \in T : \A u \in T : t <= u BY LeastExists
<1> QED BY <1>1 DEF First

-----------------------------------------------------------------------------
(* Days and sessions. *)

\* Quotient and remainder by the length of a day.
LEMMA DivMod ==
    ASSUME NEW t \in Int
    PROVE  /\ TimeOfDay(t) \in 0 .. DayLength - 1 /\ Day(t) \in Int
           /\ t = DayLength * Day(t) + TimeOfDay(t) /\ Day(t) * DayLength = DayLength * Day(t)
           /\ DayLength * Day(t) \in Int
BY SessionAssumption DEF TimeOfDay, Day

\* The minutes of one day are ordered by their times.
LEMMA SameDay ==
    ASSUME NEW t \in Int, NEW u \in Int, Day(t) = Day(u)
    PROVE  /\ DayOpen(t) = DayOpen(u) /\ t - u = TimeOfDay(t) - TimeOfDay(u)
           /\ TimeOfDay(t) = Open => t = DayOpen(t)
<1>1. /\ TimeOfDay(t) \in Int /\ TimeOfDay(u) \in Int /\ Open \in Int
      /\ DayLength * Day(t) \in Int /\ Day(t) * DayLength = DayLength * Day(t)
      /\ t = DayLength * Day(t) + TimeOfDay(t) /\ u = DayLength * Day(u) + TimeOfDay(u)
  BY DivMod, SessionAssumption
<1> QED BY <1>1 DEF DayOpen

\* Between the first and the latest minute of a session without a hole lie only its minutes.
LEMMA NoHole ==
    ASSUME NEW T, T \subseteq Nat, IsFiniteSet(T), T # {}, CandleContinuityOk(T),
           NEW t \in First(T) .. Latest(T)
    PROVE  t \in T
<1> DEFINE f == First(T)
           l == Latest(T)
           S == {n \in Nat : f + n <= l => f + n \in T}
<1>1. /\ f \in T /\ f \in Nat /\ l \in T /\ l \in Nat /\ \A u \in T : u <= l
  BY FirstOf, LatestOf
<1>2. \A u \in T : u = l \/ u + 1 \in T BY DEF CandleContinuityOk
<1> HIDE DEF f, l
<1>3. 0 \in S BY <1>1
<1>4. ASSUME NEW n \in Nat, n \in S PROVE n + 1 \in S
  <2> SUFFICES ASSUME f + (n + 1) <= l PROVE f + (n + 1) \in T BY <1>4
  <2>1. f + n \in T /\ f + n # l BY <1>1, <1>4
  <2>2. (f + n) + 1 \in T BY <1>2, <2>1
  <2>3. (f + n) + 1 = f + (n + 1) BY <1>1
  <2> QED BY <2>2, <2>3
<1>5. Nat \subseteq S
  <2> HIDE DEF S
  <2> QED BY <1>3, <1>4, SetInduction
<1>6. t \in f .. l BY DEF f, l
<1>7. t - f \in Nat /\ f + (t - f) = t /\ t <= l BY <1>1, <1>6
<1>8. t - f \in S BY <1>5, <1>7
<1> QED BY <1>7, <1>8

\* The latest bar belongs to a session that is not empty.
LEMMA LatestInSession ==
    ASSUME NEW B, B \subseteq Nat, IsFiniteSet(B), CurrentSession(B) # {}
    PROVE  /\ Latest(B) \in CurrentSession(B) /\ Latest(CurrentSession(B)) = Latest(B)
           /\ B # {} /\ CurrentSession(B) \subseteq B /\ IsFiniteSet(CurrentSession(B))
<1> DEFINE l == Latest(B)
           T == CurrentSession(B)
<1>1. B # {} BY DEF CurrentSession
<1>2. l \in B /\ l \in Nat /\ \A u \in B : u <= l BY <1>1, LatestOf
<1>3. T = {t \in B : TimeOfDay(t) >= Open /\ Day(t) = Day(l)}
  BY <1>1 DEF CurrentSession, TrailingBars
<1>4. PICK t \in B : TimeOfDay(t) >= Open /\ Day(t) = Day(l) BY <1>3
<1>5. t \in Int /\ l \in Int /\ t <= l BY <1>2
<1>6. /\ TimeOfDay(t) \in Int /\ TimeOfDay(l) \in Int /\ Open \in Int
      /\ t - l = TimeOfDay(t) - TimeOfDay(l)
  BY <1>4, <1>5, SameDay, DivMod, SessionAssumption
<1>7. TimeOfDay(l) >= Open BY <1>4, <1>5, <1>6
<1>8. l \in T BY <1>2, <1>3, <1>7
<1>9. T \subseteq B BY <1>3
<1>10. IsFiniteSet(T) BY <1>9, FS_Subset
<1>11. Latest(T) \in T /\ \A u \in T : u <= Latest(T) BY <1>8, <1>9, <1>10, LatestOf
<1>12. Latest(T) <= l /\ l <= Latest(T) /\ Latest(T) \in Nat BY <1>2, <1>8, <1>9, <1>11
<1>13. Latest(T) = l BY <1>2, <1>12
<1> QED BY <1>1, <1>8, <1>9, <1>10, <1>13

\* The minutes from the open to the latest bar are in a session that begins at the open
\* and has no hole.
LEMMA FullSession ==
    ASSUME NEW B, B \subseteq Nat, IsFiniteSet(B),
           SessionStartAvailable(CurrentSession(B)), CandleContinuityOk(CurrentSession(B))
    PROVE  /\ \A t \in DayOpen(Latest(B)) .. Latest(B) : t \in CurrentSession(B)
           /\ First(CurrentSession(B)) = DayOpen(Latest(B))
           /\ TimeOfDay(Latest(B)) >= Open
<1> DEFINE l == Latest(B)
           T == CurrentSession(B)
           f == First(T)
<1>1. T # {} /\ TimeOfDay(f) = Open BY DEF SessionStartAvailable
<1>2. l \in T /\ Latest(T) = l /\ T \subseteq B /\ IsFiniteSet(T) BY <1>1, LatestInSession
<1>3. \A t \in T : TimeOfDay(t) >= Open /\ Day(t) = Day(l)
  BY <1>1 DEF CurrentSession, TrailingBars
<1>4. f \in T /\ T \subseteq Nat BY <1>1, <1>2, FirstOf
<1>5. f \in Int /\ l \in Int /\ Day(f) = Day(l) BY <1>2, <1>3, <1>4
<1>6. f = DayOpen(l) BY <1>1, <1>5, SameDay
<1>7. \A t \in f .. l : t \in T BY <1>1, <1>2, <1>4, NoHole
<1> QED BY <1>2, <1>3, <1>6, <1>7

-----------------------------------------------------------------------------
(* The jobs of the callers. *)

PCs == {"idle", "sleep", "symbols", "load", "benchmark", "insert"}
Names == {"orb", "vwap"}
Evals == [n : DOMAIN Strategies, strategy : Names, minute : Minutes, candidate : BOOLEAN]
Rows == [symbol : Symbols, strategy : Names, minute : Minutes, candidate : BOOLEAN, run : Nat]
Reports == [run : Nat, inserted : Nat, candidates : Nat, failed : BOOLEAN]

JobType(j) ==
    j \in [pc : PCs, kind : {"none", "auto", "batch", "once"}, store : BOOLEAN, dry : BOOLEAN,
           run : Nat, todo : {j.todo}, bars : SUBSET Minutes, stale : BOOLEAN,
           evals : SUBSET Evals, cancelled : BOOLEAN, inserted : Nat, candidates : Nat,
           totalInserted : Nat, totalCandidates : Nat, failed : BOOLEAN]

\* What the place of a job says about its fields.
Local(c, j) ==
    /\ j.pc = "idle" => j = Idle
    /\ j.pc = "sleep" => j = Sleeping /\ c \in Loops
    /\ j.pc \notin {"idle", "sleep"} => j.kind # "none" /\ j.run # 0
    /\ j.cancelled => c \in Loops
    /\ c \in Loops => j.kind \in {"none", "auto"}
    /\ j.evals # {} <=> j.pc = "insert"
    /\ j.bars # {} <=> j.pc = "benchmark"
    /\ j.pc # "insert" => j.inserted = 0 /\ j.candidates = 0
    /\ j.pc = "symbols" => j.totalInserted = 0 /\ j.totalCandidates = 0

\* What CandidatesHaveContext asks for, of the candles of a table cs.
Context(symbol, strategy, minute, cs) ==
    /\ \A t \in DayOpen(minute) .. minute : <<symbol, t>> \in cs
    /\ TimeOfDay(minute) \in Open .. EntryEnd
    /\ strategy = "orb" => minute >= DayOpen(minute) + OpeningRange - 1

\* What a scan has loaded and evaluated is in the table of candles, which only grows.
Loaded(j, cs) ==
    /\ \A t \in j.bars : <<Head(j.todo), t>> \in cs
    /\ IsFiniteSet(j.evals)
    /\ \A e \in j.evals : Head(j.todo) \in Symbols
                          /\ (e.candidate => Context(Head(j.todo), e.strategy, e.minute, cs))

JobOK(c, j, cs) == JobType(j) /\ Local(c, j) /\ Loaded(j, cs)

TInv ==
    /\ now \in Nat /\ runs \in Nat
    /\ task \in Loops \cup {Free} /\ runLock \in Callers \cup {Free}
    /\ candles \subseteq Symbols \X Minutes
    /\ signals \subseteq Rows /\ IsFiniteSet(signals) /\ report \in Reports
    /\ job = [c \in Callers |-> job[c]]
    /\ \A c \in Callers : JobOK(c, job[c], candles)
    /\ task # Free => job[task].pc # "idle" /\ ~job[task].cancelled

\* A caller between its runs.
Ended(c) == IF c \in Loops THEN Sleeping ELSE Idle

\* The records of a task between two scans.
LEMMA RestType == JobType(Idle) /\ JobType(Sleeping)
<1>1. JobType(Idle) BY DEF JobType, Idle, PCs
<1>2. JobType(Sleeping) BY DEF JobType, Idle, Sleeping, PCs
<1> QED BY <1>1, <1>2

\* What an idle and a sleeping job are.
LEMMA RestFields ==
    ASSUME NEW j \in {Idle, Sleeping}
    PROVE  /\ j.kind = "none" /\ j.run = 0 /\ j.evals = {} /\ j.bars = {} /\ j.cancelled = FALSE
           /\ j.inserted = 0 /\ j.candidates = 0 /\ j.totalInserted = 0
           /\ j.totalCandidates = 0 /\ j.failed = FALSE
           /\ Idle.pc = "idle" /\ Sleeping.pc = "sleep"
BY DEF Idle, Sleeping

\* They satisfy every part of the invariant that is about one task.
LEMMA RestOK ==
    ASSUME NEW c \in Callers, NEW cs
    PROVE  JobOK(c, Idle, cs) /\ JobOK(c, Ended(c), cs) /\ (c \in Loops => JobOK(c, Sleeping, cs))
<1>1. \A j \in {Idle, Sleeping} : Loaded(j, cs)
  BY RestFields, FS_EmptySet DEF Loaded
<1>2. Local(c, Idle) BY RestFields DEF Local
<1>3. c \in Loops => Local(c, Sleeping) BY RestFields DEF Local
<1> QED BY <1>1, <1>2, <1>3, RestType DEF JobOK, Ended

\* More candles keep what is known of a job.
LEMMA JobGrows ==
    ASSUME NEW c, NEW j, NEW cs, NEW ds, JobOK(c, j, cs), cs \subseteq ds
    PROVE  JobOK(c, j, ds)
BY DEF JobOK, Loaded, Context

\* The strategies and the minutes are finite.
LEMMA Finite ==
    /\ IsFiniteSet(DOMAIN Strategies) /\ DOMAIN Strategies \subseteq Nat
    /\ \A n \in DOMAIN Strategies : Strategies[n] \in Names
    /\ \A B \in SUBSET Minutes : IsFiniteSet(B) /\ B \subseteq Nat
<1>1. Strategies \in Seq(Names) BY ScannerAssumption DEF Names
<1>2. /\ DOMAIN Strategies = 1 .. Len(Strategies) /\ Len(Strategies) \in Nat
      /\ \A n \in DOMAIN Strategies : Strategies[n] \in Names
  BY <1>1
<1>3. IsFiniteSet(DOMAIN Strategies) BY <1>2, FS_Interval
<1>4. \A B \in SUBSET Minutes : IsFiniteSet(B) /\ B \subseteq Nat
  BY ScannerAssumption, FS_Subset
<1> QED BY <1>2, <1>3, <1>4

\* There is a next evaluation to persist.
LEMMA NextIn ==
    ASSUME NEW j, JobType(j), j.evals # {}
    PROVE  NextEval(j) \in j.evals /\ NextEval(j) \in Evals
<1> DEFINE N == {n \in DOMAIN Strategies : \E e \in j.evals : e.n = n}
<1>1. j.evals \subseteq Evals BY DEF JobType
<1>2. N # {} /\ N \subseteq Nat BY <1>1, Finite DEF Evals
<1>3. PICK n \in N : \A m \in N : n <= m
  <2> HIDE DEF N
  <2> QED BY <1>2, LeastExists
<1>4. PICK e \in j.evals : e.n = n OBVIOUS
<1>5. \A other \in j.evals : e.n <= other.n BY <1>1, <1>3, <1>4 DEF Evals
<1> QED BY <1>1, <1>5 DEF NextEval

-----------------------------------------------------------------------------
(* What a strategy is given. *)

\* A candidate has its context in the candles from which it was found.
LEMMA CandidateContext ==
    ASSUME NEW strategy \in Names, NEW j, NEW bm, NEW met, NEW s, NEW cs,
           j.bars \subseteq Minutes, \A t \in j.bars : <<s, t>> \in cs,
           Candidate(strategy, j, bm, met)
    PROVE  Context(s, strategy, Latest(j.bars), cs)
<1> DEFINE B == j.bars
           T == CurrentSession(B)
           l == Latest(B)
<1>1. /\ CandleContinuityOk(T) /\ SessionStartAvailable(T) /\ TimeOfDay(l) <= EntryEnd
      /\ strategy = "orb" => First(T) .. First(T) + OpeningRange - 1 \subseteq T
  BY DEF Candidate, Unvetoed, HasContinuousPrefix, Names
<1>2. B \subseteq Nat /\ IsFiniteSet(B) BY Finite
<1>3. /\ \A t \in DayOpen(l) .. l : t \in T
      /\ First(T) = DayOpen(l) /\ TimeOfDay(l) >= Open
  BY <1>1, <1>2, FullSession
<1>4. /\ T # {} /\ T \subseteq B BY <1>1, <1>2, LatestInSession DEF SessionStartAvailable
<1>5. l \in B /\ \A u \in B : u <= l BY <1>2, <1>4, LatestOf
<1>6. /\ l \in Nat /\ DayOpen(l) \in Int /\ TimeOfDay(l) \in Int
      /\ OpeningRange \in Nat \ {0} /\ EntryEnd \in Int /\ Open \in Int
  <2>1. l \in Nat /\ l \in Int BY <1>2, <1>5
  <2>2. OpeningRange \in Nat \ {0} /\ EntryEnd \in Int /\ Open \in Int
    BY SessionAssumption, ScannerAssumption
  <2>3. TimeOfDay(l) \in Int /\ Day(l) * DayLength \in Int
    <3> HIDE DEF l
    <3> QED BY <2>1, DivMod
  <2> QED BY <2>1, <2>2, <2>3 DEF DayOpen
<1>7. ASSUME strategy = "orb" PROVE l >= DayOpen(l) + OpeningRange - 1
  <2>1. DayOpen(l) + OpeningRange - 1 \in DayOpen(l) .. DayOpen(l) + OpeningRange - 1 BY <1>6
  <2>2. DayOpen(l) + OpeningRange - 1 \in B BY <1>1, <1>3, <1>4, <1>7, <2>1
  <2>3. DayOpen(l) + OpeningRange - 1 <= l BY <1>5, <2>2
  <2> HIDE DEF l
  <2> QED BY <1>6, <2>3
<1>8. TimeOfDay(l) \in Open .. EntryEnd BY <1>1, <1>3, <1>6
<1>9. \A t \in DayOpen(l) .. l : <<s, t>> \in cs BY <1>3, <1>4
<1> QED BY <1>7, <1>8, <1>9 DEF Context

\* The bars that are loaded are stored.
LEMMA LoadedBars ==
    ASSUME NEW s
    PROVE  /\ LoadCompletedBars(s) \subseteq Minutes
           /\ \A t \in LoadCompletedBars(s) : <<s, t>> \in candles
BY DEF LoadCompletedBars

-----------------------------------------------------------------------------
(* The steps of a scan. *)

RowsOf(S, n) == {s \in S : s.run = n}
CandidateRows(S, n) == {s \in S : s.run = n /\ s.candidate}

\* The counts of a run that has not failed are those of its rows, and of the candidates
\* that wait for their inserts.
Account(j, S) ==
    ~j.failed =>
        /\ j.totalInserted + j.inserted = Cardinality(RowsOf(S, j.run))
        /\ j.totalCandidates + j.candidates >=
             Cardinality(CandidateRows(S, j.run)) + Cardinality({e \in j.evals : e.candidate})

\* A later state of the same run.
SameRun(j, k) ==
    k.run = j.run /\ k.kind = j.kind /\ k.cancelled = j.cancelled /\ k.pc \notin {"idle", "sleep"}

\* The table has, or has not, the next evaluation of j in addition.
Stores(j) ==
    /\ j.pc = "insert" /\ ~KeyTaken(Head(j.todo), NextEval(j))
    /\ signals' = Inserted(Head(j.todo), NextEval(j), j.run)

\* The row that is stored.
LEMMA StoredRow ==
    ASSUME TInv, NEW c \in Callers, Stores(job[c])
    PROVE  \E row \in Rows :
             /\ signals' = signals \cup {row} /\ row \notin signals
             /\ row.run = job[c].run /\ row.run # 0
             /\ row.candidate = NextEval(job[c]).candidate
             /\ row.candidate => Context(row.symbol, row.strategy, row.minute, candles)
             /\ \A r \in signals : ~(r.symbol = row.symbol /\ r.strategy = row.strategy
                                     /\ r.minute = row.minute)
             /\ signals' \subseteq Rows /\ IsFiniteSet(signals')
<1> DEFINE j == job[c]
           e == NextEval(j)
           row == [symbol |-> Head(j.todo), strategy |-> e.strategy, minute |-> e.minute,
                   candidate |-> e.candidate, run |-> j.run]
<1>1. JobOK(c, j, candles) /\ j.pc = "insert" BY DEF TInv, Stores
<1>2. JobType(j) /\ Local(c, j) /\ Loaded(j, candles) BY <1>1 DEF JobOK
<1>3. j.evals # {} /\ j.run # 0 BY <1>1, <1>2 DEF Local
<1>4. e \in j.evals /\ e \in Evals BY <1>2, <1>3, NextIn
<1>5. /\ Head(j.todo) \in Symbols
      /\ e.candidate => Context(Head(j.todo), e.strategy, e.minute, candles)
  BY <1>2, <1>4 DEF Loaded
<1>6. j.run \in Nat BY <1>2 DEF JobType
<1>7. ~KeyTaken(Head(j.todo), e) /\ signals' = signals \cup {row} BY DEF Stores, Inserted
<1>8. /\ e.strategy \in Names /\ e.minute \in Minutes /\ e.candidate \in BOOLEAN
  BY <1>4 DEF Evals
<1> HIDE DEF e, j
<1>9. row \in Rows BY <1>5, <1>6, <1>8 DEF Rows
<1>10. \A r \in signals : ~(r.symbol = row.symbol /\ r.strategy = row.strategy
                            /\ r.minute = row.minute)
  BY <1>7 DEF KeyTaken
<1>11. row \notin signals BY <1>10
<1>12. /\ row.run = j.run /\ row.candidate = e.candidate
       /\ (row.candidate => Context(row.symbol, row.strategy, row.minute, candles))
  BY <1>5
<1>13. signals' \subseteq Rows /\ IsFiniteSet(signals') BY <1>7, <1>9, FS_AddElement DEF TInv
<1> HIDE DEF row
<1> QED BY <1>3, <1>7, <1>9, <1>10, <1>11, <1>12, <1>13 DEF e, j

\* What becomes of a job of which nothing but its last step in a symbol is known.
LEMMA DoneStep ==
    ASSUME TInv, NEW c \in Callers, NEW j, JobType(j), SymbolDone(c, j),
           j.kind # "none", j.run # 0, j.cancelled => c \in Loops,
           c \in Loops => j.kind = "auto", NEW S, IsFiniteSet(S), Account(j, S),
           IsFiniteSet(j.evals)
    PROVE  \E k : /\ job' = [job EXCEPT ![c] = k] /\ JobOK(c, k, candles) /\ runs' = runs
                  /\ \/ /\ k = Ended(c) /\ Release(c)
                        /\ report' = [run |-> j.run, inserted |-> j.totalInserted + j.inserted,
                                      candidates |-> j.totalCandidates + j.candidates,
                                      failed |-> j.failed]
                     \/ /\ SameRun(j, k) /\ Account(k, S) /\ UNCHANGED <<runLock, report>>
<1>1. PICK m \in Nat : m = j.totalInserted + j.inserted BY DEF JobType
<1>2. PICK n \in Nat : n = j.totalCandidates + j.candidates BY DEF JobType
<1>3. PICK u : u = Tail(j.todo) OBVIOUS
<1> DEFINE k == [j EXCEPT !.todo = u, !.pc = "load", !.bars = {}, !.stale = FALSE,
                    !.evals = {}, !.inserted = 0, !.candidates = 0,
                    !.totalInserted = m, !.totalCandidates = n]
<1>4. JobType(k) BY DEF JobType, PCs
<1>5. /\ k.todo = u /\ k.pc = "load" /\ k.bars = {} /\ k.evals = {} /\ k.inserted = 0
      /\ k.candidates = 0 /\ k.totalInserted = m /\ k.totalCandidates = n
      /\ k.run = j.run /\ k.kind = j.kind /\ k.cancelled = j.cancelled /\ k.failed = j.failed
  BY DEF JobType
<1>6. \/ report' = Result(k) /\ Leave(c)
      \/ job' = [job EXCEPT ![c] = k] /\ UNCHANGED <<runLock, runs, report>>
  BY <1>1, <1>2, <1>3 DEF SymbolDone
<1> HIDE DEF k
<1>7. Local(c, k) BY <1>5 DEF Local
<1>8. Loaded(k, candles) BY <1>5, FS_EmptySet DEF Loaded
<1>9. CASE report' = Result(k) /\ Leave(c)
  <2>1. report' = [run |-> j.run, inserted |-> m, candidates |-> n, failed |-> j.failed]
    BY <1>5, <1>9 DEF Result
  <2>2. job' = [job EXCEPT ![c] = Ended(c)] /\ runs' = runs /\ Release(c)
    BY <1>9 DEF Leave, Ended
  <2> QED BY <1>1, <1>2, <2>1, <2>2, RestOK
<1>10. CASE job' = [job EXCEPT ![c] = k] /\ UNCHANGED <<runLock, runs, report>>
  <2>1. SameRun(j, k) BY <1>5 DEF SameRun
  <2>2. Account(k, S)
    <3> SUFFICES ASSUME ~j.failed
                 PROVE  /\ m + 0 = Cardinality(RowsOf(S, j.run))
                        /\ n + 0 >= Cardinality(CandidateRows(S, j.run))
                                    + Cardinality({e \in {} : e.candidate})
      BY <1>5 DEF Account
    <3>1. Cardinality({e \in j.evals : e.candidate}) \in Nat BY FS_Subset, FS_CardinalityType
    <3>2. {e \in {} : e.candidate} = {} /\ Cardinality({}) = 0 BY FS_EmptySet
    <3>3. /\ m = Cardinality(RowsOf(S, j.run))
          /\ n >= Cardinality(CandidateRows(S, j.run)) + Cardinality({e \in j.evals : e.candidate})
      BY <1>1, <1>2 DEF Account
    <3>4. Cardinality(CandidateRows(S, j.run)) \in Nat
      BY FS_Subset, FS_CardinalityType DEF CandidateRows
    <3> QED BY <3>1, <3>2, <3>3, <3>4
  <2> QED BY <1>4, <1>7, <1>8, <1>10, <2>1, <2>2 DEF JobOK
<1> QED BY <1>6, <1>9, <1>10

\* The outcomes of a step of a scan.
Forms(c) ==
    \/ Leave(c) /\ UNCHANGED report
    \/ Leave(c) /\ report' = Result(job[c]) /\ job[c].pc = "symbols" /\ UNCHANGED signals
    \/ \E k : /\ JobType(k) /\ SameRun(job[c], k) /\ Account(k, signals') /\ IsFiniteSet(k.evals)
              /\ \/ SymbolDone(c, k)
                 \/ /\ Local(c, k) /\ Loaded(k, candles) /\ job' = [job EXCEPT ![c] = k]
                    /\ UNCHANGED <<runLock, runs, report>>

\* The evaluation of loaded bars.
LEMMA EvaluateForm ==
    ASSUME TInv, NEW c \in Callers, NEW j, JobType(j), Loaded(j, candles), j.bars # {},
           j.evals = {}, j.inserted = 0, j.candidates = 0, SameRun(job[c], j),
           job[c].pc \notin {"idle", "sleep"},
           NEW bm, NEW met, Evaluate(c, j, bm, met), UNCHANGED signals, Account(j, signals)
    PROVE  Forms(c)
<1> DEFINE all == {Evaluation(n, j, bm, met) : n \in DOMAIN Strategies}
           kept == {e \in all : ShouldPersist(e, j)}
           cand == Cardinality({e \in all : e.candidate})
           k == [j EXCEPT !.candidates = cand, !.evals = kept, !.pc = "insert",
                          !.bars = {}, !.stale = FALSE]
           s == Head(j.todo)
<1>1. j.bars \subseteq Minutes /\ \A t \in j.bars : <<s, t>> \in candles
  BY DEF JobType, Loaded
<1>2. Latest(j.bars) \in j.bars BY <1>1, Finite, LatestOf
<1>3. s \in Symbols /\ Latest(j.bars) \in Minutes BY <1>1, <1>2 DEF TInv
<1>4. \A n \in DOMAIN Strategies :
        LET e == Evaluation(n, j, bm, met)
        IN  e \in Evals /\ (e.candidate => Context(s, e.strategy, e.minute, candles))
  <2> SUFFICES ASSUME NEW n \in DOMAIN Strategies
               PROVE  LET e == Evaluation(n, j, bm, met)
                      IN  e \in Evals /\ (e.candidate => Context(s, e.strategy, e.minute, candles))
    OBVIOUS
  <2> DEFINE e == Evaluation(n, j, bm, met)
  <2>1. Strategies[n] \in Names BY Finite
  <2>2. Candidate(Strategies[n], j, bm, met) \in BOOLEAN BY DEF Candidate
  <2>3. /\ e = [n |-> n, strategy |-> Strategies[n], minute |-> Latest(j.bars),
                candidate |-> Candidate(Strategies[n], j, bm, met)]
    BY DEF Evaluation
  <2>4. Candidate(Strategies[n], j, bm, met) => Context(s, Strategies[n], Latest(j.bars), candles)
    BY <1>1, <2>1, CandidateContext
  <2>5. e \in Evals BY <1>3, <2>1, <2>2, <2>3 DEF Evals
  <2> QED BY <2>3, <2>4, <2>5
<1>5. IsFiniteSet(all)
  <2> DEFINE f == [n \in DOMAIN Strategies |-> Evaluation(n, j, bm, met)]
  <2>1. f \in Surjection(DOMAIN Strategies, all)
    BY DEF Surjection
  <2> HIDE DEF f, all
  <2> QED BY <2>1, Finite, FS_Surjection
<1>6. all \subseteq Evals
      /\ \A e \in all : e.candidate => Context(s, e.strategy, e.minute, candles)
  BY <1>4
<1> HIDE DEF all
<1>7. IsFiniteSet(kept) /\ kept \subseteq Evals BY <1>5, <1>6, FS_Subset
<1>8. cand \in Nat /\ Cardinality({e \in kept : e.candidate}) \in Nat
      /\ Cardinality({e \in kept : e.candidate}) <= cand
  <2>1. IsFiniteSet({e \in all : e.candidate}) BY <1>5, FS_Subset
  <2>2. {e \in kept : e.candidate} \subseteq {e \in all : e.candidate} OBVIOUS
  <2> HIDE DEF kept
  <2> QED BY <2>1, <2>2, FS_Subset, FS_CardinalityType
<1>9. \A e \in kept : s \in Symbols
                      /\ (e.candidate => Context(s, e.strategy, e.minute, candles))
  BY <1>3, <1>6
<1>10. \/ SymbolDone(c, k)
       \/ kept # {} /\ job' = [job EXCEPT ![c] = k] /\ UNCHANGED <<runLock, runs, report>>
  <2>1. k.evals = kept BY DEF JobType
  <2> QED BY <2>1 DEF Evaluate, all
<1> HIDE DEF kept, cand
<1>11. JobType(k) BY <1>7, <1>8 DEF JobType, PCs
<1>12. /\ k.candidates = cand /\ k.evals = kept /\ k.pc = "insert" /\ k.bars = {}
       /\ k.run = j.run /\ k.kind = j.kind /\ k.cancelled = j.cancelled /\ k.failed = j.failed
       /\ k.inserted = 0 /\ k.totalInserted = j.totalInserted /\ k.todo = j.todo
       /\ k.totalCandidates = j.totalCandidates
  BY DEF JobType
<1> HIDE DEF k
<1>13. SameRun(job[c], k) BY <1>12 DEF SameRun
<1>14. Account(k, signals')
  <2> SUFFICES ASSUME ~j.failed
               PROVE  /\ j.totalInserted + 0 = Cardinality(RowsOf(signals, j.run))
                      /\ j.totalCandidates + cand >= Cardinality(CandidateRows(signals, j.run))
                                                     + Cardinality({e \in kept : e.candidate})
    BY <1>12 DEF Account
  <2>1. Cardinality({}) = 0 /\ {e \in j.evals : e.candidate} = {} BY FS_EmptySet
  <2>2. /\ j.totalInserted + 0 = Cardinality(RowsOf(signals, j.run))
        /\ j.totalCandidates + 0 >= Cardinality(CandidateRows(signals, j.run)) + 0
    BY <2>1 DEF Account
  <2>3. Cardinality(CandidateRows(signals, j.run)) \in Nat
    BY FS_Subset, FS_CardinalityType DEF CandidateRows, TInv
  <2>4. j.totalCandidates \in Nat BY DEF JobType
  <2> QED BY <1>8, <2>2, <2>3, <2>4
<1>15. Loaded(k, candles) BY <1>7, <1>9, <1>12 DEF Loaded
<1>16. ASSUME kept # {} PROVE Local(c, k)
  <2>1. Local(c, job[c]) BY DEF TInv, JobOK
  <2>2. j.run = job[c].run /\ j.kind = job[c].kind /\ j.cancelled = job[c].cancelled
    BY DEF SameRun
  <2> QED BY <1>12, <1>16, <2>1, <2>2 DEF Local
<1>17. IsFiniteSet(k.evals) BY <1>7, <1>12
<1> QED BY <1>10, <1>11, <1>13, <1>14, <1>15, <1>16, <1>17 DEF Forms

\* A job under way.
LEMMA Underway ==
    ASSUME TInv, NEW c \in Callers, job[c].pc \notin {"idle", "sleep"}
    PROVE  /\ JobType(job[c]) /\ Local(c, job[c]) /\ Loaded(job[c], candles)
           /\ job[c].kind # "none" /\ job[c].run # 0 /\ job[c].run \in Nat
           /\ job[c].cancelled => c \in Loops
           /\ c \in Loops => job[c].kind = "auto"
           /\ SameRun(job[c], job[c]) /\ IsFiniteSet(job[c].evals)
<1>1. JobType(job[c]) /\ Local(c, job[c]) /\ Loaded(job[c], candles) BY DEF TInv, JobOK
<1> QED BY <1>1 DEF Local, Loaded, SameRun, JobType

\* What the step that resolves the watchlist makes of its task.
LEMMA ResolveForm ==
    ASSUME TInv, NEW c \in Callers, NEW list, ResolveSymbols(c, list), Account(job[c], signals)
    PROVE  Forms(c) /\ UNCHANGED signals
<1>1. PICK u : \/ Leave(c) /\ UNCHANGED report
               \/ report' = Result(job[c]) /\ Leave(c)
               \/ /\ job' = [job EXCEPT ![c].pc = "load", ![c].todo = u]
                  /\ UNCHANGED <<runLock, runs, report>>
  BY DEF ResolveSymbols
<1>2. job[c].pc = "symbols" /\ UNCHANGED signals BY DEF ResolveSymbols, At
<1>3. /\ JobType(job[c]) /\ Local(c, job[c]) /\ Loaded(job[c], candles) BY <1>2, Underway
<1>4. ASSUME job' = [job EXCEPT ![c].pc = "load", ![c].todo = u],
             UNCHANGED <<runLock, runs, report>>
      PROVE  Forms(c)
  <2> DEFINE j == job[c]
             k == [j EXCEPT !.pc = "load", !.todo = u]
  <2>1. job' = [job EXCEPT ![c] = k]
    <3>1. job = [d \in Callers |-> job[d]] BY DEF TInv
    <3> QED BY <1>4, <3>1
  <2> HIDE DEF j
  <2>2. JobType(k) BY <1>3 DEF JobType, PCs, j
  <2>3. /\ k.pc = "load" /\ k.bars = j.bars /\ k.evals = j.evals /\ k.inserted = j.inserted
        /\ k.candidates = j.candidates /\ k.totalInserted = j.totalInserted
        /\ k.totalCandidates = j.totalCandidates /\ k.run = j.run /\ k.kind = j.kind
        /\ k.cancelled = j.cancelled /\ k.failed = j.failed
    BY <1>3 DEF JobType, j
  <2> HIDE DEF k
  <2>4. j.evals = {} /\ j.bars = {} BY <1>2, <1>3 DEF Local, j
  <2>5. Local(c, k) BY <1>2, <1>3, <2>3, <2>4 DEF Local, j
  <2>6. Loaded(k, candles) BY <2>3, <2>4, FS_EmptySet DEF Loaded
  <2>7. SameRun(j, k) BY <2>3 DEF SameRun
  <2>8. Account(k, signals') BY <1>2, <2>3 DEF Account, j
  <2>9. IsFiniteSet(k.evals) BY <2>6 DEF Loaded
  <2> QED BY <1>4, <2>1, <2>2, <2>5, <2>6, <2>7, <2>8, <2>9 DEF Forms, j
<1> QED BY <1>1, <1>2, <1>4 DEF Forms

\* The same for the step that loads the bars of a symbol.
LEMMA LoadForm ==
    ASSUME TInv, NEW c \in Callers, NEW met, LoadBars(c, met), Account(job[c], signals)
    PROVE  Forms(c) /\ UNCHANGED signals
<1> DEFINE j == job[c]
           bars == LoadCompletedBars(Head(j.todo))
           stale == IsStale(bars)
           k == [j EXCEPT !.bars = bars, !.stale = stale, !.pc = "benchmark"]
<1>1. j.pc = "load" /\ UNCHANGED signals BY DEF LoadBars, At
<1>2. /\ JobType(j) /\ Local(c, j) /\ SameRun(j, j) /\ IsFiniteSet(j.evals) BY <1>1, Underway
<1>3. \/ SymbolDone(c, j)
      \/ ~Skipped(j.kind, bars) /\ Evaluate(c, k, {}, met)
      \/ /\ ~Skipped(j.kind, bars) /\ job' = [job EXCEPT ![c] = k]
         /\ UNCHANGED <<runLock, runs, report>>
  BY DEF LoadBars
<1>4. bars \subseteq Minutes /\ \A t \in bars : <<Head(j.todo), t>> \in candles BY LoadedBars
<1>5. stale \in BOOLEAN BY DEF IsStale
<1>6. ~Skipped(j.kind, bars) => bars # {} BY DEF Skipped
<1> HIDE DEF bars, stale, j
<1>7. JobType(k) BY <1>2, <1>4, <1>5 DEF JobType, PCs
<1>8. /\ k.pc = "benchmark" /\ k.bars = bars /\ k.evals = j.evals /\ k.inserted = j.inserted
      /\ k.candidates = j.candidates /\ k.totalInserted = j.totalInserted
      /\ k.totalCandidates = j.totalCandidates /\ k.run = j.run /\ k.kind = j.kind
      /\ k.cancelled = j.cancelled /\ k.failed = j.failed /\ k.todo = j.todo
  BY <1>2 DEF JobType
<1> HIDE DEF k
<1>9. j.evals = {} /\ j.inserted = 0 /\ j.candidates = 0 BY <1>1, <1>2 DEF Local
<1>10. Loaded(k, candles) BY <1>4, <1>8, <1>9, FS_EmptySet DEF Loaded
<1>11. SameRun(j, k) BY <1>8 DEF SameRun
<1>12. Account(k, signals) BY <1>8 DEF Account, j
<1>13. CASE SymbolDone(c, j) BY <1>1, <1>2, <1>13 DEF Forms, j, Account
<1>14. CASE ~Skipped(j.kind, bars) /\ Evaluate(c, k, {}, met)
  BY <1>1, <1>6, <1>7, <1>8, <1>9, <1>10, <1>11, <1>12, <1>14, EvaluateForm DEF j
<1>15. CASE /\ ~Skipped(j.kind, bars) /\ job' = [job EXCEPT ![c] = k]
            /\ UNCHANGED <<runLock, runs, report>>
  <2>1. Local(c, k) BY <1>1, <1>2, <1>6, <1>8, <1>9, <1>15 DEF Local
  <2>2. Account(k, signals') BY <1>1, <1>12 DEF Account
  <2>3. IsFiniteSet(k.evals) BY <1>10 DEF Loaded
  <2> QED BY <1>1, <1>7, <1>10, <1>11, <1>15, <2>1, <2>2, <2>3 DEF Forms, j
<1> QED BY <1>1, <1>3, <1>13, <1>14, <1>15

\* The same for the step that loads the benchmark.
LEMMA BenchmarkForm ==
    ASSUME TInv, NEW c \in Callers, NEW met, LoadBenchmark(c, met), Account(job[c], signals)
    PROVE  Forms(c) /\ UNCHANGED signals
<1>1. job[c].pc = "benchmark" /\ UNCHANGED signals BY DEF LoadBenchmark, At
<1>2. /\ JobType(job[c]) /\ Local(c, job[c]) /\ SameRun(job[c], job[c])
      /\ Loaded(job[c], candles)
  BY <1>1, Underway
<1>3. /\ job[c].bars # {} /\ job[c].evals = {} /\ job[c].inserted = 0 /\ job[c].candidates = 0
  BY <1>1, <1>2 DEF Local
<1>4. Evaluate(c, job[c], LoadCompletedBars(Benchmark), met) BY DEF LoadBenchmark
<1> QED BY <1>1, <1>2, <1>3, <1>4, EvaluateForm

\* The rows of a run when one is added to the table.
LEMMA RowsGrow ==
    ASSUME NEW S, NEW row, row \notin S, IsFiniteSet(S), row.candidate \in BOOLEAN
    PROVE  /\ \A n : n # row.run => /\ RowsOf(S \cup {row}, n) = RowsOf(S, n)
                                    /\ CandidateRows(S \cup {row}, n) = CandidateRows(S, n)
           /\ LET n == row.run
              IN  /\ Cardinality(RowsOf(S, n)) \in Nat /\ Cardinality(CandidateRows(S, n)) \in Nat
                  /\ Cardinality(RowsOf(S \cup {row}, n)) = Cardinality(RowsOf(S, n)) + 1
                  /\ Cardinality(CandidateRows(S \cup {row}, n)) =
                       Cardinality(CandidateRows(S, n)) + (IF row.candidate THEN 1 ELSE 0)
<1> DEFINE n == row.run
<1>1. \A m : m # n => /\ RowsOf(S \cup {row}, m) = RowsOf(S, m)
                      /\ CandidateRows(S \cup {row}, m) = CandidateRows(S, m)
  BY DEF RowsOf, CandidateRows
<1>2. RowsOf(S \cup {row}, n) = RowsOf(S, n) \cup {row} /\ row \notin RowsOf(S, n)
  BY DEF RowsOf
<1>3. /\ row.candidate => CandidateRows(S \cup {row}, n) = CandidateRows(S, n) \cup {row}
      /\ ~row.candidate => CandidateRows(S \cup {row}, n) = CandidateRows(S, n)
      /\ row \notin CandidateRows(S, n)
  BY DEF CandidateRows
<1>4. IsFiniteSet(RowsOf(S, n)) /\ IsFiniteSet(CandidateRows(S, n))
  BY FS_Subset DEF RowsOf, CandidateRows
<1>5. Cardinality(RowsOf(S, n)) \in Nat /\ Cardinality(CandidateRows(S, n)) \in Nat
  BY <1>4, FS_CardinalityType
<1>6. Cardinality(RowsOf(S \cup {row}, n)) = Cardinality(RowsOf(S, n)) + 1
  BY <1>2, <1>4, FS_AddElement
<1>7. row.candidate => Cardinality(CandidateRows(S \cup {row}, n)) =
                         Cardinality(CandidateRows(S, n)) + 1
  BY <1>3, <1>4, FS_AddElement
<1>8. ~row.candidate => Cardinality(CandidateRows(S \cup {row}, n)) =
                         Cardinality(CandidateRows(S, n)) + 0
  BY <1>3, <1>5
<1> QED BY <1>1, <1>5, <1>6, <1>7, <1>8

\* The same for the step that inserts a signal or finds it stored.
LEMMA InsertForm ==
    ASSUME TInv, NEW c \in Callers, InsertSignal(c), Account(job[c], signals)
    PROVE  Forms(c) /\ (UNCHANGED signals \/ Stores(job[c]))
<1> DEFINE j == job[c]
           e == NextEval(j)
           taken == KeyTaken(Head(j.todo), e)
           left == j.evals \ {e}
           count == IF taken THEN j.inserted ELSE j.inserted + 1
           k == [j EXCEPT !.evals = left, !.inserted = count]
           old == {x \in j.evals : x.candidate}
           new == {x \in left : x.candidate}
<1>1. j.pc = "insert" BY DEF InsertSignal, At
<1>2. /\ JobType(j) /\ Local(c, j) /\ Loaded(j, candles) /\ SameRun(j, j) /\ IsFiniteSet(j.evals)
  BY <1>1, Underway
<1>3. j.evals # {} BY <1>1, <1>2 DEF Local
<1>4. e \in j.evals /\ e \in Evals BY <1>2, <1>3, NextIn
<1>5. (taken => UNCHANGED signals) /\ (~taken => Stores(j))
  BY <1>1 DEF InsertSignal, Stores
<1>6. j.inserted \in Nat /\ j.evals \subseteq Evals BY <1>2 DEF JobType
<1>7. count \in Nat /\ left \subseteq Evals BY <1>6
<1>8. IsFiniteSet(old) /\ IsFiniteSet(new) /\ IsFiniteSet(left) BY <1>2, FS_Subset
<1>9. e.candidate \in BOOLEAN BY <1>4 DEF Evals
<1>10. /\ Cardinality(old) \in Nat /\ Cardinality(new) \in Nat
       /\ e.candidate => Cardinality(new) = Cardinality(old) - 1
       /\ ~e.candidate => Cardinality(new) = Cardinality(old)
  <2>1. e.candidate => new = old \ {e} /\ e \in old BY <1>4
  <2>2. ~e.candidate => new = old BY <1>4
  <2> HIDE DEF old, new, e
  <2> QED BY <1>8, <2>1, <2>2, FS_RemoveElement, FS_CardinalityType
<1>11. \/ SymbolDone(c, k)
       \/ left # {} /\ job' = [job EXCEPT ![c] = k] /\ UNCHANGED <<runLock, runs, report>>
  <2>1. k.evals = left BY <1>2 DEF JobType
  <2> QED BY <2>1 DEF InsertSignal
<1>12. IsFiniteSet(signals) BY DEF TInv
<1> HIDE DEF old, new, e, left, count, taken, j
<1>13. JobType(k) BY <1>2, <1>7 DEF JobType
<1>14. /\ k.pc = j.pc /\ k.bars = j.bars /\ k.evals = left /\ k.inserted = count
       /\ k.candidates = j.candidates /\ k.totalInserted = j.totalInserted
       /\ k.totalCandidates = j.totalCandidates /\ k.run = j.run /\ k.kind = j.kind
       /\ k.cancelled = j.cancelled /\ k.failed = j.failed /\ k.todo = j.todo
  BY <1>2 DEF JobType
<1> HIDE DEF k
<1>15. Account(k, signals')
  <2> SUFFICES ASSUME ~j.failed
               PROVE  /\ j.totalInserted + count = Cardinality(RowsOf(signals', j.run))
                      /\ j.totalCandidates + j.candidates >=
                           Cardinality(CandidateRows(signals', j.run)) + Cardinality(new)
    BY <1>14 DEF Account, new
  <2>1. /\ j.totalInserted + j.inserted = Cardinality(RowsOf(signals, j.run))
        /\ j.totalCandidates + j.candidates >=
             Cardinality(CandidateRows(signals, j.run)) + Cardinality(old)
    BY DEF Account, j, old
  <2>2. /\ j.totalInserted \in Nat /\ j.totalCandidates \in Nat /\ j.candidates \in Nat
    BY <1>2 DEF JobType
  <2>3. CASE taken
    <3>1. Cardinality(CandidateRows(signals, j.run)) \in Nat
      BY <1>12, FS_Subset, FS_CardinalityType DEF CandidateRows
    <3> QED BY <1>5, <1>9, <1>10, <2>1, <2>2, <2>3, <3>1 DEF count
  <2>4. CASE ~taken
    <3>1. PICK row \in Rows : /\ signals' = signals \cup {row} /\ row \notin signals
                              /\ row.run = j.run /\ row.candidate = e.candidate
      BY <1>5, <2>4, StoredRow DEF j, e
    <3>2. /\ Cardinality(RowsOf(signals, j.run)) \in Nat
          /\ Cardinality(CandidateRows(signals, j.run)) \in Nat
          /\ Cardinality(RowsOf(signals', j.run)) = Cardinality(RowsOf(signals, j.run)) + 1
          /\ Cardinality(CandidateRows(signals', j.run)) =
               Cardinality(CandidateRows(signals, j.run)) + (IF e.candidate THEN 1 ELSE 0)
      BY <1>9, <1>12, <3>1, RowsGrow
    <3> QED BY <1>6, <1>9, <1>10, <2>1, <2>2, <2>4, <3>2 DEF count
  <2> QED BY <2>3, <2>4
<1>16. Loaded(k, candles)
  BY <1>2, <1>8, <1>14 DEF Loaded, left
<1>17. SameRun(j, k) BY <1>2, <1>14 DEF SameRun
<1>18. ASSUME left # {} PROVE Local(c, k)
  BY <1>1, <1>2, <1>14, <1>18 DEF Local
<1>19. IsFiniteSet(k.evals) BY <1>16 DEF Loaded
<1> QED BY <1>5, <1>11, <1>13, <1>15, <1>16, <1>17, <1>18, <1>19 DEF Forms, j

\* The same for a call that raises.
LEMMA FailForm ==
    ASSUME TInv, NEW c \in Callers, Fail(c), Account(job[c], signals)
    PROVE  Forms(c) /\ (UNCHANGED signals \/ Stores(job[c]))
<1> DEFINE j == job[c]
           k == [j EXCEPT !.inserted = 0, !.candidates = 0, !.failed = TRUE]
<1>1. j.pc \notin {"idle", "sleep"} BY DEF Fail, At
<1>2. /\ JobType(j) /\ SameRun(j, j) /\ IsFiniteSet(j.evals) BY <1>1, Underway
<1>3. UNCHANGED signals \/ Stores(j) BY DEF Fail, At, Stores
<1>4. (Leave(c) /\ UNCHANGED report) \/ SymbolDone(c, k) BY DEF Fail
<1> HIDE DEF j
<1>5. JobType(k) BY <1>2 DEF JobType
<1>6. /\ k.pc = j.pc /\ k.run = j.run /\ k.kind = j.kind /\ k.cancelled = j.cancelled
      /\ k.evals = j.evals /\ k.failed = TRUE
  BY <1>2 DEF JobType
<1> HIDE DEF k
<1>7. SameRun(j, k) /\ Account(k, signals') BY <1>2, <1>6 DEF SameRun, Account
<1> QED BY <1>2, <1>3, <1>4, <1>5, <1>6, <1>7 DEF Forms, j

\* What a step of a scan does.
LEMMA ScanForm ==
    ASSUME TInv, NEW c \in Callers, Scan(c), Account(job[c], signals)
    PROVE  /\ job[c].pc \notin {"idle", "sleep"} /\ ~job[c].cancelled
           /\ UNCHANGED <<now, candles, task>>
           /\ UNCHANGED signals \/ Stores(job[c])
           /\ Forms(c)
<1>1. ASSUME NEW list, ResolveSymbols(c, list)
      PROVE  /\ job[c].pc \notin {"idle", "sleep"} /\ ~job[c].cancelled
             /\ UNCHANGED <<now, candles, task>>
  BY <1>1 DEF ResolveSymbols, At
<1>2. ASSUME NEW met, LoadBars(c, met) \/ LoadBenchmark(c, met)
      PROVE  /\ job[c].pc \notin {"idle", "sleep"} /\ ~job[c].cancelled
             /\ UNCHANGED <<now, candles, task>>
  BY <1>2 DEF LoadBars, LoadBenchmark, At
<1>3. ASSUME InsertSignal(c) \/ Fail(c)
      PROVE  /\ job[c].pc \notin {"idle", "sleep"} /\ ~job[c].cancelled
             /\ UNCHANGED <<now, candles, task>>
  BY <1>3 DEF InsertSignal, Fail, At
<1> QED BY <1>1, <1>2, <1>3, ResolveForm, LoadForm, BenchmarkForm, InsertForm, FailForm DEF Scan

-----------------------------------------------------------------------------
(* The steps of the system, by what they do to the runs. *)

\* A result without an error that counts the rows of its run.
Exact(r, S) ==
    ~r.failed => /\ r.inserted = Cardinality(RowsOf(S, r.run))
                 /\ r.candidates >= Cardinality(CandidateRows(S, r.run))

Accounts == \A c \in Callers : job[c].run # 0 => Account(job[c], signals)

\* Nothing but the clock or the candles.
Outside ==
    /\ UNCHANGED <<signals, task, runLock, job, runs, report>>
    /\ now' \in Nat /\ candles \subseteq candles' /\ candles' \subseteq Symbols \X Minutes

\* A new run.
Begins(c, k) ==
    /\ job' = [job EXCEPT ![c] = k] /\ job[c] \in {Idle, Sleeping} /\ JobOK(c, k, candles)
    /\ k.pc = "symbols" /\ k.run = runs + 1 /\ k.cancelled = FALSE /\ runs' = runs + 1
    /\ k.totalInserted = 0 /\ k.totalCandidates = 0
    /\ \/ runLock = Free /\ runLock' = c /\ k.kind = "auto"
       \/ c \in Operators /\ runLock' = runLock /\ k.kind # "auto"
    /\ c \in Loops => job[c].pc = "sleep"
    /\ UNCHANGED <<now, candles, signals, task, report>>

\* The end of a run, with or without a result.
Ends(c, k) ==
    /\ k = IF job[c].cancelled THEN Idle ELSE Ended(c)
    /\ Release(c)
    /\ \/ report' = report
       \/ report' \in Reports /\ report'.run = job[c].run /\ Exact(report', signals')

\* A step of a run, its last one included.
Moves(c, k) ==
    /\ job' = [job EXCEPT ![c] = k] /\ JobOK(c, k, candles)
    /\ job[c].pc \notin {"idle", "sleep"}
    /\ UNCHANGED <<now, candles, task, runs>>
    /\ UNCHANGED signals \/ Stores(job[c])
    /\ Ends(c, k) \/ (SameRun(job[c], k) /\ Account(k, signals') /\ UNCHANGED <<runLock, report>>)

\* The numbers of rows of a finite table.
LEMMA RowCounts ==
    ASSUME NEW S, IsFiniteSet(S), NEW n
    PROVE  /\ Cardinality(RowsOf(S, n)) \in Nat /\ Cardinality(CandidateRows(S, n)) \in Nat
BY FS_Subset, FS_CardinalityType DEF RowsOf, CandidateRows

\* An account is that of an exact result.
LEMMA AccountExact ==
    ASSUME NEW j, JobType(j), NEW S, IsFiniteSet(S), Account(j, S), IsFiniteSet(j.evals),
           NEW r, r = [run |-> j.run, inserted |-> j.totalInserted + j.inserted,
                       candidates |-> j.totalCandidates + j.candidates, failed |-> j.failed]
    PROVE  r \in Reports /\ Exact(r, S)
<1>1. /\ j.run \in Nat /\ j.totalInserted + j.inserted \in Nat /\ j.failed \in BOOLEAN
      /\ j.totalCandidates + j.candidates \in Nat
  BY DEF JobType
<1>2. Cardinality({e \in j.evals : e.candidate}) \in Nat BY FS_Subset, FS_CardinalityType
<1>3. r \in Reports BY <1>1 DEF Reports
<1>4. /\ r.run = j.run /\ r.inserted = j.totalInserted + j.inserted /\ r.failed = j.failed
      /\ r.candidates = j.totalCandidates + j.candidates
  OBVIOUS
<1>5. Exact(r, S) BY <1>1, <1>2, <1>4, RowCounts DEF Exact, Account
<1> QED BY <1>3, <1>5

\* The signals only grow, and stay finitely many rows.
LEMMA SignalsFinite ==
    ASSUME TInv, NEW c \in Callers, UNCHANGED signals \/ Stores(job[c])
    PROVE  signals' \subseteq Rows /\ IsFiniteSet(signals') /\ signals \subseteq signals'
<1>1. CASE UNCHANGED signals BY <1>1 DEF TInv
<1>2. CASE Stores(job[c]) BY <1>2, StoredRow
<1> QED BY <1>1, <1>2

\* A step of a scan is a move of its task alone: to another stage, or to its end.
LEMMA ScanMoves ==
    ASSUME TInv, Accounts, NEW c \in Callers, Scan(c)
    PROVE  \E k : Moves(c, k)
<1> DEFINE j == job[c]
<1>1. job[c].pc \notin {"idle", "sleep"} BY DEF Scan, ResolveSymbols, LoadBars, LoadBenchmark,
                                                InsertSignal, Fail, At
<1>2. /\ JobType(j) /\ Local(c, j) /\ j.kind # "none" /\ j.run # 0
      /\ j.cancelled => c \in Loops
      /\ c \in Loops => j.kind = "auto"
  BY <1>1, Underway
<1>3. Account(j, signals) BY <1>2 DEF Accounts
<1>4. /\ ~j.cancelled /\ UNCHANGED <<now, candles, task>>
      /\ UNCHANGED signals \/ Stores(j)
      /\ Forms(c)
  BY <1>3, ScanForm
<1>5. IsFiniteSet(signals') BY <1>4, SignalsFinite
<1>6. ASSUME Leave(c), UNCHANGED report PROVE \E k : Moves(c, k)
  <2>1. job' = [job EXCEPT ![c] = Ended(c)] /\ runs' = runs /\ Release(c)
    BY <1>6 DEF Leave, Ended
  <2>2. Ends(c, Ended(c)) BY <1>4, <1>6, <2>1 DEF Ends
  <2> QED BY <1>1, <1>4, <2>1, <2>2, RestOK DEF Moves
<1>7. ASSUME Leave(c), report' = Result(j), j.pc = "symbols", UNCHANGED signals
      PROVE  \E k : Moves(c, k)
  <2>1. job' = [job EXCEPT ![c] = Ended(c)] /\ runs' = runs /\ Release(c)
    BY <1>7 DEF Leave, Ended
  <2>2. /\ j.inserted = 0 /\ j.candidates = 0 /\ j.totalInserted = 0 /\ j.totalCandidates = 0
        /\ j.evals = {}
    BY <1>2, <1>7 DEF Local
  <2>3. report' = [run |-> j.run, inserted |-> j.totalInserted + j.inserted,
                   candidates |-> j.totalCandidates + j.candidates, failed |-> j.failed]
    BY <1>7, <2>2 DEF Result
  <2>4. report' \in Reports /\ Exact(report', signals')
    <3>1. Account(j, signals') BY <1>3, <1>7
    <3>2. IsFiniteSet(j.evals) BY <2>2, FS_EmptySet
    <3> HIDE DEF j
    <3> QED BY <1>2, <1>5, <2>3, <3>1, <3>2, AccountExact
  <2>5. report'.run = j.run BY <2>3
  <2>6. Ends(c, Ended(c)) BY <1>4, <2>1, <2>4, <2>5 DEF Ends
  <2> QED BY <1>1, <1>4, <2>1, <2>6, RestOK DEF Moves
<1>8. ASSUME NEW k, JobType(k), SameRun(j, k), Account(k, signals'), IsFiniteSet(k.evals),
             SymbolDone(c, k)
      PROVE  \E m : Moves(c, m)
  <2>1. k.run = j.run /\ k.kind = j.kind /\ k.cancelled = j.cancelled BY <1>8 DEF SameRun
  <2>2. PICK m : /\ job' = [job EXCEPT ![c] = m] /\ JobOK(c, m, candles) /\ runs' = runs
                 /\ \/ /\ m = Ended(c) /\ Release(c)
                       /\ report' = [run |-> k.run, inserted |-> k.totalInserted + k.inserted,
                                     candidates |-> k.totalCandidates + k.candidates,
                                     failed |-> k.failed]
                    \/ /\ SameRun(k, m) /\ Account(m, signals') /\ UNCHANGED <<runLock, report>>
    BY <1>2, <1>5, <1>8, <2>1, DoneStep
  <2>3. CASE /\ m = Ended(c) /\ Release(c)
             /\ report' = [run |-> k.run, inserted |-> k.totalInserted + k.inserted,
                           candidates |-> k.totalCandidates + k.candidates, failed |-> k.failed]
    <3>1. report' \in Reports /\ Exact(report', signals') BY <1>5, <1>8, <2>3, AccountExact
    <3>2. report'.run = j.run BY <2>1, <2>3
    <3>3. Ends(c, m) BY <1>4, <2>3, <3>1, <3>2 DEF Ends
    <3> QED BY <1>1, <1>4, <2>2, <3>3 DEF Moves
  <2>4. CASE SameRun(k, m) /\ Account(m, signals') /\ UNCHANGED <<runLock, report>>
    <3>1. SameRun(j, m) BY <2>1, <2>4 DEF SameRun
    <3> QED BY <1>1, <1>4, <2>2, <2>4, <3>1 DEF Moves
  <2> QED BY <2>2, <2>3, <2>4
<1>9. ASSUME NEW k, JobType(k), SameRun(j, k), Account(k, signals'), Local(c, k),
             Loaded(k, candles), job' = [job EXCEPT ![c] = k], UNCHANGED <<runLock, runs, report>>
      PROVE  \E m : Moves(c, m)
  <2>1. JobOK(c, k, candles) BY <1>9 DEF JobOK
  <2> QED BY <1>1, <1>4, <1>9, <2>1 DEF Moves
<1> QED BY <1>4, <1>6, <1>7, <1>8, <1>9 DEF Forms

\* So is the step that unwinds a cancelled scan.
LEMMA UnwindMoves ==
    ASSUME TInv, NEW l \in Loops, Unwind(l)
    PROVE  Moves(l, Idle)
<1>1. l \in Callers BY DEF Callers
<1>2. UNCHANGED signals \/ Stores(job[l]) BY DEF Unwind, Stores
<1>3. job[l].pc \notin {"idle", "sleep"}
  <2>1. Local(l, job[l]) /\ job[l].cancelled BY <1>1 DEF TInv, JobOK, Unwind
  <2> QED BY <2>1, RestFields DEF Local
<1>4. Ends(l, Idle) BY DEF Unwind, Ends
<1>5. JobOK(l, Idle, candles) BY <1>1, RestOK
<1> QED BY <1>2, <1>3, <1>4, <1>5 DEF Moves, Unwind

\* A scan that begins.
LEMMA BeginForm ==
    ASSUME TInv, NEW c \in Callers, NEW kind \in {"auto", "batch", "once"},
           NEW store \in BOOLEAN, NEW dry \in BOOLEAN,
           Begin(c, kind, store, dry), job[c].pc \in {"idle", "sleep"},
           c \in Loops => job[c].pc = "sleep",
           \/ kind = "auto" /\ runLock = Free /\ runLock' = c
           \/ kind # "auto" /\ c \in Operators /\ runLock' = runLock,
           UNCHANGED <<now, candles, signals, task, report>>
    PROVE  \E k : Begins(c, k)
<1> DEFINE k == [Idle EXCEPT !.pc = "symbols", !.kind = kind, !.store = store, !.dry = dry,
                             !.run = runs + 1]
<1>1. runs \in Nat BY DEF TInv
<1>2. JobType(k)
  <2>1. PICK n \in Nat : n = runs + 1 BY <1>1
  <2>2. JobType([Idle EXCEPT !.pc = "symbols", !.kind = kind, !.store = store, !.dry = dry,
                             !.run = n])
    BY RestType DEF JobType, PCs
  <2> QED BY <2>1, <2>2
<1>3. /\ k.pc = "symbols" /\ k.kind = kind /\ k.run = runs + 1 /\ k.bars = {} /\ k.evals = {}
      /\ k.cancelled = FALSE /\ k.inserted = 0 /\ k.candidates = 0 /\ k.totalInserted = 0
      /\ k.totalCandidates = 0
  BY DEF Idle
<1>4. job' = [job EXCEPT ![c] = k] /\ runs' = runs + 1 BY DEF Begin
<1> HIDE DEF k
<1>5. c \in Loops => kind = "auto" BY ScannerAssumption
<1>6. Local(c, k) BY <1>1, <1>3, <1>5 DEF Local
<1>7. Loaded(k, candles) BY <1>3, FS_EmptySet DEF Loaded
<1>8. job[c] \in {Idle, Sleeping} BY DEF TInv, JobOK, Local
<1> QED BY <1>2, <1>3, <1>4, <1>6, <1>7, <1>8 DEF Begins, JobOK

\* Every step is one of these.
LEMMA StepKinds ==
    ASSUME TInv, Accounts, [Next]_vars
    PROVE  \/ Outside \/ StopLoop \/ ApiRestart
           \/ \E l \in Loops : StartLoop(l)
           \/ \E c \in Callers : \E k : Begins(c, k) \/ Moves(c, k)
<1>1. ASSUME Tick PROVE Outside BY <1>1 DEF Tick, Outside, TInv
<1>2. ASSUME NEW x \in Feed, StoreCandle(x) PROVE Outside
  <2>1. x \in Symbols \X Minutes BY ScannerAssumption
  <2> QED BY <1>2, <2>1 DEF StoreCandle, Outside, TInv
<1>3. ASSUME UNCHANGED vars PROVE Outside BY <1>3 DEF vars, Outside, TInv
<1>4. ASSUME NEW c \in Callers, RunNow(c) PROVE \E k : Begins(c, k)
  <2>1. Begin(c, "auto", AutoStore, FALSE) /\ AutoStore \in BOOLEAN
    BY <1>4, ScannerAssumption DEF RunNow
  <2>2. job[c].pc \in {"idle", "sleep"} /\ (c \in Loops => job[c].pc = "sleep")
    BY <1>4 DEF RunNow, Callers
  <2>3. runLock = Free /\ runLock' = c /\ UNCHANGED <<now, candles, signals, task, report>>
    BY <1>4 DEF RunNow
  <2> QED BY <2>1, <2>2, <2>3, BeginForm
<1>5. ASSUME NEW o \in Operators, NEW store \in BOOLEAN, NEW dry \in BOOLEAN,
             RunBatch(o, store, dry)
      PROVE  \E k : Begins(o, k)
  BY <1>5, BeginForm, ScannerAssumption DEF RunBatch, Callers
<1>6. ASSUME NEW o \in Operators, RunOnce(o) PROVE \E k : Begins(o, k)
  BY <1>6, BeginForm, ScannerAssumption DEF RunOnce, Callers
<1> QED BY <1>1, <1>2, <1>3, <1>4, <1>5, <1>6, ScanMoves, UnwindMoves DEF Next, Callers

\* One job changes.
LEMMA OneJob ==
    ASSUME TInv, NEW c \in Callers, NEW k, job' = [job EXCEPT ![c] = k]
    PROVE  /\ job' = [d \in Callers |-> job'[d]] /\ job'[c] = k
           /\ \A d \in Callers : d # c => job'[d] = job[d]
<1>1. job = [d \in Callers |-> job[d]] BY DEF TInv
<1> QED BY <1>1

\* stop leaves its task idle, or cancelled.
LEMMA StopForm ==
    ASSUME TInv, StopLoop
    PROVE  \E k : /\ task \in Loops /\ job' = [job EXCEPT ![task] = k] /\ JobOK(task, k, candles)
                  /\ \/ job[task] = Sleeping /\ k = Idle
                     \/ /\ k.cancelled = TRUE /\ k.kind = job[task].kind /\ k.run = job[task].run
                        /\ k.pc \notin {"idle", "sleep"} /\ job[task].pc \notin {"idle", "sleep"}
                        /\ Accounts => Account(k, signals)
<1>1. task \in Loops /\ task \in Callers BY DEF TInv, StopLoop, Callers
<1> DEFINE j == job[task]
           k == IF j.pc = "sleep" THEN Idle ELSE [j EXCEPT !.cancelled = TRUE]
<1>2. job' = [job EXCEPT ![task] = k]
  <2>1. job = [d \in Callers |-> job[d]] BY DEF TInv
  <2> QED BY <1>1, <2>1 DEF StopLoop
<1>3. JobType(j) /\ Local(task, j) /\ Loaded(j, candles) /\ j.pc # "idle"
  BY <1>1 DEF TInv, JobOK, StopLoop
<1>4. CASE j.pc = "sleep"
  <2>1. j = Sleeping BY <1>3, <1>4 DEF Local
  <2> QED BY <1>1, <1>2, <1>4, <2>1, RestOK
<1>5. CASE j.pc # "sleep"
  <2> DEFINE m == [j EXCEPT !.cancelled = TRUE]
  <2>1. k = m BY <1>5
  <2>2. JobType(m) BY <1>3 DEF JobType
  <2>3. /\ m.pc = j.pc /\ m.kind = j.kind /\ m.run = j.run /\ m.todo = j.todo /\ m.bars = j.bars
        /\ m.evals = j.evals /\ m.cancelled = TRUE /\ m.inserted = j.inserted
        /\ m.candidates = j.candidates /\ m.totalInserted = j.totalInserted
        /\ m.totalCandidates = j.totalCandidates /\ m.failed = j.failed
    BY <1>3 DEF JobType
  <2> HIDE DEF m, j
  <2>5. Local(task, m) BY <1>1, <1>3, <1>5, <2>3 DEF Local
  <2>6. Loaded(m, candles) BY <1>3, <2>3 DEF Loaded
  <2>7. j.run # 0 BY <1>3, <1>5 DEF Local
  <2>8. Accounts => Account(m, signals) BY <1>1, <2>3, <2>7 DEF Accounts, Account, j
  <2> QED BY <1>1, <1>2, <1>3, <1>5, <2>1, <2>2, <2>3, <2>5, <2>6, <2>8 DEF JobOK, j
<1> QED BY <1>4, <1>5

\* The lock after a scan has left it.
LEMMA ReleaseType ==
    ASSUME TInv, NEW c \in Callers, Release(c)
    PROVE  runLock' \in Callers \cup {Free}
BY DEF TInv, Release

\* Every step keeps the types.
LEMMA TStep == TInv /\ Accounts /\ [Next]_vars => TInv'
<1> SUFFICES ASSUME TInv, Accounts, [Next]_vars PROVE TInv' OBVIOUS
<1> DEFINE Shape == /\ job' = [d \in Callers |-> job'[d]]
                    /\ \A d \in Callers : JobOK(d, job'[d], candles')
           Rest == /\ now' \in Nat /\ runs' \in Nat /\ task' \in Loops \cup {Free}
                   /\ runLock' \in Callers \cup {Free} /\ candles' \subseteq Symbols \X Minutes
                   /\ signals' \subseteq Rows /\ IsFiniteSet(signals') /\ report' \in Reports
           Task == task' # Free => job'[task'].pc # "idle" /\ ~job'[task'].cancelled
<1>1. ASSUME Shape, Rest, Task PROVE TInv' BY <1>1 DEF TInv
<1>2. ASSUME NEW c \in Callers, NEW k, job' = [job EXCEPT ![c] = k], JobOK(c, k, candles),
             UNCHANGED candles
      PROVE  Shape
  BY <1>2, OneJob DEF TInv
<1>3. CASE Outside
  <2>1. Shape BY <1>3, JobGrows DEF Outside, TInv
  <2>2. Rest BY <1>3 DEF Outside, TInv
  <2>3. Task BY <1>3 DEF Outside, TInv
  <2> QED BY <1>1, <2>1, <2>2, <2>3
<1>4. CASE StopLoop
  <2>1. Shape BY <1>2, <1>4, StopForm DEF StopLoop, Callers
  <2>2. Rest BY <1>4 DEF StopLoop, TInv
  <2>3. Task BY <1>4 DEF StopLoop
  <2> QED BY <1>1, <2>1, <2>2, <2>3
<1>5. CASE ApiRestart
  <2>1. Shape BY <1>5, RestOK DEF ApiRestart
  <2>2. Rest BY <1>5 DEF ApiRestart, TInv
  <2>3. Task BY <1>5 DEF ApiRestart
  <2> QED BY <1>1, <2>1, <2>2, <2>3
<1>6. ASSUME NEW l \in Loops, StartLoop(l) PROVE TInv'
  <2>1. l \in Callers /\ job' = [job EXCEPT ![l] = Sleeping] BY <1>6 DEF StartLoop, Callers
  <2>2. Shape BY <1>2, <1>6, <2>1, RestOK DEF StartLoop
  <2>3. Rest BY <1>6 DEF StartLoop, TInv
  <2>4. Task BY <1>6, <2>1, OneJob, RestFields DEF StartLoop
  <2> QED BY <1>1, <2>2, <2>3, <2>4
<1>7. ASSUME NEW c \in Callers, NEW k, Begins(c, k) PROVE TInv'
  <2>1. Shape BY <1>2, <1>7 DEF Begins
  <2>2. Rest BY <1>7 DEF Begins, TInv
  <2>3. job'[c] = k /\ \A d \in Callers : d # c => job'[d] = job[d] BY <1>7, OneJob DEF Begins
  <2>4. Task BY <1>7, <2>3 DEF Begins, TInv, Callers
  <2> QED BY <1>1, <2>1, <2>2, <2>4
<1>8. ASSUME NEW c \in Callers, NEW k, Moves(c, k) PROVE TInv'
  <2>1. Shape BY <1>2, <1>8 DEF Moves
  <2>2. job'[c] = k /\ \A d \in Callers : d # c => job'[d] = job[d] BY <1>8, OneJob DEF Moves
  <2>3. signals' \subseteq Rows /\ IsFiniteSet(signals') BY <1>8, SignalsFinite DEF Moves
  <2>4. CASE Ends(c, k)
    <3>1. report' \in Reports /\ runLock' \in Callers \cup {Free}
      BY <2>4, ReleaseType DEF Ends, TInv
    <3>2. Rest BY <1>8, <2>3, <3>1 DEF Moves, TInv
    <3>3. ASSUME task = c PROVE k = Sleeping
      <4>1. c # Free BY ScannerAssumption DEF Free, Callers
      <4>2. c \in Loops /\ ~job[c].cancelled BY <3>3, <4>1 DEF TInv
      <4> QED BY <2>4, <4>2 DEF Ends, Ended
    <3>4. Task BY <1>8, <2>2, <3>3, RestFields DEF Moves, TInv, Callers
    <3> QED BY <1>1, <2>1, <3>2, <3>4
  <2>5. CASE SameRun(job[c], k) /\ UNCHANGED <<runLock, report>>
    <3>1. Rest BY <1>8, <2>3, <2>5 DEF Moves, TInv
    <3>2. Task BY <1>8, <2>2, <2>5 DEF Moves, TInv, Callers, SameRun
    <3> QED BY <1>1, <2>1, <3>1, <3>2
  <2> QED BY <1>8, <2>4, <2>5 DEF Moves
<1> QED BY <1>3, <1>4, <1>5, <1>6, <1>7, <1>8, StepKinds

-----------------------------------------------------------------------------
(* The lock of the auto loop. *)

\* Every step leaves at most one automatic scan under way.
LEMMA ExclusiveStep ==
    ASSUME TInv, Accounts, AutoRunsExclusive, [Next]_vars
    PROVE  AutoRunsExclusive'
<1>0. \A c \in Callers : c # Free BY ScannerAssumption DEF Free, Callers
<1> DEFINE Good(c) == /\ job'[c].kind = "auto" <=> runLock' = c
                      /\ c \in Loops /\ job'[c].pc # "idle" /\ ~job'[c].cancelled => task' = c
<1> SUFFICES ASSUME NEW d \in Callers PROVE Good(d) BY DEF AutoRunsExclusive, Callers
<1>1. /\ job[d].kind = "auto" <=> runLock = d
      /\ d \in Loops /\ job[d].pc # "idle" /\ ~job[d].cancelled => task = d
  BY DEF AutoRunsExclusive
<1>2. CASE Outside BY <1>1, <1>2 DEF Outside
<1>3. CASE StopLoop
  <2>1. task \in Callers BY <1>3, StopForm DEF Callers
  <2>2. PICK k : /\ job' = [job EXCEPT ![task] = k]
                 /\ \/ job[task] = Sleeping /\ k = Idle
                    \/ k.cancelled = TRUE /\ k.kind = job[task].kind
    BY <1>3, StopForm
  <2>3. job'[task] = k /\ \A c \in Callers : c # task => job'[c] = job[c] BY <2>1, <2>2, OneJob
  <2>4. runLock' = runLock /\ task' = Free BY <1>3 DEF StopLoop
  <2>5. CASE d # task
    <3>1. job'[d] = job[d] BY <2>3, <2>5
    <3>2. d \in Loops => job[d].pc = "idle" \/ job[d].cancelled BY <1>1, <2>5
    <3> QED BY <1>1, <2>4, <3>1, <3>2
  <2>6. CASE d = task /\ job[task] = Sleeping /\ k = Idle
    BY <1>1, <2>3, <2>4, <2>6, RestFields
  <2>7. CASE d = task /\ k.cancelled = TRUE /\ k.kind = job[task].kind
    BY <1>1, <2>3, <2>4, <2>7
  <2> QED BY <2>2, <2>5, <2>6, <2>7
<1>4. CASE ApiRestart BY <1>0, <1>4, RestFields DEF ApiRestart
<1>5. ASSUME NEW l \in Loops, StartLoop(l) PROVE Good(d)
  <2>1. /\ l \in Callers /\ job' = [job EXCEPT ![l] = Sleeping] /\ runLock' = runLock
        /\ task = Free /\ task' = l /\ job[l].pc = "idle"
    BY <1>5 DEF StartLoop, Callers
  <2>2. job'[l] = Sleeping /\ \A c \in Callers : c # l => job'[c] = job[c] BY <2>1, OneJob
  <2>3. job[l] = Idle BY <2>1 DEF TInv, JobOK, Local
  <2>4. CASE d = l BY <1>1, <2>1, <2>2, <2>3, <2>4, RestFields
  <2>5. CASE d # l BY <1>0, <1>1, <2>1, <2>2, <2>5
  <2> QED BY <2>4, <2>5
<1>6. ASSUME NEW c \in Callers, NEW k, Begins(c, k) PROVE Good(d)
  <2>1. job'[c] = k /\ \A b \in Callers : b # c => job'[b] = job[b] BY <1>6, OneJob DEF Begins
  <2>2. job[c].kind = "none" /\ ~job[c].cancelled BY <1>6, RestFields DEF Begins
  <2>3. task' = task /\ (c \in Loops => job[c].pc = "sleep") BY <1>6 DEF Begins
  <2>4. \/ runLock = Free /\ runLock' = c /\ k.kind = "auto"
        \/ runLock' = runLock /\ k.kind # "auto"
    BY <1>6 DEF Begins
  <2>5. CASE d = c BY <1>1, <2>1, <2>2, <2>3, <2>4, <2>5
  <2>6. CASE d # c BY <1>0, <1>1, <2>1, <2>3, <2>4, <2>6
  <2> QED BY <2>5, <2>6
<1>7. ASSUME NEW c \in Callers, NEW k, Moves(c, k) PROVE Good(d)
  <2>1. job'[c] = k /\ \A b \in Callers : b # c => job'[b] = job[b] BY <1>7, OneJob DEF Moves
  <2>2. task' = task /\ job[c].pc \notin {"idle", "sleep"} BY <1>7 DEF Moves
  <2>3. CASE Ends(c, k)
    <3>1. runLock' = IF runLock = c THEN Free ELSE runLock BY <2>3 DEF Ends, Release
    <3>2. /\ k \in {Idle, Sleeping}
          /\ c \in Loops /\ job[c].cancelled => k = Idle
      BY <2>3 DEF Ends, Ended
    <3>3. CASE d = c
      <4>1. k.kind = "none" /\ runLock' # c BY <1>0, <3>1, <3>2, RestFields
      <4>2. c \in Loops /\ k.pc # "idle" => ~job[c].cancelled BY <3>2, RestFields
      <4> QED BY <1>1, <2>1, <2>2, <3>3, <4>1, <4>2
    <3>4. CASE d # c BY <1>0, <1>1, <2>1, <2>2, <3>1, <3>4
    <3> QED BY <3>3, <3>4
  <2>4. CASE SameRun(job[c], k) /\ UNCHANGED <<runLock, report>>
    BY <1>1, <2>1, <2>2, <2>4 DEF SameRun
  <2> QED BY <1>7, <2>3, <2>4 DEF Moves
<1> QED BY <1>2, <1>3, <1>4, <1>5, <1>6, <1>7, StepKinds

-----------------------------------------------------------------------------
(* The rows of the table. *)

\* One row per symbol, strategy and bar.
UniqueKeys ==
    \A r, q \in signals :
        r.symbol = q.symbol /\ r.strategy = q.strategy /\ r.minute = q.minute => r = q

\* A row is added only under a key that has none, and with the context of a candidate.
LEMMA TableStep ==
    ASSUME TInv, Accounts, UniqueKeys, CandidatesHaveContext, [Next]_vars
    PROVE  signals \subseteq signals' /\ UniqueKeys' /\ CandidatesHaveContext'
<1>1. \A s \in signals : s.candidate => Context(s.symbol, s.strategy, s.minute, candles)
  BY DEF CandidatesHaveContext, Context
<1> DEFINE Kept == \A s \in signals' : s.candidate =>
                     Context(s.symbol, s.strategy, s.minute, candles')
<1>2. ASSUME Kept PROVE CandidatesHaveContext' BY <1>2 DEF CandidatesHaveContext, Context
<1>3. ASSUME UNCHANGED signals, candles \subseteq candles'
      PROVE  signals \subseteq signals' /\ UniqueKeys' /\ CandidatesHaveContext'
  <2>1. Kept BY <1>1, <1>3 DEF Context
  <2>2. UniqueKeys' BY <1>3 DEF UniqueKeys
  <2> QED BY <1>2, <1>3, <2>1, <2>2
<1>4. ASSUME NEW c \in Callers, NEW k, Moves(c, k)
      PROVE  signals \subseteq signals' /\ UniqueKeys' /\ CandidatesHaveContext'
  <2>1. candles' = candles BY <1>4 DEF Moves
  <2>2. CASE UNCHANGED signals BY <1>3, <2>1, <2>2
  <2>3. CASE Stores(job[c])
    <3>1. PICK row \in Rows :
             /\ signals' = signals \cup {row}
             /\ row.candidate => Context(row.symbol, row.strategy, row.minute, candles)
             /\ \A r \in signals : ~(r.symbol = row.symbol /\ r.strategy = row.strategy
                                     /\ r.minute = row.minute)
      BY <2>3, StoredRow
    <3>2. Kept BY <1>1, <2>1, <3>1
    <3>3. UniqueKeys' BY <3>1 DEF UniqueKeys
    <3> QED BY <1>2, <3>1, <3>2, <3>3
  <2> QED BY <1>4, <2>2, <2>3 DEF Moves
<1>5. CASE Outside BY <1>3, <1>5 DEF Outside
<1>6. CASE StopLoop BY <1>3, <1>6 DEF StopLoop
<1>7. CASE ApiRestart BY <1>3, <1>7 DEF ApiRestart
<1>8. ASSUME NEW l \in Loops, StartLoop(l) PROVE UNCHANGED <<signals, candles>>
  BY <1>8 DEF StartLoop
<1>9. ASSUME NEW c \in Callers, NEW k, Begins(c, k) PROVE UNCHANGED <<signals, candles>>
  BY <1>9 DEF Begins
<1> QED BY <1>3, <1>4, <1>5, <1>6, <1>7, <1>8, <1>9, StepKinds

-----------------------------------------------------------------------------
(* Results. *)

\* Runs are numbered: those under way, that of the last result and those of the rows.
Numbers ==
    /\ report.run <= runs
    /\ \A r \in signals : r.run <= runs /\ r.run # 0
    /\ \A c \in Callers : job[c].run <= runs
    /\ \A c \in Callers : job[c].run # 0 =>
          /\ job[c].run # report.run
          /\ \A d \in Callers \ {c} : job[d].run # job[c].run

\* ReportsAreExact, of the report and the signals.
LEMMA ExactForm == ReportsAreExact <=> Exact(report, signals)
<1>1. {s \in {r \in signals : r.run = report.run} : s.candidate} = CandidateRows(signals, report.run)
  BY DEF CandidateRows
<1> QED BY <1>1 DEF ReportsAreExact, Exact, RowsOf

\* A step of a run touches no other run's rows.
LEMMA OtherRows ==
    ASSUME TInv, NEW c \in Callers, UNCHANGED signals \/ Stores(job[c]),
           NEW n, n # job[c].run
    PROVE  /\ RowsOf(signals', n) = RowsOf(signals, n)
           /\ CandidateRows(signals', n) = CandidateRows(signals, n)
<1>1. CASE UNCHANGED signals BY <1>1
<1>2. CASE Stores(job[c])
  <2>1. PICK row \in Rows : signals' = signals \cup {row} /\ row.run = job[c].run
    BY <1>2, StoredRow
  <2> QED BY <2>1 DEF RowsOf, CandidateRows
<1> QED BY <1>1, <1>2

\* The numbers of the runs.
LEMMA RunTypes ==
    ASSUME TInv
    PROVE  /\ runs \in Nat /\ report.run \in Nat /\ \A c \in Callers : job[c].run \in Nat
           /\ \A r \in signals : r.run \in Nat
<1>1. \A c \in Callers : job[c].run \in Nat BY DEF TInv, JobOK, JobType
<1> QED BY <1>1 DEF TInv, Reports, Rows

\* Every step keeps the counts exact.
LEMMA CountStep ==
    ASSUME TInv, Accounts, Numbers, ReportsAreExact, [Next]_vars
    PROVE  Accounts' /\ Numbers' /\ ReportsAreExact'
<1> DEFINE Goal == Accounts' /\ Numbers' /\ ReportsAreExact'
           NoRun(j) == j \in {Idle, Sleeping}
<1>0. \A j : NoRun(j) => j.run = 0 BY RestFields
<1>1. Exact(report, signals) BY ExactForm
<1>2. ASSUME Exact(report, signals)' PROVE ReportsAreExact' BY <1>2, ExactForm, PTL
<1>3. ASSUME UNCHANGED <<signals, report, runs>>,
             \A c \in Callers : /\ job'[c].run \in {0, job[c].run}
                                /\ job'[c].run # 0 => Account(job'[c], signals)
      PROVE  Goal
  <2>1. Accounts' BY <1>3 DEF Accounts
  <2>2. Exact(report, signals)' BY <1>1, <1>3 DEF Exact
  <2>3. Numbers' BY <1>3, RunTypes DEF Numbers
  <2> QED BY <1>2, <2>1, <2>2, <2>3
<1>4. CASE Outside BY <1>3, <1>4 DEF Outside, Accounts
<1>5. CASE StopLoop
  <2>1. PICK k : /\ task \in Loops /\ job' = [job EXCEPT ![task] = k]
                 /\ k = Idle \/ (k.run = job[task].run /\ Account(k, signals))
    BY <1>5, StopForm
  <2>2. /\ job'[task] = k /\ \A c \in Callers : c # task => job'[c] = job[c]
    BY <2>1, OneJob DEF Callers
  <2>3. UNCHANGED <<signals, report, runs>> BY <1>5 DEF StopLoop
  <2>4. ASSUME NEW c \in Callers
        PROVE  /\ job'[c].run \in {0, job[c].run}
               /\ job'[c].run # 0 => Account(job'[c], signals)
    <3>1. CASE c = task BY <1>0, <2>1, <2>2, <3>1
    <3>2. CASE c # task BY <2>2, <3>2 DEF Accounts
    <3> QED BY <3>1, <3>2
  <2> QED BY <1>3, <2>3, <2>4
<1>6. CASE ApiRestart
  <2>1. \A c \in Callers : job'[c] = Idle BY <1>6 DEF ApiRestart
  <2>2. UNCHANGED <<signals, report, runs>> BY <1>6 DEF ApiRestart
  <2> QED BY <1>0, <1>3, <2>1, <2>2
<1>7. ASSUME NEW l \in Loops, StartLoop(l) PROVE Goal
  <2>1. l \in Callers /\ job' = [job EXCEPT ![l] = Sleeping] BY <1>7 DEF StartLoop, Callers
  <2>2. job'[l] = Sleeping /\ \A c \in Callers : c # l => job'[c] = job[c] BY <2>1, OneJob
  <2>3. UNCHANGED <<signals, report, runs>> BY <1>7 DEF StartLoop
  <2>4. \A c \in Callers : /\ job'[c].run \in {0, job[c].run}
                           /\ job'[c].run # 0 => Account(job'[c], signals)
    BY <1>0, <2>2 DEF Accounts
  <2> QED BY <1>3, <2>3, <2>4
<1>8. ASSUME NEW c \in Callers, NEW k, Begins(c, k) PROVE Goal
  <2>1. job'[c] = k /\ \A d \in Callers : d # c => job'[d] = job[d] BY <1>8, OneJob DEF Begins
  <2>2. UNCHANGED <<signals, report>> /\ runs' = runs + 1 /\ k.run = runs + 1
    BY <1>8 DEF Begins
  <2>3. /\ k.inserted = 0 /\ k.candidates = 0 /\ k.evals = {}
        /\ k.totalInserted = 0 /\ k.totalCandidates = 0
    BY <1>8 DEF Begins, JobOK, Local
  <2>4. RowsOf(signals, k.run) = {} /\ CandidateRows(signals, k.run) = {}
    BY <2>2, RunTypes DEF Numbers, RowsOf, CandidateRows
  <2>5. Account(k, signals)
    <3>1. {e \in k.evals : e.candidate} = {} /\ Cardinality({}) = 0 BY <2>3, FS_EmptySet
    <3> QED BY <2>3, <2>4, <3>1 DEF Account
  <2>6. Accounts' BY <2>1, <2>2, <2>5 DEF Accounts
  <2>7. Exact(report, signals)' BY <1>1, <2>2 DEF Exact
  <2>8. Numbers'
    <3>1. /\ report' = report /\ signals' = signals /\ runs' = runs + 1
          /\ job'[c].run = runs + 1 /\ \A d \in Callers : d # c => job'[d].run = job[d].run
      BY <2>1, <2>2
    <3> QED BY <3>1, RunTypes DEF Numbers
  <2> QED BY <1>2, <2>6, <2>7, <2>8
<1>9. ASSUME NEW c \in Callers, NEW k, Moves(c, k) PROVE Goal
  <2>1. job'[c] = k /\ \A d \in Callers : d # c => job'[d] = job[d] BY <1>9, OneJob DEF Moves
  <2>2. UNCHANGED runs /\ (UNCHANGED signals \/ Stores(job[c])) BY <1>9 DEF Moves
  <2>3. job[c].run # 0 BY <1>9, Underway DEF Moves
  <2>4. \A d \in Callers : d # c /\ job[d].run # 0 => Account(job[d], signals')
    <3> SUFFICES ASSUME NEW d \in Callers, d # c, job[d].run # 0 PROVE Account(job[d], signals')
      OBVIOUS
    <3>1. job[d].run # job[c].run /\ Account(job[d], signals) BY DEF Numbers, Accounts
    <3> QED BY <2>2, <3>1, OtherRows DEF Account
  <2>5. Exact(report, signals')
    <3>1. report.run # job[c].run BY <2>3 DEF Numbers
    <3> QED BY <1>1, <2>2, <3>1, OtherRows DEF Exact
  <2>6. \A r \in signals' : r.run <= runs /\ r.run # 0
    <3>1. CASE UNCHANGED signals BY <3>1 DEF Numbers
    <3>2. CASE Stores(job[c])
      <4>1. PICK row \in Rows : signals' = signals \cup {row} /\ row.run = job[c].run
        BY <3>2, StoredRow
      <4> QED BY <2>3, <4>1 DEF Numbers
    <3> QED BY <2>2, <3>1, <3>2
  <2>7. CASE Ends(c, k)
    <3>1. k.run = 0 BY <1>0, <2>7 DEF Ends, Ended
    <3>2. \/ report' = report
          \/ report'.run = job[c].run /\ Exact(report', signals')
      BY <2>7 DEF Ends
    <3>3. Accounts' BY <2>1, <2>4, <3>1 DEF Accounts
    <3>4. Exact(report, signals)' BY <2>5, <3>2 DEF Exact
    <3>5. report'.run \in {report.run, job[c].run} BY <3>2
    <3>6. Numbers'
      <4>1. /\ report'.run <= runs' /\ runs' = runs BY <2>2, <3>5 DEF Numbers
      <4>2. \A d \in Callers : job'[d].run = IF d = c THEN 0 ELSE job[d].run BY <2>1, <3>1
      <4> QED BY <2>3, <2>6, <3>5, <4>1, <4>2, RunTypes DEF Numbers
    <3> QED BY <1>2, <3>3, <3>4, <3>6
  <2>8. CASE SameRun(job[c], k) /\ Account(k, signals') /\ UNCHANGED <<runLock, report>>
    <3>1. Accounts' BY <2>1, <2>4, <2>8 DEF Accounts
    <3>2. Exact(report, signals)' BY <2>5, <2>8 DEF Exact
    <3>3. \A d \in Callers : job'[d].run = job[d].run BY <2>1, <2>8 DEF SameRun
    <3>4. Numbers' BY <2>2, <2>6, <2>8, <3>3 DEF Numbers
    <3> QED BY <1>2, <3>1, <3>2, <3>4
  <2> QED BY <1>9, <2>7, <2>8 DEF Moves
<1> QED BY <1>4, <1>5, <1>6, <1>7, <1>8, <1>9, StepKinds

-----------------------------------------------------------------------------
(* Theorems. *)

Inv ==
    /\ TInv /\ AutoRunsExclusive
    /\ UniqueKeys /\ CandidatesHaveContext
    /\ Accounts /\ Numbers /\ ReportsAreExact

\* The invariant holds at first.
LEMMA InvInit == Init => Inv
<1> SUFFICES ASSUME Init PROVE Inv OBVIOUS
<1> USE DEF Init
<1>1. \A c \in Callers : job[c] = Idle OBVIOUS
<1>2. /\ Idle.run = 0 /\ Idle.kind = "none" /\ Idle.pc = "idle" /\ Idle.totalInserted = 0
      /\ Idle.totalCandidates = 0 /\ Idle.failed = FALSE
  BY RestFields
<1>3. report = [run |-> 0, inserted |-> 0, candidates |-> 0, failed |-> FALSE]
  BY <1>2 DEF Result
<1>4. TInv
  <2>1. candles \subseteq Symbols \X Minutes /\ now \in Nat BY ScannerAssumption
  <2>2. report \in Reports BY <1>3 DEF Reports
  <2>3. IsFiniteSet(signals) BY FS_EmptySet
  <2>4. \A c \in Callers : JobOK(c, job[c], candles) BY <1>1, RestOK
  <2> QED BY <2>1, <2>2, <2>3, <2>4 DEF TInv
<1>5. AutoRunsExclusive
  <2>1. \A c \in Callers : c # Free BY ScannerAssumption DEF Free, Callers
  <2>2. \A c \in Callers : job[c].kind # "auto" /\ job[c].pc = "idle" BY <1>1, <1>2
  <2> QED BY <2>1, <2>2 DEF AutoRunsExclusive, Callers
<1>6. UniqueKeys /\ CandidatesHaveContext BY DEF UniqueKeys, CandidatesHaveContext
<1>7. Accounts /\ Numbers BY <1>1, <1>2, <1>3 DEF Accounts, Numbers
<1>8. ReportsAreExact
  <2>1. RowsOf(signals, 0) = {} /\ CandidateRows(signals, 0) = {} BY DEF RowsOf, CandidateRows
  <2>2. Exact(report, signals) BY <1>3, <2>1, FS_EmptySet DEF Exact
  <2> QED BY <2>2, ExactForm
<1> QED BY <1>4, <1>5, <1>6, <1>7, <1>8 DEF Inv

\* Every step keeps it.
LEMMA InvStep == Inv /\ [Next]_vars => Inv'
BY TStep, ExclusiveStep, TableStep, CountStep DEF Inv

\* It holds in every reachable state.
LEMMA InvAlways == Spec => []Inv
BY InvInit, InvStep, PTL DEF Spec

\* Runs of the loop and of run-now never overlap, and a loop that lives is the one that stop
\* would cancel, whatever is cancelled, fails or is restarted, for any number of loops.
THEOREM NoOverlap == Spec => []AutoRunsExclusive
<1>1. Inv => AutoRunsExclusive BY DEF Inv
<1> QED BY <1>1, InvAlways, PTL

\* A result without an error counts the rows of its run, however the runs interleave and
\* wherever an insert was committed unnoticed.
THEOREM ExactReports == Spec => []ReportsAreExact
<1>1. Inv => ReportsAreExact BY DEF Inv
<1> QED BY <1>1, InvAlways, PTL

\* Behind every stored candidate is its whole session from the open, for all the settings,
\* symbols and orders in which candles come.
THEOREM CompleteContext == Spec => []CandidatesHaveContext
<1>1. Inv => CandidatesHaveContext BY DEF Inv
<1> QED BY <1>1, InvAlways, PTL

\* No step changes or removes a signal, or stores a second one for its key.
THEOREM FirstVerdictStands == Spec => SignalsImmutable
<1>1. Inv /\ [Next]_vars =>
        [/\ signals \subseteq signals'
         /\ \A r, q \in signals' :
              r.symbol = q.symbol /\ r.strategy = q.strategy /\ r.minute = q.minute
                => r = q]_signals
  BY TableStep DEF Inv, UniqueKeys
<1> QED BY <1>1, InvAlways, PTL DEF Spec, SignalsImmutable

=============================================================================
