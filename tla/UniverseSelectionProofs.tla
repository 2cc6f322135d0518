---------------------- MODULE UniverseSelectionProofs ----------------------
(***************************************************************************)
(* Theorems about InstrumentSync and UniverseSelection: for any watchlist, *)
(* pool and dumps and any number of requests and selections.  The lemmas   *)
(* about numbers and sessions are those of ScannerProofs.                  *)
(***************************************************************************)
EXTENDS UniverseSelection, FiniteSetTheorems, TLAPS

-----------------------------------------------------------------------------
(* Numbers: induction over a set, and the extrema that CHOOSE selects. *)

\* Induction, from the pigeonhole principle: on the numbers up to x that are not in S,
\* the predecessor is an injection that misses x.
LEMMA SetInduction ==
    ASSUME NEW S, 0 \in S, \A n \in Nat : n \in S => n + 1 \in S
    PROVE  Nat \subseteq S
<1> SUFFICES ASSUME NEW x \in Nat, x \notin S PROVE FALSE OBVIOUS
<1> DEFINE E == {n \in 0 .. x : n \notin S}
           pred == [n \in E |-> n - 1]
<1>1. IsFiniteSet(E)
  <2>1. E \in SUBSET (0 .. x) OBVIOUS
  <2>2. 0 \in Int /\ x \in Int OBVIOUS
  <2>3. IsFiniteSet(0 .. x) BY <2>2, FS_Interval
  <2> HIDE DEF E
  <2> QED BY <2>1, <2>3, FS_Subset
<1>2. \A n \in E : n - 1 \in E
  <2> SUFFICES ASSUME NEW n \in E PROVE n - 1 \in E OBVIOUS
  <2>1. n \in 1 .. x /\ n \notin S OBVIOUS
  <2>2. n - 1 \in Nat /\ (n - 1) + 1 = n BY <2>1
  <2>3. n - 1 \notin S BY <2>1, <2>2
  <2> QED BY <2>1, <2>3
<1>3. \A n \in E : n \in Int /\ n <= x OBVIOUS
<1>4. x \in E OBVIOUS
<1> HIDE DEF E
<1>5. pred \in [E -> E] BY <1>2
<1>6. \A m, n \in E : pred[m] = pred[n] => m = n BY <1>3
<1>7. pred \in Injection(E, E) BY <1>5, <1>6 DEF Injection, IsInjective
<1>8. pred \in Surjection(E, E) BY <1>1, <1>7, FS_Injection
<1>9. PICK n \in E : pred[n] = x BY <1>4, <1>8 DEF Surjection
<1>10. n - 1 = x BY <1>9
<1> QED BY <1>3, <1>10

\* A set of numbers has a least one.
LEMMA LeastExists ==
    ASSUME NEW T, T \subseteq Nat, T # {}
    PROVE  \E t \in T : \A u \in T : t <= u
<1> SUFFICES ASSUME \A t \in T : \E u \in T : u < t PROVE FALSE OBVIOUS
<1> DEFINE S == {n \in Nat : \A u \in T : n < u}
<1>1. 0 \in S OBVIOUS
<1>2. ASSUME NEW n \in Nat, n \in S PROVE n + 1 \in S
  <2> SUFFICES ASSUME NEW u \in T PROVE n + 1 < u BY <1>2
  <2>1. PICK v \in T : v < u OBVIOUS
  <2> QED BY <1>2, <2>1
<1>3. Nat \subseteq S
  <2> HIDE DEF S
  <2> QED BY <1>1, <1>2, SetInduction
<1>4. PICK t \in T : TRUE OBVIOUS
<1> QED BY <1>3, <1>4

\* A finite set of numbers is bounded.
LEMMA GreatestBounded ==
    ASSUME NEW T, T \subseteq Nat, T # {}, NEW b \in Nat, \A u \in T : u <= b
    PROVE  \E t \in T : \A u \in T : u <= t
<1> DEFINE D == {n \in Nat : \A u \in T : u <= n}
<1>1. D \subseteq Nat /\ b \in D OBVIOUS
<1>2. PICK m \in D : \A n \in D : m <= n
  <2> HIDE DEF D
  <2> QED BY <1>1, LeastExists
<1>3. m \in Nat /\ \A u \in T : u <= m OBVIOUS
<1>4. m \in T
  <2> SUFFICES ASSUME m \notin T PROVE FALSE OBVIOUS
  <2>1. \A u \in T : u \in Nat /\ u <= m /\ u # m BY <1>3
  <2>2. PICK v \in T : TRUE OBVIOUS
  <2>4. m - 1 \in Nat BY <1>3, <2>1, <2>2
  <2>5. \A u \in T : u <= m - 1 BY <1>3, <2>1
  <2>3. m - 1 \in D BY <2>4, <2>5
  <2> QED BY <1>2, <1>3, <2>3
<1> QED BY <1>3, <1>4

\* The numbers of a finite set are bounded: the initial segments that contain as many of
\* its members as possible contain all of them.
LEMMA FiniteBounded ==
    ASSUME NEW T, T \subseteq Nat, IsFiniteSet(T)
    PROVE  \E b \in Nat : \A u \in T : u <= b
<1> DEFINE Below(b) == {u \in T : u <= b}
           Left == {n \in Nat : \E b \in Nat : n = Cardinality(T \ Below(b))}
<1>1. \A b \in Nat : IsFiniteSet(T \ Below(b)) /\ Cardinality(T \ Below(b)) \in Nat
  BY FS_Difference, FS_CardinalityType
<1>2. Left \subseteq Nat /\ Cardinality(T \ Below(0)) \in Left BY <1>1
<1>3. PICK n \in Left : \A k \in Left : n <= k
  <2> HIDE DEF Left
  <2> QED BY <1>2, LeastExists
<1>4. PICK b \in Nat : n = Cardinality(T \ Below(b)) OBVIOUS
<1>5. T \ Below(b) = {}
  <2> SUFFICES ASSUME NEW u \in T \ Below(b) PROVE FALSE OBVIOUS
  <2>1. u \in Nat /\ u > b OBVIOUS
  <2>2. T \ Below(u) \subseteq (T \ Below(b)) \ {u}
    <3> SUFFICES ASSUME NEW v \in T, ~(v <= u) PROVE ~(v <= b) /\ v # u OBVIOUS
    <3> QED BY <2>1
  <2>3. Cardinality((T \ Below(b)) \ {u}) = n - 1 /\ IsFiniteSet((T \ Below(b)) \ {u})
    BY <1>1, <1>4, FS_RemoveElement
  <2>4. Cardinality(T \ Below(u)) <= n - 1 BY <2>2, <2>3, FS_Subset
  <2>5. Cardinality(T \ Below(u)) \in Left BY <1>1, <2>1
  <2>6. n \in Nat /\ Cardinality(T \ Below(u)) \in Nat BY <2>5
  <2> HIDE DEF Below, Left
  <2> QED BY <1>3, <2>4, <2>5, <2>6
<1> QED BY <1>5

\* Latest and First of a series.
LEMMA LatestOf ==
    ASSUME NEW T, T \subseteq Nat, IsFiniteSet(T), T # {}
    PROVE  Latest(T) \in T /\ \A u \in T : u <= Latest(T)
<1>1. \E t \in T : \A u \in T : u <= t BY FiniteBounded, GreatestBounded
<1> QED BY <1>1 DEF Latest

\* The first minute of a series.
LEMMA FirstIn ==
    ASSUME NEW T, T \subseteq Nat, T # {}
    PROVE  First(T) \in T /\ \A u \in T : First(T) <= u
<1>1. \E t \in T : \A u \in T : t <= u BY LeastExists
<1> QED BY <1>1 DEF First

\* Two sets between which there is a bijection.
LEMMA SameSize ==
    ASSUME NEW S, NEW T, IsFiniteSet(S), NEW f \in [S -> T],
           \A a, b \in S : f[a] = f[b] => a = b, \A t \in T : \E a \in S : f[a] = t
    PROVE  IsFiniteSet(T) /\ Cardinality(T) = Cardinality(S)
<1>1. f \in Injection(S, T) BY DEF Injection, IsInjective
<1>2. f \in Surjection(S, T) BY DEF Surjection
<1> QED BY <1>1, <1>2, FS_Surjection

-----------------------------------------------------------------------------
(* Days and sessions. *)

\* Quotient and remainder by the length of a day.
LEMMA DivMod ==
    ASSUME NEW t \in Int
    PROVE  /\ TimeOfDay(t) \in 0 .. DayLength - 1 /\ Day(t) \in Int
           /\ t = DayLength * Day(t) + TimeOfDay(t) /\ Day(t) * DayLength = DayLength * Day(t)
           /\ DayLength * Day(t) \in Int
BY SessionAssumption DEF TimeOfDay, Day

\* The minutes of one day are ordered by their times.
LEMMA SameDay ==
    ASSUME NEW t \in Int, NEW u \in Int, Day(t) = Day(u)
    PROVE  /\ DayOpen(t) = DayOpen(u) /\ t - u = TimeOfDay(t) - TimeOfDay(u)
           /\ TimeOfDay(t) = Open => t = DayOpen(t)
<1>1. /\ TimeOfDay(t) \in Int /\ TimeOfDay(u) \in Int /\ Open \in Int
      /\ DayLength * Day(t) \in Int /\ Day(t) * DayLength = DayLength * Day(t)
      /\ t = DayLength * Day(t) + TimeOfDay(t) /\ u = DayLength * Day(u) + TimeOfDay(u)
  BY DivMod, SessionAssumption
<1> QED BY <1>1 DEF DayOpen

\* Between the first and the latest minute of a session without a hole lie only its minutes.
LEMMA NoHole ==
    ASSUME NEW T, T \subseteq Nat, IsFiniteSet(T), T # {}, CandleContinuityOk(T),
           NEW t \in First(T) .. Latest(T)
    PROVE  t \in T
<1> DEFINE f == First(T)
           l == Latest(T)
           S == {n \in Nat : f + n <= l => f + n \in T}
<1>1. /\ f \in T /\ f \in Nat /\ l \in T /\ l \in Nat /\ \A u \in T : u <= l
  BY FirstIn, LatestOf
<1>2. \A u \in T : u = l \/ u + 1 \in T BY DEF CandleContinuityOk
<1> HIDE DEF f, l
<1>3. 0 \in S BY <1>1
<1>4. ASSUME NEW n \in Nat, n \in S PROVE n + 1 \in S
  <2> SUFFICES ASSUME f + (n + 1) <= l PROVE f + (n + 1) \in T BY <1>4
  <2>1. f + n \in T /\ f + n # l BY <1>1, <1>4
  <2>2. (f + n) + 1 \in T BY <1>2, <2>1
  <2>3. (f + n) + 1 = f + (n + 1) BY <1>1
  <2> QED BY <2>2, <2>3
<1>5. Nat \subseteq S
  <2> HIDE DEF S
  <2> QED BY <1>3, <1>4, SetInduction
<1>6. t \in f .. l BY DEF f, l
<1>7. t - f \in Nat /\ f + (t - f) = t /\ t <= l BY <1>1, <1>6
<1>8. t - f \in S BY <1>5, <1>7
<1> QED BY <1>7, <1>8

\* The latest bar belongs to a session that is not empty.
LEMMA LatestInSession ==
    ASSUME NEW B, B \subseteq Nat, IsFiniteSet(B), CurrentSession(B) # {}
    PROVE  /\ Latest(B) \in CurrentSession(B) /\ Latest(CurrentSession(B)) = Latest(B)
           /\ B # {} /\ CurrentSession(B) \subseteq B /\ IsFiniteSet(CurrentSession(B))
<1> DEFINE l == Latest(B)
           T == CurrentSession(B)
<1>1. B # {} BY DEF CurrentSession
<1>2. l \in B /\ l \in Nat /\ \A u \in B : u <= l BY <1>1, LatestOf
<1>3. T = {t \in B : TimeOfDay(t) >= Open /\ Day(t) = Day(l)}
  BY <1>1 DEF CurrentSession, TrailingBars
<1>4. PICK t \in B : TimeOfDay(t) >= Open /\ Day(t) = Day(l) BY <1>3
<1>5. t \in Int /\ l \in Int /\ t <= l BY <1>2
<1>6. /\ TimeOfDay(t) \in Int /\ TimeOfDay(l) \in Int /\ Open \in Int
      /\ t - l = TimeOfDay(t) - TimeOfDay(l)
  BY <1>4, <1>5, SameDay, DivMod, SessionAssumption
<1>7. TimeOfDay(l) >= Open BY <1>4, <1>5, <1>6
<1>8. l \in T BY <1>2, <1>3, <1>7
<1>9. T \subseteq B BY <1>3
<1>10. IsFiniteSet(T) BY <1>9, FS_Subset
<1>11. Latest(T) \in T /\ \A u \in T : u <= Latest(T) BY <1>8, <1>9, <1>10, LatestOf
<1>12. Latest(T) <= l /\ l <= Latest(T) /\ Latest(T) \in Nat BY <1>2, <1>8, <1>9, <1>11
<1>13. Latest(T) = l BY <1>2, <1>12
<1> QED BY <1>1, <1>8, <1>9, <1>10, <1>13

\* The minutes from the open to the latest bar are in a session that begins at the open
\* and has no hole.
LEMMA FullSession ==
    ASSUME NEW B, B \subseteq Nat, IsFiniteSet(B),
           SessionStartAvailable(CurrentSession(B)), CandleContinuityOk(CurrentSession(B))
    PROVE  /\ \A t \in DayOpen(Latest(B)) .. Latest(B) : t \in CurrentSession(B)
           /\ First(CurrentSession(B)) = DayOpen(Latest(B))
           /\ TimeOfDay(Latest(B)) >= Open
<1> DEFINE l == Latest(B)
           T == CurrentSession(B)
           f == First(T)
<1>1. T # {} /\ TimeOfDay(f) = Open BY DEF SessionStartAvailable
<1>2. l \in T /\ Latest(T) = l /\ T \subseteq B /\ IsFiniteSet(T) BY <1>1, LatestInSession
<1>3. \A t \in T : TimeOfDay(t) >= Open /\ Day(t) = Day(l)
  BY <1>1 DEF CurrentSession, TrailingBars
<1>4. f \in T /\ T \subseteq Nat BY <1>1, <1>2, FirstIn
<1>5. f \in Int /\ l \in Int /\ Day(f) = Day(l) BY <1>2, <1>3, <1>4
<1>6. f = DayOpen(l) BY <1>1, <1>5, SameDay
<1>7. \A t \in f .. l : t \in T BY <1>1, <1>2, <1>4, NoHole
<1> QED BY <1>2, <1>3, <1>6, <1>7

-----------------------------------------------------------------------------
(* The watchlist: diagnosis and strict parser. *)

\* What follows from an empty diagnosis.
LEMMA NoDiagnosis ==
    ASSUME NEW lines \in Seq(Line), DiagnosisErrors(lines) = {}
    PROVE  /\ lines # <<>> /\ Parsed(lines) = DOMAIN lines /\ Repeated(lines) = {}
           /\ NonNse(lines) = {} /\ MaxInstruments >= 1 /\ Len(lines) <= MaxInstruments
<1>1. lines # <<>> BY DEF DiagnosisErrors, If
<1>2. Parsed(lines) = DOMAIN lines BY DEF DiagnosisErrors, If
<1>3. Repeated(lines) = {} BY DEF DiagnosisErrors, If
<1>4. NonNse(lines) = {} BY DEF DiagnosisErrors, If
<1>5. ~(MaxInstruments < 1) /\ ~(MaxInstruments >= 1 /\ Len(lines) > MaxInstruments)
  BY DEF DiagnosisErrors, If
<1> QED BY <1>1, <1>2, <1>3, <1>4, <1>5, WatchlistAssumption

\* Lines without a comma: one part each.
Single(lines) == \A i \in DOMAIN lines : Len(lines[i]) = 1

\* A part of a line.
LEMMA PartFacts ==
    ASSUME NEW lines \in Seq(Line), NEW i \in DOMAIN lines
    PROVE  /\ lines[i] \in Seq(Part) /\ lines[i] # <<>> /\ Len(lines[i]) \in Nat \ {0}
           /\ DOMAIN lines[i] = 1 .. Len(lines[i]) /\ 1 \in DOMAIN lines[i]
           /\ Len(lines[i]) = 1 => ~BlankPart(lines[i][1]) /\ DOMAIN lines[i] = {1}
           /\ \A j \in DOMAIN lines[i] :
                 lines[i][j].colons \in Nat /\ lines[i][j].exchange \in STRING /\ lines[i][j].name \in Nat
<1>1. lines[i] \in Line OBVIOUS
<1>2. /\ lines[i] \in Seq(Part) /\ lines[i] # <<>>
      /\ Len(lines[i]) = 1 => ~BlankPart(lines[i][1])
  BY <1>1 DEF Line
<1>3. Len(lines[i]) \in Nat \ {0} /\ DOMAIN lines[i] = 1 .. Len(lines[i]) BY <1>2
<1>4. \A j \in DOMAIN lines[i] : lines[i][j] \in Part BY <1>2
<1>5. \A j \in DOMAIN lines[i] :
         lines[i][j].colons \in Nat /\ lines[i][j].exchange \in STRING /\ lines[i][j].name \in Nat
  BY <1>4 DEF Part
<1> QED BY <1>2, <1>3, <1>5

\* The symbols of the strict parser are pairs.
LEMMA SymbolPairs ==
    ASSUME NEW lines \in Seq(Line)
    PROVE  StrictSymbols(lines) \subseteq STRING \X Nat
<1> SUFFICES ASSUME NEW a \in Places(lines) PROVE PartKey(At(lines, a)) \in STRING \X Nat
  BY DEF StrictSymbols
<1>0. PICK i \in DOMAIN lines : \E j \in DOMAIN lines[i] : a = <<i, j>> BY DEF Places
<1>1. PICK j \in DOMAIN lines[i] : a = <<i, j>> BY <1>0
<1>2. At(lines, a) = lines[i][j] BY <1>1 DEF At
<1>3. lines[i][j].exchange \in STRING /\ lines[i][j].name \in Nat BY PartFacts
<1> QED BY <1>2, <1>3 DEF PartKey

\* Without commas the parts of the strict parser are the lines of the diagnosis.
LEMMA SinglePlaces ==
    ASSUME NEW lines \in Seq(Line), Single(lines)
    PROVE  /\ Places(lines) = {<<i, 1>> : i \in DOMAIN lines}
           /\ \A i \in DOMAIN lines : At(lines, <<i, 1>>) = lines[i][1]
                                      /\ Key(lines[i]) = PartKey(lines[i][1])
           /\ Cardinality(Places(lines)) = Len(lines)
<1>1. \A i \in DOMAIN lines : DOMAIN lines[i] = {1} /\ ~BlankPart(lines[i][1])
  BY PartFacts DEF Single
<1>2. Places(lines) = {<<i, 1>> : i \in DOMAIN lines}
  <2>1. \A i \in DOMAIN lines : {n \in DOMAIN lines[i] : ~BlankPart(lines[i][n])} = {1} BY <1>1
  <2>2. \A i \in DOMAIN lines :
           {<<i, j>> : j \in {n \in DOMAIN lines[i] : ~BlankPart(lines[i][n])}} = {<<i, 1>>}
    BY <2>1
  <2>3. ASSUME NEW a PROVE a \in Places(lines) <=> \E i \in DOMAIN lines : a = <<i, 1>>
    BY <2>2 DEF Places
  <2> QED BY <2>3
<1>3. \A i \in DOMAIN lines : At(lines, <<i, 1>>) = lines[i][1] /\ Key(lines[i]) = PartKey(lines[i][1])
  BY DEF At, Key, Single
<1> DEFINE f == [i \in DOMAIN lines |-> <<i, 1>>]
<1>4. f \in [DOMAIN lines -> Places(lines)] BY <1>2
<1>5. \A i, j \in DOMAIN lines : f[i] = f[j] => i = j OBVIOUS
<1>6. \A a \in Places(lines) : \E i \in DOMAIN lines : f[i] = a BY <1>2
<1>7. DOMAIN lines = 1 .. Len(lines) /\ Len(lines) \in Nat OBVIOUS
<1>8. IsFiniteSet(DOMAIN lines) /\ Cardinality(DOMAIN lines) = Len(lines) BY <1>7, FS_Interval
<1> HIDE DEF f
<1>9. Cardinality(Places(lines)) = Cardinality(DOMAIN lines) BY <1>4, <1>5, <1>6, <1>8, SameSize
<1> QED BY <1>2, <1>3, <1>8, <1>9

\* Without commas, what the diagnosis accepts the strict parser accepts, and the symbols
\* of the diagnosis are those of the parser.
LEMMA DiagnosedAccepted ==
    ASSUME NEW lines \in Seq(Line), DiagnosisErrors(lines) = {}, Single(lines)
    PROVE  StrictAccepts(lines) /\ Normalized(lines) = StrictSymbols(lines)
<1>1. /\ lines # <<>> /\ Parsed(lines) = DOMAIN lines /\ Repeated(lines) = {}
      /\ NonNse(lines) = {} /\ MaxInstruments >= 1 /\ Len(lines) <= MaxInstruments
  BY NoDiagnosis
<1>2. Len(lines) \in 1 .. MaxInstruments /\ DOMAIN lines = 1 .. Len(lines)
  BY <1>1, WatchlistAssumption
<1>3. /\ Places(lines) = {<<i, 1>> : i \in DOMAIN lines}
      /\ \A i \in DOMAIN lines : At(lines, <<i, 1>>) = lines[i][1]
                                 /\ Key(lines[i]) = PartKey(lines[i][1])
      /\ Cardinality(Places(lines)) = Len(lines)
  BY SinglePlaces
<1>4. ASSUME NEW i \in DOMAIN lines
      PROVE  lines[i][1].colons >= 1 /\ lines[i][1].name # 0 /\ lines[i][1].exchange = "NSE"
  <2>1. ~HalfBlank(lines[i]) BY <1>1 DEF Parsed
  <2>2. lines[i][1].colons > 0 /\ lines[i][1].exchange = "NSE" BY <1>1 DEF NonNse
  <2>3. Len(lines[i]) = 1 /\ lines[i][1].colons \in Nat BY PartFacts DEF Single
  <2> QED BY <2>1, <2>2, <2>3 DEF HalfBlank
<1>5. ASSUME NEW i \in DOMAIN lines, NEW j \in DOMAIN lines, Key(lines[j]) = Key(lines[i]), i # j
      PROVE  FALSE
  <2>1. i < j \/ j < i BY <1>2, <1>5
  <2>2. i \in Repeated(lines) \/ j \in Repeated(lines) BY <1>1, <1>5, <2>1 DEF Repeated
  <2> QED BY <1>1, <2>2
<1>6. StrictAccepts(lines)
  <2>1. ASSUME NEW a \in Places(lines)
        PROVE  /\ At(lines, a).colons >= 1 /\ At(lines, a).name # 0
               /\ At(lines, a).exchange = "NSE"
               /\ \A b \in Places(lines) : PartKey(At(lines, a)) = PartKey(At(lines, b)) => a = b
    <3>1. PICK i \in DOMAIN lines : a = <<i, 1>> BY <1>3
    <3>2. ASSUME NEW b \in Places(lines), PartKey(At(lines, a)) = PartKey(At(lines, b)) PROVE a = b
      <4>1. PICK j \in DOMAIN lines : b = <<j, 1>> BY <1>3
      <4>2. Key(lines[j]) = Key(lines[i]) BY <1>3, <3>1, <3>2, <4>1
      <4> QED BY <1>5, <3>1, <4>1, <4>2
    <3> QED BY <1>3, <1>4, <3>1, <3>2
  <2> QED BY <1>1, <1>2, <1>3, <2>1 DEF StrictAccepts
<1>7. Normalized(lines) = StrictSymbols(lines)
  <2>1. Normalized(lines) = {Key(lines[i]) : i \in DOMAIN lines} BY <1>1 DEF Normalized, Keys
  <2>2. \A k : k \in StrictSymbols(lines) <=> \E i \in DOMAIN lines : k = Key(lines[i])
    BY <1>3 DEF StrictSymbols
  <2> QED BY <2>1, <2>2
<1> QED BY <1>6, <1>7

\* What only the diagnosis refuses has a comma or several colons in a line.
LEMMA AcceptedDiagnosed ==
    ASSUME NEW lines \in Seq(Line), StrictAccepts(lines), DiagnosisErrors(lines) # {}, Single(lines)
    PROVE  \E i \in DOMAIN lines : \E j \in DOMAIN lines[i] : lines[i][j].colons > 1
<1> SUFFICES ASSUME \A i \in DOMAIN lines : \A j \in DOMAIN lines[i] : ~(lines[i][j].colons > 1)
             PROVE  FALSE
  OBVIOUS
<1>1. /\ Places(lines) = {<<i, 1>> : i \in DOMAIN lines}
      /\ \A i \in DOMAIN lines : At(lines, <<i, 1>>) = lines[i][1]
                                 /\ Key(lines[i]) = PartKey(lines[i][1])
      /\ Cardinality(Places(lines)) = Len(lines)
  BY SinglePlaces
<1>2. \A i \in DOMAIN lines : /\ Len(lines[i]) = 1 /\ DOMAIN lines[i] = {1}
                              /\ lines[i][1].colons \in Nat
  BY PartFacts DEF Single
<1>3. ASSUME NEW i \in DOMAIN lines
      PROVE  lines[i][1].colons = 1 /\ lines[i][1].name # 0 /\ lines[i][1].exchange = "NSE"
  <2>1. <<i, 1>> \in Places(lines) BY <1>1
  <2>2. /\ lines[i][1].colons >= 1 /\ lines[i][1].name # 0 /\ lines[i][1].exchange = "NSE"
    BY <1>1, <2>1 DEF StrictAccepts
  <2>3. ~(lines[i][1].colons > 1) /\ lines[i][1].colons \in Nat BY <1>2
  <2> QED BY <2>2, <2>3
<1>4. Parsed(lines) = DOMAIN lines
  <2> SUFFICES ASSUME NEW i \in DOMAIN lines PROVE OneColon(lines[i]) /\ ~HalfBlank(lines[i])
    BY DEF Parsed
  <2>1. OneColon(lines[i]) BY <1>2, <1>3 DEF OneColon
  <2>2. ~HalfBlank(lines[i]) BY <1>2, <1>3 DEF HalfBlank
  <2> QED BY <2>1, <2>2
<1>5. NonNse(lines) = {} BY <1>3, <1>4 DEF NonNse
<1>6. Repeated(lines) = {}
  <2> SUFFICES ASSUME NEW i \in Repeated(lines) PROVE FALSE OBVIOUS
  <2>1. PICK j \in DOMAIN lines : j < i /\ Key(lines[j]) = Key(lines[i]) BY <1>4 DEF Repeated
  <2>2. i \in DOMAIN lines /\ i # j BY <1>4, <2>1 DEF Repeated
  <2>3. <<i, 1>> \in Places(lines) /\ <<j, 1>> \in Places(lines) BY <1>1, <2>1, <2>2
  <2>4. PartKey(At(lines, <<i, 1>>)) = PartKey(At(lines, <<j, 1>>)) BY <1>1, <2>1, <2>2
  <2>5. <<i, 1>> = <<j, 1>> BY <2>3, <2>4 DEF StrictAccepts
  <2> QED BY <2>2, <2>5
<1>7. /\ lines # <<>> /\ ~(MaxInstruments < 1) /\ ~(Len(lines) > MaxInstruments)
  <2>1. Len(lines) \in 1 .. MaxInstruments /\ MaxInstruments >= 1 BY <1>1 DEF StrictAccepts
  <2> QED BY <2>1, WatchlistAssumption
<1>8. /\ If(lines = <<>>, "empty") = {} /\ If(Parsed(lines) # DOMAIN lines, "format") = {}
      /\ If(Repeated(lines) # {}, "duplicate") = {} /\ If(NonNse(lines) # {}, "non_nse") = {}
      /\ If(MaxInstruments < 1, "max_not_positive") = {}
      /\ If(MaxInstruments >= 1 /\ Len(lines) > MaxInstruments, "over_limit") = {}
  BY <1>4, <1>5, <1>6, <1>7 DEF If
<1> QED BY <1>8 DEF DiagnosisErrors

\* What is ready for the stream is accepted and resolved by it: a line with a comma has no
\* row in a table whose keys are pairs.
LEMMA ReadyAccepted ==
    ASSUME NEW lines \in Seq(Line), NEW readable \in BOOLEAN, NEW table,
           DOMAIN table \subseteq STRING \X Nat,
           ReadyForStream(lines, readable, table)
    PROVE  /\ readable /\ StrictAccepts(lines)
           /\ Resolved(StrictSymbols(lines), table) = StrictSymbols(lines)
<1>1. readable BY DEF ReadyForStream, ReadyForSync, SourceErrors, If
<1>2. /\ DiagnosisErrors(lines) = {} /\ Missing(lines, table) = {}
      /\ Inactive(lines, table) = {}
  BY <1>1 DEF ReadyForStream, ReadyForSync, Loaded
<1>3. /\ Parsed(lines) = DOMAIN lines /\ Repeated(lines) = {} /\ NonNse(lines) = {}
  BY <1>2, NoDiagnosis
<1>4. \A i \in DOMAIN lines : Key(lines[i]) \in STRING \X Nat
  BY <1>2, <1>3 DEF Missing, Normalized, Keys
<1>5. Single(lines)
  <2> SUFFICES ASSUME NEW i \in DOMAIN lines, Len(lines[i]) # 1 PROVE FALSE BY DEF Single
  <2>1. Key(lines[i]) = <<lines[i][1].exchange, lines[i][1].name, Tail(lines[i])>> BY DEF Key
  <2>3. \A k \in STRING \X Nat : k = <<k[1], k[2]>> OBVIOUS
  <2>2. PICK e, n : Key(lines[i]) = <<e, n>> BY <1>4, <2>3
  <2> QED BY <2>1, <2>2
<1>6. StrictAccepts(lines) /\ Normalized(lines) = StrictSymbols(lines)
  BY <1>2, <1>5, DiagnosedAccepted
<1>7. StrictSymbols(lines) \subseteq DOMAIN table BY <1>2, <1>6 DEF Missing
<1>8. \A k \in StrictSymbols(lines) : table[k].active BY <1>2, <1>6, <1>7 DEF Inactive
<1> QED BY <1>1, <1>6, <1>7, <1>8 DEF Resolved

\* The gate asks for what ReadyForStream asks.
LEMMA StartReady ==
    ASSUME NEW lines, NEW readable \in BOOLEAN, NEW table, NEW env,
           ReadinessErrors(lines, readable, table, env) = {}
    PROVE  ReadyForStream(lines, readable, table)
<1>1. ValidationErrors(lines, readable, table) = {} BY DEF ReadinessErrors
<1>2. /\ SourceErrors(readable) = {} /\ DiagnosisErrors(Loaded(lines, readable)) = {}
      /\ If(Missing(Loaded(lines, readable), table) # {}, "not_synced") = {}
      /\ If(Inactive(Loaded(lines, readable), table) # {}, "inactive") = {}
  BY <1>1 DEF ValidationErrors
<1>3. /\ Missing(Loaded(lines, readable), table) = {}
      /\ Inactive(Loaded(lines, readable), table) = {}
  BY <1>2 DEF If
<1> QED BY <1>2, <1>3 DEF ReadyForStream, ReadyForSync

\* _recommended_action takes the first condition of the chain that holds.
LEMMA FirstAction ==
    ASSUME NEW errors, NEW env, NEW i \in 1 .. 11, ActionChain(errors, env)[i][1],
           \A j \in 1 .. i - 1 : ~ActionChain(errors, env)[j][1]
    PROVE  RecommendedAction(errors, env) = ActionChain(errors, env)[i][2]
<1> DEFINE chain == ActionChain(errors, env)
           P(n) == chain[n][1] /\ \A j \in 1 .. n - 1 : ~chain[j][1]
           first == CHOOSE n \in DOMAIN chain : P(n)
<1>1. DOMAIN chain = 1 .. 11 BY DEF ActionChain
<1> HIDE DEF chain
<1>2. first \in 1 .. 11 /\ P(first) BY <1>1 DEF chain
<1>3. PICK n \in 1 .. 11 : n = first BY <1>2
<1>4. chain[n][1] /\ \A j \in 1 .. n - 1 : ~chain[j][1] BY <1>2, <1>3
<1>5. chain[i][1] /\ \A j \in 1 .. i - 1 : ~chain[j][1] BY DEF chain
<1>6. ~(n < i) /\ ~(i < n)
  <2>1. ~(n < i) BY <1>4, <1>5
  <2>2. ~(i < n) BY <1>4, <1>5
  <2> QED BY <2>1, <2>2
<1>7. n = i BY <1>6
<1> QED BY <1>3, <1>7 DEF RecommendedAction, chain

\* The action "start" is recommended exactly when nothing but an empty, an unreadable or an
\* unlimited watchlist is wrong and no stream runs.
LEMMA StartRecommended ==
    ASSUME NEW errors, NEW env \in Envs,
           errors \subseteq {"empty", "format", "duplicate", "non_nse", "max_not_positive",
                             "over_limit", "unreadable", "not_synced", "inactive", "disabled",
                             "websocket_disabled", "mode", "session"}
    PROVE  /\ RecommendedAction(errors, env) = "ready_to_start_stream" <=>
                ~env.running /\ errors \subseteq {"empty", "unreadable", "max_not_positive"}
           /\ Ready(errors, env) => RecommendedAction(errors, env) \in
                {"ready_to_start_stream", "stream_already_running"}
<1> DEFINE c == ActionChain(errors, env)
           A == RecommendedAction(errors, env)
<1>1. /\ c[1][1] <=> "format" \in errors
      /\ c[2][1] <=> "duplicate" \in errors
      /\ c[3][1] <=> "non_nse" \in errors
      /\ c[4][1] <=> "over_limit" \in errors
      /\ c[5][1] <=> errors \cap {"not_synced", "inactive"} # {}
      /\ c[6][1] <=> "session" \in errors
      /\ c[7][1] <=> errors \cap {"disabled", "websocket_disabled"} # {}
      /\ c[8][1] <=> "mode" \in errors
      /\ c[9][1] <=> env.running /\ ~env.connected
      /\ c[10][1] <=> env.running
      /\ c[11][1]
  BY DEF ActionChain
<1>2. /\ c[1][2] = "fix_watchlist_format" /\ c[2][2] = "remove_duplicate_watchlist_symbols"
      /\ c[3][2] = "use_nse_symbols_only" /\ c[4][2] = "increase_market_data_max_instruments"
      /\ c[5][2] = "run_instrument_sync" /\ c[6][2] = "login_kite"
      /\ c[7][2] = "enable_read_only_market_data" /\ c[8][2] = "fix_market_data_mode"
      /\ c[9][2] = "inspect_stream_error_before_restart" /\ c[10][2] = "stream_already_running"
      /\ c[11][2] = "ready_to_start_stream"
  BY DEF ActionChain
<1>3. \A i \in 1 .. 11 : c[i][1] /\ (\A j \in 1 .. i - 1 : ~c[j][1]) => A = c[i][2]
  BY FirstAction
<1>4. PICK i \in 1 .. 11 : c[i][1] /\ \A j \in 1 .. i - 1 : ~c[j][1]
  <2> DEFINE T == {i \in 1 .. 11 : c[i][1]}
  <2>1. T # {} /\ T \subseteq Nat BY <1>1
  <2>2. PICK i \in T : \A j \in T : i <= j
    <3> HIDE DEF T
    <3> QED BY <2>1, LeastExists
  <2> HIDE DEF c
  <2>3. \A j \in 1 .. i - 1 : ~c[j][1] BY <2>2
  <2> QED BY <2>3
<1> HIDE DEF c, A
<1>5. A = c[i][2] BY <1>3, <1>4
<1>6. env.running \in BOOLEAN /\ env.connected \in BOOLEAN BY DEF Envs
<1>7. A = "ready_to_start_stream" <=> i = 11 BY <1>2, <1>5
<1>8. i = 11 <=> \A j \in 1 .. 10 : ~c[j][1] BY <1>4
<1>9. (\A j \in 1 .. 10 : ~c[j][1]) <=>
         ~env.running /\ errors \subseteq {"empty", "unreadable", "max_not_positive"}
  BY <1>1
<1>10. ASSUME Ready(errors, env) PROVE A \in {"ready_to_start_stream", "stream_already_running"}
  <2>1. errors = {} /\ (~env.running \/ env.connected) BY <1>10 DEF Ready, CanStart
  <2>2. i \in {10, 11} BY <1>1, <1>4, <2>1
  <2> QED BY <1>2, <1>5, <2>2
<1> QED BY <1>7, <1>8, <1>9, <1>10 DEF A

-----------------------------------------------------------------------------
(* Syncs and the gate of the stream. *)

SyncType(s) ==
    s \in [pc : {"idle", "item", "write", "validate", "start"}, dump : Seq(Item), next : Nat,
           found : BOOLEAN, writes : {s.writes}, inserted : Nat, updated : Nat, skipped : Nat,
           failed : Nat, aborted : BOOLEAN, ready : BOOLEAN]

Done(s) == 1 .. s.next - 1

\* The items of a dump that are wanted and those that the table has.
Items(s) == {i \in DOMAIN s.dump : s.dump[i].key \in Wanted}
StoredItems(s, table) == {i \in Items(s) : s.dump[i].key \in Resolved(Wanted, table)}

\* The counts of a sync follow its place in the dump.
Counts(s) ==
    s.pc \in {"item", "write", "validate"} =>
        /\ StrictAccepts(Configured)
        /\ s.next \in 1 .. Len(s.dump) + 1
        /\ s.inserted + s.updated + s.skipped + s.failed = s.next - 1
        /\ s.pc = "write" => s.next <= Len(s.dump) /\ s.dump[s.next].key \in Wanted
        /\ s.pc = "validate" => s.next = Len(s.dump) + 1
        /\ s.aborted => s.failed > 0

\* What the open transaction of a sync holds: active rows of wanted symbols, at least as
\* many items as it has counted, and everything wanted so far if nothing failed.
Holds(s) ==
    /\ \A k \in DOMAIN s.writes : k \in Wanted /\ s.writes[k].active = TRUE
    /\ s.pc \in {"idle", "validate", "start"} => DOMAIN s.writes = {}
    /\ s.pc \in {"item", "write"} =>
          /\ s.failed = 0 => /\ \A i \in Done(s) : s.dump[i].key \in Wanted =>
                                   s.dump[i].key \in DOMAIN s.writes
                             /\ ~s.aborted
          /\ ~s.aborted => s.inserted + s.updated <=
                              Cardinality({i \in Done(s) : s.dump[i].key \in DOMAIN s.writes})

\* What is true of the table after the commit of a sync, and after the gate of a start.
Stored(s, table) ==
    /\ s.pc = "validate" =>
          /\ s.failed = 0 => StoredItems(s, table) = Items(s)
          /\ ~s.aborted => s.inserted + s.updated <= Cardinality(StoredItems(s, table))
    /\ s.pc = "start" /\ s.ready =>
          StrictAccepts(Configured) /\ Resolved(Wanted, table) = Wanted

SyncOK(s, table) == SyncType(s) /\ Counts(s) /\ Holds(s) /\ Stored(s, table)

\* Rows are added and activated, never removed or deactivated.
Grows(f, g) == DOMAIN f \subseteq DOMAIN g /\ \A k \in DOMAIN f : f[k].active => g[k].active

SyncInv ==
    /\ begun \in Nat
    /\ sync = [q \in Requests |-> sync[q]]
    /\ \A q \in Requests : SyncOK(sync[q], instruments)
    /\ \A k \in DOMAIN instruments : instruments[k].active \in BOOLEAN
    /\ DOMAIN instruments \subseteq STRING \X Nat
    /\ begun = 0 => instruments \in InitialTables /\ \A q \in Requests : sync[q] = NoSync

\* What is resolved stays resolved in a larger table.
LEMMA ResolvedGrows ==
    ASSUME NEW f, NEW g, Grows(f, g), NEW S
    PROVE  Resolved(S, f) \subseteq Resolved(S, g)
           /\ (Resolved(S, f) = S => Resolved(S, g) = S)
BY DEF Grows, Resolved

\* The indices of a dump.
LEMMA ItemsFinite ==
    ASSUME NEW s, SyncType(s), NEW table
    PROVE  /\ IsFiniteSet(Items(s)) /\ IsFiniteSet(StoredItems(s, table))
           /\ DOMAIN s.dump = 1 .. Len(s.dump) /\ Len(s.dump) \in Nat
<1>1. s.dump \in Seq(Item) BY DEF SyncType
<1>2. DOMAIN s.dump = 1 .. Len(s.dump) /\ Len(s.dump) \in Nat BY <1>1
<1>3. IsFiniteSet(DOMAIN s.dump) BY <1>2, FS_Interval
<1> QED BY <1>2, <1>3, FS_Subset DEF Items, StoredItems

\* What is true of a request stays true in a larger table.
LEMMA SyncGrows ==
    ASSUME NEW s, NEW f, NEW g, SyncOK(s, f), Grows(f, g)
    PROVE  SyncOK(s, g)
<1>1. SyncType(s) /\ Counts(s) /\ Holds(s) /\ Stored(s, f) BY DEF SyncOK
<1>2. StoredItems(s, f) \subseteq StoredItems(s, g) /\ StoredItems(s, g) \subseteq Items(s)
  BY ResolvedGrows DEF StoredItems
<1>3. /\ Cardinality(StoredItems(s, f)) <= Cardinality(StoredItems(s, g))
      /\ Cardinality(StoredItems(s, f)) \in Nat /\ Cardinality(StoredItems(s, g)) \in Nat
  BY <1>1, <1>2, ItemsFinite, FS_Subset, FS_CardinalityType
<1>4. s.inserted + s.updated \in Nat BY <1>1 DEF SyncType
<1>5. Stored(s, g)
  <2>1. ASSUME s.pc = "validate", s.failed = 0 PROVE StoredItems(s, g) = Items(s)
    BY <1>1, <1>2, <2>1 DEF Stored
  <2>2. ASSUME s.pc = "validate", ~s.aborted
        PROVE  s.inserted + s.updated <= Cardinality(StoredItems(s, g))
    <3>1. s.inserted + s.updated <= Cardinality(StoredItems(s, f)) BY <1>1, <2>2 DEF Stored
    <3> QED BY <1>3, <1>4, <3>1
  <2>3. ASSUME s.pc = "start", s.ready
        PROVE  StrictAccepts(Configured) /\ Resolved(Wanted, g) = Wanted
    BY <1>1, <2>3, ResolvedGrows DEF Stored
  <2> QED BY <2>1, <2>2, <2>3 DEF Stored
<1> QED BY <1>1, <1>5 DEF SyncOK

\* A table is no smaller than itself.
LEMMA GrowsRefl == ASSUME NEW f PROVE Grows(f, f)
BY DEF Grows

\* Requests that do nothing about the table.
LEMMA NoSyncOK ==
    ASSUME NEW table
    PROVE  /\ SyncOK(NoSync, table) /\ NoSync.pc = "idle" /\ DOMAIN NoSync.writes = {}
           /\ SyncType(NoSync)
<1>1. DOMAIN NoRows = {} BY DEF NoRows
<1>2. /\ NoSync.pc = "idle" /\ NoSync.writes = NoRows BY DEF NoSync
<1>3. SyncType(NoSync) BY DEF SyncType, NoSync
<1>4. Counts(NoSync) /\ Holds(NoSync) /\ Stored(NoSync, table)
  BY <1>1, <1>2 DEF Counts, Holds, Stored
<1> QED BY <1>1, <1>2, <1>3, <1>4 DEF SyncOK

\* One request moves.
LEMMA OneSync ==
    ASSUME SyncInv, NEW q \in Requests, NEW s, sync' = [sync EXCEPT ![q] = s]
    PROVE  /\ sync' = [p \in Requests |-> sync'[p]] /\ sync'[q] = s
           /\ \A p \in Requests : p # q => sync'[p] = sync[p]
<1>1. sync = [p \in Requests |-> sync[p]] BY DEF SyncInv
<1> QED BY <1>1

\* A sync that has fetched its dump.
LEMMA BeginOK ==
    ASSUME NEW dump \in Seq(Item), StrictAccepts(Configured), NEW table
    PROVE  SyncOK([NoSync EXCEPT !.pc = "item", !.dump = dump], table)
<1> DEFINE s == [NoSync EXCEPT !.pc = "item", !.dump = dump]
<1>1. SyncType(s) BY NoSyncOK DEF SyncType
<1>2. /\ s.pc = "item" /\ s.dump = dump /\ s.next = 1 /\ s.writes = NoRows /\ s.inserted = 0
      /\ s.updated = 0 /\ s.skipped = 0 /\ s.failed = 0 /\ s.aborted = FALSE
  BY DEF NoSync
<1>3. DOMAIN s.writes = {} BY <1>2 DEF NoRows
<1> HIDE DEF s
<1>4. Done(s) = {} BY <1>2 DEF Done
<1>5. Len(dump) \in Nat OBVIOUS
<1>6. Counts(s) BY <1>2, <1>5 DEF Counts
<1>7. Holds(s)
  <2>1. {i \in Done(s) : s.dump[i].key \in DOMAIN s.writes} = {} BY <1>4
  <2> QED BY <1>2, <1>3, <1>4, <2>1, FS_EmptySet DEF Holds
<1>8. Stored(s, table) BY <1>2 DEF Stored
<1> QED BY <1>1, <1>6, <1>7, <1>8 DEF SyncOK, s

\* The indices of the items that a sync has counted and holds.
Held(s) == {i \in Done(s) : s.dump[i].key \in DOMAIN s.writes}

\* An item more, held or not.
LEMMA HeldGrows ==
    ASSUME NEW s, NEW z, s.next \in Nat \ {0}, z.next = s.next + 1, z.dump = s.dump,
           DOMAIN s.writes \subseteq DOMAIN z.writes
    PROVE  /\ Done(z) = Done(s) \cup {s.next}
           /\ Cardinality(Held(s)) \in Nat /\ Cardinality(Held(z)) \in Nat
           /\ Cardinality(Held(s)) <= Cardinality(Held(z))
           /\ s.dump[s.next].key \in DOMAIN z.writes =>
                 Cardinality(Held(s)) + 1 <= Cardinality(Held(z))
<1>1. Done(z) = Done(s) \cup {s.next} /\ s.next \notin Done(s) BY DEF Done
<1>2. IsFiniteSet(Done(s)) /\ IsFiniteSet(Done(z))
  <2>1. 1 \in Int /\ s.next - 1 \in Int OBVIOUS
  <2>2. IsFiniteSet(Done(s)) BY <2>1, FS_Interval DEF Done
  <2> QED BY <1>1, <2>2, FS_AddElement
<1>3. IsFiniteSet(Held(s)) /\ IsFiniteSet(Held(z)) BY <1>2, FS_Subset DEF Held
<1>4. Held(s) \subseteq Held(z) /\ s.next \notin Held(s) BY <1>1 DEF Held
<1>5. s.dump[s.next].key \in DOMAIN z.writes => Held(s) \cup {s.next} \subseteq Held(z)
  BY <1>1, <1>4 DEF Held
<1>6. Cardinality(Held(s) \cup {s.next}) = Cardinality(Held(s)) + 1 BY <1>3, <1>4, FS_AddElement
<1>7. Cardinality(Held(s)) \in Nat /\ Cardinality(Held(z)) \in Nat BY <1>3, FS_CardinalityType
<1>8. Cardinality(Held(s)) <= Cardinality(Held(z)) BY <1>3, <1>4, FS_Subset
<1>9. s.dump[s.next].key \in DOMAIN z.writes =>
         Cardinality(Held(s) \cup {s.next}) <= Cardinality(Held(z))
  BY <1>3, <1>5, FS_Subset
<1> QED BY <1>1, <1>6, <1>7, <1>8, <1>9

\* A sync after one more item, from what became of it: not wanted, failed, or written.
LEMMA NextItem ==
    ASSUME NEW s, NEW z, NEW table, SyncOK(s, table), s.pc \in {"item", "write"},
           s.next <= Len(s.dump), SyncType(z), z.pc = "item", z.dump = s.dump,
           z.next = s.next + 1,
           \/ /\ s.dump[s.next].key \notin Wanted /\ z.writes = s.writes
              /\ z.aborted = s.aborted /\ z.failed = s.failed /\ z.skipped = s.skipped + 1
              /\ z.inserted = s.inserted /\ z.updated = s.updated
           \/ /\ z.failed = s.failed + 1 /\ z.skipped = s.skipped
              /\ z.inserted = s.inserted /\ z.updated = s.updated
              /\ \/ z.writes = s.writes /\ z.aborted = s.aborted
                 \/ z.aborted = TRUE /\ DOMAIN z.writes = {}
           \/ /\ z.failed = s.failed /\ z.skipped = s.skipped /\ z.aborted = s.aborted
              /\ \/ z.inserted = s.inserted + 1 /\ z.updated = s.updated
                 \/ z.updated = s.updated + 1 /\ z.inserted = s.inserted
              /\ DOMAIN z.writes = DOMAIN s.writes \cup {s.dump[s.next].key}
              /\ \A k \in DOMAIN z.writes : k \in Wanted /\ z.writes[k].active = TRUE
    PROVE  SyncOK(z, table)
<1>1. SyncType(s) /\ Counts(s) /\ Holds(s) BY DEF SyncOK
<1>2. /\ s.next \in Nat /\ s.inserted \in Nat /\ s.updated \in Nat /\ s.skipped \in Nat
      /\ s.failed \in Nat /\ s.aborted \in BOOLEAN /\ z.aborted \in BOOLEAN
  BY <1>1 DEF SyncType
<1>3. Len(s.dump) \in Nat BY <1>1, ItemsFinite
<1>4. /\ StrictAccepts(Configured) /\ s.next \in Nat \ {0}
      /\ s.inserted + s.updated + s.skipped + s.failed = s.next - 1
      /\ s.aborted => s.failed > 0
  BY <1>1, <1>3 DEF Counts
<1>5. z.inserted + z.updated + z.skipped + z.failed = z.next - 1
  <2>1. \/ /\ z.skipped = s.skipped + 1 /\ z.failed = s.failed
           /\ z.inserted = s.inserted /\ z.updated = s.updated
        \/ /\ z.failed = s.failed + 1 /\ z.skipped = s.skipped
           /\ z.inserted = s.inserted /\ z.updated = s.updated
        \/ /\ z.failed = s.failed /\ z.skipped = s.skipped
           /\ \/ z.inserted = s.inserted + 1 /\ z.updated = s.updated
              \/ z.updated = s.updated + 1 /\ z.inserted = s.inserted
    OBVIOUS
  <2> QED BY ONLY <1>2, <1>4, <2>1, z.next = s.next + 1
<1>6. z.next \in 1 .. Len(z.dump) + 1 BY <1>2, <1>3, <1>4, SMTT(30)
<1>7. z.aborted => z.failed > 0
  <2>1. (z.failed = s.failed /\ z.aborted = s.aborted) \/ z.failed = s.failed + 1 OBVIOUS
  <2>2. s.aborted => s.failed > 0 BY <1>4
  <2>3. ASSUME z.failed = s.failed + 1 PROVE z.failed > 0 BY ONLY <1>2, <2>3
  <2>4. ASSUME z.failed = s.failed, z.aborted = s.aborted PROVE z.aborted => z.failed > 0
    BY ONLY <2>2, <2>4, Zenon
  <2> QED BY <2>1, <2>3, <2>4
<1>8. Counts(z) BY <1>4, <1>5, <1>6, <1>7 DEF Counts
<1>9. Stored(z, table) BY DEF Stored
<1>10. /\ s.failed = 0 => /\ \A i \in Done(s) : s.dump[i].key \in Wanted =>
                                s.dump[i].key \in DOMAIN s.writes
                          /\ ~s.aborted
       /\ ~s.aborted => s.inserted + s.updated <= Cardinality(Held(s))
       /\ \A k \in DOMAIN s.writes : k \in Wanted /\ s.writes[k].active = TRUE
  BY <1>1 DEF Holds, Held
<1> DEFINE Rest == /\ \A k \in DOMAIN z.writes : k \in Wanted /\ z.writes[k].active = TRUE
                   /\ z.failed = 0 => /\ \A i \in Done(z) : z.dump[i].key \in Wanted =>
                                            z.dump[i].key \in DOMAIN z.writes
                                      /\ ~z.aborted
                   /\ ~z.aborted => z.inserted + z.updated <= Cardinality(Held(z))
<1>11. ASSUME Rest PROVE SyncOK(z, table) BY <1>8, <1>9, <1>11 DEF SyncOK, Holds, Held
<1>12. ASSUME DOMAIN s.writes \subseteq DOMAIN z.writes
       PROVE  /\ Done(z) = Done(s) \cup {s.next}
              /\ Cardinality(Held(s)) \in Nat /\ Cardinality(Held(z)) \in Nat
              /\ Cardinality(Held(s)) <= Cardinality(Held(z))
              /\ s.dump[s.next].key \in DOMAIN z.writes =>
                    Cardinality(Held(s)) + 1 <= Cardinality(Held(z))
  BY <1>4, <1>12, HeldGrows
<1>13. CASE /\ s.dump[s.next].key \notin Wanted /\ z.writes = s.writes
            /\ z.aborted = s.aborted /\ z.failed = s.failed
            /\ z.inserted = s.inserted /\ z.updated = s.updated
  <2>1. Rest BY <1>2, <1>10, <1>12, <1>13, SMTT(30)
  <2> QED BY <1>11, <2>1
<1>14. CASE /\ z.failed = s.failed + 1 /\ z.inserted = s.inserted /\ z.updated = s.updated
            /\ \/ z.writes = s.writes /\ z.aborted = s.aborted
               \/ z.aborted = TRUE /\ DOMAIN z.writes = {}
  <2>1. z.failed # 0 BY <1>2, <1>14
  <2>2. Rest BY <1>2, <1>10, <1>12, <1>14, <2>1, SMTT(30)
  <2> QED BY <1>11, <2>2
<1>15. CASE /\ z.failed = s.failed /\ z.aborted = s.aborted
            /\ \/ z.inserted = s.inserted + 1 /\ z.updated = s.updated
               \/ z.updated = s.updated + 1 /\ z.inserted = s.inserted
            /\ DOMAIN z.writes = DOMAIN s.writes \cup {s.dump[s.next].key}
            /\ \A k \in DOMAIN z.writes : k \in Wanted /\ z.writes[k].active = TRUE
  <2>1. z.inserted + z.updated = s.inserted + s.updated + 1 BY <1>2, <1>15
  <2>2. /\ Done(z) = Done(s) \cup {s.next}
        /\ Cardinality(Held(s)) \in Nat /\ Cardinality(Held(z)) \in Nat
        /\ Cardinality(Held(s)) + 1 <= Cardinality(Held(z))
    BY <1>12, <1>15
  <2>3. ~z.aborted => z.inserted + z.updated <= Cardinality(Held(z))
    BY ONLY <1>2, <1>10, <1>15, <2>1, <2>2
  <2>4. ASSUME z.failed = 0
        PROVE  /\ \A i \in Done(z) : z.dump[i].key \in Wanted => z.dump[i].key \in DOMAIN z.writes
               /\ ~z.aborted
    BY <1>10, <1>15, <2>2, <2>4
  <2>5. Rest BY <1>15, <2>3, <2>4
  <2> QED BY <1>11, <2>5
<1> QED BY <1>13, <1>14, <1>15

\* The same, for the record that the code's counting of an item yields.
LEMMA CountedFields ==
    ASSUME SyncInv, NEW q \in Requests, NEW field \in {"inserted", "updated", "skipped", "failed"},
           NEW z, z = Counted(q, field)
    PROVE  /\ SyncType(z) /\ z.pc = "item" /\ z.dump = sync[q].dump /\ z.next = sync[q].next + 1
           /\ z.writes = sync[q].writes /\ z.aborted = sync[q].aborted
           /\ z.inserted = IF field = "inserted" THEN sync[q].inserted + 1 ELSE sync[q].inserted
           /\ z.updated = IF field = "updated" THEN sync[q].updated + 1 ELSE sync[q].updated
           /\ z.skipped = IF field = "skipped" THEN sync[q].skipped + 1 ELSE sync[q].skipped
           /\ z.failed = IF field = "failed" THEN sync[q].failed + 1 ELSE sync[q].failed
<1>1. SyncType(sync[q]) BY DEF SyncInv, SyncOK
<1>2. PICK s : s = sync[q] OBVIOUS
<1>3. PICK n \in Nat : n = s.next + 1 BY <1>1, <1>2 DEF SyncType
<1>4. CASE field = "inserted"
  <2>1. PICK m \in Nat : m = s.inserted + 1 BY <1>1, <1>2 DEF SyncType
  <2>2. z = [s EXCEPT !.inserted = m, !.next = n, !.pc = "item"]
    BY <1>2, <1>3, <1>4, <2>1 DEF Counted
  <2> QED BY <1>1, <1>2, <1>3, <1>4, <2>1, <2>2, ZenonT(60) DEF SyncType
<1>5. CASE field = "updated"
  <2>1. PICK m \in Nat : m = s.updated + 1 BY <1>1, <1>2 DEF SyncType
  <2>2. z = [s EXCEPT !.updated = m, !.next = n, !.pc = "item"]
    BY <1>2, <1>3, <1>5, <2>1 DEF Counted
  <2> QED BY <1>1, <1>2, <1>3, <1>5, <2>1, <2>2, ZenonT(60) DEF SyncType
<1>6. CASE field = "skipped"
  <2>1. PICK m \in Nat : m = s.skipped + 1 BY <1>1, <1>2 DEF SyncType
  <2>2. z = [s EXCEPT !.skipped = m, !.next = n, !.pc = "item"]
    BY <1>2, <1>3, <1>6, <2>1 DEF Counted
  <2> QED BY <1>1, <1>2, <1>3, <1>6, <2>1, <2>2, ZenonT(60) DEF SyncType
<1>7. CASE field = "failed"
  <2>1. PICK m \in Nat : m = s.failed + 1 BY <1>1, <1>2 DEF SyncType
  <2>2. z = [s EXCEPT !.failed = m, !.next = n, !.pc = "item"]
    BY <1>2, <1>3, <1>7, <2>1 DEF Counted
  <2> QED BY <1>1, <1>2, <1>3, <1>7, <2>1, <2>2, ZenonT(60) DEF SyncType
<1> QED BY <1>4, <1>5, <1>6, <1>7

\* What a step that takes an item makes of its sync.
LEMMA ItemForm ==
    ASSUME SyncInv, NEW q \in Requests, SyncItem(q)
    PROVE  \E z : sync' = [sync EXCEPT ![q] = z] /\ SyncOK(z, instruments)
<1> DEFINE s == sync[q]
           key == ItemOf(q).key
<1>1. SyncOK(s, instruments) /\ SyncType(s) /\ s.pc = "item" /\ s.next <= Len(s.dump)
  BY DEF SyncInv, SyncOK, SyncItem
<1>2. key = s.dump[s.next].key BY DEF ItemOf
<1>3. CASE key \notin Wanted
  <2>1. PICK z : z = Counted(q, "skipped") OBVIOUS
  <2>2. sync' = [sync EXCEPT ![q] = z] BY <1>3, <2>1 DEF SyncItem
  <2>3. /\ SyncType(z) /\ z.pc = "item" /\ z.dump = s.dump /\ z.next = s.next + 1
        /\ z.writes = s.writes /\ z.aborted = s.aborted /\ z.failed = s.failed
        /\ z.skipped = s.skipped + 1 /\ z.inserted = s.inserted /\ z.updated = s.updated
    BY <2>1, CountedFields
  <2> HIDE DEF s, key
  <2>4. SyncOK(z, instruments) BY <1>1, <1>2, <1>3, <2>3, NextItem
  <2> QED BY <2>2, <2>4
<1>4. CASE key \in Wanted /\ (ItemOf(q).bad \/ sync[q].aborted)
  <2>1. PICK z : z = Counted(q, "failed") OBVIOUS
  <2>2. sync' = [sync EXCEPT ![q] = z] BY <1>4, <2>1 DEF SyncItem
  <2>3. /\ SyncType(z) /\ z.pc = "item" /\ z.dump = s.dump /\ z.next = s.next + 1
        /\ z.writes = s.writes /\ z.aborted = s.aborted /\ z.failed = s.failed + 1
        /\ z.skipped = s.skipped /\ z.inserted = s.inserted /\ z.updated = s.updated
    BY <2>1, CountedFields
  <2> HIDE DEF s, key
  <2>4. SyncOK(z, instruments) BY <1>1, <2>3, NextItem
  <2> QED BY <2>2, <2>4
<1>5. CASE key \in Wanted /\ ~(ItemOf(q).bad \/ sync[q].aborted)
  <2> DEFINE b == key \in DOMAIN View(q)
             z == [s EXCEPT !.pc = "write", !.found = b]
  <2>1. b \in BOOLEAN OBVIOUS
  <2>2. sync' = [sync EXCEPT ![q] = z] BY <1>5 DEF SyncItem
  <2> HIDE DEF b
  <2>3. SyncType(z) BY <1>1, <2>1 DEF SyncType
  <2>4. /\ z.pc = "write" /\ z.dump = s.dump /\ z.next = s.next /\ z.writes = s.writes
        /\ z.aborted = s.aborted /\ z.failed = s.failed /\ z.skipped = s.skipped
        /\ z.inserted = s.inserted /\ z.updated = s.updated
    BY <1>1 DEF SyncType
  <2>5. Counts(s) /\ Holds(s) /\ key \in Wanted BY <1>1, <1>5 DEF SyncOK
  <2> HIDE DEF s, key, z
  <2>6. Counts(z) BY <1>1, <1>2, <2>4, <2>5 DEF Counts
  <2>7. Holds(z) BY <1>1, <2>4, <2>5 DEF Holds, Done
  <2>8. Stored(z, instruments) BY <2>4 DEF Stored
  <2> QED BY <2>2, <2>3, <2>6, <2>7, <2>8 DEF SyncOK
<1> QED BY <1>3, <1>4, <1>5

\* The same for a statement that succeeds.
LEMMA WriteForm ==
    ASSUME SyncInv, NEW q \in Requests, SyncWrite(q)
    PROVE  \E z : sync' = [sync EXCEPT ![q] = z] /\ SyncOK(z, instruments)
<1> DEFINE s == sync[q]
           key == ItemOf(q).key
           row == [k \in {key} |-> [token |-> ItemOf(q).token, active |-> TRUE]]
           rows == Overlay(row, s.writes)
<1>1. SyncOK(s, instruments) /\ SyncType(s) /\ s.pc = "write" BY DEF SyncInv, SyncOK, SyncWrite
<1>2. Counts(s) /\ Holds(s) BY <1>1 DEF SyncOK
<1>3. key = s.dump[s.next].key BY DEF ItemOf
<1>4. s.next <= Len(s.dump) /\ key \in Wanted BY <1>1, <1>2, <1>3 DEF Counts
<1>5. /\ DOMAIN rows = DOMAIN s.writes \cup {key}
      /\ \A k \in DOMAIN rows : k \in Wanted /\ rows[k].active = TRUE
  <2>1. \A k \in DOMAIN s.writes : k \in Wanted /\ s.writes[k].active = TRUE BY <1>2 DEF Holds
  <2> QED BY <1>4, <2>1 DEF Overlay
<1>6. PICK field \in {"updated", "inserted"} :
         sync' = [sync EXCEPT ![q] = [Counted(q, field) EXCEPT !.writes = rows]]
  <2>1. CASE sync[q].found BY <2>1 DEF SyncWrite
  <2>2. CASE ~sync[q].found BY <2>2 DEF SyncWrite
  <2> QED BY <2>1, <2>2
<1>7. PICK y : y = Counted(q, field) OBVIOUS
<1>8. /\ SyncType(y) /\ y.pc = "item" /\ y.dump = s.dump /\ y.next = s.next + 1
      /\ y.aborted = s.aborted /\ y.failed = s.failed /\ y.skipped = s.skipped
      /\ \/ y.inserted = s.inserted + 1 /\ y.updated = s.updated
         \/ y.updated = s.updated + 1 /\ y.inserted = s.inserted
  BY <1>7, CountedFields
<1> DEFINE z == [y EXCEPT !.writes = rows]
<1> HIDE DEF s, key, rows
<1>9. SyncType(z) /\ z.writes = rows BY <1>8 DEF SyncType
<1>10. /\ z.pc = y.pc /\ z.dump = y.dump /\ z.next = y.next /\ z.aborted = y.aborted
       /\ z.failed = y.failed /\ z.skipped = y.skipped /\ z.inserted = y.inserted
       /\ z.updated = y.updated
  BY <1>8 DEF SyncType
<1>11. sync' = [sync EXCEPT ![q] = z] BY <1>6, <1>7
<1> HIDE DEF z
<1>12. SyncOK(z, instruments) BY <1>1, <1>3, <1>4, <1>5, <1>8, <1>9, <1>10, NextItem
<1> QED BY <1>11, <1>12

\* The same for a statement that fails and aborts the transaction.
LEMMA WriteFailsForm ==
    ASSUME SyncInv, NEW q \in Requests, SyncWriteFails(q)
    PROVE  \E z : sync' = [sync EXCEPT ![q] = z] /\ SyncOK(z, instruments)
<1> DEFINE s == sync[q]
<1>1. SyncOK(s, instruments) /\ SyncType(s) /\ s.pc = "write"
  BY DEF SyncInv, SyncOK, SyncWriteFails
<1>2. s.next <= Len(s.dump) BY <1>1 DEF SyncOK, Counts
<1>3. PICK y : y = Counted(q, "failed") OBVIOUS
<1>4. /\ SyncType(y) /\ y.pc = "item" /\ y.dump = s.dump /\ y.next = s.next + 1
      /\ y.failed = s.failed + 1 /\ y.skipped = s.skipped /\ y.inserted = s.inserted
      /\ y.updated = s.updated
  BY <1>3, CountedFields
<1> DEFINE z == [y EXCEPT !.aborted = TRUE, !.writes = NoRows]
<1>5. sync' = [sync EXCEPT ![q] = z] BY <1>3 DEF SyncWriteFails
<1> HIDE DEF s
<1>6. SyncType(z) /\ z.writes = NoRows /\ z.aborted = TRUE BY <1>4 DEF SyncType
<1>7. /\ z.pc = y.pc /\ z.dump = y.dump /\ z.next = y.next /\ z.failed = y.failed
      /\ z.skipped = y.skipped /\ z.inserted = y.inserted /\ z.updated = y.updated
  BY <1>4 DEF SyncType
<1> HIDE DEF z
<1>8. DOMAIN z.writes = {} BY <1>6 DEF NoRows
<1>9. SyncOK(z, instruments) BY <1>1, <1>2, <1>4, <1>6, <1>7, <1>8, NextItem
<1> QED BY <1>5, <1>9

\* A commit only adds and activates rows, and its sync has stored what it counted.
LEMMA CommitForm ==
    ASSUME SyncInv, NEW q \in Requests, SyncCommit(q)
    PROVE  /\ Grows(instruments, instruments')
           /\ \E z : sync' = [sync EXCEPT ![q] = z] /\ SyncOK(z, instruments')
           /\ \A k \in DOMAIN instruments' : instruments'[k].active \in BOOLEAN
           /\ DOMAIN instruments' \subseteq STRING \X Nat
<1> DEFINE s == sync[q]
           table == View(q)
           z == [s EXCEPT !.pc = "validate", !.writes = NoRows]
<1>1. /\ SyncType(s) /\ Counts(s) /\ Holds(s) /\ s.pc = "item" /\ s.next > Len(s.dump)
      /\ instruments' = table
  BY DEF SyncInv, SyncOK, SyncCommit
<1>2. sync' = [sync EXCEPT ![q] = z] BY DEF SyncCommit
<1>3. /\ DOMAIN table = DOMAIN s.writes \cup DOMAIN instruments
      /\ \A k \in DOMAIN s.writes : table[k] = s.writes[k]
      /\ \A k \in DOMAIN instruments : k \notin DOMAIN s.writes => table[k] = instruments[k]
  BY DEF View, Overlay
<1>4. \A k \in DOMAIN s.writes : k \in Wanted /\ s.writes[k].active = TRUE BY <1>1 DEF Holds
<1>5. /\ SyncType(z) /\ z.pc = "validate" /\ z.writes = NoRows /\ z.dump = s.dump
      /\ z.next = s.next /\ z.aborted = s.aborted /\ z.failed = s.failed
      /\ z.skipped = s.skipped /\ z.inserted = s.inserted /\ z.updated = s.updated
  BY <1>1 DEF SyncType
<1> HIDE DEF s, table, z
<1>6. Grows(instruments, table) BY <1>3, <1>4 DEF Grows
<1>7. \A k \in DOMAIN table : table[k].active \in BOOLEAN BY <1>3, <1>4 DEF SyncInv
<1>8. /\ StrictAccepts(Configured) /\ Len(s.dump) \in Nat /\ DOMAIN s.dump = 1 .. Len(s.dump)
      /\ s.next = Len(s.dump) + 1
  <2>1. Len(s.dump) \in Nat /\ DOMAIN s.dump = 1 .. Len(s.dump) BY <1>1, ItemsFinite
  <2>2. StrictAccepts(Configured) /\ s.next \in 1 .. Len(s.dump) + 1 BY <1>1 DEF Counts
  <2> QED BY <1>1, <2>1, <2>2
<1>9. DOMAIN table \subseteq STRING \X Nat
  <2>1. Wanted \subseteq STRING \X Nat BY InstrumentSyncAssumption, SymbolPairs DEF Wanted
  <2> QED BY <1>3, <1>4, <2>1 DEF SyncInv
<1>10. Counts(z) BY <1>1, <1>5, <1>8 DEF Counts
<1>11. Holds(z)
  <2>1. DOMAIN z.writes = {} BY <1>5 DEF NoRows
  <2> QED BY <1>5, <2>1 DEF Holds
<1>12. \A k \in DOMAIN s.writes : k \in Resolved(Wanted, table) BY <1>3, <1>4 DEF Resolved
<1>13. Done(s) = DOMAIN s.dump BY <1>8 DEF Done
<1>14. Held(s) \subseteq StoredItems(z, table)
  BY <1>4, <1>5, <1>12, <1>13 DEF Held, StoredItems, Items
<1>15. ASSUME z.failed = 0 PROVE StoredItems(z, table) = Items(z)
  <2>1. \A i \in Done(s) : s.dump[i].key \in Wanted => s.dump[i].key \in DOMAIN s.writes
    BY <1>1, <1>5, <1>15 DEF Holds
  <2> QED BY <1>5, <1>12, <1>13, <2>1 DEF StoredItems, Items
<1>16. ASSUME ~z.aborted PROVE z.inserted + z.updated <= Cardinality(StoredItems(z, table))
  <2>1. s.inserted + s.updated <= Cardinality(Held(s)) BY <1>1, <1>5, <1>16 DEF Holds, Held
  <2>2. IsFiniteSet(StoredItems(z, table)) BY <1>5, ItemsFinite
  <2>3. /\ Cardinality(Held(s)) <= Cardinality(StoredItems(z, table))
        /\ Cardinality(Held(s)) \in Nat /\ Cardinality(StoredItems(z, table)) \in Nat
    BY <1>14, <2>2, FS_Subset, FS_CardinalityType
  <2>4. s.inserted \in Nat /\ s.updated \in Nat BY <1>1 DEF SyncType
  <2> QED BY <1>5, <2>1, <2>3, <2>4
<1>17. Stored(z, table) BY <1>5, <1>15, <1>16 DEF Stored
<1>18. SyncOK(z, table) BY <1>5, <1>10, <1>11, <1>17 DEF SyncOK
<1> QED BY <1>1, <1>2, <1>6, <1>7, <1>9, <1>18

\* What the gate finds ready is accepted and resolved.
LEMMA GateForm ==
    ASSUME SyncInv, NEW q \in Requests, NEW env \in Envs, StartGate(q, env)
    PROVE  \E z : sync' = [sync EXCEPT ![q] = z] /\ SyncOK(z, instruments)
<1> DEFINE errors == ReadinessErrors(Configured, TRUE, instruments, env)
           b == CanStart(errors, env)
           z == [NoSync EXCEPT !.pc = "start", !.ready = b]
<1>1. sync' = [sync EXCEPT ![q] = z] BY DEF StartGate
<1>2. b \in BOOLEAN BY DEF CanStart
<1>3. ASSUME b PROVE StrictAccepts(Configured) /\ Resolved(Wanted, instruments) = Wanted
  <2>1. errors = {} BY <1>3 DEF CanStart
  <2>2. ReadyForStream(Configured, TRUE, instruments) BY <2>1, StartReady
  <2>3. /\ Configured \in Seq(Line)
        /\ DOMAIN instruments \subseteq STRING \X Nat
    BY InstrumentSyncAssumption DEF SyncInv
  <2> QED BY <2>2, <2>3, ReadyAccepted DEF Wanted
<1> HIDE DEF b
<1>4. SyncType(z) BY <1>2, NoSyncOK DEF SyncType
<1>5. z.pc = "start" /\ z.writes = NoRows /\ z.ready = b BY DEF NoSync
<1> HIDE DEF z
<1>6. DOMAIN z.writes = {} BY <1>5 DEF NoRows
<1>7. Counts(z) /\ Holds(z) /\ Stored(z, instruments)
  BY <1>3, <1>5, <1>6 DEF Counts, Holds, Stored
<1> QED BY <1>1, <1>4, <1>7 DEF SyncOK

\* Every step of a request is of one form.
LEMMA SyncMoves ==
    ASSUME SyncInv, SyncNext
    PROVE  /\ Grows(instruments, instruments') /\ begun' \in Nat /\ begun' # 0
           /\ \E q \in Requests : \E z : sync' = [sync EXCEPT ![q] = z] /\ SyncOK(z, instruments')
           /\ \A k \in DOMAIN instruments' : instruments'[k].active \in BOOLEAN
           /\ DOMAIN instruments' \subseteq STRING \X Nat
<1> DEFINE Goal == /\ Grows(instruments, instruments') /\ begun' \in Nat /\ begun' # 0
                   /\ \E q \in Requests : \E z : sync' = [sync EXCEPT ![q] = z] /\ SyncOK(z, instruments')
                   /\ \A k \in DOMAIN instruments' : instruments'[k].active \in BOOLEAN
                   /\ DOMAIN instruments' \subseteq STRING \X Nat
<1>1. PICK q \in Requests :
        \/ \E dump \in Dumps : SyncBegin(q, dump)
        \/ SyncItem(q) \/ SyncWrite(q) \/ SyncWriteFails(q) \/ SyncCommit(q)
        \/ \E env \in Envs : StartGate(q, env)
        \/ SyncEnd(q)
  BY DEF SyncNext
<1>2. begun \in Nat /\ (begun = 0 => sync[q].pc = "idle") BY NoSyncOK DEF SyncInv
<1>3. Grows(instruments, instruments) BY GrowsRefl
<1>4. ASSUME instruments' = instruments, begun' \in Nat, begun' # 0,
             \E z : sync' = [sync EXCEPT ![q] = z] /\ SyncOK(z, instruments)
      PROVE  Goal
  BY <1>3, <1>4 DEF SyncInv
<1>5. CASE \E dump \in Dumps : SyncBegin(q, dump)
  <2>1. PICK dump \in Dumps : SyncBegin(q, dump) BY <1>5
  <2>2. dump \in Seq(Item) BY InstrumentSyncAssumption
  <2>3. StrictAccepts(Configured) /\ instruments' = instruments /\ begun' = begun + 1
    BY <2>1 DEF SyncBegin
  <2>4. SyncOK([NoSync EXCEPT !.pc = "item", !.dump = dump], instruments) BY <2>2, <2>3, BeginOK
  <2>5. \E z : sync' = [sync EXCEPT ![q] = z] /\ SyncOK(z, instruments)
    BY <2>1, <2>4 DEF SyncBegin
  <2>6. begun' \in Nat /\ begun' # 0 BY <1>2, <2>3
  <2> QED BY <1>4, <2>3, <2>5, <2>6
<1>6. CASE SyncItem(q)
  <2>1. instruments' = instruments /\ begun' = begun /\ begun # 0 BY <1>2, <1>6 DEF SyncItem
  <2> QED BY <1>2, <1>4, <1>6, <2>1, ItemForm
<1>7. CASE SyncWrite(q)
  <2>1. instruments' = instruments /\ begun' = begun /\ begun # 0 BY <1>2, <1>7 DEF SyncWrite
  <2> QED BY <1>2, <1>4, <1>7, <2>1, WriteForm
<1>8. CASE SyncWriteFails(q)
  <2>1. instruments' = instruments /\ begun' = begun /\ begun # 0
    BY <1>2, <1>8 DEF SyncWriteFails
  <2> QED BY <1>2, <1>4, <1>8, <2>1, WriteFailsForm
<1>9. CASE SyncCommit(q)
  <2>1. begun' = begun /\ begun # 0 BY <1>2, <1>9 DEF SyncCommit
  <2> QED BY <1>2, <1>9, <2>1, CommitForm
<1>10. CASE \E env \in Envs : StartGate(q, env)
  <2>1. PICK env \in Envs : StartGate(q, env) BY <1>10
  <2>2. instruments' = instruments /\ begun' = begun + 1 BY <2>1 DEF StartGate
  <2>3. begun' \in Nat /\ begun' # 0 BY <1>2, <2>2
  <2>4. \E z : sync' = [sync EXCEPT ![q] = z] /\ SyncOK(z, instruments) BY <2>1, GateForm
  <2> QED BY <1>4, <2>2, <2>3, <2>4
<1>11. CASE SyncEnd(q)
  <2>1. instruments' = instruments /\ begun' = begun /\ begun # 0 BY <1>2, <1>11 DEF SyncEnd
  <2>2. sync' = [sync EXCEPT ![q] = NoSync] /\ SyncOK(NoSync, instruments)
    BY <1>11, NoSyncOK DEF SyncEnd
  <2> QED BY <1>2, <1>4, <2>1, <2>2
<1> QED BY <1>1, <1>5, <1>6, <1>7, <1>8, <1>9, <1>10, <1>11

\* Requests keep their part of the invariant, and so does whatever leaves them alone.
LEMMA SyncStep ==
    ASSUME SyncInv, Next
    PROVE  SyncInv' /\ Grows(instruments, instruments')
<1>1. CASE SyncNext
  <2>1. /\ Grows(instruments, instruments') /\ begun' \in Nat /\ begun' # 0
        /\ \A k \in DOMAIN instruments' : instruments'[k].active \in BOOLEAN
        /\ DOMAIN instruments' \subseteq STRING \X Nat
    BY <1>1, SyncMoves
  <2>2. PICK q \in Requests : \E z : sync' = [sync EXCEPT ![q] = z] /\ SyncOK(z, instruments')
    BY <1>1, SyncMoves
  <2>6. PICK z : sync' = [sync EXCEPT ![q] = z] /\ SyncOK(z, instruments') BY <2>2
  <2>3. /\ sync' = [p \in Requests |-> sync'[p]] /\ sync'[q] = z
        /\ \A p \in Requests : p # q => sync'[p] = sync[p]
    BY <2>6, OneSync
  <2>4. \A p \in Requests : SyncOK(sync[p], instruments') BY <2>1, SyncGrows DEF SyncInv
  <2>5. \A p \in Requests : SyncOK(sync'[p], instruments') BY <2>3, <2>4, <2>6
  <2> QED BY <2>1, <2>3, <2>5 DEF SyncInv
<1>2. CASE instruments' = instruments /\ sync' = sync /\ begun' \in {begun, begun + 1}
  <2>1. begun' \in Nat /\ (begun' = 0 => begun = 0) BY <1>2 DEF SyncInv
  <2> QED BY <1>2, <2>1, GrowsRefl DEF SyncInv
<1>3. SyncNext \/ (instruments' = instruments /\ sync' = sync /\ begun' \in {begun, begun + 1})
  <2>1. ASSUME NEW q \in Selectors, NEW p, SelectBegin(q, p)
        PROVE  instruments' = instruments /\ sync' = sync /\ begun' \in {begun, begun + 1}
    BY <2>1 DEF SelectBegin
  <2>2. ASSUME NEW q \in Selectors, NEW m, Score(q, m)
        PROVE  instruments' = instruments /\ sync' = sync /\ begun' \in {begun, begun + 1}
    BY <2>2 DEF Score, syncVars
  <2>3. ASSUME NEW q \in Selectors, Save(q) \/ SelectFails(q)
        PROVE  instruments' = instruments /\ sync' = sync /\ begun' \in {begun, begun + 1}
    BY <2>3 DEF Save, SelectFails, syncVars
  <2>4. ASSUME NEW c, StoreCandle(c)
        PROVE  instruments' = instruments /\ sync' = sync /\ begun' \in {begun, begun + 1}
    BY <2>4 DEF StoreCandle, syncVars
  <2>5. ASSUME Tick
        PROVE  instruments' = instruments /\ sync' = sync /\ begun' \in {begun, begun + 1}
    BY <2>5 DEF Tick, syncVars
  <2> QED BY <2>1, <2>2, <2>3, <2>4, <2>5 DEF Next
<1> QED BY <1>1, <1>2, <1>3

-----------------------------------------------------------------------------
(* The order of the pool and the ranking. *)

\* The members of PoolKeys have a first position, and a set of them a first member.
LEMMA FirstOfPool ==
    ASSUME NEW S, S \subseteq PoolKeys, S # {}
    PROVE  FirstOf(S) \in S
<1>1. DOMAIN Pool = 1 .. Len(Pool) /\ Len(Pool) \in Nat BY UniverseAssumption
<1>2. ASSUME NEW k \in PoolKeys PROVE Position(k) \in Nat
  <2> DEFINE T == {i \in DOMAIN Pool : Key(Pool[i]) = k}
  <2>1. T # {} BY DEF PoolKeys, Keys, Parsed
  <2>2. T \subseteq Nat BY <1>1
  <2>3. PICK i \in T : \A j \in T : i <= j
    <3> HIDE DEF T
    <3> QED BY <2>1, <2>2, LeastExists
  <2>4. i \in DOMAIN Pool /\ i \in Nat /\ Key(Pool[i]) = k BY <1>1
  <2>5. \A j \in 1 .. i - 1 : Key(Pool[j]) # k
    <3> SUFFICES ASSUME NEW j \in 1 .. i - 1, Key(Pool[j]) = k PROVE FALSE OBVIOUS
    <3>1. j \in DOMAIN Pool /\ ~(i <= j) BY <1>1, <2>4
    <3> QED BY <2>3, <3>1
  <2>6. Position(k) \in DOMAIN Pool BY <2>4, <2>5 DEF Position
  <2> QED BY <1>1, <2>6
<1> DEFINE P == {Position(k) : k \in S}
<1>3. P \subseteq Nat /\ P # {} BY <1>2
<1>4. PICK n \in P : \A u \in P : n <= u
  <2> HIDE DEF P
  <2> QED BY <1>3, LeastExists
<1>5. PICK k \in S : n = Position(k) OBVIOUS
<1>6. \A l \in S : Position(k) <= Position(l) BY <1>4, <1>5
<1> QED BY <1>6 DEF FirstOf

\* The ranks of results with distinct names are the numbers from 1 on, so that a limit
\* selects as many as it says.
LEMMA Ranking ==
    ASSUME NEW I, IsFiniteSet(I), \A r \in I : r.score \in Nat /\ r.symbol[2] \in Nat,
           \A r, o \in I : r.symbol[2] = o.symbol[2] => r = o, NEW limit \in Nat
    PROVE  Cardinality({r \in I : Rank(I, r) <= limit}) =
              IF Cardinality(I) < limit THEN Cardinality(I) ELSE limit
<1> DEFINE Lower(r, o) == o.score > r.score \/ (o.score = r.score /\ o.symbol[2] < r.symbol[2])
           Above(r) == {o \in I : Lower(r, o)}
           n == Cardinality(I)
           rank == [r \in I |-> Rank(I, r)]
<1>1. \A r \in I : Rank(I, r) = 1 + Cardinality(Above(r)) BY DEF Rank
<1>2. /\ \A r \in I : ~Lower(r, r)
      /\ \A r, o \in I : r = o \/ Lower(r, o) \/ Lower(o, r)
      /\ \A r, o, p \in I : Lower(r, o) /\ Lower(o, p) => Lower(r, p)
  OBVIOUS
<1> HIDE DEF Lower
<1>3. n \in Nat BY FS_CardinalityType
<1>4. \A r \in I : /\ Above(r) \subseteq I \ {r} /\ IsFiniteSet(Above(r))
                   /\ Cardinality(Above(r)) \in Nat
  BY <1>2, FS_Subset, FS_CardinalityType
<1>5. \A r \in I : Rank(I, r) \in 1 .. n
  <2> SUFFICES ASSUME NEW r \in I PROVE Rank(I, r) \in 1 .. n OBVIOUS
  <2>1. Cardinality(I \ {r}) = n - 1 /\ IsFiniteSet(I \ {r}) BY FS_RemoveElement
  <2>2. Cardinality(Above(r)) <= n - 1 BY <1>4, <2>1, FS_Subset
  <2> HIDE DEF Above, n
  <2> QED BY <1>1, <1>3, <1>4, <2>2
<1>6. ASSUME NEW r \in I, NEW o \in I, Lower(r, o) PROVE Rank(I, o) < Rank(I, r)
  <2>1. Above(o) \cup {o} \subseteq Above(r) /\ o \notin Above(o) BY <1>2, <1>6
  <2>2. Cardinality(Above(o) \cup {o}) = Cardinality(Above(o)) + 1 BY <1>4, <2>1, FS_AddElement
  <2>3. Cardinality(Above(o) \cup {o}) <= Cardinality(Above(r)) BY <1>4, <2>1, FS_Subset
  <2> HIDE DEF Above
  <2> QED BY <1>1, <1>4, <2>2, <2>3
<1>7. \A r, o \in I : rank[r] = rank[o] => r = o
  <2> SUFFICES ASSUME NEW r \in I, NEW o \in I, Rank(I, r) = Rank(I, o), r # o PROVE FALSE
    OBVIOUS
  <2>1. Lower(r, o) \/ Lower(o, r) BY <1>2
  <2> QED BY <1>5, <1>6, <2>1
<1> HIDE DEF Above, n
<1>8. rank \in [I -> 1 .. n] BY <1>5
<1>9. rank \in Injection(I, 1 .. n) BY <1>7, <1>8 DEF Injection, IsInjective
<1>10. IsFiniteSet(1 .. n) /\ Cardinality(1 .. n) = n BY <1>3, FS_Interval
<1>11. rank \in Surjection(I, 1 .. n) BY <1>9, <1>10, FS_Injection DEF n
<1>12. \A m \in 1 .. n : \E r \in I : Rank(I, r) = m BY <1>11 DEF Surjection
<1> DEFINE S == {r \in I : Rank(I, r) <= limit}
           m == IF n < limit THEN n ELSE limit
           f == [r \in S |-> Rank(I, r)]
<1>13. m \in Nat /\ m <= n /\ m <= limit BY <1>3
<1>14. \A r \in S : Rank(I, r) \in 1 .. m BY <1>3, <1>5
<1>15. \A a, b \in S : f[a] = f[b] => a = b BY <1>7
<1>16. \A t \in 1 .. m : \E a \in S : f[a] = t
  <2> SUFFICES ASSUME NEW t \in 1 .. m PROVE \E a \in S : f[a] = t OBVIOUS
  <2>1. t \in 1 .. n /\ t <= limit BY <1>3, <1>13
  <2>2. PICK r \in I : Rank(I, r) = t BY <1>12, <2>1
  <2> QED BY <2>1, <2>2
<1>17. IsFiniteSet(S) BY FS_Subset
<1>18. f \in [S -> 1 .. m] BY <1>14
<1> HIDE DEF S, f, m
<1>19. Cardinality(1 .. m) = Cardinality(S) BY <1>15, <1>16, <1>17, <1>18, SameSize
<1>20. Cardinality(1 .. m) = m BY <1>13, FS_Interval
<1> QED BY <1>19, <1>20 DEF S, m, n

-----------------------------------------------------------------------------
(* Selections and runs. *)

Symbols(S) == {r.symbol : r \in S}
Chosen(s) == s.todo \cup Symbols(s.results)
Place(i) == IF i \in Parsed(Pool) THEN Key(Pool[i]) ELSE <<"invalid", i>>
Admitted == {k \in SpecialKeys : ~ExcludeSpecial} \cup {k \in PoolKeys : ~RequireActive}
Bars(k, C) == {c[2] : c \in {d \in C : d[1] = k}}

ParamType == [limit : Nat \ {0}, dry : BOOLEAN, full : BOOLEAN, current : BOOLEAN,
              policy : {"exclude", "warn", "ignore"}]

\* What SelectedHaveFullSession says of a symbol with these bars.
Full(bars, p, started) ==
    p.current /\ RequireContinuity => \E t \in bars :
        /\ DayOpen(t) .. t \subseteq bars
        /\ t - DayOpen(t) + 1 >= MinCandles
        /\ p.policy = "exclude" => started <= t + 2 + StaleAfter

SelType(s) ==
    /\ s \in [pc : {"idle", "score"}, params : ParamType, started : Nat, todo : {s.todo},
              results : {s.results}, invalid : {s.invalid}]
    /\ IsFiniteSet(s.results)
    /\ \A r \in s.results : r.included \in BOOLEAN /\ r.score \in Nat

\* A symbol is to be scored or has one result.
OneResult(s) ==
    /\ \A r, o \in s.results : r.symbol = o.symbol => r = o
    /\ \A r \in s.results : r.symbol \notin s.todo

\* Every entry of the pool is excluded or chosen for scoring, and both only if admitted.
Shared(s) ==
    s.pc = "score" => /\ \A i \in DOMAIN Pool : Place(i) \in s.invalid \cup Chosen(s)
                      /\ Chosen(s) \cap s.invalid \subseteq Admitted

Sound(s, table, C) ==
    /\ Chosen(s) \subseteq SyntacticallyEligible
    /\ RequireActive => \A k \in Chosen(s) : k \in DOMAIN table /\ table[k].active
    /\ \A r \in s.results : r.included => Full(Bars(r.symbol, C), s.params, s.started)

SelOK(s, table, C) == SelType(s) /\ OneResult(s) /\ Shared(s) /\ Sound(s, table, C)

\* What PoolAccountedFor says of a run.
Accounted(r) ==
    /\ r.params.full => \A i \in DOMAIN Pool : Place(i) \in r.ranked \cup r.excluded
    /\ r.ranked \cap r.excluded \subseteq Admitted
    /\ r.ranked \subseteq SyntacticallyEligible /\ r.selected \subseteq r.ranked
    /\ Cardinality(r.selected) =
          IF Cardinality(r.ranked) < r.params.limit THEN Cardinality(r.ranked) ELSE r.params.limit

RunOK(r, table, C) ==
    /\ Accounted(r)
    /\ \A k \in r.selected : Full(Bars(k, C), r.params, r.started)
    /\ RequireActive => \A k \in r.selected : k \in DOMAIN table /\ table[k].active

SelInv ==
    /\ now \in Nat
    /\ candles \subseteq (STRING \X Nat) \X Nat /\ IsFiniteSet(candles)
    /\ sel = [q \in Selectors |-> sel[q]]
    /\ \A q \in Selectors : SelOK(sel[q], instruments, candles)
    /\ \E S : runs \in Seq(S)
    /\ \A n \in DOMAIN runs : RunOK(runs[n], instruments, candles)

\* Candles that come later leave a full session full.
LEMMA FullGrows ==
    ASSUME NEW C, NEW D, C \subseteq D, NEW k, NEW p, NEW started, Full(Bars(k, C), p, started)
    PROVE  Full(Bars(k, D), p, started)
<1>1. Bars(k, C) \subseteq Bars(k, D) BY DEF Bars
<1> HIDE DEF Bars
<1> QED BY <1>1 DEF Full

\* So do a larger table and more candles with selections and runs.
LEMMA SelGrows ==
    ASSUME NEW f, NEW g, Grows(f, g), NEW C, NEW D, C \subseteq D
    PROVE  /\ \A s : SelOK(s, f, C) => SelOK(s, g, D)
           /\ \A r : RunOK(r, f, C) => RunOK(r, g, D)
<1>1. ASSUME NEW s, SelOK(s, f, C) PROVE SelOK(s, g, D)
  <2>1. \A r \in s.results : r.included => Full(Bars(r.symbol, D), s.params, s.started)
    BY <1>1, FullGrows DEF SelOK, Sound
  <2>2. RequireActive => \A k \in Chosen(s) : k \in DOMAIN g /\ g[k].active
    BY <1>1 DEF SelOK, Sound, Grows
  <2> QED BY <1>1, <2>1, <2>2 DEF SelOK, Sound
<1>2. ASSUME NEW r, RunOK(r, f, C) PROVE RunOK(r, g, D)
  <2>1. \A k \in r.selected : Full(Bars(k, D), r.params, r.started)
    BY <1>2, FullGrows DEF RunOK
  <2>2. RequireActive => \A k \in r.selected : k \in DOMAIN g /\ g[k].active
    BY <1>2 DEF RunOK, Grows
  <2> QED BY <1>2, <2>1, <2>2 DEF RunOK
<1> QED BY <1>1, <1>2

\* A task that selects nothing.
LEMMA NoSelOK ==
    ASSUME NEW table, NEW C
    PROVE  SelOK(NoSel, table, C)
<1>1. /\ NoSel.pc = "idle" /\ NoSel.params \in ParamType /\ NoSel.started = 0
      /\ NoSel.todo = {} /\ NoSel.results = {}
  BY DEF NoSel, ParamType
<1>2. Chosen(NoSel) = {} BY <1>1 DEF Chosen, Symbols
<1>3. SelType(NoSel) BY <1>1, FS_EmptySet DEF SelType, NoSel
<1> QED BY <1>1, <1>2, <1>3 DEF SelOK, OneResult, Shared, Sound

\* The syntactically eligible keys are NSE keys, told apart by their names.
LEMMA EligibleKeys ==
    ASSUME NEW k \in SyntacticallyEligible
    PROVE  k \in PoolKeys /\ k = <<"NSE", k[2]>> /\ k[2] \in Nat /\ k[1] = "NSE"
<1>1. k \in PoolKeys /\ k \notin NonNseKeys BY DEF SyntacticallyEligible
<1>2. PICK i \in Parsed(Pool) : k = Key(Pool[i]) BY <1>1 DEF PoolKeys, Keys
<1>3. i \notin NonNse(Pool) BY <1>1, <1>2 DEF NonNseKeys, Keys
<1>4. Pool[i][1].exchange = "NSE" BY <1>2, <1>3 DEF NonNse
<1>5. i \in DOMAIN Pool BY <1>2 DEF Parsed
<1>6. Pool \in Seq(Line) /\ Len(Pool[i]) = 1 BY <1>5, UniverseAssumption
<1>7. Pool[i][1].name \in Nat BY <1>5, <1>6, PartFacts
<1> QED BY <1>1, <1>2, <1>4, <1>6, <1>7 DEF Key, PartKey

\* The validation takes every entry of the pool to the excluded or the eligible ones, and
\* to both only what the settings admit.
LEMMA ValidationShares ==
    ASSUME \A k \in DOMAIN instruments : instruments[k].active \in BOOLEAN
    PROVE  /\ \A i \in DOMAIN Pool : Place(i) \in ValidationExclusions \cup EligibleForScoring
           /\ EligibleForScoring \cap ValidationExclusions \subseteq Admitted
           /\ EligibleForScoring \subseteq SyntacticallyEligible
           /\ RequireActive => \A k \in EligibleForScoring :
                 k \in DOMAIN instruments /\ instruments[k].active
<1>1. ASSUME NEW i \in DOMAIN Pool PROVE Place(i) \in ValidationExclusions \cup EligibleForScoring
  <2>1. CASE i \notin Parsed(Pool)
    <3>1. Place(i) \in InvalidEntries BY <2>1 DEF Place, InvalidEntries
    <3> QED BY <3>1 DEF ValidationExclusions
  <2>2. CASE i \in Parsed(Pool)
    <3>1. Place(i) \in PoolKeys BY <2>2 DEF Place, PoolKeys, Keys
    <3>2. Place(i) \in NonNseKeys \/ Place(i) \in SpecialKeys \/ Place(i) \in SyntacticallyEligible
      BY <3>1 DEF SyntacticallyEligible
    <3>3. Place(i) \in SyntacticallyEligible =>
             Place(i) \in PoolMissing \cup PoolInactive \cup EligibleForScoring
      BY DEF EligibleForScoring
    <3> QED BY <3>2, <3>3 DEF ValidationExclusions
  <2> QED BY <2>1, <2>2
<1>2. EligibleForScoring \subseteq SyntacticallyEligible BY DEF EligibleForScoring
<1>3. ASSUME NEW k \in EligibleForScoring
      PROVE  k \in DOMAIN instruments /\ (RequireActive => instruments[k].active)
  BY <1>2, <1>3 DEF EligibleForScoring, PoolMissing, PoolInactive
<1>4. ASSUME NEW k \in EligibleForScoring, k \in ValidationExclusions PROVE k \in Admitted
  <2>1. k \in SyntacticallyEligible /\ k \in PoolKeys /\ k[1] = "NSE" BY <1>2, EligibleKeys
  <2>2. k \notin PoolMissing BY <1>3 DEF PoolMissing
  <2>3. k \notin NonNseKeys BY <2>1 DEF SyntacticallyEligible
  <2>4. k \notin InvalidEntries BY <2>1 DEF InvalidEntries
  <2>5. CASE k \in PoolInactive
    <3>1. ~RequireActive BY <1>3, <2>5 DEF PoolInactive
    <3> QED BY <2>1, <3>1 DEF Admitted
  <2>6. CASE k \in SpecialKeys
    <3>1. ~ExcludeSpecial BY <2>1, <2>6 DEF SyntacticallyEligible
    <3> QED BY <2>6, <3>1 DEF Admitted
  <2> QED BY <1>4, <2>2, <2>3, <2>4, <2>5, <2>6 DEF ValidationExclusions
<1> QED BY <1>1, <1>2, <1>3, <1>4

\* A selection as it begins.
LEMMA SelectBeginForm ==
    ASSUME SyncInv, SelInv, NEW q \in Selectors, NEW scope \in {"route", "job"},
           NEW p \in Params, SelectBegin(q, p)
    PROVE  \E z : sel' = [sel EXCEPT ![q] = z] /\ SelOK(z, instruments, candles)
<1> DEFINE z == [pc |-> "score", params |-> p, started |-> now, todo |-> EligibleForScoring, results |-> {},
                 invalid |-> ValidationExclusions]
<1>1. sel' = [sel EXCEPT ![q] = z] BY DEF SelectBegin
<1>2. p \in ParamType BY UniverseAssumption DEF ParamType
<1>3. /\ z.pc = "score" /\ z.params = p /\ z.started = now /\ z.todo = EligibleForScoring
      /\ z.results = {} /\ z.invalid = ValidationExclusions
  OBVIOUS
<1>5. SelType(z) BY <1>2, FS_EmptySet DEF SelType, SelInv
<1> HIDE DEF z
<1>4. Chosen(z) = EligibleForScoring BY <1>3 DEF Chosen, Symbols
<1>6. OneResult(z) BY <1>3 DEF OneResult
<1>7. Shared(z) BY <1>3, <1>4, ValidationShares DEF Shared, SyncInv
<1>8. Sound(z, instruments, candles) BY <1>3, <1>4, ValidationShares DEF Sound, SyncInv
<1> QED BY <1>1, <1>5, <1>6, <1>7, <1>8 DEF SelOK

\* The bars of a symbol are finitely many minutes.
LEMMA BarsFinite ==
    ASSUME NEW C, C \subseteq (STRING \X Nat) \X Nat, IsFiniteSet(C), NEW k
    PROVE  Bars(k, C) \subseteq Nat /\ IsFiniteSet(Bars(k, C))
<1> DEFINE S == {d \in C : d[1] = k}
           f == [c \in S |-> c[2]]
<1>1. Bars(k, C) \subseteq Nat BY DEF Bars
<1>2. IsFiniteSet(S) BY FS_Subset
<1>3. f \in [S -> Bars(k, C)] /\ \A t \in Bars(k, C) : \E c \in S : f[c] = t BY DEF Bars
<1> HIDE DEF S, f
<1>4. f \in Surjection(S, Bars(k, C)) BY <1>3 DEF Surjection
<1> QED BY <1>1, <1>2, <1>4, FS_Surjection

\* Bars that exclude nothing fill a session from the open on.
LEMMA NothingExcluded ==
    ASSUME NEW B, B \subseteq Nat, IsFiniteSet(B), NEW p \in ParamType, NEW started \in Nat,
           BarExclusions(B, p, started) = {}
    PROVE  Full(B, p, started)
<1> SUFFICES ASSUME p.current, RequireContinuity
             PROVE  \E t \in B : /\ DayOpen(t) .. t \subseteq B
                                 /\ t - DayOpen(t) + 1 >= MinCandles
                                 /\ p.policy = "exclude" => started <= t + 2 + StaleAfter
  BY DEF Full
<1> DEFINE T == CurrentSession(B)
           l == Latest(B)
           o == DayOpen(l)
<1>1. ~(Cardinality(T) < MinCandles)
  BY DEF BarExclusions, If
<1>2. SessionStartAvailable(T) BY DEF BarExclusions, If
<1>3. CandleContinuityOk(T) BY DEF BarExclusions, If
<1>4. ~(Stale(B, started) /\ p.policy = "exclude") BY DEF BarExclusions, If
<1>5. T # {} BY <1>2 DEF SessionStartAvailable
<1>6. /\ l \in T /\ Latest(T) = l /\ B # {} /\ T \subseteq B /\ IsFiniteSet(T)
  BY <1>5, LatestInSession
<1>7. /\ \A t \in o .. l : t \in T
      /\ First(T) = o
  BY <1>2, <1>3, FullSession
<1>8. /\ First(T) \in T /\ \A u \in T : First(T) <= u /\ u <= l
  BY <1>5, <1>6, FirstIn, LatestOf
<1> HIDE DEF T, l, o
<1>9. o \in Nat /\ l \in Nat /\ o <= l BY <1>6, <1>7, <1>8
<1>10. T \subseteq o .. l BY <1>6, <1>7, <1>8, <1>9
<1>11. IsFiniteSet(o .. l) /\ Cardinality(o .. l) = l - o + 1 BY <1>9, FS_Interval
<1>12. Cardinality(T) <= l - o + 1 BY <1>10, <1>11, FS_Subset
<1>13. l - o + 1 >= MinCandles
  <2>1. Cardinality(T) \in Nat BY <1>6, FS_CardinalityType
  <2> QED BY <1>1, <1>9, <1>12, <2>1, UniverseAssumption
<1>14. ASSUME p.policy = "exclude" PROVE started <= l + 2 + StaleAfter
  <2>1. ~(started > l + 2 + StaleAfter) BY <1>4, <1>6, <1>14 DEF Stale, l
  <2> QED BY <1>9, <2>1, UniverseAssumption
<1>15. l \in B /\ o .. l \subseteq B BY <1>6, <1>7
<1> QED BY <1>13, <1>14, <1>15 DEF o

\* A selection after one more symbol.
LEMMA ScoreForm ==
    ASSUME SyncInv, SelInv, NEW q \in Selectors, NEW m \in Markets, Score(q, m)
    PROVE  \E z : sel' = [sel EXCEPT ![q] = z] /\ SelOK(z, instruments, candles)
<1> DEFINE s == sel[q]
           k == FirstOf(s.todo)
           x == ScoreSymbol(k, s.params, s.started, m)
           rest == s.todo \ {k}
           scored == s.results \cup {x}
           z == [s EXCEPT !.todo = rest, !.results = scored]
<1>1. s.pc = "score" /\ s.todo # {} /\ SelOK(s, instruments, candles) BY DEF Score, SelInv
<1>2. SelType(s) /\ OneResult(s) /\ Shared(s) /\ Sound(s, instruments, candles)
  BY <1>1 DEF SelOK
<1>3. sel' = [sel EXCEPT ![q] = z] BY DEF Score
<1>4. s.todo \subseteq PoolKeys /\ Chosen(s) \subseteq SyntacticallyEligible
  BY <1>2, EligibleKeys DEF Sound, Chosen
<1>5. k \in s.todo BY <1>1, <1>4, FirstOfPool
<1>6. /\ x.symbol = k /\ x.included \in BOOLEAN /\ x.score \in Nat
      /\ x.included => BarExclusions(LoadCompletedBars(k), s.params, s.started) = {}
  <2>1. m.points \in Nat BY UniverseAssumption
  <2>2. x = [symbol |-> k, included |-> x.included, score |-> x.score] /\ x.included \in BOOLEAN
            /\ x.score \in {m.points, 0}
    BY DEF ScoreSymbol
  <2>3. x.included => BarExclusions(LoadCompletedBars(k), s.params, s.started) = {}
    BY DEF ScoreSymbol
  <2> QED BY <2>1, <2>2, <2>3
<1>7. LoadCompletedBars(k) = Bars(k, candles) BY DEF LoadCompletedBars, Bars
<1>8. x.included => Full(Bars(k, candles), s.params, s.started)
  <2>1. Bars(k, candles) \subseteq Nat /\ IsFiniteSet(Bars(k, candles)) BY BarsFinite DEF SelInv
  <2> QED BY <1>2, <1>6, <1>7, <2>1, NothingExcluded DEF SelType
<1>9. /\ z.pc = s.pc /\ z.params = s.params /\ z.started = s.started /\ z.invalid = s.invalid
      /\ z.todo = s.todo \ {k} /\ z.results = s.results \cup {x}
  BY <1>2 DEF SelType
<1>10. SelType(z)
  <2>1. IsFiniteSet(scored) BY <1>2, FS_AddElement DEF SelType
  <2>2. \A r \in scored : r.included \in BOOLEAN /\ r.score \in Nat BY <1>2, <1>6 DEF SelType
  <2> HIDE DEF s, rest, scored
  <2> QED BY <1>2, <2>1, <2>2 DEF SelType
<1> HIDE DEF s, k, x, z
<1>11. Chosen(z) = Chosen(s) BY <1>5, <1>6, <1>9 DEF Chosen, Symbols
<1>12. OneResult(z) BY <1>2, <1>5, <1>6, <1>9 DEF OneResult
<1>13. Shared(z) BY <1>2, <1>9, <1>11 DEF Shared
<1>14. Sound(z, instruments, candles) BY <1>2, <1>6, <1>8, <1>9, <1>11 DEF Sound
<1> QED BY <1>3, <1>10, <1>12, <1>13, <1>14 DEF SelOK

\* Results are as many as their symbols.
LEMMA SymbolsCounted ==
    ASSUME NEW S, IsFiniteSet(S), \A r, o \in S : r.symbol = o.symbol => r = o
    PROVE  Cardinality(Symbols(S)) = Cardinality(S)
<1> DEFINE f == [r \in S |-> r.symbol]
<1>1. /\ f \in [S -> Symbols(S)] /\ \A a, b \in S : f[a] = f[b] => a = b
      /\ \A k \in Symbols(S) : \E r \in S : f[r] = k
  BY DEF Symbols
<1> HIDE DEF f
<1> QED BY <1>1, SameSize

\* The run that a selection stores.
LEMMA RunForm ==
    ASSUME NEW s, NEW table, NEW C, SelOK(s, table, C), s.pc = "score", s.todo = {}
    PROVE  RunOK(Run(s), table, C)
<1> DEFINE I == {r \in s.results : r.included}
           S == {r \in I : Rank(I, r) <= s.params.limit}
           r0 == Run(s)
<1>1. SelType(s) /\ OneResult(s) /\ Shared(s) /\ Sound(s, table, C) BY DEF SelOK
<1>2. /\ r0.params = s.params /\ r0.started = s.started /\ r0.selected = Symbols(S)
      /\ r0.ranked = Symbols(I)
      /\ r0.excluded = IF s.params.full THEN s.invalid \cup Symbols(s.results \ I) ELSE {}
  BY DEF Run, Symbols
<1> HIDE DEF r0
<1>3. s.params.limit \in Nat BY <1>1 DEF SelType, ParamType
<1>4. IsFiniteSet(I) /\ IsFiniteSet(S) BY <1>1, FS_Subset DEF SelType
<1>5. Chosen(s) = Symbols(s.results) BY DEF Chosen
<1>6. \A r \in s.results : /\ r.symbol \in Chosen(s) /\ r.symbol[2] \in Nat
                           /\ r.symbol = <<"NSE", r.symbol[2]>>
  <2>1. \A r \in s.results : r.symbol \in Chosen(s) BY <1>5 DEF Symbols
  <2> QED BY <1>1, <2>1, EligibleKeys DEF Sound
<1>7. \A r, o \in s.results : r.symbol = o.symbol => r = o BY <1>1 DEF OneResult
<1>8. \A r, o \in s.results : r.symbol[2] = o.symbol[2] => r = o BY <1>6, <1>7
<1>9. Symbols(s.results) = Symbols(I) \cup Symbols(s.results \ I) BY DEF Symbols
<1>10. Symbols(I) \cap Symbols(s.results \ I) = {} BY <1>7 DEF Symbols
<1>11. \A r \in I : r.score \in Nat /\ r.symbol[2] \in Nat BY <1>1, <1>6 DEF SelType
<1>12. \A r, o \in I : r.symbol[2] = o.symbol[2] => r = o BY <1>8
<1>13. \A r, o \in I : r.symbol = o.symbol => r = o BY <1>7
<1>14. S \subseteq I /\ I \subseteq s.results /\ \A r \in I : r.included OBVIOUS
<1>15. Cardinality(S) = IF Cardinality(I) < s.params.limit THEN Cardinality(I) ELSE s.params.limit
  <2> HIDE DEF I
  <2> QED BY <1>3, <1>4, <1>11, <1>12, Ranking
<1> HIDE DEF I, S
<1>16. Cardinality(Symbols(I)) = Cardinality(I) BY <1>4, <1>13, SymbolsCounted
<1>17. Cardinality(Symbols(S)) = Cardinality(S) BY <1>4, <1>13, <1>14, SymbolsCounted
<1>18. Accounted(r0)
  <2>1. r0.params.full => \A i \in DOMAIN Pool : Place(i) \in r0.ranked \cup r0.excluded
    BY <1>1, <1>2, <1>5, <1>9 DEF Shared
  <2>2. r0.ranked \cap r0.excluded \subseteq Admitted
    BY <1>1, <1>2, <1>5, <1>9, <1>10 DEF Shared
  <2>3. r0.ranked \subseteq SyntacticallyEligible
    BY <1>1, <1>2, <1>5, <1>9 DEF Sound
  <2>4. r0.selected \subseteq r0.ranked BY <1>2, <1>14 DEF Symbols
  <2> QED BY <1>2, <1>15, <1>16, <1>17, <2>1, <2>2, <2>3, <2>4 DEF Accounted
<1>19. \A k \in r0.selected : k \in Chosen(s) /\ Full(Bars(k, C), r0.params, r0.started)
  BY <1>1, <1>2, <1>6, <1>14 DEF Symbols, Sound
<1>20. RequireActive => \A k \in r0.selected : k \in DOMAIN table /\ table[k].active
  BY <1>1, <1>19 DEF Sound
<1> QED BY <1>18, <1>19, <1>20 DEF RunOK, r0

\* One selection moves.
LEMMA OneSel ==
    ASSUME SelInv, NEW q \in Selectors, NEW z, sel' = [sel EXCEPT ![q] = z],
           SelOK(z, instruments, candles)
    PROVE  /\ sel' = [p \in Selectors |-> sel'[p]]
           /\ \A p \in Selectors : SelOK(sel'[p], instruments, candles)
<1>1. sel = [p \in Selectors |-> sel[p]] /\ \A p \in Selectors : SelOK(sel[p], instruments, candles)
  BY DEF SelInv
<1>2. sel' = [p \in Selectors |-> sel'[p]] BY <1>1
<1>3. \A p \in Selectors : sel'[p] = IF p = q THEN z ELSE sel[p] BY <1>1
<1> QED BY <1>1, <1>2, <1>3

\* A run is added to the runs.
LEMMA OneRun ==
    ASSUME SelInv, NEW r, RunOK(r, instruments, candles), runs' = Append(runs, r)
    PROVE  /\ \E S : runs' \in Seq(S)
           /\ \A n \in DOMAIN runs' : RunOK(runs'[n], instruments, candles)
<1>1. PICK S : runs \in Seq(S) BY DEF SelInv
<1>2. runs \in Seq(S \cup {r})
  <2>1. Len(runs) \in Nat /\ runs \in [1 .. Len(runs) -> S] BY <1>1
  <2>2. runs \in [1 .. Len(runs) -> S \cup {r}] BY <2>1
  <2> QED BY <1>1, <2>1, <2>2
<1>3. runs' \in Seq(S \cup {r}) BY <1>2
<1>4. /\ DOMAIN runs' = 1 .. Len(runs) + 1 /\ runs'[Len(runs) + 1] = r /\ Len(runs) \in Nat
      /\ DOMAIN runs = 1 .. Len(runs) /\ \A n \in 1 .. Len(runs) : runs'[n] = runs[n]
  BY <1>2
<1>5. ASSUME NEW n \in DOMAIN runs' PROVE RunOK(runs'[n], instruments, candles)
  <2>1. n \in DOMAIN runs \/ n = Len(runs) + 1 BY <1>4
  <2>2. CASE n \in DOMAIN runs
    <3>1. runs'[n] = runs[n] BY <1>4, <2>2
    <3> QED BY <2>2, <3>1 DEF SelInv
  <2>3. CASE n = Len(runs) + 1 BY <1>4, <2>3
  <2> QED BY <2>1, <2>2, <2>3
<1> QED BY <1>3, <1>5

\* Selections keep their part of the invariant.
LEMMA SelStep ==
    ASSUME SyncInv, SelInv, Next
    PROVE  SelInv'
<1>1. ASSUME now' \in Nat, candles \subseteq candles',
             candles' \subseteq (STRING \X Nat) \X Nat, IsFiniteSet(candles'),
             sel' = sel, runs' = runs, Grows(instruments, instruments')
      PROVE  SelInv'
  <2>1. \A s : SelOK(s, instruments, candles) => SelOK(s, instruments', candles') BY <1>1, SelGrows
  <2>2. \A r : RunOK(r, instruments, candles) => RunOK(r, instruments', candles') BY <1>1, SelGrows
  <2> QED BY <1>1, <2>1, <2>2 DEF SelInv
<1>2. ASSUME NEW q \in Selectors, instruments' = instruments, now' = now, candles' = candles,
             runs' = runs,
             \E z : sel' = [sel EXCEPT ![q] = z] /\ SelOK(z, instruments, candles)
      PROVE  SelInv'
  <2>1. /\ sel' = [p \in Selectors |-> sel'[p]]
        /\ \A p \in Selectors : SelOK(sel'[p], instruments, candles)
    BY <1>2, OneSel
  <2> QED BY <1>2, <2>1 DEF SelInv
<1>3. /\ now \in Nat /\ candles \subseteq (STRING \X Nat) \X Nat /\ IsFiniteSet(candles)
      /\ Grows(instruments, instruments)
  BY GrowsRefl DEF SelInv
<1>4. CASE SyncNext /\ UNCHANGED selVars
  <2>1. now' = now /\ candles' = candles /\ sel' = sel /\ runs' = runs BY <1>4 DEF selVars
  <2>2. Grows(instruments, instruments') BY SyncStep
  <2> QED BY <1>1, <1>3, <2>1, <2>2
<1>5. ASSUME NEW q \in Selectors, NEW p \in Params,
             SelectBegin(q, p)
      PROVE  SelInv'
  <2>1. instruments' = instruments /\ now' = now /\ candles' = candles /\ runs' = runs
    BY <1>5 DEF SelectBegin
  <2> QED BY <1>2, <1>5, <2>1, SelectBeginForm
<1>6. ASSUME NEW q \in Selectors, NEW m \in Markets, Score(q, m) PROVE SelInv'
  <2>1. instruments' = instruments /\ now' = now /\ candles' = candles /\ runs' = runs
    BY <1>6 DEF Score, syncVars
  <2> QED BY <1>2, <1>6, <2>1, ScoreForm
<1>7. ASSUME NEW q \in Selectors, SelectFails(q) PROVE SelInv'
  <2>1. /\ instruments' = instruments /\ now' = now /\ candles' = candles /\ runs' = runs
        /\ sel' = [sel EXCEPT ![q] = NoSel]
    BY <1>7 DEF SelectFails, syncVars
  <2> QED BY <1>2, <2>1, NoSelOK
<1>8. ASSUME NEW q \in Selectors, Save(q) PROVE SelInv'
  <2>1. /\ sel[q].pc = "score" /\ sel[q].todo = {} /\ sel' = [sel EXCEPT ![q] = NoSel]
        /\ instruments' = instruments /\ now' = now /\ candles' = candles
        /\ runs' = runs \/ runs' = Append(runs, Run(sel[q]))
    BY <1>8 DEF Save, syncVars
  <2>2. CASE runs' = runs BY <1>2, <2>1, <2>2, NoSelOK
  <2>3. CASE runs' = Append(runs, Run(sel[q]))
    <3>1. RunOK(Run(sel[q]), instruments, candles) BY <2>1, RunForm DEF SelInv
    <3>2. /\ \E S : runs' \in Seq(S)
          /\ \A n \in DOMAIN runs' : RunOK(runs'[n], instruments, candles)
      BY <2>3, <3>1, OneRun
    <3>3. /\ sel' = [p \in Selectors |-> sel'[p]]
          /\ \A p \in Selectors : SelOK(sel'[p], instruments, candles)
      BY <2>1, NoSelOK, OneSel
    <3> QED BY <1>3, <2>1, <3>2, <3>3 DEF SelInv
  <2> QED BY <2>1, <2>2, <2>3
<1>9. ASSUME NEW c \in Feed, StoreCandle(c) PROVE SelInv'
  <2>1. /\ instruments' = instruments /\ now' = now /\ candles' = candles \cup {c}
        /\ sel' = sel /\ runs' = runs
    BY <1>9 DEF StoreCandle, syncVars
  <2>2. c \in (STRING \X Nat) \X Nat BY UniverseAssumption
  <2>3. IsFiniteSet(candles') BY <1>3, <2>1, FS_AddElement
  <2> QED BY <1>1, <1>3, <2>1, <2>2, <2>3
<1>10. ASSUME Tick PROVE SelInv'
  <2>1. /\ instruments' = instruments /\ now' = now + 1 /\ candles' = candles
        /\ sel' = sel /\ runs' = runs
    BY <1>10 DEF Tick, syncVars
  <2>2. now' \in Nat BY <1>3, <2>1
  <2> QED BY <1>1, <1>3, <2>1, <2>2
<1> QED BY <1>4, <1>5, <1>6, <1>7, <1>8, <1>9, <1>10 DEF Next

-----------------------------------------------------------------------------
(* The theorems. *)

\* The invariant holds at first.
LEMMA InvInit ==
    ASSUME Init
    PROVE  SyncInv /\ SelInv
<1>1. /\ instruments \in InitialTables /\ sync = [q \in Requests |-> NoSync] /\ begun = 0
      /\ now = FirstNow /\ candles = InitialCandles /\ sel = [q \in Selectors |-> NoSel]
      /\ runs = <<>>
  BY DEF Init, SyncInit
<1>2. SyncInv
  <2>1. \A q \in Requests : sync[q] = NoSync BY <1>1
  <2>2. \A q \in Requests : SyncOK(sync[q], instruments) BY <2>1, NoSyncOK
  <2>3. /\ \A k \in DOMAIN instruments : instruments[k].active \in BOOLEAN
        /\ DOMAIN instruments \subseteq STRING \X Nat
    BY <1>1, TableAssumption
  <2> QED BY <1>1, <2>1, <2>2, <2>3 DEF SyncInv
<1>3. SelInv
  <2>1. now \in Nat /\ candles \subseteq (STRING \X Nat) \X Nat /\ IsFiniteSet(candles)
    BY <1>1, UniverseAssumption
  <2>2. \A q \in Selectors : SelOK(sel[q], instruments, candles) BY <1>1, NoSelOK
  <2>3. runs \in Seq({}) /\ DOMAIN runs = {} BY <1>1
  <2> QED BY <1>1, <2>1, <2>2, <2>3 DEF SelInv
<1> QED BY <1>2, <1>3

\* And in every reachable state.
LEMMA InvAlways == Spec => [](SyncInv /\ SelInv)
<1>1. Init => SyncInv /\ SelInv BY InvInit
<1>2. SyncInv /\ SelInv /\ [Next]_vars => (SyncInv /\ SelInv)'
  <2> SUFFICES ASSUME SyncInv, SelInv, [Next]_vars PROVE SyncInv' /\ SelInv' OBVIOUS
  <2>1. CASE Next BY <2>1, SyncStep, SelStep
  <2>2. CASE UNCHANGED vars
    <3>1. /\ instruments' = instruments /\ sync' = sync /\ begun' = begun /\ now' = now
          /\ candles' = candles /\ sel' = sel /\ runs' = runs
      BY <2>2 DEF vars, syncVars, selVars
    <3> QED BY <3>1 DEF SyncInv, SelInv
  <2> QED BY <2>1, <2>2
<1> QED BY <1>1, <1>2, PTL DEF Spec

\* upsert_instruments: what a sync reports is what the table shows, whatever other syncs do
\* to the table and to its transaction.
THEOREM HonestSync == Spec => []SyncReportIsHonest
<1>1. ASSUME SyncInv PROVE SyncReportIsHonest
  <2> SUFFICES ASSUME NEW q \in Requests, sync[q].pc = "validate"
               PROVE  LET s == sync[q]
                      IN  /\ s.inserted + s.updated + s.skipped + s.failed = Len(s.dump)
                          /\ s.failed = 0 => StoredItems(s, instruments) = Items(s)
                          /\ s.aborted => s.failed > 0
                          /\ ~s.aborted =>
                                s.inserted + s.updated <= Cardinality(StoredItems(s, instruments))
    BY DEF SyncReportIsHonest, StoredItems, Items
  <2> DEFINE s == sync[q]
  <2>1. SyncType(s) /\ Counts(s) /\ Stored(s, instruments) BY <1>1 DEF SyncInv, SyncOK
  <2>2. Len(s.dump) \in Nat BY <2>1, ItemsFinite
  <2>3. /\ s.inserted + s.updated + s.skipped + s.failed = s.next - 1
        /\ s.next = Len(s.dump) + 1 /\ (s.aborted => s.failed > 0)
    BY <2>1 DEF Counts
  <2>4. s.next - 1 = Len(s.dump) BY <2>2, <2>3
  <2> QED BY <2>1, <2>3, <2>4 DEF Stored
<1> QED BY <1>1, InvAlways, PTL

\* start_stream: what its readiness check lets through the stream service can parse and
\* resolve, though syncs may commit in between.
THEOREM GateSound == Spec => []GateImpliesStart
<1>1. ASSUME SyncInv PROVE GateImpliesStart
  BY <1>1 DEF SyncInv, SyncOK, Stored, GateImpliesStart
<1> QED BY <1>1, InvAlways, PTL

\* The errors of stream readiness.
LEMMA KnownErrors ==
    ASSUME NEW lines, NEW readable, NEW table, NEW env
    PROVE  ReadinessErrors(lines, readable, table, env) \subseteq
              {"empty", "format", "duplicate", "non_nse", "max_not_positive", "over_limit",
               "unreadable", "not_synced", "inactive", "disabled", "websocket_disabled",
               "mode", "session"}
BY DEF ReadinessErrors, ValidationErrors, SourceErrors, DiagnosisErrors, If

\* watchlist_validation.py, watchlist.py and stream_readiness.py: on every watchlist and
\* every table what is ready for the stream is accepted and resolved; diagnosis and strict
\* parser differ only on lines with commas or several colons; and the recommended action
\* follows the errors.
THEOREM DiagnosisSound == Spec => []ReadinessAgreesWithStart
<1>1. ASSUME SyncInv PROVE ReadinessAgreesWithStart
  <2> SUFFICES ASSUME begun = 0, NEW lines \in Watchlists, NEW readable \in BOOLEAN
               PROVE  /\ ReadyForStream(lines, readable, instruments) =>
                            /\ readable /\ StrictAccepts(lines)
                            /\ Resolved(StrictSymbols(lines), instruments) = StrictSymbols(lines)
                      /\ ReadyForSync(lines, readable) =>
                            (readable /\ StrictAccepts(lines))
                            \/ \E i \in DOMAIN lines : Len(lines[i]) > 1
                      /\ (readable /\ StrictAccepts(lines)) =>
                            \/ ReadyForSync(lines, readable)
                            \/ \E i \in DOMAIN lines : Len(lines[i]) > 1
                            \/ \E i \in DOMAIN lines : \E j \in DOMAIN lines[i] : lines[i][j].colons > 1
                      /\ \A env \in Envs :
                            LET errors == ReadinessErrors(lines, readable, instruments, env)
                            IN  /\ RecommendedAction(errors, env) = "ready_to_start_stream" <=>
                                      ~env.running /\ errors \subseteq
                                         {"empty", "unreadable", "max_not_positive"}
                                /\ Ready(errors, env) => RecommendedAction(errors, env) \in
                                      {"ready_to_start_stream", "stream_already_running"}
    BY DEF ReadinessAgreesWithStart
  <2>1. lines \in Seq(Line) BY InstrumentSyncAssumption
  <2>2. DOMAIN instruments \subseteq STRING \X Nat BY <1>1 DEF SyncInv
  <2>3. ReadyForSync(lines, readable) <=> readable /\ DiagnosisErrors(lines) = {}
    <3>1. CASE readable BY <3>1 DEF ReadyForSync, SourceErrors, Loaded, If
    <3>2. CASE ~readable BY <3>2 DEF ReadyForSync, SourceErrors, If
    <3> QED BY <3>1, <3>2
  <2>c. Single(lines) \/ \E i \in DOMAIN lines : Len(lines[i]) > 1
    <3>1. \A i \in DOMAIN lines : Len(lines[i]) \in Nat \ {0} BY <2>1, PartFacts
    <3>2. ASSUME NEW i \in DOMAIN lines, Len(lines[i]) # 1 PROVE Len(lines[i]) > 1
      <4>1. PICK n \in Nat \ {0} : n = Len(lines[i]) BY <3>1
      <4>2. n # 1 => n > 1 OBVIOUS
      <4> QED BY <3>2, <4>1, <4>2, Zenon
    <3> QED BY <3>2, Zenon DEF Single
  <2>4. ASSUME ReadyForSync(lines, readable), Single(lines) PROVE readable /\ StrictAccepts(lines)
    BY <2>1, <2>3, <2>4, DiagnosedAccepted
  <2>5. ASSUME readable, StrictAccepts(lines), ~ReadyForSync(lines, readable), Single(lines)
        PROVE  \E i \in DOMAIN lines : \E j \in DOMAIN lines[i] : lines[i][j].colons > 1
    BY <2>1, <2>3, <2>5, AcceptedDiagnosed
  <2>6. ASSUME ReadyForStream(lines, readable, instruments)
        PROVE  /\ readable /\ StrictAccepts(lines)
               /\ Resolved(StrictSymbols(lines), instruments) = StrictSymbols(lines)
    BY <2>1, <2>2, <2>6, ReadyAccepted
  <2>7. ASSUME NEW env \in Envs, NEW errors,
               errors = ReadinessErrors(lines, readable, instruments, env)
        PROVE  /\ RecommendedAction(errors, env) = "ready_to_start_stream" <=>
                     ~env.running /\ errors \subseteq {"empty", "unreadable", "max_not_positive"}
               /\ Ready(errors, env) => RecommendedAction(errors, env) \in
                     {"ready_to_start_stream", "stream_already_running"}
    <3>1. errors \subseteq {"empty", "format", "duplicate", "non_nse", "max_not_positive",
                            "over_limit", "unreadable", "not_synced", "inactive", "disabled",
                            "websocket_disabled", "mode", "session"}
      BY <2>7, KnownErrors
    <3> QED BY <3>1, StartRecommended
  <2> QED BY <2>c, <2>4, <2>5, <2>6, <2>7
<1> QED BY <1>1, InvAlways, PTL

\* UniverseSelectionService.select: the validation, the scoring of one symbol after the
\* other and the ranking lose no entry of the pool, unless the exclusions were not asked
\* for, rank nothing that is not eligible and lose no place of the limit.
THEOREM NothingLost == Spec => []PoolAccountedFor
<1>1. ASSUME SelInv PROVE PoolAccountedFor
  <2>1. \A n \in DOMAIN runs : Accounted(runs[n]) BY <1>1 DEF SelInv, RunOK
  <2> QED BY <2>1 DEF PoolAccountedFor, Accounted, Place, Admitted
<1> QED BY <1>1, InvAlways, PTL

\* score_symbol: a symbol that was selected on its current session has every candle from
\* the open on, though candles arrive in any order and between the steps of the selection.
THEOREM FullSessions == Spec => []SelectedHaveFullSession
<1>1. ASSUME SelInv PROVE SelectedHaveFullSession
  <2>1. \A n \in DOMAIN runs : \A k \in runs[n].selected :
           Full(Bars(k, candles), runs[n].params, runs[n].started)
    BY <1>1 DEF SelInv, RunOK
  <2>2. \A k : LoadCompletedBars(k) = Bars(k, candles) BY DEF LoadCompletedBars, Bars
  <2> HIDE DEF Bars
  <2> QED BY <2>1, <2>2 DEF SelectedHaveFullSession, Full
<1> QED BY <1>1, InvAlways, PTL

\* upsert_instruments and select: later syncs leave the symbols of a stored selection
\* their active rows.
THEOREM SelectionResolvable == Spec => []SelectionStaysResolvable
<1>1. ASSUME SelInv PROVE SelectionStaysResolvable
  <2>1. RequireActive => \A n \in DOMAIN runs : \A k \in runs[n].selected :
           k \in DOMAIN instruments /\ instruments[k].active
    BY <1>1 DEF SelInv, RunOK
  <2> QED BY <2>1 DEF SelectionStaysResolvable, Resolved
<1> QED BY <1>1, InvAlways, PTL

=============================================================================
