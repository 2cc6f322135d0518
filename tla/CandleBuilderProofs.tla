------------------------ MODULE CandleBuilderProofs ------------------------
(***************************************************************************)
(* Theorems about CandleBuilder: for any instruments, prices, cumulative   *)
(* volumes, length of a minute and number of ticks, gaps and flushes.      *)
(***************************************************************************)
EXTENDS CandleBuilder, FiniteSetTheorems, WellFoundedInduction, TLAPS

-----------------------------------------------------------------------------
(* Numbers: the extrema that Max and Min select, and the minutes. *)

\* A nonempty set of naturals has a least member.
LEMMA LeastNat ==
    ASSUME NEW T, T \subseteq Nat, T # {}
    PROVE  \E m \in T : \A y \in T : m <= y
<1> DEFINE Less == OpToRel(<, Nat)
<1>1. Less = {ss \in Nat \X Nat : ss[1] < ss[2]} BY Zenon DEF OpToRel
<1>2. \A y, z \in Nat : y < z => <<y, z>> \in Less BY <1>1
<1>3. IsWellFoundedOn(Less, Nat) BY NatLessThanWellFounded
<1> HIDE DEF Less
<1>4. PICK m \in T : \A y \in T : ~(<<y, m>> \in Less) BY <1>3, WFMin
<1>5. \A y \in T : ~(y < m) BY <1>2, <1>4
<1> QED BY <1>5

\* A bounded one has a greatest.
LEMMA GreatestNat ==
    ASSUME NEW T, T \subseteq Nat, T # {}, NEW b \in Nat, \A u \in T : u <= b
    PROVE  \E m \in T : \A u \in T : u <= m
<1> DEFINE D == {n \in Nat : \A u \in T : u <= n}
<1>1. D \subseteq Nat /\ b \in D OBVIOUS
<1>2. PICK m \in D : \A n \in D : m <= n
  <2> HIDE DEF D
  <2> QED BY <1>1, LeastNat
<1>3. m \in Nat /\ \A u \in T : u <= m OBVIOUS
<1>4. m \in T
  <2> SUFFICES ASSUME m \notin T PROVE FALSE OBVIOUS
  <2>1. \A u \in T : u \in Nat /\ u <= m /\ u # m BY <1>3
  <2>2. PICK v \in T : TRUE OBVIOUS
  <2>3. m - 1 \in D BY <1>3, <2>1, <2>2
  <2> QED BY <1>2, <1>3, <2>3
<1> QED BY <1>3, <1>4

\* Max is the member that no other exceeds, Min the one that exceeds no other.
LEMMA MaxIs ==
    ASSUME NEW T, T \subseteq Int, NEW m \in T, \A u \in T : u <= m
    PROVE  Max(T) = m
<1>1. Max(T) \in T /\ \A u \in T : Max(T) >= u BY DEF Max
<1>2. Max(T) \in Int /\ m \in Int BY <1>1
<1>3. Max(T) <= m /\ m <= Max(T) BY <1>1, <1>2
<1> QED BY <1>2, <1>3

LEMMA MinIs ==
    ASSUME NEW T, T \subseteq Int, NEW m \in T, \A u \in T : m <= u
    PROVE  Min(T) = m
<1>1. Min(T) \in T /\ \A u \in T : Min(T) <= u BY DEF Min
<1>2. Min(T) \in Int /\ m \in Int BY <1>1
<1>3. Min(T) <= m /\ m <= Min(T) BY <1>1, <1>2
<1> QED BY <1>2, <1>3

LEMMA MaxBounds ==
    ASSUME NEW T, T \subseteq Nat, T # {}, NEW b \in Nat, \A u \in T : u <= b
    PROVE  Max(T) \in T /\ \A u \in T : u <= Max(T)
<1>1. PICK m \in T : \A u \in T : u <= m BY GreatestNat
<1>2. T \subseteq Int OBVIOUS
<1>3. Max(T) = m BY <1>1, <1>2, MaxIs
<1> QED BY <1>1, <1>3

\* A later second is in no earlier minute.
LEMMA MinuteMonotone ==
    ASSUME NEW a \in Nat, NEW b \in Nat, a <= b
    PROVE  Minute(a) \in Nat /\ Minute(b) \in Nat /\ Minute(a) <= Minute(b)
<1> DEFINE m == SecondsPerMinute
           p == a \div m
           q == b \div m
<1>0. m \in Nat \ {0} BY BuilderAssumption
<1>1. /\ p \in Nat /\ q \in Nat /\ a % m \in 0 .. m - 1 /\ b % m \in 0 .. m - 1
      /\ a = m * p + (a % m) /\ b = m * q + (b % m)
  BY <1>0
<1>5. p = Minute(a) /\ q = Minute(b) BY DEF Minute
<1> HIDE DEF p, q, m
<1>2. CASE p <= q BY <1>1, <1>2, <1>5
<1>3. CASE q + 1 <= p
  <2>1. m * (q + 1) <= m * p BY <1>0, <1>1, <1>3
  <2>2. m * (q + 1) = m * q + m BY <1>0, <1>1
  <2>3. m * q \in Int /\ m * p \in Int BY <1>0, <1>1
  <2> QED BY <1>0, <1>1, <2>1, <2>2, <2>3
<1> QED BY <1>1, <1>2, <1>3

-----------------------------------------------------------------------------
(* What a log says of a minute, without the extrema of ReferenceCandle. *)

LogEntry == Tick \cup {Gap}

TicksOf(L, m) == {i \in DOMAIN L : L[i] # Gap /\ Minute(L[i].at) = m}

\* f and l are the first and the last tick of the minute.
Spans(L, m, f, l) ==
    /\ f \in TicksOf(L, m) /\ l \in TicksOf(L, m)
    /\ \A i \in TicksOf(L, m) : f <= i /\ i <= l

\* v is the last event up to the i-th with a cumulative volume.
LastVolumeBy(L, v, i) ==
    /\ v \in 1 .. i
    /\ L[v].volume # None
    /\ \A j \in v + 1 .. i : L[j].volume = None

\* Of a minute from f to l, with the volume known at u before it and at v in
\* its end, c is the candle, and no gap interrupts it.
Describes(L, c, f, l, u, v) ==
    /\ Spans(L, c.minute, f, l)
    /\ c.open = L[f].price /\ c.close = L[l].price
    /\ \E i \in TicksOf(L, c.minute) : c.high = L[i].price
    /\ \E i \in TicksOf(L, c.minute) : c.low = L[i].price
    /\ \A i \in TicksOf(L, c.minute) : c.low <= L[i].price /\ L[i].price <= c.high
    /\ LastVolumeBy(L, u, f - 1)
    /\ LastVolumeBy(L, v, l)
    /\ \A g \in u .. l : L[g] # Gap
    /\ c.volume = L[v].volume - L[u].volume

Whole(L, c) == \E f, l, u, v \in DOMAIN L : Describes(L, c, f, l, u, v)

\* An entry of a log is a tick or a gap, which is none.
LEMMA EntryKinds ==
    ASSUME NEW L \in Seq(LogEntry), NEW i \in DOMAIN L
    PROVE  /\ i \in Nat /\ 1 <= i /\ i <= Len(L)
           /\ L[i] # Gap => L[i] \in Tick
           /\ L[i] \in Tick => L[i] # Gap
           /\ L[i].at \in Nat \cup {None} /\ L[i].volume \in Nat \cup {None}
           /\ L[i] # Gap => L[i].at \in Nat /\ L[i].price \in Nat
           /\ L[i] # Gap => L[i].price \in Prices
           /\ L[i] = Gap => L[i].at = None /\ L[i].volume = None
<1>1. L[i] \in LogEntry /\ i \in Nat /\ 1 <= i /\ i <= Len(L) OBVIOUS
<1>2. Gap \notin Tick BY DEF Gap, Tick, None
<1>3. CASE L[i] = Gap BY <1>1, <1>2, <1>3 DEF Gap, None
<1>4. CASE L[i] \in Tick
  <2>1. /\ L[i].at \in Nat /\ L[i].price \in Prices
        /\ L[i].volume \in RawVolumes \cup {None}
    BY <1>4 DEF Tick
  <2> QED BY <1>1, <1>2, <1>4, <2>1, BuilderAssumption
<1> QED BY <1>1, <1>3, <1>4 DEF LogEntry

\* The last known volume is what VolumeAt finds.
LEMMA VolumeAtIs ==
    ASSUME NEW k \in Tokens, log[k] \in Seq(LogEntry), NEW i \in Nat, NEW v,
           LastVolumeBy(log[k], v, i)
    PROVE  VolumeAt(k, i) = log[k][v].volume
<1> DEFINE T == {j \in 1 .. i : log[k][j].volume # None}
<1>1. T \subseteq Int /\ v \in T BY DEF LastVolumeBy
<1>2. \A j \in T : j <= v BY DEF LastVolumeBy
<1>3. Max(T) = v
  <2> HIDE DEF T
  <2> QED BY <1>1, <1>2, MaxIs
<1> QED BY <1>3 DEF VolumeAt

\* A whole candle is the candle ReferenceCandle finds, and its minute is one
\* that OnlyWholeMinutes allows.
LEMMA WholeIsReference ==
    ASSUME NEW k \in Tokens, log[k] \in Seq(LogEntry), NEW c \in Candle,
           Whole(log[k], c)
    PROVE  /\ c = ReferenceCandle(k, c.minute)
           /\ \A g \in DOMAIN log[k] : log[k][g] = Gap =>
                  \/ \A i \in OfMinute(k, c.minute) : i < g
                  \/ \A i \in OfMinute(k, c.minute) : g < i
           /\ \E i \in 1 .. Min(OfMinute(k, c.minute)) - 1 :
                  /\ log[k][i].volume # None
                  /\ \A g \in i .. Min(OfMinute(k, c.minute)) : log[k][g] # Gap
<1> DEFINE L == log[k]
           ticks == OfMinute(k, c.minute)
           prices == {log[k][i].price : i \in ticks}
<1>1. PICK f \in DOMAIN L, l \in DOMAIN L, u \in DOMAIN L, v \in DOMAIN L :
          Describes(L, c, f, l, u, v)
  BY DEF Whole
<1>2. ticks = TicksOf(L, c.minute) BY DEF OfMinute, TicksOf
<1>3. /\ f \in ticks /\ l \in ticks /\ ticks \subseteq Int
      /\ \A i \in ticks : f <= i /\ i <= l /\ i \in Nat
  <2>1. Spans(L, c.minute, f, l) BY <1>1 DEF Describes
  <2>2. f \in ticks /\ l \in ticks /\ \A i \in ticks : f <= i /\ i <= l
    BY <1>2, <2>1 DEF Spans
  <2>3. \A i \in ticks : i \in DOMAIN L BY <1>2 DEF TicksOf
  <2>4. \A i \in DOMAIN L : i \in Nat BY EntryKinds
  <2> QED BY <2>2, <2>3, <2>4
<1>4. Min(ticks) = f /\ Max(ticks) = l
  <2> HIDE DEF ticks
  <2> QED BY <1>3, MinIs, MaxIs
<1>5. prices \subseteq Int BY <1>2, EntryKinds DEF TicksOf
<1>6. c.high \in prices /\ c.low \in prices /\ \A p \in prices : c.low <= p /\ p <= c.high
  BY <1>1, <1>2 DEF Describes
<1>7. Max(prices) = c.high /\ Min(prices) = c.low
  <2> HIDE DEF prices
  <2> QED BY <1>5, <1>6, MaxIs, MinIs
<1>8. f \in Nat /\ l \in Nat /\ f - 1 \in Nat /\ u \in 1 .. f - 1 /\ f <= l
  <2>1. LastVolumeBy(L, u, f - 1) BY <1>1 DEF Describes
  <2>2. u \in 1 .. f - 1 BY <2>1 DEF LastVolumeBy
  <2>3. f \in Nat /\ l \in Nat /\ f <= l BY <1>3
  <2> QED BY <2>2, <2>3
<1>9. VolumeAt(k, f - 1) = L[u].volume
  BY <1>1, <1>8, VolumeAtIs DEF Describes
<1>10. VolumeAt(k, l) = L[v].volume
  BY <1>1, <1>8, VolumeAtIs DEF Describes
<1>11. ReferenceCandle(k, c.minute) =
         [minute |-> c.minute, open |-> c.open, high |-> c.high, low |-> c.low,
          close |-> c.close, volume |-> c.volume]
  <2>1. ReferenceCandle(k, c.minute) =
          [minute |-> c.minute, open |-> L[Min(ticks)].price,
           high |-> Max(prices), low |-> Min(prices), close |-> L[Max(ticks)].price,
           volume |-> VolumeAt(k, Max(ticks)) - VolumeAt(k, Min(ticks) - 1)]
    BY DEF ReferenceCandle
  <2> HIDE DEF ticks, prices
  <2> QED BY <1>1, <1>4, <1>7, <1>9, <1>10, <2>1 DEF Describes
<1>12. c = ReferenceCandle(k, c.minute) BY <1>11 DEF Candle
<1>13. \A g \in u .. l : L[g] # Gap BY <1>1 DEF Describes
<1>14. \A g \in DOMAIN L : L[g] = Gap => g < u \/ l < g
  BY <1>8, <1>13, EntryKinds
<1>15. ASSUME NEW g \in DOMAIN L, L[g] = Gap
       PROVE  (\A i \in ticks : i < g) \/ (\A i \in ticks : g < i)
  <2>1. g \in Nat BY EntryKinds
  <2> HIDE DEF ticks
  <2> QED BY <1>3, <1>8, <1>14, <1>15, <2>1
<1>16. /\ L[u].volume # None /\ u \in 1 .. f - 1
       /\ \A g \in u .. f : L[g] # Gap
  BY <1>1, <1>8, <1>13 DEF Describes, LastVolumeBy
<1> HIDE DEF ticks
<1> QED BY <1>4, <1>12, <1>15, <1>16 DEF ticks

-----------------------------------------------------------------------------
(* What a tick or a gap at the end of a log does to the candle of a minute. *)

\* The last tick with a volume has the builder's baseline, and no gap follows it.
Baseline(L, volume) ==
    volume # None =>
        \E v \in DOMAIN L :
            /\ L[v].volume = volume
            /\ \A j \in v + 1 .. Len(L) : L[j].volume = None
            /\ \A j \in v .. Len(L) : L[j] # Gap

LEMMA TickFacts ==
    ASSUME NEW x \in Tick
    PROVE  /\ x \in LogEntry /\ x # Gap /\ x.at \in Nat /\ x.price \in Prices
           /\ x.price \in Nat /\ x.volume \in Nat \cup {None}
<1>1. x.at \in Nat /\ x.price \in Prices /\ x.volume \in RawVolumes \cup {None}
  BY DEF Tick
<1>2. x # Gap BY <1>1 DEF Gap, None
<1> QED BY <1>1, <1>2, BuilderAssumption DEF LogEntry

LEMMA AppendEntry ==
    ASSUME NEW L \in Seq(LogEntry), NEW x \in LogEntry
    PROVE  /\ Append(L, x) \in Seq(LogEntry)
           /\ Len(L) \in Nat /\ Len(Append(L, x)) = Len(L) + 1
           /\ DOMAIN L = 1 .. Len(L) /\ DOMAIN Append(L, x) = 1 .. Len(L) + 1
           /\ \A i \in 1 .. Len(L) : Append(L, x)[i] = L[i]
           /\ Append(L, x)[Len(L) + 1] = x
  OBVIOUS

\* An event of another minute leaves the ticks of a minute alone.
LEMMA OtherTicks ==
    ASSUME NEW L \in Seq(LogEntry), NEW x \in LogEntry, NEW m,
           x = Gap \/ Minute(x.at) # m
    PROVE  TicksOf(Append(L, x), m) = TicksOf(L, m)
  BY AppendEntry DEF TicksOf

LEMMA SameTicks ==
    ASSUME NEW L \in Seq(LogEntry), NEW x \in LogEntry, x # Gap
    PROVE  TicksOf(Append(L, x), Minute(x.at)) = TicksOf(L, Minute(x.at)) \cup {Len(L) + 1}
  BY AppendEntry DEF TicksOf

\* A candle that was whole stays so.
LEMMA WholeKept ==
    ASSUME NEW L \in Seq(LogEntry), NEW x \in LogEntry, NEW c,
           x = Gap \/ Minute(x.at) # c.minute, Whole(L, c)
    PROVE  Whole(Append(L, x), c)
<1> DEFINE M == Append(L, x)
<1>1. PICK f \in DOMAIN L, l \in DOMAIN L, u \in DOMAIN L, v \in DOMAIN L :
          Describes(L, c, f, l, u, v)
  BY DEF Whole
<1>2. TicksOf(M, c.minute) = TicksOf(L, c.minute) BY OtherTicks
<1>3. /\ DOMAIN L = 1 .. Len(L) /\ DOMAIN M = 1 .. Len(L) + 1 /\ Len(L) \in Nat
      /\ \A i \in 1 .. Len(L) : M[i] = L[i]
  BY AppendEntry
<1> HIDE DEF M
<1>4. \A i \in TicksOf(L, c.minute) : M[i] = L[i] BY <1>3 DEF TicksOf
<1>5. u \in 1 .. f - 1 /\ v \in 1 .. l BY <1>1 DEF Describes, LastVolumeBy
<1>6. \A i \in 1 .. l : M[i] = L[i] BY <1>3
<1>7. f <= l BY <1>1 DEF Describes, Spans
<1>8. LastVolumeBy(M, u, f - 1) /\ LastVolumeBy(M, v, l)
  <2>1. LastVolumeBy(L, u, f - 1) /\ LastVolumeBy(L, v, l) BY <1>1 DEF Describes
  <2>2. \A i \in 1 .. f - 1 : M[i] = L[i] BY <1>3, <1>6, <1>7
  <2>3. \A j \in u + 1 .. f - 1 : j \in 1 .. f - 1 BY <1>3, <1>5
  <2>4. \A j \in v + 1 .. l : j \in 1 .. l BY <1>3, <1>5
  <2>5. LastVolumeBy(M, u, f - 1) BY <2>1, <2>2, <2>3 DEF LastVolumeBy
  <2>6. LastVolumeBy(M, v, l) BY <2>1, <2>4, <1>6 DEF LastVolumeBy
  <2> QED BY <2>5, <2>6
<1>9. \A g \in u .. l : M[g] # Gap BY <1>1, <1>3, <1>5, <1>6 DEF Describes
<1>10. Describes(M, c, f, l, u, v)
  BY <1>1, <1>2, <1>3, <1>4, <1>8, <1>9 DEF Describes, Spans
<1>11. f \in DOMAIN M /\ l \in DOMAIN M /\ u \in DOMAIN M /\ v \in DOMAIN M BY <1>3
<1> QED BY <1>10, <1>11 DEF Whole, M

\* The first tick of a minute starts a whole candle if a volume is known.
LEMMA WholeStarts ==
    ASSUME NEW L \in Seq(LogEntry), NEW x \in Tick, NEW c \in Candle, NEW volume \in Nat,
           Baseline(L, volume), TicksOf(L, Minute(x.at)) = {},
           c.minute = Minute(x.at), c.open = x.price, c.high = x.price,
           c.low = x.price, c.close = x.price,
           c.volume = (IF x.volume = None THEN 0 ELSE x.volume - volume)
    PROVE  Whole(Append(L, x), c)
<1> DEFINE M == Append(L, x)
           n == Len(L) + 1
<1>0. x \in LogEntry /\ x # Gap /\ x.price \in Nat /\ x.volume \in Nat \cup {None}
  BY TickFacts
<1>1. /\ M \in Seq(LogEntry) /\ Len(L) \in Nat /\ DOMAIN L = 1 .. Len(L)
      /\ DOMAIN M = 1 .. n /\ n \in Nat /\ n - 1 = Len(L)
      /\ \A i \in 1 .. Len(L) : M[i] = L[i]
      /\ M[n] = x
  BY <1>0, AppendEntry
<1>2. PICK u \in DOMAIN L : /\ L[u].volume = volume
                            /\ \A j \in u + 1 .. Len(L) : L[j].volume = None
                            /\ \A j \in u .. Len(L) : L[j] # Gap
  BY DEF Baseline, None
<1>3. TicksOf(M, c.minute) = {n} BY <1>0, SameTicks
<1> HIDE DEF M, n
<1>4. n \in DOMAIN M /\ u \in DOMAIN M /\ u \in 1 .. n - 1 BY <1>1
<1>5. M[u].volume = volume /\ volume # None BY <1>1, <1>2 DEF None
<1>6. \A j \in u + 1 .. n - 1 : M[j].volume = None BY <1>1, <1>2
<1>7. LastVolumeBy(M, u, n - 1) BY <1>4, <1>5, <1>6 DEF LastVolumeBy
<1>8. \A g \in u .. n : M[g] # Gap BY <1>0, <1>1, <1>2
<1>9. Spans(M, c.minute, n, n) BY <1>1, <1>3 DEF Spans
<1>10. CASE x.volume = None
  <2>1. LastVolumeBy(M, u, n) BY <1>1, <1>4, <1>5, <1>6, <1>10 DEF LastVolumeBy
  <2>2. c.volume = M[u].volume - M[u].volume BY <1>5, <1>10
  <2>3. Describes(M, c, n, n, u, u)
    BY <1>0, <1>1, <1>3, <1>7, <1>8, <1>9, <2>1, <2>2 DEF Describes
  <2> QED BY <1>4, <2>3 DEF Whole, M
<1>11. CASE x.volume # None
  <2>1. LastVolumeBy(M, n, n) BY <1>1, <1>4, <1>11 DEF LastVolumeBy
  <2>2. c.volume = M[n].volume - M[u].volume BY <1>1, <1>5, <1>11
  <2>3. Describes(M, c, n, n, u, n)
    BY <1>0, <1>1, <1>3, <1>7, <1>8, <1>9, <2>1, <2>2 DEF Describes
  <2> QED BY <1>4, <2>3 DEF Whole, M
<1> QED BY <1>10, <1>11

LEMMA Between ==
    ASSUME NEW a \in Nat, NEW b \in Nat, NEW c \in Nat, NEW d \in Nat, NEW p \in Nat,
           a <= c, c <= p, p <= d, d <= b
    PROVE  a <= p /\ p <= b
  OBVIOUS

\* A further tick of the minute extends a whole candle.
LEMMA WholeGrows ==
    ASSUME NEW L \in Seq(LogEntry), NEW x \in Tick, NEW c \in Candle, NEW d \in Candle,
           NEW volume \in Nat \cup {None}, Baseline(L, volume),
           L # <<>>, L[Len(L)] # Gap, Minute(L[Len(L)].at) = Minute(x.at),
           c.minute = Minute(x.at), Whole(L, c),
           x.volume # None => volume # None,
           d.minute = c.minute, d.open = c.open, d.close = x.price,
           d.high = (IF x.price > c.high THEN x.price ELSE c.high),
           d.low = (IF x.price < c.low THEN x.price ELSE c.low),
           d.volume = (IF x.volume = None THEN c.volume ELSE c.volume + (x.volume - volume))
    PROVE  Whole(Append(L, x), d)
<1> DEFINE M == Append(L, x)
           n == Len(L) + 1
           m == c.minute
<1>0. x \in LogEntry /\ x # Gap /\ x.price \in Nat /\ x.volume \in Nat \cup {None}
  BY TickFacts
<1>1. /\ M \in Seq(LogEntry) /\ Len(L) \in Nat /\ DOMAIN L = 1 .. Len(L)
      /\ DOMAIN M = 1 .. n /\ n \in Nat /\ n - 1 = Len(L)
      /\ \A i \in 1 .. Len(L) : M[i] = L[i]
      /\ M[n] = x
  BY <1>0, AppendEntry
<1>2. PICK f \in DOMAIN L, l \in DOMAIN L, u \in DOMAIN L, v \in DOMAIN L :
          Describes(L, c, f, l, u, v)
  BY DEF Whole
<1>3. Len(L) \in DOMAIN L BY <1>1
<1>4. l = Len(L)
  <2>1. Len(L) \in TicksOf(L, m) BY <1>3 DEF TicksOf
  <2> QED BY <1>1, <1>2, <2>1 DEF Describes, Spans
<1>5. TicksOf(M, m) = TicksOf(L, m) \cup {n} BY <1>0, SameTicks
<1> HIDE DEF M, n
<1>6. f \in TicksOf(L, m) /\ \A i \in TicksOf(L, m) : f <= i /\ i <= n /\ M[i] = L[i]
  BY <1>1, <1>2 DEF Describes, Spans, TicksOf
<1>7. Spans(M, m, f, n) BY <1>1, <1>5, <1>6 DEF Spans
<1>8. u \in 1 .. f - 1 /\ v \in 1 .. l BY <1>2 DEF Describes, LastVolumeBy
<1>9. LastVolumeBy(M, u, f - 1)
  <2>1. LastVolumeBy(L, u, f - 1) BY <1>2 DEF Describes
  <2>2. \A j \in 1 .. f - 1 : M[j] = L[j] BY <1>1
  <2>3. M[u] = L[u] /\ \A j \in u + 1 .. f - 1 : M[j] = L[j] BY <1>8, <2>2
  <2> QED BY <2>1, <2>3 DEF LastVolumeBy
<1>10. \A g \in u .. n : M[g] # Gap
  BY <1>0, <1>1, <1>2, <1>4, <1>8 DEF Describes
<1>11. /\ d.minute = m /\ d.open = M[f].price /\ d.close = M[n].price
  BY <1>1, <1>2 DEF Describes
<1>12. c.high \in Nat /\ c.low \in Nat BY BuilderAssumption DEF Candle
<1>13. /\ \E i \in TicksOf(M, m) : d.high = M[i].price
       /\ \E i \in TicksOf(M, m) : d.low = M[i].price
  BY <1>1, <1>2, <1>5, <1>6 DEF Describes
<1>14. \A i \in TicksOf(M, m) : d.low <= M[i].price /\ M[i].price <= d.high
  <2>1. \A i \in TicksOf(L, m) : L[i].price \in Nat BY EntryKinds DEF TicksOf
  <2>2. \A i \in TicksOf(L, m) : c.low <= L[i].price /\ L[i].price <= c.high
    BY <1>2 DEF Describes
  <2>3. ASSUME NEW i \in TicksOf(L, m)
        PROVE  d.low <= M[i].price /\ M[i].price <= d.high
    <3>1. /\ M[i] = L[i] /\ L[i].price \in Nat
          /\ c.low <= L[i].price /\ L[i].price <= c.high
      BY <1>6, <2>1, <2>2
    <3>2. d.low <= c.low /\ c.high <= d.high /\ d.low \in Nat /\ d.high \in Nat
      BY <1>0, <1>12
    <3>3. PICK p \in Nat : p = M[i].price /\ c.low <= p /\ p <= c.high BY <3>1
    <3>4. PICK a \in Nat, b \in Nat : a = d.low /\ b = d.high BY <3>2
    <3>5. a <= c.low /\ c.high <= b BY <3>2, <3>4
    <3>6. a <= p /\ p <= b BY <1>12, <3>3, <3>5, Between
    <3> QED BY <3>3, <3>4, <3>6
  <2>4. d.low <= M[n].price /\ M[n].price <= d.high BY <1>0, <1>1, <1>12
  <2> QED BY <1>5, <2>3, <2>4
<1>15. /\ f \in DOMAIN M /\ n \in DOMAIN M /\ u \in DOMAIN M /\ v \in DOMAIN M
       /\ M[u] = L[u] /\ M[v] = L[v]
  BY <1>1
<1>16. /\ c.volume = L[v].volume - L[u].volume /\ L[v].volume # None /\ L[u].volume # None
       /\ \A j \in v + 1 .. l : L[j].volume = None
  BY <1>2 DEF Describes, LastVolumeBy
<1>17. CASE x.volume = None
  <2>1. LastVolumeBy(M, v, n)
    BY <1>1, <1>4, <1>8, <1>15, <1>16, <1>17 DEF LastVolumeBy
  <2>2. Describes(M, d, f, n, u, v)
    BY <1>7, <1>9, <1>10, <1>11, <1>13, <1>14, <1>15, <1>16, <1>17, <2>1 DEF Describes
  <2> QED BY <1>15, <2>2 DEF Whole, M
<1>18. CASE x.volume # None
  <2>1. PICK b \in DOMAIN L : /\ L[b].volume = volume
                              /\ \A j \in b + 1 .. Len(L) : L[j].volume = None
    BY <1>18 DEF Baseline
  <2>2. b = v BY <1>1, <1>4, <1>16, <1>18, <2>1
  <2>3. L[v].volume \in Nat /\ L[u].volume \in Nat BY <1>16, EntryKinds
  <2>4. d.volume = M[n].volume - M[u].volume
    <3>1. c.volume = volume - L[u].volume BY <1>16, <2>1, <2>2
    <3>2. d.volume = c.volume + (x.volume - volume) BY <1>18
    <3>3. x.volume \in Nat /\ volume \in Nat BY <1>0, <1>18
    <3>4. M[n].volume = x.volume /\ M[u].volume = L[u].volume BY <1>1, <1>15
    <3>5. d.volume = x.volume - L[u].volume BY <2>3, <3>1, <3>2, <3>3
    <3> QED BY <3>4, <3>5
  <2>5. LastVolumeBy(M, n, n) BY <1>1, <1>15, <1>18 DEF LastVolumeBy
  <2>6. Describes(M, d, f, n, u, n)
    BY <1>7, <1>9, <1>10, <1>11, <1>13, <1>14, <2>4, <2>5 DEF Describes
  <2> QED BY <1>15, <2>6 DEF Whole, M
<1> QED BY <1>17, <1>18

-----------------------------------------------------------------------------
(* The invariant, for one token: its log L, last tick time, baseline, candle *)
(* in progress, emitted candles, and the newest exchange time.               *)

\* Ticks are taken in exchange order, repeated and rejected ones included.
TimesInOrder(L) ==
    \A i, j \in DOMAIN L : i < j /\ L[i] # Gap /\ L[j] # Gap => L[i].at <= L[j].at

\* Of the ticks since the last gap with the last tick's time, none has a
\* volume above the baseline: a repeated one adds no volume.
NothingAbove(L, at, volume) ==
    \A i \in DOMAIN L :
        /\ \A g \in i .. Len(L) : L[g] # Gap
        /\ L[i].at = at
        /\ L[i].volume # None
        => volume # None /\ L[i].volume <= volume

LogOK(L, at, volume, time) ==
    /\ TimesInOrder(L)
    /\ \A i \in DOMAIN L : L[i].at <= time
    /\ at = IF L = <<>> THEN None ELSE L[Len(L)].at
    /\ Baseline(L, volume)
    /\ NothingAbove(L, at, volume)

\* Once its candle was flushed, a minute is over; and a candle in progress
\* that counts as complete is the whole candle of the ticks so far.
WorkingOK(L, at, ws, time) ==
    /\ ws = {} /\ at # None => Minute(at) < Minute(time)
    /\ \A w \in ws :
          /\ ws = {w} /\ at # None /\ w.candle.minute = Minute(at)
          /\ w.complete => Whole(L, w.candle)

\* What was emitted is whole, in order, and of minutes that are over.
EmittedOK(L, ws, em, time) ==
    /\ \A n \in DOMAIN em :
          /\ Whole(L, em[n])
          /\ em[n].minute < Minute(time)
          /\ \A w \in ws : em[n].minute < w.candle.minute
    /\ \A i, j \in DOMAIN em : i < j => em[i].minute < em[j].minute

TokenOK(k) ==
    /\ LogOK(log[k], lastTickAt[k], lastVolume[k], now)
    /\ WorkingOK(log[k], lastTickAt[k], working[k], now)
    /\ EmittedOK(log[k], working[k], emitted[k], now)

BuilderInv == TypeOK /\ \A k \in Tokens : TokenOK(k)

\* All of it survives that time passes.
LEMMA LogLater ==
    ASSUME NEW L \in Seq(LogEntry), NEW at, NEW volume, NEW s \in Nat, NEW t \in Nat, s <= t,
           LogOK(L, at, volume, s)
    PROVE  LogOK(L, at, volume, t)
<1>1. \A i \in DOMAIN L : L[i].at \in Int /\ L[i].at <= s
  BY EntryKinds DEF LogOK, None
<1>2. \A i \in DOMAIN L : L[i].at <= t BY <1>1
<1> QED BY <1>2 DEF LogOK

LEMMA WorkingLater ==
    ASSUME NEW L, NEW at \in Nat \cup {None}, NEW ws, NEW s \in Nat, NEW t \in Nat, s <= t,
           WorkingOK(L, at, ws, s)
    PROVE  WorkingOK(L, at, ws, t)
<1>1. Minute(s) \in Nat /\ Minute(t) \in Nat /\ Minute(s) <= Minute(t) BY MinuteMonotone
<1>2. at # None => Minute(at) \in Nat BY MinuteMonotone
<1>3. ws = {} /\ at # None => Minute(at) < Minute(t) BY <1>1, <1>2 DEF WorkingOK
<1> QED BY <1>3 DEF WorkingOK

LEMMA EmittedLater ==
    ASSUME NEW L, NEW ws, NEW em \in Seq(Candle), NEW s \in Nat, NEW t \in Nat, s <= t,
           EmittedOK(L, ws, em, s)
    PROVE  EmittedOK(L, ws, em, t)
<1>1. Minute(s) \in Nat /\ Minute(t) \in Nat /\ Minute(s) <= Minute(t) BY MinuteMonotone
<1>2. \A n \in DOMAIN em : em[n].minute \in Nat
  <2>1. \A n \in DOMAIN em : em[n] \in Candle OBVIOUS
  <2> QED BY <2>1 DEF Candle
<1>3. \A n \in DOMAIN em : em[n].minute < Minute(t) BY <1>1, <1>2 DEF EmittedOK
<1> QED BY <1>3 DEF EmittedOK

\* A gap starts the log anew.
LEMMA LogAfterGap ==
    ASSUME NEW L \in Seq(LogEntry), NEW at, NEW volume, NEW t \in Nat, LogOK(L, at, volume, t)
    PROVE  LogOK(Append(L, Gap), None, None, t)
<1> DEFINE M == Append(L, Gap)
           n == Len(L) + 1
<1>1. /\ Gap \in LogEntry /\ Gap.at = None BY DEF LogEntry, Gap
<1>2. /\ Len(L) \in Nat /\ DOMAIN L = 1 .. Len(L) /\ DOMAIN M = 1 .. n /\ Len(M) = n
      /\ \A i \in 1 .. Len(L) : M[i] = L[i]
      /\ M[n] = Gap /\ n \in Nat /\ n = Len(L) + 1
  BY <1>1, AppendEntry
<1> HIDE DEF M, n
<1>3. TimesInOrder(M)
  <2> SUFFICES ASSUME NEW i \in DOMAIN M, NEW j \in DOMAIN M, i < j, M[i] # Gap, M[j] # Gap
               PROVE  M[i].at <= M[j].at
    BY DEF TimesInOrder
  <2>1. i \in DOMAIN L /\ j \in DOMAIN L BY <1>2
  <2> QED BY <1>2, <2>1 DEF LogOK, TimesInOrder
<1>4. \A i \in DOMAIN M : M[i].at <= t BY <1>1, <1>2 DEF LogOK, None
<1>5. M # <<>> /\ M[Len(M)].at = None BY <1>1, <1>2
<1>6. Baseline(M, None) BY DEF Baseline
<1>7. NothingAbove(M, None, None)
  <2> SUFFICES ASSUME NEW i \in DOMAIN M PROVE ~(\A g \in i .. Len(M) : M[g] # Gap)
    BY DEF NothingAbove
  <2> QED BY <1>2
<1> QED BY <1>3, <1>4, <1>5, <1>6, <1>7 DEF LogOK, M

\* A tick that is not ignored keeps the log in order.
LEMMA LogAfterTick ==
    ASSUME NEW L \in Seq(LogEntry), NEW at \in Nat \cup {None},
           NEW volume \in Nat \cup {None}, NEW x \in Tick, NEW s \in Nat, s <= x.at,
           LogOK(L, at, volume, s), x.at >= at,
           x.at = at => HasPositiveVolumeDelta(volume, x.volume)
    PROVE  LogOK(Append(L, x), x.at, IF x.volume = None THEN volume ELSE x.volume, x.at)
<1> DEFINE M == Append(L, x)
           n == Len(L) + 1
           next == IF x.volume = None THEN volume ELSE x.volume
<1>0. x \in LogEntry /\ x # Gap /\ x.at \in Nat /\ x.volume \in Nat \cup {None}
  BY TickFacts
<1>1. /\ M \in Seq(LogEntry) /\ Len(L) \in Nat /\ DOMAIN L = 1 .. Len(L)
      /\ DOMAIN M = 1 .. n /\ Len(M) = n
      /\ \A i \in 1 .. Len(L) : M[i] = L[i]
      /\ M[n] = x /\ n \in Nat /\ n = Len(L) + 1
  BY <1>0, AppendEntry
<1>2. \A i \in DOMAIN L : L[i].at \in Int /\ L[i].at <= x.at
  BY <1>0, EntryKinds DEF LogOK, None
<1> HIDE DEF M, n
<1>3. TimesInOrder(M)
  <2> SUFFICES ASSUME NEW i \in DOMAIN M, NEW j \in DOMAIN M, i < j, M[i] # Gap, M[j] # Gap
               PROVE  M[i].at <= M[j].at
    BY DEF TimesInOrder
  <2>1. i \in DOMAIN L BY <1>1
  <2>2. CASE j = n BY <1>1, <1>2, <2>1, <2>2
  <2>3. CASE j # n
    <3>1. j \in DOMAIN L BY <1>1, <2>3
    <3> QED BY <1>1, <2>1, <3>1 DEF LogOK, TimesInOrder
  <2> QED BY <2>2, <2>3
<1>4. \A i \in DOMAIN M : M[i].at <= x.at BY <1>0, <1>1, <1>2
<1>5. M # <<>> /\ M[Len(M)].at = x.at BY <1>1
<1>6. Baseline(M, next)
  <2>1. CASE x.volume # None
    <3>1. n \in DOMAIN M /\ M[n].volume = next BY <1>1, <2>1
    <3>2. \A j \in n .. Len(M) : j = n BY <1>1
    <3>3. \A j \in n + 1 .. Len(M) : FALSE BY <1>1
    <3> QED BY <1>0, <1>1, <3>1, <3>2, <3>3 DEF Baseline
  <2>2. CASE x.volume = None /\ volume # None
    <3>1. PICK v \in DOMAIN L : /\ L[v].volume = volume
                                /\ \A j \in v + 1 .. Len(L) : L[j].volume = None
                                /\ \A j \in v .. Len(L) : L[j] # Gap
      BY <2>2 DEF LogOK, Baseline
    <3>2. v \in DOMAIN M /\ M[v].volume = next BY <1>1, <2>2, <3>1
    <3>3. \A j \in v + 1 .. Len(M) : M[j].volume = None BY <1>1, <2>2, <3>1
    <3>4. \A j \in v .. Len(M) : M[j] # Gap BY <1>0, <1>1, <3>1
    <3> QED BY <3>2, <3>3, <3>4 DEF Baseline
  <2>3. CASE x.volume = None /\ volume = None BY <2>3 DEF Baseline
  <2> QED BY <2>1, <2>2, <2>3
<1>7. NothingAbove(M, x.at, next)
  <2> SUFFICES ASSUME NEW i \in DOMAIN M, \A g \in i .. Len(M) : M[g] # Gap,
                      M[i].at = x.at, M[i].volume # None
               PROVE  next # None /\ M[i].volume <= next
    BY DEF NothingAbove
  <2>1. CASE i = n BY <1>0, <1>1, <2>1
  <2>2. CASE i # n
    <3>1. /\ i \in DOMAIN L /\ L[i].at = x.at /\ L[i].volume # None
          /\ \A g \in i .. Len(L) : L[g] # Gap
      BY <1>1, <2>2
    <3>2. Len(L) \in DOMAIN L /\ Len(L) \in i .. Len(L) /\ L # <<>> BY <1>1, <3>1
    <3>3. L[Len(L)].at = at BY <3>2 DEF LogOK
    <3>4. L[i].at <= at
      <4>1. CASE i = Len(L) BY <3>3, <4>1, <1>2, <3>1
      <4>2. CASE i < Len(L) BY <4>2, <3>1, <3>2, <3>3 DEF LogOK, TimesInOrder
      <4> QED BY <1>1, <3>1, <4>1, <4>2
    <3>5. x.at = at BY <1>0, <3>1, <3>4 DEF None
    <3>6. volume # None /\ L[i].volume <= volume
      BY <3>1, <3>5 DEF LogOK, NothingAbove
    <3>7. /\ x.volume # None /\ x.volume > volume
      BY <3>5 DEF HasPositiveVolumeDelta
    <3>8. L[i].volume \in Nat /\ x.volume \in Nat /\ volume \in Nat
      BY <1>0, <3>1, <3>6, <3>7, EntryKinds
    <3>9. next = x.volume /\ M[i].volume = L[i].volume BY <1>1, <3>1, <3>7
    <3> QED BY <3>6, <3>7, <3>8, <3>9
  <2> QED BY <2>1, <2>2
<1> QED BY <1>3, <1>4, <1>5, <1>6, <1>7 DEF LogOK, M

-----------------------------------------------------------------------------
(* The operations on a candle in progress. *)

LEMMA CandlePrices ==
    ASSUME NEW c \in Candle, NEW h, NEW lo, NEW p
    PROVE  [[[c EXCEPT !.high = h] EXCEPT !.low = lo] EXCEPT !.close = p] =
             [minute |-> c.minute, open |-> c.open, high |-> h, low |-> lo,
              close |-> p, volume |-> c.volume]
<1> DEFINE a == [c EXCEPT !.high = h]
           b == [a EXCEPT !.low = lo]
<1>1. a = [minute |-> c.minute, open |-> c.open, high |-> h, low |-> c.low,
           close |-> c.close, volume |-> c.volume]
  BY DEF Candle
<1> HIDE DEF a
<1>2. b = [minute |-> c.minute, open |-> c.open, high |-> h, low |-> lo,
           close |-> c.close, volume |-> c.volume]
  BY <1>1
<1> HIDE DEF b
<1>3. [b EXCEPT !.close = p] =
        [minute |-> c.minute, open |-> c.open, high |-> h, low |-> lo,
         close |-> p, volume |-> c.volume]
  BY <1>2
<1> QED BY <1>3 DEF a, b

LEMMA UpdatePriceIs ==
    ASSUME NEW w \in WorkingCandle, NEW price \in Prices
    PROVE  LET u == UpdatePrice(w, price) IN
           /\ u \in WorkingCandle
           /\ u.complete = w.complete
           /\ u.candle.minute = w.candle.minute /\ u.candle.open = w.candle.open
           /\ u.candle.high = (IF price > w.candle.high THEN price ELSE w.candle.high)
           /\ u.candle.low = (IF price < w.candle.low THEN price ELSE w.candle.low)
           /\ u.candle.close = price /\ u.candle.volume = w.candle.volume
<1> DEFINE c == w.candle
           h == IF price > c.high THEN price ELSE c.high
           lo == IF price < c.low THEN price ELSE c.low
           d == [minute |-> c.minute, open |-> c.open, high |-> h, low |-> lo,
                 close |-> price, volume |-> c.volume]
<1>1. /\ w = [candle |-> c, complete |-> w.complete] /\ w.complete \in BOOLEAN
      /\ c \in Candle
  BY DEF WorkingCandle
<1>2. /\ c = [minute |-> c.minute, open |-> c.open, high |-> c.high, low |-> c.low,
              close |-> c.close, volume |-> c.volume]
      /\ c.minute \in Nat /\ c.open \in Prices /\ c.high \in Prices /\ c.low \in Prices
      /\ c.close \in Prices /\ c.volume \in Nat
  BY <1>1 DEF Candle
<1>3. d \in Candle BY <1>2 DEF Candle
<1>4. UpdatePrice(w, price) = [candle |-> d, complete |-> w.complete]
  <2>1. UpdatePrice(w, price) =
          [w EXCEPT !.candle = [[[c EXCEPT !.high = h] EXCEPT !.low = lo] EXCEPT !.close = price]]
    <3>1. [w EXCEPT !.candle.high = IF price > @ THEN price ELSE @] =
            [w EXCEPT !.candle = [c EXCEPT !.high = h]]
      BY <1>1
    <3> QED BY <1>1, <1>2, <3>1 DEF UpdatePrice
  <2>2. [[[c EXCEPT !.high = h] EXCEPT !.low = lo] EXCEPT !.close = price] = d
    <3> HIDE DEF h, lo, c
    <3>1. \A hh, ll, pp :
            [[[c EXCEPT !.high = hh] EXCEPT !.low = ll] EXCEPT !.close = pp] =
              [minute |-> c.minute, open |-> c.open, high |-> hh, low |-> ll,
               close |-> pp, volume |-> c.volume]
      BY <1>1, CandlePrices
    <3> QED BY <3>1 DEF d
  <2> QED BY <1>1, <2>1, <2>2
<1> HIDE DEF d
<1>5. UpdatePrice(w, price) \in WorkingCandle BY <1>1, <1>3, <1>4 DEF WorkingCandle
<1>6. /\ d.minute = c.minute /\ d.open = c.open /\ d.high = h /\ d.low = lo
      /\ d.close = price /\ d.volume = c.volume
  BY DEF d
<1> QED BY <1>4, <1>5, <1>6

\* What the volume of a tick makes of a candle in progress.
VolumeAdded(w, previous, volume, u) ==
    /\ u \in WorkingCandle
    /\ u.candle.minute = w.candle.minute /\ u.candle.open = w.candle.open
    /\ u.candle.high = w.candle.high /\ u.candle.low = w.candle.low
    /\ u.candle.close = w.candle.close
    /\ u.complete =>
          /\ w.complete
          /\ volume # None => previous # None
          /\ u.candle.volume = IF volume = None THEN w.candle.volume
                               ELSE w.candle.volume + (volume - previous)

LEMMA AddVolumeIs ==
    ASSUME NEW w \in WorkingCandle, NEW previous \in Nat \cup {None},
           NEW volume \in Nat \cup {None}
    PROVE  VolumeAdded(w, previous, volume, AddVolume(w, previous, volume))
<1> DEFINE u == AddVolume(w, previous, volume)
<1> SUFFICES /\ u \in WorkingCandle
             /\ u.candle.minute = w.candle.minute /\ u.candle.open = w.candle.open
             /\ u.candle.high = w.candle.high /\ u.candle.low = w.candle.low
             /\ u.candle.close = w.candle.close
             /\ u.complete =>
                   /\ w.complete
                   /\ volume # None => previous # None
                   /\ u.candle.volume = IF volume = None THEN w.candle.volume
                                        ELSE w.candle.volume + (volume - previous)
  BY DEF VolumeAdded
<1> DEFINE c == w.candle
<1>1. /\ w = [candle |-> c, complete |-> w.complete] /\ w.complete \in BOOLEAN
      /\ c \in Candle
  BY DEF WorkingCandle
<1>2. /\ c = [minute |-> c.minute, open |-> c.open, high |-> c.high, low |-> c.low,
              close |-> c.close, volume |-> c.volume]
      /\ c.minute \in Nat /\ c.open \in Prices /\ c.high \in Prices /\ c.low \in Prices
      /\ c.close \in Prices /\ c.volume \in Nat
  BY <1>1 DEF Candle
<1>3. CASE volume = None
  <2>1. u = w BY <1>3 DEF AddVolume
  <2> QED BY <1>3, <2>1
<1>4. CASE volume # None /\ (previous = None \/ volume < previous)
  <2>1. u = [candle |-> c, complete |-> FALSE] BY <1>1, <1>4 DEF AddVolume
  <2>2. u \in WorkingCandle BY <1>1, <2>1 DEF WorkingCandle
  <2> QED BY <2>1, <2>2
<1>5. CASE volume # None /\ previous # None /\ ~(volume < previous)
  <2> DEFINE d == [minute |-> c.minute, open |-> c.open, high |-> c.high, low |-> c.low,
                   close |-> c.close, volume |-> c.volume + (volume - previous)]
  <2>1. u = [w EXCEPT !.candle.volume = @ + (volume - previous)] BY <1>5 DEF AddVolume
  <2>2. u = [candle |-> d, complete |-> w.complete] BY <1>1, <1>2, <2>1
  <2>3. c.volume + (volume - previous) \in Nat BY <1>2, <1>5
  <2>4. d \in Candle BY <1>2, <2>3 DEF Candle
  <2> HIDE DEF u
  <2>5. u \in WorkingCandle
    <3> HIDE DEF d
    <3> QED BY <1>1, <2>2, <2>4 DEF WorkingCandle
  <2>6. u.candle = d /\ u.complete = w.complete BY <2>2
  <2> QED BY <1>5, <2>5, <2>6 DEF u
<1> QED BY <1>3, <1>4, <1>5

LEMMA AddVolumeType ==
    ASSUME NEW w \in WorkingCandle, NEW previous \in Nat \cup {None},
           NEW volume \in Nat \cup {None}
    PROVE  /\ AddVolume(w, previous, volume) \in WorkingCandle
           /\ AddVolume(w, previous, volume).candle.minute = w.candle.minute
  BY AddVolumeIs DEF VolumeAdded

LEMMA NewWorkingCandleIs ==
    ASSUME NEW k \in Tokens, NEW x \in Tick
    PROVE  LET u == NewWorkingCandle(k, x) IN
           /\ u \in WorkingCandle
           /\ u.complete = (lastVolume[k] # None)
           /\ u.candle.minute = Minute(x.at) /\ u.candle.volume = 0
           /\ u.candle.open = x.price /\ u.candle.high = x.price
           /\ u.candle.low = x.price /\ u.candle.close = x.price
<1> DEFINE d == [minute |-> Minute(x.at), open |-> x.price, high |-> x.price,
                 low |-> x.price, close |-> x.price, volume |-> 0]
<1>0. x.at \in Nat /\ x.at <= x.at /\ x.price \in Prices BY TickFacts
<1>1. Minute(x.at) \in Nat /\ x.price \in Prices BY <1>0, MinuteMonotone
<1>2. d \in Candle BY <1>1 DEF Candle
<1>3. NewWorkingCandle(k, x) = [candle |-> d, complete |-> lastVolume[k] # None]
  BY DEF NewWorkingCandle
<1>4. NewWorkingCandle(k, x) \in WorkingCandle
  <2> HIDE DEF d
  <2> QED BY <1>2, <1>3 DEF WorkingCandle
<1> QED BY <1>3, <1>4

LEMMA ConcatEmpty ==
    ASSUME NEW S, NEW seq \in Seq(S)
    PROVE  seq \o <<>> = seq
  OBVIOUS

\* The list of no candle and of one.
LEMMA AsListIs ==
    /\ AsList({}) = <<>>
    /\ \A c : AsList({c}) = <<c>>
<1>1. \A c : (CHOOSE d \in {c} : TRUE) = c OBVIOUS
<1> QED BY <1>1 DEF AsList

-----------------------------------------------------------------------------
(* Type correctness. *)

\* A tick that is taken either extends the candle of its minute, or starts
\* one and emits the one before if that is complete.
LEMMA AcceptEffect ==
    ASSUME TypeOK, NEW k \in Tokens, NEW x \in Tick, AcceptTick(k, x)
    PROVE  \E u \in WorkingCandle :
             /\ working' = [working EXCEPT ![k] = {u}]
             /\ u.candle.minute = Minute(x.at)
             /\ \/ /\ emitted' = emitted
                   /\ \E w \in working[k] :
                        /\ w.candle.minute = Minute(x.at)
                        /\ u = AddVolume(UpdatePrice(w, x.price), lastVolume[k], x.volume)
                \/ /\ \A w \in working[k] : w.candle.minute # Minute(x.at)
                   /\ u = AddVolume(NewWorkingCandle(k, x), lastVolume[k], x.volume)
                   /\ \/ emitted' = emitted
                      \/ \E w \in working[k] :
                           /\ w.complete
                           /\ emitted' = [emitted EXCEPT ![k] = Append(@, w.candle)]
<1> DEFINE same == {w \in working[k] : w.candle.minute = Minute(x.at)}
           rolled == Completed(working[k] \ same)
           base == IF same = {} THEN {NewWorkingCandle(k, x)}
                   ELSE {UpdatePrice(w, x.price) : w \in same}
<1>0. /\ working \in [Tokens -> SUBSET WorkingCandle]
      /\ emitted \in [Tokens -> Seq(Candle)]
      /\ lastVolume[k] \in Nat \cup {None}
      /\ \A w \in working[k] : w \in WorkingCandle /\ working[k] = {w}
      /\ x.price \in Prices /\ x.volume \in Nat \cup {None}
  BY TickFacts DEF TypeOK
<1>5. lastVolume[k] \in Nat \cup {None} /\ x.volume \in Nat \cup {None} BY <1>0
<1>1. /\ working' = [working EXCEPT ![k] = {AddVolume(w, lastVolume[k], x.volume) : w \in base}]
      /\ emitted' = [emitted EXCEPT ![k] = emitted[k] \o AsList(rolled)]
  BY DEF AcceptTick
<1>2. ASSUME rolled = {} PROVE emitted' = emitted
  <2>1. AsList(rolled) = <<>> BY <1>2, AsListIs
  <2>2. emitted[k] \in Seq(Candle) BY <1>0
  <2>3. emitted[k] \o AsList(rolled) = emitted[k] BY <2>1, <2>2, ConcatEmpty
  <2> QED BY <1>0, <1>1, <2>3
<1>3. CASE same # {}
  <2>1. PICK w \in working[k] : w.candle.minute = Minute(x.at) BY <1>3
  <2>2. working[k] = {w} /\ same = {w} BY <1>0, <2>1
  <2> DEFINE p == UpdatePrice(w, x.price)
             u == AddVolume(p, lastVolume[k], x.volume)
  <2>3. base = {p} BY <2>2
  <2>4. rolled = {} BY <2>2 DEF Completed
  <2>5. p \in WorkingCandle /\ p.candle.minute = Minute(x.at)
    BY <1>0, <2>1, UpdatePriceIs
  <2> HIDE DEF base, rolled, p
  <2>6. u \in WorkingCandle /\ u.candle.minute = Minute(x.at)
    BY <1>5, <2>5, AddVolumeType
  <2>7. working' = [working EXCEPT ![k] = {u}] BY <1>1, <2>3
  <2> HIDE DEF u
  <2> QED BY <1>2, <2>1, <2>4, <2>6, <2>7 DEF u, p
<1>4. CASE same = {}
  <2> DEFINE p == NewWorkingCandle(k, x)
             u == AddVolume(p, lastVolume[k], x.volume)
  <2>1. \A w \in working[k] : w.candle.minute # Minute(x.at) BY <1>4
  <2>2. base = {p} BY <1>4
  <2>3. p \in WorkingCandle /\ p.candle.minute = Minute(x.at) BY NewWorkingCandleIs
  <2>4. rolled = Completed(working[k]) BY <1>4
  <2>5. \/ rolled = {}
        \/ \E w \in working[k] : w.complete /\ rolled = {w.candle}
    <3>1. CASE \E w \in working[k] : w.complete
      <4>1. PICK w \in working[k] : w.complete BY <3>1
      <4>2. working[k] = {w} BY <1>0
      <4>3. Completed({w}) = {w.candle} BY <4>1 DEF Completed
      <4> QED BY <2>4, <4>1, <4>2, <4>3
    <3>2. CASE \A w \in working[k] : ~w.complete BY <2>4, <3>2 DEF Completed
    <3> QED BY <3>1, <3>2
  <2> HIDE DEF base, rolled, p
  <2>6. u \in WorkingCandle /\ u.candle.minute = Minute(x.at)
    BY <1>5, <2>3, AddVolumeType
  <2>7. working' = [working EXCEPT ![k] = {u}] BY <1>1, <2>2
  <2> HIDE DEF u
  <2>8. \/ emitted' = emitted
        \/ \E w \in working[k] :
             w.complete /\ emitted' = [emitted EXCEPT ![k] = Append(@, w.candle)]
    <3>1. CASE rolled = {} BY <1>2, <3>1
    <3>2. ASSUME NEW w \in working[k], w.complete, rolled = {w.candle}
          PROVE  emitted' = [emitted EXCEPT ![k] = Append(@, w.candle)]
      <4>1. AsList(rolled) = <<w.candle>> BY <3>2, AsListIs
      <4>2. emitted[k] \in Seq(Candle) /\ w.candle \in Candle BY <1>0 DEF WorkingCandle
      <4>3. emitted[k] \o <<w.candle>> = Append(emitted[k], w.candle) BY <4>2
      <4> QED BY <1>1, <4>1, <4>3
    <3> QED BY <2>5, <3>1, <3>2
  <2> QED BY <2>1, <2>6, <2>7, <2>8 DEF u, p
<1> QED BY <1>3, <1>4

\* What the feed repeats is a tick, of this connection.
LEMMA RedeliveredTick ==
    ASSUME TypeOK, NEW k \in Tokens, NEW i \in DOMAIN log[k], i > LastGap(k)
    PROVE  /\ log[k][i] \in Tick
           /\ \A g \in i .. Len(log[k]) : log[k][g] # Gap
<1> DEFINE T == {0} \cup {j \in DOMAIN log[k] : log[k][j] = Gap}
<1>1. log[k] \in Seq(LogEntry) BY DEF TypeOK, LogEntry
<1>2. DOMAIN log[k] = 1 .. Len(log[k]) /\ Len(log[k]) \in Nat BY <1>1
<1>3. T \subseteq Nat /\ T # {} /\ \A j \in T : j <= Len(log[k]) BY <1>2
<1>4. LastGap(k) = Max(T) BY DEF LastGap
<1> HIDE DEF T
<1>5. Max(T) \in Nat /\ \A j \in T : j <= Max(T) BY <1>2, <1>3, MaxBounds
<1>6. \A g \in i .. Len(log[k]) : log[k][g] # Gap
  <2> SUFFICES ASSUME NEW g \in i .. Len(log[k]), log[k][g] = Gap PROVE FALSE OBVIOUS
  <2>1. g \in T /\ i \in Nat /\ g \in Nat /\ i <= g BY <1>2 DEF T
  <2> QED BY <1>4, <1>5, <2>1
<1>7. log[k][i] # Gap BY <1>2, <1>6
<1> QED BY <1>1, <1>6, <1>7, EntryKinds

\* A new tick, after normalize_tick.
LEMMA FreshIsTick ==
    ASSUME NEW at \in 0 .. MaxTime, NEW price \in Prices,
           NEW traded \in RawVolumes \cup {None}, NEW volume \in RawVolumes \cup {None}
    PROVE  [at |-> at, price |-> price, volume |-> NormalizeVolume(traded, volume)] \in Tick
<1>1. at \in Nat BY BuilderAssumption
<1>2. NormalizeVolume(traded, volume) \in RawVolumes \cup {None} BY DEF NormalizeVolume
<1> QED BY <1>1, <1>2 DEF Tick

LEMMA TypeAccept ==
    ASSUME TypeOK, NEW k \in Tokens, NEW x \in Tick, AcceptTick(k, x), now' \in Nat
    PROVE  TypeOK'
<1>0. x.at \in Nat /\ x.volume \in Nat \cup {None} /\ x \in Tick \cup {Gap} BY TickFacts
<1>1. PICK u \in WorkingCandle :
             /\ working' = [working EXCEPT ![k] = {u}]
             /\ u.candle.minute = Minute(x.at)
             /\ \/ emitted' = emitted
                \/ \E w \in working[k] :
                     emitted' = [emitted EXCEPT ![k] = Append(@, w.candle)]
  BY AcceptEffect
<1>2. /\ lastTickAt' = [lastTickAt EXCEPT ![k] = x.at]
      /\ lastVolume' = [lastVolume EXCEPT ![k] = IF x.volume = None THEN @ ELSE x.volume]
      /\ log' = [log EXCEPT ![k] = Append(@, x)]
  BY DEF AcceptTick
<1>3. working' \in [Tokens -> SUBSET WorkingCandle] BY <1>1 DEF TypeOK
<1>4. lastTickAt' \in [Tokens -> Nat \cup {None}] BY <1>0, <1>2 DEF TypeOK
<1>5. lastVolume' \in [Tokens -> Nat \cup {None}] BY <1>0, <1>2 DEF TypeOK
<1>6. log' \in [Tokens -> Seq(Tick \cup {Gap})]
  <2>1. log[k] \in Seq(Tick \cup {Gap}) BY DEF TypeOK
  <2>2. Append(log[k], x) \in Seq(Tick \cup {Gap}) BY <1>0, <2>1
  <2> QED BY <1>2, <2>2 DEF TypeOK
<1>7. emitted' \in [Tokens -> Seq(Candle)]
  <2>1. CASE emitted' = emitted BY <2>1 DEF TypeOK
  <2>2. ASSUME NEW w \in working[k], emitted' = [emitted EXCEPT ![k] = Append(@, w.candle)]
        PROVE  emitted' \in [Tokens -> Seq(Candle)]
    <3>1. w \in WorkingCandle BY DEF TypeOK
    <3>2. w.candle \in Candle BY <3>1 DEF WorkingCandle
    <3>3. emitted[k] \in Seq(Candle) BY DEF TypeOK
    <3>4. Append(emitted[k], w.candle) \in Seq(Candle) BY <3>2, <3>3
    <3> QED BY <2>2, <3>4 DEF TypeOK
  <2> QED BY <1>1, <2>1, <2>2
<1>8. ASSUME NEW j \in Tokens, NEW w \in working'[j]
      PROVE  working'[j] = {w} /\ w.candle.minute = Minute(lastTickAt'[j])
  <2>1. CASE j = k
    <3>1. working'[j] = {u} /\ lastTickAt'[j] = x.at BY <1>1, <1>2, <2>1 DEF TypeOK
    <3> QED BY <1>1, <3>1
  <2>2. CASE j # k
    <3>1. working'[j] = working[j] /\ lastTickAt'[j] = lastTickAt[j]
      BY <1>1, <1>2, <2>2 DEF TypeOK
    <3> QED BY <3>1 DEF TypeOK
  <2> QED BY <2>1, <2>2
<1>9. \A j \in Tokens : \A w \in working'[j] :
          working'[j] = {w} /\ w.candle.minute = Minute(lastTickAt'[j])
  BY <1>8
<1>10. TypeOK' = (/\ working' \in [Tokens -> SUBSET WorkingCandle]
                  /\ lastTickAt' \in [Tokens -> Nat \cup {None}]
                  /\ lastVolume' \in [Tokens -> Nat \cup {None}]
                  /\ emitted' \in [Tokens -> Seq(Candle)]
                  /\ log' \in [Tokens -> Seq(Tick \cup {Gap})]
                  /\ now' \in Nat
                  /\ \A j \in Tokens : \A w \in working'[j] :
                        /\ working'[j] = {w}
                        /\ w.candle.minute = Minute(lastTickAt'[j]))
  BY DEF TypeOK, Minute
<1> QED BY <1>3, <1>4, <1>5, <1>6, <1>7, <1>9, <1>10

\* A flush takes a token's candle away and emits it, or leaves it alone.
LEMMA FlushEffect ==
    ASSUME TypeOK, NEW cutoff, FlushCompletedBefore(cutoff), NEW k \in Tokens
    PROVE  \/ working'[k] = working[k] /\ emitted'[k] = emitted[k]
           \/ \E w \in working[k] :
                /\ working[k] = {w} /\ Flushable(w, cutoff)
                /\ working'[k] = {} /\ emitted'[k] = Append(emitted[k], w.candle)
<1>0. /\ emitted[k] \in Seq(Candle)
      /\ \A w \in working[k] : w \in WorkingCandle /\ working[k] = {w}
  BY DEF TypeOK
<1>1. /\ working'[k] = {w \in working[k] : ~Flushable(w, cutoff)}
      /\ emitted'[k] = emitted[k] \o Flushed(k, cutoff)
  BY DEF FlushCompletedBefore
<1> DEFINE cs == {w.candle : w \in {v \in working[k] : Flushable(v, cutoff)}}
<1>2. Flushed(k, cutoff) = AsList(cs) BY DEF Flushed
<1>3. CASE \E w \in working[k] : Flushable(w, cutoff)
  <2>1. PICK w \in working[k] : Flushable(w, cutoff) BY <1>3
  <2>2. working[k] = {w} BY <1>0
  <2>3. cs = {w.candle} /\ working'[k] = {} BY <1>1, <2>1, <2>2
  <2> HIDE DEF cs
  <2>4. Flushed(k, cutoff) = <<w.candle>> BY <1>2, <2>3, AsListIs
  <2>5. w.candle \in Candle BY <1>0 DEF WorkingCandle
  <2>6. emitted[k] \o <<w.candle>> = Append(emitted[k], w.candle) BY <1>0, <2>5
  <2> QED BY <1>1, <2>1, <2>2, <2>3, <2>4, <2>6
<1>4. CASE \A w \in working[k] : ~Flushable(w, cutoff)
  <2>1. cs = {} /\ working'[k] = working[k] BY <1>1, <1>4
  <2> HIDE DEF cs
  <2>2. Flushed(k, cutoff) = <<>> BY <1>2, <2>1, AsListIs
  <2>3. emitted'[k] = emitted[k] BY <1>0, <1>1, <2>2, ConcatEmpty
  <2> QED BY <2>1, <2>3
<1> QED BY <1>3, <1>4

LEMMA TypeFlush ==
    ASSUME TypeOK, NEW cutoff \in Nat, FlushCompletedBefore(cutoff)
    PROVE  TypeOK'
<1>1. UNCHANGED <<lastTickAt, lastVolume, log>> /\ now' = cutoff
  BY DEF FlushCompletedBefore
<1>2. working' \in [Tokens -> SUBSET WorkingCandle]
  BY DEF FlushCompletedBefore, TypeOK
<1>3. ASSUME NEW k \in Tokens PROVE emitted'[k] \in Seq(Candle)
  <2>1. emitted[k] \in Seq(Candle) BY DEF TypeOK
  <2>2. \A w \in working[k] : w.candle \in Candle BY DEF TypeOK, WorkingCandle
  <2>3. \A w \in working[k] : Append(emitted[k], w.candle) \in Seq(Candle) BY <2>1, <2>2
  <2> QED BY <2>1, <2>3, FlushEffect
<1>4. emitted' \in [Tokens -> Seq(Candle)]
  <2>1. emitted' = [k \in Tokens |-> emitted'[k]] BY DEF FlushCompletedBefore
  <2> QED BY <1>3, <2>1
<1>5. \A k \in Tokens : \A w \in working'[k] :
         working'[k] = {w} /\ w.candle.minute = Minute(lastTickAt[k])
  <2> SUFFICES ASSUME NEW k \in Tokens, NEW w \in working'[k]
               PROVE  working'[k] = {w} /\ w.candle.minute = Minute(lastTickAt[k])
    OBVIOUS
  <2>1. working'[k] = working[k] BY FlushEffect
  <2> QED BY <2>1 DEF TypeOK
<1> QED BY <1>1, <1>2, <1>4, <1>5 DEF TypeOK

LEMMA TypeGap ==
    ASSUME TypeOK, InvalidateAfterStreamGap
    PROVE  TypeOK'
<1>1. /\ working' = [k \in Tokens |-> {}] /\ lastTickAt' = [k \in Tokens |-> None]
      /\ lastVolume' = [k \in Tokens |-> None]
      /\ log' = [k \in Tokens |-> Append(log[k], Gap)]
      /\ UNCHANGED <<emitted, now>>
  BY DEF InvalidateAfterStreamGap
<1>2. \A k \in Tokens : Append(log[k], Gap) \in Seq(Tick \cup {Gap})
  <2> SUFFICES ASSUME NEW k \in Tokens PROVE Append(log[k], Gap) \in Seq(Tick \cup {Gap})
    OBVIOUS
  <2>1. log[k] \in Seq(Tick \cup {Gap}) BY DEF TypeOK
  <2> QED BY <2>1
<1> QED BY <1>1, <1>2 DEF TypeOK

LEMMA TypeFresh ==
    ASSUME TypeOK, NEW k \in Tokens, NEW at \in 0 .. MaxTime, NEW price \in Prices,
           NEW traded \in RawVolumes \cup {None}, NEW volume \in RawVolumes \cup {None},
           FreshTick(k, at, price, traded, volume)
    PROVE  TypeOK'
<1> DEFINE x == [at |-> at, price |-> price, volume |-> NormalizeVolume(traded, volume)]
<1>1. x \in Tick BY FreshIsTick
<1>2. now' \in Nat BY BuilderAssumption DEF FreshTick
<1>3. RejectTick \/ AcceptTick(k, x) BY DEF FreshTick
<1> HIDE DEF x
<1>4. CASE RejectTick BY <1>2, <1>4 DEF RejectTick, TypeOK
<1>5. CASE AcceptTick(k, x) BY <1>1, <1>2, <1>5, TypeAccept
<1> QED BY <1>3, <1>4, <1>5

LEMMA TypeRedeliver ==
    ASSUME TypeOK, NEW k \in Tokens, NEW i \in DOMAIN log[k], Redeliver(k, i)
    PROVE  TypeOK'
<1>1. log[k][i] \in Tick BY RedeliveredTick DEF Redeliver
<1>2. now' \in Nat BY DEF Redeliver, TypeOK
<1>3. RejectTick \/ AcceptTick(k, log[k][i]) BY DEF Redeliver
<1>4. CASE RejectTick BY <1>2, <1>4 DEF RejectTick, TypeOK
<1>5. CASE AcceptTick(k, log[k][i]) BY <1>1, <1>2, <1>5, TypeAccept
<1> QED BY <1>3, <1>4, <1>5

LEMMA TypeNext == TypeOK /\ [Next]_vars => TypeOK'
<1> SUFFICES ASSUME TypeOK, [Next]_vars PROVE TypeOK' OBVIOUS
<1>1. CASE UNCHANGED vars BY <1>1 DEF vars, TypeOK
<1>2. ASSUME NEW cutoff \in 0 .. MaxTime, FlushCompletedBefore(cutoff) PROVE TypeOK'
  <2>1. cutoff \in Nat BY BuilderAssumption
  <2> QED BY <1>2, <2>1, TypeFlush
<1> QED BY <1>1, <1>2, TypeGap, TypeFresh, TypeRedeliver DEF Next

LEMMA TypeInit == Init => TypeOK
<1> SUFFICES ASSUME Init PROVE TypeOK OBVIOUS
<1>1. <<>> \in Seq(Candle) /\ <<>> \in Seq(Tick \cup {Gap}) OBVIOUS
<1> QED BY <1>1 DEF Init, TypeOK

\* Every map of the builder keeps values of its type, and the candle in progress is that
\* of the last tick's minute, whatever ticks arrive, are repeated or are lost in a gap.
THEOREM TypeCorrect == Spec => []TypeOK
  BY TypeInit, TypeNext, PTL DEF Spec

-----------------------------------------------------------------------------
(* One token. *)

LEMMA Minutes ==
    ASSUME NEW em \in Seq(Candle), NEW n \in DOMAIN em
    PROVE  em[n].minute \in Nat
<1>1. em[n] \in Candle OBVIOUS
<1> QED BY <1>1 DEF Candle

\* Emitting a whole candle of a later minute that is over.
LEMMA EmittedAppend ==
    ASSUME NEW L, NEW ws, NEW em \in Seq(Candle), NEW c \in Candle, NEW s,
           EmittedOK(L, ws, em, s), \A n \in DOMAIN em : em[n].minute < c.minute,
           Whole(L, c), c.minute < Minute(s)
    PROVE  EmittedOK(L, {}, Append(em, c), s)
<1> DEFINE e == Append(em, c)
<1>1. /\ Len(em) \in Nat /\ DOMAIN em = 1 .. Len(em) /\ DOMAIN e = 1 .. Len(em) + 1
      /\ \A i \in 1 .. Len(em) : e[i] = em[i]
      /\ e[Len(em) + 1] = c
  OBVIOUS
<1> HIDE DEF e
<1>2. ASSUME NEW n \in DOMAIN e PROVE Whole(L, e[n]) /\ e[n].minute < Minute(s)
  <2>1. CASE n = Len(em) + 1 BY <1>1, <2>1
  <2>2. CASE n # Len(em) + 1
    <3>1. n \in DOMAIN em /\ e[n] = em[n] BY <1>1, <2>2
    <3> QED BY <3>1 DEF EmittedOK
  <2> QED BY <2>1, <2>2
<1>3. ASSUME NEW i \in DOMAIN e, NEW j \in DOMAIN e, i < j PROVE e[i].minute < e[j].minute
  <2>1. i \in DOMAIN em /\ e[i] = em[i] BY <1>1, <1>3
  <2>2. CASE j = Len(em) + 1 BY <1>1, <2>1, <2>2
  <2>3. CASE j # Len(em) + 1
    <3>1. j \in DOMAIN em /\ e[j] = em[j] BY <1>1, <2>3
    <3> QED BY <1>3, <2>1, <3>1 DEF EmittedOK
  <2> QED BY <2>2, <2>3
<1> QED BY <1>2, <1>3 DEF EmittedOK, e

\* A tick of a later minute leaves the emitted candles exact.
LEMMA EmittedAfterTick ==
    ASSUME NEW L \in Seq(LogEntry), NEW ws, NEW em \in Seq(Candle), NEW x \in Tick,
           EmittedOK(L, ws, em, x.at), NEW u, u.candle.minute = Minute(x.at)
    PROVE  EmittedOK(Append(L, x), {u}, em, x.at)
<1>0. x \in LogEntry /\ x.at \in Nat /\ x.at <= x.at BY TickFacts
<1>1. x \in LogEntry /\ Minute(x.at) \in Nat BY <1>0, MinuteMonotone
<1>2. ASSUME NEW n \in DOMAIN em
      PROVE  Whole(Append(L, x), em[n]) /\ em[n].minute < u.candle.minute
  <2>1. em[n].minute < Minute(x.at) /\ Whole(L, em[n]) BY DEF EmittedOK
  <2>2. Minute(x.at) # em[n].minute BY <1>1, <2>1, Minutes
  <2> QED BY <1>1, <2>1, <2>2, WholeKept
<1> QED BY <1>2 DEF EmittedOK

LEMMA EmittedAfterGap ==
    ASSUME NEW L \in Seq(LogEntry), NEW ws, NEW em \in Seq(Candle), NEW s,
           EmittedOK(L, ws, em, s)
    PROVE  EmittedOK(Append(L, Gap), {}, em, s)
<1>1. Gap \in LogEntry BY DEF LogEntry
<1>2. \A n \in DOMAIN em : Whole(Append(L, Gap), em[n])
  BY <1>1, WholeKept DEF EmittedOK
<1> QED BY <1>2 DEF EmittedOK

\* The last entry of a log is the last tick's, or a gap.
LEMMA LastEntry ==
    ASSUME NEW L \in Seq(LogEntry), NEW at \in Nat \cup {None}, NEW volume, NEW s,
           LogOK(L, at, volume, s), at # None
    PROVE  /\ L # <<>> /\ Len(L) \in DOMAIN L /\ L[Len(L)] # Gap /\ L[Len(L)].at = at
           /\ \A i \in DOMAIN L : L[i] # Gap => L[i].at <= at
<1>1. L # <<>> /\ L[Len(L)].at = at BY DEF LogOK
<1>2. Len(L) \in DOMAIN L BY <1>1
<1>3. L[Len(L)] # Gap BY <1>1, <1>2, EntryKinds
<1>4. ASSUME NEW i \in DOMAIN L, L[i] # Gap PROVE L[i].at <= at
  <2>1. i \in Nat /\ i <= Len(L) /\ Len(L) \in Nat /\ L[i].at \in Nat BY <1>4, EntryKinds
  <2>2. CASE i = Len(L) BY <1>1, <2>1, <2>2
  <2>3. CASE i < Len(L) BY <1>1, <1>2, <1>3, <1>4, <2>3 DEF LogOK, TimesInOrder
  <2> QED BY <2>1, <2>2, <2>3
<1> QED BY <1>1, <1>2, <1>3, <1>4

\* A known baseline means that a tick was taken since the last gap.
LEMMA BaselineTick ==
    ASSUME NEW L \in Seq(LogEntry), NEW at, NEW volume, NEW s,
           LogOK(L, at, volume, s), volume # None
    PROVE  at # None
<1>1. PICK v \in DOMAIN L : \A j \in v .. Len(L) : L[j] # Gap BY DEF LogOK, Baseline
<1>2. Len(L) \in Nat /\ DOMAIN L = 1 .. Len(L) /\ L # <<>> OBVIOUS
<1>3. Len(L) \in DOMAIN L /\ L[Len(L)] # Gap BY <1>1, <1>2
<1>4. L[Len(L)].at \in Nat BY <1>3, EntryKinds
<1> QED BY <1>2, <1>4 DEF LogOK, None

\* Every tick of this connection that the feed repeats is ignored.
LEMMA RepeatedIgnored ==
    ASSUME TypeOK, NEW k \in Tokens, TokenOK(k), NEW i \in DOMAIN log[k], Redeliver(k, i)
    PROVE  Ignored(k, log[k][i])
<1> DEFINE L == log[k]
<1>0. /\ L \in Seq(LogEntry) /\ lastTickAt[k] \in Nat \cup {None}
      /\ lastVolume[k] \in Nat \cup {None}
  BY DEF TypeOK, LogEntry
<1>1. /\ L[i] \in Tick
      /\ \A g \in i .. Len(L) : L[g] # Gap
  BY RedeliveredTick DEF Redeliver
<1>2. /\ L[i] # Gap /\ L[i].at \in Nat /\ L[i].volume \in Nat \cup {None}
  BY <1>0, <1>1, EntryKinds
<1>3. LogOK(L, lastTickAt[k], lastVolume[k], now) BY DEF TokenOK
<1>4. lastTickAt[k] # None
  <2>1. Len(L) \in Nat /\ DOMAIN L = 1 .. Len(L) /\ L # <<>> BY <1>0
  <2>2. Len(L) \in DOMAIN L /\ L[Len(L)] # Gap BY <1>1, <2>1
  <2>3. L[Len(L)].at \in Nat BY <1>0, <2>2, EntryKinds
  <2> QED BY <1>3, <2>1, <2>3 DEF LogOK, None
<1>5. L[i].at <= lastTickAt[k] BY <1>0, <1>2, <1>3, <1>4, LastEntry
<1>6. CASE L[i].at < lastTickAt[k] BY <1>6 DEF Ignored
<1>7. CASE L[i].at = lastTickAt[k]
  <2>1. L[i].volume # None => lastVolume[k] # None /\ L[i].volume <= lastVolume[k]
    BY <1>1, <1>3, <1>7 DEF LogOK, NothingAbove
  <2>2. ~HasPositiveVolumeDelta(lastVolume[k], L[i].volume)
    BY <1>0, <1>2, <2>1 DEF HasPositiveVolumeDelta
  <2> QED BY <1>7, <2>2 DEF Ignored
<1> QED BY <1>0, <1>2, <1>4, <1>5, <1>6, <1>7

\* A token whose state does not change, while time passes.
LEMMA TokenLater ==
    ASSUME TypeOK, NEW k \in Tokens, TokenOK(k), now' \in Nat, now <= now',
           log'[k] = log[k], lastTickAt'[k] = lastTickAt[k],
           lastVolume'[k] = lastVolume[k], working'[k] = working[k],
           emitted'[k] = emitted[k]
    PROVE  TokenOK(k)'
<1>0. /\ log[k] \in Seq(LogEntry) /\ lastTickAt[k] \in Nat \cup {None}
      /\ emitted[k] \in Seq(Candle) /\ now \in Nat
  BY DEF TypeOK, LogEntry
<1>1. LogOK(log[k], lastTickAt[k], lastVolume[k], now') BY <1>0, LogLater DEF TokenOK
<1>2. WorkingOK(log[k], lastTickAt[k], working[k], now') BY <1>0, WorkingLater DEF TokenOK
<1>3. EmittedOK(log[k], working[k], emitted[k], now') BY <1>0, EmittedLater DEF TokenOK
<1>4. /\ LogOK(log'[k], lastTickAt'[k], lastVolume'[k], now')
      /\ WorkingOK(log'[k], lastTickAt'[k], working'[k], now')
      /\ EmittedOK(log'[k], working'[k], emitted'[k], now')
  BY <1>1, <1>2, <1>3
<1> QED BY <1>4 DEF TokenOK

\* Whether a tick extends the candle of its minute: the candle stays whole.
LEMMA Extended ==
    ASSUME TypeOK, NEW k \in Tokens, TokenOK(k), NEW x \in Tick, NEW w \in working[k],
           w.candle.minute = Minute(x.at), NEW u,
           u = AddVolume(UpdatePrice(w, x.price), lastVolume[k], x.volume), u.complete
    PROVE  Whole(Append(log[k], x), u.candle)
<1> DEFINE L == log[k]
           V == lastVolume[k]
           p == UpdatePrice(w, x.price)
<1>0. /\ L \in Seq(LogEntry) /\ lastTickAt[k] \in Nat \cup {None} /\ V \in Nat \cup {None}
      /\ w \in WorkingCandle /\ x.price \in Prices /\ x.volume \in Nat \cup {None}
  BY TickFacts DEF TypeOK, LogEntry
<1>1. LogOK(L, lastTickAt[k], V, now) BY DEF TokenOK
<1>2. /\ lastTickAt[k] # None /\ w.candle.minute = Minute(lastTickAt[k])
      /\ w.complete => Whole(L, w.candle)
  BY DEF TokenOK, WorkingOK
<1>3. L # <<>> /\ L[Len(L)] # Gap /\ Minute(L[Len(L)].at) = Minute(x.at)
  BY <1>0, <1>1, <1>2, LastEntry
<1>4. Baseline(L, V) BY <1>1 DEF LogOK
<1>5. /\ p \in WorkingCandle
      /\ p.complete = w.complete
      /\ p.candle.minute = w.candle.minute /\ p.candle.open = w.candle.open
      /\ p.candle.high = (IF x.price > w.candle.high THEN x.price ELSE w.candle.high)
      /\ p.candle.low = (IF x.price < w.candle.low THEN x.price ELSE w.candle.low)
      /\ p.candle.close = x.price /\ p.candle.volume = w.candle.volume
  BY <1>0, UpdatePriceIs
<1>6. u = AddVolume(p, V, x.volume) OBVIOUS
<1> HIDE DEF L, V, p
<1>7. /\ u \in WorkingCandle
      /\ u.candle.minute = p.candle.minute /\ u.candle.open = p.candle.open
      /\ u.candle.high = p.candle.high /\ u.candle.low = p.candle.low
      /\ u.candle.close = p.candle.close
      /\ p.complete
      /\ x.volume # None => V # None
      /\ u.candle.volume =
           IF x.volume = None THEN p.candle.volume ELSE p.candle.volume + (x.volume - V)
  <2>1. /\ p \in WorkingCandle /\ V \in Nat \cup {None} /\ x.volume \in Nat \cup {None}
    BY <1>0, <1>5
  <2>2. VolumeAdded(p, V, x.volume, u) BY <1>6, <2>1, AddVolumeIs
  <2> QED BY <2>2 DEF VolumeAdded
<1>8. w.candle \in Candle /\ u.candle \in Candle BY <1>0, <1>7 DEF WorkingCandle
<1>9. Whole(L, w.candle) BY <1>2, <1>5, <1>7
<1>10. /\ u.candle.minute = w.candle.minute /\ u.candle.open = w.candle.open
       /\ u.candle.close = x.price
       /\ u.candle.high = (IF x.price > w.candle.high THEN x.price ELSE w.candle.high)
       /\ u.candle.low = (IF x.price < w.candle.low THEN x.price ELSE w.candle.low)
       /\ u.candle.volume = (IF x.volume = None THEN w.candle.volume
                             ELSE w.candle.volume + (x.volume - V))
  BY <1>5, <1>7
<1> DEFINE c == w.candle
           d == u.candle
<1> HIDE DEF c, d
<1>11. /\ c \in Candle /\ d \in Candle /\ c.minute = Minute(x.at) /\ Whole(L, c)
       /\ d.minute = c.minute /\ d.open = c.open /\ d.close = x.price
       /\ d.high = (IF x.price > c.high THEN x.price ELSE c.high)
       /\ d.low = (IF x.price < c.low THEN x.price ELSE c.low)
       /\ d.volume = (IF x.volume = None THEN c.volume ELSE c.volume + (x.volume - V))
  BY <1>8, <1>9, <1>10 DEF c, d
<1>12. Whole(Append(L, x), d) BY <1>0, <1>3, <1>4, <1>7, <1>11, WholeGrows
<1> QED BY <1>12 DEF L, d

\* Or whether it starts one: no tick of the minute came before.
LEMMA Started ==
    ASSUME TypeOK, NEW k \in Tokens, TokenOK(k), NEW x \in Tick, x.at >= now,
           x.at >= lastTickAt[k],
           \A w \in working[k] : w.candle.minute # Minute(x.at), NEW u,
           u = AddVolume(NewWorkingCandle(k, x), lastVolume[k], x.volume), u.complete
    PROVE  Whole(Append(log[k], x), u.candle)
<1> DEFINE L == log[k]
           V == lastVolume[k]
           p == NewWorkingCandle(k, x)
           at == lastTickAt[k]
<1>0. /\ L \in Seq(LogEntry) /\ at \in Nat \cup {None} /\ V \in Nat \cup {None}
      /\ x.price \in Prices /\ x.volume \in Nat \cup {None} /\ x.at \in Nat /\ now \in Nat
  BY TickFacts DEF TypeOK, LogEntry
<1>1. LogOK(L, at, V, now) BY DEF TokenOK
<1>2. Baseline(L, V) BY <1>1 DEF LogOK
<1>3. /\ p \in WorkingCandle
      /\ p.complete = (V # None)
      /\ p.candle.minute = Minute(x.at) /\ p.candle.volume = 0
      /\ p.candle.open = x.price /\ p.candle.high = x.price
      /\ p.candle.low = x.price /\ p.candle.close = x.price
  BY NewWorkingCandleIs
<1>4. u = AddVolume(p, V, x.volume) OBVIOUS
<1>5. WorkingOK(L, at, working[k], now) BY DEF TokenOK
<1> HIDE DEF L, V, p, at
<1>6. /\ u \in WorkingCandle
      /\ u.candle.minute = p.candle.minute /\ u.candle.open = p.candle.open
      /\ u.candle.high = p.candle.high /\ u.candle.low = p.candle.low
      /\ u.candle.close = p.candle.close
      /\ p.complete
      /\ u.candle.volume =
           IF x.volume = None THEN p.candle.volume ELSE p.candle.volume + (x.volume - V)
  <2>1. /\ p \in WorkingCandle /\ V \in Nat \cup {None} /\ x.volume \in Nat \cup {None}
    BY <1>0, <1>3
  <2>2. VolumeAdded(p, V, x.volume, u) BY <1>4, <2>1, AddVolumeIs
  <2> QED BY <2>2 DEF VolumeAdded
<1>7. V # None /\ V \in Nat BY <1>0, <1>3, <1>6
<1>8. at # None /\ at \in Nat BY <1>0, <1>1, <1>7, BaselineTick
<1>9. Minute(at) < Minute(x.at)
  <2>1. /\ Minute(at) \in Nat /\ Minute(x.at) \in Nat /\ Minute(at) <= Minute(x.at)
    BY <1>0, <1>8, MinuteMonotone DEF at
  <2>2. Minute(now) \in Nat /\ Minute(now) <= Minute(x.at) BY <1>0, MinuteMonotone
  <2>3. CASE working[k] = {} BY <1>5, <1>8, <2>1, <2>2, <2>3 DEF WorkingOK
  <2>4. CASE working[k] # {}
    <3>1. PICK w \in working[k] : w.candle.minute = Minute(at) BY <1>5, <2>4 DEF WorkingOK
    <3> QED BY <2>1, <3>1
  <2> QED BY <2>3, <2>4
<1>10. TicksOf(L, Minute(x.at)) = {}
  <2> SUFFICES ASSUME NEW i \in TicksOf(L, Minute(x.at)) PROVE FALSE OBVIOUS
  <2>1. i \in DOMAIN L /\ L[i] # Gap /\ Minute(L[i].at) = Minute(x.at) BY DEF TicksOf
  <2>2. L[i].at \in Nat /\ L[i].at <= at BY <1>0, <1>1, <1>8, <2>1, EntryKinds, LastEntry
  <2>3. /\ Minute(L[i].at) <= Minute(at) /\ Minute(at) \in Nat /\ Minute(L[i].at) \in Nat
    BY <1>8, <2>2, MinuteMonotone
  <2> QED BY <1>9, <2>1, <2>3
<1> DEFINE c == u.candle
<1>11. c \in Candle BY <1>6 DEF WorkingCandle
<1>12. /\ c.minute = Minute(x.at) /\ c.open = x.price /\ c.high = x.price
       /\ c.low = x.price /\ c.close = x.price
       /\ c.volume = (IF x.volume = None THEN 0 ELSE x.volume - V)
  BY <1>0, <1>3, <1>6, <1>7
<1> HIDE DEF c
<1>13. Whole(Append(L, x), c) BY <1>0, <1>2, <1>7, <1>10, <1>11, <1>12, WholeStarts
<1> QED BY <1>13 DEF L, c

\* A tick that is taken keeps the token's invariant.
LEMMA TokenTick ==
    ASSUME TypeOK, NEW k \in Tokens, TokenOK(k), NEW x \in Tick, x.at >= now,
           ~Ignored(k, x), AcceptTick(k, x), now' = x.at
    PROVE  TokenOK(k)'
<1> DEFINE L == log[k]
           M == Append(L, x)
           next == IF x.volume = None THEN lastVolume[k] ELSE x.volume
<1>0. /\ L \in Seq(LogEntry) /\ lastTickAt[k] \in Nat \cup {None}
      /\ lastVolume[k] \in Nat \cup {None} /\ emitted[k] \in Seq(Candle)
      /\ \A w \in working[k] : w \in WorkingCandle
      /\ x.at \in Nat /\ now \in Nat
  BY TickFacts DEF TypeOK, LogEntry
<1>1. /\ x.at >= lastTickAt[k]
      /\ x.at = lastTickAt[k] => HasPositiveVolumeDelta(lastVolume[k], x.volume)
  BY <1>0 DEF Ignored, None
<1>2. log'[k] = M /\ lastTickAt'[k] = x.at /\ lastVolume'[k] = next
  BY DEF AcceptTick, TypeOK
<1>3. LogOK(M, x.at, next, x.at)
  BY <1>0, <1>1, LogAfterTick DEF TokenOK
<1>4. PICK u \in WorkingCandle :
             /\ working' = [working EXCEPT ![k] = {u}]
             /\ u.candle.minute = Minute(x.at)
             /\ \/ /\ emitted' = emitted
                   /\ \E w \in working[k] :
                        /\ w.candle.minute = Minute(x.at)
                        /\ u = AddVolume(UpdatePrice(w, x.price), lastVolume[k], x.volume)
                \/ /\ \A w \in working[k] : w.candle.minute # Minute(x.at)
                   /\ u = AddVolume(NewWorkingCandle(k, x), lastVolume[k], x.volume)
                   /\ \/ emitted' = emitted
                      \/ \E w \in working[k] :
                           /\ w.complete
                           /\ emitted' = [emitted EXCEPT ![k] = Append(@, w.candle)]
  BY AcceptEffect
<1>5. working'[k] = {u} BY <1>4 DEF TypeOK
<1>6. u.complete => Whole(M, u.candle)
  <2>1. CASE \E w \in working[k] :
               /\ w.candle.minute = Minute(x.at)
               /\ u = AddVolume(UpdatePrice(w, x.price), lastVolume[k], x.volume)
    BY <2>1, Extended
  <2>2. CASE /\ \A w \in working[k] : w.candle.minute # Minute(x.at)
             /\ u = AddVolume(NewWorkingCandle(k, x), lastVolume[k], x.volume)
    BY <1>1, <2>2, Started
  <2> QED BY <1>4, <2>1, <2>2
<1>7. WorkingOK(M, x.at, {u}, x.at)
  BY <1>0, <1>4, <1>6 DEF WorkingOK, None
<1>8. EmittedOK(L, working[k], emitted[k], x.at)
  BY <1>0, EmittedLater DEF TokenOK
<1>9. EmittedOK(M, {u}, emitted'[k], x.at)
  <2>1. CASE emitted' = emitted
    BY <1>0, <1>4, <1>8, <2>1, EmittedAfterTick
  <2>2. ASSUME NEW w \in working[k], w.complete, w.candle.minute # Minute(x.at),
               emitted' = [emitted EXCEPT ![k] = Append(@, w.candle)]
        PROVE  EmittedOK(M, {u}, emitted'[k], x.at)
    <3>1. emitted'[k] = Append(emitted[k], w.candle) BY <2>2 DEF TypeOK
    <3>2. w.candle \in Candle BY <1>0 DEF WorkingCandle
    <3>3. Whole(L, w.candle) /\ w.candle.minute = Minute(lastTickAt[k]) /\ lastTickAt[k] # None
      BY <2>2 DEF TokenOK, WorkingOK
    <3>4. w.candle.minute < Minute(x.at)
      <4>1. /\ Minute(lastTickAt[k]) <= Minute(x.at) /\ Minute(lastTickAt[k]) \in Nat
            /\ Minute(x.at) \in Nat
        BY <1>0, <1>1, <3>3, MinuteMonotone
      <4> QED BY <2>2, <3>3, <4>1
    <3>5. \A n \in DOMAIN emitted[k] : emitted[k][n].minute < w.candle.minute
      BY <1>8 DEF EmittedOK
    <3>6. EmittedOK(L, {}, Append(emitted[k], w.candle), x.at)
      BY <1>0, <1>8, <3>2, <3>3, <3>4, <3>5, EmittedAppend
    <3>7. Append(emitted[k], w.candle) \in Seq(Candle) BY <1>0, <3>2
    <3>8. EmittedOK(M, {u}, Append(emitted[k], w.candle), x.at)
      BY <1>0, <1>4, <3>6, <3>7, EmittedAfterTick
    <3> QED BY <3>1, <3>8
  <2> QED BY <1>4, <2>1, <2>2
<1> HIDE DEF M, next
<1>10. /\ LogOK(log'[k], lastTickAt'[k], lastVolume'[k], now')
       /\ WorkingOK(log'[k], lastTickAt'[k], working'[k], now')
       /\ EmittedOK(log'[k], working'[k], emitted'[k], now')
  BY <1>2, <1>3, <1>5, <1>7, <1>9
<1> QED BY <1>10 DEF TokenOK

\* So does a gap.
LEMMA TokenGap ==
    ASSUME TypeOK, NEW k \in Tokens, TokenOK(k), InvalidateAfterStreamGap
    PROVE  TokenOK(k)'
<1>0. log[k] \in Seq(LogEntry) /\ emitted[k] \in Seq(Candle) /\ now \in Nat
  BY DEF TypeOK, LogEntry
<1>1. /\ working'[k] = {} /\ lastTickAt'[k] = None /\ lastVolume'[k] = None
      /\ log'[k] = Append(log[k], Gap) /\ emitted'[k] = emitted[k] /\ now' = now
  BY DEF InvalidateAfterStreamGap
<1>2. LogOK(Append(log[k], Gap), None, None, now) BY <1>0, LogAfterGap DEF TokenOK
<1>3. WorkingOK(Append(log[k], Gap), None, {}, now) BY DEF WorkingOK
<1>4. EmittedOK(Append(log[k], Gap), {}, emitted[k], now)
  BY <1>0, EmittedAfterGap DEF TokenOK
<1>5. /\ LogOK(log'[k], lastTickAt'[k], lastVolume'[k], now')
      /\ WorkingOK(log'[k], lastTickAt'[k], working'[k], now')
      /\ EmittedOK(log'[k], working'[k], emitted'[k], now')
  BY <1>1, <1>2, <1>3, <1>4
<1> QED BY <1>5 DEF TokenOK

\* And a flush, of a candle or of none.
LEMMA TokenFlush ==
    ASSUME TypeOK, NEW k \in Tokens, TokenOK(k), NEW cutoff \in Nat,
           FlushCompletedBefore(cutoff)
    PROVE  TokenOK(k)'
<1>0. /\ log[k] \in Seq(LogEntry) /\ lastTickAt[k] \in Nat \cup {None}
      /\ emitted[k] \in Seq(Candle) /\ now \in Nat
      /\ \A w \in working[k] : w \in WorkingCandle
  BY DEF TypeOK, LogEntry
<1>1. /\ now' = cutoff /\ cutoff >= now
      /\ log'[k] = log[k] /\ lastTickAt'[k] = lastTickAt[k] /\ lastVolume'[k] = lastVolume[k]
  BY DEF FlushCompletedBefore
<1>2. CASE working'[k] = working[k] /\ emitted'[k] = emitted[k]
  BY <1>0, <1>1, <1>2, TokenLater
<1>3. ASSUME NEW w \in working[k], working[k] = {w}, Flushable(w, cutoff),
             working'[k] = {}, emitted'[k] = Append(emitted[k], w.candle)
      PROVE  TokenOK(k)'
  <2>1. w.candle \in Candle BY <1>0 DEF WorkingCandle
  <2>2. w.complete /\ w.candle.minute < Minute(cutoff) BY <1>3 DEF Flushable
  <2>3. Whole(log[k], w.candle) /\ w.candle.minute = Minute(lastTickAt[k])
    BY <2>2 DEF TokenOK, WorkingOK
  <2>4. EmittedOK(log[k], working[k], emitted[k], cutoff)
    BY <1>0, <1>1, EmittedLater DEF TokenOK
  <2>5. \A n \in DOMAIN emitted[k] : emitted[k][n].minute < w.candle.minute
    BY <2>4 DEF EmittedOK
  <2>6. EmittedOK(log[k], {}, Append(emitted[k], w.candle), cutoff)
    BY <1>0, <2>1, <2>2, <2>3, <2>4, <2>5, EmittedAppend
  <2>7. WorkingOK(log[k], lastTickAt[k], {}, cutoff) BY <2>2, <2>3 DEF WorkingOK
  <2>8. LogOK(log[k], lastTickAt[k], lastVolume[k], cutoff)
    BY <1>0, <1>1, LogLater DEF TokenOK
  <2>9. /\ LogOK(log'[k], lastTickAt'[k], lastVolume'[k], now')
        /\ WorkingOK(log'[k], lastTickAt'[k], working'[k], now')
        /\ EmittedOK(log'[k], working'[k], emitted'[k], now')
    BY <1>1, <1>3, <2>6, <2>7, <2>8
  <2> QED BY <2>9 DEF TokenOK
<1> QED BY <1>2, <1>3, FlushEffect

-----------------------------------------------------------------------------
(* The theorems. *)

LEMMA BuilderInit == Init => BuilderInv
<1> SUFFICES ASSUME Init PROVE BuilderInv OBVIOUS
<1>1. TypeOK BY TypeInit
<1>2. ASSUME NEW k \in Tokens PROVE TokenOK(k)
  <2>1. /\ log[k] = <<>> /\ lastTickAt[k] = None /\ lastVolume[k] = None
        /\ working[k] = {} /\ emitted[k] = <<>> /\ now = 0
    BY DEF Init
  <2>2. DOMAIN log[k] = {} /\ DOMAIN emitted[k] = {} BY <2>1
  <2>3. LogOK(log[k], None, None, now)
    BY <2>1, <2>2 DEF LogOK, TimesInOrder, Baseline, NothingAbove
  <2>4. WorkingOK(log[k], None, {}, now) BY DEF WorkingOK
  <2>5. EmittedOK(log[k], {}, emitted[k], now) BY <2>2 DEF EmittedOK
  <2> QED BY <2>1, <2>3, <2>4, <2>5 DEF TokenOK
<1> QED BY <1>1, <1>2 DEF BuilderInv

LEMMA BuilderNext == BuilderInv /\ [Next]_vars => BuilderInv'
<1> SUFFICES ASSUME BuilderInv, [Next]_vars PROVE BuilderInv' OBVIOUS
<1>0. TypeOK /\ TypeOK' /\ now \in Nat /\ now' \in Nat BY TypeNext DEF BuilderInv, TypeOK
<1> SUFFICES ASSUME NEW k \in Tokens PROVE TokenOK(k)' BY <1>0 DEF BuilderInv
<1>1. TokenOK(k) BY DEF BuilderInv
<1>2. ASSUME RejectTick, now <= now' PROVE TokenOK(k)'
  <2>1. UNCHANGED <<working, lastTickAt, lastVolume, emitted, log>> BY <1>2 DEF RejectTick
  <2> QED BY <1>0, <1>1, <1>2, <2>1, TokenLater
<1>3. CASE UNCHANGED vars
  <2>1. RejectTick /\ now <= now' BY <1>0, <1>3 DEF vars, RejectTick
  <2> QED BY <1>2, <2>1
<1>4. ASSUME NEW j \in Tokens, NEW at \in 0 .. MaxTime, NEW price \in Prices,
             NEW traded \in RawVolumes \cup {None}, NEW volume \in RawVolumes \cup {None},
             FreshTick(j, at, price, traded, volume)
      PROVE  TokenOK(k)'
  <2> DEFINE x == [at |-> at, price |-> price, volume |-> NormalizeVolume(traded, volume)]
  <2>1. x \in Tick /\ x.at = at BY FreshIsTick
  <2>2. now' = at /\ at >= now /\ (RejectTick \/ (~Ignored(j, x) /\ AcceptTick(j, x)))
    BY <1>4 DEF FreshTick
  <2> HIDE DEF x
  <2>3. now <= now' BY <1>0, <2>2
  <2>4. CASE RejectTick BY <1>2, <2>3, <2>4
  <2>5. CASE ~Ignored(j, x) /\ AcceptTick(j, x) /\ k = j
    BY <1>0, <1>1, <2>1, <2>2, <2>5, TokenTick
  <2>6. CASE AcceptTick(j, x) /\ k # j
    <3>1. PICK u \in WorkingCandle :
             /\ working' = [working EXCEPT ![j] = {u}]
             /\ \/ emitted' = emitted
                \/ \E w \in working[j] :
                     emitted' = [emitted EXCEPT ![j] = Append(@, w.candle)]
      BY <1>0, <2>1, <2>6, AcceptEffect
    <3>2. /\ log'[k] = log[k] /\ lastTickAt'[k] = lastTickAt[k]
          /\ lastVolume'[k] = lastVolume[k]
      BY <1>0, <2>6 DEF AcceptTick, TypeOK
    <3>3. working'[k] = working[k] /\ emitted'[k] = emitted[k]
      BY <1>0, <2>6, <3>1 DEF TypeOK
    <3> QED BY <1>0, <1>1, <2>3, <3>2, <3>3, TokenLater
  <2> QED BY <2>2, <2>4, <2>5, <2>6
<1>5. ASSUME NEW j \in Tokens, NEW i \in DOMAIN log[j], Redeliver(j, i) PROVE TokenOK(k)'
  <2>1. TokenOK(j) BY DEF BuilderInv
  <2>2. Ignored(j, log[j][i]) BY <1>0, <1>5, <2>1, RepeatedIgnored
  <2>3. RejectTick /\ now <= now' BY <1>0, <1>5, <2>2 DEF Redeliver
  <2> QED BY <1>2, <2>3
<1>6. CASE InvalidateAfterStreamGap BY <1>0, <1>1, <1>6, TokenGap
<1>7. ASSUME NEW cutoff \in 0 .. MaxTime, FlushCompletedBefore(cutoff) PROVE TokenOK(k)'
  <2>1. cutoff \in Nat BY BuilderAssumption
  <2> QED BY <1>0, <1>1, <1>7, <2>1, TokenFlush
<1> QED BY <1>3, <1>4, <1>5, <1>6, <1>7 DEF Next

LEMMA BuilderExact == BuilderInv => EmittedExact
<1> SUFFICES ASSUME BuilderInv PROVE EmittedExact OBVIOUS
<1>1. ASSUME NEW k \in Tokens, NEW n \in DOMAIN emitted[k]
      PROVE  log[k] \in Seq(LogEntry) /\ emitted[k][n] \in Candle /\ Whole(log[k], emitted[k][n])
  <2>1. log[k] \in Seq(LogEntry) /\ emitted[k] \in Seq(Candle)
    BY DEF BuilderInv, TypeOK, LogEntry
  <2>2. Whole(log[k], emitted[k][n]) BY DEF BuilderInv, TokenOK, EmittedOK
  <2> QED BY <2>1, <2>2
<1>2. EmittedInOrder BY DEF BuilderInv, TokenOK, EmittedOK, EmittedInOrder
<1>3. OnlyWholeMinutes BY <1>1, WholeIsReference DEF OnlyWholeMinutes
<1>4. \A k \in Tokens : \A n \in DOMAIN emitted[k] :
          emitted[k][n] = ReferenceCandle(k, emitted[k][n].minute)
  BY <1>1, WholeIsReference
<1> QED BY <1>2, <1>3, <1>4 DEF EmittedExact

LEMMA BuilderAlways == Spec => []BuilderInv
  BY BuilderInit, BuilderNext, PTL DEF Spec

\* Every candle that accept_tick or flush_completed_before returns is, then and ever
\* after, the candle of its minute, is of a whole minute, and comes once and in order.
THEOREM EmittedCorrect == Spec => []EmittedExact
  BY BuilderAlways, BuilderExact, PTL

\* What the feed delivers a second time changes nothing: accept_tick ignores every tick
\* of this connection that it already took.
RepeatsChangeNothing ==
    [][\A k \in Tokens : \A i \in DOMAIN log[k] : Redeliver(k, i) => UNCHANGED vars]_vars

\* A tick of this connection that comes again never changes the state.
THEOREM RepeatsCorrect == Spec => RepeatsChangeNothing
<1>1. BuilderInv => (\A k \in Tokens : \A i \in DOMAIN log[k] :
                        Redeliver(k, i) => UNCHANGED vars)
  <2> SUFFICES ASSUME BuilderInv, NEW k \in Tokens, NEW i \in DOMAIN log[k], Redeliver(k, i)
               PROVE  UNCHANGED vars
    OBVIOUS
  <2>1. Ignored(k, log[k][i]) BY RepeatedIgnored DEF BuilderInv
  <2> QED BY <2>1 DEF Redeliver, RejectTick, vars
<1> QED BY <1>1, BuilderAlways, PTL DEF RepeatsChangeNothing

=============================================================================
