------------------------ MODULE BrokerSessionProofs ------------------------
(***************************************************************************)
(* Theorems about BrokerSession: for any number of requests and logins and *)
(* any length of a day, the properties of the session rows that the run    *)
(* checks on a small instance.                                             *)
(***************************************************************************)
EXTENDS BrokerSession, TLAPS

-----------------------------------------------------------------------------
(* Arithmetic: the expiry that the code computes is the next 06:00. *)

\* A multiple of d between -d and d is zero.
LEMMA Multiple ==
    ASSUME NEW d \in Nat \ {0}, NEW k \in Int, d * k < d, -d < d * k
    PROVE  k = 0
<1>1. ASSUME k >= 1 PROVE FALSE
  <2>1. k - 1 \in Nat BY <1>1
  <2>2. d * (k - 1) >= 0 BY <2>1
  <2>3. d * (k - 1) = d * k - d OBVIOUS
  <2> QED BY <2>2, <2>3
<1>2. ASSUME k <= -1 PROVE FALSE
  <2>1. -k - 1 \in Nat BY <1>2
  <2>2. d * (-k - 1) >= 0 BY <2>1
  <2>3. d * (-k - 1) = -(d * k) - d OBVIOUS
  <2> QED BY <2>2, <2>3
<1> QED BY <1>1, <1>2

\* Quotient and remainder.
LEMMA DivMod ==
    ASSUME NEW t \in Int, NEW d \in Nat \ {0}
    PROVE  /\ t % d \in 0 .. d - 1 /\ t \div d \in Int
           /\ t = d * (t \div d) + (t % d)
OBVIOUS

\* They are unique.
LEMMA ModUnique ==
    ASSUME NEW d \in Nat \ {0}, NEW a \in Int, NEW b \in Int,
           NEW r \in 0 .. d - 1, NEW m \in 0 .. d - 1, d * a + r = d * b + m
    PROVE  a = b /\ r = m
<1>1. d * (a - b) = d * a - d * b OBVIOUS
<1>2. d * a \in Int /\ d * b \in Int OBVIOUS
<1>3. d * (a - b) = m - r BY <1>1, <1>2
<1>4. d * (a - b) < d /\ -d < d * (a - b) BY <1>3
<1>5. a - b = 0 BY <1>4, Multiple
<1> QED BY <1>5

\* The remainder of a sum.
LEMMA ModOf ==
    ASSUME NEW d \in Nat \ {0}, NEW k \in Int, NEW r \in 0 .. d - 1
    PROVE  (d * k + r) % d = r
<1>1. d * k + r \in Int OBVIOUS
<1>2. PICK e \in Int : e = d * k + r BY <1>1
<1>3. e % d \in 0 .. d - 1 /\ e \div d \in Int /\ e = d * (e \div d) + (e % d)
  BY DivMod
<1>4. d * k + r = d * (e \div d) + (e % d) BY <1>2, <1>3
<1>5. r = e % d BY <1>3, <1>4, ModUnique
<1> QED BY <1>2, <1>5

\* next_kite_expiry yields the 06:00 at which Kite ends a session issued at the same time.
LEMMA ExpiryIsKiteEnd ==
    ASSUME NEW t \in Nat
    PROVE  /\ NextKiteExpiry(t) \in Nat /\ NextKiteExpiry(t) > t
           /\ KiteEnd(t) = NextKiteExpiry(t)
<1> DEFINE d == DayLength
           k == t \div d
           e == NextKiteExpiry(t)
<1>1. d \in Nat \ {0} /\ SixAM \in 0 .. d - 1 BY BrokerSessionAssumption
<1>2. t % d \in 0 .. d - 1 /\ k \in Int /\ t = d * k + (t % d) BY <1>1, DivMod
<1>3. d * k \in Int /\ d * (k + 1) = d * k + d BY <1>1, <1>2
<1> HIDE DEF k
<1>4. e = IF t >= d * k + SixAM THEN d * k + SixAM + d ELSE d * k + SixAM
  BY <1>1, <1>2, <1>3 DEF NextKiteExpiry
<1>5. e \in t + 1 .. t + d BY <1>1, <1>2, <1>3, <1>4
<1>6. e % d = SixAM
  <2> HIDE DEF d, e
  <2>1. \A c \in Int : (d * c + SixAM) % d = SixAM BY <1>1, ModOf
  <2>2. PICK c \in Int : c = k + 1 BY <1>2
  <2>3. d * c + SixAM = d * k + SixAM + d BY <1>1, <1>3, <2>2
  <2>4. (d * k + SixAM) % d = SixAM /\ (d * c + SixAM) % d = SixAM BY <1>2, <2>1
  <2> QED BY <1>4, <2>3, <2>4
<1>7. ASSUME NEW f \in t + 1 .. t + d, f % d = SixAM
      PROVE  f = e
  <2> HIDE DEF d, e
  <2>1. f \in Int /\ e \in Int BY <1>1, <1>5
  <2>2. f % d \in 0 .. d - 1 /\ f \div d \in Int /\ f = d * (f \div d) + (f % d)
    BY <1>1, <2>1, DivMod
  <2>3. e % d \in 0 .. d - 1 /\ e \div d \in Int /\ e = d * (e \div d) + (e % d)
    BY <1>1, <2>1, DivMod
  <2>4. PICK a \in Int, b \in Int : f = d * a + SixAM /\ e = d * b + SixAM
    BY <1>6, <1>7, <2>2, <2>3
  <2>5. d * (a - b) = d * a - d * b /\ d * a \in Int /\ d * b \in Int BY <1>1
  <2>6. d * (a - b) = f - e BY <1>1, <2>1, <2>4, <2>5
  <2>7. d * (a - b) < d /\ -d < d * (a - b) BY <1>1, <1>5, <2>6
  <2>8. a - b = 0 BY <1>1, <2>7, Multiple
  <2>9. a = b BY <2>8
  <2> QED BY <2>4, <2>9
<1>8. KiteEnd(t) = e
  <2> HIDE DEF e
  <2> QED BY <1>5, <1>6, <1>7 DEF KiteEnd
<1> QED BY <1>1, <1>5, <1>8

-----------------------------------------------------------------------------
(* Sequences. *)

\* A sequence with one element replaced.
LEMMA SeqExcept ==
    ASSUME NEW S, NEW s \in Seq(S), NEW i \in 1 .. Len(s), NEW v \in S
    PROVE  LET t == [s EXCEPT ![i] = v]
           IN  t \in Seq(S) /\ Len(t) = Len(s) /\ DOMAIN t = DOMAIN s
OBVIOUS

-----------------------------------------------------------------------------
(* The inductive invariant. *)

Saving == {"save", "update", "commit"}
Marking == {"mark_expired", "mark_out"}

\* What a request holds at each of its awaits, with n rows, l logins and x tokens.
RecOK(r, n, l, x) ==
    /\ r \in Request
    /\ r.state <= l /\ r.created <= x
    /\ r.pc \in Saving => r.created > 0 /\ r.expires = NextKiteExpiry(r.login)
    /\ r.pc \notin Saving => r.created = 0 /\ r.held = {}
    /\ r.pc \notin Saving \cup {"exchange"} => r.state = 0
    /\ r.pc \in Marking => r.id \in 1 .. n
    /\ r.want \subseteq 1 .. n /\ r.held \subseteq 1 .. n /\ r.seen <= n

\* The fields of a row that never change.
RowOK(w, l, x) ==
    /\ w \in Row
    /\ w.created \in 1 .. x /\ w.state <= l /\ w.expires = NextKiteExpiry(w.login)

TInv ==
    /\ TypeOK /\ Len(deadline) = logins
    /\ \A q \in Requests : RecOK(req[q], Len(rows), logins, exchanged)
    /\ \A i \in 1 .. Len(rows) : RowOK(rows[i], logins, exchanged)

\* The parts of the invariant that the provers need most, in the form they use.
LEMMA TFacts ==
    ASSUME TInv
    PROVE  /\ clock \in Nat /\ logins \in Nat /\ exchanged \in Nat
           /\ deadline \in Seq(Nat) /\ Len(deadline) = logins /\ DOMAIN deadline = 1 .. logins
           /\ revoked \subseteq Nat
           /\ rows \in Seq(Row) /\ Len(rows) \in Nat /\ DOMAIN rows = 1 .. Len(rows)
           /\ req \in [Requests -> Request]
           /\ \A q \in Requests : req[q] \in Request
           /\ \A i \in 1 .. Len(rows) : rows[i] \in Row
BY DEF TInv, TypeOK, RecOK, RowOK

\* A request stays in order when rows, logins and tokens are added.
LEMMA RecGrows ==
    ASSUME NEW r, NEW n \in Nat, NEW l \in Nat, NEW x \in Nat, RecOK(r, n, l, x),
           NEW m \in Nat, NEW k \in Nat, NEW y \in Nat, n <= m, l <= k, x <= y
    PROVE  RecOK(r, m, k, y)
<1>1. r \in Request BY DEF RecOK
<1>2. r.state \in Nat /\ r.created \in Nat /\ r.seen \in Nat BY <1>1 DEF Request
<1>3. r.state <= k /\ r.created <= y /\ r.seen <= m BY <1>2 DEF RecOK
<1>4. r.want \subseteq 1 .. m /\ r.held \subseteq 1 .. m BY DEF RecOK
<1>5. r.pc \in Marking => r.id \in 1 .. m BY DEF RecOK
<1> QED BY <1>1, <1>3, <1>4, <1>5 DEF RecOK

\* So does a row.
LEMMA RowGrows ==
    ASSUME NEW w, NEW l \in Nat, NEW x \in Nat, RowOK(w, l, x),
           NEW k \in Nat, NEW y \in Nat, l <= k, x <= y
    PROVE  RowOK(w, k, y)
<1>1. w \in Row BY DEF RowOK
<1>2. w.state \in Nat /\ w.created \in Nat BY <1>1 DEF Row
<1> QED BY <1>1, <1>2 DEF RowOK

\* A step in which q may change its own record, and no other request moves.
Only(q) == req' \in [Requests -> Request] /\ \A p \in Requests \ {q} : req'[p] = req[p]

\* The invariant is kept by a step of one request that keeps the rest in order.
LEMMA TFrame ==
    ASSUME TInv,
           clock' \in Nat, revoked' \subseteq Nat,
           logins' \in Nat, logins <= logins', exchanged' \in Nat, exchanged <= exchanged',
           deadline' \in Seq(Nat), Len(deadline') = logins',
           rows' \in Seq(Row), Len(rows) <= Len(rows'),
           \A i \in 1 .. Len(rows') : RowOK(rows'[i], logins', exchanged'),
           \/ req' = req
           \/ \E q \in Requests : Only(q) /\ RecOK(req'[q], Len(rows'), logins', exchanged')
    PROVE  TInv'
<1>1. Len(rows) \in Nat /\ Len(rows') \in Nat /\ logins \in Nat /\ exchanged \in Nat
      /\ req \in [Requests -> Request]
  BY TFacts
<1>2. \A p \in Requests : RecOK(req[p], Len(rows'), logins', exchanged')
  BY <1>1, RecGrows DEF TInv
<1>3. req' \in [Requests -> Request] BY <1>1 DEF Only
<1>4. \A p \in Requests : RecOK(req'[p], Len(rows'), logins', exchanged')
  BY <1>1, <1>2 DEF Only
<1>5. TypeOK' BY <1>3 DEF TypeOK
<1> QED BY <1>4, <1>5 DEF TInv

\* A request that has ended is in order.
LEMMA IdleOK ==
    ASSUME NEW n \in Nat, NEW l \in Nat, NEW x \in Nat
    PROVE  Idle \in Request /\ RecOK(Idle, n, l, x)
<1>1. Idle \in Request BY DEF Idle, Request
<1>2. /\ Idle.pc = "idle" /\ Idle.state = 0 /\ Idle.created = 0 /\ Idle.held = {} /\ Idle.want = {}
      /\ Idle.seen = 0
  BY DEF Idle
<1> QED BY <1>1, <1>2 DEF RecOK, Saving, Marking

\* It holds at the start.
LEMMA TInit == Init => TInv
<1> SUFFICES ASSUME Init PROVE TInv OBVIOUS
<1>1. rows = <<>> /\ deadline = <<>> /\ req = [q \in Requests |-> Idle] BY DEF Init
<1>2. RecOK(Idle, 0, 0, 0) /\ Idle \in Request BY IdleOK
<1>3. TypeOK BY <1>1, <1>2 DEF Init, TypeOK
<1>4. \A q \in Requests : req[q] = Idle BY <1>1
<1>5. Len(rows) = 0 /\ Len(deadline) = 0 BY <1>1
<1> QED BY <1>2, <1>3, <1>4, <1>5 DEF TInv, Init
\* What a save makes of the rows.
LEMMA SavedShape ==
    ASSUME TInv, NEW q \in Requests
    PROVE  /\ Saved(req[q]) \in Seq(Row)
           /\ Len(Saved(req[q])) = Len(rows) + 1
           /\ \A i \in 1 .. Len(rows) :
                 Saved(req[q])[i] = IF i \in req[q].held
                                    THEN [rows[i] EXCEPT !.status = "EXPIRED"] ELSE rows[i]
           /\ Saved(req[q])[Len(rows) + 1] = NewRow(req[q])
<1> DEFINE old == [i \in DOMAIN rows |-> IF i \in req[q].held
                                         THEN [rows[i] EXCEPT !.status = "EXPIRED"] ELSE rows[i]]
<1>1. rows \in Seq(Row) /\ DOMAIN rows = 1 .. Len(rows) /\ Len(rows) \in Nat
  BY TFacts
<1>2. req[q] \in Request BY TFacts
<1>3. NewRow(req[q]) \in Row BY <1>2 DEF NewRow, Row, Request, Statuses
<1>4. \A i \in 1 .. Len(rows) : old[i] \in Row
  <2> SUFFICES ASSUME NEW i \in 1 .. Len(rows) PROVE old[i] \in Row OBVIOUS
  <2>1. rows[i] \in Row BY <1>1
  <2>2. [rows[i] EXCEPT !.status = "EXPIRED"] \in Row BY <2>1 DEF Row, Statuses
  <2> QED BY <1>1, <2>1, <2>2
<1>5. old \in Seq(Row) /\ Len(old) = Len(rows) BY <1>1, <1>4
<1>6. Saved(req[q]) = Append(old, NewRow(req[q])) BY DEF Saved
<1> HIDE DEF old
<1>7. /\ Append(old, NewRow(req[q])) \in Seq(Row)
      /\ Len(Append(old, NewRow(req[q]))) = Len(rows) + 1
      /\ \A i \in 1 .. Len(rows) : Append(old, NewRow(req[q]))[i] = old[i]
      /\ Append(old, NewRow(req[q]))[Len(rows) + 1] = NewRow(req[q])
  BY <1>1, <1>3, <1>5
<1> QED BY <1>1, <1>6, <1>7 DEF old

\* The rows after a save, field by field.
LEMMA CommitStep ==
    ASSUME TInv, NEW q \in Requests, SaveCommit(q)
    PROVE  /\ rows' \in Seq(Row) /\ Len(rows') = Len(rows) + 1
           /\ \A i \in 1 .. Len(rows) :
                 /\ rows'[i].created = rows[i].created /\ rows'[i].login = rows[i].login
                 /\ rows'[i].expires = rows[i].expires /\ rows'[i].ended = rows[i].ended
                 /\ rows'[i].state = rows[i].state /\ rows'[i].seen = rows[i].seen
                 /\ rows'[i].status = IF i \in req[q].held THEN "EXPIRED" ELSE rows[i].status
           /\ LET w == rows'[Len(rows) + 1]
                  r == req[q]
              IN  /\ w.created = r.created /\ w.login = r.login /\ w.expires = r.expires
                  /\ w.ended = "no" /\ w.state = r.state /\ w.seen = r.seen /\ w.status = "ACTIVE"
           /\ req' = [req EXCEPT ![q] = Idle] /\ req[q].pc = "commit"
           /\ UNCHANGED <<clock, logins, deadline, exchanged, revoked>>
<1>1. /\ rows' = Saved(req[q]) /\ req' = [req EXCEPT ![q] = Idle] /\ req[q].pc = "commit"
      /\ UNCHANGED <<clock, logins, deadline, exchanged, revoked>>
  BY DEF SaveCommit
<1>2. rows' \in Seq(Row) /\ Len(rows') = Len(rows) + 1 BY <1>1, SavedShape
<1>3. ASSUME NEW i \in 1 .. Len(rows)
      PROVE  /\ rows'[i].created = rows[i].created /\ rows'[i].login = rows[i].login
             /\ rows'[i].expires = rows[i].expires /\ rows'[i].ended = rows[i].ended
             /\ rows'[i].state = rows[i].state /\ rows'[i].seen = rows[i].seen
             /\ rows'[i].status = IF i \in req[q].held THEN "EXPIRED" ELSE rows[i].status
  <2>1. rows[i] \in Row BY TFacts
  <2>2. rows'[i] = IF i \in req[q].held THEN [rows[i] EXCEPT !.status = "EXPIRED"] ELSE rows[i]
    BY <1>1, SavedShape
  <2> QED BY <2>1, <2>2 DEF Row
<1>4. rows'[Len(rows) + 1] = NewRow(req[q]) BY <1>1, SavedShape
<1> QED BY <1>1, <1>2, <1>3, <1>4 DEF NewRow

\* The step of a request that marks the row with its id.
Marks(q, status, by) ==
    /\ req[q].pc \in Marking
    /\ MarkInvalidated(q, status, by)
    /\ req' = [req EXCEPT ![q] = Idle]
    /\ UNCHANGED <<clock, logins, deadline, exchanged, revoked>>

\* The rows after a mark, field by field.
LEMMA MarkStep ==
    ASSUME TInv, NEW q \in Requests, NEW status \in Statuses, NEW by \in {"logout", "status"},
           Marks(q, status, by)
    PROVE  /\ rows' \in Seq(Row) /\ Len(rows') = Len(rows)
           /\ req[q].id \in 1 .. Len(rows)
           /\ \A i \in 1 .. Len(rows) :
                 /\ rows'[i].created = rows[i].created /\ rows'[i].login = rows[i].login
                 /\ rows'[i].expires = rows[i].expires
                 /\ rows'[i].state = rows[i].state /\ rows'[i].seen = rows[i].seen
                 /\ rows'[i].status = IF i = req[q].id THEN status ELSE rows[i].status
                 /\ rows'[i].ended = IF i = req[q].id THEN by ELSE rows[i].ended
<1>0. req[q].id \in 1 .. Len(rows) BY DEF TInv, RecOK, Marks
<1>1. rows \in Seq(Row) /\ DOMAIN rows = 1 .. Len(rows) /\ Len(rows) \in Nat BY TFacts
<1> DEFINE v == [rows[req[q].id] EXCEPT !.status = status, !.ended = by]
<1>2. v \in Row
  <2>1. rows[req[q].id] \in Row BY <1>0, <1>1
  <2> QED BY <2>1 DEF Row
<1>3. rows' = [rows EXCEPT ![req[q].id] = v] BY DEF Marks, MarkInvalidated
<1> HIDE DEF v
<1>4. rows' \in Seq(Row) /\ Len(rows') = Len(rows) BY <1>0, <1>1, <1>2, <1>3, SeqExcept
<1>5. ASSUME NEW i \in 1 .. Len(rows)
      PROVE  /\ rows'[i].created = rows[i].created /\ rows'[i].login = rows[i].login
             /\ rows'[i].expires = rows[i].expires
             /\ rows'[i].state = rows[i].state /\ rows'[i].seen = rows[i].seen
             /\ rows'[i].status = IF i = req[q].id THEN status ELSE rows[i].status
             /\ rows'[i].ended = IF i = req[q].id THEN by ELSE rows[i].ended
  <2>1. rows[i] \in Row BY <1>1
  <2>2. rows'[i] = IF i = req[q].id THEN v ELSE rows[i] BY <1>1, <1>3
  <2> QED BY <2>1, <2>2 DEF Row, v
<1> QED BY <1>0, <1>4, <1>5

\* The two marks are such steps.
LEMMA MarkForms ==
    ASSUME NEW q \in Requests
    PROVE  /\ MarkExpired(q) => Marks(q, "EXPIRED", "status")
           /\ MarkLoggedOut(q) => Marks(q, "LOGGED_OUT", "logout")
BY DEF MarkExpired, MarkLoggedOut, Marks, Marking
\* A record of the requests replaced.
LEMMA OnlyOf ==
    ASSUME TInv, NEW q \in Requests, NEW r \in Request, req' = [req EXCEPT ![q] = r]
    PROVE  Only(q) /\ req'[q] = r
BY TFacts DEF Only

\* A request that returns to the start.
LEMMA EndStep ==
    ASSUME TInv, NEW q \in Requests, req' = [req EXCEPT ![q] = Idle]
    PROVE  /\ Only(q) /\ req'[q] = Idle
           /\ req'[q].pc = "idle" /\ req'[q].state = 0 /\ req'[q].created = 0
           /\ req'[q].held = {} /\ req'[q].want = {} /\ req'[q].seen = 0
<1>1. Idle \in Request BY DEF Idle, Request
<1>2. Only(q) /\ req'[q] = Idle BY <1>1, OnlyOf
<1> QED BY <1>2 DEF Idle

\* What consume_state does to its request.
LEMMA ConsumeStep ==
    ASSUME TInv, NEW q \in Requests, NEW s \in 1 .. logins, ConsumeState(q, s)
    PROVE  /\ Only(q) /\ req[q].pc = "idle" /\ deadline[s] # 0
           /\ req'[q].pc = "exchange" /\ req'[q].state = s /\ req'[q].created = 0
           /\ req'[q].held = {} /\ req'[q].want = {} /\ req'[q].seen = 0
           /\ deadline' \in Seq(Nat) /\ Len(deadline') = logins
           /\ \A k \in 1 .. logins : deadline'[k] = IF k = s THEN 0 ELSE deadline[k]
           /\ UNCHANGED <<clock, logins, exchanged, revoked, rows>>
<1> DEFINE r == [Idle EXCEPT !.pc = "exchange", !.state = s]
<1>1. /\ req' = [req EXCEPT ![q] = r] /\ deadline' = [deadline EXCEPT ![s] = 0]
      /\ clock < deadline[s] /\ req[q].pc = "idle"
      /\ UNCHANGED <<clock, logins, exchanged, revoked, rows>>
  BY DEF ConsumeState
<1>2. /\ r.pc = "exchange" /\ r.state = s /\ r.created = 0 /\ r.held = {} /\ r.want = {} /\ r.seen = 0
  BY DEF Idle
<1>3. s \in Nat BY TFacts
<1>4. r \in Request BY <1>3 DEF Idle, Request
<1> HIDE DEF r
<1>5. Only(q) /\ req'[q] = r BY <1>1, <1>4, OnlyOf
<1>6. deadline' \in Seq(Nat) /\ Len(deadline') = logins
  <2>1. s \in 1 .. Len(deadline) /\ deadline \in Seq(Nat) BY TFacts
  <2> QED BY <1>1, <2>1, TFacts, SeqExcept
<1>7. \A k \in 1 .. logins : deadline'[k] = IF k = s THEN 0 ELSE deadline[k] BY <1>1, TFacts
<1>8. deadline[s] # 0 BY <1>1, TFacts
<1> QED BY <1>1, <1>2, <1>5, <1>6, <1>7, <1>8

\* What the exchange does to its request.
LEMMA ExchangeStep ==
    ASSUME TInv, NEW q \in Requests, ExchangeRequestToken(q)
    PROVE  /\ Only(q) /\ req[q].pc = "exchange" /\ req'[q].pc = "save"
           /\ req'[q].created = exchanged + 1
           /\ req'[q].expires = NextKiteExpiry(req'[q].login)
           /\ req'[q].state = req[q].state /\ req'[q].held = req[q].held
           /\ req'[q].want = req[q].want /\ req'[q].seen = req[q].seen
           /\ exchanged' = exchanged + 1 /\ clock' \in Nat /\ clock <= clock'
           /\ UNCHANGED <<logins, deadline, revoked, rows>>
<1>0. req[q].pc = "exchange" /\ UNCHANGED <<logins, deadline, revoked, rows>>
  BY DEF ExchangeRequestToken
<1>1. PICK t \in clock .. clock + MaxCall : \E issued \in clock .. t :
          /\ clock' = t /\ exchanged' = exchanged + 1
          /\ req' = [req EXCEPT ![q].pc = "save", ![q].created = exchanged + 1,
                                ![q].login = t, ![q].expires = NextKiteExpiry(t),
                                ![q].kiteEnd = KiteEnd(issued)]
  BY DEF ExchangeRequestToken
<1>2. PICK issued \in clock .. t :
          /\ clock' = t /\ exchanged' = exchanged + 1
          /\ req' = [req EXCEPT ![q].pc = "save", ![q].created = exchanged + 1,
                                ![q].login = t, ![q].expires = NextKiteExpiry(t),
                                ![q].kiteEnd = KiteEnd(issued)]
  BY <1>1
<1>3. t \in Nat /\ issued \in Nat /\ clock <= t BY TFacts, BrokerSessionAssumption
<1>4. NextKiteExpiry(t) \in Nat /\ KiteEnd(issued) \in Nat BY <1>3, ExpiryIsKiteEnd
<1> DEFINE r == [req[q] EXCEPT !.pc = "save", !.created = exchanged + 1, !.login = t,
                               !.expires = NextKiteExpiry(t), !.kiteEnd = KiteEnd(issued)]
<1>5. req[q] \in Request /\ exchanged + 1 \in Nat /\ req \in [Requests -> Request] BY TFacts
<1>6. req' = [req EXCEPT ![q] = r] BY <1>2, <1>5 DEF Request
<1>7. /\ r.pc = "save" /\ r.created = exchanged + 1 /\ r.login = t /\ r.expires = NextKiteExpiry(t)
      /\ r.state = req[q].state /\ r.want = req[q].want /\ r.held = req[q].held
      /\ r.seen = req[q].seen
  BY <1>5 DEF Request
<1>8. r \in Request
  <2>1. PICK e \in Nat, k \in Nat : e = NextKiteExpiry(t) /\ k = KiteEnd(issued) BY <1>4
  <2>2. r = [req[q] EXCEPT !.pc = "save", !.created = exchanged + 1, !.login = t,
                           !.expires = e, !.kiteEnd = k]
    BY <2>1
  <2> HIDE DEF r
  <2> QED BY <1>3, <1>5, <2>2 DEF Request
<1> HIDE DEF r
<1>9. Only(q) /\ req'[q] = r BY <1>6, <1>8, OnlyOf
<1> QED BY <1>0, <1>2, <1>3, <1>7, <1>9

\* What the start of the UPDATE of a save does to its request.
LEMMA SaveBeginStep ==
    ASSUME TInv, NEW q \in Requests, SaveBegin(q)
    PROVE  /\ Only(q) /\ req[q].pc = "save" /\ req'[q].pc = "update"
           /\ req'[q].seen = Len(rows)
           /\ req'[q].want = {i \in 1 .. Len(rows) : rows[i].status = "ACTIVE"}
           /\ req'[q].created = req[q].created /\ req'[q].expires = req[q].expires
           /\ req'[q].login = req[q].login /\ req'[q].state = req[q].state
           /\ req'[q].held = req[q].held
           /\ UNCHANGED <<clock, logins, deadline, exchanged, revoked, rows>>
<1>1. req[q] \in Request /\ req \in [Requests -> Request] /\ DOMAIN rows = 1 .. Len(rows)
      /\ Len(rows) \in Nat
  BY TFacts
<1>2. PICK active \in SUBSET Nat : active = {i \in 1 .. Len(rows) : rows[i].status = "ACTIVE"}
  <2>1. {i \in 1 .. Len(rows) : rows[i].status = "ACTIVE"} \subseteq Nat BY <1>1
  <2> QED BY <2>1, Zenon
<1> DEFINE r == [req[q] EXCEPT !.pc = "update", !.seen = Len(rows), !.want = active]
<1>3. req' = [req EXCEPT ![q] = r] BY <1>1, <1>2 DEF SaveBegin, Request
<1>4. r \in Request BY <1>1 DEF Request
<1>5. /\ r.pc = "update" /\ r.seen = Len(rows) /\ r.want = active /\ r.held = req[q].held
      /\ r.created = req[q].created /\ r.expires = req[q].expires /\ r.login = req[q].login
      /\ r.state = req[q].state
  BY <1>1 DEF Request
<1> HIDE DEF r
<1>6. Only(q) /\ req'[q] = r BY <1>3, <1>4, OnlyOf
<1> QED BY <1>2, <1>5, <1>6 DEF SaveBegin

\* What the UPDATE does to its request.
LEMMA SaveUpdateStep ==
    ASSUME TInv, NEW q \in Requests, SaveUpdate(q)
    PROVE  /\ Only(q) /\ req[q].pc = "update" /\ req'[q].pc = "commit"
           /\ req'[q].held = {i \in req[q].want : rows[i].status = "ACTIVE"}
           /\ req'[q].want = req[q].want /\ req'[q].seen = req[q].seen
           /\ req'[q].created = req[q].created /\ req'[q].expires = req[q].expires
           /\ req'[q].login = req[q].login /\ req'[q].state = req[q].state
           /\ UNCHANGED <<clock, logins, deadline, exchanged, revoked, rows>>
<1>1. req[q] \in Request /\ req \in [Requests -> Request] BY TFacts
<1>2. PICK taken \in SUBSET Nat : taken = {i \in req[q].want : rows[i].status = "ACTIVE"}
  BY <1>1 DEF Request
<1> DEFINE r == [req[q] EXCEPT !.pc = "commit", !.held = taken]
<1>3. req' = [req EXCEPT ![q] = r] BY <1>1, <1>2 DEF SaveUpdate, Request
<1>4. r \in Request BY <1>1 DEF Request
<1>5. /\ r.pc = "commit" /\ r.held = taken /\ r.want = req[q].want /\ r.seen = req[q].seen
      /\ r.created = req[q].created /\ r.expires = req[q].expires /\ r.login = req[q].login
      /\ r.state = req[q].state
  BY <1>1 DEF Request
<1> HIDE DEF r
<1>6. Only(q) /\ req'[q] = r BY <1>3, <1>4, OnlyOf
<1> QED BY <1>2, <1>5, <1>6 DEF SaveUpdate

\* The rows that a status or a logout call reads.
LEMMA LatestFacts ==
    ASSUME TInv, NEW i \in LatestSession
    PROVE  /\ i \in 1 .. Len(rows) /\ rows[i] \in Row /\ i \in Nat
           /\ \A j \in 1 .. Len(rows) : rows[j].created <= rows[i].created
<1>1. DOMAIN rows = 1 .. Len(rows) /\ Len(rows) \in Nat BY TFacts
<1>2. i \in 1 .. Len(rows) /\ \A j \in 1 .. Len(rows) : rows[j].created <= rows[i].created
  BY <1>1 DEF LatestSession
<1>3. rows[i] \in Row BY <1>2, TFacts
<1> QED BY <1>1, <1>2, <1>3

\* A request that goes on to mark row i.
LEMMA BeginMark ==
    ASSUME TInv, NEW q \in Requests, NEW i \in 1 .. Len(rows), NEW pc \in Marking,
           req' = [req EXCEPT ![q] = [Idle EXCEPT !.pc = pc, !.id = i]]
    PROVE  /\ Only(q) /\ req'[q].pc = pc /\ req'[q].id = i
           /\ req'[q].state = 0 /\ req'[q].created = 0
           /\ req'[q].held = {} /\ req'[q].want = {} /\ req'[q].seen = 0
<1> DEFINE r == [Idle EXCEPT !.pc = pc, !.id = i]
<1>1. i \in Nat BY TFacts
<1>2. r \in Request BY <1>1 DEF Idle, Request, Marking
<1>3. r.pc = pc /\ r.id = i /\ r.state = 0 /\ r.created = 0 /\ r.held = {} /\ r.want = {} /\ r.seen = 0
  BY DEF Idle
<1> HIDE DEF r
<1>4. req' = [req EXCEPT ![q] = r] BY DEF r
<1>5. Only(q) /\ req'[q] = r BY <1>2, <1>4, OnlyOf
<1> QED BY <1>3, <1>5
\* A status call that found the latest session expired.
LEMMA ReadStatusStep ==
    ASSUME TInv, NEW q \in Requests, ReadStatus(q)
    PROVE  /\ Only(q) /\ req[q].pc = "idle" /\ req'[q].pc = "mark_expired"
           /\ req'[q].id \in 1 .. Len(rows) /\ clock >= rows[req'[q].id].expires
           /\ req'[q].state = 0 /\ req'[q].created = 0
           /\ req'[q].held = {} /\ req'[q].want = {} /\ req'[q].seen = 0
           /\ UNCHANGED <<clock, logins, deadline, exchanged, revoked, rows>>
<1>1. PICK i \in LatestSession :
         /\ IsExpired(i)
         /\ req' = [req EXCEPT ![q] = [Idle EXCEPT !.pc = "mark_expired", !.id = i]]
  BY DEF ReadStatus
<1>2. i \in 1 .. Len(rows) BY LatestFacts
<1>3. req[q].pc = "idle" /\ UNCHANGED <<clock, logins, deadline, exchanged, revoked, rows>>
  BY DEF ReadStatus
<1> QED BY <1>1, <1>2, <1>3, BeginMark DEF IsExpired, Marking

\* A logout call that Kite answered, or one that had nothing to invalidate.
LogoutOf(q, i) ==
    /\ req' = [req EXCEPT ![q] = [Idle EXCEPT !.pc = "mark_out", !.id = i]]
    /\ \/ revoked' = revoked \cup {rows[i].created}
       \/ revoked' = revoked /\ (rows[i].status # "ACTIVE" \/ IsExpired(i))

\* What a logout call does to its request; a call that raises leaves it alone.
LEMMA LogoutStep ==
    ASSUME TInv, NEW q \in Requests, Logout(q)
    PROVE  /\ revoked \subseteq revoked' /\ revoked' \subseteq Nat
           /\ UNCHANGED <<clock, logins, deadline, exchanged, rows>>
           /\ \/ req' = req
              \/ /\ Only(q) /\ req[q].pc = "idle" /\ req'[q].pc = "mark_out"
                 /\ req'[q].state = 0 /\ req'[q].created = 0
                 /\ req'[q].held = {} /\ req'[q].want = {} /\ req'[q].seen = 0
                 /\ \E i \in LatestSession :
                       /\ i \in 1 .. Len(rows) /\ req'[q].id = i
                       /\ \/ rows[i].created \in revoked'
                          \/ rows[i].status # "ACTIVE"
                          \/ clock >= rows[i].expires
<1>1. UNCHANGED <<clock, logins, deadline, exchanged, rows>> /\ req[q].pc = "idle" BY DEF Logout
<1>2. PICK i \in LatestSession :
          \/ revoked' = revoked \cup {rows[i].created} /\ req' = req
          \/ LogoutOf(q, i)
  BY DEF Logout, LogoutOf
<1>3. i \in 1 .. Len(rows) /\ rows[i] \in Row BY LatestFacts
<1>4. rows[i].created \in Nat BY <1>3 DEF Row
<1>5. revoked \subseteq revoked' /\ revoked' \subseteq Nat
  BY <1>2, <1>4, TFacts DEF LogoutOf
<1>6. CASE LogoutOf(q, i)
  <2>1. /\ Only(q) /\ req'[q].pc = "mark_out" /\ req'[q].id = i
        /\ req'[q].state = 0 /\ req'[q].created = 0
        /\ req'[q].held = {} /\ req'[q].want = {} /\ req'[q].seen = 0
    BY <1>3, <1>6, BeginMark DEF LogoutOf, Marking
  <2>2. rows[i].created \in revoked' \/ rows[i].status # "ACTIVE" \/ clock >= rows[i].expires
    BY <1>6 DEF LogoutOf, IsExpired
  <2> QED BY <1>1, <1>3, <1>5, <2>1, <2>2
<1> QED BY <1>1, <1>2, <1>5, <1>6

-----------------------------------------------------------------------------
(* Types. *)

\* A request in order, from its fields.
LEMMA RecOKBy ==
    ASSUME NEW r \in Request, NEW n \in Nat, NEW l \in Nat, NEW x \in Nat,
           r.state = 0, r.created = 0, r.held = {}, r.want = {}, r.seen = 0,
           r.pc \notin Saving, r.pc \in Marking => r.id \in 1 .. n
    PROVE  RecOK(r, n, l, x)
BY DEF RecOK

\* Every step keeps the type invariant and what it rests on.
LEMMA TStep == TInv /\ [Next]_vars => TInv'
<1> SUFFICES ASSUME TInv, [Next]_vars PROVE TInv' OBVIOUS
<1>t. /\ clock \in Nat /\ logins \in Nat /\ exchanged \in Nat /\ deadline \in Seq(Nat)
      /\ Len(deadline) = logins /\ revoked \subseteq Nat
      /\ rows \in Seq(Row) /\ Len(rows) \in Nat
  BY TFacts
<1>r. \A q \in Requests : req[q] \in Request /\ RecOK(req[q], Len(rows), logins, exchanged)
  BY TFacts DEF TInv
<1>w. \A i \in 1 .. Len(rows) : RowOK(rows[i], logins, exchanged) BY DEF TInv
<1>1. CASE UNCHANGED vars
  BY <1>1 DEF vars, TInv, TypeOK, RecOK, RowOK
<1>2. CASE CreateLoginUrl
  <2>1. /\ logins' = logins + 1 /\ deadline' = Append(deadline, clock + StateTTL)
        /\ UNCHANGED <<clock, exchanged, revoked, rows, req>>
    BY <1>2 DEF CreateLoginUrl
  <2>2. deadline' \in Seq(Nat) /\ Len(deadline') = logins'
    BY <1>t, <2>1, BrokerSessionAssumption
  <2>3. \A i \in 1 .. Len(rows') : RowOK(rows'[i], logins', exchanged')
    BY <1>t, <1>w, <2>1, RowGrows
  <2> QED BY <1>t, <2>1, <2>2, <2>3, TFrame
<1>3. CASE Tick
  <2>1. clock' \in Nat /\ UNCHANGED <<logins, deadline, exchanged, revoked, rows, req>>
    BY <1>t, <1>3 DEF Tick
  <2> QED BY <1>t, <1>w, <2>1, TFrame
<1>4. ASSUME NEW q \in Requests, NEW s \in 1 .. logins, ConsumeState(q, s)
      PROVE  TInv'
  <2>1. /\ Only(q) /\ req'[q].pc = "exchange" /\ req'[q].state = s /\ req'[q].created = 0
        /\ req'[q].held = {} /\ req'[q].want = {} /\ req'[q].seen = 0
        /\ deadline' \in Seq(Nat) /\ Len(deadline') = logins
        /\ UNCHANGED <<clock, logins, exchanged, revoked, rows>>
    BY <1>4, ConsumeStep
  <2>2. req'[q] \in Request BY <2>1 DEF Only
  <2>3. RecOK(req'[q], Len(rows), logins, exchanged)
    BY <1>t, <2>1, <2>2 DEF RecOK, Saving, Marking
  <2> QED BY <1>t, <1>w, <2>1, <2>3, TFrame
<1>5. ASSUME NEW q \in Requests, ExchangeRequestToken(q)
      PROVE  TInv'
  <2>1. /\ Only(q) /\ req[q].pc = "exchange" /\ req'[q].pc = "save"
        /\ req'[q].created = exchanged + 1 /\ req'[q].expires = NextKiteExpiry(req'[q].login)
        /\ req'[q].state = req[q].state /\ req'[q].held = req[q].held
        /\ req'[q].want = req[q].want /\ req'[q].seen = req[q].seen
        /\ exchanged' = exchanged + 1 /\ clock' \in Nat
        /\ UNCHANGED <<logins, deadline, revoked, rows>>
    BY <1>5, ExchangeStep
  <2>2. req'[q] \in Request BY <2>1 DEF Only
  <2>3. RecOK(req'[q], Len(rows), logins, exchanged + 1)
    BY <1>t, <1>r, <2>1, <2>2 DEF RecOK, Saving, Marking
  <2>4. \A i \in 1 .. Len(rows) : RowOK(rows[i], logins, exchanged + 1)
    BY <1>t, <1>w, RowGrows
  <2> QED BY <1>t, <2>1, <2>3, <2>4, TFrame
<1>6. ASSUME NEW q \in Requests, SaveBegin(q)
      PROVE  TInv'
  <2>1. /\ Only(q) /\ req[q].pc = "save" /\ req'[q].pc = "update" /\ req'[q].seen = Len(rows)
        /\ req'[q].want \subseteq 1 .. Len(rows)
        /\ req'[q].created = req[q].created /\ req'[q].expires = req[q].expires
        /\ req'[q].login = req[q].login /\ req'[q].state = req[q].state
        /\ req'[q].held = req[q].held
        /\ UNCHANGED <<clock, logins, deadline, exchanged, revoked, rows>>
    BY <1>6, SaveBeginStep
  <2>2. req'[q] \in Request BY <2>1 DEF Only
  <2>3. RecOK(req'[q], Len(rows), logins, exchanged)
    BY <1>t, <1>r, <2>1, <2>2 DEF RecOK, Saving, Marking
  <2> QED BY <1>t, <1>w, <2>1, <2>3, TFrame
<1>7. ASSUME NEW q \in Requests, SaveUpdate(q)
      PROVE  TInv'
  <2>1. /\ Only(q) /\ req[q].pc = "update" /\ req'[q].pc = "commit"
        /\ req'[q].held \subseteq req[q].want /\ req'[q].want = req[q].want
        /\ req'[q].seen = req[q].seen
        /\ req'[q].created = req[q].created /\ req'[q].expires = req[q].expires
        /\ req'[q].login = req[q].login /\ req'[q].state = req[q].state
        /\ UNCHANGED <<clock, logins, deadline, exchanged, revoked, rows>>
    BY <1>7, SaveUpdateStep
  <2>2. req'[q] \in Request BY <2>1 DEF Only
  <2>3. RecOK(req'[q], Len(rows), logins, exchanged)
    BY <1>t, <1>r, <2>1, <2>2 DEF RecOK, Saving, Marking
  <2> QED BY <1>t, <1>w, <2>1, <2>3, TFrame
<1>8. ASSUME NEW q \in Requests, SaveCommit(q)
      PROVE  TInv'
  <2>1. /\ rows' \in Seq(Row) /\ Len(rows') = Len(rows) + 1 /\ req[q].pc = "commit"
        /\ UNCHANGED <<clock, logins, deadline, exchanged, revoked>>
        /\ req' = [req EXCEPT ![q] = Idle]
    BY <1>8, CommitStep
  <2>2. ASSUME NEW i \in 1 .. Len(rows) PROVE RowOK(rows'[i], logins, exchanged)
    <3>1. /\ rows'[i].created = rows[i].created /\ rows'[i].login = rows[i].login
          /\ rows'[i].expires = rows[i].expires /\ rows'[i].state = rows[i].state
      BY <1>8, CommitStep
    <3>2. rows'[i] \in Row BY <1>t, <2>1
    <3> QED BY <1>w, <3>1, <3>2 DEF RowOK
  <2>3. RowOK(rows'[Len(rows) + 1], logins, exchanged)
    <3> DEFINE w == rows'[Len(rows) + 1]
    <3>1. w.created = req[q].created /\ w.login = req[q].login /\ w.expires = req[q].expires
          /\ w.state = req[q].state
      BY <1>8, CommitStep
    <3>2. w \in Row BY <1>t, <2>1
    <3>3. /\ req[q].created \in 1 .. exchanged /\ req[q].state <= logins
          /\ req[q].expires = NextKiteExpiry(req[q].login)
      BY <1>t, <1>r, <2>1 DEF RecOK, Saving, Request
    <3> QED BY <3>1, <3>2, <3>3 DEF RowOK
  <2>4. \A i \in 1 .. Len(rows') : RowOK(rows'[i], logins', exchanged')
    BY <1>t, <2>1, <2>2, <2>3, SMTT(30)
  <2>5. Only(q) /\ RecOK(req'[q], Len(rows'), logins, exchanged)
    <3>1. Only(q) /\ req'[q] = Idle BY <2>1, EndStep
    <3>2. Len(rows') \in Nat BY <1>t, <2>1
    <3> QED BY <1>t, <3>1, <3>2, IdleOK
  <2> QED BY <1>t, <2>1, <2>4, <2>5, TFrame
<1>9. ASSUME NEW q \in Requests, ReadStatus(q)
      PROVE  TInv'
  <2>1. /\ Only(q) /\ req'[q].pc = "mark_expired" /\ req'[q].id \in 1 .. Len(rows)
        /\ req'[q].state = 0 /\ req'[q].created = 0
        /\ req'[q].held = {} /\ req'[q].want = {} /\ req'[q].seen = 0
        /\ UNCHANGED <<clock, logins, deadline, exchanged, revoked, rows>>
    BY <1>9, ReadStatusStep
  <2>2. req'[q] \in Request BY <2>1 DEF Only
  <2>3. RecOK(req'[q], Len(rows), logins, exchanged)
    BY <1>t, <2>1, <2>2, RecOKBy DEF Saving
  <2> QED BY <1>t, <1>w, <2>1, <2>3, TFrame
<1>10. ASSUME NEW q \in Requests, Logout(q)
       PROVE  TInv'
  <2>1. revoked' \subseteq Nat /\ UNCHANGED <<clock, logins, deadline, exchanged, rows>>
    BY <1>10, LogoutStep
  <2>2. CASE req' = req BY <1>t, <1>w, <2>1, <2>2, TFrame
  <2>3. CASE req' # req
    <3>1. /\ Only(q) /\ req'[q].pc = "mark_out" /\ req'[q].id \in 1 .. Len(rows)
          /\ req'[q].state = 0 /\ req'[q].created = 0
          /\ req'[q].held = {} /\ req'[q].want = {} /\ req'[q].seen = 0
      BY <1>10, <2>3, LogoutStep
    <3>2. req'[q] \in Request BY <3>1 DEF Only
    <3>3. RecOK(req'[q], Len(rows), logins, exchanged)
      BY <1>t, <3>1, <3>2, RecOKBy DEF Saving
    <3> QED BY <1>t, <1>w, <2>1, <3>1, <3>3, TFrame
  <2> QED BY <2>2, <2>3
<1>11. ASSUME NEW q \in Requests, NEW status \in Statuses, NEW by \in {"logout", "status"},
              Marks(q, status, by)
       PROVE  TInv'
  <2>1. /\ rows' \in Seq(Row) /\ Len(rows') = Len(rows) BY <1>11, MarkStep
  <2>2. /\ UNCHANGED <<clock, logins, deadline, exchanged, revoked>>
        /\ req' = [req EXCEPT ![q] = Idle]
    BY <1>11 DEF Marks
  <2>3. ASSUME NEW i \in 1 .. Len(rows) PROVE RowOK(rows'[i], logins, exchanged)
    <3>1. /\ rows'[i].created = rows[i].created /\ rows'[i].login = rows[i].login
          /\ rows'[i].expires = rows[i].expires /\ rows'[i].state = rows[i].state
      BY <1>11, MarkStep
    <3>2. rows'[i] \in Row BY <1>t, <2>1
    <3> QED BY <1>w, <3>1, <3>2 DEF RowOK
  <2>4. Only(q) /\ RecOK(req'[q], Len(rows'), logins, exchanged)
    <3>1. Only(q) /\ req'[q] = Idle BY <2>2, EndStep
    <3> QED BY <1>t, <2>1, <3>1, IdleOK
  <2> QED BY <1>t, <2>1, <2>2, <2>3, <2>4, TFrame
<1>12. ASSUME NEW q \in Requests, Abandon(q)
       PROVE  TInv'
  <2>1. req' = [req EXCEPT ![q] = Idle] /\ UNCHANGED <<clock, logins, deadline, exchanged, revoked, rows>>
    BY <1>12 DEF Abandon
  <2>2. Only(q) /\ req'[q] = Idle BY <2>1, EndStep
  <2>3. RecOK(req'[q], Len(rows), logins, exchanged) BY <1>t, <2>2, IdleOK
  <2> QED BY <1>t, <1>w, <2>1, <2>2, <2>3, TFrame
<1>13. \A q \in Requests : MarkExpired(q) \/ MarkLoggedOut(q) => TInv'
  BY <1>11, MarkForms DEF Statuses
<1> QED BY <1>1, <1>2, <1>3, <1>4, <1>5, <1>6, <1>7, <1>8, <1>9, <1>10, <1>12, <1>13 DEF Next

\* The variables of the session model keep their types.
THEOREM TypeCorrect == Spec => []TypeOK
<1>1. TInv => TypeOK BY DEF TInv
<1> QED BY <1>1, TInit, TStep, PTL DEF Spec
-----------------------------------------------------------------------------
(* What every step keeps. *)

\* Tokens, states and expiries of the rows stay, rows are only added, time and the
\* set of invalidated tokens only grow.
Kept ==
    /\ clock' >= clock /\ revoked \subseteq revoked' /\ Len(rows') >= Len(rows)
    /\ \A i \in 1 .. Len(rows) :
          /\ rows'[i].created = rows[i].created /\ rows'[i].expires = rows[i].expires
          /\ rows'[i].state = rows[i].state /\ rows'[i].seen = rows[i].seen
          /\ rows'[i].status = "ACTIVE" => rows[i].status = "ACTIVE"

\* A step that adds no row, no state and no token: a request keeps its state and
\* token or drops them.
Calm ==
    /\ UNCHANGED <<logins, deadline, exchanged>> /\ Len(rows') = Len(rows)
    /\ \A p \in Requests : /\ req'[p].state \in {req[p].state, 0}
                           /\ req'[p].created \in {req[p].created, 0}

\* A commit of a save keeps them.
LEMMA CommitKeeps == ASSUME TInv, NEW q \in Requests, SaveCommit(q) PROVE Kept
<1>1. Len(rows') >= Len(rows) /\ clock' >= clock /\ revoked \subseteq revoked' BY CommitStep, TFacts
<1>2. \A i \in 1 .. Len(rows) :
          /\ rows'[i].created = rows[i].created /\ rows'[i].expires = rows[i].expires
          /\ rows'[i].state = rows[i].state /\ rows'[i].seen = rows[i].seen
          /\ rows'[i].status = IF i \in req[q].held THEN "EXPIRED" ELSE rows[i].status
  BY CommitStep
<1> QED BY <1>1, <1>2 DEF Kept

\* A mark keeps them, and adds nothing.
LEMMA MarkKeeps ==
    ASSUME TInv, NEW q \in Requests, NEW status \in Statuses \ {"ACTIVE"},
           NEW by \in {"logout", "status"}, Marks(q, status, by)
    PROVE  Kept /\ Calm
<1>1. /\ Len(rows') = Len(rows) /\ req' = [req EXCEPT ![q] = Idle]
      /\ UNCHANGED <<clock, logins, deadline, exchanged, revoked>>
  BY MarkStep DEF Marks
<1>2. \A i \in 1 .. Len(rows) :
          /\ rows'[i].created = rows[i].created /\ rows'[i].expires = rows[i].expires
          /\ rows'[i].state = rows[i].state /\ rows'[i].seen = rows[i].seen
          /\ rows'[i].status = IF i = req[q].id THEN status ELSE rows[i].status
  BY MarkStep
<1>3. Kept BY <1>1, <1>2, TFacts DEF Kept
<1>4. Only(q) /\ req'[q].state = 0 /\ req'[q].created = 0 BY <1>1, EndStep
<1> QED BY <1>1, <1>3, <1>4 DEF Calm, Only

\* Steps that leave the rows alone.
LEMMA StillKeeps ==
    ASSUME TInv, rows' = rows, clock' \in Nat, clock' >= clock, revoked \subseteq revoked'
    PROVE  Kept
BY TFacts DEF Kept

\* Every step is one of these.
LEMMA StepKinds ==
    ASSUME TInv, [Next]_vars
    PROVE  Kept /\ \/ Calm
                   \/ CreateLoginUrl
                   \/ \E q \in Requests : \E s \in 1 .. logins : ConsumeState(q, s)
                   \/ \E q \in Requests : ExchangeRequestToken(q) \/ SaveCommit(q)
<1>t. clock \in Nat /\ Len(rows) \in Nat BY TFacts
<1>q. ASSUME NEW q \in Requests, rows' = rows, UNCHANGED <<clock, logins, deadline, exchanged>>,
             revoked \subseteq revoked', Only(q),
             req'[q].state \in {req[q].state, 0}, req'[q].created \in {req[q].created, 0}
      PROVE  Kept /\ Calm
  <2>1. Kept BY <1>t, <1>q, StillKeeps
  <2> QED BY <1>q, <2>1 DEF Calm, Only
<1>1. CASE UNCHANGED vars
  <2>1. Kept BY <1>t, <1>1, StillKeeps DEF vars
  <2> QED BY <1>1, <2>1 DEF vars, Calm
<1>2. CASE CreateLoginUrl
  <2>1. Kept BY <1>t, <1>2, StillKeeps DEF CreateLoginUrl
  <2> QED BY <1>2, <2>1
<1>3. CASE Tick
  <2>1. Kept BY <1>t, <1>3, StillKeeps DEF Tick
  <2> QED BY <1>3, <2>1 DEF Tick, Calm
<1>4. ASSUME NEW q \in Requests, NEW s \in 1 .. logins, ConsumeState(q, s)
      PROVE  Kept
  BY <1>t, <1>4, StillKeeps DEF ConsumeState
<1>5. ASSUME NEW q \in Requests, ExchangeRequestToken(q) PROVE Kept
  <2>1. rows' = rows /\ clock' \in Nat /\ clock' >= clock /\ revoked' = revoked
    BY <1>t, <1>5, ExchangeStep
  <2> QED BY <2>1, StillKeeps
<1>6. ASSUME NEW q \in Requests, SaveBegin(q) PROVE Kept /\ Calm
  <2>1. /\ Only(q) /\ req'[q].state = req[q].state /\ req'[q].created = req[q].created
        /\ UNCHANGED <<clock, logins, deadline, exchanged, revoked, rows>>
    BY <1>6, SaveBeginStep
  <2> QED BY <1>q, <2>1
<1>7. ASSUME NEW q \in Requests, SaveUpdate(q) PROVE Kept /\ Calm
  <2>1. /\ Only(q) /\ req'[q].state = req[q].state /\ req'[q].created = req[q].created
        /\ UNCHANGED <<clock, logins, deadline, exchanged, revoked, rows>>
    BY <1>7, SaveUpdateStep
  <2> QED BY <1>q, <2>1
<1>8. ASSUME NEW q \in Requests, SaveCommit(q) PROVE Kept
  BY <1>8, CommitKeeps
<1>9. ASSUME NEW q \in Requests, ReadStatus(q) PROVE Kept /\ Calm
  <2>1. /\ Only(q) /\ req'[q].state = 0 /\ req'[q].created = 0
        /\ UNCHANGED <<clock, logins, deadline, exchanged, revoked, rows>>
    BY <1>9, ReadStatusStep
  <2> QED BY <1>q, <2>1
<1>10. ASSUME NEW q \in Requests, Logout(q) PROVE Kept /\ Calm
  <2>1. /\ revoked \subseteq revoked' /\ UNCHANGED <<clock, logins, deadline, exchanged, rows>>
        /\ req' = req \/ (Only(q) /\ req'[q].state = 0 /\ req'[q].created = 0)
    BY <1>10, LogoutStep
  <2>2. Kept BY <1>t, <2>1, StillKeeps
  <2> QED BY <1>q, <2>1, <2>2 DEF Calm
<1>11. ASSUME NEW q \in Requests, MarkExpired(q) \/ MarkLoggedOut(q) PROVE Kept /\ Calm
  BY <1>11, MarkForms, MarkKeeps DEF Statuses
<1>12. ASSUME NEW q \in Requests, Abandon(q) PROVE Kept /\ Calm
  <2>1. /\ Only(q) /\ req'[q].state = 0 /\ req'[q].created = 0
        /\ UNCHANGED <<clock, logins, deadline, exchanged, revoked, rows>>
    BY <1>12, EndStep DEF Abandon
  <2> QED BY <1>q, <2>1
<1> QED BY <1>1, <1>2, <1>3, <1>4, <1>5, <1>6, <1>7, <1>8, <1>9, <1>10, <1>11, <1>12 DEF Next

-----------------------------------------------------------------------------
(* One exchange per state. *)

From(s) == {i \in 1 .. Len(rows) : rows[i].state = s}
UnderWay(s) == {q \in Requests : req[q].state = s}

OnceFor(s) ==
    /\ \A i, j \in From(s) : i = j
    /\ \A p, q \in UnderWay(s) : p = q
    /\ From(s) = {} \/ UnderWay(s) = {}
    /\ deadline[s] # 0 => From(s) = {} /\ UnderWay(s) = {}

\* The property, state by state.
LEMMA OnceForms == ASSUME TInv PROVE LoginOncePerState <=> \A s \in 1 .. logins : OnceFor(s)
<1>1. DOMAIN rows = 1 .. Len(rows) BY TFacts
<1> QED BY <1>1 DEF LoginOncePerState, OnceFor, From, UnderWay

\* Every step keeps it.
LEMMA OnceStep ==
    ASSUME TInv, TInv', LoginOncePerState, [Next]_vars
    PROVE  LoginOncePerState'
<1>t. /\ Len(rows) \in Nat /\ logins \in Nat /\ deadline \in Seq(Nat) /\ Len(deadline) = logins
      /\ DOMAIN rows = 1 .. Len(rows)
      /\ \A i \in 1 .. Len(rows) : rows[i].state \in Nat /\ rows[i].state <= logins
      /\ \A q \in Requests : req[q].state \in Nat /\ req[q].state <= logins
  BY TFacts DEF TInv, RecOK, RowOK, Request, Row
<1>o. \A s \in 1 .. logins : OnceFor(s) BY OnceForms
<1>n. DOMAIN rows' = 1 .. Len(rows') /\ Len(rows') \in Nat
  <2>1. rows' \in Seq(Row) BY DEF TInv, TypeOK
  <2> QED BY <2>1
<1>k. Kept BY StepKinds
<1> SUFFICES ASSUME NEW s \in 1 .. logins' PROVE OnceFor(s)'
  BY <1>n DEF LoginOncePerState, OnceFor, From, UnderWay
<1>1. CASE Calm
  <2>1. s \in 1 .. logins /\ deadline' = deadline BY <1>1 DEF Calm
  <2>2. From(s)' = From(s) BY <1>1, <1>k DEF Calm, Kept, From
  <2>3. UnderWay(s)' \subseteq UnderWay(s) BY <1>t, <1>1, <2>1 DEF Calm, UnderWay
  <2> QED BY <1>o, <2>1, <2>2, <2>3 DEF OnceFor
<1>2. CASE CreateLoginUrl
  <2>1. /\ logins' = logins + 1 /\ deadline' = Append(deadline, clock + StateTTL)
        /\ UNCHANGED <<rows, req>>
    BY <1>2 DEF CreateLoginUrl
  <2>2. From(s)' = From(s) /\ UnderWay(s)' = UnderWay(s) BY <2>1 DEF From, UnderWay
  <2>3. CASE s = logins + 1
    <3>1. From(s) = {} /\ UnderWay(s) = {} BY <1>t, <2>3 DEF From, UnderWay
    <3> QED BY <2>2, <3>1 DEF OnceFor
  <2>4. CASE s # logins + 1
    <3>1. s \in 1 .. logins BY <1>t, <2>1, <2>4
    <3>2. clock + StateTTL \in Nat BY TFacts, BrokerSessionAssumption
    <3>3. deadline'[s] = deadline[s] BY <1>t, <2>1, <3>1, <3>2
    <3> QED BY <1>o, <2>2, <3>1, <3>3 DEF OnceFor
  <2> QED BY <2>3, <2>4
<1>3. ASSUME NEW q \in Requests, NEW u \in 1 .. logins, ConsumeState(q, u)
      PROVE  OnceFor(s)'
  <2>1. /\ Only(q) /\ req'[q].state = u /\ deadline[u] # 0
        /\ UNCHANGED <<logins, rows>>
        /\ \A k \in 1 .. logins : deadline'[k] = IF k = u THEN 0 ELSE deadline[k]
    BY <1>3, ConsumeStep
  <2>2. s \in 1 .. logins /\ From(s)' = From(s) BY <2>1 DEF From
  <2>3. CASE s = u
    <3>1. From(s) = {} /\ UnderWay(s) = {} BY <1>o, <2>1, <2>3 DEF OnceFor
    <3>2. UnderWay(s)' \subseteq {q} BY <2>1, <3>1 DEF UnderWay, Only
    <3>3. deadline'[s] = 0 BY <2>1, <2>3
    <3> QED BY <2>2, <3>1, <3>2, <3>3 DEF OnceFor
  <2>4. CASE s # u
    <3>1. UnderWay(s)' \subseteq UnderWay(s) BY <2>1, <2>4 DEF UnderWay, Only
    <3>2. deadline'[s] = deadline[s] BY <2>1, <2>2, <2>4
    <3> QED BY <1>o, <2>2, <3>1, <3>2 DEF OnceFor
  <2> QED BY <2>3, <2>4
<1>4. ASSUME NEW q \in Requests, ExchangeRequestToken(q)
      PROVE  OnceFor(s)'
  <2>1. Only(q) /\ req'[q].state = req[q].state /\ UNCHANGED <<logins, deadline, rows>>
    BY <1>4, ExchangeStep
  <2>2. s \in 1 .. logins /\ From(s)' = From(s) /\ deadline' = deadline BY <2>1 DEF From
  <2>3. UnderWay(s)' = UnderWay(s) BY <2>1 DEF UnderWay, Only
  <2> QED BY <1>o, <2>2, <2>3 DEF OnceFor
<1>5. ASSUME NEW q \in Requests, SaveCommit(q)
      PROVE  OnceFor(s)'
  <2> DEFINE n == Len(rows) + 1
  <2>1. /\ Len(rows') = n /\ rows'[n].state = req[q].state
        /\ req' = [req EXCEPT ![q] = Idle] /\ UNCHANGED <<logins, deadline>>
    BY <1>5, CommitStep
  <2>2. Only(q) /\ req'[q].state = 0 BY <2>1, EndStep
  <2>3. s \in 1 .. logins /\ s # 0 BY <1>t, <2>1
  <2>4. UnderWay(s)' = UnderWay(s) \ {q} BY <2>2, <2>3 DEF UnderWay, Only
  <2>5. From(s)' = From(s) \cup {i \in {n} : req[q].state = s}
    BY <1>t, <1>k, <2>1 DEF From, Kept
  <2>6. CASE req[q].state = s
    <3>1. q \in UnderWay(s) BY <2>6 DEF UnderWay
    <3>2. From(s) = {} /\ deadline[s] = 0 /\ UnderWay(s) \ {q} = {}
      BY <1>o, <2>3, <3>1 DEF OnceFor
    <3>3. From(s)' = {n} BY <2>5, <2>6, <3>2
    <3> QED BY <2>1, <2>4, <3>2, <3>3 DEF OnceFor
  <2>7. CASE req[q].state # s
    <3>1. From(s)' = From(s) BY <2>5, <2>7
    <3> QED BY <1>o, <2>1, <2>3, <2>4, <3>1 DEF OnceFor
  <2> QED BY <2>6, <2>7
<1> QED BY <1>1, <1>2, <1>3, <1>4, <1>5, StepKinds

\* A login URL is good for one session, whatever callbacks, retries and restarts interleave.
THEOREM OneSessionPerLogin == Spec => []LoginOncePerState
<1>1. Init => TInv /\ LoginOncePerState
  <2> SUFFICES ASSUME Init PROVE LoginOncePerState BY TInit
  <2> QED BY DEF Init, LoginOncePerState
<1>2. TInv /\ LoginOncePerState /\ [Next]_vars => (TInv /\ LoginOncePerState)' BY TStep, OnceStep
<1> QED BY <1>1, <1>2, PTL DEF Spec
-----------------------------------------------------------------------------
(* Tokens: the order of the exchanges. *)

\* No two rows, no two saves, and no row and no save hold one token.
CreatedOK ==
    /\ \A i, j \in 1 .. Len(rows) : rows[i].created = rows[j].created => i = j
    /\ \A p, q \in Requests : req[p].created = req[q].created /\ req[p].created # 0 => p = q
    /\ \A i \in 1 .. Len(rows), p \in Requests : rows[i].created # req[p].created

\* Every step keeps it: an exchange yields a token that is new.
LEMMA CreatedStep ==
    ASSUME TInv, CreatedOK, [Next]_vars
    PROVE  CreatedOK'
<1>t. /\ Len(rows) \in Nat /\ exchanged \in Nat
      /\ \A i \in 1 .. Len(rows) : rows[i].created \in 1 .. exchanged
      /\ \A q \in Requests : req[q].created \in 0 .. exchanged
  BY TFacts DEF TInv, RecOK, RowOK, Request
<1>k. Kept BY StepKinds
<1>1. CASE Calm
  <2>1. Len(rows') = Len(rows) BY <1>1 DEF Calm
  <2>2. \A i \in 1 .. Len(rows) : rows'[i].created = rows[i].created BY <1>k DEF Kept
  <2>3. \A p \in Requests : req'[p].created \in {req[p].created, 0} BY <1>1 DEF Calm
  <2> QED BY <1>t, <2>1, <2>2, <2>3, SMTT(30) DEF CreatedOK
<1>2. CASE UNCHANGED <<rows, req>>
  BY <1>2 DEF CreatedOK
<1>3. ASSUME NEW q \in Requests, NEW s \in 1 .. logins, ConsumeState(q, s)
      PROVE  CreatedOK'
  <2>1. Only(q) /\ req'[q].created = 0 /\ rows' = rows BY <1>3, ConsumeStep
  <2>2. \A p \in Requests : req'[p].created \in {req[p].created, 0} BY <2>1 DEF Only
  <2>3. \A i \in 1 .. Len(rows) : rows[i].created # 0 BY <1>t
  <2>4. \A i \in 1 .. Len(rows), p \in Requests : rows[i].created # req'[p].created
    BY <2>2, <2>3 DEF CreatedOK
  <2>5. \A p, r \in Requests : req'[p].created = req'[r].created /\ req'[p].created # 0 => p = r
    BY <2>2 DEF CreatedOK
  <2> QED BY <2>1, <2>4, <2>5 DEF CreatedOK
<1>4. ASSUME NEW q \in Requests, ExchangeRequestToken(q)
      PROVE  CreatedOK'
  <2>1. Only(q) /\ req'[q].created = exchanged + 1 /\ rows' = rows BY <1>4, ExchangeStep
  <2>2. \A p \in Requests : req'[p].created = IF p = q THEN exchanged + 1 ELSE req[p].created
    BY <2>1 DEF Only
  <2>3. \A p \in Requests : req[p].created # exchanged + 1 BY <1>t
  <2>4. \A i \in 1 .. Len(rows) : rows[i].created # exchanged + 1 BY <1>t
  <2>5. \A p, r \in Requests : req'[p].created = req'[r].created /\ req'[p].created # 0 => p = r
    BY <2>2, <2>3 DEF CreatedOK
  <2>6. \A i \in 1 .. Len(rows), p \in Requests : rows[i].created # req'[p].created
    BY <2>2, <2>4 DEF CreatedOK
  <2> QED BY <2>1, <2>5, <2>6 DEF CreatedOK
<1>5. ASSUME NEW q \in Requests, SaveCommit(q)
      PROVE  CreatedOK'
  <2> DEFINE n == Len(rows) + 1
  <2>1. /\ Len(rows') = n /\ rows'[n].created = req[q].created
        /\ req' = [req EXCEPT ![q] = Idle] /\ req[q].pc = "commit"
    BY <1>5, CommitStep
  <2>2. Only(q) /\ req'[q].created = 0 BY <2>1, EndStep
  <2>3. req[q].created # 0 BY <2>1, <1>t DEF TInv, RecOK, Saving
  <2>4. \A p \in Requests : req'[p].created = IF p = q THEN 0 ELSE req[p].created
    BY <2>2 DEF Only
  <2>5. \A i \in 1 .. Len(rows) : rows'[i].created = rows[i].created BY <1>k DEF Kept
  <2>6. \A i \in 1 .. n : i \in 1 .. Len(rows) \/ i = n BY <1>t
  <2>7. \A i, j \in 1 .. n : rows'[i].created = rows'[j].created => i = j
    BY <2>1, <2>5, <2>6 DEF CreatedOK
  <2>8. \A i \in 1 .. n, p \in Requests : rows'[i].created # req'[p].created
    BY <1>t, <2>1, <2>3, <2>4, <2>5, <2>6 DEF CreatedOK
  <2>9. \A p, r \in Requests : req'[p].created = req'[r].created /\ req'[p].created # 0 => p = r
    BY <2>4 DEF CreatedOK
  <2> QED BY <2>1, <2>7, <2>8, <2>9 DEF CreatedOK
<1>6. CreateLoginUrl => UNCHANGED <<rows, req>> BY DEF CreateLoginUrl
<1> QED BY <1>1, <1>2, <1>3, <1>4, <1>5, <1>6, StepKinds

\* It holds at the start.
LEMMA CreatedInit == Init => CreatedOK
<1> SUFFICES ASSUME Init PROVE CreatedOK OBVIOUS
<1>1. Len(rows) = 0 /\ \A q \in Requests : req[q] = Idle BY DEF Init
<1>2. Idle.created = 0 BY DEF Idle
<1> QED BY <1>1, <1>2 DEF CreatedOK

\* Once a session is ended no reader uses it or an older one.
THEOREM EndedStaysEnded == Spec => []NothingOlderAfterLogout
<1>1. TInv /\ CreatedOK => NothingOlderAfterLogout
  <2> SUFFICES ASSUME TInv, CreatedOK, NEW i \in DOMAIN rows, NEW j \in Usable, rows[i].ended # "no"
               PROVE  rows[i].created < rows[j].created
    BY DEF NothingOlderAfterLogout
  <2>1. j \in LatestSession /\ rows[j].ended = "no"
    BY DEF Usable, StatusAuthenticated, GetActiveSession, ReadinessSession
  <2>2. i \in 1 .. Len(rows) /\ j \in 1 .. Len(rows) /\ rows[i].created <= rows[j].created
    BY <2>1, LatestFacts, TFacts
  <2>3. rows[i].created # rows[j].created BY <2>1, <2>2 DEF CreatedOK
  <2>4. rows[i].created \in Nat /\ rows[j].created \in Nat BY <2>2, TFacts DEF Row
  <2> QED BY <2>2, <2>3, <2>4
<1>2. Init => TInv /\ CreatedOK BY TInit, CreatedInit
<1>3. TInv /\ CreatedOK /\ [Next]_vars => (TInv /\ CreatedOK)' BY TStep, CreatedStep
<1> QED BY <1>1, <1>2, <1>3, PTL DEF Spec

\* The expiry that is stored is the 06:00 at which Kite ends the token.
THEOREM TokensInUseAreLive == Spec => []UsableBeforeKiteEnds
<1>1. TInv => UsableBeforeKiteEnds
  <2> SUFFICES ASSUME TInv, NEW i \in Usable, rows[i].kiteEnd = KiteEnd(rows[i].login)
               PROVE  clock < rows[i].kiteEnd
    BY DEF UsableBeforeKiteEnds
  <2>1. i \in LatestSession /\ ~(clock >= rows[i].expires)
    <3>1. i \in LatestSession /\ (~IsExpired(i) \/ ~(rows[i].expires <= clock))
      BY DEF Usable, StatusAuthenticated, GetActiveSession, ReadinessSession
    <3>2. rows[i] \in Row BY <3>1, LatestFacts
    <3> QED BY <3>1, <3>2, TFacts DEF IsExpired, Row
  <2>2. i \in 1 .. Len(rows) /\ rows[i] \in Row BY <2>1, LatestFacts
  <2>3. rows[i].expires = NextKiteExpiry(rows[i].login) BY <2>2 DEF TInv, RowOK
  <2>4. rows[i].login \in Nat /\ rows[i].expires \in Nat BY <2>2 DEF Row
  <2>5. rows[i].kiteEnd = rows[i].expires BY <2>3, <2>4, ExpiryIsKiteEnd
  <2> QED BY <2>1, <2>4, <2>5, TFacts
<1> QED BY <1>1, TInit, TStep, PTL DEF Spec
-----------------------------------------------------------------------------
(* Which rows are ACTIVE together. *)

\* A save takes every row that was ACTIVE when its UPDATE began and still is.
SeenOK(q) ==
    /\ req[q].pc = "update" =>
          \A i \in 1 .. Len(rows) : i <= req[q].seen /\ rows[i].status = "ACTIVE" => i \in req[q].want
    /\ req[q].pc = "commit" =>
          \A i \in 1 .. Len(rows) : i <= req[q].seen /\ rows[i].status = "ACTIVE" => i \in req[q].held

Overlaps ==
    \A i, j \in 1 .. Len(rows) :
        i < j /\ rows[i].status = "ACTIVE" /\ rows[j].status = "ACTIVE" => rows[j].seen < i

SavesOK == Overlaps /\ \A q \in Requests : SeenOK(q)

\* A request that has not begun another save still takes every such row: rows added
\* later are beyond those that it saw.
LEMMA SeenStays ==
    ASSUME TInv, Kept, NEW p \in Requests, SeenOK(p), req'[p] = req[p],
           Len(rows') \in Nat
    PROVE  SeenOK(p)'
<1>1. Len(rows) \in Nat /\ req[p].seen \in Nat /\ req[p].seen <= Len(rows)
  BY TFacts DEF TInv, RecOK, Request
<1>2. \A i \in 1 .. Len(rows') : i <= req[p].seen => i \in 1 .. Len(rows) BY <1>1
<1> QED BY <1>2 DEF SeenOK, Kept

\* Every step keeps it.
LEMMA SavesStep ==
    ASSUME TInv, TInv', SavesOK, [Next]_vars
    PROVE  SavesOK'
<1>t. Len(rows) \in Nat /\ Len(rows') \in Nat
  <2>1. rows' \in Seq(Row) BY DEF TInv, TypeOK
  <2> QED BY <2>1, TFacts
<1>k. Kept BY StepKinds
<1>s. \A p \in Requests : req'[p] = req[p] => SeenOK(p)' BY <1>t, <1>k, SeenStays DEF SavesOK
<1>o. ASSUME Len(rows') = Len(rows) PROVE Overlaps'
  BY <1>k, <1>o DEF SavesOK, Overlaps, Kept
<1>q. ASSUME NEW q \in Requests, Only(q), Len(rows') = Len(rows), SeenOK(q)'
      PROVE  SavesOK'
  BY <1>o, <1>q, <1>s DEF SavesOK, Only
<1>1. ASSUME Len(rows') = Len(rows), UNCHANGED req
      PROVE  SavesOK'
  BY <1>1, <1>o, <1>s DEF SavesOK
<1>2. ASSUME NEW q \in Requests, Only(q), Len(rows') = Len(rows),
             req'[q].pc \notin {"update", "commit"}
      PROVE  SavesOK'
  BY <1>2, <1>q DEF SeenOK
<1>3. ASSUME NEW q \in Requests, NEW s \in 1 .. logins, ConsumeState(q, s) PROVE SavesOK'
  BY <1>2, <1>3, ConsumeStep
<1>4. ASSUME NEW q \in Requests, ExchangeRequestToken(q) PROVE SavesOK'
  BY <1>2, <1>4, ExchangeStep
<1>5. ASSUME NEW q \in Requests, SaveBegin(q) PROVE SavesOK'
  <2>1. /\ Only(q) /\ rows' = rows /\ req'[q].pc = "update"
        /\ req'[q].want = {i \in 1 .. Len(rows) : rows[i].status = "ACTIVE"}
    BY <1>5, SaveBeginStep
  <2>2. SeenOK(q)' BY <2>1 DEF SeenOK
  <2> QED BY <1>q, <2>1, <2>2
<1>6. ASSUME NEW q \in Requests, SaveUpdate(q) PROVE SavesOK'
  <2>1. /\ Only(q) /\ rows' = rows /\ req[q].pc = "update" /\ req'[q].pc = "commit"
        /\ req'[q].seen = req[q].seen
        /\ req'[q].held = {i \in req[q].want : rows[i].status = "ACTIVE"}
    BY <1>6, SaveUpdateStep
  <2>2. SeenOK(q)' BY <2>1 DEF SavesOK, SeenOK
  <2> QED BY <1>q, <2>1, <2>2
<1>7. ASSUME NEW q \in Requests, SaveCommit(q) PROVE SavesOK'
  <2> DEFINE n == Len(rows) + 1
  <2>1. /\ Len(rows') = n /\ rows'[n].seen = req[q].seen
        /\ req' = [req EXCEPT ![q] = Idle] /\ req[q].pc = "commit"
    BY <1>7, CommitStep
  <2>2. \A i \in 1 .. Len(rows) :
           rows'[i].status = IF i \in req[q].held THEN "EXPIRED" ELSE rows[i].status
    BY <1>7, CommitStep
  <2>3. Only(q) /\ req'[q].pc = "idle" BY <2>1, EndStep
  <2>4. \A p \in Requests : SeenOK(p)' BY <1>s, <2>3 DEF SeenOK, Only
  <2>5. req[q].seen \in Nat BY TFacts DEF Request
  <2>6. ASSUME NEW i \in 1 .. Len(rows), rows'[i].status = "ACTIVE" PROVE req[q].seen < i
    <3>1. rows[i].status = "ACTIVE" /\ i \notin req[q].held BY <2>2, <2>6
    <3>2. ~(i <= req[q].seen) BY <2>1, <3>1 DEF SavesOK, SeenOK
    <3> QED BY <1>t, <2>5, <3>2
  <2>7. ASSUME NEW i \in 1 .. n, NEW j \in 1 .. n, i < j, rows'[i].status = "ACTIVE",
               rows'[j].status = "ACTIVE"
        PROVE  rows'[j].seen < i
    <3>1. i \in 1 .. Len(rows) BY <1>t, <2>7
    <3>2. CASE j = n BY <2>1, <2>6, <2>7, <3>1, <3>2
    <3>3. CASE j # n
      <4>1. j \in 1 .. Len(rows) BY <1>t, <3>3
      <4> QED BY <1>k, <2>7, <3>1, <4>1 DEF SavesOK, Overlaps, Kept
    <3> QED BY <3>2, <3>3
  <2>8. Overlaps' BY <2>1, <2>7 DEF Overlaps
  <2> QED BY <2>4, <2>8 DEF SavesOK
<1>8. ASSUME NEW q \in Requests, ReadStatus(q) PROVE SavesOK'
  BY <1>2, <1>8, ReadStatusStep
<1>9. ASSUME NEW q \in Requests, Logout(q) PROVE SavesOK'
  <2>1. rows' = rows /\ (req' = req \/ (Only(q) /\ req'[q].pc = "mark_out")) BY <1>9, LogoutStep
  <2> QED BY <1>1, <1>2, <2>1
<1>10. ASSUME NEW q \in Requests, MarkExpired(q) \/ MarkLoggedOut(q) PROVE SavesOK'
  <2>1. Len(rows') = Len(rows) BY <1>10, MarkForms, MarkStep DEF Statuses
  <2>2. req' = [req EXCEPT ![q] = Idle] BY <1>10 DEF MarkExpired, MarkLoggedOut
  <2>3. Only(q) /\ req'[q].pc = "idle" BY <2>2, EndStep
  <2> QED BY <1>2, <2>1, <2>3
<1>11. ASSUME NEW q \in Requests, Abandon(q) PROVE SavesOK'
  <2>1. rows' = rows /\ req' = [req EXCEPT ![q] = Idle] BY <1>11 DEF Abandon
  <2>2. Only(q) /\ req'[q].pc = "idle" BY <2>1, EndStep
  <2> QED BY <1>2, <2>1, <2>2
<1>12. CreateLoginUrl \/ Tick \/ UNCHANGED vars => Len(rows') = Len(rows) /\ UNCHANGED req
  BY DEF CreateLoginUrl, Tick, vars
<1> QED BY <1>1, <1>3, <1>4, <1>5, <1>6, <1>7, <1>8, <1>9, <1>10, <1>11, <1>12 DEF Next

\* Two sessions are ACTIVE together only if their saves overlapped.
THEOREM ActiveTogether == Spec => []ActiveRowsOverlapped
<1>1. TInv /\ SavesOK => ActiveRowsOverlapped
  BY TFacts DEF SavesOK, Overlaps, ActiveRowsOverlapped
<1>2. Init => TInv /\ SavesOK
  <2> SUFFICES ASSUME Init PROVE SavesOK BY TInit
  <2>1. Len(rows) = 0 BY DEF Init
  <2> QED BY <2>1 DEF SavesOK, Overlaps, SeenOK
<1>3. TInv /\ SavesOK /\ [Next]_vars => (TInv /\ SavesOK)' BY TStep, SavesStep
<1> QED BY <1>1, <1>2, <1>3, PTL DEF Spec

-----------------------------------------------------------------------------
(* Who ends a session. *)

\* Logout may end row i without a call to Kite: its token is invalidated or over, or
\* the save of an older login took the row.
Gone(i) ==
    \/ rows[i].created \in revoked
    \/ clock >= rows[i].expires
    \/ \E j \in i + 1 .. Len(rows) : rows[j].created < rows[i].created /\ i <= rows[j].seen

\* The UPDATE of a save takes rows that it saw.
TakesSeen(r) ==
    /\ r.pc = "update" => \A i \in r.want : i <= r.seen
    /\ r.pc = "commit" => \A i \in r.held : i <= r.seen

MarkOK(r) ==
    /\ r.pc = "mark_expired" => clock >= rows[r.id].expires
    /\ r.pc = "mark_out" => Gone(r.id)
    /\ TakesSeen(r)

EndOK(i) ==
    /\ rows[i].status # "ACTIVE" => rows[i].ended # "no"
                                 \/ \E j \in i + 1 .. Len(rows) : i <= rows[j].seen
    /\ rows[i].ended = "status" => clock >= rows[i].expires
    /\ rows[i].ended = "logout" => Gone(i)

EndsOK == (\A i \in 1 .. Len(rows) : EndOK(i)) /\ \A q \in Requests : MarkOK(req[q])

\* What needs no call stays so, and an expired session stays expired.
LEMMA GoneStays ==
    ASSUME TInv, Kept, clock' \in Nat, Len(rows') \in Nat, NEW i \in 1 .. Len(rows)
    PROVE  /\ Gone(i) => Gone(i)'
           /\ (\E j \in i + 1 .. Len(rows) : i <= rows[j].seen)
                 => \E j \in i + 1 .. Len(rows') : i <= rows'[j].seen
           /\ clock >= rows[i].expires => clock' >= rows'[i].expires
<1>1. rows[i].expires \in Nat /\ clock \in Nat /\ Len(rows) \in Nat BY TFacts DEF Row
<1>2. clock >= rows[i].expires => clock' >= rows'[i].expires BY <1>1 DEF Kept
<1>3. \A j \in i + 1 .. Len(rows) : j \in 1 .. Len(rows) /\ j \in i + 1 .. Len(rows') BY <1>1 DEF Kept
<1>4. (\E j \in i + 1 .. Len(rows) : rows[j].created < rows[i].created /\ i <= rows[j].seen)
         => \E j \in i + 1 .. Len(rows') : rows'[j].created < rows'[i].created /\ i <= rows'[j].seen
  BY <1>3 DEF Kept
<1>6. (\E j \in i + 1 .. Len(rows) : i <= rows[j].seen)
         => \E j \in i + 1 .. Len(rows') : i <= rows'[j].seen
  BY <1>3 DEF Kept
<1>5. rows[i].created \in revoked => rows'[i].created \in revoked' BY DEF Kept
<1> QED BY <1>2, <1>4, <1>5, <1>6 DEF Gone

\* Every step keeps it.
LEMMA EndsStep ==
    ASSUME TInv, TInv', CreatedOK, EndsOK, [Next]_vars
    PROVE  EndsOK'
<1>t. Len(rows) \in Nat /\ Len(rows') \in Nat /\ clock \in Nat /\ clock' \in Nat
  <2>1. rows' \in Seq(Row) /\ clock' \in Nat BY DEF TInv, TypeOK
  <2> QED BY <2>1, TFacts
<1>k. Kept BY StepKinds
<1>g. \A i \in 1 .. Len(rows) : /\ Gone(i) => Gone(i)'
                                /\ (\E j \in i + 1 .. Len(rows) : i <= rows[j].seen)
                                      => \E j \in i + 1 .. Len(rows') : i <= rows'[j].seen
                                /\ clock >= rows[i].expires => clock' >= rows'[i].expires
  BY <1>t, <1>k, GoneStays
<1>m. ASSUME NEW p \in Requests, req'[p] = req[p] PROVE MarkOK(req[p])'
  <2>1. req[p].pc \in Marking => req[p].id \in 1 .. Len(rows) BY DEF TInv, RecOK
  <2>2. MarkOK(req[p]) BY DEF EndsOK
  <2> QED BY <1>g, <1>m, <2>1, <2>2 DEF MarkOK, TakesSeen, Marking
<1>r. ASSUME rows' = rows PROVE \A i \in 1 .. Len(rows') : EndOK(i)'
  <2> SUFFICES ASSUME NEW i \in 1 .. Len(rows) PROVE EndOK(i)' BY <1>r
  <2>1. EndOK(i) BY DEF EndsOK
  <2> QED BY <1>g, <1>r, <2>1 DEF EndOK
<1>1. ASSUME rows' = rows, UNCHANGED req PROVE EndsOK'
  BY <1>1, <1>m, <1>r DEF EndsOK
<1>q. ASSUME NEW q \in Requests, Only(q), rows' = rows, MarkOK(req[q])' PROVE EndsOK'
  BY <1>m, <1>q, <1>r DEF EndsOK, Only
<1>2. ASSUME NEW q \in Requests, Only(q), rows' = rows, req'[q].pc \notin Marking, TakesSeen(req[q])'
      PROVE  EndsOK'
  BY <1>2, <1>q DEF MarkOK, Marking
<1>3. ASSUME NEW q \in Requests, NEW s \in 1 .. logins, ConsumeState(q, s) PROVE EndsOK'
  BY <1>2, <1>3, ConsumeStep DEF Marking, TakesSeen
<1>4. ASSUME NEW q \in Requests, ExchangeRequestToken(q) PROVE EndsOK'
  BY <1>2, <1>4, ExchangeStep DEF Marking, TakesSeen
<1>5. ASSUME NEW q \in Requests, SaveBegin(q) PROVE EndsOK'
  <2>1. /\ Only(q) /\ rows' = rows /\ req'[q].pc = "update" /\ req'[q].seen = Len(rows)
        /\ req'[q].want = {i \in 1 .. Len(rows) : rows[i].status = "ACTIVE"}
    BY <1>5, SaveBeginStep
  <2>2. \A i \in req'[q].want : i <= req'[q].seen BY <1>t, <2>1
  <2> QED BY <1>2, <2>1, <2>2 DEF Marking, TakesSeen
<1>6. ASSUME NEW q \in Requests, SaveUpdate(q) PROVE EndsOK'
  <2>1. /\ Only(q) /\ rows' = rows /\ req[q].pc = "update" /\ req'[q].pc = "commit"
        /\ req'[q].seen = req[q].seen
        /\ req'[q].held = {i \in req[q].want : rows[i].status = "ACTIVE"}
    BY <1>6, SaveUpdateStep
  <2>2. \A i \in req[q].want : i <= req[q].seen BY <2>1 DEF EndsOK, MarkOK, TakesSeen
  <2> QED BY <1>2, <2>1, <2>2 DEF Marking, TakesSeen
<1>7. ASSUME NEW q \in Requests, SaveCommit(q) PROVE EndsOK'
  <2>0. PICK n \in Nat : n = Len(rows) + 1 BY <1>t
  <2>1. /\ Len(rows') = n /\ rows'[n].status = "ACTIVE" /\ rows'[n].ended = "no"
        /\ req' = [req EXCEPT ![q] = Idle]
    BY <1>7, <2>0, CommitStep
  <2>2. Only(q) /\ req'[q].pc = "idle" BY <2>1, EndStep
  <2>3. \A p \in Requests : MarkOK(req[p])' BY <1>m, <2>2 DEF MarkOK, TakesSeen, Only
  <2>4. ASSUME NEW i \in 1 .. Len(rows) PROVE EndOK(i)'
    <3>1. /\ rows'[i].ended = rows[i].ended /\ rows'[n].seen = req[q].seen /\ req[q].pc = "commit"
          /\ rows'[i].status = IF i \in req[q].held THEN "EXPIRED" ELSE rows[i].status
      BY <1>7, <2>0, CommitStep
    <3>2. EndOK(i) BY DEF EndsOK
    <3>3. i \in req[q].held => i <= rows'[n].seen BY <3>1 DEF EndsOK, MarkOK, TakesSeen
    <3>4. n \in i + 1 .. Len(rows') BY <1>t, <2>0, <2>1
    <3>5. i \in req[q].held => \E j \in i + 1 .. Len(rows') : i <= rows'[j].seen BY <3>3, <3>4
    <3> QED BY <1>g, <3>1, <3>2, <3>5 DEF EndOK
  <2>5. EndOK(n)' BY <2>1 DEF EndOK
  <2>6. \A i \in 1 .. Len(rows') : i \in 1 .. Len(rows) \/ i = n BY <1>t, <2>0, <2>1
  <2> QED BY <2>3, <2>4, <2>5, <2>6 DEF EndsOK
<1>8. ASSUME NEW q \in Requests, ReadStatus(q) PROVE EndsOK'
  <2>1. /\ Only(q) /\ UNCHANGED <<clock, rows>> /\ req'[q].pc = "mark_expired"
        /\ clock >= rows[req'[q].id].expires
    BY <1>8, ReadStatusStep
  <2>2. MarkOK(req[q])' BY <2>1 DEF MarkOK, TakesSeen
  <2> QED BY <1>q, <2>1, <2>2
<1>9. ASSUME NEW q \in Requests, Logout(q) PROVE EndsOK'
  <2>1. rows' = rows /\ clock' = clock BY <1>9, LogoutStep
  <2>2. CASE req' = req BY <1>1, <2>1, <2>2
  <2>3. CASE req' # req
    <3>1. Only(q) /\ req'[q].pc = "mark_out" BY <1>9, <2>3, LogoutStep
    <3>2. PICK i \in LatestSession :
             /\ i \in 1 .. Len(rows) /\ req'[q].id = i
             /\ \/ rows[i].created \in revoked'
                \/ rows[i].status # "ACTIVE"
                \/ clock >= rows[i].expires
      BY <1>9, <2>3, LogoutStep
    <3>3. EndOK(i) BY <3>2 DEF EndsOK
    <3>4. ASSUME rows[i].status # "ACTIVE" PROVE Gone(i)
      <4>1. CASE rows[i].ended # "no"
        <5>1. rows[i].ended \in {"no", "logout", "status"} BY <3>2, TFacts DEF Row
        <5> QED BY <3>3, <4>1, <5>1 DEF EndOK, Gone
      <4>2. CASE rows[i].ended = "no"
        <5>1. PICK j \in i + 1 .. Len(rows) : i <= rows[j].seen BY <3>3, <3>4, <4>2 DEF EndOK
        <5>2. j \in 1 .. Len(rows) /\ j # i BY <1>t, <3>2, <5>1
        <5>3. rows[j].created <= rows[i].created BY <5>2, LatestFacts
        <5>4. rows[j].created # rows[i].created BY <3>2, <5>2 DEF CreatedOK
        <5>5. rows[j].created \in Nat /\ rows[i].created \in Nat
          BY <3>2, <5>2, TFacts DEF Row
        <5>6. rows[j].created < rows[i].created BY <5>3, <5>4, <5>5
        <5> QED BY <5>1, <5>6 DEF Gone
      <4> QED BY <4>1, <4>2
    <3>5. Gone(i)' BY <1>g, <2>1, <3>2, <3>4 DEF Gone
    <3>6. MarkOK(req[q])' BY <3>1, <3>2, <3>5 DEF MarkOK, TakesSeen
    <3> QED BY <1>q, <2>1, <3>1, <3>6
  <2> QED BY <2>2, <2>3
<1>10. ASSUME NEW q \in Requests, NEW status \in Statuses \ {"ACTIVE"},
              NEW by \in {"logout", "status"}, Marks(q, status, by),
              by = "status" => req[q].pc = "mark_expired",
              by = "logout" => req[q].pc = "mark_out"
       PROVE  EndsOK'
  <2>1. Len(rows') = Len(rows) /\ req[q].id \in 1 .. Len(rows) BY <1>10, MarkStep
  <2>2. req' = [req EXCEPT ![q] = Idle] BY <1>10 DEF Marks
  <2>3. Only(q) /\ req'[q].pc = "idle" BY <2>2, EndStep
  <2>4. \A p \in Requests : MarkOK(req[p])' BY <1>m, <2>3 DEF MarkOK, TakesSeen, Only
  <2>5. ASSUME NEW i \in 1 .. Len(rows) PROVE EndOK(i)'
    <3>1. /\ rows'[i].status = IF i = req[q].id THEN status ELSE rows[i].status
          /\ rows'[i].ended = IF i = req[q].id THEN by ELSE rows[i].ended
      BY <1>10, MarkStep
    <3>2. EndOK(i) /\ MarkOK(req[q]) BY DEF EndsOK
    <3>3. CASE i = req[q].id
      BY <1>10, <1>g, <3>1, <3>2, <3>3 DEF EndOK, MarkOK
    <3>4. CASE i # req[q].id
      BY <1>g, <2>1, <3>1, <3>2, <3>4 DEF EndOK
    <3> QED BY <3>3, <3>4
  <2> QED BY <2>1, <2>4, <2>5 DEF EndsOK
<1>11. ASSUME NEW q \in Requests, Abandon(q) PROVE EndsOK'
  <2>1. rows' = rows /\ req' = [req EXCEPT ![q] = Idle] BY <1>11 DEF Abandon
  <2>2. Only(q) /\ req'[q].pc = "idle" BY <2>1, EndStep
  <2> QED BY <1>2, <2>1, <2>2 DEF Marking, TakesSeen
<1>12. CreateLoginUrl \/ Tick \/ UNCHANGED vars => rows' = rows /\ UNCHANGED req
  BY DEF CreateLoginUrl, Tick, vars
<1>13. ASSUME NEW q \in Requests, MarkExpired(q) PROVE EndsOK'
  <2>1. Marks(q, "EXPIRED", "status") /\ req[q].pc = "mark_expired" BY <1>13, MarkForms DEF MarkExpired
  <2> QED BY <1>10, <2>1 DEF Statuses
<1>14. ASSUME NEW q \in Requests, MarkLoggedOut(q) PROVE EndsOK'
  <2>1. Marks(q, "LOGGED_OUT", "logout") /\ req[q].pc = "mark_out" BY <1>14, MarkForms DEF MarkLoggedOut
  <2> QED BY <1>10, <2>1 DEF Statuses
<1> QED BY <1>1, <1>3, <1>4, <1>5, <1>6, <1>7, <1>8, <1>9, <1>11, <1>12, <1>13, <1>14 DEF Next

\* The invariant under which sessions end rightly holds in every behaviour.
LEMMA EndsAlways == Spec => [](TInv /\ EndsOK)
<1>1. Init => TInv /\ CreatedOK /\ EndsOK
  <2> SUFFICES ASSUME Init PROVE EndsOK BY TInit, CreatedInit
  <2>1. Len(rows) = 0 /\ \A q \in Requests : req[q] = Idle BY DEF Init
  <2>2. Idle.pc = "idle" BY DEF Idle
  <2> QED BY <2>1, <2>2 DEF EndsOK, MarkOK, TakesSeen
<1>2. TInv /\ CreatedOK /\ EndsOK /\ [Next]_vars => (TInv /\ CreatedOK /\ EndsOK)'
  BY TStep, CreatedStep, EndsStep
<1> QED BY <1>1, <1>2, PTL DEF Spec

\* A logout that marked a session has invalidated its token, unless the session was over
\* or the save of a login exchanged before it had set its row to EXPIRED.
THEOREM LogoutIsComplete == Spec => []LogoutRevokesToken
<1>1. TInv /\ EndsOK => LogoutRevokesToken
  BY TFacts DEF EndsOK, EndOK, Gone, LogoutRevokesToken, IsExpired
<1> QED BY <1>1, EndsAlways, PTL

\* A status call ends expired sessions only.
THEOREM StatusEndsExpiredOnly == Spec => []StatusSparesNewLogin
<1>1. TInv /\ EndsOK => StatusSparesNewLogin
  BY TFacts DEF EndsOK, EndOK, StatusSparesNewLogin, IsExpired
<1> QED BY <1>1, EndsAlways, PTL

=============================================================================
