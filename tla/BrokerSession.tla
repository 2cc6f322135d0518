--------------------------- MODULE BrokerSession ---------------------------
(***************************************************************************)
(* The Kite login and the rows of broker_sessions                          *)
(* (backend/app/broker/kite_auth_service.py, session_store.py,             *)
(* session_provider.py), and what stream_readiness.py reads of them, in a  *)
(* deployment where authentication is enabled and configured.              *)
(*                                                                         *)
(* A request is at one of its awaits.  Calls to Kite are synchronous: no   *)
(* other request moves during one, but time does.  PostgreSQL runs at READ *)
(* COMMITTED: a statement sees the rows committed when it began, waits for *)
(* the row locks of other transactions and then looks at the locked rows,  *)
(* and only at those, again.                                               *)
(***************************************************************************)
EXTENDS Integers, Sequences

CONSTANTS
    Requests,       \* tasks that handle requests
    DayLength,      \* ticks of a day
    SixAM,          \* the tick of a day at which Kite ends its sessions
    StateTTL,       \* STATE_TTL_SECONDS
    MaxCall,        \* bound: ticks that a call to Kite may take
    MaxLogins,      \* bound: login URLs created
    MaxTime         \* bound: last tick of the clock

ASSUME BrokerSessionAssumption ==
    /\ DayLength \in Nat \ {0} /\ SixAM \in 0 .. DayLength - 1
    /\ StateTTL \in Nat \ {0} /\ {MaxCall, MaxLogins, MaxTime} \subseteq Nat

VARIABLES
    clock,      \* the time
    logins,     \* number of login URLs created: states are 1 .. logins
    deadline,   \* Redis: deadline[s] is when state s expires, 0 once it is deleted
    exchanged,  \* number of sessions that Kite has issued: tokens are 1 .. exchanged
    revoked,    \* Kite: the tokens that were invalidated
    rows,       \* broker_sessions, in the order of their commits
    req         \* [Requests -> Request]: what each request is doing

vars == <<clock, logins, deadline, exchanged, revoked, rows, req>>

Statuses == {"ACTIVE", "LOGGED_OUT", "EXPIRED"}

\* created_at is the order of the exchanges, hence also the number of the token.
\* ended is "no" while invalidated_at is NULL, else who set it.  The other fields
\* are history: the state that was consumed, when Kite ends the token, and the
\* number of rows committed when the save began.
Row == [created : Nat, login : Nat, expires : Nat, status : Statuses, ended : {"no", "logout", "status"},
        state : Nat, kiteEnd : Nat, seen : Nat]

Idle == [pc |-> "idle", state |-> 0, created |-> 0, login |-> 0, expires |-> 0, kiteEnd |-> 0,
         seen |-> 0, want |-> {}, held |-> {}, id |-> 0]

-----------------------------------------------------------------------------
(* Expiry, and the readers of the latest row. *)

\* Mutant: a session lasts a day.
ADayLater(t) == t + DayLength

\* next_kite_expiry
NextKiteExpiry(t) ==
    LET six == (t - (t % DayLength)) + SixAM
    IN  IF t >= six THEN six + DayLength ELSE six

\* Kite ends the sessions issued at t: at the first 06:00 after it.
KiteEnd(t) ==
    CHOOSE e \in t + 1 .. t + DayLength : e % DayLength = SixAM

IsExpired(i) == clock >= rows[i].expires

\* Mutant: the latest row among the active ones.
LatestActiveSession ==
    {i \in DOMAIN rows : /\ rows[i].status = "ACTIVE"
                         /\ \A j \in DOMAIN rows :
                               rows[j].status = "ACTIVE" => rows[j].created <= rows[i].created}

\* get_latest_session, whatever its status: empty or a singleton.
LatestSession ==
    {i \in DOMAIN rows : \A j \in DOMAIN rows : rows[j].created <= rows[i].created}

\* _status_from_record: the sessions that the status route calls authenticated.
StatusAuthenticated ==
    {i \in LatestSession : rows[i].status = "ACTIVE" /\ ~IsExpired(i) /\ rows[i].ended = "no"}

\* get_active_session: the sessions whose token is handed out.
GetActiveSession ==
    {i \in LatestSession : /\ ~(rows[i].status # "ACTIVE" \/ rows[i].ended # "no")
                           /\ ~(rows[i].expires <= clock)}

\* _session_status of the stream's readiness.
ReadinessSession ==
    {i \in LatestSession : /\ rows[i].status = "ACTIVE" /\ rows[i].ended = "no"
                           /\ ~(rows[i].expires <= clock)}

\* What some reader takes for a session it may use.
Usable == StatusAuthenticated \cup GetActiveSession \cup ReadinessSession

-----------------------------------------------------------------------------
(* Login URL and callback. *)

\* create_login_url: create_state.
CreateLoginUrl ==
    /\ logins < MaxLogins
    /\ logins' = logins + 1
    /\ deadline' = Append(deadline, clock + StateTTL)
    /\ UNCHANGED <<clock, exchanged, revoked, rows, req>>

\* Mutant: the state is looked up and not deleted.
PeekState(q, s) ==
    /\ req[q].pc = "idle"
    /\ clock < deadline[s]
    /\ req' = [req EXCEPT ![q] = [Idle EXCEPT !.pc = "exchange", !.state = s]]
    /\ UNCHANGED <<clock, logins, deadline, exchanged, revoked, rows>>

\* handle_callback up to consume_state, which deletes the key and tells whether it
\* was there; a callback that is refused changes nothing.
ConsumeState(q, s) ==
    /\ req[q].pc = "idle"
    /\ clock < deadline[s]
    /\ deadline' = [deadline EXCEPT ![s] = 0]
    /\ req' = [req EXCEPT ![q] = [Idle EXCEPT !.pc = "exchange", !.state = s]]
    /\ UNCHANGED <<clock, logins, exchanged, revoked, rows>>

\* exchange_request_token, after which the expiry and created_at are computed; Kite
\* issued the token at some moment of the call.
ExchangeRequestToken(q) ==
    /\ req[q].pc = "exchange"
    /\ exchanged < MaxLogins
    /\ \E t \in clock .. clock + MaxCall : \E issued \in clock .. t :
          /\ t <= MaxTime
          /\ clock' = t
          /\ exchanged' = exchanged + 1
          /\ req' = [req EXCEPT ![q].pc = "save", ![q].created = exchanged + 1,
                                ![q].login = t, ![q].expires = NextKiteExpiry(t),
                                ![q].kiteEnd = KiteEnd(issued)]
    /\ UNCHANGED <<logins, deadline, revoked, rows>>

\* save_authenticated_session: its UPDATE begins, and sees the ACTIVE rows.
SaveBegin(q) ==
    /\ req[q].pc = "save"
    /\ req' = [req EXCEPT ![q].pc = "update", ![q].seen = Len(rows),
                          ![q].want = {i \in DOMAIN rows : rows[i].status = "ACTIVE"}]
    /\ UNCHANGED <<clock, logins, deadline, exchanged, revoked, rows>>

\* No other transaction holds a lock on one of these rows.
Unlocked(q, ids) == \A p \in Requests \ {q} : req[p].held \cap ids = {}

\* The UPDATE has the locks it waited for and takes the rows that are still ACTIVE.
SaveUpdate(q) ==
    /\ req[q].pc = "update"
    /\ Unlocked(q, req[q].want)
    /\ req' = [req EXCEPT ![q].pc = "commit",
                          ![q].held = {i \in req[q].want : rows[i].status = "ACTIVE"}]
    /\ UNCHANGED <<clock, logins, deadline, exchanged, revoked, rows>>

NewRow(r) == [created |-> r.created, login |-> r.login, expires |-> r.expires,
              status |-> "ACTIVE", ended |-> "no", state |-> r.state, kiteEnd |-> r.kiteEnd, seen |-> r.seen]

\* Mutant: the sessions before this one stay ACTIVE.
InsertOnly(r) == Append(rows, NewRow(r))

\* The rows once the UPDATE and the INSERT of a save are committed.
Saved(r) ==
    Append([i \in DOMAIN rows |-> IF i \in r.held THEN [rows[i] EXCEPT !.status = "EXPIRED"]
                                                  ELSE rows[i]],
           NewRow(r))

SaveCommit(q) ==
    /\ req[q].pc = "commit"
    /\ rows' = Saved(req[q])
    /\ req' = [req EXCEPT ![q] = Idle]
    /\ UNCHANGED <<clock, logins, deadline, exchanged, revoked>>

-----------------------------------------------------------------------------
(* Status and logout. *)

\* get_status: an ACTIVE row found expired is marked after another await.
ReadStatus(q) ==
    /\ req[q].pc = "idle"
    /\ \E i \in LatestSession :
          /\ IsExpired(i) /\ rows[i].status = "ACTIVE"
          /\ req' = [req EXCEPT ![q] = [Idle EXCEPT !.pc = "mark_expired", !.id = i]]
    /\ UNCHANGED <<clock, logins, deadline, exchanged, revoked, rows>>

\* Mutant: the session is marked before Kite is asked, and Kite's error is swallowed.
LogoutLocally(q) ==
    /\ req[q].pc = "idle"
    /\ \E i \in LatestSession :
          req' = [req EXCEPT ![q] = [Idle EXCEPT !.pc = "mark_out", !.id = i]]
    /\ UNCHANGED <<clock, logins, deadline, exchanged, revoked, rows>>

\* logout up to mark_invalidated.  Kite invalidates the token of a session in use or
\* the call raises, which ends the request, with the token invalidated (the answer was
\* lost) or not.
Logout(q) ==
    /\ req[q].pc = "idle"
    /\ \E i \in LatestSession :
          IF rows[i].status = "ACTIVE" /\ ~IsExpired(i)
          THEN /\ revoked' = revoked \cup {rows[i].created}
               /\ \/ req' = [req EXCEPT ![q] = [Idle EXCEPT !.pc = "mark_out", !.id = i]]
                  \/ req' = req
          ELSE /\ req' = [req EXCEPT ![q] = [Idle EXCEPT !.pc = "mark_out", !.id = i]]
               /\ revoked' = revoked
    /\ UNCHANGED <<clock, logins, deadline, exchanged, rows>>

\* mark_invalidated: an UPDATE by id, whatever the row has become, and its commit.
MarkInvalidated(q, status, by) ==
    /\ Unlocked(q, {req[q].id})
    /\ rows' = [rows EXCEPT ![req[q].id] = [@ EXCEPT !.status = status, !.ended = by]]

\* Mutant: what is latest by now is marked, not what was read.
MarkLatestExpired(q) ==
    /\ req[q].pc = "mark_expired"
    /\ Unlocked(q, LatestSession)
    /\ rows' = [i \in DOMAIN rows |-> IF i \in LatestSession
                                      THEN [rows[i] EXCEPT !.status = "EXPIRED", !.ended = "status"]
                                      ELSE rows[i]]
    /\ req' = [req EXCEPT ![q] = Idle]
    /\ UNCHANGED <<clock, logins, deadline, exchanged, revoked>>

MarkExpired(q) ==
    /\ req[q].pc = "mark_expired"
    /\ MarkInvalidated(q, "EXPIRED", "status")
    /\ req' = [req EXCEPT ![q] = Idle]
    /\ UNCHANGED <<clock, logins, deadline, exchanged, revoked>>

MarkLoggedOut(q) ==
    /\ req[q].pc = "mark_out"
    /\ MarkInvalidated(q, "LOGGED_OUT", "logout")
    /\ req' = [req EXCEPT ![q] = Idle]
    /\ UNCHANGED <<clock, logins, deadline, exchanged, revoked>>

-----------------------------------------------------------------------------
(* Failures and time. *)

\* A call of the request raises or the process restarts: the transaction is rolled
\* back, the state that was consumed and the token that was issued are lost.
Abandon(q) ==
    /\ req[q].pc # "idle"
    /\ req' = [req EXCEPT ![q] = Idle]
    /\ UNCHANGED <<clock, logins, deadline, exchanged, revoked, rows>>

Tick ==
    /\ clock < MaxTime
    /\ clock' = clock + 1
    /\ UNCHANGED <<logins, deadline, exchanged, revoked, rows, req>>

Init ==
    /\ clock = 0 /\ logins = 0 /\ deadline = <<>>
    /\ exchanged = 0 /\ revoked = {} /\ rows = <<>>
    /\ req = [q \in Requests |-> Idle]

Next ==
    \/ CreateLoginUrl
    \/ Tick
    \/ \E q \in Requests :
          \/ \E s \in 1 .. logins : ConsumeState(q, s)
          \/ ExchangeRequestToken(q) \/ SaveBegin(q) \/ SaveUpdate(q) \/ SaveCommit(q)
          \/ ReadStatus(q) \/ Logout(q) \/ MarkExpired(q) \/ MarkLoggedOut(q)
          \/ Abandon(q)

Spec == Init /\ [][Next]_vars

-----------------------------------------------------------------------------
(* Properties. *)

Request ==
    [pc : {"idle", "exchange", "save", "update", "commit", "mark_expired", "mark_out"},
     state : Nat, created : Nat, login : Nat, expires : Nat, kiteEnd : Nat, seen : Nat,
     want : SUBSET Nat, held : SUBSET Nat, id : Nat]

TypeOK ==
    /\ clock \in Nat /\ logins \in Nat /\ exchanged \in Nat
    /\ deadline \in Seq(Nat) /\ revoked \subseteq Nat
    /\ rows \in Seq(Row) /\ req \in [Requests -> Request]

\* After logout (or after the status route has marked a session expired) no reader uses
\* that session or one that was logged in before it, even an older row that two logins
\* racing each other left ACTIVE (get_latest_session reads the latest row, not the
\* latest ACTIVE one).
NothingOlderAfterLogout ==
    \A i \in DOMAIN rows, j \in Usable : rows[i].ended # "no" => rows[i].created < rows[j].created

\* A logout that marked a session has invalidated its token at Kite or the session was
\* over, with one exception, stated as narrowly as it holds: a login exchanged before
\* it was saved after it, by an UPDATE that saw its row and set it to EXPIRED.  The row
\* is still the latest, and logout ends it without asking Kite, so its token stays
\* valid.  There the code does not do what KITE_INTEGRATION.md says of every logout,
\* that it "invalidates the Kite access token".
LogoutRevokesToken ==
    \A i \in DOMAIN rows : rows[i].ended = "logout" =>
        \/ rows[i].created \in revoked
        \/ IsExpired(i)
        \/ \E j \in i + 1 .. Len(rows) : rows[j].created < rows[i].created /\ i <= rows[j].seen

\* Two sessions are ACTIVE only if their saves overlapped: the UPDATE of the later one
\* began before the earlier one was committed.
ActiveRowsOverlapped ==
    \A i, j \in DOMAIN rows :
        i < j /\ rows[i].status = "ACTIVE" /\ rows[j].status = "ACTIVE" => rows[j].seen < i

\* A status call that finds a session expired never ends the session of a login that was
\* saved while the call waited to mark it.
StatusSparesNewLogin ==
    \A i \in DOMAIN rows : rows[i].ended = "status" => IsExpired(i)

\* A state admits one exchange: no two sessions, and no session and no callback under
\* way, come from one login URL, and none from a state that is still stored.
LoginOncePerState ==
    LET from(s) == {i \in DOMAIN rows : rows[i].state = s}
        underWay(s) == {q \in Requests : req[q].state = s}
    IN  \A s \in 1 .. logins :
          /\ \A i, j \in from(s) : i = j
          /\ \A p, q \in underWay(s) : p = q
          /\ from(s) = {} \/ underWay(s) = {}
          /\ deadline[s] # 0 => from(s) = {} /\ underWay(s) = {}

\* No reader uses a token that Kite has ended at 06:00, unless 06:00 passed during the
\* exchange: the expiry is computed when the call has returned.
UsableBeforeKiteEnds ==
    \A i \in Usable : rows[i].kiteEnd = KiteEnd(rows[i].login) => clock < rows[i].kiteEnd
=============================================================================
