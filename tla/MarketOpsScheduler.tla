------------------------- MODULE MarketOpsScheduler -------------------------
(***************************************************************************)
(* The process-local market operations scheduler (backend/app/ops/         *)
(* market_ops_scheduler.py) and the jobs of the orchestrator it runs       *)
(* (backend/app/ops/market_ops.py).                                        *)
(*                                                                         *)
(* One asyncio task, the loop, polls for due jobs and for login recovery.  *)
(* Operators call the same jobs, start and stop through the API.  A job    *)
(* keeps the job lock over its awaits: its body, which reads and changes   *)
(* the stream, the report of its summary to the recovery, and the sending  *)
(* of a login link.  Time is counted in polls (five seconds); configured   *)
(* times are whole minutes of the local day.                               *)
(*                                                                         *)
(* The Kite session and the stream are external here: a session is ready   *)
(* or not, a stream is stopped, running or connected.  The settings that   *)
(* require a session, a watchlist and a connection have their defaults.    *)
(***************************************************************************)
EXTENDS Integers, FiniteSets

CONSTANTS
    Operators,         \* concurrent API callers of run_job
    OperatorJobs,      \* the jobs they call
    DayMinutes,        \* minutes of a day
    PollsPerMinute,    \* polls of a minute
    DueAt,             \* [OneShots -> minute]: the configured times
    ScannerStart, ScannerStop, ScannerInterval,    \* minutes, minutes, polls
    RecoveryEnabled,   \* MARKET_OPS_LOGIN_RECOVERY_ENABLED
    RecoveryStart, RecoveryStop,                   \* minutes
    RecoveryInterval,  \* polls
    MaxTime            \* bound: the clock, in polls

OneShots == {"preopen_check", "stream_start", "stream_verify",
             "universe_selection", "stream_stop"}

Jobs == OneShots \cup {"scanner_batch"}

ASSUME SchedulerAssumption ==
    /\ Operators \cap {"loop", "free"} = {} /\ OperatorJobs \subseteq Jobs
    /\ DayMinutes \in Nat \ {0} /\ PollsPerMinute \in Nat \ {0}
    /\ DueAt \in [OneShots -> Nat]
    /\ {ScannerStart, ScannerStop, RecoveryStart, RecoveryStop} \subseteq Nat
    /\ ScannerInterval \in Int /\ RecoveryInterval \in Int
    /\ RecoveryEnabled \in BOOLEAN
    /\ MaxTime \in Nat

Callers == Operators \cup {"loop"}

None == -1
NoAction == "none"
Free == "free"

VARIABLES
    now,            \* the clock
    task,           \* where the loop waits; "none" when there is no task
    jobLock,        \* holder of _job_lock
    job,            \* [Callers -> [name, stage, event]]: the job each runs
    completedKeys,  \* _completed_keys
    pendingAction,  \* _pending_action
    waiting,        \* _waiting_for_kite_login
    attempts,       \* _recovery_attempts
    lastAttempt,    \* _recovery_last_attempt_at
    nextRetry,      \* _recovery_next_retry_at
    linkSent,       \* _login_link_sent
    session,        \* external: the Kite session is ready
    stream,         \* external: "stopped", "running" or "connected"
    launched,       \* history: due keys the loop has run already
    episode         \* history: the recovery episode as the documentation has it

recovery == <<pendingAction, waiting, attempts, lastAttempt, nextRetry, linkSent>>
world == <<session, stream>>
history == <<launched, episode>>
vars == <<now, task, jobLock, job, completedKeys, recovery, world, history>>

NoJob == [name |-> "none", stage |-> "idle", event |-> "none"]

\* No open episode.  An open one has the day it began, whether a link was sent in it and
\* whether the scheduler was started again inside the window since the last link.
NoEpisode == [open |-> FALSE, day |-> None, linked |-> FALSE, restarted |-> FALSE]

NewEpisode(day) == [open |-> TRUE, day |-> day, linked |-> FALSE, restarted |-> FALSE]

EpisodeType == [open : BOOLEAN, day : Nat \cup {None}, linked : BOOLEAN, restarted : BOOLEAN]

-----------------------------------------------------------------------------
(* The local clock. *)

DayPolls == DayMinutes * PollsPerMinute
Day(t) == t \div DayPolls
TimeOfDay(t) == t % DayPolls
At(minute) == minute * PollsPerMinute
SameMinute(t, minute) == TimeOfDay(t) \div PollsPerMinute = minute

InsideRecoveryWindow(t) ==
    At(RecoveryStart) <= TimeOfDay(t) /\ TimeOfDay(t) <= At(RecoveryStop)

RecoveryWindowExpired(t) == TimeOfDay(t) > At(RecoveryStop)

\* A retry is at least one period away.
RetryInterval == IF RecoveryInterval < 1 THEN 1 ELSE RecoveryInterval

\* Mutant: the next poll may retry already.
NextRetryAtOnce(t) ==
    LET opens == Day(t) * DayPolls + At(RecoveryStart)
    IN  IF t < opens THEN opens ELSE t

\* The interval after t, but not before today's window opens.
NextRetry(t) ==
    LET candidate == t + RetryInterval
        opens == Day(t) * DayPolls + At(RecoveryStart)
    IN  IF candidate < opens THEN opens ELSE candidate

\* A scanner slot is due during the one poll period in which it begins.
ScannerDue(t) ==
    /\ At(ScannerStart) <= TimeOfDay(t) /\ TimeOfDay(t) <= At(ScannerStop)
    /\ ScannerInterval >= 1
    /\ (TimeOfDay(t) - At(ScannerStart)) % ScannerInterval = 0

\* The jobs due at t as keys: a one-shot of this minute hides a scanner slot.
DueKeys(t) ==
    LET shots == {name \in OneShots : SameMinute(t, DueAt[name])}
    IN  IF shots # {}
        THEN {[day |-> Day(t), name |-> name, slot |-> 0] : name \in shots}
        ELSE IF ScannerDue(t)
        THEN {[day |-> Day(t), name |-> "scanner_batch", slot |-> TimeOfDay(t)]}
        ELSE {}

\* The order in which _due_job looks at the one-shots.
Rank(name) ==
    CASE name = "preopen_check" -> 1
      [] name = "stream_start" -> 2
      [] name = "stream_verify" -> 3
      [] name = "universe_selection" -> 4
      [] name = "stream_stop" -> 5
      [] OTHER -> 6

\* _due_job: at most one key.
DueJob(t) ==
    {k \in DueKeys(t) : \A l \in DueKeys(t) : Rank(k.name) <= Rank(l.name)}

-----------------------------------------------------------------------------
Init ==
    /\ now = 0
    /\ task = "none"
    /\ jobLock = Free
    /\ job = [c \in Callers |-> NoJob]
    /\ completedKeys = {}
    /\ pendingAction = NoAction /\ waiting = FALSE /\ attempts = 0
    /\ lastAttempt = None /\ nextRetry = None /\ linkSent = FALSE
    /\ session \in BOOLEAN
    /\ stream = "stopped"
    /\ launched = {} /\ episode = NoEpisode

Tick ==
    /\ now < MaxTime
    /\ now' = now + 1
    /\ launched' = launched \cap DueKeys(now')
    /\ UNCHANGED <<task, jobLock, job, completedKeys, recovery, world, episode>>

\* A human logs in; the session expires or is logged out.
SessionChange ==
    /\ session' = ~session
    /\ UNCHANGED <<now, task, jobLock, job, completedKeys, recovery, stream, history>>

\* The ticker connects, or loses its connection and reconnects by itself.
StreamChange ==
    /\ stream # "stopped"
    /\ stream' = IF stream = "running" THEN "connected" ELSE "running"
    /\ UNCHANGED <<now, task, jobLock, job, completedKeys, recovery, session, history>>

-----------------------------------------------------------------------------
(* The recovery state. *)

\* Mutant: the next episode finds its link sent already.
ClearRecoveryKeepsLink ==
    /\ pendingAction' = NoAction /\ waiting' = FALSE /\ attempts' = 0
    /\ lastAttempt' = None /\ nextRetry' = None
    /\ episode' = NoEpisode
    /\ UNCHANGED linkSent

ClearRecovery ==
    /\ pendingAction' = NoAction /\ waiting' = FALSE /\ attempts' = 0
    /\ lastAttempt' = None /\ nextRetry' = None /\ linkSent' = FALSE
    /\ episode' = NoEpisode

\* Mutant: every detection of a missing session sends a link.
SendsLinkAlways == TRUE

\* Whether _arm_login_recovery sends a link now.
SendsLink == pendingAction = NoAction \/ ~linkSent

ArmLoginRecovery ==
    /\ waiting' = TRUE
    /\ pendingAction' = "stream_start"
    /\ nextRetry' = NextRetry(now)
    /\ attempts' = IF pendingAction = NoAction THEN 0 ELSE attempts
    /\ linkSent' = TRUE
    /\ episode' = LET e == IF episode.open THEN episode
                           ELSE NewEpisode(Day(now))
                  IN  IF SendsLink THEN [e EXCEPT !.linked = TRUE, !.restarted = FALSE] ELSE e
    /\ UNCHANGED lastAttempt

\* Inside the window a start begins with a retry of its own.
PrepareLateStartRecovery ==
    IF RecoveryEnabled /\ InsideRecoveryWindow(now)
    THEN /\ waiting' = FALSE /\ pendingAction' = "stream_start" /\ attempts' = 0
         /\ lastAttempt' = None /\ nextRetry' = now /\ linkSent' = FALSE
         /\ episode' = [episode EXCEPT !.restarted = episode.linked]
    ELSE UNCHANGED <<recovery, episode>>

\* _process_recovery_summary.
ProcessRecoverySummary(name, event) ==
    IF name \in {"preopen_check", "stream_start"} /\ event = "login_missing"
    THEN ArmLoginRecovery
    ELSE IF pendingAction = NoAction \/ name \notin {"stream_start", "stream_verify"}
    THEN UNCHANGED <<recovery, episode>>
    ELSE IF name = "stream_start"
    THEN /\ waiting' = FALSE
         /\ pendingAction' = IF event \in {"stream_started", "stream_not_connected"}
                             THEN "stream_verify" ELSE pendingAction
         /\ nextRetry' = NextRetry(now)
         /\ UNCHANGED <<attempts, lastAttempt, linkSent, episode>>
    ELSE IF event = "stream_verify_ok"
    THEN ClearRecovery
    ELSE /\ nextRetry' = NextRetry(now)
         /\ UNCHANGED <<pendingAction, waiting, attempts, lastAttempt, linkSent, episode>>

-----------------------------------------------------------------------------
(* run_job.  Each of its awaits is a step of the caller. *)

\* The lock is found free and taken without an await between.
TakeJobLock(c, name) ==
    /\ jobLock = Free
    /\ jobLock' = c
    /\ job' = [job EXCEPT ![c] = [name |-> name, stage |-> "body", event |-> "none"]]

\* The events a job may report, given the session and the stream it reads;
\* "other" is any event the recovery does not tell apart, failures included.
JobEvents(name) ==
    CASE name = "preopen_check" ->
            IF session THEN {"other"} ELSE {"login_missing", "other"}
      [] name = "stream_start" ->
            IF ~session THEN {"login_missing", "other"}
            ELSE IF stream = "stopped" THEN {"stream_started", "other"}
            ELSE IF stream = "connected" THEN {"stream_started", "other"}
            ELSE {"stream_not_connected", "other"}
      [] name = "stream_verify" ->
            IF stream = "connected" THEN {"stream_verify_ok", "other"} ELSE {"other"}
      [] OTHER -> {"other"}

\* What the job may leave of the stream; a failing stop leaves it as it is.
StreamAfter(name, event) ==
    CASE name = "stream_start" /\ event = "stream_started" ->
            {IF stream = "stopped" THEN "running" ELSE stream}
      [] name = "stream_stop" -> {"stopped", stream}
      [] OTHER -> {stream}

\* The orchestrator's job: what it reads, what it does to the stream and the
\* summary it returns.
JobBody(c, event) ==
    /\ job[c].stage = "body"
    /\ event \in JobEvents(job[c].name)
    /\ stream' \in StreamAfter(job[c].name, event)
    /\ job' = [job EXCEPT ![c].stage = "report", ![c].event = event]
    /\ UNCHANGED <<now, task, jobLock, completedKeys, recovery, session, history>>

\* The caller's next await, once its job is over.
AfterJob(c) ==
    task' = IF c # "loop" THEN task
            ELSE IF task = "due_job" THEN "recovery" ELSE "poll"

\* _run_due_job forgets the keys of other days; the day is that of its key.
PruneKeys(c) ==
    completedKeys' =
        IF c = "loop" /\ task = "due_job"
        THEN {k \in completedKeys :
                 \A l \in completedKeys : l.day <= k.day}
        ELSE completedKeys

\* The summary reaches the recovery, and a link may have to be sent.
JobReport(c) ==
    /\ job[c].stage = "report"
    /\ ProcessRecoverySummary(job[c].name, job[c].event)
    /\ IF /\ job[c].name \in {"preopen_check", "stream_start"}
          /\ job[c].event = "login_missing" /\ SendsLink
       THEN /\ job' = [job EXCEPT ![c].stage = "link"]
            /\ UNCHANGED <<task, jobLock, completedKeys>>
       ELSE /\ job' = [job EXCEPT ![c] = NoJob]
            /\ jobLock' = Free
            /\ AfterJob(c)
            /\ PruneKeys(c)
    /\ UNCHANGED <<now, world, launched>>

\* The link was sent, or could not be; either way it is not sent again.
LinkDone(c) ==
    /\ job[c].stage = "link"
    /\ job' = [job EXCEPT ![c] = NoJob]
    /\ jobLock' = Free
    /\ AfterJob(c)
    /\ PruneKeys(c)
    /\ UNCHANGED <<now, recovery, world, history>>

\* An operator's run_job; while a job runs it is answered with an error.
OperatorJob(c, name) ==
    /\ job[c].stage = "idle"
    /\ TakeJobLock(c, name)
    /\ UNCHANGED <<now, task, completedKeys, recovery, world, history>>

-----------------------------------------------------------------------------
(* The loop. *)

\* Mutant: the key is remembered only by a job that is not cancelled.
RememberKeyLate(key) == UNCHANGED completedKeys

RememberKey(key) == completedKeys' = completedKeys \cup {key}

\* _run_due_job: the key is remembered before its job runs.
RunDueJob ==
    /\ task = "poll"
    /\ \/ \E key \in DueJob(now) :
             /\ key \notin completedKeys
             /\ TakeJobLock("loop", key.name)
             /\ RememberKey(key)
             /\ task' = "due_job"
             /\ launched' = launched \cup {key}
       \/ /\ \A key \in DueJob(now) : key \in completedKeys \/ jobLock # Free
          /\ task' = "recovery"
          /\ UNCHANGED <<jobLock, job, completedKeys, launched>>
    /\ UNCHANGED <<now, recovery, world, episode>>

MayAttempt ==
    /\ RecoveryEnabled /\ InsideRecoveryWindow(now) /\ jobLock = Free
    /\ nextRetry # None => now >= nextRetry

\* _run_recovery, up to its first await.
RunRecovery ==
    /\ task = "recovery"
    /\ \/ /\ pendingAction # NoAction /\ RecoveryWindowExpired(now)
          /\ IF RecoveryEnabled
             THEN task' = "warning" /\ UNCHANGED <<recovery, episode>>
             ELSE task' = "poll" /\ ClearRecovery
          /\ UNCHANGED <<jobLock, job>>
       \/ /\ pendingAction # NoAction /\ ~RecoveryWindowExpired(now) /\ MayAttempt
          /\ attempts' = attempts + 1
          /\ lastAttempt' = now
          /\ nextRetry' = NextRetry(now)
          /\ TakeJobLock("loop", pendingAction)
          /\ task' = "recovery_job"
          /\ UNCHANGED <<pendingAction, waiting, linkSent, episode>>
       \/ /\ pendingAction = NoAction \/ (~RecoveryWindowExpired(now) /\ ~MayAttempt)
          /\ task' = "poll"
          /\ UNCHANGED <<jobLock, job, recovery, episode>>
    /\ UNCHANGED <<now, completedKeys, world, launched>>

\* Mutant: the warning does not end the episode.
WarningKeepsRecovery ==
    /\ task = "warning"
    /\ task' = "poll"
    /\ UNCHANGED <<now, jobLock, job, completedKeys, recovery, world, history>>

\* The expiry warning was sent: the episode is over.
WarningDone ==
    /\ task = "warning"
    /\ ClearRecovery
    /\ task' = "poll"
    /\ UNCHANGED <<now, jobLock, job, completedKeys, world, launched>>

-----------------------------------------------------------------------------
(* start, stop and the process. *)

\* Idempotent: with a task running, start changes nothing.
Start ==
    /\ task = "none"
    /\ PrepareLateStartRecovery
    /\ task' = "poll"
    /\ UNCHANGED <<now, jobLock, job, completedKeys, world, launched>>

\* The task is cancelled at whatever it awaits; a job it runs ends there.
Stop ==
    /\ task # "none"
    /\ task' = "none"
    /\ job' = [job EXCEPT !["loop"] = NoJob]
    /\ jobLock' = IF jobLock = "loop" THEN Free ELSE jobLock
    /\ UNCHANGED <<now, completedKeys, recovery, world, history>>

\* The API process ends and a new one begins: all state here is its own.
ApiRestart ==
    /\ task' = "none" /\ jobLock' = Free /\ job' = [c \in Callers |-> NoJob]
    /\ completedKeys' = {} /\ launched' = {}
    /\ ClearRecovery
    /\ stream' = "stopped"
    /\ UNCHANGED <<now, session>>

JobStep(c) ==
    \/ \E event \in JobEvents(job[c].name) : JobBody(c, event)
    \/ JobReport(c)
    \/ LinkDone(c)

LoopStep == RunDueJob \/ RunRecovery \/ WarningDone \/ JobStep("loop")

Next ==
    \/ Tick \/ SessionChange \/ StreamChange
    \/ LoopStep
    \/ \E c \in Operators : JobStep(c) \/ \E name \in OperatorJobs : OperatorJob(c, name)
    \/ Start \/ Stop \/ ApiRestart

Spec == Init /\ [][Next]_vars

\* The event loop runs every ready coroutine, awaited calls return, and time
\* passes.  Operators, logins and the ticker owe nothing.
FairSpec ==
    /\ Spec
    /\ WF_vars(LoopStep)
    /\ \A c \in Operators : WF_vars(JobStep(c))
    /\ WF_vars(Tick)

-----------------------------------------------------------------------------
(* Properties. *)

Key == [day : Nat, name : Jobs, slot : Nat]

Events == {"none", "login_missing", "stream_started", "stream_not_connected",
           "stream_verify_ok", "other"}

\* Every variable has its type; the loop is in a job exactly when it waits
\* for one.
TypeOK ==
    /\ now \in 0 .. MaxTime
    /\ task \in {"none", "poll", "due_job", "recovery", "recovery_job", "warning"}
    /\ jobLock \in Callers \cup {Free}
    /\ job \in [Callers -> [name : Jobs \cup {"none"}, event : Events,
                            stage : {"idle", "body", "report", "link"}]]
    /\ completedKeys \subseteq Key
    /\ pendingAction \in {NoAction, "stream_start", "stream_verify"}
    /\ waiting \in BOOLEAN /\ linkSent \in BOOLEAN
    /\ attempts \in Nat
    /\ lastAttempt \in Nat \cup {None} /\ nextRetry \in Nat \cup {None}
    /\ session \in BOOLEAN /\ stream \in {"stopped", "running", "connected"}
    /\ launched \subseteq Key
    /\ episode \in EpisodeType
    /\ job["loop"].stage # "idle" <=> task \in {"due_job", "recovery_job"}

\* Jobs never overlap, and the lock has no dead holder: the one caller with
\* a job is the holder of the job lock, also after a job was cancelled.
JobLockHeldByItsJob ==
    \A c \in Callers : job[c].stage # "idle" <=> jobLock = c

\* "execute due jobs once per slot": no poll launches a key twice in the life
\* of the process, not even when stop cancelled its job or a day has passed.
OncePerSlot ==
    [][task = "poll" /\ task' = "due_job" => DueJob(now) \cap launched = {}]_vars

\* Attempts of the loop are at least the interval apart, although operators who run the
\* same jobs meanwhile set the time of the next one too; only a start inside the window,
\* which begins with an attempt of its own, forgets the attempt before.
RetriesSpaced ==
    [][(task = "recovery" /\ task' = "recovery_job" /\ lastAttempt # None)
          => now - lastAttempt >= RetryInterval]_vars

\* Waiting for a login means that a stream start is what recovery retries,
\* and a retry always has a time; without an action there is neither.
RecoveryStateConsistent ==
    /\ waiting => pendingAction = "stream_start"
    /\ pendingAction = NoAction <=> nextRetry = None
    /\ pendingAction = NoAction => attempts = 0 /\ lastAttempt = None /\ ~linkSent

\* Whoever meets the missing session, a login link follows an earlier one of the same
\* episode only when the scheduler was started again inside the window since.  The
\* documentation has no such exception ("Only one link is sent per recovery episode"):
\* _prepare_late_start_recovery forgets the link and a second one is sent.
LinksAccountedFor ==
    [][\A c \in Callers :
          (job[c].stage = "report" /\ job'[c].stage = "link" /\ episode.linked)
             => episode.restarted]_vars

\* An episode "ends when recovery succeeds or the configured window expires":
\* the preopen check, which runs before the window, never adds the session it
\* finds missing to an episode of an earlier day, for which no link is sent.
EpisodeEndsWithItsWindow ==
    [][(/\ job["loop"].name = "preopen_check" /\ job["loop"].stage = "report"
        /\ job["loop"].event = "login_missing" /\ task' # "none" /\ episode'.open
        /\ job'["loop"].stage # "report")
          => episode'.day = Day(now)]_vars

\* A recovery that waits does not wait for ever, whatever operators run meanwhile: it
\* succeeds, expires, or the scheduler is stopped.  And the job lock is always given
\* back.
RecoveryEnds ==
    /\ pendingAction # NoAction ~> (pendingAction = NoAction \/ task = "none")
    /\ jobLock # Free ~> jobLock = Free
=============================================================================
