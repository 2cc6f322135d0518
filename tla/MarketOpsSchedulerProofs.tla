---------------------- MODULE MarketOpsSchedulerProofs ----------------------
(***************************************************************************)
(* Theorems about MarketOpsScheduler for every schedule, every recovery    *)
(* window and interval, and any number of operators.                       *)
(***************************************************************************)
EXTENDS MarketOpsScheduler, TLAPS

-----------------------------------------------------------------------------
(* The clock. *)

\* Days and times of day are naturals.
LEMMA ClockTyped ==
    ASSUME NEW t \in Nat
    PROVE  /\ DayPolls \in Nat \ {0}
           /\ Day(t) \in Nat
           /\ TimeOfDay(t) \in Nat
<1>1. DayPolls \in Nat \ {0}
  BY SchedulerAssumption DEF DayPolls
<1> HIDE DEF DayPolls
<1> QED
  BY <1>1 DEF Day, TimeOfDay

\* The interval is at least one poll.
LEMMA RetryIntervalTyped == RetryInterval \in Nat \ {0}
  BY SchedulerAssumption DEF RetryInterval

\* The next retry has a time.
LEMMA NextRetryTyped ==
    ASSUME NEW t \in Nat
    PROVE  NextRetry(t) \in Nat
<1>1. Day(t) * DayPolls + At(RecoveryStart) \in Nat
  <2>1. Day(t) * DayPolls \in Nat
    BY ClockTyped
  <2>2. At(RecoveryStart) \in Nat
    BY SchedulerAssumption DEF At
  <2> QED BY <2>1, <2>2
<1>2. t + RetryInterval \in Nat
  BY RetryIntervalTyped
<1> QED
  BY <1>1, <1>2 DEF NextRetry

\* What is due is a key, and _due_job returns one of the keys that are due.
LEMMA DueKeysTyped ==
    ASSUME NEW t \in Nat
    PROVE  DueKeys(t) \subseteq Key /\ DueJob(t) \subseteq DueKeys(t)
  BY ClockTyped DEF DueKeys, DueJob, Key, Jobs, OneShots

-----------------------------------------------------------------------------
(* Types. *)

JobType == [name : Jobs \cup {"none"}, event : Events,
            stage : {"idle", "body", "report", "link"}]

RecoveryType ==
    /\ pendingAction \in {NoAction, "stream_start", "stream_verify"}
    /\ waiting \in BOOLEAN /\ linkSent \in BOOLEAN
    /\ attempts \in Nat
    /\ lastAttempt \in Nat \cup {None} /\ nextRetry \in Nat \cup {None}
    /\ episode \in EpisodeType

LoopInItsJob == job["loop"].stage # "idle" <=> task \in {"due_job", "recovery_job"}

\* An open episode of any day, and no episode, are well-formed.
LEMMA NewEpisodeTyped ==
    /\ NoEpisode \in EpisodeType
    /\ \A d \in Nat : NewEpisode(d) \in EpisodeType
  BY Zenon DEF NoEpisode, NewEpisode, EpisodeType

\* Arming keeps the episode well-formed.
LEMMA EpisodeTyped ==
    ASSUME TypeOK, ArmLoginRecovery
    PROVE  episode' \in EpisodeType
<1>1. episode \in EpisodeType /\ now \in Nat
  BY SchedulerAssumption DEF TypeOK
<1>2. PICK e : e = IF episode.open THEN episode
                   ELSE NewEpisode(Day(now))
  OBVIOUS
<1>3. e \in EpisodeType
  BY <1>1, <1>2, ClockTyped, NewEpisodeTyped
<1>4. [e EXCEPT !.linked = TRUE, !.restarted = FALSE] \in EpisodeType
  BY <1>3 DEF EpisodeType
<1>5. episode' \in {e, [e EXCEPT !.linked = TRUE, !.restarted = FALSE]}
  BY <1>2 DEF ArmLoginRecovery
<1> QED
  BY <1>3, <1>4, <1>5

\* A cleared recovery is well-formed.
LEMMA ClearTyped ==
    ASSUME ClearRecovery PROVE RecoveryType'
  BY NewEpisodeTyped DEF ClearRecovery, RecoveryType

\* What a summary makes of the recovery is well-formed.
LEMMA SummaryTyped ==
    ASSUME TypeOK, NEW name, NEW event, ProcessRecoverySummary(name, event)
    PROVE  RecoveryType'
<1>1. RecoveryType /\ NextRetry(now) \in Nat
  BY NextRetryTyped, SchedulerAssumption DEF TypeOK, RecoveryType
<1>2. CASE ArmLoginRecovery
  BY <1>1, <1>2, EpisodeTyped DEF ArmLoginRecovery, RecoveryType
<1>3. CASE ClearRecovery
  BY <1>3, ClearTyped
<1>4. CASE UNCHANGED <<recovery, episode>>
  BY <1>1, <1>4 DEF recovery, RecoveryType
<1>5. CASE /\ waiting' = FALSE
           /\ pendingAction' \in {"stream_verify", pendingAction}
           /\ nextRetry' = NextRetry(now)
           /\ UNCHANGED <<attempts, lastAttempt, linkSent, episode>>
  BY <1>1, <1>5 DEF RecoveryType
<1>6. CASE /\ nextRetry' = NextRetry(now)
           /\ UNCHANGED <<pendingAction, waiting, attempts, lastAttempt, linkSent, episode>>
  BY <1>1, <1>6 DEF RecoveryType
<1> QED
  BY <1>2, <1>3, <1>4, <1>5, <1>6 DEF ProcessRecoverySummary

\* A new process is well-formed.
LEMMA TypeInit == Init => TypeOK
<1> SUFFICES ASSUME Init PROVE TypeOK
  OBVIOUS
<1>1. NoJob \in JobType
  BY DEF NoJob, JobType, Events
<1>2. "loop" \in Callers
  BY DEF Callers
<1>3. job \in [Callers -> JobType] /\ job["loop"].stage = "idle"
  BY <1>1, <1>2 DEF Init, NoJob
<1>4. RecoveryType
  BY NewEpisodeTyped DEF Init, RecoveryType
<1>5. /\ now \in 0 .. MaxTime /\ jobLock \in Callers \cup {Free}
      /\ completedKeys \subseteq Key /\ launched \subseteq Key
      /\ session \in BOOLEAN /\ stream = "stopped" /\ task = "none"
  BY SchedulerAssumption DEF Init
<1> QED
  BY <1>3, <1>4, <1>5 DEF TypeOK, JobType, RecoveryType

\* A job that is taken, goes on or ends is well-formed.
LEMMA JobTyped ==
    ASSUME TypeOK, NEW c \in Callers
    PROVE  /\ [job EXCEPT ![c] = NoJob] \in [Callers -> JobType]
           /\ [job EXCEPT ![c].stage = "link"] \in [Callers -> JobType]
           /\ \A name \in Jobs :
                [job EXCEPT ![c] = [name |-> name, stage |-> "body", event |-> "none"]]
                  \in [Callers -> JobType]
           /\ \A event \in Events :
                [job EXCEPT ![c].stage = "report", ![c].event = event]
                  \in [Callers -> JobType]
<1>1. job \in [Callers -> JobType]
  BY DEF TypeOK, JobType
<1>2. NoJob \in JobType
  BY DEF NoJob, JobType, Events
<1>3. \A name \in Jobs : [name |-> name, stage |-> "body", event |-> "none"] \in JobType
  BY DEF JobType, Events
<1>4. [job EXCEPT ![c].stage = "link"] \in [Callers -> JobType]
  BY <1>1 DEF JobType
<1>5. \A event \in Events :
        [job EXCEPT ![c].stage = "report", ![c].event = event] \in [Callers -> JobType]
  BY <1>1 DEF JobType
<1> QED
  BY <1>1, <1>2, <1>3, <1>4, <1>5

\* A caller's job ends: what JobReport and LinkDone do to job, task and keys.
JobEnds(c) ==
    /\ job' = [job EXCEPT ![c] = NoJob]
    /\ jobLock' = Free
    /\ AfterJob(c)
    /\ PruneKeys(c)

\* The end of a job leaves caller, keys and loop well-formed.
LEMMA JobEndsTyped ==
    ASSUME TypeOK, NEW c \in Callers, JobEnds(c), job[c].stage # "idle"
    PROVE  /\ job' \in [Callers -> JobType]
           /\ completedKeys' \subseteq Key
           /\ task' \in {"none", "poll", "due_job", "recovery", "recovery_job", "warning"}
           /\ LoopInItsJob'
<1>1. "loop" \in Callers /\ job \in [Callers -> JobType] /\ LoopInItsJob
  BY DEF Callers, TypeOK, JobType, LoopInItsJob
<1>2. job' \in [Callers -> JobType]
  BY JobTyped DEF JobEnds
<1>3. completedKeys' \subseteq Key
  BY DEF JobEnds, PruneKeys, TypeOK
<1>4. CASE c = "loop"
  <2>1. task' \in {"recovery", "poll"}
    BY <1>4 DEF JobEnds, AfterJob
  <2>2. job'["loop"].stage = "idle"
    BY <1>1, <1>4 DEF JobEnds, NoJob
  <2> QED BY <1>2, <1>3, <2>1, <2>2 DEF LoopInItsJob
<1>5. CASE c # "loop"
  <2>1. task' = task /\ job'["loop"] = job["loop"]
    BY <1>1, <1>5 DEF JobEnds, AfterJob
  <2> QED BY <1>1, <1>2, <1>3, <2>1 DEF LoopInItsJob, TypeOK
<1> QED BY <1>4, <1>5

\* Every variable but the recovery's and the job's.
OtherType ==
    /\ now \in 0 .. MaxTime
    /\ jobLock \in Callers \cup {Free}
    /\ completedKeys \subseteq Key /\ launched \subseteq Key
    /\ session \in BOOLEAN /\ stream \in {"stopped", "running", "connected"}

JobPart ==
    /\ task \in {"none", "poll", "due_job", "recovery", "recovery_job", "warning"}
    /\ job \in [Callers -> JobType]
    /\ LoopInItsJob

\* The type invariant by the parts a step changes.
LEMMA TypeParts == TypeOK <=> OtherType /\ JobPart /\ RecoveryType
  BY Zenon DEF TypeOK, OtherType, JobPart, RecoveryType, JobType, LoopInItsJob

\* No step of any caller breaks the types.
LEMMA TypeStep == TypeOK /\ [Next]_vars => TypeOK'
<1> SUFFICES ASSUME TypeOK, [Next]_vars PROVE TypeOK'
  OBVIOUS
<1>t. TypeOK' <=> OtherType' /\ JobPart' /\ RecoveryType'
  BY Zenon DEF TypeOK, OtherType, JobPart, RecoveryType, JobType, LoopInItsJob
<1> USE TypeParts, <1>t
<1>a. "loop" \in Callers /\ Operators \subseteq Callers /\ OperatorJobs \subseteq Jobs
  BY SchedulerAssumption DEF Callers
<1>b. now \in Nat /\ NextRetry(now) \in Nat
  BY NextRetryTyped, SchedulerAssumption DEF OtherType
<1>u. /\ UNCHANGED <<recovery, episode>> => RecoveryType'
      /\ UNCHANGED <<task, job>> => JobPart'
      /\ UNCHANGED <<now, jobLock, completedKeys, launched, world>> => OtherType'
  <2>1. UNCHANGED <<recovery, episode>> => RecoveryType'
    BY DEF RecoveryType, recovery
  <2>2. UNCHANGED <<task, job>> => JobPart'
    BY DEF JobPart, LoopInItsJob
  <2>3. UNCHANGED <<now, jobLock, completedKeys, launched, world>> => OtherType'
    BY DEF OtherType, world
  <2> QED BY <2>1, <2>2, <2>3
<1>1. CASE Tick
  <2>1. OtherType'
    BY <1>1, SchedulerAssumption DEF Tick, OtherType, world
  <2> QED BY <1>1, <1>u, <2>1 DEF Tick
<1>2. CASE SessionChange
  <2>1. OtherType'
    BY <1>2 DEF SessionChange, OtherType, history
  <2> QED BY <1>2, <1>u, <2>1 DEF SessionChange, history
<1>3. CASE StreamChange
  <2>1. OtherType'
    BY <1>3 DEF StreamChange, OtherType, history
  <2> QED BY <1>3, <1>u, <2>1 DEF StreamChange, history
<1>4. ASSUME NEW c \in Callers, NEW event, JobBody(c, event) PROVE TypeOK'
  <2>1. event \in Events
    BY <1>4 DEF JobBody, JobEvents, Events
  <2>2. job' \in [Callers -> JobType]
    BY <1>4, <2>1, JobTyped DEF JobBody
  <2>3. job'["loop"].stage # "idle" <=> job["loop"].stage # "idle"
    BY <1>a, <1>4 DEF JobBody, JobPart, JobType
  <2>4. JobPart'
    BY <1>4, <2>2, <2>3 DEF JobBody, JobPart, LoopInItsJob
  <2>5. stream' \in {"stopped", "running", "connected"}
    BY <1>4 DEF JobBody, StreamAfter, OtherType
  <2>6. OtherType'
    BY <1>4, <2>5 DEF JobBody, OtherType, history
  <2> QED BY <1>4, <1>u, <2>4, <2>6 DEF JobBody, history
<1>5. ASSUME NEW c \in Callers, JobReport(c) PROVE TypeOK'
  <2>1. RecoveryType'
    BY <1>5, SummaryTyped DEF JobReport
  <2>2. CASE JobEnds(c)
    <3>1. JobPart' /\ completedKeys' \subseteq Key
      BY <1>5, <2>2, JobEndsTyped DEF JobReport, JobPart
    <3>2. OtherType'
      BY <1>5, <2>2, <3>1 DEF JobReport, JobEnds, OtherType, world
    <3> QED BY <2>1, <3>1, <3>2
  <2>3. CASE /\ job' = [job EXCEPT ![c].stage = "link"]
             /\ UNCHANGED <<task, jobLock, completedKeys>>
    <3>1. job'["loop"].stage # "idle" <=> job["loop"].stage # "idle"
      BY <1>a, <1>5, <2>3 DEF JobReport, JobPart, JobType
    <3>2. JobPart'
      BY <2>3, <3>1, JobTyped DEF JobPart, LoopInItsJob
    <3>3. OtherType'
      BY <1>5, <2>3, <1>u DEF JobReport
    <3> QED BY <2>1, <3>2, <3>3
  <2> QED BY <1>5, <2>2, <2>3 DEF JobReport, JobEnds
<1>6. ASSUME NEW c \in Callers, LinkDone(c) PROVE TypeOK'
  <2>1. JobEnds(c) /\ job[c].stage # "idle"
    BY <1>6 DEF LinkDone, JobEnds
  <2>2. JobPart' /\ completedKeys' \subseteq Key
    BY <2>1, JobEndsTyped DEF JobPart
  <2>3. OtherType'
    BY <1>6, <2>2 DEF LinkDone, OtherType, world, history
  <2> QED BY <1>6, <1>u, <2>2, <2>3 DEF LinkDone, history
<1>7. ASSUME NEW c \in Operators, NEW name \in OperatorJobs, OperatorJob(c, name)
      PROVE  TypeOK'
  <2>1. c \in Callers /\ c # "loop" /\ name \in Jobs
    BY <1>a, SchedulerAssumption
  <2>2. job' \in [Callers -> JobType]
    BY <1>7, <2>1, JobTyped DEF OperatorJob, TakeJobLock
  <2>3. job'["loop"] = job["loop"]
    BY <1>a, <1>7, <2>1 DEF OperatorJob, TakeJobLock, JobPart
  <2>4. JobPart'
    BY <1>7, <2>2, <2>3 DEF OperatorJob, JobPart, LoopInItsJob
  <2>5. OtherType'
    BY <1>7, <2>1 DEF OperatorJob, TakeJobLock, OtherType, world, history
  <2> QED BY <1>7, <1>u, <2>4, <2>5 DEF OperatorJob, history
<1>8. CASE RunDueJob
  <2>1. CASE \E key \in DueJob(now) :
               /\ TakeJobLock("loop", key.name)
               /\ RememberKey(key)
               /\ task' = "due_job"
               /\ launched' = launched \cup {key}
    <3>1. PICK key \in DueJob(now) :
               /\ TakeJobLock("loop", key.name)
               /\ RememberKey(key)
               /\ task' = "due_job"
               /\ launched' = launched \cup {key}
      BY <2>1
    <3>2. key \in Key
      BY <1>b, DueKeysTyped
    <3>3. job' \in [Callers -> JobType] /\ job'["loop"].stage = "body"
      BY <1>a, <3>1, <3>2, JobTyped DEF TakeJobLock, Key, JobPart
    <3>4. JobPart'
      BY <3>1, <3>3 DEF JobPart, LoopInItsJob
    <3>5. OtherType'
      BY <1>a, <1>8, <3>1, <3>2 DEF RunDueJob, TakeJobLock, RememberKey, OtherType, world
    <3> QED BY <1>8, <1>u, <3>4, <3>5 DEF RunDueJob
  <2>2. CASE /\ task' = "recovery"
             /\ UNCHANGED <<jobLock, job, completedKeys, launched>>
    <3>1. JobPart'
      BY <1>8, <2>2 DEF RunDueJob, JobPart, LoopInItsJob
    <3> QED BY <1>8, <1>u, <2>2, <3>1 DEF RunDueJob
  <2> QED BY <1>8, <2>1, <2>2 DEF RunDueJob
<1>9. CASE RunRecovery
  <2>1. CASE /\ pendingAction # NoAction /\ MayAttempt
             /\ attempts' = attempts + 1
             /\ lastAttempt' = now
             /\ nextRetry' = NextRetry(now)
             /\ TakeJobLock("loop", pendingAction)
             /\ task' = "recovery_job"
             /\ UNCHANGED <<pendingAction, waiting, linkSent, episode>>
    <3>1. pendingAction \in Jobs
      BY <2>1 DEF RecoveryType, Jobs, OneShots
    <3>2. job' \in [Callers -> JobType] /\ job'["loop"].stage = "body"
      BY <1>a, <2>1, <3>1, JobTyped DEF TakeJobLock, JobPart
    <3>3. JobPart'
      BY <2>1, <3>2 DEF JobPart, LoopInItsJob
    <3>4. RecoveryType'
      BY <1>b, <2>1 DEF RecoveryType
    <3>5. OtherType'
      BY <1>a, <1>9, <2>1 DEF RunRecovery, TakeJobLock, OtherType, world
    <3> QED BY <3>3, <3>4, <3>5
  <2>2. CASE /\ task' \in {"poll", "warning"}
             /\ ClearRecovery \/ UNCHANGED <<recovery, episode>>
             /\ UNCHANGED <<jobLock, job>>
    <3>1. JobPart'
      BY <1>9, <2>2 DEF RunRecovery, JobPart, LoopInItsJob
    <3>2. RecoveryType'
      BY <1>u, <2>2, ClearTyped
    <3> QED BY <1>9, <1>u, <2>2, <3>1, <3>2 DEF RunRecovery
  <2> QED BY <1>9, <2>1, <2>2 DEF RunRecovery
<1>10. CASE WarningDone
  <2>1. JobPart'
    BY <1>10 DEF WarningDone, JobPart, LoopInItsJob
  <2> QED BY <1>10, <1>u, <2>1, ClearTyped DEF WarningDone
<1>11. CASE Start
  <2>1. JobPart'
    BY <1>11 DEF Start, JobPart, LoopInItsJob
  <2>2. RecoveryType'
    <3>1. [episode EXCEPT !.restarted = episode.linked] \in EpisodeType
      BY DEF RecoveryType, EpisodeType
    <3>2. CASE RecoveryEnabled /\ InsideRecoveryWindow(now)
      <4>1. /\ waiting' = FALSE /\ pendingAction' = "stream_start" /\ attempts' = 0
            /\ lastAttempt' = None /\ nextRetry' = now /\ linkSent' = FALSE
            /\ episode' = [episode EXCEPT !.restarted = episode.linked]
        BY <1>11, <3>2 DEF Start, PrepareLateStartRecovery
      <4> QED BY <1>b, <3>1, <4>1 DEF RecoveryType
    <3>3. CASE ~(RecoveryEnabled /\ InsideRecoveryWindow(now))
      BY <1>11, <1>u, <3>3 DEF Start, PrepareLateStartRecovery
    <3> QED BY <3>2, <3>3
  <2> QED BY <1>11, <1>u, <2>1, <2>2 DEF Start
<1>12. CASE Stop
  <2>1. job' \in [Callers -> JobType] /\ job'["loop"].stage = "idle"
    BY <1>a, <1>12, JobTyped DEF Stop, NoJob, JobPart
  <2>2. JobPart'
    BY <1>12, <2>1 DEF Stop, JobPart, LoopInItsJob
  <2>3. OtherType'
    BY <1>12 DEF Stop, OtherType, world, history
  <2> QED BY <1>12, <1>u, <2>2, <2>3 DEF Stop, history
<1>13. CASE ApiRestart
  <2>1. NoJob \in JobType
    BY DEF NoJob, JobType, Events
  <2>2. job' \in [Callers -> JobType] /\ job'["loop"].stage = "idle"
    BY <1>a, <1>13, <2>1 DEF ApiRestart, NoJob
  <2>3. JobPart'
    BY <1>13, <2>2 DEF ApiRestart, JobPart, LoopInItsJob
  <2>4. OtherType'
    BY <1>13 DEF ApiRestart, OtherType
  <2> QED BY <1>13, <2>3, <2>4, ClearTyped DEF ApiRestart
<1>14. CASE UNCHANGED vars
  BY <1>14, <1>u DEF vars, history
<1> QED
  BY <1>a, <1>1, <1>2, <1>3, <1>4, <1>5, <1>6, <1>7, <1>8, <1>9, <1>10, <1>11,
     <1>12, <1>13, <1>14 DEF Next, LoopStep, JobStep

\* The scheduler's state stays well-formed, and the loop waits for a job
\* exactly while it runs one, whatever is cancelled, refused or restarted.
THEOREM TypeCorrect == Spec => []TypeOK
<1> QED
  BY TypeInit, TypeStep, PTL DEF Spec

-----------------------------------------------------------------------------
(* The job lock. *)

\* The lock is taken by one caller, handed on within its job, or given back.
Takes(c) ==
    /\ jobLock = Free /\ jobLock' = c
    /\ \E j : j.stage # "idle" /\ job' = [job EXCEPT ![c] = j]

Keeps ==
    /\ jobLock' = jobLock
    /\ \A c \in Callers : job'[c].stage # "idle" <=> job[c].stage # "idle"

Returns(c) ==
    /\ job[c].stage # "idle"
    /\ job' = [job EXCEPT ![c] = NoJob] /\ jobLock' = Free

\* Each of the three keeps the lock with the one job that runs.
LEMMA LockKept ==
    ASSUME TypeOK, JobLockHeldByItsJob,
           Keeps \/ \E c \in Callers : Takes(c) \/ Returns(c)
    PROVE  JobLockHeldByItsJob'
<1>1. job \in [Callers -> JobType] /\ Free \notin Callers
  BY SchedulerAssumption DEF TypeOK, JobType, Callers, Free
<1>2. CASE Keeps
  BY <1>2 DEF Keeps, JobLockHeldByItsJob
<1>3. ASSUME NEW c \in Callers, Takes(c) PROVE JobLockHeldByItsJob'
  <2>1. PICK j : j.stage # "idle" /\ job' = [job EXCEPT ![c] = j]
    BY <1>3 DEF Takes
  <2> QED BY <1>1, <1>3, <2>1 DEF Takes, JobLockHeldByItsJob
<1>4. ASSUME NEW c \in Callers, Returns(c) PROVE JobLockHeldByItsJob'
  BY <1>1, <1>4 DEF Returns, JobLockHeldByItsJob, NoJob
<1> QED
  BY <1>2, <1>3, <1>4

\* No step of the loop, of an operator, of start, stop or a restart separates
\* the lock from the job that runs.
LEMMA LockStep ==
    TypeOK /\ JobLockHeldByItsJob /\ [Next]_vars => JobLockHeldByItsJob'
<1> SUFFICES ASSUME TypeOK, JobLockHeldByItsJob, [Next]_vars
             PROVE  JobLockHeldByItsJob'
  OBVIOUS
<1>a. /\ "loop" \in Callers /\ Operators \subseteq Callers
      /\ job \in [Callers -> JobType] /\ Free \notin Callers
  BY SchedulerAssumption DEF Callers, TypeOK, JobType, Free
<1>b. ASSUME NEW c \in Callers, NEW name, TakeJobLock(c, name) PROVE Takes(c)
  <2>1. [name |-> name, stage |-> "body", event |-> "none"].stage # "idle"
    OBVIOUS
  <2> QED BY <1>b, <2>1 DEF TakeJobLock, Takes
<1>c. UNCHANGED <<jobLock, job>> => Keeps
  BY DEF Keeps
<1>1. CASE Tick \/ SessionChange \/ StreamChange \/ WarningDone \/ Start
  BY <1>1, <1>c, LockKept DEF Tick, SessionChange, StreamChange, WarningDone, Start
<1>2. ASSUME NEW c \in Callers, JobStep(c) PROVE JobLockHeldByItsJob'
  <2>1. ASSUME NEW event, JobBody(c, event) PROVE Keeps
    BY <1>a, <2>1 DEF JobBody, Keeps, JobType
  <2>2. CASE JobReport(c)
    <3>1. CASE job' = [job EXCEPT ![c].stage = "link"] /\ jobLock' = jobLock
      BY <1>a, <2>2, <3>1, LockKept DEF JobReport, Keeps, JobType
    <3>2. CASE job' = [job EXCEPT ![c] = NoJob] /\ jobLock' = Free
      BY <2>2, <3>2, LockKept DEF JobReport, Returns
    <3> QED BY <2>2, <3>1, <3>2 DEF JobReport
  <2>3. CASE LinkDone(c)
    BY <2>3, LockKept DEF LinkDone, Returns
  <2> QED BY <1>2, <2>1, <2>2, <2>3, LockKept DEF JobStep
<1>3. ASSUME NEW c \in Operators, NEW name, OperatorJob(c, name)
      PROVE  JobLockHeldByItsJob'
  BY <1>a, <1>b, <1>3, LockKept DEF OperatorJob
<1>4. CASE RunDueJob
  BY <1>a, <1>b, <1>c, <1>4, LockKept DEF RunDueJob
<1>5. CASE RunRecovery
  BY <1>a, <1>b, <1>c, <1>5, LockKept DEF RunRecovery
<1>6. CASE Stop
  <2>1. CASE jobLock = "loop"
    BY <1>a, <1>6, <2>1, LockKept DEF Stop, Returns, JobLockHeldByItsJob
  <2>2. CASE jobLock # "loop"
    BY <1>a, <1>6, <2>2, LockKept DEF Stop, Keeps, JobLockHeldByItsJob, NoJob
  <2> QED BY <2>1, <2>2
<1>7. CASE ApiRestart
  BY <1>a, <1>7 DEF ApiRestart, JobLockHeldByItsJob, NoJob
<1>8. CASE UNCHANGED vars
  BY <1>8, <1>c, LockKept DEF vars
<1> QED
  BY <1>a, <1>1, <1>2, <1>3, <1>4, <1>5, <1>6, <1>7, <1>8 DEF Next, LoopStep

\* run_job's lock excludes: for any number of operators the one caller with a
\* job holds the lock, and a job that stop cancels gives it back.
THEOREM LockCorrect == Spec => []JobLockHeldByItsJob
<1>1. Init => JobLockHeldByItsJob
  <2> SUFFICES ASSUME Init PROVE JobLockHeldByItsJob
    OBVIOUS
  <2>1. Free \notin Callers
    BY SchedulerAssumption DEF Callers, Free
  <2> QED BY <2>1 DEF Init, JobLockHeldByItsJob, NoJob
<1> QED
  BY <1>1, TypeCorrect, LockStep, PTL DEF Spec

-----------------------------------------------------------------------------
(* The login recovery. *)

\* The attempts of an episode are an interval apart: what makes the pace of
\* the retries inductive.  Reports of other jobs only move the retry away.
Paced ==
    lastAttempt # None =>
        /\ lastAttempt <= now /\ nextRetry # None
        /\ nextRetry - lastAttempt >= RetryInterval

RecoveryInv == RecoveryStateConsistent /\ Paced

\* A retry is an interval away.
LEMMA NextRetryLater ==
    ASSUME NEW t \in Nat
    PROVE  NextRetry(t) \in Nat /\ NextRetry(t) - t >= RetryInterval
<1>1. Day(t) * DayPolls + At(RecoveryStart) \in Nat
  <2>1. Day(t) * DayPolls \in Nat
    BY ClockTyped
  <2>2. At(RecoveryStart) \in Nat
    BY SchedulerAssumption DEF At
  <2> QED BY <2>1, <2>2
<1>2. PICK opens \in Nat : opens = Day(t) * DayPolls + At(RecoveryStart)
  BY <1>1
<1>3. NextRetry(t) = LET candidate == t + RetryInterval
                     IN  IF candidate < opens THEN opens ELSE candidate
  BY <1>2 DEF NextRetry
<1> QED
  BY <1>3, RetryIntervalTyped

\* What a summary does to the recovery keeps it consistent and paced.
LEMMA SummaryPaced ==
    ASSUME TypeOK, RecoveryInv, UNCHANGED now,
           NEW name, NEW event, ProcessRecoverySummary(name, event)
    PROVE  RecoveryInv'
<1>1. /\ RecoveryType /\ now \in Nat /\ NextRetry(now) \in Nat
      /\ NextRetry(now) - now >= RetryInterval /\ RetryInterval \in Int
  BY NextRetryLater, RetryIntervalTyped, SchedulerAssumption DEF TypeOK, RecoveryType
<1>2. CASE ArmLoginRecovery
  BY <1>1, <1>2 DEF ArmLoginRecovery, RecoveryType, RecoveryInv, Paced,
                    RecoveryStateConsistent, NoAction, None
<1>3. CASE ClearRecovery
  BY <1>3 DEF ClearRecovery, RecoveryInv, Paced, RecoveryStateConsistent, NoAction
<1>4. CASE UNCHANGED <<recovery, episode>>
  BY <1>4 DEF recovery, RecoveryInv, Paced, RecoveryStateConsistent
<1>5. CASE /\ pendingAction # NoAction
           /\ waiting' = FALSE
           /\ pendingAction' \in {"stream_verify", pendingAction}
           /\ nextRetry' = NextRetry(now)
           /\ UNCHANGED <<attempts, lastAttempt, linkSent, episode>>
  BY <1>1, <1>5 DEF RecoveryType, RecoveryInv, Paced, RecoveryStateConsistent,
                    NoAction, None
<1>6. CASE /\ pendingAction # NoAction
           /\ nextRetry' = NextRetry(now)
           /\ UNCHANGED <<pendingAction, waiting, attempts, lastAttempt, linkSent, episode>>
  BY <1>1, <1>6 DEF RecoveryType, RecoveryInv, Paced, RecoveryStateConsistent,
                    NoAction, None
<1> QED
  BY <1>2, <1>3, <1>4, <1>5, <1>6 DEF ProcessRecoverySummary

\* No step breaks the recovery's state or its pace.
LEMMA RecoveryStep == TypeOK /\ RecoveryInv /\ [Next]_vars => RecoveryInv'
<1> SUFFICES ASSUME TypeOK, RecoveryInv, [Next]_vars PROVE RecoveryInv'
  OBVIOUS
<1>a. /\ RecoveryType /\ now \in Nat /\ NextRetry(now) \in Nat
      /\ NextRetry(now) - now >= RetryInterval /\ RetryInterval \in Int
  BY NextRetryLater, RetryIntervalTyped, SchedulerAssumption DEF TypeOK, RecoveryType
<1>b. UNCHANGED <<recovery, now>> => RecoveryInv'
  BY DEF recovery, RecoveryInv, Paced, RecoveryStateConsistent
<1>c. ClearRecovery => RecoveryInv'
  BY DEF ClearRecovery, RecoveryInv, Paced, RecoveryStateConsistent, NoAction
<1>1. CASE Tick
  BY <1>a, <1>1 DEF Tick, recovery, RecoveryType, RecoveryInv, Paced, RecoveryStateConsistent,
                    None
<1>2. CASE SessionChange \/ StreamChange \/ RunDueJob \/ Stop
  BY <1>2, <1>b DEF SessionChange, StreamChange, RunDueJob, Stop
<1>3. ASSUME NEW c, JobStep(c) PROVE RecoveryInv'
  <2>1. ASSUME NEW event, JobBody(c, event) PROVE RecoveryInv'
    BY <1>b, <2>1 DEF JobBody
  <2>2. CASE JobReport(c)
    BY <2>2, SummaryPaced DEF JobReport
  <2>3. CASE LinkDone(c)
    BY <1>b, <2>3 DEF LinkDone
  <2> QED BY <1>3, <2>1, <2>2, <2>3 DEF JobStep
<1>4. ASSUME NEW c, NEW name, OperatorJob(c, name) PROVE RecoveryInv'
  BY <1>b, <1>4 DEF OperatorJob
<1>5. CASE RunRecovery
  <2>1. CASE /\ pendingAction # NoAction
             /\ lastAttempt' = now /\ nextRetry' = NextRetry(now)
             /\ UNCHANGED <<pendingAction, waiting, linkSent, now>>
    BY <1>a, <2>1 DEF RecoveryType, RecoveryInv, Paced, RecoveryStateConsistent, None
  <2> QED BY <1>5, <1>b, <1>c, <2>1 DEF RunRecovery
<1>6. CASE WarningDone \/ ApiRestart
  BY <1>6, <1>c DEF WarningDone, ApiRestart
<1>7. CASE Start
  <2>1. CASE /\ waiting' = FALSE /\ pendingAction' = "stream_start"
             /\ lastAttempt' = None /\ nextRetry' = now
    BY <1>a, <2>1 DEF RecoveryInv, Paced, RecoveryStateConsistent, NoAction, None
  <2> QED BY <1>7, <1>b, <2>1 DEF Start, PrepareLateStartRecovery
<1>8. CASE UNCHANGED vars
  BY <1>8, <1>b DEF vars
<1> QED
  BY <1>1, <1>2, <1>3, <1>4, <1>5, <1>6, <1>7, <1>8 DEF Next, LoopStep

\* The recovery is consistent and paced in every reachable state.
LEMMA RecoveryInvariant == Spec => []RecoveryInv
<1>1. Init => RecoveryInv
  BY DEF Init, RecoveryInv, Paced, RecoveryStateConsistent
<1> QED
  BY <1>1, TypeCorrect, RecoveryStep, PTL DEF Spec

\* The recovery's fields agree with each other whatever reports, starts, stops
\* and expiries interleave: waiting means a stream start is pending, and an
\* action is pending exactly while a retry has a time.
THEOREM RecoveryCorrect == Spec => []RecoveryStateConsistent
<1>1. RecoveryInv => RecoveryStateConsistent
  BY DEF RecoveryInv
<1> QED
  BY <1>1, RecoveryInvariant, PTL

\* Recovery never retries sooner than the interval after the attempt before, for every
\* window and interval, although operators move the time of the next retry.
THEOREM RetriesCorrect == Spec => RetriesSpaced
<1>1. ASSUME TypeOK, RecoveryInv, [Next]_vars
      PROVE  [(task = "recovery" /\ task' = "recovery_job" /\ lastAttempt # None)
                => now - lastAttempt >= RetryInterval]_vars
  <2> SUFFICES ASSUME task = "recovery", task' = "recovery_job", lastAttempt # None
               PROVE  now - lastAttempt >= RetryInterval
    OBVIOUS
  <2>1. RunRecovery
    <3>1. ~\E c \in Callers : JobStep(c)
      <4>1. \A c : ~AfterJob(c)
        BY DEF AfterJob
      <4> QED BY <4>1 DEF JobStep, JobBody, JobReport, LinkDone
    <3>2. "loop" \in Callers /\ Operators \subseteq Callers
      BY DEF Callers
    <3> QED BY <1>1, <3>1, <3>2 DEF Next, LoopStep, Tick, SessionChange, StreamChange,
               RunDueJob, WarningDone, OperatorJob, Start, Stop, ApiRestart, vars
  <2>2. MayAttempt
    BY <2>1 DEF RunRecovery
  <2>3. now \in Nat /\ RecoveryType /\ RetryInterval \in Int
    BY <1>1, RetryIntervalTyped, SchedulerAssumption DEF TypeOK, RecoveryType
  <2> QED
    BY <1>1, <2>2, <2>3 DEF MayAttempt, RecoveryInv, Paced, RecoveryType, None
<1> QED
  BY <1>1, TypeCorrect, RecoveryInvariant, PTL DEF Spec, RetriesSpaced

-----------------------------------------------------------------------------
(* Once per slot. *)

\* What has run of the slots that are due now is still remembered: forgetting
\* the keys of other days forgets none of today's.
SlotsRemembered ==
    /\ launched \subseteq completedKeys
    /\ launched \subseteq DueKeys(now)
    /\ \A k \in completedKeys : k.day <= Day(now)

\* The day never goes back while the clock advances.
LEMMA DayMonotone ==
    ASSUME NEW t \in Nat
    PROVE  Day(t) <= Day(t + 1)
<1>1. PICK d \in Nat \ {0} : d = DayPolls
  BY ClockTyped
<1>2. \A q \in Nat : q * d + d = (q + 1) * d
  BY <1>1
<1>3. /\ t = d * (t \div d) + (t % d) /\ t % d \in 0 .. (d - 1)
      /\ t + 1 = d * ((t + 1) \div d) + ((t + 1) % d) /\ (t + 1) % d \in 0 .. (d - 1)
      /\ t \div d \in Nat /\ (t + 1) \div d \in Nat
  BY <1>1
<1>4. ASSUME NEW a \in Nat, NEW b \in Nat, b < a, NEW r \in 0 .. (d - 1)
      PROVE  d * b + r < d * a
  <2>1. PICK k \in Nat : a = b + 1 + k
    BY <1>4
  <2>2. d * a = d * b + d + d * k /\ d * k \in Nat /\ d * b \in Nat
    BY <1>1, <2>1
  <2> QED BY <1>1, <1>4, <2>2
<1>5. ~((t + 1) \div d < t \div d)
  <2> SUFFICES ASSUME (t + 1) \div d < t \div d PROVE FALSE
    OBVIOUS
  <2>1. d * ((t + 1) \div d) + ((t + 1) % d) < d * (t \div d)
    BY <1>3, <1>4
  <2>2. d * (t \div d) \in Nat
    BY <1>1, <1>3
  <2> QED BY <1>3, <2>1, <2>2
<1> QED
  BY <1>1, <1>3, <1>5 DEF Day

\* The keys due at a time are keys of its day.
LEMMA DueKeysOfDay ==
    ASSUME NEW t \in Nat, NEW k \in DueKeys(t)
    PROVE  k.day = Day(t)
  BY DEF DueKeys

\* No step forgets a key of a slot that is still due.
LEMMA SlotsStep == TypeOK /\ SlotsRemembered /\ [Next]_vars => SlotsRemembered'
<1> SUFFICES ASSUME TypeOK, SlotsRemembered, [Next]_vars PROVE SlotsRemembered'
  OBVIOUS
<1>a. now \in Nat /\ completedKeys \subseteq Key /\ Day(now) \in Nat
  BY ClockTyped, SchedulerAssumption DEF TypeOK
<1>b. UNCHANGED <<now, completedKeys, launched>> => SlotsRemembered'
  BY DEF SlotsRemembered
<1>c. ASSUME NEW c, PruneKeys(c), UNCHANGED <<now, launched>> PROVE SlotsRemembered'
  <2>1. completedKeys' \subseteq completedKeys
    BY <1>c DEF PruneKeys
  <2>2. ASSUME NEW k \in launched PROVE k \in completedKeys'
    <3>1. k.day = Day(now) /\ k \in completedKeys
      BY <1>a, DueKeysOfDay DEF SlotsRemembered
    <3>2. \A l \in completedKeys : l.day <= k.day
      BY <3>1 DEF SlotsRemembered
    <3> QED BY <1>c, <3>1, <3>2 DEF PruneKeys
  <2> QED BY <1>c, <2>1, <2>2 DEF SlotsRemembered
<1>1. CASE Tick
  <2>1. now' = now + 1 /\ Day(now) <= Day(now') /\ Day(now') \in Nat
    BY <1>a, <1>1, ClockTyped, DayMonotone DEF Tick
  <2>2. \A k \in completedKeys : k.day \in Nat
    BY <1>a DEF Key
  <2>3. \A k \in completedKeys : k.day <= Day(now')
    BY <1>a, <2>1, <2>2 DEF SlotsRemembered
  <2> QED BY <1>1, <2>3 DEF Tick, SlotsRemembered
<1>2. ASSUME NEW c, JobStep(c) PROVE SlotsRemembered'
  <2>1. ASSUME NEW event, JobBody(c, event) PROVE SlotsRemembered'
    BY <1>b, <2>1 DEF JobBody, history
  <2>2. CASE JobReport(c)
    BY <1>b, <1>c, <2>2 DEF JobReport
  <2>3. CASE LinkDone(c)
    BY <1>c, <2>3 DEF LinkDone, history
  <2> QED BY <1>2, <2>1, <2>2, <2>3 DEF JobStep
<1>3. CASE RunDueJob
  <2>1. ASSUME NEW key \in DueJob(now), RememberKey(key), launched' = launched \cup {key}
        PROVE  SlotsRemembered'
    <3>1. key \in DueKeys(now) /\ key.day = Day(now)
      BY <1>a, DueKeysTyped, DueKeysOfDay
    <3>2. now' = now
      BY <1>3 DEF RunDueJob
    <3> QED BY <1>a, <2>1, <3>1, <3>2 DEF RememberKey, SlotsRemembered
  <2> QED BY <1>3, <1>b, <2>1 DEF RunDueJob
<1>4. CASE ApiRestart
  BY <1>4 DEF ApiRestart, SlotsRemembered
<1>5. CASE \/ SessionChange \/ StreamChange \/ RunRecovery \/ WarningDone \/ Start
           \/ Stop \/ UNCHANGED vars \/ \E c, name : OperatorJob(c, name)
  BY <1>5, <1>b DEF SessionChange, StreamChange, RunRecovery, WarningDone, Start, Stop,
                    OperatorJob, vars, history
<1> QED
  BY <1>1, <1>2, <1>3, <1>4, <1>5 DEF Next, LoopStep

\* A due slot is run at most once in the life of the process, for every
\* schedule and clock, also when stop cancels its job or operators run jobs.
THEOREM SlotsCorrect == Spec => OncePerSlot
<1>1. Init => SlotsRemembered
  BY DEF Init, SlotsRemembered
<1>2. ASSUME TypeOK, SlotsRemembered, [Next]_vars
      PROVE  [task = "poll" /\ task' = "due_job" => DueJob(now) \cap launched = {}]_vars
  <2> SUFFICES ASSUME task = "poll", task' = "due_job"
               PROVE  DueJob(now) \cap launched = {}
    OBVIOUS
  <2>1. RunDueJob
    <3>1. ~\E c \in Callers : JobStep(c)
      <4>1. \A c : ~AfterJob(c)
        BY DEF AfterJob
      <4> QED BY <4>1 DEF JobStep, JobBody, JobReport, LinkDone
    <3>2. "loop" \in Callers /\ Operators \subseteq Callers
      BY DEF Callers
    <3> QED BY <1>2, <3>1, <3>2 DEF Next, LoopStep, Tick, SessionChange, StreamChange,
               RunRecovery, WarningDone, OperatorJob, Start, Stop, ApiRestart, vars
  <2>2. PICK key \in DueJob(now) : key \notin completedKeys
    BY <2>1 DEF RunDueJob
  <2>3. \A k \in DueJob(now) : k = key
    <3>1. now \in Nat
      BY <1>2, SchedulerAssumption DEF TypeOK
    <3>2. \A k \in DueJob(now) : Rank(k.name) = Rank(key.name)
      <4>1. \A k \in DueJob(now) : Rank(k.name) <= Rank(key.name) /\ Rank(key.name) <= Rank(k.name)
        BY <2>2 DEF DueJob
      <4>2. \A n : Rank(n) \in Nat
        BY DEF Rank
      <4> QED BY <4>1, <4>2
    <3>3. \A m, n \in Jobs : Rank(m) = Rank(n) => m = n
      BY DEF Rank, Jobs, OneShots
    <3>4. \A k \in DueJob(now) : k.name \in Jobs
      BY <3>1, DueKeysTyped DEF Key
    <3>5. \A k \in DueJob(now) : k.name = key.name
      BY <2>2, <3>2, <3>3, <3>4
    <3>6. \A k, l \in DueKeys(now) : k.name = l.name => k = l
      BY DEF DueKeys
    <3> QED BY <3>1, <3>5, <3>6, DueKeysTyped
  <2> QED BY <1>2, <2>2, <2>3 DEF SlotsRemembered
<1> QED
  BY <1>1, <1>2, TypeCorrect, SlotsStep, PTL DEF Spec, OncePerSlot

-----------------------------------------------------------------------------
(* One link per episode. *)

\* A link that an episode has sent is remembered, by a pending action and its flag, until
\* a start inside the window forgets it.
LinksInv ==
    /\ episode.linked => episode.open
    /\ episode.linked /\ ~episode.restarted => pendingAction # NoAction /\ linkSent

\* A session found missing: whatever is sent is remembered.
LEMMA ArmLinks ==
    ASSUME TypeOK, LinksInv, ArmLoginRecovery
    PROVE  LinksInv'
<1>1. episode \in EpisodeType /\ now \in Nat
  BY SchedulerAssumption DEF TypeOK
<1>2. PICK e : e = IF episode.open THEN episode ELSE NewEpisode(Day(now))
  OBVIOUS
<1>3. e \in EpisodeType /\ e.open
  BY <1>1, <1>2, ClockTyped, NewEpisodeTyped DEF NewEpisode
<1>4. /\ pendingAction' = "stream_start" /\ linkSent' = TRUE
      /\ episode' = IF SendsLink THEN [e EXCEPT !.linked = TRUE, !.restarted = FALSE] ELSE e
  BY <1>2 DEF ArmLoginRecovery
<1>5. episode'.open
  BY <1>3, <1>4 DEF EpisodeType
<1> QED
  BY <1>4, <1>5 DEF LinksInv, NoAction

\* Every step keeps that.
LEMMA LinksStep == TypeOK /\ LinksInv /\ [Next]_vars => LinksInv'
<1> SUFFICES ASSUME TypeOK, LinksInv, [Next]_vars PROVE LinksInv'
  OBVIOUS
<1>a. UNCHANGED <<pendingAction, linkSent, episode>> => LinksInv'
  BY DEF LinksInv
<1>b. ClearRecovery => LinksInv'
  BY DEF ClearRecovery, LinksInv, NoEpisode
<1>1. CASE Tick \/ SessionChange \/ StreamChange \/ RunDueJob \/ Stop
  BY <1>1, <1>a DEF Tick, SessionChange, StreamChange, RunDueJob, Stop, recovery, history
<1>2. ASSUME NEW c, JobStep(c) PROVE LinksInv'
  <2>1. ASSUME NEW event, JobBody(c, event) PROVE LinksInv'
    BY <1>a, <2>1 DEF JobBody, recovery, history
  <2>2. CASE JobReport(c)
    <3>1. CASE ArmLoginRecovery
      BY <3>1, ArmLinks
    <3>2. CASE /\ pendingAction # NoAction
               /\ pendingAction' \in {"stream_verify", pendingAction}
               /\ UNCHANGED <<linkSent, episode>>
      BY <3>2 DEF LinksInv, NoAction
    <3> QED
      BY <1>a, <1>b, <2>2, <3>1, <3>2 DEF JobReport, ProcessRecoverySummary, recovery
  <2>3. CASE LinkDone(c)
    BY <1>a, <2>3 DEF LinkDone, recovery, history
  <2> QED BY <1>2, <2>1, <2>2, <2>3 DEF JobStep
<1>3. ASSUME NEW c, NEW name, OperatorJob(c, name) PROVE LinksInv'
  BY <1>a, <1>3 DEF OperatorJob, recovery, history
<1>4. CASE RunRecovery
  BY <1>4, <1>a, <1>b DEF RunRecovery, recovery
<1>5. CASE WarningDone \/ ApiRestart
  BY <1>5, <1>b DEF WarningDone, ApiRestart
<1>6. CASE Start
  <2>1. episode \in EpisodeType
    BY DEF TypeOK
  <2>2. CASE episode' = [episode EXCEPT !.restarted = episode.linked]
    <3>1. /\ episode'.restarted = episode.linked
          /\ episode'.linked = episode.linked /\ episode'.open = episode.open
      BY <2>1, <2>2 DEF EpisodeType
    <3> QED
      BY <3>1 DEF LinksInv
  <2> QED
    BY <1>6, <1>a, <2>2 DEF Start, PrepareLateStartRecovery, recovery
<1>7. CASE UNCHANGED vars
  BY <1>7, <1>a DEF vars, recovery, history
<1> QED
  BY <1>1, <1>2, <1>3, <1>4, <1>5, <1>6, <1>7 DEF Next, LoopStep

\* A step that begins to send a link finds none sent, or forgotten by a start.
LEMMA LinkSending ==
    ASSUME TypeOK, LinksInv, [Next]_vars, NEW c \in Callers,
           job[c].stage = "report", job'[c].stage = "link", episode.linked
    PROVE  episode.restarted
<1>1. "loop" \in Callers /\ Operators \subseteq Callers /\ job \in [Callers -> JobType]
  BY DEF Callers, TypeOK, JobType
<1>2. ASSUME NEW d \in Callers, JobReport(d) PROVE SendsLink
  BY <1>1, <1>2 DEF JobReport, NoJob
<1>3. \E d \in Callers : JobReport(d)
  <2>1. ASSUME NEW d \in Callers, JobStep(d) PROVE JobReport(d)
    <3>1. ASSUME NEW event, JobBody(d, event) PROVE FALSE
      BY <1>1, <3>1 DEF JobBody, JobType
    <3>2. CASE LinkDone(d)
      BY <1>1, <3>2 DEF LinkDone, NoJob, JobType
    <3> QED BY <2>1, <3>1, <3>2 DEF JobStep
  <2>2. ASSUME NEW d \in Operators, NEW name, OperatorJob(d, name) PROVE FALSE
    BY <1>1, <2>2 DEF OperatorJob, TakeJobLock
  <2>3. CASE RunDueJob \/ RunRecovery
    BY <1>1, <2>3 DEF RunDueJob, RunRecovery, TakeJobLock
  <2>4. CASE Stop \/ ApiRestart
    BY <1>1, <2>4 DEF Stop, ApiRestart, NoJob
  <2> QED BY <1>1, <2>1, <2>2, <2>3, <2>4 DEF Next, LoopStep, Tick, SessionChange,
             StreamChange, WarningDone, Start, vars
<1> QED
  BY <1>2, <1>3 DEF SendsLink, LinksInv

\* A second login link in one episode, whichever of preopen checks, retries and operators
\* finds the session missing, needs a start of the scheduler inside the window since the
\* first.
THEOREM LinksCorrect == Spec => LinksAccountedFor
<1>1. Init => LinksInv
  BY DEF Init, LinksInv, NoEpisode
<1>2. ASSUME TypeOK, LinksInv, [Next]_vars
      PROVE  [\A c \in Callers :
                (job[c].stage = "report" /\ job'[c].stage = "link" /\ episode.linked)
                   => episode.restarted]_vars
  BY <1>2, LinkSending
<1> QED
  BY <1>1, <1>2, LinksStep, TypeCorrect, PTL DEF Spec, LinksAccountedFor
=============================================================================
