------------------------ MODULE MCMarketOpsScheduler ------------------------
(***************************************************************************)
(* Days of three or four minutes: the preopen check, a recovery window     *)
(* from the minute of the stream start on, and a scanner slot in the last  *)
(* minute.  The verification is due in the longer day.  The other times    *)
(* are outside the day: those jobs, which the loop treats alike, are left  *)
(* to operators.                                                           *)
(***************************************************************************)
EXTENDS MarketOpsScheduler

CONSTANT op

MCDueAt == [name \in OneShots |->
    CASE name = "preopen_check" -> 0
      [] name = "stream_start" -> 1
      [] name = "stream_verify" /\ DayMinutes > 3 -> 2
      [] OTHER -> DayMinutes]

\* Behaviours in which jobs are quick and a running loop polls in time: the
\* clock does not move on while it has an expired recovery to clear.
Prompt ==
    /\ \A c \in Callers : job[c].stage = "idle"
    /\ task # "none" => ~(pendingAction # NoAction /\ RecoveryWindowExpired(now))

PromptSpec == Init /\ [][Next /\ (now' # now => Prompt)]_vars
=============================================================================
