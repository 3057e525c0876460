----------------------------- MODULE TimerQueue -----------------------------
(***************************************************************************)
(* What the synchronous timers promise to the main loop: a scheduled timer *)
(* starts its task once, and not before its delay has gone by.             *)
(***************************************************************************)
EXTENDS Naturals

CONSTANTS
  Timer,     \* the timers
  Periodic,  \* the timers whose task schedules them again
  Delay      \* Delay[t]: seconds from the scheduling of t to its expiry

VARIABLES
  scheduled,   \* the timers waiting to expire
  rem,         \* rem[t]: seconds until t expires
  task         \* the timer whose task is running, or "none"

queueVars == <<scheduled, rem, task>>

\* A timer is scheduled by its own task or while no task runs
Schedule(t) ==
  /\ t \notin scheduled /\ task \in {"none", t}
  /\ scheduled' = scheduled \cup {t}
  /\ rem' = [rem EXCEPT ![t] = Delay[t]]
  /\ task' = "none"

Cancel(t) ==
  /\ t \in scheduled /\ task = "none"
  /\ scheduled' = scheduled \ {t}
  /\ UNCHANGED <<rem, task>>

Start(t) ==
  /\ t \in scheduled /\ rem[t] = 0 /\ task = "none"
  /\ scheduled' = scheduled \ {t}
  /\ task' = t
  /\ UNCHANGED rem

Finish == task # "none" /\ task' = "none" /\ UNCHANGED <<scheduled, rem>>

Second ==
  /\ rem' = [t \in Timer |-> IF rem[t] = 0 THEN 0 ELSE rem[t] - 1]
  /\ UNCHANGED <<scheduled, task>>

\* controlSetup schedules the periodic tasks; a reset does so again
Boot ==
  /\ scheduled' = Periodic
  /\ rem' = [t \in Timer |-> IF t \in Periodic THEN Delay[t] ELSE 0]
  /\ task' = "none"

QueueNext ==
  \/ \E t \in Timer : Schedule(t) \/ Cancel(t) \/ Start(t)
  \/ Finish \/ Second
  \/ Boot

QueueInit ==
  /\ scheduled = Periodic
  /\ rem = [t \in Timer |-> IF t \in Periodic THEN Delay[t] ELSE 0]
  /\ task = "none"

QueueSpec == QueueInit /\ [][QueueNext]_queueVars
=============================================================================
