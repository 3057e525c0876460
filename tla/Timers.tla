------------------------------- MODULE Timers -------------------------------
(***************************************************************************)
(* The synchronous timers of the main loop (src/bertos/drv/timer.c over    *)
(* src/bertos/struct/list.h) and who uses them in src/ade/control.c: the   *)
(* SMS task and the console task, each of which schedules itself again,    *)
(* and the push button, whose edges insert and remove the button timer.    *)
(*                                                                         *)
(* The list is modelled pointer by pointer, in the debug build the ade     *)
(* makefile asks for.  Its assertions print and go on, so nothing stops a  *)
(* timer from being inserted twice.  A write through NULL lands in the     *)
(* registers the AVR maps at address 0 and reaches no node.                *)
(***************************************************************************)
EXTENDS Naturals

CONSTANT
  Delay         \* seconds from the insertion of a timer to its expiry

Timer    == {"sms", "cmd", "btn"}
Periodic == {"sms", "cmd"}
Node     == Timer \cup {"head", "tail"}
NULL     == "NULL"

ASSUME DelayAssumption ==
  Delay \in [Timer -> Nat \ {0}] /\ Delay["cmd"] < Delay["sms"]

VARIABLES
  succ, pred,   \* the links of the nodes
  active,       \* the timers whose magic is TIMER_MAGIC_ACTIVE
  rem,          \* seconds until each timer expires, 0 when it has
  pc,           \* where the main loop is
  task,         \* the timer whose event is executed, or "none"
  pressed,      \* the button, as signals_status shows it
  pending,      \* the button's bit in signals_pending
  misused       \* history: a timer was inserted while it was in the list

list   == <<succ, pred, active>>
button == <<pressed, pending>>
vars   == <<list, rem, pc, task, button, misused>>

TypeOK ==
  /\ succ \in [Node -> Node \cup {NULL}] /\ pred \in [Node -> Node \cup {NULL}]
  /\ active \subseteq Timer
  /\ rem \in [Timer -> Nat] /\ \A t \in Timer : rem[t] <= Delay[t]
  /\ pc \in {"poll", "task", "signals", "button", "hung"}
  /\ task \in Timer \cup {"none"}
  /\ pressed \in BOOLEAN /\ pending \in BOOLEAN /\ misused \in BOOLEAN

-----------------------------------------------------------------------------
(***************************************************************************)
(* list.h: sequences of assignments through pointers.                      *)
(***************************************************************************)
Store(f, n, v) == IF n = NULL THEN f ELSE [f EXCEPT ![n] = v]
Load(f, n)     == IF n = NULL THEN NULL ELSE f[n]

INSERT_BEFORE(n, ln) ==
  LET p1 == Store(pred, n, Load(pred, ln))
      s1 == Store(succ, n, ln)
  IN /\ succ' = Store(s1, Load(p1, ln), n)
     /\ pred' = Store(p1, ln, n)

\* MUTANT: a removed node keeps its links
MutRemoveKeepsLinks(n) ==
  LET s1 == Store(succ, pred[n], succ[n])
  IN succ' = s1 /\ pred' = Store(pred, s1[n], pred[n])

\* REMOVE with the INVALIDATE_NODE of the debug build
REMOVE(n) ==
  LET s1 == Store(succ, pred[n], succ[n])
      p1 == Store(pred, s1[n], pred[n])
  IN /\ succ' = [s1 EXCEPT ![n] = NULL]
     /\ pred' = [p1 EXCEPT ![n] = NULL]

-----------------------------------------------------------------------------
(***************************************************************************)
(* timer.c.                                                                *)
(***************************************************************************)
\* Where the search for the place of t stops: at the end of the list or at a
\* later timer.  t itself, already given its new tick, is not later than t.
Stops(n, t) ==
  \/ n = NULL \/ succ[n] = NULL
  \/ n # t /\ rem[n] > Delay[t]

\* One step of the search, and where it is after as many steps as there are
\* nodes: at its end, unless the list has a cycle
Step(t, n) == IF Stops(n, t) THEN n ELSE succ[n]
Search(t) == LET S(n) == Step(t, n) IN S(S(S(S(S(succ["head"])))))

\* MUTANT: the new tick counts from the old one
MutTickAccumulates(t) == [rem EXCEPT ![t] = @ + Delay[t]]

NewTick(t) == [rem EXCEPT ![t] = Delay[t]]

\* On a list with a cycle the search need not end
timer_addToList(t) ==
  LET place == Search(t) IN
  /\ active' = active \cup {t}
  /\ misused' = (misused \/ t \in active)
  /\ rem' = NewTick(t)
  /\ IF Stops(place, t) THEN INSERT_BEFORE(t, place) /\ pc' = "poll"
                        ELSE UNCHANGED <<succ, pred>> /\ pc' = "hung"

timer_remove(t) == REMOVE(t) /\ active' = active \ {t} /\ UNCHANGED misused

Expired == LET first == succ["head"] IN Load(succ, first) # NULL /\ rem[first] = 0

\* timer_poll up to the event of an expired timer
PollStarts ==
  /\ pc = "poll" /\ Expired
  /\ timer_remove(succ["head"])
  /\ task' = succ["head"] /\ pc' = "task"
  /\ UNCHANGED <<rem, button>>

PollEnds ==
  /\ pc = "poll" /\ ~Expired
  /\ pc' = "signals"
  /\ UNCHANGED <<list, rem, task, button, misused>>

-----------------------------------------------------------------------------
(***************************************************************************)
(* The tasks and the button handler of control.c.                          *)
(***************************************************************************)
\* MUTANT: the console task returns early, without its last statement
MutNotRescheduled ==
  /\ IF task = "cmd" /\ pressed
       THEN pc' = "poll" /\ UNCHANGED <<list, rem, misused>>
       ELSE timer_addToList(task)

Reschedule == timer_addToList(task)

\* sms_task and cmd_task, up to their last statement
PeriodicTaskEnds ==
  /\ pc = "task" /\ task \in Periodic
  /\ Reschedule
  /\ task' = "none"
  /\ UNCHANGED button

\* btn_task waits until the button is released ...
ButtonTaskEnds ==
  /\ pc = "task" /\ task = "btn" /\ ~pressed
  /\ pc' = "poll" /\ task' = "none"
  /\ UNCHANGED <<list, rem, button, misused>>

BootSucc == [n \in Node |-> CASE n = "head" -> "cmd" [] n = "cmd" -> "sms"
                              [] n = "sms" -> "tail" [] OTHER -> NULL]
BootPred == [n \in Node |-> CASE n = "tail" -> "sms" [] n = "sms" -> "cmd"
                              [] n = "cmd" -> "head" [] OTHER -> NULL]
BootRem  == [t \in Timer |-> IF t \in Periodic THEN Delay[t] ELSE 0]

\* controlSetup, after a reset.  The button interrupt is enabled before it.
controlSetup ==
  /\ succ' = BootSucc /\ pred' = BootPred /\ active' = Periodic
  /\ rem' = BootRem /\ misused' = FALSE
  /\ pc' = "poll" /\ task' = "none"
  /\ pressed' = pressed /\ pending' \in BOOLEAN

\* ... or resets the board when it is not for 5 seconds
ButtonTaskResets ==
  pc = "task" /\ task = "btn" /\ pressed /\ controlSetup

\* The main loop no longer resets the watchdog
WatchdogResets == pc = "hung" /\ controlSetup

\* checkSignals: signal_pending reads and clears the bit ...
CheckSignals ==
  /\ pc = "signals"
  /\ pc' = IF pending THEN "button" ELSE "poll"
  /\ pending' = FALSE
  /\ UNCHANGED <<list, rem, task, pressed, misused>>

\* ... and buttonHandler reads the status
ButtonPressed ==
  /\ pc = "button" /\ pressed
  /\ timer_addToList("btn")
  /\ UNCHANGED <<task, button>>

ButtonReleased ==
  /\ pc = "button" /\ ~pressed
  /\ timer_remove("btn")
  /\ pc' = "poll"
  /\ UNCHANGED <<rem, task, button>>

-----------------------------------------------------------------------------
\* The ISR: an edge of the button sets its bit, once for any number of edges
Edge ==
  /\ pressed' = ~pressed /\ pending' = TRUE
  /\ UNCHANGED <<list, rem, pc, task, misused>>

Second ==
  /\ rem' = [t \in Timer |-> IF rem[t] = 0 THEN 0 ELSE rem[t] - 1]
  /\ UNCHANGED <<list, pc, task, button, misused>>

Init ==
  /\ succ = BootSucc /\ pred = BootPred /\ active = Periodic
  /\ rem = BootRem /\ misused = FALSE
  /\ pc = "poll" /\ task = "none"
  /\ pressed \in BOOLEAN /\ pending \in BOOLEAN

MainLoop ==
  \/ PollStarts \/ PollEnds
  \/ PeriodicTaskEnds \/ ButtonTaskEnds \/ ButtonTaskResets
  \/ CheckSignals \/ ButtonPressed \/ ButtonReleased

Next == MainLoop \/ WatchdogResets \/ Edge \/ Second

\* The program and time go on; nobody need press the button
Spec == /\ Init /\ [][Next]_vars
        /\ WF_vars(MainLoop) /\ WF_vars(WatchdogResets) /\ WF_vars(Second)

-----------------------------------------------------------------------------
(***************************************************************************)
(* Properties.                                                             *)
(***************************************************************************)
\* The nodes a walk from the head meets
Walked ==
  LET next(n) == Load(succ, n)
      n1 == next("head")
      n2 == next(n1)
      n3 == next(n2)
  IN {"head", n1, n2, n3, next(n3)} \ {NULL}

Listed == Walked \cap Timer

\* The list is whole until a timer is inserted twice: both chains of links
\* agree, it holds the active timers and ends at its tail, and the timer first
\* in it expires first.  Holds for presses and releases at any moment of any
\* task, although btn_task lets the handler remove a timer that is in no list.
ListSound ==
  ~misused =>
    /\ Listed = active /\ "tail" \in Walked
    /\ \A n \in Walked \ {"tail"} : pred[succ[n]] = n
    /\ \A t \in Listed : succ[t] \in Timer => rem[t] <= rem[succ[t]]

\* Whatever the button does to the list, no task starts that was not scheduled
\* since its last start or removal: a broken list can lose a task, but not run
\* one (a recalibration, a reset) that nobody asked for.
StartsOnlyScheduled == [][PollStarts => succ["head"] \in active]_vars

\* No task is forgotten: until a timer is inserted twice, each periodic task is
\* in the list or is the one that runs, whatever presses and releases do to the
\* timers around it.  Nothing but the last statement of a task puts it back
\* (control.c:262 and 314).
TasksScheduled ==
  ~misused => \A t \in Periodic : t \in Listed \/ task = t

BoardStaysUp == <>[][~(ButtonTaskResets \/ WatchdogResets)]_vars

\* Each periodic task runs again and again, unless the board is reset again
\* and again.  Refuted (control.c:262 and 314, "reschedule this timer", of the
\* tasks that do): the press that inserts the button timer a second time
\* ("inserting timers twice causes mayhem", timer.c:126) unhooks the others
\* from the list for ever.
TasksKeepRunning == BoardStaysUp => \A t \in Periodic : []<>(task = t)

\* The double insertion is the only way to lose a task: no edge of the button
\* at any other moment keeps the periodic tasks from running.
TasksRunUnlessMisused ==
  BoardStaysUp /\ <>[]~misused => \A t \in Periodic : []<>(task = t)

\* The list implements the queue of scheduled timers: the queue promises
\* nothing from the double insertion to the reset that follows.
Queue == INSTANCE TimerQueue WITH scheduled <- Listed
TimersImplementQueue ==
  Queue!QueueInit /\ [][misused' \/ Queue!QueueNext]_(Queue!queueVars)
=============================================================================
