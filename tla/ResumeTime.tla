----------------------------- MODULE ResumeTime -----------------------------
(***************************************************************************)
(* How long channels stay suspended: ChannelMonitor with a clock, the runs *)
(* of cmd_task (one per second).  chResumeCountdown is one countdown for   *)
(* all the suspended channels; control.c starts it with the first one and  *)
(* resumes all of them on the tick after it has expired.                   *)
(***************************************************************************)
EXTENDS ChannelMonitor

\* waited[ch]: runs of cmd_task since ch was suspended, 0 when it is not
VARIABLE waited

clockVars == <<vars, waited>>

Waiting(ticks) ==
  waited' = [ch \in Ch |-> IF ch \in chSuspended \cap chSuspended'
                             THEN waited[ch] + ticks ELSE 0]

ClockInit == Init /\ waited = [ch \in Ch |-> 0]

ClockNext ==
  \/ CmdTask /\ Waiting(1)
  \/ (ControlLoop \/ CmdTaskRecalibrates \/ Operator \/ Environment)
     /\ Waiting(0)

ClockSpec == ClockInit /\ [][ClockNext]_clockVars

CheckTimes == {p.checkTime : p \in Params}

\* A suspension lasts at most N times the longest check time: a channel
\* suspended between the expiry of the countdown and the tick that resumes
\* starts it again for all, but each channel can do so only once.  (A bound of
\* one check time, "to resume in time with respect to the first faulty
\* channel" as control.c:878 has it, does not hold.)
SuspensionBounded ==
  \A ch \in Ch : \E t \in CheckTimes : waited[ch] <= N * t
=============================================================================
