-------------------------- MODULE ResumeTimeProofs ---------------------------
(* How long suspensions last, for every value of the constants. *)
EXTENDS ResumeTime, ChannelMonitorProofs, FiniteSets, FiniteSetTheorems

\* A channel that waits has waited, with what the countdown still has to run,
\* no longer than t for each suspended channel: every restart of the countdown
\* is one more suspended channel.
BoundedBy(t) ==
  /\ chResumeCountdown <= t
  /\ \A ch \in chSuspended :
       waited[ch] + chResumeCountdown <= Cardinality(chSuspended) * t

WaitInv ==
  /\ waited \in [Ch -> Nat]
  /\ \A ch \in Ch \ chSuspended : waited[ch] = 0
  /\ \E t \in CheckTimes : BoundedBy(t)

-----------------------------------------------------------------------------
\* The clock is a history: the monitor behaves the same with it.
LEMMA ClockedIsMonitor == ClockSpec => Spec
<1>1. ClockInit => Init
  BY DEF ClockInit
<1>2. [ClockNext]_clockVars => [Next]_vars
  BY DEF ClockNext, Next, clockVars
<1> QED
  BY <1>1, <1>2, PTL DEF ClockSpec, Spec

\* Type correctness carries over to the specification with the clock.
LEMMA ClockedTypes == ClockSpec => []TypeOK
BY ClockedIsMonitor, TypeCorrect, PTL

\* Some check time exists, and all are natural numbers.
LEMMA CheckTimesAreNat == CheckTimes \subseteq Nat /\ CheckTimes # {}
BY ParamsAssumption DEF CheckTimes

\* A set of channels has at most N members.
LEMMA ChannelCount ==
  ASSUME NEW S \in SUBSET Ch
  PROVE  IsFiniteSet(S) /\ Cardinality(S) \in Nat /\ Cardinality(S) <= N
<1>1. IsFiniteSet(Ch) /\ Cardinality(Ch) = N
  BY ChannelsAssumption, FS_Interval DEF Ch
<1> QED
  BY <1>1, FS_Subset, FS_CardinalityType

\* A product grows with either factor.
LEMMA ProductGrows ==
  ASSUME NEW k \in Nat, NEW m \in Nat, NEW t \in Nat, NEW u \in Nat,
         k <= m, t <= u
  PROVE  k * t \in Nat /\ m * u \in Nat /\ k * t <= m * u
<1>1. k * t <= m * t
  BY TimesMonotonic
<1>2. m * t <= m * u
  BY TimesMonotonic
<1> QED
  BY <1>1, <1>2

\* What a step does to the suspended channels and their countdown: one more is
\* suspended, a second passes, all are resumed, or nothing.
LEMMA SuspensionSteps ==
  ASSUME TypeOK, [ClockNext]_clockVars, waited \in [Ch -> Nat]
  PROVE  \/ Waiting(0) /\ \E ch \in Ch \ chSuspended :
              /\ chSuspended' = chSuspended \cup {ch}
              /\ chResumeCountdown' = SuspendCountdown
         \/ Waiting(1) /\ CmdTask
         \/ Waiting(0) /\ chSuspended' = {}
            /\ chResumeCountdown' \in {0, chResumeCountdown, ResumeTick}
         \/ Waiting(0) /\ UNCHANGED <<chSuspended, chResumeCountdown>>
         \/ UNCHANGED <<waited, chSuspended, chResumeCountdown>>
<1>1. CASE CmdTask /\ Waiting(1)
  BY <1>1
<1>2. CASE ControlLoop /\ Waiting(0)
  <2> PICK ch \in Ch : Sample(ch)
    BY <1>2 DEF ControlLoop
  <2>1. CASE SuspendChannel(ch)
    <3>1. ch \notin chSuspended
      BY <2>1 DEF SuspendChannel, MonitorSample, sampleChannel, Selects,
                  Candidates, LossyFocus, CalibFocus, Active
    <3> QED
      BY <1>2, <2>1, <3>1 DEF SuspendChannel
  <2>2. CASE ~SuspendChannel(ch)
    BY <1>2, <2>2 DEF Sample, CalibrationEnds, CalibrationSample,
                      SampleUnmonitored, GoodSample, LossSample, DeclareFault
  <2> QED
    BY <2>1, <2>2
<1>3. CASE (CmdTaskRecalibrates \/ BtnTask \/ ForceCalibration \/ Reboot)
           /\ Waiting(0)
  BY <1>3 DEF CmdTaskRecalibrates, BtnTask, ForceCalibration, Reboot,
              controlCalibration
<1>4. CASE Operator /\ ~(BtnTask \/ ForceCalibration \/ Reboot) /\ Waiting(0)
  BY <1>4 DEF Operator, AddEnabled, RemoveEnabled, controlSetEnabled,
              AddCritical, RemoveCritical, controlSetCritical, SetMonitoring,
              ForceFaultSignal, SetParams
<1>5. CASE Environment /\ Waiting(0)
  BY <1>5 DEF Environment, getActiveChannels, LoadChanges
<1>6. CASE UNCHANGED clockVars
  BY <1>6 DEF clockVars, vars
<1> QED
  BY <1>1, <1>2, <1>3, <1>4, <1>5, <1>6 DEF ClockNext

-----------------------------------------------------------------------------
\* No channel is suspended for longer than N of the longest check times,
\* however often other suspensions start the common countdown again and
\* whatever ip makes of the check time.
THEOREM SuspensionsAreBounded == ClockSpec => []SuspensionBounded
<1>1. ClockInit => WaitInv
  <2> SUFFICES ASSUME ClockInit PROVE WaitInv
    OBVIOUS
  <2>1. PICK t \in CheckTimes : TRUE
    BY CheckTimesAreNat
  <2>2. /\ chSuspended = {} /\ waited = [ch \in Ch |-> 0]
        /\ chResumeCountdown = 0
    BY DEF ClockInit, Init
  <2>3. BoundedBy(t)
    BY <2>1, <2>2, CheckTimesAreNat DEF BoundedBy
  <2> QED
    BY <2>1, <2>2, <2>3 DEF WaitInv
<1>2. TypeOK /\ WaitInv /\ [ClockNext]_clockVars => WaitInv'
  <2> SUFFICES ASSUME TypeOK, WaitInv, [ClockNext]_clockVars PROVE WaitInv'
    OBVIOUS
  <2> DEFINE k == Cardinality(chSuspended)
  <2>1. PICK t \in CheckTimes : BoundedBy(t)
    BY DEF WaitInv
  <2>2. /\ t \in Nat /\ k \in Nat /\ chResumeCountdown \in Nat
        /\ waited \in [Ch -> Nat] /\ chSuspended \subseteq Ch
        /\ prm.checkTime \in CheckTimes /\ prm.checkTime \in Nat
    BY CheckTimesAreNat, ChannelCount, ParamFacts
    DEF TypeOK, WaitInv, CheckTimes
  <2>3. /\ chResumeCountdown <= t
        /\ \A ch \in chSuspended : waited[ch] + chResumeCountdown <= k * t
    BY <2>1 DEF BoundedBy
  <2>4. CASE Waiting(0) /\ \E ch \in Ch \ chSuspended :
               /\ chSuspended' = chSuspended \cup {ch}
               /\ chResumeCountdown' = SuspendCountdown
    <3> PICK new \in Ch \ chSuspended :
               /\ chSuspended' = chSuspended \cup {new}
               /\ chResumeCountdown' = SuspendCountdown
      BY <2>4
    <3>1. Cardinality(chSuspended') = k + 1
      BY <2>2, ChannelCount, FS_AddElement
    <3>2. /\ \A ch \in Ch : waited'[ch] =
                 IF ch \in chSuspended THEN waited[ch] ELSE 0
          /\ waited' \in [Ch -> Nat]
      BY <2>2, <2>4 DEF Waiting
    <3>3. PICK u \in CheckTimes : u \in Nat /\ t <= u /\ prm.checkTime <= u
      BY <2>2
    <3>4. /\ k * t \in Nat /\ k * u \in Nat /\ k * t <= k * u
          /\ (k + 1) * u = k * u + u
      BY <2>2, <3>3, ProductGrows, OneMoreCheck
    <3>5. ASSUME NEW ch \in chSuspended'
          PROVE  waited'[ch] + chResumeCountdown' <= (k + 1) * u
      <4>1. CASE chResumeCountdown = 0
        <5>1. chResumeCountdown' = prm.checkTime
          BY <4>1 DEF SuspendCountdown
        <5>2. waited'[ch] <= k * u /\ waited'[ch] \in Nat
          BY <2>2, <2>3, <3>2, <3>4, <3>5, <4>1
        <5> QED
          BY <2>2, <3>3, <3>4, <5>1, <5>2
      <4>2. CASE chResumeCountdown # 0
        <5>1. chResumeCountdown' = chResumeCountdown
          BY <4>2 DEF SuspendCountdown
        <5>2. CASE ch \in chSuspended
          <6>1. waited'[ch] = waited[ch] /\ waited[ch] \in Nat
            BY <2>2, <3>2, <5>2
          <6> QED
            BY <2>2, <2>3, <3>3, <3>4, <5>1, <5>2, <6>1
        <5>3. CASE ch = new
          <6>1. waited'[ch] = 0
            BY <3>2, <5>3
          <6> QED
            BY <2>2, <2>3, <3>3, <3>4, <5>1, <6>1
        <5> QED
          BY <3>5, <5>2, <5>3
      <4> QED
        BY <4>1, <4>2
    <3>6. chResumeCountdown' <= u
      BY <2>2, <2>3, <3>3 DEF SuspendCountdown
    <3>7. BoundedBy(u)'
      BY <3>1, <3>5, <3>6 DEF BoundedBy
    <3>8. \A ch \in Ch \ chSuspended' : waited'[ch] = 0
      BY <3>2
    <3> QED
      BY <3>2, <3>3, <3>7, <3>8 DEF WaitInv, CheckTimes
  <2>5. CASE Waiting(1) /\ CmdTask
    <3>1. waited' \in [Ch -> Nat]
      BY <2>2, <2>5 DEF Waiting
    <3>2. \A ch \in Ch \ chSuspended' : waited'[ch] = 0
      BY <2>2, <2>5 DEF Waiting
    <3>3. CASE chResumeCountdown = 0
      <4>1. chSuspended' = {} /\ chResumeCountdown' <= t
        BY <2>2, <2>5, <3>3 DEF CmdTask, ResumeTick
      <4>2. BoundedBy(t)'
        BY <4>1 DEF BoundedBy
      <4> QED
        BY <2>1, <3>1, <3>2, <4>2 DEF WaitInv, CheckTimes
    <3>4. CASE chResumeCountdown # 0
      <4>1. /\ chSuspended' = chSuspended
            /\ chResumeCountdown' = chResumeCountdown - 1
        BY <2>5, <3>4 DEF CmdTask, ResumeTick
      <4>2. \A ch \in chSuspended : /\ waited'[ch] = waited[ch] + 1
                                     /\ waited[ch] \in Nat
        BY <2>2, <2>5, <4>1 DEF Waiting
      <4>3. k * t \in Nat
        BY <2>2, OneMoreCheck
      <4>4. BoundedBy(t)'
        BY <2>2, <2>3, <3>4, <4>1, <4>2, <4>3 DEF BoundedBy
      <4> QED
        BY <2>1, <3>1, <3>2, <4>4 DEF WaitInv, CheckTimes
    <3> QED
      BY <3>3, <3>4
  <2>6. CASE Waiting(0) /\ chSuspended' = {}
             /\ chResumeCountdown' \in {0, chResumeCountdown, ResumeTick}
    <3>1. waited' \in [Ch -> Nat] /\ \A ch \in Ch : waited'[ch] = 0
      BY <2>2, <2>6 DEF Waiting
    <3>2. chResumeCountdown' <= t
      BY <2>2, <2>3, <2>6 DEF ResumeTick
    <3>3. BoundedBy(t)'
      BY <2>6, <3>2 DEF BoundedBy
    <3> QED
      BY <2>1, <3>1, <3>3 DEF WaitInv, CheckTimes
  <2>7. CASE Waiting(0) /\ UNCHANGED <<chSuspended, chResumeCountdown>>
    <3>1. waited' = waited
      BY <2>2, <2>7 DEF Waiting, WaitInv
    <3> QED
      BY <2>7, <3>1 DEF WaitInv, BoundedBy, CheckTimes
  <2>8. CASE UNCHANGED <<waited, chSuspended, chResumeCountdown>>
    BY <2>8 DEF WaitInv, BoundedBy, CheckTimes
  <2> QED
    BY <2>2, <2>3, <2>4, <2>5, <2>6, <2>7, <2>8, SuspensionSteps
<1>3. TypeOK /\ WaitInv => SuspensionBounded
  <2> SUFFICES ASSUME TypeOK, WaitInv, NEW ch \in Ch
               PROVE  \E t \in CheckTimes : waited[ch] <= N * t
    BY DEF SuspensionBounded
  <2>1. PICK t \in CheckTimes : BoundedBy(t)
    BY DEF WaitInv
  <2>2. t \in Nat /\ N \in Nat /\ chResumeCountdown \in Nat
    BY CheckTimesAreNat, ChannelsAssumption DEF TypeOK
  <2> DEFINE k == Cardinality(chSuspended)
  <2>3. k \in Nat /\ k <= N
    BY ChannelCount DEF TypeOK
  <2>4. k * t \in Nat /\ N * t \in Nat /\ k * t <= N * t
    BY <2>2, <2>3, ProductGrows
  <2>5. waited[ch] \in Nat /\ waited[ch] <= k * t
    <3>1. CASE ch \in chSuspended
      BY <2>1, <2>2, <2>4, <3>1 DEF WaitInv, BoundedBy
    <3>2. CASE ch \notin chSuspended
      BY <2>4, <3>2 DEF WaitInv
    <3> QED
      BY <3>1, <3>2
  <2> QED
    BY <2>1, <2>4, <2>5
<1> QED
  BY <1>1, <1>2, <1>3, ClockedTypes, PTL DEF ClockSpec
=============================================================================
