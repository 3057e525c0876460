--------------------------- MODULE ChannelMonitor ---------------------------
(***************************************************************************)
(* The fault detector of the Remote Fault Notifier (src/ade/control.c).    *)
(*                                                                         *)
(* One thread, the main loop, samples one lamp channel per iteration and   *)
(* either calibrates it or checks it for a loss of load.  Between two      *)
(* samples the same thread runs the one-second task (cmd_task), the button *)
(* task and the commands received by console or SMS, all of which write    *)
(* the same masks and counters.  Every handler is one action: nothing but  *)
(* interrupt handlers runs concurrently with it, and they touch none of    *)
(* these variables.  A 16 bit mask is the set of its channels.             *)
(***************************************************************************)
EXTENDS Integers

CONSTANTS
  N,            \* number of channels (MAX_CHANNELS, 16 on the board)
  ByteSize,     \* number of values of a uint8_t (256 on the board)
  Params,       \* the parameter records the ip command can store
  MinSamples,   \* a lower bound on faultSamples over Params
  MinChecks,    \* a lower bound on faultChecks over Params
  Loads,        \* the readings of the meter, in units of power
  ActiveMasks,  \* the powered-on masks the port expander can report
  CmdMasks      \* the non-empty masks aa, ra, ac and rc can name

Ch   == 0 .. N - 1
Byte == 0 .. ByteSize - 1

ASSUME ChannelsAssumption == N \in Nat \ {0} /\ ByteSize \in Nat \ {0, 1}
ASSUME ParamsAssumption ==
  /\ MinSamples \in Byte \ {0} /\ MinChecks \in Byte \ {0}
  /\ Params # {}
  /\ \A p \in Params :
       /\ p.samples \in Byte /\ p.samples >= MinSamples
       /\ p.checks \in Byte /\ p.checks >= MinChecks
       /\ p.checkTime \in Nat
       /\ p.level \in Nat
       /\ p.cdiv \in Nat \ {0} /\ p.ddiv \in Nat \ {0}
ASSUME InputsAssumption ==
  /\ Loads \subseteq Nat
  /\ ActiveMasks \subseteq SUBSET Ch
  /\ CmdMasks \subseteq SUBSET Ch

VARIABLES
  \* EEPROM and its RAM mirror: they survive a reset
  chEnabled, chCritical, prm,
  \* the masks of control.c
  chLossy, chSpoiled, chFaulted, chSuspended, chCalib,
  \* controlFlags: CF_MONITORING and CF_FAULTED; the relay (and fault LED) pin
  monitoring, cfFaulted, relay,
  \* chData[]: calibrated power, calibration samples still due, fault counters
  Pmax, calSamples, lossyChecks, lossySamples,
  \* the selected channel, the analog mux, the channel the meter was reset for
  curCh, amux, meterCh,
  \* seconds left before the suspended channels are resumed
  chResumeCountdown,
  \* the environment: the mask getActiveChannels returns, the load of each input
  acm, load,
  \* history: consecutive losses since the last good sample or recalibration,
  \* consecutive quiet samples since the last noisy one or recalibration
  lossRun, quietRun

stored   == <<chEnabled, chCritical, prm>>
flags    == <<monitoring, cfFaulted, relay>>
data     == <<Pmax, calSamples, lossyChecks, lossySamples>>
position == <<curCh, amux, meterCh>>
env      == <<acm, load>>
history  == <<lossRun, quietRun>>
vars == <<stored, chLossy, chSpoiled, chFaulted, chSuspended, chCalib, flags,
          data, position, chResumeCountdown, env, history>>

TypeOK ==
  /\ chEnabled \subseteq Ch /\ chCritical \subseteq Ch /\ prm \in Params
  /\ chLossy \subseteq Ch /\ chSpoiled \subseteq Ch /\ chFaulted \subseteq Ch
  /\ chSuspended \subseteq Ch /\ chCalib \subseteq chEnabled
  /\ monitoring \in BOOLEAN /\ cfFaulted \in BOOLEAN /\ relay \in BOOLEAN
  /\ Pmax \in [Ch -> Nat]
  /\ calSamples \in [Ch -> Byte]
  /\ lossyChecks \in [Ch -> Byte]
  /\ lossySamples \in [Ch -> Byte]
  /\ curCh \in Ch /\ amux \in Ch /\ meterCh \in Ch
  /\ chResumeCountdown \in Nat
  /\ acm \subseteq Ch /\ load \in [Ch -> Loads]
  /\ lossRun \in [Ch -> Nat] /\ quietRun \in [Ch -> Nat]

-----------------------------------------------------------------------------
(***************************************************************************)
(* Boot: controlSetup after the zeroed data section and LED_INIT.          *)
(***************************************************************************)
Zeroes == [c \in Ch |-> 0]

Init ==
  /\ chEnabled \in SUBSET Ch /\ chCritical \in SUBSET Ch /\ prm \in Params
  /\ chLossy = {} /\ chSpoiled = {} /\ chFaulted = {} /\ chSuspended = {}
  /\ chCalib = chEnabled
  /\ monitoring = TRUE /\ cfFaulted = FALSE /\ relay = FALSE
  /\ Pmax = Zeroes /\ lossyChecks = Zeroes /\ lossySamples = Zeroes
  /\ calSamples = [c \in Ch |-> IF c \in chEnabled THEN prm.samples ELSE 0]
  /\ curCh = N - 1 /\ amux = N - 1 /\ meterCh = N - 1
  /\ chResumeCountdown = 0
  /\ acm \in ActiveMasks /\ load \in [Ch -> Loads]
  /\ lossRun = Zeroes /\ quietRun = Zeroes

\* The rst command, the long press of the button, the watchdog, a power loss
Reboot ==
  /\ chLossy' = {} /\ chSpoiled' = {} /\ chFaulted' = {} /\ chSuspended' = {}
  /\ chCalib' = chEnabled
  /\ monitoring' = TRUE /\ cfFaulted' = FALSE /\ relay' = FALSE
  /\ Pmax' = Zeroes /\ lossyChecks' = Zeroes /\ lossySamples' = Zeroes
  /\ calSamples' = [c \in Ch |-> IF c \in chEnabled THEN prm.samples ELSE 0]
  /\ curCh' = N - 1 /\ amux' = N - 1 /\ meterCh' = N - 1
  /\ chResumeCountdown' = 0
  /\ lossRun' = Zeroes /\ quietRun' = Zeroes
  /\ UNCHANGED <<stored, env>>

-----------------------------------------------------------------------------
(***************************************************************************)
(* Helpers shared by the handlers.                                         *)
(***************************************************************************)
Inc(x) == (x + 1) % ByteSize
Dec(x) == (x + ByteSize - 1) % ByteSize

\* f with the value v at every channel of S
Reset(f, S, v) == [c \in Ch |-> IF c \in S THEN v ELSE f[c]]

\* MUTANT: a recalibrated channel keeps its lossy mark
MutRecalibrateKeepsLossy(S) ==
  /\ Pmax' = Reset(Pmax, S, 0)
  /\ chLossy' = chLossy
  /\ lossyChecks' = Reset(lossyChecks, S, 0)
  /\ lossySamples' = Reset(lossySamples, S, 0)
  /\ calSamples' = Reset(calSamples, S, prm.samples)
  /\ lossRun' = Reset(lossRun, S, 0)
  /\ quietRun' = Reset(quietRun, S, 0)

\* chRecalibrate for the channels of S, all of them enabled
chRecalibrate(S) ==
  /\ Pmax' = Reset(Pmax, S, 0)
  /\ chLossy' = chLossy \ S
  /\ lossyChecks' = Reset(lossyChecks, S, 0)
  /\ lossySamples' = Reset(lossySamples, S, 0)
  /\ calSamples' = Reset(calSamples, S, prm.samples)
  /\ lossRun' = Reset(lossRun, S, 0)
  /\ quietRun' = Reset(quietRun, S, 0)

controlNotifyFaulted == relay' = TRUE /\ cfFaulted' = TRUE

\* MUTANT: the fault flag survives the recalibration
MutCalibrationKeepsFlag ==
  /\ cfFaulted' = cfFaulted
  /\ chSpoiled' = {} /\ chFaulted' = {} /\ chSuspended' = {}
  /\ chRecalibrate(chEnabled)
  /\ chCalib' = chCalib \cup chEnabled

\* Everything controlCalibration does but the relay, which it does not touch
controlCalibration ==
  /\ cfFaulted' = FALSE
  /\ chSpoiled' = {} /\ chFaulted' = {} /\ chSuspended' = {}
  /\ chRecalibrate(chEnabled)
  /\ chCalib' = chCalib \cup chEnabled

\* chSetSuspendCountdown: only the first suspension starts the countdown
SuspendCountdown == IF chResumeCountdown # 0 THEN chResumeCountdown
                                             ELSE prm.checkTime

\* MUTANT: the scan tests a channel before it moves to the next one
MutScanFromCurrent(c) == IF c >= curCh THEN c - curCh ELSE c - curCh + N

\* How far the selection scan goes from curCh before it reaches c
ScanSteps(c) == IF c > curCh THEN c - curCh ELSE c - curCh + N

-----------------------------------------------------------------------------
(***************************************************************************)
(* sampleChannel: which channel the next sample is taken from.             *)
(***************************************************************************)
\* MUTANT: suspended channels are sampled too
MutSuspendedActive == acm \cap chEnabled

Active == (acm \cap chEnabled) \ chSuspended

LossyFocus == Active \cap chLossy
CalibFocus == Active \cap chCalib

\* Active lossy channels first, then active uncalibrated ones, then any active
Candidates == IF LossyFocus # {} THEN LossyFocus
              ELSE IF CalibFocus # {} THEN CalibFocus
              ELSE Active

\* goto sample: a focused scan does not leave a channel that is in the focus
StaysOnChannel == LossyFocus \cup CalibFocus # {} /\ curCh \in Candidates

Selects(ch) ==
  /\ ch \in Candidates
  /\ IF StaysOnChannel THEN ch = curCh
     ELSE \A c \in Candidates : ScanSteps(ch) <= ScanSteps(c)

\* MUTANT: a calibration focus never switches the mux
MutMuxLeftInCalibration(ch) ==
  IF StaysOnChannel \/ (LossyFocus = {} /\ CalibFocus # {}) THEN amux ELSE ch

switchAnalogMux(ch) == IF StaysOnChannel THEN amux ELSE ch

\* The meter is reset whenever it reads another channel than the last time
sampleChannel(ch) ==
  /\ Selects(ch)
  /\ curCh' = ch
  /\ amux' = switchAnalogMux(ch)
  /\ meterCh' = ch

\* Prms: the meter measures the input the mux selects, whatever curCh says
Prms == load[amux']

-----------------------------------------------------------------------------
(***************************************************************************)
(* calibrate, on a sample of an uncalibrated channel.                      *)
(***************************************************************************)
CalibrationTolerance == prm.level \div prm.cdiv
Variation(ch) == IF Pmax[ch] >= Prms THEN Pmax[ch] - Prms ELSE Prms - Pmax[ch]
HalfWay(ch) == IF Pmax[ch] >= Prms THEN Pmax[ch] - (Variation(ch) \div 2)
                                   ELSE Pmax[ch] + (Variation(ch) \div 2)
\* MUTANT: a variation equal to the tolerance counts as noise
MutNoisyAtTolerance(ch) == Variation(ch) >= CalibrationTolerance

Noisy(ch) == Variation(ch) > CalibrationTolerance

CalibrationEnds(ch) ==
  /\ sampleChannel(ch) /\ ch \in chCalib /\ calSamples[ch] = 0
  /\ chCalib' = chCalib \ {ch}
  /\ UNCHANGED <<stored, chLossy, chSpoiled, chFaulted, chSuspended, flags,
                 data, chResumeCountdown, env, history>>

\* MUTANT: a noisy sample does not start the series again
MutNoRearm(ch) == Dec(calSamples[ch])

\* A noisy sample starts the series of quiet samples again
CalibrationSamples(ch) ==
  IF Noisy(ch) THEN prm.samples ELSE Dec(calSamples[ch])

CalibrationSample(ch) ==
  /\ sampleChannel(ch) /\ ch \in chCalib /\ calSamples[ch] # 0
  /\ Pmax' = [Pmax EXCEPT ![ch] = HalfWay(ch)]
  /\ calSamples' = [calSamples EXCEPT ![ch] = CalibrationSamples(ch)]
  /\ quietRun' = [quietRun EXCEPT ![ch] = IF Noisy(ch) THEN 0 ELSE @ + 1]
  /\ UNCHANGED <<stored, chLossy, chSpoiled, chFaulted, chSuspended, chCalib,
                 flags, lossyChecks, lossySamples, chResumeCountdown, env,
                 lossRun>>

-----------------------------------------------------------------------------
(***************************************************************************)
(* monitor, on a sample of a calibrated channel.                           *)
(***************************************************************************)
DetectionLevel == prm.level \div prm.ddiv
LoadLost(ch) == Prms < Pmax[ch] /\ Pmax[ch] - Prms >= DetectionLevel

MonitorSample(ch) == sampleChannel(ch) /\ ch \notin chCalib /\ monitoring

\* Monitoring disabled by dm: the sample is read and thrown away
SampleUnmonitored(ch) ==
  /\ sampleChannel(ch) /\ ch \notin chCalib /\ ~monitoring
  /\ UNCHANGED <<stored, chLossy, chSpoiled, chFaulted, chSuspended, chCalib,
                 flags, data, chResumeCountdown, env, history>>

\* MUTANT: a good sample does not restart the count of checks
MutGoodKeepsChecks(ch) == lossyChecks

\* What a good sample leaves of the fault counters of its channel
ClearChecks(ch) == [lossyChecks EXCEPT ![ch] = 0]

GoodSample(ch) ==
  /\ MonitorSample(ch) /\ ~LoadLost(ch)
  /\ chLossy' = chLossy \ {ch}
  /\ lossyChecks' = ClearChecks(ch)
  /\ lossySamples' = [lossySamples EXCEPT ![ch] = 0]
  /\ lossRun' = [lossRun EXCEPT ![ch] = 0]
  /\ UNCHANGED <<stored, chSpoiled, chFaulted, chSuspended, chCalib, flags,
                 Pmax, calSamples, chResumeCountdown, env, quietRun>>

\* MUTANT: one sample too many before a check is complete
MutCheckLate(ch) == Inc(lossySamples[ch]) > prm.samples

\* MUTANT: a count that is past a lowered limit does not complete the check
MutCheckAtLimit(ch) == Inc(lossySamples[ch]) = prm.samples

\* chLoadLoss and chCheckFault: the sample that completes a check, the check
\* that completes the evidence of a fault
CheckCompleted(ch)   == Inc(lossySamples[ch]) >= prm.samples
ChecksExhausted(ch)  == Inc(lossyChecks[ch]) >= prm.checks

LossSample(ch) ==
  /\ MonitorSample(ch) /\ LoadLost(ch) /\ ~CheckCompleted(ch)
  /\ chLossy' = chLossy \cup {ch}
  /\ lossySamples' = [lossySamples EXCEPT ![ch] = Inc(@)]
  /\ lossRun' = [lossRun EXCEPT ![ch] = @ + 1]
  /\ UNCHANGED <<stored, chSpoiled, chFaulted, chSuspended, chCalib, flags,
                 Pmax, calSamples, lossyChecks, chResumeCountdown, env,
                 quietRun>>

\* chSetSpoiled: the channel is suspended until its next check
SuspendChannel(ch) ==
  /\ MonitorSample(ch) /\ LoadLost(ch)
  /\ CheckCompleted(ch) /\ ~ChecksExhausted(ch)
  /\ chLossy' = chLossy \cup {ch}
  /\ lossyChecks' = [lossyChecks EXCEPT ![ch] = Inc(@)]
  /\ lossySamples' = [lossySamples EXCEPT ![ch] = 0]
  /\ chSuspended' = chSuspended \cup {ch}
  /\ chResumeCountdown' = SuspendCountdown
  /\ chSpoiled' = chSpoiled \cup {ch}
  /\ lossRun' = [lossRun EXCEPT ![ch] = @ + 1]
  /\ UNCHANGED <<stored, chFaulted, chCalib, flags, Pmax, calSamples, env,
                 quietRun>>

\* The fault is recorded, shown on the relay if the channel is critical, and
\* notified (by SMS, outside this module); the channel is calibrated again
DeclareFault(ch) ==
  /\ MonitorSample(ch) /\ LoadLost(ch)
  /\ CheckCompleted(ch) /\ ChecksExhausted(ch)
  /\ chFaulted' = chFaulted \cup {ch}
  /\ IF ch \in chCritical THEN controlNotifyFaulted
                          ELSE UNCHANGED <<relay, cfFaulted>>
  /\ chRecalibrate({ch})
  /\ chCalib' = chCalib \cup {ch}
  /\ UNCHANGED <<stored, chSpoiled, chSuspended, monitoring,
                 chResumeCountdown, env>>

-----------------------------------------------------------------------------
(***************************************************************************)
(* The one-second task and the button task.                                *)
(***************************************************************************)
\* MUTANT: the countdown is decremented below zero
MutResumeTickUnguarded == chResumeCountdown - 1

\* MUTANT: the running countdown is not decremented
MutResumeTickStuck == chResumeCountdown

ResumeTick == IF chResumeCountdown = 0 THEN 0 ELSE chResumeCountdown - 1

\* cmd_task on a tick that is not the one of the periodic recalibration; the
\* commands console_run executes at its start are the actions below
CmdTask ==
  /\ chSuspended' = IF chResumeCountdown = 0 THEN {} ELSE chSuspended
  /\ chResumeCountdown' = ResumeTick
  /\ UNCHANGED <<stored, chLossy, chSpoiled, chFaulted, chCalib, flags, data,
                 position, env, history>>

\* cmd_task when the weeks-long recalibrationCountdown, not modelled, expires
CmdTaskRecalibrates ==
  /\ chResumeCountdown' = ResumeTick
  /\ controlCalibration
  /\ UNCHANGED <<stored, monitoring, relay, position, env>>

\* btn_task when the button is released before the reset time
BtnTask ==
  /\ relay' = FALSE
  /\ controlCalibration
  /\ UNCHANGED <<stored, monitoring, position, chResumeCountdown, env>>

-----------------------------------------------------------------------------
(***************************************************************************)
(* The commands that write this state.                                     *)
(***************************************************************************)
controlSetEnabled(mask) ==
  LET chNew == mask \ chEnabled IN
  /\ chEnabled' = mask
  /\ chRecalibrate(chNew)
  /\ chCalib' = (chCalib \cap mask) \cup chNew
  /\ UNCHANGED <<chCritical, prm, chSpoiled, chFaulted, chSuspended, flags,
                 position, chResumeCountdown, env>>

\* aa and ra: the EEPROM mask, equal to chEnabled, changes with it
AddEnabled(mask)    == controlSetEnabled(chEnabled \cup mask)
RemoveEnabled(mask) == controlSetEnabled(chEnabled \ mask)

controlSetCritical(mask) ==
  /\ chCritical' = mask
  /\ UNCHANGED <<chEnabled, prm, chLossy, chSpoiled, chFaulted, chSuspended,
                 chCalib, flags, data, position, chResumeCountdown, env,
                 history>>

\* ac and rc
AddCritical(mask)    == controlSetCritical(chCritical \cup mask)
RemoveCritical(mask) == controlSetCritical(chCritical \ mask)

\* fc
ForceCalibration ==
  /\ controlCalibration
  /\ UNCHANGED <<stored, monitoring, relay, position, chResumeCountdown, env>>

\* am and dm
SetMonitoring(on) ==
  /\ monitoring' = on
  /\ UNCHANGED <<stored, chLossy, chSpoiled, chFaulted, chSuspended, chCalib,
                 cfFaulted, relay, data, position, chResumeCountdown, env,
                 history>>

\* fl
ForceFaultSignal ==
  /\ controlNotifyFaulted
  /\ UNCHANGED <<stored, chLossy, chSpoiled, chFaulted, chSuspended, chCalib,
                 monitoring, data, position, chResumeCountdown, env, history>>

\* ip
SetParams(p) ==
  /\ prm' = p
  /\ UNCHANGED <<chEnabled, chCritical, chLossy, chSpoiled, chFaulted,
                 chSuspended, chCalib, flags, data, position,
                 chResumeCountdown, env, history>>

-----------------------------------------------------------------------------
(***************************************************************************)
(* The environment: lamps are switched, break or are repaired.             *)
(***************************************************************************)
getActiveChannels(mask) ==
  /\ acm' = mask
  /\ UNCHANGED <<stored, chLossy, chSpoiled, chFaulted, chSuspended, chCalib,
                 flags, data, position, chResumeCountdown, load, history>>

LoadChanges(ch, p) ==
  /\ load' = [load EXCEPT ![ch] = p]
  /\ UNCHANGED <<stored, chLossy, chSpoiled, chFaulted, chSuspended, chCalib,
                 flags, data, position, chResumeCountdown, acm, history>>

-----------------------------------------------------------------------------
Sample(ch) ==
  \/ CalibrationEnds(ch)
  \/ CalibrationSample(ch)
  \/ SampleUnmonitored(ch)
  \/ GoodSample(ch)
  \/ LossSample(ch)
  \/ SuspendChannel(ch)
  \/ DeclareFault(ch)

\* One iteration of controlLoop that finds an active channel
ControlLoop == \E ch \in Ch : Sample(ch)

\* What somebody at the console, the button or a phone may do, and a reset
Operator ==
  \/ \E mask \in CmdMasks :
       \/ AddEnabled(mask)
       \/ RemoveEnabled(mask)
       \/ AddCritical(mask)
       \/ RemoveCritical(mask)
  \/ ForceCalibration
  \/ \E on \in BOOLEAN : SetMonitoring(on)
  \/ ForceFaultSignal
  \/ \E p \in Params : SetParams(p)
  \/ BtnTask
  \/ Reboot

Environment ==
  \/ \E mask \in ActiveMasks : getActiveChannels(mask)
  \/ \E ch \in Ch, p \in Loads : LoadChanges(ch, p)

Next ==
  \/ ControlLoop
  \/ CmdTask
  \/ CmdTaskRecalibrates
  \/ Operator
  \/ Environment

Spec == Init /\ [][Next]_vars

-----------------------------------------------------------------------------
(***************************************************************************)
(* Safety.                                                                 *)
(***************************************************************************)

\* The mux is on the selected channel and the meter was reset for it, on every
\* path of sampleChannel: a reading is never charged to another channel.
MuxFollowsSelection == amux = curCh /\ meterCh = curCh

\* The uint8_t fault counters are never where their next increment wraps, for
\* every parameter ip can store and whenever it stores it: a wrapped counter
\* would throw the evidence of a fault away.
CountersNeverWrap ==
  \A ch \in Ch : /\ lossySamples[ch] < ByteSize - 1
                 /\ lossyChecks[ch] < ByteSize - 1

\* An enabled channel the scan does not focus on as lossy carries no partial
\* evidence, and no channel is at once lossy and in calibration, across
\* recalibrations, faults, and channels disabled in doubt and enabled again.
EvidenceOnlyWhenLossy ==
  \A ch \in chEnabled :
    /\ ch \notin chLossy => /\ lossyChecks[ch] = 0
                            /\ lossySamples[ch] = 0
                            /\ lossRun[ch] = 0
    /\ ch \in chLossy => ch \notin chCalib

\* The counters of a channel never claim more losses than were measured in a
\* row since its last good sample or recalibration.
EvidenceIsReal ==
  \A ch \in chEnabled :
    lossRun[ch] >= lossyChecks[ch] * MinSamples + lossySamples[ch]

\* A channel is declared faulted only on faultChecks checks of faultSamples
\* losses each, with not one good sample of it in between.
FaultBackedByLosses ==
  [][\A ch \in Ch :
       DeclareFault(ch) => lossRun[ch] + 1 >= MinSamples * MinChecks]_vars

\* No channel loses its load any longer without a fault being declared: the
\* losses in a row never reach the faultSamples of one parameter set times the
\* faultChecks of another, although ip moves both limits under running counts,
\* past them as well, and suspensions, dm and other channels come between.
LossesMakeFault ==
  \A ch \in Ch : \E p, q \in Params : lossRun[ch] < p.samples * q.checks

\* A channel is compared with its calibrated load only after faultSamples
\* consecutive quiet samples since it was enabled, recalibrated or noisy.
MonitoredAfterQuietSeries ==
  \A ch \in chEnabled \ chCalib : quietRun[ch] >= MinSamples

\* The status report says LAMP (CF_FAULTED) only while the relay is switched:
\* the button clears both, calibrations only the flag.
FaultFlagOnRelay == cfFaulted => relay

\* What FaultDetector says of the masks and counters
Phase == [c \in Ch |-> IF c \notin chEnabled THEN "off"
                      ELSE IF c \in chCalib THEN "calibrating"
                      ELSE IF c \in chLossy THEN "doubtful"
                      ELSE "monitored"]
Losses == [c \in Ch |-> IF c \in chEnabled THEN lossRun[c] ELSE 0]

Detector == INSTANCE FaultDetector
  WITH Channels <- Ch, Needed <- MinSamples * MinChecks,
       phase <- Phase, losses <- Losses, resting <- chSuspended, faulted <- chFaulted

\* Under all its handlers each channel keeps to the life FaultDetector gives
\* it: no sample of a channel changes another one, no fault is declared of a
\* channel that is off, in calibration or suspended, and whoever is enabled
\* again, at any moment of a doubt or a suspension, is calibrated first.
ImplementsDetector == Detector!ChannelSpec

-----------------------------------------------------------------------------
(***************************************************************************)
(* Liveness, with the operator away (UndisturbedSpec).                     *)
(***************************************************************************)
UndisturbedSpec ==
  /\ Init
  /\ [][ControlLoop \/ CmdTask \/ CmdTaskRecalibrates \/ Environment]_vars
  /\ WF_vars(ControlLoop) /\ WF_vars(CmdTask)

EnvironmentSettles == <>[][UNCHANGED env]_vars

Lost(ch) ==
  /\ ch \in (acm \cap chEnabled) \ chCalib
  /\ load[ch] < Pmax[ch] /\ Pmax[ch] - load[ch] >= DetectionLevel

\* Once lamps stop changing, no loss of a calibrated powered channel stays
\* undetected: it is declared faulted (and calibrated again), whatever the
\* scan does with other lossy or uncalibrated channels.
NoLossUndetected ==
  EnvironmentSettles => \A ch \in Ch : []<>~Lost(ch)

\* Once lamps stop changing and no recalibration is forced, every enabled
\* powered channel leaves calibration, although lossy channels go first.
CalibrationCompletes ==
  (EnvironmentSettles /\ <>[][~CmdTaskRecalibrates]_vars) =>
     \A ch \in Ch : []<>(ch \notin chCalib \cap acm)
=============================================================================
