------------------------ MODULE FaultDetectorProofs -------------------------
(***************************************************************************)
(* ChannelMonitor implements FaultDetector, for every value of its         *)
(* constants: each action of the firmware's handlers is a step in the life *)
(* of one channel, of all of them, or none.                                *)
(***************************************************************************)
EXTENDS ChannelMonitorProofs

\* What the step lemmas assume of a state.
Sound == TypeOK /\ CountersNeverWrap /\ EvidenceIsReal /\ EvidenceOnlyWhenLossy

DetectorStep == [Detector!ChannelNext]_(Detector!channelVars)

\* What the abstract state is made of.
lifecycle == <<chEnabled, chCalib, chLossy, lossRun, chSuspended, chFaulted>>

\* A step that leaves masks and losses alone is none of the life cycle.
LEMMA Stutter ==
  ASSUME UNCHANGED lifecycle
  PROVE  DetectorStep
BY DEF lifecycle, DetectorStep, Detector!channelVars, Phase, Losses

\* The abstract state of one channel.
LEMMA Views ==
  ASSUME NEW c \in Ch
  PROVE  /\ Phase[c] = IF c \notin chEnabled THEN "off"
                       ELSE IF c \in chCalib THEN "calibrating"
                       ELSE IF c \in chLossy THEN "doubtful" ELSE "monitored"
         /\ Losses[c] = IF c \in chEnabled THEN lossRun[c] ELSE 0
         /\ c \in Detector!On <=> c \in chEnabled
BY DEF Phase, Losses, Detector!On

\* The channel that is sampled is enabled and not suspended.
LEMMA SampledIsAwake ==
  ASSUME TypeOK, NEW ch \in Ch, sampleChannel(ch)
  PROVE  ch \in chEnabled /\ ch \notin chSuspended
BY DEF sampleChannel, Selects, Candidates, LossyFocus, CalibFocus, Active

\* A sample of a calibrated channel is one the abstract detector compares.
LEMMA SampledIsCompared ==
  ASSUME TypeOK, NEW ch \in Ch, MonitorSample(ch)
  PROVE  Detector!Compared(ch) /\ ch \in chEnabled /\ ch \notin chCalib
BY SampledIsAwake, Views DEF MonitorSample, Detector!Compared

\* The end of a calibration starts the monitoring of one channel.
LEMMA CalibrationEndsStep ==
  ASSUME Sound, NEW ch \in Ch, CalibrationEnds(ch)
  PROVE  Detector!Calibrated(ch)
<1>1. ch \in chEnabled /\ ch \notin chSuspended /\ ch \in chCalib /\ ch \notin chLossy
  BY SampledIsAwake DEF CalibrationEnds, Sound, EvidenceOnlyWhenLossy
<1>2. /\ chEnabled' = chEnabled /\ chCalib' = chCalib \ {ch} /\ chLossy' = chLossy
      /\ UNCHANGED <<lossRun, chSuspended, chFaulted>>
  BY DEF CalibrationEnds, stored, history
<1>3. Phase' = [Phase EXCEPT ![ch] = "monitored"]
  BY <1>1, <1>2 DEF Phase
<1> QED BY <1>1, <1>2, <1>3, Views DEF Detector!Calibrated, Losses

\* A good sample ends the doubt about one channel.
LEMMA GoodStep ==
  ASSUME Sound, NEW ch \in Ch, GoodSample(ch)
  PROVE  Detector!Good(ch)
<1>1. Detector!Compared(ch) /\ ch \in chEnabled /\ ch \notin chCalib
  BY SampledIsCompared DEF GoodSample, Sound
<1>2. /\ UNCHANGED <<chEnabled, chCalib, chSuspended, chFaulted>>
      /\ chLossy' = chLossy \ {ch} /\ lossRun' = [lossRun EXCEPT ![ch] = 0]
  BY DEF GoodSample, stored
<1>3. Phase' = [Phase EXCEPT ![ch] = "monitored"]
  BY <1>1, <1>2 DEF Phase
<1>4. Losses' = [Losses EXCEPT ![ch] = 0]
  BY <1>1, <1>2 DEF Losses, Sound, TypeOK
<1> QED BY <1>1, <1>2, <1>3, <1>4 DEF Detector!Good

\* A loss brings one channel in doubt, and to rest when it completes a check.
LEMMA LossStep ==
  ASSUME Sound, NEW ch \in Ch, LossSample(ch) \/ SuspendChannel(ch)
  PROVE  Detector!Loss(ch)
<1>1. Detector!Compared(ch) /\ ch \in chEnabled /\ ch \notin chCalib
  BY SampledIsCompared DEF LossSample, SuspendChannel, Sound
<1>2. /\ UNCHANGED <<chEnabled, chCalib, chFaulted>>
      /\ chLossy' = chLossy \cup {ch} /\ lossRun' = [lossRun EXCEPT ![ch] = @ + 1]
      /\ chSuspended' \in {chSuspended, chSuspended \cup {ch}}
  BY DEF LossSample, SuspendChannel, stored
<1>3. Phase' = [Phase EXCEPT ![ch] = "doubtful"]
  BY <1>1, <1>2 DEF Phase
<1>4. Losses' = [Losses EXCEPT ![ch] = @ + 1]
  BY <1>1, <1>2 DEF Losses, Sound, TypeOK
<1> QED BY <1>1, <1>2, <1>3, <1>4 DEF Detector!Loss

\* A fault is declared on the losses it needs and calibrates one channel.
LEMMA FaultStep ==
  ASSUME Sound, NEW ch \in Ch, DeclareFault(ch)
  PROVE  Detector!Fault(ch)
<1>1. Detector!Compared(ch) /\ ch \in chEnabled /\ ch \notin chCalib
  BY SampledIsCompared DEF DeclareFault, Sound
<1>2. lossRun[ch] + 1 >= MinSamples * MinChecks
  BY FaultEvidence DEF Sound
<1>3. /\ UNCHANGED <<chEnabled, chSuspended>> /\ chFaulted' = chFaulted \cup {ch}
      /\ chCalib' = chCalib \cup {ch} /\ chLossy' = chLossy \ {ch}
      /\ lossRun' = Reset(lossRun, {ch}, 0)
  BY DEF DeclareFault, chRecalibrate, stored
<1>4. Phase' = [Phase EXCEPT ![ch] = "calibrating"]
  BY <1>1, <1>3 DEF Phase
<1>5. Losses' = [Losses EXCEPT ![ch] = 0]
  BY <1>1, <1>3 DEF Losses, Reset
<1> QED BY <1>1, <1>2, <1>3, <1>4, <1>5, Views DEF Detector!Fault

\* A calibration of all channels: by command, button, task or reset.
LEMMA CalibrateAllStep ==
  ASSUME TypeOK, chEnabled' = chEnabled, chCalib' = chEnabled,
         chSuspended' = {}, chFaulted' = {}, \A c \in chEnabled : lossRun'[c] = 0
  PROVE  Detector!CalibrateAll
<1>1. Phase' = [c \in Ch |-> IF c \in Detector!On THEN "calibrating" ELSE "off"]
  BY Views DEF Phase
<1>2. Losses' = [c \in Ch |-> 0]
  BY DEF Losses
<1> QED BY <1>1, <1>2 DEF Detector!CalibrateAll

\* controlCalibration calibrates all the channels that are on.
LEMMA ControlCalibrationStep ==
  ASSUME TypeOK, controlCalibration, UNCHANGED stored
  PROVE  Detector!CalibrateAll
<1>1. /\ chEnabled' = chEnabled /\ chCalib' = chEnabled
      /\ chSuspended' = {} /\ chFaulted' = {}
  BY DEF controlCalibration, stored, TypeOK
<1>2. \A c \in chEnabled : lossRun'[c] = 0
  BY DEF controlCalibration, chRecalibrate, Reset, TypeOK
<1> QED BY <1>1, <1>2, CalibrateAllStep

\* controlSetEnabled switches channels on and off.
LEMMA SetEnabledStep ==
  ASSUME TypeOK, NEW mask \in SUBSET Ch, controlSetEnabled(mask)
  PROVE  Detector!Switch(mask)
<1>1. /\ chEnabled' = mask /\ UNCHANGED <<chSuspended, chFaulted>>
      /\ chCalib' = (chCalib \cap mask) \cup (mask \ chEnabled)
      /\ chLossy' = chLossy \ (mask \ chEnabled)
      /\ lossRun' = Reset(lossRun, mask \ chEnabled, 0)
  BY DEF controlSetEnabled, chRecalibrate
<1>2. Phase' = [c \in Ch |-> IF c \notin mask THEN "off"
                             ELSE IF c \notin Detector!On THEN "calibrating"
                             ELSE Phase[c]]
  <2> SUFFICES ASSUME NEW c \in Ch
               PROVE  Phase'[c] = IF c \notin mask THEN "off"
                                  ELSE IF c \notin Detector!On THEN "calibrating"
                                  ELSE Phase[c]
    BY DEF Phase
  <2> QED BY <1>1, Views DEF Phase
<1>3. Losses' = [c \in Ch |-> IF c \in mask \cap Detector!On THEN Losses[c] ELSE 0]
  <2> SUFFICES ASSUME NEW c \in Ch
               PROVE  Losses'[c] = IF c \in mask \cap Detector!On THEN Losses[c] ELSE 0
    BY DEF Losses
  <2> QED BY <1>1, Views DEF Losses, Reset
<1> QED BY <1>1, <1>2, <1>3 DEF Detector!Switch

\* Every step of the firmware is a step of the abstract detector or a stutter.
LEMMA NextStep == Sound /\ [Next]_vars => DetectorStep
<1> SUFFICES ASSUME Sound, [Next]_vars PROVE DetectorStep
  OBVIOUS
<1>0. TypeOK
  BY DEF Sound
<1>1. ASSUME NEW ch \in Ch, Sample(ch) PROVE DetectorStep
  <2>1. CASE CalibrationEnds(ch)
    BY <2>1, CalibrationEndsStep DEF DetectorStep, Detector!ChannelNext
  <2>2. CASE CalibrationSample(ch) \/ SampleUnmonitored(ch)
    BY <2>2, Stutter DEF CalibrationSample, SampleUnmonitored, lifecycle, stored, history
  <2>3. CASE GoodSample(ch)
    BY <2>3, GoodStep DEF DetectorStep, Detector!ChannelNext
  <2>4. CASE LossSample(ch) \/ SuspendChannel(ch)
    BY <2>4, LossStep DEF DetectorStep, Detector!ChannelNext
  <2>5. CASE DeclareFault(ch)
    BY <2>5, FaultStep DEF DetectorStep, Detector!ChannelNext
  <2> QED BY <1>1, <2>1, <2>2, <2>3, <2>4, <2>5 DEF Sample
<1>2. CASE CmdTask
  <2>1. UNCHANGED <<chEnabled, chCalib, chLossy, lossRun, chFaulted>>
    BY <1>2 DEF CmdTask, stored, history
  <2>2. CASE chSuspended' = {}
    BY <2>1, <2>2 DEF DetectorStep, Detector!ChannelNext, Detector!Resume, Phase, Losses
  <2>3. CASE chSuspended' = chSuspended
    BY <2>1, <2>3, Stutter DEF lifecycle
  <2> QED BY <1>2, <2>2, <2>3 DEF CmdTask
<1>3. CASE CmdTaskRecalibrates \/ ForceCalibration \/ BtnTask
  BY <1>0, <1>3, ControlCalibrationStep
  DEF CmdTaskRecalibrates, ForceCalibration, BtnTask, DetectorStep, Detector!ChannelNext
<1>4. ASSUME NEW mask \in SUBSET Ch, controlSetEnabled(mask) PROVE DetectorStep
  BY <1>0, <1>4, SetEnabledStep DEF DetectorStep, Detector!ChannelNext
<1>5. ASSUME NEW mask, controlSetCritical(mask) PROVE DetectorStep
  BY <1>5, Stutter DEF controlSetCritical, lifecycle, history
<1>6. CASE Reboot
  <2>1. \A c \in chEnabled : lossRun'[c] = 0
    BY <1>0, <1>6 DEF Reboot, Zeroes, TypeOK
  <2>2. chEnabled' = chEnabled /\ chCalib' = chEnabled /\ chSuspended' = {} /\ chFaulted' = {}
    BY <1>6 DEF Reboot, stored
  <2> QED BY <1>0, <2>1, <2>2, CalibrateAllStep DEF DetectorStep, Detector!ChannelNext
<1>7. CASE \/ \E on \in BOOLEAN : SetMonitoring(on)
           \/ ForceFaultSignal \/ \E p \in Params : SetParams(p)
  BY <1>7, Stutter DEF SetMonitoring, ForceFaultSignal, SetParams, lifecycle, stored, history
<1>8. CASE Environment \/ UNCHANGED vars
  BY <1>8, Stutter
  DEF Environment, getActiveChannels, LoadChanges, vars, lifecycle, stored, history
<1>9. CASE Operator
  <2>1. ASSUME NEW mask \in CmdMasks
        PROVE  chEnabled \cup mask \in SUBSET Ch /\ chEnabled \ mask \in SUBSET Ch
    BY <1>0, InputsAssumption DEF TypeOK
  <2> QED BY <1>3, <1>4, <1>5, <1>6, <1>7, <1>9, <2>1
          DEF Operator, AddEnabled, RemoveEnabled, AddCritical, RemoveCritical
<1> QED BY <1>1, <1>2, <1>3, <1>8, <1>9 DEF Next, ControlLoop

\* Whatever the handlers do in whatever order, each channel keeps to its
\* abstract life: see ImplementsDetector.
THEOREM RefinesDetector == Spec => ImplementsDetector
<1>1. Init => Detector!ChannelInit
  BY DEF Init, Zeroes, Detector!ChannelInit, Phase, Losses
<1>2. Spec => []Sound
  BY TypeCorrect, CountersDoNotWrap, EvidenceCoveredByLosses, EvidenceBelongsToLossy, PTL
  DEF Sound
<1> QED BY <1>1, <1>2, NextStep, PTL
        DEF Spec, ImplementsDetector, Detector!ChannelSpec, DetectorStep
=============================================================================
