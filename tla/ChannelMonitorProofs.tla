------------------------ MODULE ChannelMonitorProofs ------------------------
(* Theorems about ChannelMonitor, for every value of its constants. *)
EXTENDS ChannelMonitor, TLAPS

-----------------------------------------------------------------------------
(***************************************************************************)
(* Lemmas about the constants, the uint8_t operators and chRecalibrate.    *)
(***************************************************************************)

\* What ParamsAssumption says of the stored record.
LEMMA ParamFacts ==
  ASSUME prm \in Params
  PROVE  /\ prm.samples \in Byte /\ prm.checks \in Byte
         /\ prm.samples >= MinSamples /\ prm.checks >= MinChecks
         /\ prm.checkTime \in Nat
         /\ MinSamples \in Nat /\ MinChecks \in Nat
         /\ MinSamples >= 1 /\ MinChecks >= 1
BY ParamsAssumption, ChannelsAssumption DEF Byte

\* Incrementing and decrementing a uint8_t gives a uint8_t.
LEMMA ByteOps ==
  ASSUME NEW x \in Byte
  PROVE  Inc(x) \in Byte /\ Dec(x) \in Byte
BY ChannelsAssumption DEF Byte, Inc, Dec

\* Below its last value an increment does not wrap.
LEMMA IncExact ==
  ASSUME NEW x \in Nat, x < ByteSize - 1
  PROVE  Inc(x) = x + 1
BY ChannelsAssumption DEF Inc

\* Above zero a decrement does not wrap.
LEMMA DecExact ==
  ASSUME NEW x \in Byte, x # 0
  PROVE  Dec(x) = x - 1
<1>1. x \in Nat /\ x < ByteSize /\ ByteSize \in Nat \ {0}
  BY ChannelsAssumption DEF Byte
<1>2. x + ByteSize - 1 = ByteSize + (x - 1) /\ x - 1 \in 0 .. ByteSize - 1
  BY <1>1
<1>3. (ByteSize + (x - 1)) % ByteSize = x - 1
  BY <1>1, <1>2
<1> QED
  BY <1>2, <1>3 DEF Dec

\* chRecalibrate keeps the types of what it writes.
LEMMA RecalibrateType ==
  ASSUME TypeOK, NEW S, chRecalibrate(S)
  PROVE  /\ chLossy' \subseteq Ch
         /\ Pmax' \in [Ch -> Nat] /\ calSamples' \in [Ch -> Byte]
         /\ lossyChecks' \in [Ch -> Byte] /\ lossySamples' \in [Ch -> Byte]
         /\ lossRun' \in [Ch -> Nat] /\ quietRun' \in [Ch -> Nat]
<1>1. 0 \in Byte /\ 0 \in Nat /\ prm.samples \in Byte
  BY ParamFacts, ChannelsAssumption DEF Byte, TypeOK
<1> QED
  BY <1>1 DEF TypeOK, chRecalibrate, Reset

\* controlCalibration keeps the types of what it writes.
LEMMA CalibrationType ==
  ASSUME TypeOK, controlCalibration, UNCHANGED <<stored, monitoring, position, env>>,
         relay' \in BOOLEAN, chResumeCountdown' \in Nat
  PROVE  TypeOK'
<1>1. chRecalibrate(chEnabled)
  BY DEF controlCalibration
<1>2. chCalib' \subseteq chEnabled'
  BY DEF TypeOK, controlCalibration, stored
<1> QED
  BY <1>1, <1>2, RecalibrateType
  DEF TypeOK, controlCalibration, stored, position, env

\* A sampled channel is enabled, powered and not suspended; the position
\* variables stay channels.
LEMMA SampleFacts ==
  ASSUME TypeOK, NEW ch \in Ch, sampleChannel(ch)
  PROVE  /\ ch \in chEnabled
         /\ curCh' \in Ch /\ amux' \in Ch /\ meterCh' \in Ch
         /\ curCh' = ch
BY DEF TypeOK, sampleChannel, switchAnalogMux, Selects, Candidates,
       LossyFocus, CalibFocus, Active

\* The calibrated power stays a natural number as it moves towards a reading.
LEMMA HalfWayType ==
  ASSUME TypeOK, NEW ch \in Ch, sampleChannel(ch), UNCHANGED env
  PROVE  HalfWay(ch) \in Nat
<1>1. Prms \in Nat
  BY SampleFacts, InputsAssumption DEF TypeOK, Prms
<1>2. Pmax[ch] \in Nat
  BY DEF TypeOK
<1> DEFINE v == Variation(ch)
<1>3. v \in Nat /\ (Pmax[ch] >= Prms => v <= Pmax[ch])
  BY <1>1, <1>2 DEF Variation
<1>4. v \div 2 \in Nat /\ v \div 2 <= v
  BY <1>3
<1> QED
  BY <1>2, <1>3, <1>4 DEF HalfWay

-----------------------------------------------------------------------------
(***************************************************************************)
(* Type correctness.                                                       *)
(***************************************************************************)

\* Every mask holds channels, every counter is a uint8_t and only enabled
\* channels are marked for calibration, whatever the handlers do.
THEOREM TypeCorrect == Spec => []TypeOK
<1>1. Init => TypeOK
  <2> SUFFICES ASSUME Init PROVE TypeOK
    OBVIOUS
  <2>1. prm.samples \in Byte /\ 0 \in Byte /\ N - 1 \in Ch
    BY ParamFacts, ChannelsAssumption DEF Init, Byte, Ch
  <2> QED
    BY <2>1, InputsAssumption DEF Init, TypeOK, Zeroes
<1>2. TypeOK /\ [Next]_vars => TypeOK'
  <2> SUFFICES ASSUME TypeOK, [Next]_vars PROVE TypeOK'
    OBVIOUS
  <2>1. ASSUME NEW ch \in Ch, CalibrationEnds(ch) PROVE TypeOK'
    BY <2>1, SampleFacts
    DEF CalibrationEnds, TypeOK, stored, flags, data, env, history
  <2>2. ASSUME NEW ch \in Ch, CalibrationSample(ch) PROVE TypeOK'
    <3>1. sampleChannel(ch) /\ UNCHANGED env
      BY <2>2 DEF CalibrationSample, env
    <3>2. HalfWay(ch) \in Nat
      BY <3>1, HalfWayType
    <3>3. CalibrationSamples(ch) \in Byte
      BY ParamFacts, ByteOps DEF TypeOK, CalibrationSamples
    <3> QED
      BY <2>2, <3>1, <3>2, <3>3, SampleFacts
      DEF CalibrationSample, TypeOK, stored, flags, env
  <2>3. ASSUME NEW ch \in Ch, SampleUnmonitored(ch) PROVE TypeOK'
    BY <2>3, SampleFacts
    DEF SampleUnmonitored, TypeOK, stored, flags, data, env, history
  <2>4. ASSUME NEW ch \in Ch, GoodSample(ch) PROVE TypeOK'
    <3>1. 0 \in Byte
      BY ChannelsAssumption DEF Byte
    <3> QED
      BY <2>4, <3>1, SampleFacts
      DEF GoodSample, MonitorSample, ClearChecks, TypeOK, stored, flags, env
  <2>5. ASSUME NEW ch \in Ch, LossSample(ch) PROVE TypeOK'
    BY <2>5, SampleFacts, ByteOps
    DEF LossSample, MonitorSample, TypeOK, stored, flags, env
  <2>6. ASSUME NEW ch \in Ch, SuspendChannel(ch) PROVE TypeOK'
    <3>1. 0 \in Byte /\ SuspendCountdown \in Nat
      BY ParamFacts, ChannelsAssumption DEF Byte, TypeOK, SuspendCountdown
    <3> QED
      BY <2>6, <3>1, SampleFacts, ByteOps
      DEF SuspendChannel, MonitorSample, TypeOK, stored, flags, env
  <2>7. ASSUME NEW ch \in Ch, DeclareFault(ch) PROVE TypeOK'
    <3>1. sampleChannel(ch) /\ chRecalibrate({ch})
      BY <2>7 DEF DeclareFault, MonitorSample
    <3>2. relay' \in BOOLEAN /\ cfFaulted' \in BOOLEAN
      BY <2>7 DEF DeclareFault, controlNotifyFaulted, TypeOK
    <3> QED
      BY <2>7, <3>1, <3>2, SampleFacts, RecalibrateType
      DEF DeclareFault, TypeOK, stored, env
  <2>8. CASE CmdTask
    BY <2>8 DEF CmdTask, ResumeTick, TypeOK, stored, flags, data, position,
                env, history
  <2>9. CASE CmdTaskRecalibrates
    <3>1. chResumeCountdown' \in Nat /\ relay' \in BOOLEAN
      BY <2>9 DEF CmdTaskRecalibrates, ResumeTick, TypeOK
    <3> QED
      BY <2>9, <3>1, CalibrationType DEF CmdTaskRecalibrates
  <2>10. CASE BtnTask \/ ForceCalibration
    <3>1. chResumeCountdown' \in Nat /\ relay' \in BOOLEAN
      BY <2>10 DEF BtnTask, ForceCalibration, TypeOK
    <3> QED
      BY <2>10, <3>1, CalibrationType DEF BtnTask, ForceCalibration
  <2>11. ASSUME NEW mask \in SUBSET Ch, controlSetEnabled(mask)
         PROVE  TypeOK'
    <3>1. chRecalibrate(mask \ chEnabled)
      BY <2>11 DEF controlSetEnabled
    <3> QED
      BY <2>11, <3>1, RecalibrateType
      DEF controlSetEnabled, TypeOK, flags, position, env
  <2>12. ASSUME NEW mask \in SUBSET Ch, controlSetCritical(mask)
         PROVE  TypeOK'
    BY <2>12 DEF controlSetCritical, TypeOK, flags, data, position, env,
                 history
  <2>13. ASSUME NEW on \in BOOLEAN, SetMonitoring(on) PROVE TypeOK'
    BY <2>13 DEF SetMonitoring, TypeOK, stored, data, position, env, history
  <2>14. CASE ForceFaultSignal
    BY <2>14 DEF ForceFaultSignal, controlNotifyFaulted, TypeOK, stored, data,
                 position, env, history
  <2>15. ASSUME NEW p \in Params, SetParams(p) PROVE TypeOK'
    BY <2>15 DEF SetParams, TypeOK, flags, data, position, env, history
  <2>16. CASE Reboot
    <3>1. prm.samples \in Byte /\ 0 \in Byte /\ N - 1 \in Ch
      BY ParamFacts, ChannelsAssumption DEF TypeOK, Byte, Ch
    <3> QED
      BY <2>16, <3>1 DEF Reboot, TypeOK, Zeroes, stored, env
  <2>17. ASSUME NEW mask \in ActiveMasks, getActiveChannels(mask)
         PROVE  TypeOK'
    BY <2>17, InputsAssumption
    DEF getActiveChannels, TypeOK, stored, flags, data, position, history
  <2>18. ASSUME NEW ch \in Ch, NEW p \in Loads, LoadChanges(ch, p)
         PROVE  TypeOK'
    BY <2>18 DEF LoadChanges, TypeOK, stored, flags, data, position, history
  <2>19. CASE UNCHANGED vars
    BY <2>19 DEF vars, TypeOK, stored, flags, data, position, env, history
  <2>20. ASSUME NEW mask \in CmdMasks
         PROVE  /\ chEnabled \cup mask \in SUBSET Ch
                /\ chEnabled \ mask \in SUBSET Ch
                /\ chCritical \cup mask \in SUBSET Ch
                /\ chCritical \ mask \in SUBSET Ch
    BY InputsAssumption DEF TypeOK
  <2>21. CASE Operator
    BY <2>10, <2>11, <2>12, <2>13, <2>14, <2>15, <2>16, <2>20, <2>21
    DEF Operator, AddEnabled, RemoveEnabled, AddCritical, RemoveCritical
  <2> QED
    BY <2>1, <2>2, <2>3, <2>4, <2>5, <2>6, <2>7, <2>8, <2>9, <2>17, <2>18,
       <2>19, <2>21
    DEF Next, ControlLoop, Sample, Environment
<1> QED
  BY <1>1, <1>2, PTL DEF Spec

-----------------------------------------------------------------------------
(***************************************************************************)
(* The steps as the evidence variables see them.                           *)
(***************************************************************************)
evidence == <<chEnabled, chLossy, chCalib, calSamples, lossyChecks,
              lossySamples, lossRun, quietRun>>

\* The channels of S start a calibration, the others only lose their enable
Recalibration(S) ==
  /\ chRecalibrate(S)
  /\ S \subseteq chEnabled' /\ chEnabled' \subseteq chEnabled \cup S
  /\ chCalib' = (chCalib \cap chEnabled') \cup S

\* Every step samples a channel, recalibrates some, reboots, or leaves the
\* evidence alone.
LEMMA StepKinds ==
  ASSUME TypeOK, [Next]_vars
  PROVE  \/ \E ch \in chEnabled : \/ CalibrationEnds(ch)
                                  \/ CalibrationSample(ch)
                                  \/ GoodSample(ch)
                                  \/ LossSample(ch)
                                  \/ SuspendChannel(ch)
         \/ \E S \in SUBSET Ch : Recalibration(S)
         \/ Reboot
         \/ UNCHANGED evidence
<1> DEFINE Goal == \/ \E ch \in chEnabled : \/ CalibrationEnds(ch)
                                            \/ CalibrationSample(ch)
                                            \/ GoodSample(ch)
                                            \/ LossSample(ch)
                                            \/ SuspendChannel(ch)
                   \/ \E S \in SUBSET Ch : Recalibration(S)
                   \/ Reboot
                   \/ UNCHANGED evidence
<1> SUFFICES Goal
  OBVIOUS
<1>1. CASE ControlLoop
  <2> SUFFICES ASSUME NEW ch \in Ch, Sample(ch) PROVE Goal
    BY <1>1 DEF ControlLoop
  <2>1. sampleChannel(ch)
    BY DEF Sample, CalibrationEnds, CalibrationSample, SampleUnmonitored,
           GoodSample, LossSample, SuspendChannel, DeclareFault, MonitorSample
  <2>2. ch \in chEnabled
    BY <2>1, SampleFacts
  <2>3. CASE SampleUnmonitored(ch)
    BY <2>3 DEF SampleUnmonitored, evidence, stored, data, history
  <2>4. CASE DeclareFault(ch)
    <3>1. chCalib' = (chCalib \cap chEnabled') \cup {ch}
      BY <2>4 DEF DeclareFault, TypeOK, stored
    <3>2. Recalibration({ch})
      BY <2>2, <2>4, <3>1 DEF DeclareFault, Recalibration, stored
    <3> QED
      BY <3>2
  <2> QED
    BY <2>2, <2>3, <2>4 DEF Sample
<1>2. CASE CmdTask
  BY <1>2 DEF CmdTask, evidence, stored, data, history
<1>3. ASSUME controlCalibration, UNCHANGED stored PROVE Goal
  <2>1. Recalibration(chEnabled)
    BY <1>3 DEF controlCalibration, Recalibration, TypeOK, stored
  <2> QED
    BY <2>1 DEF TypeOK
<1>4. CASE CmdTaskRecalibrates
  BY <1>3, <1>4 DEF CmdTaskRecalibrates
<1>5. ASSUME NEW mask \in SUBSET Ch, controlSetEnabled(mask) PROVE Goal
  <2>1. Recalibration(mask \ chEnabled)
    BY <1>5 DEF controlSetEnabled, Recalibration, TypeOK
  <2> QED
    BY <2>1
<1>6. CASE Operator
  <2>1. CASE \E mask \in CmdMasks : AddEnabled(mask) \/ RemoveEnabled(mask)
    BY <1>5, <2>1, InputsAssumption DEF AddEnabled, RemoveEnabled, TypeOK
  <2>2. CASE \E mask \in CmdMasks : AddCritical(mask) \/ RemoveCritical(mask)
    BY <2>2 DEF AddCritical, RemoveCritical, controlSetCritical, evidence,
                data, history
  <2>3. CASE ForceCalibration \/ BtnTask
    BY <1>3, <2>3 DEF ForceCalibration, BtnTask
  <2>4. CASE \E on \in BOOLEAN : SetMonitoring(on)
    BY <2>4 DEF SetMonitoring, evidence, stored, data, history
  <2>5. CASE ForceFaultSignal
    BY <2>5 DEF ForceFaultSignal, evidence, stored, data, history
  <2>6. CASE \E p \in Params : SetParams(p)
    BY <2>6 DEF SetParams, evidence, data, history
  <2> QED
    BY <1>6, <2>1, <2>2, <2>3, <2>4, <2>5, <2>6 DEF Operator
<1>7. CASE Environment
  BY <1>7 DEF Environment, getActiveChannels, LoadChanges, evidence, stored,
              data, history
<1>8. CASE UNCHANGED vars
  BY <1>8 DEF vars, evidence, stored, data, history
<1> QED
  BY <1>1, <1>2, <1>4, <1>6, <1>7, <1>8 DEF Next

\* What chRecalibrate leaves in the counters, channel by channel.
LEMMA RecalibrateValues ==
  ASSUME TypeOK, NEW S, chRecalibrate(S), NEW ch \in Ch
  PROVE  /\ lossyChecks'[ch] = IF ch \in S THEN 0 ELSE lossyChecks[ch]
         /\ lossySamples'[ch] = IF ch \in S THEN 0 ELSE lossySamples[ch]
         /\ lossRun'[ch] = IF ch \in S THEN 0 ELSE lossRun[ch]
         /\ quietRun'[ch] = IF ch \in S THEN 0 ELSE quietRun[ch]
         /\ calSamples'[ch] = IF ch \in S THEN prm.samples ELSE calSamples[ch]
         /\ chLossy' = chLossy \ S
BY DEF chRecalibrate, Reset

-----------------------------------------------------------------------------
(***************************************************************************)
(* The fault counters.                                                     *)
(***************************************************************************)

\* A check that is not complete, or not the last one, leaves its counter
\* below the last uint8_t value.
LEMMA CountersBelow ==
  ASSUME TypeOK, CountersNeverWrap, NEW ch \in Ch
  PROVE  /\ Inc(lossySamples[ch]) = lossySamples[ch] + 1
         /\ Inc(lossyChecks[ch]) = lossyChecks[ch] + 1
         /\ ~CheckCompleted(ch) => lossySamples[ch] + 1 < ByteSize - 1
         /\ ~ChecksExhausted(ch) => lossyChecks[ch] + 1 < ByteSize - 1
<1>1. lossySamples[ch] \in Nat /\ lossyChecks[ch] \in Nat
  BY ChannelsAssumption DEF TypeOK, Byte
<1>2. /\ Inc(lossySamples[ch]) = lossySamples[ch] + 1
      /\ Inc(lossyChecks[ch]) = lossyChecks[ch] + 1
  BY <1>1, IncExact DEF CountersNeverWrap
<1>3. prm.samples \in 0 .. ByteSize - 1 /\ prm.checks \in 0 .. ByteSize - 1
  BY ParamFacts DEF TypeOK, Byte
<1> QED
  BY <1>1, <1>2, <1>3, ChannelsAssumption DEF CheckCompleted, ChecksExhausted

\* The counters of losses and of checks never wrap.
THEOREM CountersDoNotWrap == Spec => []CountersNeverWrap
<1>1. Init => CountersNeverWrap
  BY ParamsAssumption, ChannelsAssumption
  DEF Init, Zeroes, CountersNeverWrap, Byte
<1>2. TypeOK /\ CountersNeverWrap /\ [Next]_vars => CountersNeverWrap'
  <2> SUFFICES ASSUME TypeOK, CountersNeverWrap, [Next]_vars,
                      NEW c \in Ch
               PROVE  /\ lossySamples'[c] < ByteSize - 1
                      /\ lossyChecks'[c] < ByteSize - 1
    BY DEF CountersNeverWrap
  <2>0. /\ lossySamples[c] < ByteSize - 1 /\ lossyChecks[c] < ByteSize - 1
        /\ 0 < ByteSize - 1
    BY ChannelsAssumption, ParamsAssumption DEF CountersNeverWrap, Byte
  <2>1. ASSUME NEW ch \in chEnabled,
               CalibrationEnds(ch) \/ CalibrationSample(ch)
        PROVE  UNCHANGED <<lossySamples, lossyChecks>>
    BY <2>1 DEF CalibrationEnds, CalibrationSample, data
  <2>2. ASSUME NEW ch \in chEnabled,
               GoodSample(ch) \/ LossSample(ch) \/ SuspendChannel(ch)
        PROVE  /\ lossySamples'[c] < ByteSize - 1
               /\ lossyChecks'[c] < ByteSize - 1
    <3>1. ch \in Ch /\ lossySamples \in [Ch -> Byte]
                    /\ lossyChecks \in [Ch -> Byte]
      BY DEF TypeOK
    <3> QED
      BY <2>0, <2>2, <3>1, CountersBelow
      DEF GoodSample, LossSample, SuspendChannel, ClearChecks
  <2>3. ASSUME NEW S \in SUBSET Ch, Recalibration(S)
        PROVE  /\ lossySamples'[c] < ByteSize - 1
               /\ lossyChecks'[c] < ByteSize - 1
    BY <2>0, <2>3, RecalibrateValues DEF Recalibration
  <2>4. CASE Reboot
    BY <2>0, <2>4 DEF Reboot, Zeroes
  <2>5. CASE UNCHANGED evidence
    BY <2>0, <2>5 DEF evidence
  <2> QED
    BY <2>0, <2>1, <2>2, <2>3, <2>4, <2>5, StepKinds
<1> QED
  BY <1>1, <1>2, TypeCorrect, PTL DEF Spec

\* Partial evidence is kept only by lossy channels, none of them calibrating.
THEOREM EvidenceBelongsToLossy == Spec => []EvidenceOnlyWhenLossy
<1>1. Init => EvidenceOnlyWhenLossy
  BY DEF Init, Zeroes, EvidenceOnlyWhenLossy
<1>2. TypeOK /\ EvidenceOnlyWhenLossy /\ [Next]_vars => EvidenceOnlyWhenLossy'
  <2> DEFINE Clean(c) == c \notin chLossy => /\ lossyChecks[c] = 0
                                             /\ lossySamples[c] = 0
                                             /\ lossRun[c] = 0
             Apart(c) == c \in chLossy => c \notin chCalib
  <2> SUFFICES ASSUME TypeOK, EvidenceOnlyWhenLossy, [Next]_vars,
                      NEW c \in chEnabled'
               PROVE  Clean(c)' /\ Apart(c)'
    BY DEF EvidenceOnlyWhenLossy
  <2>0. c \in chEnabled => Clean(c) /\ Apart(c)
    BY DEF EvidenceOnlyWhenLossy
  <2>1. ASSUME NEW ch \in chEnabled, CalibrationEnds(ch)
        PROVE  Clean(c)' /\ Apart(c)'
    BY <2>0, <2>1 DEF CalibrationEnds, stored, data, history
  <2>2. ASSUME NEW ch \in chEnabled, CalibrationSample(ch)
        PROVE  Clean(c)' /\ Apart(c)'
    BY <2>0, <2>2 DEF CalibrationSample, stored
  <2>3. ASSUME NEW ch \in chEnabled, GoodSample(ch)
        PROVE  Clean(c)' /\ Apart(c)'
    BY <2>0, <2>3 DEF GoodSample, ClearChecks, TypeOK, stored
  <2>4. ASSUME NEW ch \in chEnabled, LossSample(ch) \/ SuspendChannel(ch)
        PROVE  Clean(c)' /\ Apart(c)'
    <3>1. ch \notin chCalib /\ chCalib' = chCalib /\ chEnabled' = chEnabled
          /\ chLossy' = chLossy \cup {ch}
      BY <2>4 DEF LossSample, SuspendChannel, MonitorSample, stored
    <3>2. c # ch => /\ lossyChecks'[c] = lossyChecks[c]
                    /\ lossySamples'[c] = lossySamples[c]
                    /\ lossRun'[c] = lossRun[c]
      BY <2>4, <3>1 DEF LossSample, SuspendChannel, TypeOK
    <3> QED
      BY <2>0, <3>1, <3>2
  <2>5. ASSUME NEW S \in SUBSET Ch, Recalibration(S)
        PROVE  Clean(c)' /\ Apart(c)'
    <3>1. c \in Ch /\ c \in chEnabled \cup S
      BY <2>5 DEF Recalibration, TypeOK
    <3> QED
      BY <2>0, <2>5, <3>1, RecalibrateValues DEF Recalibration
  <2>6. CASE Reboot
    BY <2>6 DEF Reboot, Zeroes, TypeOK, stored
  <2>7. CASE UNCHANGED evidence
    BY <2>0, <2>7 DEF evidence
  <2> QED
    BY <2>1, <2>2, <2>3, <2>4, <2>5, <2>6, <2>7, StepKinds
<1> QED
  BY <1>1, <1>2, TypeCorrect, PTL DEF Spec

\* What a check adds to a count of losses: (k + 1) * m is k * m and m more.
LEMMA OneMoreCheck ==
  ASSUME NEW k \in Nat, NEW m \in Nat
  PROVE  (k + 1) * m = k * m + m /\ k * m \in Nat
OBVIOUS

\* The counters of a channel are covered by losses measured in a row.
THEOREM EvidenceCoveredByLosses == Spec => []EvidenceIsReal
<1>1. Init => EvidenceIsReal
  BY ParamsAssumption, ChannelsAssumption
  DEF Init, Zeroes, EvidenceIsReal, Byte
<1>2. /\ TypeOK /\ CountersNeverWrap /\ EvidenceIsReal /\ [Next]_vars
      => EvidenceIsReal'
  <2> DEFINE Real(c) ==
               lossRun[c] >= lossyChecks[c] * MinSamples + lossySamples[c]
  <2> SUFFICES ASSUME TypeOK, CountersNeverWrap, EvidenceIsReal, [Next]_vars,
                      NEW c \in chEnabled'
               PROVE  Real(c)'
    BY DEF EvidenceIsReal
  <2>0. c \in chEnabled => Real(c)
    BY DEF EvidenceIsReal
  <2>a. /\ MinSamples \in Nat
        /\ prm.samples \in Nat /\ prm.samples >= MinSamples
    BY ParamFacts, ChannelsAssumption DEF TypeOK, Byte
  <2>b. 0 * MinSamples + 0 = 0
    BY <2>a
  <2>c. \A ch \in Ch : lossRun[ch] \in Nat /\ lossyChecks[ch] \in Nat
                                           /\ lossySamples[ch] \in Nat
    BY ChannelsAssumption DEF TypeOK, Byte
  <2>1. ASSUME NEW ch \in chEnabled,
               CalibrationEnds(ch) \/ CalibrationSample(ch)
        PROVE  Real(c)'
    BY <2>0, <2>1 DEF CalibrationEnds, CalibrationSample, stored, data, history
  <2>2. ASSUME NEW ch \in chEnabled, GoodSample(ch)
        PROVE  Real(c)'
    <3>1. ch \in Ch /\ c \in chEnabled
      BY <2>2 DEF GoodSample, stored, TypeOK
    <3>2. CASE c = ch
      BY <2>2, <2>b, <3>1, <3>2 DEF GoodSample, ClearChecks, TypeOK
    <3>3. CASE c # ch
      BY <2>0, <2>2, <3>1, <3>3 DEF GoodSample, ClearChecks, TypeOK
    <3> QED
      BY <3>2, <3>3
  <2>3. ASSUME NEW ch \in chEnabled, LossSample(ch)
        PROVE  Real(c)'
    <3>1. ch \in Ch /\ c \in chEnabled
      BY <2>3 DEF LossSample, stored, TypeOK
    <3>2. CASE c = ch
      <4>1. /\ lossRun'[c] = lossRun[c] + 1
            /\ lossySamples'[c] = lossySamples[c] + 1
            /\ lossyChecks'[c] = lossyChecks[c]
        BY <2>3, <3>1, <3>2, CountersBelow DEF LossSample, TypeOK
      <4> QED
        BY <2>0, <2>a, <2>c, <3>1, <3>2, <4>1, OneMoreCheck
    <3>3. CASE c # ch
      BY <2>0, <2>3, <3>1, <3>3 DEF LossSample, TypeOK
    <3> QED
      BY <3>2, <3>3
  <2>4. ASSUME NEW ch \in chEnabled, SuspendChannel(ch)
        PROVE  Real(c)'
    <3>1. ch \in Ch /\ c \in chEnabled
      BY <2>4 DEF SuspendChannel, stored, TypeOK
    <3>2. CASE c = ch
      <4>1. /\ lossRun'[c] = lossRun[c] + 1
            /\ lossySamples'[c] = 0
            /\ lossyChecks'[c] = lossyChecks[c] + 1
            /\ lossySamples[c] + 1 >= prm.samples
        BY <2>4, <3>1, <3>2, CountersBelow
        DEF SuspendChannel, CheckCompleted, TypeOK
      <4> QED
        BY <2>0, <2>a, <2>c, <3>1, <3>2, <4>1, OneMoreCheck
    <3>3. CASE c # ch
      BY <2>0, <2>4, <3>1, <3>3 DEF SuspendChannel, TypeOK
    <3> QED
      BY <3>2, <3>3
  <2>5. ASSUME NEW S \in SUBSET Ch, Recalibration(S)
        PROVE  Real(c)'
    <3>1. c \in Ch /\ c \in chEnabled \cup S
      BY <2>5 DEF Recalibration, TypeOK
    <3>2. CASE c \in S
      BY <2>5, <2>b, <3>1, <3>2, RecalibrateValues DEF Recalibration
    <3>3. CASE c \notin S
      BY <2>0, <2>5, <3>1, <3>3, RecalibrateValues DEF Recalibration
    <3> QED
      BY <3>2, <3>3
  <2>6. CASE Reboot
    BY <2>6, <2>b DEF Reboot, Zeroes, TypeOK, stored
  <2>7. CASE UNCHANGED evidence
    BY <2>0, <2>7 DEF evidence
  <2> QED
    BY <2>1, <2>2, <2>3, <2>4, <2>5, <2>6, <2>7, StepKinds
<1> QED
  BY <1>1, <1>2, TypeCorrect, CountersDoNotWrap, PTL DEF Spec

\* Multiplication is monotonic.
LEMMA TimesMonotonic ==
  ASSUME NEW a \in Nat, NEW b \in Nat, NEW m \in Nat, a >= b
  PROVE  a * m >= m * b
<1>1. PICK d \in Nat : a = b + d
  BY a - b \in Nat
<1>2. a * m = b * m + d * m /\ d * m >= 0 /\ b * m = m * b /\ b * m \in Nat
  BY <1>1
<1> QED
  BY <1>2

\* The evidence a fault is declared on.
LEMMA FaultEvidence ==
  ASSUME TypeOK, CountersNeverWrap, EvidenceIsReal, NEW ch \in Ch, DeclareFault(ch)
  PROVE  lossRun[ch] + 1 >= MinSamples * MinChecks
<1>1. ch \in chEnabled
  BY SampleFacts DEF DeclareFault, MonitorSample
<1>2. /\ MinSamples \in Nat /\ MinChecks \in Nat
      /\ prm.samples \in Nat /\ prm.samples >= MinSamples
      /\ prm.checks \in Nat /\ prm.checks >= MinChecks
  BY ParamFacts, ChannelsAssumption DEF TypeOK, Byte
<1>3. /\ lossRun[ch] \in Nat
      /\ lossyChecks[ch] \in Nat /\ lossySamples[ch] \in Nat
  BY ChannelsAssumption DEF TypeOK, Byte
<1>4. /\ lossySamples[ch] + 1 >= prm.samples
      /\ lossyChecks[ch] + 1 >= prm.checks
  BY CountersBelow DEF DeclareFault, CheckCompleted, ChecksExhausted
<1>5. lossRun[ch] >= lossyChecks[ch] * MinSamples + lossySamples[ch]
  BY <1>1 DEF EvidenceIsReal
<1>6. lossRun[ch] + 1 >= (lossyChecks[ch] + 1) * MinSamples
  BY <1>2, <1>3, <1>4, <1>5, OneMoreCheck
<1>7. (lossyChecks[ch] + 1) * MinSamples >= MinSamples * MinChecks
  <2>1. lossyChecks[ch] + 1 \in Nat /\ lossyChecks[ch] + 1 >= MinChecks
    BY <1>2, <1>3, <1>4
  <2> QED
    BY <1>2, <2>1, TimesMonotonic
<1>8. /\ (lossyChecks[ch] + 1) * MinSamples \in Int
      /\ MinSamples * MinChecks \in Int
  BY <1>2, <1>3
<1> QED
  BY <1>3, <1>6, <1>7, <1>8

\* A fault is declared only on the losses of all its checks, in a row.
THEOREM FaultsAreBacked == Spec => FaultBackedByLosses
<1>1. /\ TypeOK /\ CountersNeverWrap /\ EvidenceIsReal /\ [Next]_vars
      => [\A ch \in Ch :
            DeclareFault(ch) => lossRun[ch] + 1 >= MinSamples * MinChecks]_vars
  BY FaultEvidence
<1> QED
  BY <1>1, TypeCorrect, CountersDoNotWrap, EvidenceCoveredByLosses, PTL
  DEF Spec, FaultBackedByLosses

-----------------------------------------------------------------------------
(***************************************************************************)
(* No loss lasts: what the counters hold of the losses in a row.           *)
(***************************************************************************)
\* A run of losses is covered by k checks and l samples when some parameters
\* that were in force allow as many of both, and as long a check.
Covered(run, k, l) ==
  \E p, q \in Params :
    l < p.samples /\ k < q.checks /\ run <= k * p.samples + l

LossesCovered ==
  \A c \in Ch : Covered(lossRun[c], lossyChecks[c], lossySamples[c])

\* The limits are positive numbers.
LEMMA LimitFacts ==
  ASSUME NEW p \in Params
  PROVE  p.samples \in Nat \ {0} /\ p.checks \in Nat \ {0}
BY ParamsAssumption, ChannelsAssumption DEF Byte

\* The counters of a channel with no loss cover it.
LEMMA NothingCovered == Covered(0, 0, 0)
<1>1. PICK p \in Params : TRUE
  BY ParamsAssumption
<1>2. 0 < p.samples /\ 0 < p.checks /\ 0 <= 0 * p.samples + 0
  BY LimitFacts
<1> QED
  BY <1>2 DEF Covered

\* One more loss is covered by one more sample of a check that goes on, under
\* the larger of the limits so far and now.
LEMMA LossCovered ==
  ASSUME NEW r \in Nat, NEW k \in Nat, NEW l \in Nat, Covered(r, k, l),
         NEW n \in Params, l + 1 < n.samples
  PROVE  Covered(r + 1, k, l + 1)
<1>1. PICK p \in Params, q \in Params :
        l < p.samples /\ k < q.checks /\ r <= k * p.samples + l
  BY DEF Covered
<1>2. /\ p.samples \in Nat /\ n.samples \in Nat
      /\ k * p.samples \in Nat /\ k * n.samples \in Nat
  BY LimitFacts
<1>3. CASE l + 1 < p.samples
  <2>1. r + 1 <= k * p.samples + (l + 1)
    BY <1>1, <1>2
  <2> QED
    BY <1>1, <1>3, <2>1 DEF Covered
<1>4. CASE ~(l + 1 < p.samples)
  <2>1. n.samples * k >= k * p.samples
    BY <1>2, <1>4, TimesMonotonic
  <2>2. k * n.samples = n.samples * k
    BY <1>2
  <2>3. r + 1 <= k * n.samples + (l + 1)
    BY <1>1, <1>2, <2>1, <2>2
  <2> QED
    BY <1>1, <2>3 DEF Covered
<1> QED
  BY <1>3, <1>4

\* The loss that completes a check which is not the last one is covered by
\* that check.
LEMMA CheckCovered ==
  ASSUME NEW r \in Nat, NEW k \in Nat, NEW l \in Nat, Covered(r, k, l),
         NEW n \in Params, k + 1 < n.checks
  PROVE  Covered(r + 1, k + 1, 0)
<1>1. PICK p \in Params, q \in Params :
        l < p.samples /\ k < q.checks /\ r <= k * p.samples + l
  BY DEF Covered
<1>2. p.samples \in Nat \ {0}
  BY LimitFacts
<1>3. (k + 1) * p.samples = k * p.samples + p.samples /\ k * p.samples \in Nat
  BY <1>2, OneMoreCheck
<1>4. r + 1 <= (k + 1) * p.samples + 0 /\ 0 < p.samples
  BY <1>1, <1>2, <1>3
<1> QED
  BY <1>4 DEF Covered

\* A covered run is shorter than the samples of one record in each of the
\* checks of another.
LEMMA CoveredIsShort ==
  ASSUME NEW r \in Nat, NEW k \in Nat, NEW l \in Nat, Covered(r, k, l)
  PROVE  \E p, q \in Params : r < p.samples * q.checks
<1>1. PICK p \in Params, q \in Params :
        l < p.samples /\ k < q.checks /\ r <= k * p.samples + l
  BY DEF Covered
<1>2. p.samples \in Nat /\ q.checks \in Nat
  BY LimitFacts
<1>3. (k + 1) * p.samples = k * p.samples + p.samples /\ k * p.samples \in Nat
  BY <1>2, OneMoreCheck
<1>4. q.checks * p.samples >= p.samples * (k + 1)
  BY <1>1, <1>2, TimesMonotonic
<1>5. /\ q.checks * p.samples = p.samples * q.checks
      /\ p.samples * (k + 1) = (k + 1) * p.samples
      /\ p.samples * q.checks \in Nat
  BY <1>2
<1>6. r < p.samples * q.checks
  BY <1>1, <1>2, <1>3, <1>4, <1>5
<1> QED
  BY <1>6

\* Every step keeps the runs of losses covered, whatever ip stored before it.
LEMMA CoveredStep ==
  TypeOK /\ CountersNeverWrap /\ LossesCovered /\ [Next]_vars => LossesCovered'
<1> SUFFICES ASSUME TypeOK, CountersNeverWrap, LossesCovered, [Next]_vars,
                    NEW c \in Ch
             PROVE  Covered(lossRun[c], lossyChecks[c], lossySamples[c])'
  BY DEF LossesCovered
<1> DEFINE Goal == Covered(lossRun'[c], lossyChecks'[c], lossySamples'[c])
<1> SUFFICES Goal
  BY DEF Covered
<1>1. Covered(lossRun[c], lossyChecks[c], lossySamples[c])
  BY DEF LossesCovered
<1>2. lossRun[c] \in Nat /\ lossyChecks[c] \in Nat /\ lossySamples[c] \in Nat
  BY ChannelsAssumption DEF TypeOK, Byte
<1>3. prm \in Params /\ prm.samples \in Nat /\ prm.checks \in Nat
  BY LimitFacts DEF TypeOK
<1> HIDE DEF Goal
<1>4. ASSUME lossRun'[c] = lossRun[c], lossyChecks'[c] = lossyChecks[c],
             lossySamples'[c] = lossySamples[c]
      PROVE  Goal
  BY <1>1, <1>4 DEF Goal
<1>5. ASSUME lossRun'[c] = 0, lossyChecks'[c] = 0, lossySamples'[c] = 0
      PROVE  Goal
  BY <1>5, NothingCovered DEF Goal
<1>6. ASSUME NEW ch \in chEnabled, CalibrationEnds(ch) \/ CalibrationSample(ch)
      PROVE  Goal
  BY <1>4, <1>6 DEF CalibrationEnds, CalibrationSample, data, history
<1>7. ASSUME NEW ch \in chEnabled, GoodSample(ch)
      PROVE  Goal
  BY <1>4, <1>5, <1>7 DEF GoodSample, ClearChecks, TypeOK
<1>8. ASSUME NEW ch \in chEnabled, LossSample(ch)
      PROVE  Goal
  <2>1. CASE c = ch
    <3>1. /\ lossRun'[c] = lossRun[c] + 1
          /\ lossySamples'[c] = lossySamples[c] + 1
          /\ lossyChecks'[c] = lossyChecks[c]
          /\ lossySamples[c] + 1 < prm.samples
      BY <1>2, <1>3, <1>8, <2>1, CountersBelow
      DEF LossSample, CheckCompleted, TypeOK
    <3>2. Covered(lossRun[c] + 1, lossyChecks[c], lossySamples[c] + 1)
      BY <1>1, <1>2, <1>3, <3>1, LossCovered
    <3> QED
      BY <3>1, <3>2 DEF Goal
  <2> QED
    BY <1>4, <1>8, <2>1 DEF LossSample, TypeOK
<1>9. ASSUME NEW ch \in chEnabled, SuspendChannel(ch)
      PROVE  Goal
  <2>1. CASE c = ch
    <3>1. /\ lossRun'[c] = lossRun[c] + 1
          /\ lossySamples'[c] = 0
          /\ lossyChecks'[c] = lossyChecks[c] + 1
          /\ lossyChecks[c] + 1 < prm.checks
      BY <1>2, <1>3, <1>9, <2>1, CountersBelow
      DEF SuspendChannel, ChecksExhausted, TypeOK
    <3>2. Covered(lossRun[c] + 1, lossyChecks[c] + 1, 0)
      BY <1>1, <1>2, <1>3, <3>1, CheckCovered
    <3> QED
      BY <3>1, <3>2 DEF Goal
  <2> QED
    BY <1>4, <1>9, <2>1 DEF SuspendChannel, TypeOK
<1>10. ASSUME NEW S \in SUBSET Ch, Recalibration(S)
       PROVE  Goal
  BY <1>4, <1>5, <1>10, RecalibrateValues DEF Recalibration
<1>11. CASE Reboot
  BY <1>5, <1>11 DEF Reboot, Zeroes
<1>12. CASE UNCHANGED evidence
  BY <1>4, <1>12 DEF evidence
<1> QED
  BY <1>6, <1>7, <1>8, <1>9, <1>10, <1>11, <1>12, StepKinds

\* No run of losses reaches the samples and checks that the parameters can ask
\* for without a fault.
THEOREM LossesAreDeclared == Spec => []LossesMakeFault
<1>1. Init => LossesCovered
  BY NothingCovered DEF Init, Zeroes, LossesCovered
<1>2. Spec => []LossesCovered
  BY <1>1, CoveredStep, TypeCorrect, CountersDoNotWrap, PTL DEF Spec
<1>3. TypeOK /\ LossesCovered => LossesMakeFault
  <2> SUFFICES ASSUME TypeOK, LossesCovered, NEW c \in Ch
               PROVE  \E p, q \in Params : lossRun[c] < p.samples * q.checks
    BY DEF LossesMakeFault
  <2>1. lossRun[c] \in Nat /\ lossyChecks[c] \in Nat /\ lossySamples[c] \in Nat
    BY ChannelsAssumption DEF TypeOK, Byte
  <2>2. Covered(lossRun[c], lossyChecks[c], lossySamples[c])
    BY DEF LossesCovered
  <2> QED
    BY <2>1, <2>2, CoveredIsShort
<1> QED
  BY <1>2, <1>3, TypeCorrect, PTL

-----------------------------------------------------------------------------
(***************************************************************************)
(* Calibration.                                                            *)
(***************************************************************************)

\* The samples still due and the quiet ones in a row make a whole series
SeriesUnderWay ==
  \A c \in chEnabled :
    quietRun[c] + (IF c \in chCalib THEN calSamples[c] ELSE 0) >= MinSamples

\* A channel is monitored only after a whole series of quiet samples.
THEOREM MonitoredIsCalibrated == Spec => []MonitoredAfterQuietSeries
<1>1. Init => SeriesUnderWay
  <2> SUFFICES ASSUME Init PROVE SeriesUnderWay
    OBVIOUS
  <2>1. prm.samples \in Nat /\ prm.samples >= MinSamples
    BY ParamFacts, ChannelsAssumption DEF Init, Byte
  <2> QED
    BY <2>1 DEF Init, Zeroes, SeriesUnderWay
<1>2. TypeOK /\ SeriesUnderWay /\ [Next]_vars => SeriesUnderWay'
  <2> DEFINE Due(c) == IF c \in chCalib THEN calSamples[c] ELSE 0
  <2> SUFFICES ASSUME TypeOK, SeriesUnderWay, [Next]_vars,
                      NEW c \in chEnabled'
               PROVE  (quietRun[c] + Due(c) >= MinSamples)'
    BY DEF SeriesUnderWay
  <2>0. c \in chEnabled => quietRun[c] + Due(c) >= MinSamples
    BY DEF SeriesUnderWay
  <2>a. /\ MinSamples \in Nat
        /\ prm.samples \in Nat /\ prm.samples >= MinSamples
    BY ParamFacts, ChannelsAssumption DEF TypeOK, Byte
  <2>c. \A ch \in Ch : quietRun[ch] \in Nat /\ calSamples[ch] \in Byte
                                            /\ calSamples[ch] \in Nat
    BY ChannelsAssumption DEF TypeOK, Byte
  <2>1. ASSUME NEW ch \in chEnabled, CalibrationEnds(ch)
        PROVE  (quietRun[c] + Due(c) >= MinSamples)'
    BY <2>0, <2>1 DEF CalibrationEnds, stored, data, history
  <2>2. ASSUME NEW ch \in chEnabled, CalibrationSample(ch)
        PROVE  (quietRun[c] + Due(c) >= MinSamples)'
    <3>1. ch \in Ch /\ c \in chEnabled /\ c \in Ch /\ chCalib' = chCalib
      BY <2>2 DEF CalibrationSample, stored, TypeOK
    <3>2. CASE c # ch
      BY <2>0, <2>2, <3>1, <3>2 DEF CalibrationSample, TypeOK
    <3>3. CASE c = ch /\ Noisy(ch)
      <4>1. quietRun'[c] = 0 /\ calSamples'[c] = prm.samples /\ c \in chCalib
        BY <2>2, <3>1, <3>3 DEF CalibrationSample, CalibrationSamples, TypeOK
      <4> QED
        BY <2>a, <3>1, <4>1
    <3>4. CASE c = ch /\ ~Noisy(ch)
      <4>1. /\ quietRun'[c] = quietRun[c] + 1
            /\ calSamples'[c] = Dec(calSamples[c])
            /\ calSamples[c] # 0 /\ c \in chCalib
        BY <2>2, <3>1, <3>4 DEF CalibrationSample, CalibrationSamples, TypeOK
      <4>2. calSamples'[c] = calSamples[c] - 1
        BY <2>c, <3>1, <4>1, DecExact
      <4> QED
        BY <2>0, <2>a, <2>c, <3>1, <4>1, <4>2
    <3> QED
      BY <3>2, <3>3, <3>4
  <2>3. ASSUME NEW ch \in chEnabled,
               GoodSample(ch) \/ LossSample(ch) \/ SuspendChannel(ch)
        PROVE  (quietRun[c] + Due(c) >= MinSamples)'
    BY <2>0, <2>3 DEF GoodSample, LossSample, SuspendChannel, stored
  <2>4. ASSUME NEW S \in SUBSET Ch, Recalibration(S)
        PROVE  (quietRun[c] + Due(c) >= MinSamples)'
    <3>1. c \in Ch /\ c \in chEnabled \cup S
      BY <2>4 DEF Recalibration, TypeOK
    <3>2. CASE c \in S
      <4>1. quietRun'[c] = 0 /\ calSamples'[c] = prm.samples /\ c \in chCalib'
        BY <2>4, <3>1, <3>2, RecalibrateValues DEF Recalibration
      <4> QED
        BY <2>a, <4>1
    <3>3. CASE c \notin S
      BY <2>0, <2>4, <3>1, <3>3, RecalibrateValues DEF Recalibration
    <3> QED
      BY <3>2, <3>3
  <2>5. CASE Reboot
    BY <2>5, <2>a DEF Reboot, Zeroes, TypeOK, stored
  <2>6. CASE UNCHANGED evidence
    BY <2>0, <2>6 DEF evidence
  <2> QED
    BY <2>1, <2>2, <2>3, <2>4, <2>5, <2>6, StepKinds
<1>3. TypeOK /\ SeriesUnderWay => MonitoredAfterQuietSeries
  <2> SUFFICES ASSUME TypeOK, SeriesUnderWay, NEW ch \in chEnabled \ chCalib
               PROVE  quietRun[ch] >= MinSamples
    BY DEF MonitoredAfterQuietSeries
  <2>1. quietRun[ch] \in Nat /\ quietRun[ch] + 0 >= MinSamples
    BY DEF TypeOK, SeriesUnderWay
  <2> QED
    BY <2>1
<1> QED
  BY <1>1, <1>2, <1>3, TypeCorrect, PTL DEF Spec

-----------------------------------------------------------------------------
(***************************************************************************)
(* The mux, the relay and the reported masks.                              *)
(***************************************************************************)

\* The mux and the meter are on the selected channel after every step.
THEOREM MuxIsOnSelection == Spec => []MuxFollowsSelection
<1>1. Init => MuxFollowsSelection
  BY DEF Init, MuxFollowsSelection
<1>2. MuxFollowsSelection /\ [Next]_vars => MuxFollowsSelection'
  <2> SUFFICES ASSUME MuxFollowsSelection, [Next]_vars
               PROVE  MuxFollowsSelection'
    OBVIOUS
  <2>1. CASE ControlLoop
    <3>1. PICK ch \in Ch : sampleChannel(ch)
      BY <2>1 DEF ControlLoop, Sample, CalibrationEnds, CalibrationSample,
                  SampleUnmonitored, GoodSample, LossSample, SuspendChannel,
                  DeclareFault, MonitorSample
    <3> QED
      BY <3>1 DEF MuxFollowsSelection, sampleChannel, switchAnalogMux, Selects
  <2>2. CASE Reboot
    BY <2>2 DEF Reboot, MuxFollowsSelection
  <2>3. CASE UNCHANGED position
    BY <2>3 DEF MuxFollowsSelection, position
  <2>4. CASE CmdTask \/ CmdTaskRecalibrates \/ Environment \/ UNCHANGED vars
    BY <2>3, <2>4 DEF CmdTask, CmdTaskRecalibrates, Environment,
                      getActiveChannels, LoadChanges, vars
  <2>5. CASE Operator
    BY <2>2, <2>3, <2>5
    DEF Operator, AddEnabled, RemoveEnabled, controlSetEnabled, AddCritical,
        RemoveCritical, controlSetCritical, ForceCalibration, SetMonitoring,
        ForceFaultSignal, SetParams, BtnTask
  <2> QED
    BY <2>1, <2>4, <2>5 DEF Next
<1> QED
  BY <1>1, <1>2, PTL DEF Spec

\* The flag the status report prints as LAMP implies that the relay is on.
THEOREM FlagImpliesRelay == Spec => []FaultFlagOnRelay
<1>1. Init => FaultFlagOnRelay
  BY DEF Init, FaultFlagOnRelay
<1>2. FaultFlagOnRelay /\ [Next]_vars => FaultFlagOnRelay'
  <2> SUFFICES ASSUME FaultFlagOnRelay, [Next]_vars PROVE FaultFlagOnRelay'
    OBVIOUS
  <2>1. CASE UNCHANGED <<cfFaulted, relay>>
    BY <2>1 DEF FaultFlagOnRelay
  <2>2. CASE controlNotifyFaulted
    BY <2>2 DEF controlNotifyFaulted, FaultFlagOnRelay
  <2>3. CASE ~cfFaulted'
    BY <2>3 DEF FaultFlagOnRelay
  <2>4. CASE ControlLoop
    BY <2>1, <2>2, <2>4
    DEF ControlLoop, Sample, CalibrationEnds, CalibrationSample,
        SampleUnmonitored, GoodSample, LossSample, SuspendChannel,
        DeclareFault, flags
  <2>5. CASE CmdTask \/ CmdTaskRecalibrates \/ Environment \/ UNCHANGED vars
    BY <2>1, <2>3, <2>5
    DEF CmdTask, CmdTaskRecalibrates, controlCalibration, Environment,
        getActiveChannels, LoadChanges, vars, flags
  <2>6. CASE Operator
    BY <2>1, <2>2, <2>3, <2>6
    DEF Operator, AddEnabled, RemoveEnabled, controlSetEnabled, AddCritical,
        RemoveCritical, controlSetCritical, ForceCalibration, SetMonitoring,
        ForceFaultSignal, SetParams, BtnTask, Reboot, controlCalibration,
        flags
  <2> QED
    BY <2>4, <2>5, <2>6 DEF Next
<1> QED
  BY <1>1, <1>2, PTL DEF Spec
=============================================================================
