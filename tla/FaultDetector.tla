--------------------------- MODULE FaultDetector ----------------------------
(***************************************************************************)
(* What the fault detector promises of each channel: it goes from its      *)
(* calibration to being monitored, comes in doubt with a loss, and back    *)
(* with a good sample; it is declared faulty only with enough losses in a  *)
(* row, of which none is measured while it is off, calibrated or resting   *)
(* between two checks.  No channel is touched by the sample of another.    *)
(***************************************************************************)
EXTENDS Naturals

CONSTANTS
  Channels,
  Needed     \* the losses in a row a fault takes at least

VARIABLES
  phase,    \* of each channel
  losses,   \* of each channel, in a row since it was last good
  resting,  \* the channels that are not sampled until their next check
  faulted   \* the faults declared since the last calibration of all channels

channelVars == <<phase, losses, resting, faulted>>

On == {c \in Channels : phase[c] # "off"}
Compared(c) == phase[c] \in {"monitored", "doubtful"} /\ c \notin resting

Calibrated(c) ==
  /\ phase[c] = "calibrating" /\ c \notin resting
  /\ phase' = [phase EXCEPT ![c] = "monitored"]
  /\ UNCHANGED <<losses, resting, faulted>>

Good(c) ==
  /\ Compared(c)
  /\ phase' = [phase EXCEPT ![c] = "monitored"]
  /\ losses' = [losses EXCEPT ![c] = 0]
  /\ UNCHANGED <<resting, faulted>>

Loss(c) ==
  /\ Compared(c)
  /\ phase' = [phase EXCEPT ![c] = "doubtful"]
  /\ losses' = [losses EXCEPT ![c] = @ + 1]
  /\ resting' \in {resting, resting \cup {c}}
  /\ UNCHANGED faulted

Fault(c) ==
  /\ Compared(c) /\ losses[c] + 1 >= Needed
  /\ phase' = [phase EXCEPT ![c] = "calibrating"]
  /\ losses' = [losses EXCEPT ![c] = 0]
  /\ faulted' = faulted \cup {c}
  /\ UNCHANGED resting

Resume == resting' = {} /\ UNCHANGED <<phase, losses, faulted>>

\* A command, the button, the periodic calibration or a reset
CalibrateAll ==
  /\ phase' = [c \in Channels |-> IF c \in On THEN "calibrating" ELSE "off"]
  /\ losses' = [c \in Channels |-> 0]
  /\ resting' = {} /\ faulted' = {}

\* Only the channels that are switched on are calibrated
Switch(on) ==
  /\ phase' = [c \in Channels |-> IF c \notin on THEN "off"
                                  ELSE IF c \notin On THEN "calibrating"
                                  ELSE phase[c]]
  /\ losses' = [c \in Channels |-> IF c \in on \cap On THEN losses[c] ELSE 0]
  /\ UNCHANGED <<resting, faulted>>

ChannelInit ==
  /\ phase \in [Channels -> {"off", "calibrating"}]
  /\ losses = [c \in Channels |-> 0] /\ resting = {} /\ faulted = {}

ChannelNext ==
  \/ \E c \in Channels : Calibrated(c) \/ Good(c) \/ Loss(c) \/ Fault(c)
  \/ Resume \/ CalibrateAll
  \/ \E on \in SUBSET Channels : Switch(on)

ChannelSpec == ChannelInit /\ [][ChannelNext]_channelVars
=============================================================================
