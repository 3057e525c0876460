------------------------------ MODULE Signals -------------------------------
(***************************************************************************)
(* The signals of port C (src/ade/signals.c, signals.h) between their      *)
(* interrupt handler and the main loop that serves them: the port expander *)
(* reports that the lamps changed, the unit reports a fault, the meter the *)
(* zero crossings of the mains, which the program waits for when it        *)
(* measures another channel than before.                                   *)
(*                                                                         *)
(* The handler is short: it runs before the program's next instruction and *)
(* before the next edge.  signals_pending and PCMSK2 are bytes in memory   *)
(* the program changes by a load, a change and a store, and the handler    *)
(* may run between the load and the store.                                 *)
(***************************************************************************)
EXTENDS Naturals, FiniteSets

CONSTANTS
  Lamps,       \* the sets of channels the crossing powers together
  BootChannel, \* the channel controlSetup measures: the last one, curCh = 15
  MaxChanges,  \* bound: changes of the lamps
  MaxFaults    \* bound: edges of the unit's line

AllLamps == UNION Lamps

ASSUME SignalsAssumption ==
  /\ IsFiniteSet(AllLamps) /\ Lamps # {}
  /\ MaxChanges \in Nat /\ MaxFaults \in Nat

Pin == {"i2c", "unit", "zx"}

VARIABLES
  lamps,     \* the powered channels
  latch,     \* the inputs the expander was last asked for: INT is low when
             \* they are not the lamps
  unit, zx,  \* the level of the unit's line, of the zero crossing output
  mains,     \* the mains are present
  status,    \* signals_status: the levels the handler saw last
  pending,   \* signals_pending
  enabled,   \* PCMSK2
  at,        \* the main loop: its next step
  reg,       \* the byte the program has loaded and not yet stored, or {}
  acm,       \* the mask of getActiveChannels
  meter,     \* prevAdeCh: the channel the meter was last reset for
  changes, faults,  \* edges so far
  \* history: the last edge of INT was erased, misread or before the boot; the
  \* last fault was reported; a store erased a signal of the unit
  missed, told, erased

world   == <<lamps, latch, unit, zx, mains, changes, faults>>
intr    == <<status, pending, enabled>>
program == <<at, reg, acm, meter>>
history == <<missed, told, erased>>
vars == <<world, intr, program, history>>

TypeOK ==
  /\ lamps \in Lamps /\ latch \in Lamps
  /\ unit \in BOOLEAN /\ zx \in BOOLEAN /\ mains \in BOOLEAN
  /\ status \in [Pin -> BOOLEAN] /\ pending \subseteq Pin
  /\ enabled \subseteq Pin /\ "i2c" \in enabled  \* nothing ever disables INT
  /\ at \in {"unit", "clearUnit", "report", "i2c", "clearI2c", "read", "scan",
             "enable", "enable1", "enable2", "wait", "clearZx"}
  /\ reg \subseteq Pin /\ acm \subseteq AllLamps
  /\ meter \in AllLamps \cup {BootChannel}
  /\ changes \in 0 .. MaxChanges /\ faults \in 0 .. MaxFaults
  /\ missed \in BOOLEAN /\ told \in BOOLEAN /\ erased \in BOOLEAN

-----------------------------------------------------------------------------
Levels(l, r, u, z) == [p \in Pin |-> CASE p = "i2c"  -> l = r
                                       [] p = "unit" -> u
                                       [] p = "zx"   -> z]
Lines == Levels(lamps, latch, unit, zx)

\* MUTANT: the handler of the expander disables its interrupt like the others
MutDisables == {"i2c", "unit", "zx"}

\* The handlers with SET_AND_DISABLE
Disables == {"unit", "zx"}

\* MUTANT: only the pins whose interrupt is enabled are looked at
MutChanged(new) == {p \in enabled : new[p] # status[p]}

Changed(new) == {p \in Pin : new[p] # status[p]}

\* PCINT2: an edge of an enabled pin runs the handler, which looks at them all
Edge(new) ==
  IF \E p \in enabled : new[p] # Lines[p]
    THEN /\ pending' = pending \cup Changed(new)
         /\ enabled' = enabled \ (Changed(new) \cap Disables)
         /\ status' = new
    ELSE UNCHANGED intr

-----------------------------------------------------------------------------
(***************************************************************************)
(* The world.                                                              *)
(***************************************************************************)
LampsChange ==
  /\ changes < MaxChanges /\ changes' = changes + 1
  /\ lamps' \in Lamps \ {lamps}
  /\ Edge(Levels(lamps', latch, unit, zx))
  /\ missed' = IF (lamps' = latch) # (lamps = latch) THEN FALSE ELSE missed
  /\ UNCHANGED <<latch, unit, zx, mains, faults, program, told, erased>>

\* A pulse that begins and ends between two runs of the handler is no fault
UnitChanges ==
  /\ faults < MaxFaults /\ faults' = faults + 1
  /\ unit' = ~unit
  /\ Edge(Levels(lamps, latch, unit', zx))
  /\ told' = (IF unit' /\ ~status["unit"] THEN FALSE ELSE told \/ ~unit')
  /\ UNCHANGED <<lamps, latch, zx, mains, changes, program, missed, erased>>

ZeroCrossing ==
  /\ mains
  /\ zx' = ~zx
  /\ Edge(Levels(lamps, latch, unit, zx'))
  /\ UNCHANGED <<lamps, latch, unit, mains, changes, faults, program, history>>

MainsChange ==
  /\ mains' = ~mains
  /\ UNCHANGED <<lamps, latch, unit, zx, changes, faults, intr, program, history>>

-----------------------------------------------------------------------------
(***************************************************************************)
(* The main loop.                                                          *)
(***************************************************************************)
\* signal_pending: the byte is loaded and tested; the bit is cleared and the
\* byte stored by the step "hit"
Test(sig, hit, miss) ==
  /\ \/ sig \in pending    /\ at' = hit  /\ reg' = pending
     \/ sig \notin pending /\ at' = miss /\ reg' = {}
  /\ UNCHANGED <<world, intr, acm, meter, history>>

\* ... which erases what the handler has set since
Clear(sig) ==
  /\ pending' = reg \ {sig}
  /\ missed' = (missed \/ "i2c" \in (pending \ reg))
  /\ erased' = (erased \/ "unit" \in (pending \ reg))
  /\ UNCHANGED <<status, enabled>>

CheckUnit == at = "unit" /\ Test("unit", "clearUnit", "i2c")

ClearUnit ==
  /\ at = "clearUnit" /\ Clear("unit") /\ at' = "report" /\ reg' = {}
  /\ UNCHANGED <<world, acm, meter, told>>

\* notifyFault
Report ==
  /\ at = "report" /\ at' = "i2c"
  /\ told' = (told \/ status["unit"])
  /\ UNCHANGED <<world, intr, reg, acm, meter, missed, erased>>

CheckI2c == at = "i2c" /\ Test("i2c", "clearI2c", "scan")

ClearI2c ==
  /\ at = "clearI2c" /\ Clear("i2c") /\ at' = "read" /\ reg' = {}
  /\ UNCHANGED <<world, acm, meter, told>>

\* pca9555_in: the inputs are low for the powered channels, and reading them
\* raises INT
ReadMask ==
  /\ at = "read" /\ at' = "scan"
  /\ latch' = lamps /\ acm' = lamps
  /\ Edge(Levels(lamps, latch', unit, zx))
  /\ UNCHANGED <<lamps, unit, zx, mains, changes, faults, reg, meter, history>>

\* pca9555_in fails and the mask is inverted all the same: the old one when the
\* expander did not answer, bytes 0xFF when the error came later
ReadFails ==
  /\ at = "read" /\ at' = "scan"
  /\ \/ acm' = AllLamps \ acm /\ latch' = latch
     \/ acm' = {} /\ latch' \in {latch, lamps}
  /\ Edge(Levels(lamps, latch', unit, zx))
  /\ missed' = TRUE
  /\ UNCHANGED <<lamps, unit, zx, mains, changes, faults, reg, meter, told, erased>>

\* sampleChannel: no powered channel is enabled and unsuspended, or one of them
\* is measured, the lossy ones first (ChannelMonitor).  readMeter resets the
\* meter, and waits for a zero crossing, only for another channel than before.
Scan ==
  /\ at = "scan"
  /\ \/ at' = "unit" /\ UNCHANGED meter
     \/ \E ch \in acm :
          /\ meter' = ch
          /\ at' = IF ch = meter THEN "unit" ELSE "enable"
  /\ UNCHANGED <<world, intr, reg, acm, history>>

\* MUTANT: the interrupt is enabled before the bit is cleared
MutEnableStep(step) ==
  \/ step = 1 /\ reg' = enabled /\ UNCHANGED <<intr, missed, erased>>
  \/ /\ step = 2 /\ reg' = pending /\ enabled' = reg \cup {"zx"}
     /\ UNCHANGED <<status, pending, missed, erased>>
  \/ step = 3 /\ Clear("zx") /\ reg' = {}

\* signal_enable: the pending bit is cleared, then the interrupt is enabled,
\* by a load and a store each
EnableStep(step) ==
  \/ step = 1 /\ reg' = pending /\ UNCHANGED <<intr, missed, erased>>
  \/ step = 2 /\ Clear("zx") /\ reg' = enabled
  \/ /\ step = 3 /\ reg' = {} /\ enabled' = reg \cup {"zx"}
     /\ UNCHANGED <<status, pending, missed, erased>>

\* signal_wait, in resetMeter
Enable ==
  /\ \/ at = "enable"  /\ EnableStep(1) /\ at' = "enable1"
     \/ at = "enable1" /\ EnableStep(2) /\ at' = "enable2"
     \/ at = "enable2" /\ EnableStep(3) /\ at' = "wait"
  /\ UNCHANGED <<world, acm, meter, told>>

Wait == at = "wait" /\ Test("zx", "clearZx", "wait")

ClearZx ==
  /\ at = "clearZx" /\ Clear("zx") /\ at' = "unit" /\ reg' = {}
  /\ UNCHANGED <<world, acm, meter, told>>

\* Eight seconds without a crossing: the wait has ended long before that while
\* the mains are there.  signals_init reads the lines as they are and
\* controlSetup measures once; only a later edge makes itself known.
Boots(u, levels) ==
  /\ status' = levels /\ pending' = {} /\ enabled' = {"i2c", "unit"}
  /\ at' = "enable" /\ reg' = {} /\ acm' = {} /\ meter' = BootChannel
  /\ missed' = TRUE /\ told' = TRUE /\ erased' = FALSE

WatchdogResets ==
  /\ at = "wait" /\ ~mains
  /\ Boots(unit, Lines)
  /\ UNCHANGED world

-----------------------------------------------------------------------------
Init ==
  /\ lamps \in Lamps /\ latch \in Lamps
  /\ unit \in BOOLEAN /\ zx \in BOOLEAN /\ mains \in BOOLEAN
  /\ changes = 0 /\ faults = 0
  /\ status = Lines /\ pending = {} /\ enabled = {"i2c", "unit"}
  /\ at = "enable" /\ reg = {} /\ acm = {} /\ meter = BootChannel
  /\ missed = TRUE /\ told = TRUE /\ erased = FALSE

MainLoop ==
  \/ CheckUnit \/ ClearUnit \/ Report
  \/ CheckI2c \/ ClearI2c \/ ReadMask \/ ReadFails \/ Scan
  \/ Enable \/ Wait \/ ClearZx

World == LampsChange \/ UnitChanges \/ ZeroCrossing \/ MainsChange

Next == World \/ MainLoop \/ WatchdogResets

\* The loop runs, and the mains alternate while they are there
Spec == Init /\ [][Next]_vars /\ WF_vars(MainLoop) /\ WF_vars(ZeroCrossing)

-----------------------------------------------------------------------------
(***************************************************************************)
(* Properties.                                                             *)
(***************************************************************************)
\* No change of the lamps goes unnoticed: the mask is theirs, or the signal of
\* the expander is pending or being served, unless the last edge of INT was
\* erased by a store, was misread, or came before the boot.  The handler of the
\* expander may run between any load and its store, and INT rises only with a
\* reading, so two changes may make one edge.
MaskCurrentOrDue ==
  missed \/ acm = lamps \/ "i2c" \in pending \/ at = "read"

\* Once the mains are there and the lamps stand still the mask is theirs, unless
\* the last edge of INT was erased by a store, was misread, or came before the
\* boot: a change between clearing the signal and reading is not lost.
MaskCatchesUp == <>[]mains => <>[](missed \/ acm = lamps)

\* signal_wait ends and the loop goes on for as long as the mains are there:
\* no crossing between the two halves of signal_enable leaves the interrupt
\* off with nothing pending, whatever the stores erase.
WaitEnds == <>[]mains => []<>(at = "unit")

\* ... for in the wait the interrupt is on or has come: the crossing may fall
\* between any two of the loads and stores of signal_enable.
WaitArmed == at = "wait" => "zx" \in pending \cup enabled

\* The unit's interrupt is off after its first edge, and only signal_enable of
\* the zero crossing brings the handler to its line again: while the scan goes
\* from channel to channel a fault that lasts is reported, the second as well,
\* unless a store erased its signal.  With one channel measured nobody looks.
FaultReported ==
  <>[](mains /\ unit) /\ []<><<meter' # meter>>_meter => <>[](told \/ erased)

\* ... for a fault the handler has seen is reported or still due: its signal is
\* pending or served, unless a store erased it.
FaultToldOrDue ==
  status["unit"] => told \/ erased \/ "unit" \in pending \/ at = "report"

\* "Get the bitmaks of powered-on channels": the mask was true at some time of
\* the lamps (or nothing is powered).
MaskIsOfLamps == acm \in Lamps \cup {{}}

\* "The mask of signals which are pedning (waiting to be processed)": a signal
\* leaves it only when the program serves that signal.
PendingUntilServed ==
  [][\A sig \in pending \ pending' :
       \/ sig = "unit" /\ at = "clearUnit"
       \/ sig = "i2c"  /\ at = "clearI2c"
       \/ sig = "zx"   /\ at \in {"enable1", "enable2", "clearZx"}
       \/ WatchdogResets]_vars
=============================================================================
