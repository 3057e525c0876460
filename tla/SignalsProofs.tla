--------------------------- MODULE SignalsProofs ----------------------------
(* Safety of the signals, for any lamps and any number of changes. *)
EXTENDS Signals, TLAPS

\* A mask that is not up to date is due to be read; the handler has seen INT as
\* it is, for nothing disables its interrupt, not even the store of PCMSK2.
SignalsInv ==
  /\ TypeOK
  /\ at = "enable2" => "i2c" \in reg
  /\ status["i2c"] = (lamps = latch)
  /\ \/ missed \/ "i2c" \in pending \/ at = "read"
     \/ acm = lamps /\ lamps = latch

-----------------------------------------------------------------------------
\* What an edge, or a change that is none, leaves of the handler's bytes.
LEMMA EdgeFacts ==
  ASSUME TypeOK, NEW new \in [Pin -> BOOLEAN], Edge(new),
         status["i2c"] = Lines["i2c"]
  PROVE  /\ status' \in [Pin -> BOOLEAN] /\ pending' \subseteq Pin
         /\ enabled' \subseteq Pin /\ "i2c" \in enabled'
         /\ pending \subseteq pending'
         /\ status'["i2c"] = new["i2c"]
         /\ new["i2c"] # Lines["i2c"] => "i2c" \in pending'
<1>1. CASE \E p \in enabled : new[p] # Lines[p]
  BY <1>1 DEF TypeOK, Edge, Changed, Disables, Pin
<1>2. CASE ~\E p \in enabled : new[p] # Lines[p]
  <2>1. new["i2c"] = Lines["i2c"]
    BY <1>2 DEF TypeOK
  <2> QED
    BY <1>2, <2>1 DEF TypeOK, Edge, intr
<1> QED
  BY <1>1, <1>2

\* The levels of the lines.
LEMMA LevelFacts ==
  ASSUME NEW l, NEW r, NEW u \in BOOLEAN, NEW z \in BOOLEAN
  PROVE  /\ Levels(l, r, u, z) \in [Pin -> BOOLEAN]
         /\ Levels(l, r, u, z)["i2c"] = (l = r)
BY DEF Levels, Pin

\* ... as they are now.
LEMMA LinesNow ==
  ASSUME SignalsInv
  PROVE  /\ TypeOK /\ Lines \in [Pin -> BOOLEAN]
         /\ Lines["i2c"] = (lamps = latch)
<1>1. TypeOK
  BY DEF SignalsInv
<1>2. unit \in BOOLEAN /\ zx \in BOOLEAN
  BY <1>1 DEF TypeOK
<1> QED
  BY <1>1, <1>2, LevelFacts DEF Lines

-----------------------------------------------------------------------------
\* At boot the handler has seen the lines, and the mask is missed.
LEMMA InvInit == Init => SignalsInv
<1> SUFFICES ASSUME Init PROVE SignalsInv
  OBVIOUS
<1>1. Lines \in [Pin -> BOOLEAN] /\ Lines["i2c"] = (lamps = latch)
  BY LevelFacts DEF Init, Lines
<1>2. MaxChanges \in Nat /\ MaxFaults \in Nat
  BY SignalsAssumption
<1>3. status \in [Pin -> BOOLEAN] /\ status["i2c"] = (lamps = latch)
  BY <1>1 DEF Init
<1>4. 0 \in 0 .. MaxChanges /\ 0 \in 0 .. MaxFaults
  BY <1>2
<1>5. TypeOK
  <2>1. /\ pending \subseteq Pin /\ enabled \subseteq Pin
        /\ "i2c" \in enabled /\ reg \subseteq Pin /\ acm \subseteq AllLamps
    BY DEF Init, Pin
  <2> QED
    BY <1>3, <1>4, <2>1, Zenon DEF Init, TypeOK
<1> QED
  BY <1>3, <1>5, Zenon DEF Init, SignalsInv

\* The steps of the world: what changes is seen by the handler.
LEMMA WorldKeeps ==
  ASSUME SignalsInv, World
  PROVE  SignalsInv'
<1>1. Lines["i2c"] = (lamps = latch) /\ TypeOK
  BY LinesNow
<1>2. CASE LampsChange
  <2> DEFINE new == Levels(lamps', latch, unit, zx)
  <2>1. /\ new \in [Pin -> BOOLEAN] /\ new["i2c"] = (lamps' = latch)
        /\ Edge(new)
    BY <1>1, <1>2, LevelFacts DEF TypeOK, LampsChange
  <2>2. /\ status' \in [Pin -> BOOLEAN] /\ pending' \subseteq Pin
        /\ enabled' \subseteq Pin /\ "i2c" \in enabled'
        /\ pending \subseteq pending'
        /\ status'["i2c"] = (lamps' = latch)
        /\ (lamps' = latch) # (lamps = latch) => "i2c" \in pending'
    BY <1>1, <2>1, EdgeFacts DEF SignalsInv
  <2>3. lamps' \in Lamps /\ changes' \in 0 .. MaxChanges /\ latch' = latch
    BY <1>1, <1>2, SignalsAssumption DEF TypeOK, LampsChange
  <2>4. missed' \in BOOLEAN /\ ((lamps' = latch) = (lamps = latch) => missed' = missed)
    BY <1>1, <1>2, Zenon DEF TypeOK, LampsChange
  <2>5. /\ UNCHANGED <<unit, zx, mains, faults, at, reg, acm, meter, told, erased>>
    BY <1>2 DEF LampsChange, program
  <2>6. TypeOK'
    BY <1>1, <2>2, <2>3, <2>4, <2>5 DEF TypeOK
  <2>7. \/ missed' \/ "i2c" \in pending' \/ at' = "read"
        \/ acm' = lamps' /\ lamps' = latch'
    <3>1. CASE (lamps' = latch) # (lamps = latch)
      BY <2>2, <3>1
    <3>2. CASE (lamps' = latch) = (lamps = latch)
      BY <1>2, <2>2, <2>3, <2>4, <2>5, <3>2 DEF SignalsInv, LampsChange
    <3> QED
      BY <3>1, <3>2
  <2> QED
    BY <2>2, <2>3, <2>5, <2>6, <2>7, Zenon DEF SignalsInv
<1>3. CASE UnitChanges
  <2> DEFINE new == Levels(lamps, latch, unit', zx)
  <2>1. unit' \in BOOLEAN
    BY <1>1, <1>3 DEF TypeOK, UnitChanges
  <2>2. new \in [Pin -> BOOLEAN] /\ new["i2c"] = (lamps = latch)
    BY <1>1, <2>1, LevelFacts DEF TypeOK
  <2> HIDE DEF new
  <2>5. Edge(new)
    BY <1>3, Zenon DEF UnitChanges, new
  <2>3. /\ status' \in [Pin -> BOOLEAN] /\ pending' \subseteq Pin
        /\ enabled' \subseteq Pin /\ "i2c" \in enabled'
        /\ pending \subseteq pending'
        /\ status'["i2c"] = (lamps = latch)
    BY <1>1, <2>2, <2>5, EdgeFacts DEF SignalsInv
  <2>4. told' \in BOOLEAN
    BY <1>1, <1>3, Zenon DEF TypeOK, UnitChanges
  <2>6. faults' \in 0 .. MaxFaults
    BY <1>1, <1>3, SignalsAssumption, SMT DEF TypeOK, UnitChanges
  <2> QED
    BY <1>1, <1>3, <2>1, <2>3, <2>4, <2>6
    DEF SignalsInv, TypeOK, UnitChanges, program
<1>4. CASE ZeroCrossing
  <2> DEFINE new == Levels(lamps, latch, unit, zx')
  <2>1. zx' \in BOOLEAN
    BY <1>1, <1>4 DEF TypeOK, ZeroCrossing
  <2>2. new \in [Pin -> BOOLEAN] /\ new["i2c"] = (lamps = latch)
    BY <1>1, <2>1, LevelFacts DEF TypeOK
  <2> HIDE DEF new
  <2>4. Edge(new)
    BY <1>4, Zenon DEF ZeroCrossing, new
  <2>3. /\ status' \in [Pin -> BOOLEAN] /\ pending' \subseteq Pin
        /\ enabled' \subseteq Pin /\ "i2c" \in enabled'
        /\ pending \subseteq pending'
        /\ status'["i2c"] = (lamps = latch)
    BY <1>1, <2>2, <2>4, EdgeFacts DEF SignalsInv
  <2> QED
    BY <1>1, <1>4, <2>1, <2>3
    DEF SignalsInv, TypeOK, ZeroCrossing, program, history
<1>5. CASE MainsChange
  BY <1>1, <1>5 DEF SignalsInv, TypeOK, MainsChange, intr, program, history
<1> QED
  BY <1>2, <1>3, <1>4, <1>5 DEF World

\* The steps that read the expander: INT rises.
LEMMA ReadingKeeps ==
  ASSUME SignalsInv, ReadMask \/ ReadFails
  PROVE  SignalsInv'
<1>1. Lines["i2c"] = (lamps = latch) /\ TypeOK
  BY LinesNow
<1> DEFINE new == Levels(lamps, latch', unit, zx)
<1>2. /\ new \in [Pin -> BOOLEAN] /\ new["i2c"] = (lamps = latch')
      /\ Edge(new)
  BY <1>1, LevelFacts DEF TypeOK, ReadMask, ReadFails
<1>3. /\ status' \in [Pin -> BOOLEAN] /\ pending' \subseteq Pin
      /\ enabled' \subseteq Pin /\ "i2c" \in enabled'
      /\ pending \subseteq pending'
      /\ status'["i2c"] = (lamps = latch')
  BY <1>1, <1>2, EdgeFacts DEF SignalsInv
<1>4. latch' \in Lamps /\ acm' \subseteq AllLamps
  BY <1>1 DEF TypeOK, ReadMask, ReadFails, AllLamps
<1> QED
  BY <1>1, <1>3, <1>4 DEF SignalsInv, TypeOK, ReadMask, ReadFails, history

\* The other steps of the program: a store that erases the signal says so.
LEMMA ProgramKeeps ==
  ASSUME SignalsInv, MainLoop, ~ReadMask, ~ReadFails
  PROVE  SignalsInv'
<1>1. TypeOK
  BY DEF SignalsInv
<1>2. CASE CheckUnit \/ CheckI2c \/ Wait
  BY <1>2 DEF SignalsInv, TypeOK, CheckUnit, CheckI2c, Wait, Test, world,
              intr, history
<1>3. CASE ClearUnit \/ ClearZx
  BY <1>3 DEF SignalsInv, TypeOK, ClearUnit, ClearZx, Clear, world
<1>4. CASE ClearI2c
  BY <1>4 DEF SignalsInv, TypeOK, ClearI2c, Clear, world
<1>5. CASE Report \/ Scan
  BY <1>5 DEF SignalsInv, TypeOK, Report, Scan, world, intr, history
<1>6. CASE Enable
  <2>1. CASE at = "enable" /\ EnableStep(1) /\ at' = "enable1"
    BY <1>6, <2>1 DEF SignalsInv, TypeOK, Enable, EnableStep, world, intr
  <2>2. CASE at = "enable1" /\ EnableStep(2) /\ at' = "enable2"
    <3>1. Clear("zx") /\ reg' = enabled
      BY <2>2 DEF EnableStep
    <3> QED
      BY <1>6, <2>2, <3>1 DEF SignalsInv, TypeOK, Enable, Clear, world
  <2>3. CASE at = "enable2" /\ EnableStep(3) /\ at' = "wait"
    <3>1. /\ reg' = {} /\ enabled' = reg \cup {"zx"}
          /\ UNCHANGED <<status, pending, missed, erased>>
      BY <2>3 DEF EnableStep
    <3> QED
      BY <1>6, <2>3, <3>1 DEF SignalsInv, TypeOK, Enable, world, Pin
  <2> QED
    BY <1>6, <2>1, <2>2, <2>3 DEF Enable
<1> QED
  BY <1>2, <1>3, <1>4, <1>5, <1>6 DEF MainLoop

\* A boot reads the lines as they are.
LEMMA BootKeeps ==
  ASSUME SignalsInv, WatchdogResets
  PROVE  SignalsInv'
<1>1. Lines \in [Pin -> BOOLEAN] /\ Lines["i2c"] = (lamps = latch)
  BY LinesNow
<1> QED
  BY <1>1 DEF SignalsInv, TypeOK, WatchdogResets, Boots, world, Pin

\* The inductive invariant of the signals holds for any world.
THEOREM InvHolds == Spec => []SignalsInv
<1>1. SignalsInv /\ [Next]_vars => SignalsInv'
  <2> SUFFICES ASSUME SignalsInv, [Next]_vars PROVE SignalsInv'
    OBVIOUS
  <2>1. CASE UNCHANGED vars
    BY <2>1 DEF SignalsInv, TypeOK, vars, world, intr, program, history
  <2> QED
    BY <2>1, WorldKeeps, ReadingKeeps, ProgramKeeps, BootKeeps DEF Next
<1> QED
  BY <1>1, InvInit, PTL DEF Spec

-----------------------------------------------------------------------------
\* The bytes of signals.c hold pins, and the interrupt of the expander is never
\* off, although signal_enable stores a byte it loaded before.
THEOREM TypeCorrect == Spec => []TypeOK
<1>1. SignalsInv => TypeOK
  BY DEF SignalsInv
<1> QED
  BY <1>1, InvHolds, PTL

\* No change of the lamps goes unnoticed: the mask of the powered channels is
\* up to date or due to be read.
THEOREM ChangesAreNoticed == Spec => []MaskCurrentOrDue
<1>1. SignalsInv => MaskCurrentOrDue
  BY DEF SignalsInv, MaskCurrentOrDue
<1> QED
  BY <1>1, InvHolds, PTL

-----------------------------------------------------------------------------
(***************************************************************************)
(* The wait for the zero crossing, and the fault of the unit.              *)
(***************************************************************************)
ServedInv == WaitArmed /\ FaultToldOrDue

\* What the handler disables is pending, and what it sees changed as well.
LEMMA EdgeArms ==
  ASSUME TypeOK, NEW new \in [Pin -> BOOLEAN], Edge(new)
  PROVE  /\ pending \cup enabled \subseteq pending' \cup enabled'
         /\ pending \subseteq pending'
         /\ \A p \in Pin : status'[p] # status[p] => p \in pending'
<1>1. CASE \E p \in enabled : new[p] # Lines[p]
  BY <1>1 DEF TypeOK, Edge, Changed
<1>2. CASE ~\E p \in enabled : new[p] # Lines[p]
  BY <1>2 DEF Edge, intr
<1> QED
  BY <1>1, <1>2

\* The steps that move a line keep both: the last fault is forgotten only by
\* one that comes when the handler has seen none.
LEMMA LinesServe ==
  ASSUME SignalsInv, ServedInv,
         World \/ ReadMask \/ ReadFails
  PROVE  ServedInv'
<1>1. TypeOK /\ "unit" \in Pin
  BY DEF SignalsInv, Pin
<1>2. ASSUME NEW new \in [Pin -> BOOLEAN], Edge(new), at' # "wait" \/ at = "wait",
             at = "report" => at' = "report", erased' = erased,
             told => told' \/ ~status["unit"]
      PROVE  ServedInv'
  <2>1. /\ pending \cup enabled \subseteq pending' \cup enabled'
        /\ pending \subseteq pending'
        /\ status'["unit"] # status["unit"] => "unit" \in pending'
    BY <1>1, <1>2, EdgeArms
  <2> QED
    BY <1>2, <2>1 DEF ServedInv, WaitArmed, FaultToldOrDue
<1>3. CASE LampsChange
  <2>1. Levels(lamps', latch, unit, zx) \in [Pin -> BOOLEAN]
    BY <1>1, LevelFacts DEF TypeOK
  <2> QED
    BY <1>2, <1>3, <2>1 DEF LampsChange, program
<1>4. CASE UnitChanges
  <2>1. Levels(lamps, latch, unit', zx) \in [Pin -> BOOLEAN]
    BY <1>1, <1>4, LevelFacts DEF TypeOK, UnitChanges
  <2>2. told => told' \/ ~status["unit"]
    BY <1>4, Zenon DEF UnitChanges
  <2> QED
    BY <1>2, <1>4, <2>1, <2>2 DEF UnitChanges, program
<1>5. CASE ZeroCrossing
  <2>1. Levels(lamps, latch, unit, zx') \in [Pin -> BOOLEAN]
    BY <1>1, <1>5, LevelFacts DEF TypeOK, ZeroCrossing
  <2> QED
    BY <1>2, <1>5, <2>1 DEF ZeroCrossing, program, history
<1>6. CASE MainsChange
  BY <1>6 DEF MainsChange, ServedInv, WaitArmed, FaultToldOrDue, intr, program,
              history
<1>7. CASE ReadMask \/ ReadFails
  <2>1. Levels(lamps, latch', unit, zx) \in [Pin -> BOOLEAN]
    BY <1>1, LevelFacts DEF TypeOK
  <2> QED
    BY <1>2, <1>7, <2>1 DEF ReadMask, ReadFails, history
<1> QED
  BY <1>3, <1>4, <1>5, <1>6, <1>7 DEF World

\* The other steps of the program: the wait begins with the interrupt enabled,
\* and a store that drops the unit's signal says so.
LEMMA ProgramServes ==
  ASSUME SignalsInv, ServedInv,
         MainLoop \/ WatchdogResets, ~ReadMask, ~ReadFails
  PROVE  ServedInv'
<1> USE DEF ServedInv, WaitArmed, FaultToldOrDue
<1>1. CASE CheckUnit \/ CheckI2c \/ Wait
  BY <1>1 DEF CheckUnit, CheckI2c, Wait, Test, intr, history
<1>2. CASE ClearUnit \/ ClearI2c \/ ClearZx
  BY <1>2 DEF ClearUnit, ClearI2c, ClearZx, Clear
<1>3. CASE Report
  BY <1>3 DEF Report, intr
<1>4. CASE Scan
  BY <1>4 DEF Scan, intr, history
<1>5. CASE Enable
  <2>1. CASE at = "enable" /\ EnableStep(1) /\ at' = "enable1"
    BY <1>5, <2>1 DEF Enable, EnableStep, intr
  <2>2. CASE at = "enable1" /\ EnableStep(2) /\ at' = "enable2"
    <3>1. Clear("zx")
      BY <2>2 DEF EnableStep
    <3> QED
      BY <1>5, <2>2, <3>1 DEF Enable, Clear
  <2>3. CASE at = "enable2" /\ EnableStep(3) /\ at' = "wait"
    <3>1. "zx" \in enabled' /\ UNCHANGED <<status, pending, missed, erased>>
      BY <2>3 DEF EnableStep
    <3> QED
      BY <1>5, <2>3, <3>1 DEF Enable
  <2> QED
    BY <1>5, <2>1, <2>2, <2>3 DEF Enable
<1>6. CASE WatchdogResets
  BY <1>6 DEF WatchdogResets, Boots
<1> QED
  BY <1>1, <1>2, <1>3, <1>4, <1>5, <1>6 DEF MainLoop

\* Both hold in every behaviour.
LEMMA ServedHolds == Spec => []ServedInv
<1>1. Init => ServedInv
  BY DEF Init, ServedInv, WaitArmed, FaultToldOrDue
<1>2. SignalsInv /\ ServedInv /\ [Next]_vars => ServedInv'
  <2> SUFFICES ASSUME SignalsInv, ServedInv, [Next]_vars PROVE ServedInv'
    OBVIOUS
  <2>1. CASE UNCHANGED vars
    BY <2>1 DEF ServedInv, WaitArmed, FaultToldOrDue, vars, intr, program, history
  <2> QED
    BY <2>1, LinesServe, ProgramServes DEF Next
<1> QED
  BY <1>1, <1>2, InvHolds, PTL DEF Spec

\* The wait for the zero crossing never begins with its interrupt off and
\* nothing pending, wherever the crossing falls, for any lamps.
THEOREM WaitIsArmed == Spec => []WaitArmed
<1>1. ServedInv => WaitArmed
  BY DEF ServedInv
<1> QED
  BY <1>1, ServedHolds, PTL

\* A fault of the unit that the handler has seen is reported or due to be, for
\* any number of faults.
THEOREM FaultsAreServed == Spec => []FaultToldOrDue
<1>1. ServedInv => FaultToldOrDue
  BY DEF ServedInv
<1> QED
  BY <1>1, ServedHolds, PTL
=============================================================================
