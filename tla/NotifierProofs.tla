--------------------------- MODULE NotifierProofs ---------------------------
(***************************************************************************)
(* Theorems about Notifier: its types, and that a notification tries every *)
(* enabled number, for any list of numbers and any constants of the loops. *)
(***************************************************************************)
EXTENDS Notifier, TLAPS

\* The calls made for one destination
Serving == {"csq", "send"} \cup RegLoop \cup CsqLoop

\* The slot being served is an enabled one, or 0 for a reply, and the numbers
\* tried so far are the enabled ones before it.
DestinationSound ==
  /\ pc = "next" =>
       dest \in 1 .. MaxDest + 1 /\ tried = Enabled \cap 1 .. dest - 1
  /\ pc \in Serving =>
       \/ dest = 0 /\ tried = {}
       \/ dest \in Enabled /\ tried = Enabled \cap 1 .. dest - 1

\* A timeout that has grown is still a byte, and not 0: the remainder by it is
\* defined.
LEMMA GrownTimeoutIsByte ==
  ASSUME TypeOK, NEW step, NEW limit, step \in 1 .. limit, limit \in 0 .. ByteSize - 1
  PROVE  GrownTimeout(step, limit) \in 1 .. ByteSize - 1
BY StepsAssumption DEF GrownTimeout, TypeOK

\* One retry keeps the types of what it changes.
LEMMA RetryType ==
  ASSUME TypeOK, NEW step, NEW limit, Retry(step, limit),
         step \in 1 .. limit, limit \in 0 .. ByteSize - 1
  PROVE  /\ timeout' \in 1 .. ByteSize - 1 /\ waits' \in Nat
         /\ answering' \in BOOLEAN /\ registered' \in BOOLEAN
<1>1. waits + 1 \in Nat /\ 0 \in Nat
  BY DEF TypeOK
<1> QED BY <1>1, GrownTimeoutIsByte DEF Retry, gsmPowerOn, TypeOK

\* The counter of the retries wraps like the byte it is.
LEMMA TryWraps == TypeOK => (try + 1) % ByteSize \in 0 .. ByteSize - 1
BY StepsAssumption DEF TypeOK

\* Every step of the retry loops keeps the types.
LEMMA TypeStep == TypeOK /\ DestinationSound /\ [Next]_vars => TypeOK'
<1> SUFFICES ASSUME TypeOK, DestinationSound, [Next]_vars PROVE TypeOK'
  OBVIOUS
<1>c. /\ RegStep \in 1 .. ByteSize - 1 /\ CsqStep \in 1 .. ByteSize - 1
      /\ 0 \in 0 .. ByteSize - 1 /\ 0 \in Nat /\ 0 \in 0 .. MaxDest + 1
  BY StepsAssumption
<1>1. CASE StartNotifyAll
  BY <1>1, StepsAssumption DEF StartNotifyAll, network, TypeOK
<1>2. CASE StartReply
  BY <1>2, <1>c DEF StartReply, EnterNotify, network, RegLoop, TypeOK
<1>3. CASE NextDestination
  <2>1. dest' \in 0 .. MaxDest + 1
    BY <1>3, StepsAssumption DEF NextDestination, DestinationsDone, TypeOK
  <2> QED BY <1>3, <2>1, <1>c DEF NextDestination, EnterNotify, network, RegLoop, TypeOK
<1>4. CASE Register
  BY <1>4 DEF Register, network, RegLoop, TypeOK
<1>5. CASE RegisterRetry
  <2>1. /\ timeout' \in 1 .. ByteSize - 1 /\ waits' \in Nat
        /\ answering' \in BOOLEAN /\ registered' \in BOOLEAN
    BY <1>5, RetryType, StepsAssumption DEF RegisterRetry
  <2> QED BY <1>5, <2>1, TryWraps DEF RegisterRetry, RegLoop, TypeOK
<1>6. CASE UpdateCSQ
  BY <1>6, <1>c DEF UpdateCSQ, gsmUpdateCSQ, SignalChecked, network, CsqLoop, TypeOK
<1>7. CASE SignalRegister
  BY <1>7 DEF SignalRegister, SignalChecked, network, CsqLoop, TypeOK
<1>8. CASE SignalRetry
  <2>1. /\ timeout' \in 1 .. ByteSize - 1 /\ waits' \in Nat
        /\ answering' \in BOOLEAN /\ registered' \in BOOLEAN
    BY <1>8, RetryType, StepsAssumption DEF SignalRetry
  <2> QED BY <1>8, <2>1, TryWraps DEF SignalRetry, CsqLoop, TypeOK
<1>9. CASE Send
  <2>1. dest = 0 \/ dest \in Enabled
    BY <1>9 DEF Send, DestinationSound, Serving
  <2>2. dest' \in 0 .. MaxDest + 1 /\ tried' \subseteq 0 .. MaxDest
    <3>1. dest \in 0 .. MaxDest
      <4>1. MaxDest \in Nat /\ Enabled \subseteq 1 .. MaxDest
        BY StepsAssumption
      <4>2. CASE dest = 0
        BY <4>1, <4>2
      <4>3. CASE dest \in Enabled
        BY <4>1, <4>3
      <4> QED BY <2>1, <4>2, <4>3
    <3>2. dest + 1 \in 0 .. MaxDest + 1
      BY <3>1, StepsAssumption
    <3> QED BY <1>9, <3>1, <3>2 DEF Send, TypeOK
  <2>3. pc' \in {"idle", "next"}
    BY <1>9 DEF Send, AfterSend
  <2> QED BY <1>9, <2>2, <2>3 DEF Send, network, TypeOK
<1>10. CASE ModemRegisters \/ ModemHangs \/ ModemDeregisters \/ SignalChanges
  BY <1>10 DEF ModemRegisters, ModemHangs, ModemDeregisters, SignalChanges,
               program, TypeOK
<1>11. CASE UNCHANGED vars
  BY <1>11 DEF vars, program, network, TypeOK
<1> QED BY <1>1, <1>2, <1>3, <1>4, <1>5, <1>6, <1>7, <1>8, <1>9, <1>10, <1>11
        DEF Next, Program, Trouble

\* Going past a slot adds it to those tried if and only if it was served.
LEMMA UpTo ==
  ASSUME NEW d \in Nat \ {0}
  PROVE  /\ d \in Enabled => (Enabled \cap 1 .. d - 1) \cup {d} = Enabled \cap 1 .. d
         /\ d \notin Enabled => Enabled \cap 1 .. d - 1 = Enabled \cap 1 .. d
         /\ (d + 1) - 1 = d
<1>1. 1 .. d = (1 .. d - 1) \cup {d}
  OBVIOUS
<1>2. (d + 1) - 1 = d
  OBVIOUS
<1> QED BY <1>1, <1>2, Zenon

\* Every step serves the next enabled slot or the one it serves already.
LEMMA DestinationStep == TypeOK /\ DestinationSound /\ [Next]_vars => DestinationSound'
<1> SUFFICES ASSUME TypeOK, DestinationSound, [Next]_vars PROVE DestinationSound'
  OBVIOUS
<1>1. CASE StartNotifyAll
  <2>1. 1 .. 1 - 1 = {} /\ 1 \in 1 .. MaxDest + 1
    BY StepsAssumption
  <2> QED BY <1>1, <2>1 DEF StartNotifyAll, DestinationSound, Serving, RegLoop, CsqLoop
<1>2. CASE StartReply
  BY <1>2 DEF StartReply, EnterNotify, DestinationSound, Serving, RegLoop, CsqLoop
<1>3. CASE NextDestination
  <2>1. dest \in 1 .. MaxDest + 1 /\ tried = Enabled \cap 1 .. dest - 1 /\ tried' = tried
    BY <1>3 DEF NextDestination, DestinationSound
  <2>2. CASE DestinationsDone /\ pc' = "idle"
    BY <2>2 DEF DestinationSound, Serving, RegLoop, CsqLoop
  <2>3. CASE ~DestinationsDone /\ dest \notin Enabled /\ dest' = dest + 1 /\ UNCHANGED pc
    <3>1. dest' \in 1 .. MaxDest + 1 /\ dest \in Nat \ {0}
      BY <2>1, <2>3, StepsAssumption DEF DestinationsDone
    <3>2. tried' = Enabled \cap 1 .. dest' - 1
      BY <2>1, <2>3, <3>1, UpTo
    <3> QED BY <1>3, <2>3, <3>1, <3>2
            DEF NextDestination, DestinationSound, Serving, RegLoop, CsqLoop
  <2>4. CASE dest \in Enabled /\ EnterNotify /\ UNCHANGED dest
    BY <2>1, <2>4 DEF EnterNotify, DestinationSound, Serving, RegLoop, CsqLoop
  <2> QED BY <1>3, <2>2, <2>3, <2>4 DEF NextDestination
<1>4. CASE Register \/ RegisterRetry \/ UpdateCSQ \/ SignalRegister \/ SignalRetry
  <2>1. pc \in Serving /\ pc' \in Serving /\ dest' = dest /\ tried' = tried
    BY <1>4 DEF Register, RegisterRetry, UpdateCSQ, SignalRegister, SignalRetry,
                SignalChecked, Serving, RegLoop, CsqLoop
  <2> QED BY <2>1 DEF DestinationSound, Serving, RegLoop, CsqLoop
<1>5. CASE Send
  <2>1. CASE dest = 0
    BY <1>5, <2>1 DEF Send, AfterSend, DestinationSound, Serving, RegLoop, CsqLoop
  <2>2. CASE dest \in Enabled /\ tried = Enabled \cap 1 .. dest - 1
    <3>1. dest \in 1 .. MaxDest /\ dest \in Nat \ {0}
      BY <2>2, StepsAssumption
    <3>2. pc' = "next" /\ dest' = dest + 1 /\ tried' = tried \cup {dest}
      BY <1>5, <3>1 DEF Send, AfterSend
    <3>3. dest' \in 1 .. MaxDest + 1 /\ tried' = Enabled \cap 1 .. dest' - 1
      BY <2>2, <3>1, <3>2, UpTo, StepsAssumption
    <3> QED BY <3>2, <3>3 DEF DestinationSound, Serving, RegLoop, CsqLoop
  <2> QED BY <1>5, <2>1, <2>2 DEF Send, DestinationSound, Serving
<1>6. CASE ModemRegisters \/ ModemHangs \/ ModemDeregisters \/ SignalChanges
  BY <1>6 DEF ModemRegisters, ModemHangs, ModemDeregisters, SignalChanges,
              program, DestinationSound
<1>7. CASE UNCHANGED vars
  BY <1>7 DEF vars, program, DestinationSound
<1> QED BY <1>1, <1>2, <1>3, <1>4, <1>5, <1>6, <1>7 DEF Next, Program, Trouble

\* The notifier starts with nothing tried.
LEMMA InitSound == Init => TypeOK /\ DestinationSound
<1> SUFFICES ASSUME Init PROVE TypeOK /\ DestinationSound
  OBVIOUS
<1>1. /\ 0 \in 0 .. ByteSize - 1 /\ RegStep \in 1 .. ByteSize - 1
      /\ 0 \in Nat /\ 0 \in 0 .. MaxDest + 1
  BY StepsAssumption
<1> QED BY <1>1 DEF Init, TypeOK, DestinationSound, Serving, RegLoop, CsqLoop

\* The locals stay bytes, the divisor of the retry loops is never 0, and no
\* slot past the last one is served.
THEOREM TypeCorrect == Spec => []TypeOK
BY InitSound, TypeStep, DestinationStep, PTL DEF Spec

\* A notification that ends has tried every enabled number and no other,
\* whatever the modem answered in between; a reply has tried its sender.
THEOREM EveryNumberIsTried == Spec => EveryDestinationTried
<1>1. TypeOK /\ DestinationSound /\ [Next]_vars
        => [pc # "idle" /\ pc' = "idle" => tried' \in {Enabled, {0}}]_vars
  <2> SUFFICES ASSUME TypeOK, DestinationSound, Next, pc # "idle", pc' = "idle"
               PROVE  tried' \in {Enabled, {0}}
    OBVIOUS
  <2>1. NextDestination \/ Send
    BY DEF Next, Program, Trouble, StartNotifyAll, StartReply, EnterNotify, Register,
           RegisterRetry, UpdateCSQ, SignalRegister, SignalRetry, SignalChecked,
           ModemRegisters, ModemHangs, ModemDeregisters, SignalChanges, program
  <2>2. CASE NextDestination
    <3>1. /\ dest \in 1 .. MaxDest + 1 /\ tried = Enabled \cap 1 .. dest - 1
          /\ dest > MaxDest /\ tried' = tried
      BY <2>2 DEF NextDestination, EnterNotify, DestinationsDone, DestinationSound
    <3>2. Enabled \subseteq 1 .. dest - 1
      BY <3>1, StepsAssumption
    <3> QED BY <3>1, <3>2
  <2>3. CASE Send
    BY <2>3, StepsAssumption DEF Send, AfterSend, DestinationSound, Serving
  <2> QED BY <2>1, <2>2, <2>3
<1> QED BY <1>1, InitSound, TypeStep, DestinationStep, PTL DEF Spec, EveryDestinationTried

-----------------------------------------------------------------------------
(***************************************************************************)
(* The retry loops reset the modem again and again.  timeout takes the     *)
(* multiples of its step in their order, and try is at most one step       *)
(* behind it, so the reset comes when they meet; after the limit timeout   *)
(* is small again and the wrap of try at the end of the byte, which every  *)
(* timeout divides, brings the two together once more.                     *)
(***************************************************************************)
\* How far try is behind timeout, and how many waits that leaves room for
InStep(step, limit) ==
  \/ timeout = step /\ try = 0 /\ waits = 0
  \/ timeout = step /\ limit - step < try /\ try <= limit
     /\ waits < try - (limit - step)
  \/ timeout = 2 * step /\ 0 < try /\ try <= 2 * step /\ waits < try
  \/ timeout = 2 * step /\ limit < try /\ waits < try - limit
  \/ timeout = 2 * step /\ try = 0 /\ waits < step
  \/ timeout = 3 * step /\ 0 < try /\ try <= 3 * step /\ waits < try
  \/ 3 * step < timeout /\ timeout < limit /\ timeout - step < try
     /\ try <= timeout /\ waits < try - (timeout - step)

LoopsInStep ==
  /\ pc \in RegLoop => InStep(RegStep, RegLimit)
  /\ pc \in CsqLoop => InStep(CsqStep, CsqLimit)

\* A number less than the divisor is its own remainder; the divisor has none.
LEMMA SmallRemainder ==
  ASSUME NEW n \in Nat \ {0}, NEW a \in 0 .. n
  PROVE  a % n = (IF a = n THEN 0 ELSE a)
BY Z3

\* Two multiples of step are at least a step apart.
LEMMA MultiplesApart ==
  ASSUME NEW step \in Nat \ {0}, NEW m \in Nat, NEW q \in Nat, m * step < step * q
  PROVE  m * step + step <= step * q
<1>1. m < q
  <2> SUFFICES ASSUME q <= m PROVE FALSE
    OBVIOUS
  <2>1. step * q <= step * m
    BY Z3
  <2> QED BY <2>1
<1>2. step * m + step <= step * q
  BY <1>1, Z3
<1> QED BY <1>2

\* A multiple of step above the multiple before limit is not below limit.
LEMMA NextMultiple ==
  ASSUME NEW step \in Nat \ {0}, NEW m \in Nat \ {0}, NEW a \in Nat,
         a % step = 0, (m - 1) * step < a
  PROVE  m * step <= a
<1> DEFINE q == a \div step
<1>1. a = step * q /\ q \in Nat
  BY Z3
<1>2. m - 1 \in Nat /\ (m - 1) * step + step = m * step
  OBVIOUS
<1> HIDE DEF q
<1>3. (m - 1) * step + step <= step * q
  BY <1>1, <1>2, MultiplesApart
<1> QED BY <1>1, <1>2, <1>3

\* Within one step above limit there is no multiple of twice the step.
LEMMA NoMultipleAbove ==
  ASSUME NEW step \in Nat \ {0}, NEW m \in Nat, NEW a \in Nat,
         m * step < a, a < m * step + step
  PROVE  a % (2 * step) # 0
<1> SUFFICES ASSUME a % (2 * step) = 0 PROVE FALSE
  OBVIOUS
<1> DEFINE q == a \div (2 * step)
<1>1. a = (2 * step) * q /\ q \in Nat
  BY Z3
<1> HIDE DEF q
<1>2. a = step * (2 * q) /\ 2 * q \in Nat
  BY <1>1, Z3
<1>3. m * step + step <= step * (2 * q)
  BY <1>2, MultiplesApart
<1> QED BY <1>2, <1>3

\* The constants of one loop: limit is the multiple m of step, and the byte
\* wraps less than a step later.
LoopSizes(step, limit, m) ==
  /\ step \in Nat \ {0} /\ m \in Nat /\ m >= 4 /\ limit = m * step
  /\ limit < ByteSize /\ ByteSize <= limit + step

\* One retry keeps a loop in step.
LEMMA RetryInStep ==
  ASSUME TypeOK, NEW CONSTANT step, NEW CONSTANT limit, NEW CONSTANT m,
         LoopSizes(step, limit, m), InStep(step, limit), Retry(step, limit),
         try' = (try + 1) % ByteSize
  PROVE  InStep(step, limit)'
<1>1. /\ step \in Nat \ {0} /\ limit \in Nat /\ ByteSize \in Nat
      /\ 4 * step <= limit /\ limit < ByteSize /\ ByteSize <= limit + step
  <2>1. 4 * step <= m * step
    BY Z3 DEF LoopSizes
  <2> QED BY <2>1, StepsAssumption DEF LoopSizes
<1>2. try \in Nat /\ try < ByteSize /\ waits \in Nat /\ timeout \in Nat \ {0}
  BY StepsAssumption DEF TypeOK
<1>3. try' = IF try + 1 = ByteSize THEN 0 ELSE try + 1
  <2>1. try + 1 \in 0 .. ByteSize /\ ByteSize \in Nat \ {0}
    BY <1>1, <1>2
  <2> QED BY <2>1, SmallRemainder
<1>4. \/ try % timeout # 0 /\ waits' = waits + 1 /\ timeout' = timeout
      \/ try % timeout = 0 /\ waits' = 0 /\ timeout' = GrownTimeout(step, limit)
  BY DEF Retry
<1>5. GrownTimeout(step, limit) = IF timeout + step >= limit THEN step ELSE timeout + step
  BY DEF GrownTimeout
<1>a. CASE timeout = step /\ try = 0 /\ waits = 0
  <2>1. try % timeout = 0
    BY <1>1, <1>a, SmallRemainder
  <2>2. try' = 1 /\ waits' = 0 /\ timeout' = 2 * step
    BY <1>1, <1>3, <1>4, <1>5, <1>a, <2>1
  <2> QED BY <1>1, <2>2 DEF InStep
<1>b. CASE /\ timeout = step /\ limit - step < try /\ try <= limit
           /\ waits < try - (limit - step)
  <2>1. CASE try % timeout = 0
    <3>1. limit - step = (m - 1) * step /\ m * step = limit /\ m \in Nat \ {0}
      BY DEF LoopSizes
    <3>2. limit <= try
      BY <1>1, <1>2, <1>b, <2>1, <3>1, NextMultiple
    <3>3. timeout' = 2 * step /\ waits' = 0
      BY <1>1, <1>4, <1>5, <1>b, <2>1
    <3> QED BY <1>1, <1>2, <1>3, <1>b, <3>2, <3>3 DEF InStep
  <2>2. CASE try % timeout # 0
    <3>1. try # limit
      <4>1. (m * step) % step = 0
        BY <1>1, Z3 DEF LoopSizes
      <4> QED BY <1>b, <2>2, <4>1 DEF LoopSizes
    <3> QED BY <1>1, <1>2, <1>3, <1>4, <1>b, <2>2, <3>1 DEF InStep
  <2> QED BY <2>1, <2>2
<1>c. CASE timeout = 2 * step /\ 0 < try /\ try <= 2 * step /\ waits < try
  <2>1. try % timeout = IF try = timeout THEN 0 ELSE try
    <3>1. try \in 0 .. timeout
      BY <1>1, <1>2, <1>c
    <3> QED BY <1>2, <3>1, SmallRemainder
  <2>2. CASE try = timeout
    <3>1. timeout' = 3 * step /\ waits' = 0 /\ try' = 2 * step + 1
      BY <1>1, <1>2, <1>3, <1>4, <1>5, <1>c, <2>1, <2>2
    <3> QED BY <1>1, <3>1 DEF InStep
  <2>3. CASE try # timeout
    BY <1>1, <1>2, <1>3, <1>4, <1>c, <2>1, <2>3 DEF InStep
  <2> QED BY <2>2, <2>3
<1>d. CASE timeout = 2 * step /\ limit < try /\ waits < try - limit
  <2>1. try % timeout # 0
    <3>1. m * step < try /\ try < m * step + step /\ m \in Nat
      BY <1>1, <1>2, <1>d DEF LoopSizes
    <3>2. try % (2 * step) # 0
      BY <1>1, <1>2, <3>1, NoMultipleAbove
    <3> QED BY <1>d, <3>2
  <2> QED BY <1>1, <1>2, <1>3, <1>4, <1>d, <2>1 DEF InStep
<1>e. CASE timeout = 2 * step /\ try = 0 /\ waits < step
  <2>1. try % timeout = 0
    BY <1>2, <1>e, SmallRemainder
  <2>2. timeout' = 3 * step /\ waits' = 0 /\ try' = 1
    BY <1>1, <1>3, <1>4, <1>5, <1>e, <2>1
  <2> QED BY <1>1, <2>2 DEF InStep
<1>f. CASE timeout = 3 * step /\ 0 < try /\ try <= 3 * step /\ waits < try
  <2>1. try % timeout = IF try = timeout THEN 0 ELSE try
    <3>1. try \in 0 .. timeout
      BY <1>1, <1>2, <1>f
    <3> QED BY <1>2, <3>1, SmallRemainder
  <2> QED BY <1>1, <1>2, <1>3, <1>4, <1>5, <1>f, <2>1 DEF InStep
<1>g. CASE /\ 3 * step < timeout /\ timeout < limit /\ timeout - step < try
           /\ try <= timeout /\ waits < try - (timeout - step)
  <2>1. try % timeout = IF try = timeout THEN 0 ELSE try
    <3>1. try \in 0 .. timeout
      BY <1>1, <1>2, <1>g
    <3> QED BY <1>2, <3>1, SmallRemainder
  <2> QED BY <1>1, <1>2, <1>3, <1>4, <1>5, <1>g, <2>1 DEF InStep
<1> QED BY <1>a, <1>b, <1>c, <1>d, <1>e, <1>f, <1>g DEF InStep

\* In step, three steps of timeout never pass without a reset.
LEMMA InStepBounds ==
  ASSUME TypeOK, NEW step, NEW limit, NEW m, LoopSizes(step, limit, m),
         InStep(step, limit)
  PROVE  waits < 3 * step
<1>1. /\ try \in Nat /\ timeout \in Nat /\ waits \in Nat
      /\ ByteSize \in Nat /\ try < ByteSize
  BY StepsAssumption DEF TypeOK
<1>2. step \in Nat \ {0} /\ limit \in Nat /\ ByteSize <= limit + step
  BY DEF LoopSizes
<1> QED BY <1>1, <1>2 DEF InStep

\* The two loops have the sizes the lemmas ask for.
LEMMA SizesOfTheLoops ==
  /\ \E m \in Nat : LoopSizes(RegStep, RegLimit, m)
  /\ \E m \in Nat : LoopSizes(CsqStep, CsqLimit, m)
<1>1. \A step, limit :
        <<step, limit>> \in {<<RegStep, RegLimit>>, <<CsqStep, CsqLimit>>} =>
          \E m \in 4 .. ByteSize : limit = m * step /\ ByteSize <= limit + step
  BY LoopsAssumption
<1>2. \A step \in Nat \ {0}, limit \in 0 .. ByteSize - 1, m \in 4 .. ByteSize :
        limit = m * step /\ ByteSize <= limit + step => LoopSizes(step, limit, m)
  BY StepsAssumption DEF LoopSizes
<1>3. \A m \in 4 .. ByteSize : m \in Nat
  OBVIOUS
<1> QED BY <1>1, <1>2, <1>3, StepsAssumption

\* Every step keeps the loop under way in step.
LEMMA LoopsStep == TypeOK /\ LoopsInStep /\ [Next]_vars => LoopsInStep'
<1> SUFFICES ASSUME TypeOK, LoopsInStep, [Next]_vars PROVE LoopsInStep'
  OBVIOUS
<1>1. CASE EnterNotify
  BY <1>1 DEF EnterNotify, LoopsInStep, InStep, RegLoop, CsqLoop
<1>2. CASE Register \/ SignalRegister
  BY <1>2 DEF Register, SignalRegister, SignalChecked, LoopsInStep, InStep, RegLoop, CsqLoop
<1>3. CASE RegisterRetry
  <2>1. PICK m \in Nat : LoopSizes(RegStep, RegLimit, m)
    BY SizesOfTheLoops
  <2>2. InStep(RegStep, RegLimit)
    BY <1>3 DEF RegisterRetry, LoopsInStep, RegLoop
  <2>3. InStep(RegStep, RegLimit)'
    BY <1>3, <2>1, <2>2, RetryInStep DEF RegisterRetry
  <2> QED BY <1>3, <2>3 DEF RegisterRetry, LoopsInStep, RegLoop, CsqLoop
<1>4. CASE SignalRetry
  <2>1. PICK m \in Nat : LoopSizes(CsqStep, CsqLimit, m)
    BY SizesOfTheLoops
  <2>2. InStep(CsqStep, CsqLimit)
    BY <1>4 DEF SignalRetry, LoopsInStep, CsqLoop
  <2>3. InStep(CsqStep, CsqLimit)'
    BY <1>4, <2>1, <2>2, RetryInStep DEF SignalRetry
  <2> QED BY <1>4, <2>3 DEF SignalRetry, LoopsInStep, RegLoop, CsqLoop
<1>5. CASE UpdateCSQ
  BY <1>5 DEF UpdateCSQ, SignalChecked, LoopsInStep, InStep, RegLoop, CsqLoop
<1>6. CASE StartNotifyAll \/ (NextDestination /\ ~EnterNotify) \/ Send
  <2>1. pc' \in {"next", "idle"}
    BY <1>6 DEF StartNotifyAll, NextDestination, Send, AfterSend
  <2> QED BY <2>1 DEF LoopsInStep, RegLoop, CsqLoop
<1>7. CASE UNCHANGED program /\ UNCHANGED waits
  BY <1>7 DEF program, LoopsInStep, InStep
<1>8. CASE UNCHANGED vars
  BY <1>7, <1>8 DEF vars
<1>9. StartReply => EnterNotify
  BY DEF StartReply
<1>10. ModemRegisters \/ Trouble => UNCHANGED program /\ UNCHANGED waits
  BY DEF ModemRegisters, Trouble, ModemHangs, ModemDeregisters, SignalChanges
<1> QED BY <1>1, <1>2, <1>3, <1>4, <1>5, <1>6, <1>7, <1>8, <1>9, <1>10 DEF Next, Program

\* While a message waits for the network fewer than three steps of timeout pass
\* without a reset of the modem, for any steps, limits and byte in the relation
\* that LoopsAssumption states.
THEOREM ModemIsReset == Spec => []ResetsKeepComing
<1>1. Init => LoopsInStep
  BY DEF Init, LoopsInStep, RegLoop, CsqLoop
<1>2. TypeOK /\ LoopsInStep => ResetsKeepComing
  BY InStepBounds, SizesOfTheLoops DEF LoopsInStep, ResetsKeepComing
<1> QED BY <1>1, <1>2, InitSound, TypeStep, DestinationStep, LoopsStep, PTL DEF Spec
=============================================================================
