------------------------------ MODULE Notifier ------------------------------
(***************************************************************************)
(* Sending a message by SMS (src/ade/control.c: notifyAllBySMS and         *)
(* controlNotifyBySMS), down to the commands src/ade/gsm.c gives the       *)
(* modem.  The main loop blocks in it: nothing else of the program runs.   *)
(* Each action is one step up to the next call that waits for the modem or *)
(* for time; the modem and the network change between any two of them.     *)
(***************************************************************************)
EXTENDS Integers

CONSTANTS
  ByteSize,   \* number of values of a uint8_t (256 on the board)
  MaxDest,    \* MAX_SMS_DEST, the stored destination numbers
  Enabled,    \* the slots that hold a number (their first character is '+')
  RegStep, RegLimit,  \* first loop: timeout grows by 10, from 250 back to 10
  CsqStep, CsqLimit,  \* second loop: timeout grows by 20, from 240 back to 20
  Signals     \* the signal strengths the modem can report

NoSignal == 99     \* "not known or not detectable"

ASSUME StepsAssumption ==
  /\ ByteSize \in Nat /\ MaxDest \in Nat /\ Enabled \subseteq 1 .. MaxDest
  /\ RegStep \in 1 .. RegLimit /\ RegLimit \in 0 .. ByteSize - 1
  /\ CsqStep \in 1 .. CsqLimit /\ CsqLimit \in 0 .. ByteSize - 1
ASSUME SignalsAssumption == Signals \subseteq Nat
\* Each limit is a multiple, fourfold at least, of its step (250 of 10, 240 of
\* 20), and from the limit on a byte wraps within one more step
ASSUME LoopsAssumption ==
  \A l \in {<<RegStep, RegLimit>>, <<CsqStep, CsqLimit>>} :
    /\ \E m \in 4 .. ByteSize : l[2] = m * l[1]
    /\ ByteSize <= l[2] + l[1]

VARIABLES
  pc,         \* the call the main loop makes next
  dest,       \* the slot being served, 0 for the sender of a command
  try, timeout,       \* the locals of the loop under way, both uint8_t
  rssi,       \* gsmConf.rssi: the signal at the last AT+CSQ
  \* the modem and the network
  answering, registered, signal,
  \* history: one-minute waits since the modem was last reset in this loop,
  \* the slots a message was submitted for
  waits, tried

program == <<pc, dest, try, timeout, rssi>>
network == <<answering, registered, signal>>
vars    == <<program, network, waits, tried>>

RegLoop == {"register", "registerRetry"}
CsqLoop == {"signalRegister", "signalRetry"}

TypeOK ==
  /\ pc \in {"idle", "next", "csq", "send"} \cup RegLoop \cup CsqLoop
  /\ dest \in 0 .. MaxDest + 1
  /\ try \in 0 .. ByteSize - 1 /\ timeout \in 1 .. ByteSize - 1
  /\ rssi \in Signals \cup {NoSignal}
  /\ answering \in BOOLEAN /\ registered \in BOOLEAN /\ signal \in Signals
  /\ waits \in Nat /\ tried \subseteq 0 .. MaxDest

Init ==
  /\ pc = "idle" /\ dest = 0 /\ try = 0 /\ timeout = RegStep
  /\ rssi = NoSignal
  /\ answering \in BOOLEAN /\ registered = FALSE /\ signal \in Signals
  /\ waits = 0 /\ tried = {}

-----------------------------------------------------------------------------
(***************************************************************************)
(* The modem, as gsm.c sees it.                                            *)
(***************************************************************************)
\* gsmRegisterNetwork returns OK
RegisterOK == answering /\ registered

\* MUTANT: a modem that is switched on is left alone
MutPowerOnKeepsModem == answering' = answering /\ registered' = registered

\* gsmPowerOn resets the modem (or switches it on); it registers again later
gsmPowerOn == answering' = TRUE /\ registered' = FALSE

\* gsmUpdateCSQ, which reports no signal when the modem does not answer
gsmUpdateCSQ == rssi' = IF answering THEN signal ELSE NoSignal

LowSignal(level) == level \in {0, NoSignal}

-----------------------------------------------------------------------------
(***************************************************************************)
(* notifyAllBySMS and the reply to a command received by SMS.              *)
(***************************************************************************)
StartNotifyAll ==
  /\ pc = "idle"
  /\ pc' = "next" /\ dest' = 1 /\ tried' = {}
  /\ UNCHANGED <<try, timeout, rssi, network, waits>>

\* controlNotifyBySMS from its entry to the first gsmRegisterNetwork
EnterNotify ==
  /\ pc' = "register" /\ try' = 0 /\ timeout' = RegStep /\ waits' = 0

StartReply ==
  /\ pc = "idle"
  /\ dest' = 0 /\ tried' = {}
  /\ EnterNotify
  /\ UNCHANGED <<rssi, network>>

\* MUTANT: the loop goes one slot past the last one
MutOneSlotTooMany == dest > MaxDest + 1

DestinationsDone == dest > MaxDest

NextDestination ==
  /\ pc = "next"
  /\ \/ /\ DestinationsDone
        /\ pc' = "idle" /\ UNCHANGED <<dest, try, timeout, waits>>
     \/ /\ ~DestinationsDone /\ dest \notin Enabled
        /\ dest' = dest + 1 /\ UNCHANGED <<pc, try, timeout, waits>>
     \/ /\ ~DestinationsDone /\ dest \in Enabled
        /\ EnterNotify /\ UNCHANGED dest
  /\ UNCHANGED <<rssi, network, tried>>

-----------------------------------------------------------------------------
(***************************************************************************)
(* controlNotifyBySMS.                                                     *)
(***************************************************************************)
Register ==
  /\ pc = "register"
  /\ \/ RegisterOK /\ pc' = "csq"
     \/ ~RegisterOK /\ pc' = "registerRetry"
  /\ UNCHANGED <<dest, try, timeout, rssi, network, waits, tried>>

\* MUTANT: a timeout that never goes back to its first value
MutTimeoutGrows(step, limit) == (timeout + step) % ByteSize

GrownTimeout(step, limit) ==
  IF timeout + step >= limit THEN step ELSE timeout + step

\* The body of both loops up to the next gsmRegisterNetwork
Retry(step, limit) ==
  \/ /\ try % timeout # 0
     /\ waits' = waits + 1
     /\ UNCHANGED <<timeout, answering, registered>>
  \/ /\ try % timeout = 0
     /\ gsmPowerOn
     /\ timeout' = GrownTimeout(step, limit)
     /\ waits' = 0

RegisterRetry ==
  /\ pc = "registerRetry"
  /\ Retry(RegStep, RegLimit)
  /\ try' = (try + 1) % ByteSize
  /\ pc' = "register"
  /\ UNCHANGED <<dest, rssi, signal, tried>>

\* The result that enters or leaves the second loop
SignalChecked(ok, level) ==
  pc' = IF ok /\ ~LowSignal(level) THEN "send" ELSE "signalRetry"

UpdateCSQ ==
  /\ pc = "csq"
  /\ gsmUpdateCSQ
  /\ SignalChecked(answering, rssi')
  /\ try' = 0 /\ timeout' = CsqStep /\ waits' = 0
  /\ UNCHANGED <<dest, network, tried>>

\* The loop asks for the registration, not for the signal: rssi keeps its value
SignalRegister ==
  /\ pc = "signalRegister"
  /\ SignalChecked(RegisterOK, rssi)
  /\ UNCHANGED <<dest, try, timeout, rssi, network, waits, tried>>

SignalRetry ==
  /\ pc = "signalRetry"
  /\ Retry(CsqStep, CsqLimit)
  /\ try' = (try + 1) % ByteSize
  /\ pc' = "signalRegister"
  /\ UNCHANGED <<dest, rssi, signal, tried>>

\* MUTANT: a message the modem refuses ends the notification
MutAfterSend(sent) == IF dest = 0 \/ ~sent THEN "idle" ELSE "next"

\* Where a message leads: its result is not looked at
AfterSend(sent) == IF dest = 0 THEN "idle" ELSE "next"

\* gsmSMSSend, which a modem that does not answer makes fail
Send ==
  /\ pc = "send"
  /\ \E sent \in {answering, FALSE} : pc' = AfterSend(sent)
  /\ dest' = dest + 1
  /\ tried' = tried \cup {dest}
  /\ UNCHANGED <<try, timeout, rssi, network, waits>>

-----------------------------------------------------------------------------
ModemHangs ==
  /\ answering' = FALSE
  /\ UNCHANGED <<program, registered, signal, waits, tried>>

ModemRegisters ==
  /\ answering /\ ~LowSignal(signal)
  /\ registered' = TRUE
  /\ UNCHANGED <<program, answering, signal, waits, tried>>

ModemDeregisters ==
  /\ registered' = FALSE
  /\ UNCHANGED <<program, answering, signal, waits, tried>>

SignalChanges ==
  /\ signal' \in Signals
  /\ UNCHANGED <<program, answering, registered, waits, tried>>

Program ==
  \/ StartNotifyAll \/ StartReply \/ NextDestination
  \/ Register \/ RegisterRetry
  \/ UpdateCSQ \/ SignalRegister \/ SignalRetry
  \/ Send

Trouble == ModemHangs \/ ModemDeregisters \/ SignalChanges

Next == Program \/ ModemRegisters \/ Trouble

\* In one of the waits: the 60 s of a retry or the 20 s after gsmPowerOn
Waiting == pc \in {"register", "signalRegister"}

\* The main loop runs, and a modem that can register does so in one of the
\* waits, not each time in the instant between a query and a reset
Spec == /\ Init /\ [][Next]_vars
        /\ WF_vars(Program) /\ SF_vars(Waiting /\ ModemRegisters)

-----------------------------------------------------------------------------
(***************************************************************************)
(* Properties.                                                             *)
(***************************************************************************)

\* While a message waits for the network the modem is reset again and again:
\* never more than three steps of timeout pass, although timeout grows and
\* the uint8_t try it is compared with wraps.
ResetsKeepComing ==
  /\ pc \in RegLoop => waits < 3 * RegStep
  /\ pc \in CsqLoop => waits < 3 * CsqStep

\* A notification tries every enabled number and no other, whatever became of
\* the messages to the numbers before it.
EveryDestinationTried ==
  [][pc # "idle" /\ pc' = "idle" => tried' \in {Enabled, {0}}]_vars

\* The network stays in reach and the modem answers, from some time on
NetworkSettles ==
  <>[][~Trouble]_vars /\ <>[](~LowSignal(signal))

\* Once the network is in reach a message stops waiting for the registration,
\* even if the modem had hung: the loop resets it.
RegistrationEnds ==
  NetworkSettles => (pc \in RegLoop ~> pc \notin RegLoop)

\* control.c:150,157: the second loop is "checking for signal quality" and
\* "trying again in 60s", so it ends once the signal is good.
\* Refuted: it never reads the signal again.
NotificationEnds ==
  NetworkSettles => (pc # "idle" ~> pc = "idle")
=============================================================================
