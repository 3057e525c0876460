# Remote Fault Notifier: formal model of the firmware

This directory models the firmware in `src/ade` (an AVR board, called RFN in
its messages) that watches the lamps of a traffic light: it measures the power
of up to 16 lamp channels, decides when a lamp has failed, switches a relay and
tells a list of phones by SMS. The modules are written in TLA+, model-checked
with TLC on small instances, and the safety of each component is proved with
TLAPS for every value of the constants.

## 1. The system

Everything runs in one thread, the main loop (`main.c:239`, `controlLoop`),
plus short interrupt handlers (serial ports, pin changes, system tick). One
iteration runs the synchronous timers that have expired, looks at the pending
signals, and takes one sample of one channel. Whatever a timer's task or a
notification waits for, the whole loop waits for.

| Component | State | Operations | Interacts with |
|---|---|---|---|
| Fault detector (`control.c`) | masks `chEnabled` ... `chCalib`, `chData[]`, `controlFlags`, `curCh`, `chResumeCountdown` | sample, calibrate, monitor, suspend, resume, recalibrate | commands, button and one-second task write the same masks; a fault calls the notifier |
| SMS notifier (`control.c`, `gsm.c`) | locals `try`, `timeout`; `gsmConf.rssi` | wait for registration, wait for signal, send, reset the modem | called by detector, SMS task, boot |
| Synchronous timers (`bertos/drv/timer.c`, `struct/list.h`) | a sorted doubly linked list | add, abort, poll | tasks add themselves; button handler adds and aborts |
| Button (`control.c`, `signals.c`) | pending bit, status bit | edge interrupt, serve, long press | timers, detector, reset |
| SMS commands (`control.c`, `gsm.c`) | `msg`, `cmdBuff` | poll slot 1, execute, delete, reply | modem, commands, notifier |
| Signals (`signals.c`) | `signals_pending`, `signals_status`, `PCMSK2` | pin-change interrupt, test and clear, wait | detector (mask of powered channels, zero crossing), button, unit fault |
| Commands (`command.c`) | none of its own | `aa ra ac rc ip fc am dm fl rst` and reports | detector, EEPROM, modem |
| Configuration (`eeprom.c`) | EEPROM block, RAM mirror `pConf` | get, set, load at boot | commands, detector, notifier |
| Modem driver (`gsm.c`) | serial port, `gsmConf` | AT command and answer, with timeouts | notifier, SMS commands |
| Serial FIFOs, I2C expander, power meter, parser (`bertos/...`) | FIFOs, bus state | byte and register transfers | drivers above |

What is hard here: handlers that write each other's masks in any order;
counters of eight bits whose limits a command changes under way; a countdown
shared by all suspended channels; a scan that starves what it does not focus
on; interrupts between reading a pending bit and reading a status; waits that
need the network; a linked list that trusts its callers; resets anywhere.
`PROJECT.json` lists each of these hazards at its line with the properties that
cover it.

What makes each component correct:

- detector: a fault is declared only on consecutive measured losses, and every
  lasting loss is declared; a channel is compared only after a full
  calibration; suspensions end, in bounded time; readings belong to the channel
  they are charged to;
- notifier: every number is tried, a message does not wait for ever, a modem
  that hangs is reset;
- timers: the list stays whole, each task runs again and again, a timer never
  starts before its delay;
- SMS commands: each command is executed, up to an `rst` in the same message;
  what an earlier poll left behind is not executed, but for hidden senders'
  commands that have run and reset nothing; an `rst` message does not reset the
  board for ever;
- signals: a change of the lamps ends in the mask, a fault of the unit is
  reported as long as the scan changes channel, the wait for the zero crossing
  ends;
- serial ports: bytes are neither lost silently, nor doubled, nor reordered,
  and the transmitter does not stop with bytes to send;
- configuration: EEPROM and RAM agree and hold what one command asked for.

## 2. Modules

| Module | Models | Proofs |
|---|---|---|
| `FaultDetector` | abstract life cycle of the channels: calibration, doubt, rest, fault | |
| `ChannelMonitor` | detector and every handler that writes its state; implements `FaultDetector` | `ChannelMonitorProofs`, `FaultDetectorProofs` |
| `ResumeTime` | `ChannelMonitor` with a clock: how long suspensions last | `ResumeTimeProofs` |
| `Notifier` | `notifyAllBySMS`, `controlNotifyBySMS` | `NotifierProofs` |
| `TimerQueue` | abstract specification of the timers: what the tasks may rely on | |
| `Timers` | timer list pointer by pointer, tasks, button; implements `TimerQueue` | `TimersProofs` |
| `Signals` | pin-change interrupt handler against the main loop | `SignalsProofs` |
| `FifoBuf` | the ring buffer of `fifobuf.h`, as operators | |
| `ByteQueue` | abstract specification of a receiving port: a bounded queue | |
| `SerialPort` | serial driver, its interrupts, console and modem driver; implements `ByteQueue` | `SerialPortProofs` |
| `Mailbox` | abstract specification of the commands by SMS: what their senders may rely on | |
| `SmsTask` | commands by SMS, the SIM, and the EEPROM they write; implements `Mailbox` | `SmsTaskProofs` |
| `MC...` | constants of the small instances | |

Each abstract specification is a module of its own; the detailed module holds
the `INSTANCE ... WITH` that maps its variables to it, and a `PROPERTY` of a run
checks the refinement that the proofs then establish in general.

### ChannelMonitor

A 16-bit mask is the set of its channels; `chData[].Pmax`, `.calSamples`,
`.lossyChecks`, `.lossySamples` are functions. `sampleChannel(ch)` holds when
the scan selects `ch`: `Candidates` is the focus (lossy, else uncalibrated,
else all active), `StaysOnChannel` the `goto sample`, `ScanSteps` the circular
scan. The seven disjuncts of `Sample` are the outcomes of one iteration that
finds an active channel: end of calibration, calibration sample, unmonitored
sample, good sample, loss, completed check (suspension), fault. An iteration
that finds none changes nothing. `CmdTask` is a one-second tick, `BtnTask` the
button released before the reset, and the commands have one action each;
`Reboot` is any reset (the masks and parameters in EEPROM survive).

No interrupt handler touches these variables, so handlers are atomic. The
environment may change a lamp's load or the mask of powered channels between
any two of them.

Abstracted: powers are small natural numbers compared the way the code does
(the 32-bit values cannot overflow: `Pmax` moves half of the way to a reading);
`recalibrationCountdown` (weeks) becomes a tick that may recalibrate at any
time; `rmode` is left out, since it holds only `FAULT = 0` and `CALIBRATION = 1`
and is compared with `> CALIBRATION`; `CF_SPOILED` is never set; the SMS of a
fault is `Notifier`'s. `lossRun` and `quietRun` are history: they count losses
and quiet samples and nothing reads them but the properties and the refinement
(`Losses`).

`ParamsAssumption` is a restriction: `ip` checks nothing, and a limit of zero
samples or a zero divisor is excluded here (listed under the hazards).

`FaultDetector` forgets counters, scan, mux and parameters. What is left is the
life of a channel (`Phase`): off, calibrating, monitored, doubtful; who rests
between two checks; and how many losses in a row a fault takes.

`ResumeTime` adds `waited`, the runs of `cmd_task` each channel has been
suspended for.

### Notifier

`pc` names the next blocking call. Between two calls the modem may hang, lose
or gain its registration, and the signal may change. `try` and `timeout` are
bytes. `rssi` is `gsmConf.rssi`, refreshed only by `UpdateCSQ`. The result of
`gsmPowerOn` and of `gsmSMSSend` is ignored, as in the code.

### Timers

`succ` and `pred` are the link fields of the two list ends and the three
timers. `INSERT_BEFORE` and `REMOVE` are the assignments of the macros in their
order, in the debug build (`ade_DEBUG = 1`), which clears the links of a
removed node and whose failed assertions print and go on. An access through
NULL hits the registers the AVR maps at address 0 and no node; for what follows
a broken list this is one of the outcomes the build can produce. A search of a
list with a cycle is the state `hung`, which the watchdog ends. Times are
seconds until expiry, stopped at 0. `CheckSignals` and
`ButtonPressed`/`ButtonReleased` are separate, because the interrupt (`Edge`)
can come between the test of the pending bit and the reading of the status.
`controlSetup` is the reset: the timers are back, the pending bit may be set by
an edge during boot. `misused` is history: since the boot a timer was inserted
while it was in the list. Nothing in the code prevents it.

### Signals

`pending`, `status` and `enabled` are `signals_pending`, `signals_status` and
`PCMSK2`; a pin is the member of a set. The handler is short and runs before the
next instruction, so `Edge` is part of the step of the world that moves a line.
The main loop is split at every load and store of a shared byte: `reg` is what
it has loaded and not yet stored. `checkSignals`, `getActiveChannels`,
`signal_wait` and the macros of `signals.h` are the steps named by `at`. The
expander holds INT low while the lamps differ from the inputs it was last asked
for (`latch`); a reading may fail before or after it has raised INT
(`ReadFails`), and the code then inverts the buffer all the same. The wait for
the zero crossing ends with a crossing or, when the mains are gone, with the
watchdog's reset. `missed`, `told` and `erased` are history. The channels are
those that are enabled: `acm` is their mask. `meter` is `prevAdeCh`: `Scan`
waits for a zero crossing only when the channel it samples is another one than
before, and `controlSetup` has measured the last channel (`BootChannel`). Which
active channel the scan takes is left open here, for the focus, the suspensions
and `goto sample` are `ChannelMonitor`'s: it may be the same one for ever.

### SerialPort

One behaviour is about one of the two ports, told apart by `rxtimeout`: the
console polls its port without a timeout, the modem driver purges, sends and
waits. `fifo_*_locked` is atomic, everything else in `ser.c` is not: test,
push, pop, start of the transmitter and clearing of the errors are actions of
their own, and the two interrupts may come between any two. `pc` is the place
in `kfile_gets`/`ser_getchar`, `_gsmWriteLine`/`ser_putchar` or `_gsmRead`. A
byte is the number of the line (or of the answer) it belongs to and its place in
it, so a property can tell whose bytes are whose. Damaged bytes raise the error
flag. The modem answers a command with a line and a result, now, late or not at
all. What the console prints is not modelled: the modem's port has the
transmitter. Handshake, parity, baud rate and the SPI port are left out.

### SmsTask

`slots` is the SIM, `seen` its slots marked as read. A message is a sequence of
commands; a command is known by its message and its place in it. The buffer
`msg` is `text`, the commands before the final zero, `rest`, those behind it,
and `from`, whether it holds a sender's number. `at` is the step of `sms_task`:
clean the buffer, read slot 1, run the text as one command (`Parse`), delete,
run it again split at semicolons (`Split`, at the command `pos`). At its end the
code writes a semicolon over the final zero and goes on behind it (`FinalZero`),
so the rest of an older, longer text runs as well.

What a new text leaves of the old one is `LeftBy`: an empty slot zeroes only the
first byte (`gsm.c:698`), a text overwrites what it covers, and the damaged
command at its end is `NoCommand`, as is a command cut short: its name is taken
to be none of the commands' names. `gsmSMSByIndex` may find nothing, read a
whole message, stop anywhere in it or not answer; each deletion may do nothing
and nobody looks. `command_parse` of a whole text may take its first command or
refuse it, whichever the semicolon and the case of the letters make of it; `rst`
has no arguments and is taken only alone. A text has at most 159 characters, so
its walk never leaves the array. `ip` is written setter by setter, each in
EEPROM and RAM. The power may fail at any step; `rst` waits for the watchdog.
Replies are `Notifier`'s; the restart of the modem after `GSM_RESTART_HOURES` is
left out. `polled`, `ran`, `torn` and `cutOff` are history.

`Mailbox` forgets slots, buffer and steps: a command that is received stays in
the box until it was run, or an `rst` was that its message has before it
(`Skipped`); it may run again while it is there (the second run of a text; what
a hidden sender's text left in the buffer) and never after; `ip` sets all its
parameters at once; a power failure cuts off the commands of one message at
most. The map counts the commands in the buffer as in the box while the task is
about to run them or their sender is hidden, and takes `ip` for done at its
start.

## 3. Runs

| Run | Question | Bounds |
|---|---|---|
| `monitor_one_channel` | counters, evidence, calibration under all commands; no run of losses without a fault | 1 channel, 2 parameter sets, bytes of 4 values |
| `monitor_two_channels` | mux, evidence, flags, faults and suspensions with competing channels; the life cycle is implemented | 2 channels, 1 parameter set, 2 checks of 2 samples |
| `monitor_liveness` | losses are found, calibration completes | 2 channels, 1 parameter set, no operator |
| `notifier_loops` | resets keep coming, every number is tried, waiting for registration ends | real byte constants |
| `notifier_ends` | refuted comment on the signal loop | byte of 14, limits 12 |
| `timers` | until a double insertion the list is whole, the queue implemented, and each periodic task in the list or running; tasks run; none starts that was not scheduled, even on a broken list | delays 1, 3, 6 |
| `timers_quick` | refuted assertion and comment on the tasks | same |
| `signals` | a change of the lamps is noticed and ends in the mask, a fault of the unit is told or due and, while the scan changes channel, ends reported, a wait begins with its interrupt armed and ends | 3 sets of lamps of 2 channels, 2 changes, 2 edges of the unit |
| `signals_mask`, `signals_lost` | refuted comments on the mask and on the pending byte | 2 changes; 0 and 1 edges |
| `serial_port` | the ring buffer is a queue for both clients; the transmitter never stops with a byte to send; the console executes each byte once and recovers; no stale answers | receive ring of 3 bytes, transmit ring of 1, 3 lines or commands of 2 bytes, line buffer of 3 |
| `sms_commands` | commands run, once their message is found, up to its first `rst`; what an older poll left runs only as said in section 1; resets end; parameters are of one command; the mailbox is implemented | 4 texts of 1 to 3 commands, 2 messages, 2 slots, 3 commands in the buffer, 2 parameters, 1 power failure |

Why the bounds are enough. Channels interact through the focus of the scan, the
shared countdown and the shared handlers, each of which two channels exercise:
one in doubt or in calibration, one waiting. `ByteSize` 4 puts the limits of the
counters right under the wrap (3 samples of a byte that wraps at 4). Two
parameter sets with different limits let `ip` lower and raise a limit under a
running count. Loads 0 and 4 with level 4 and divisors 4 and 2 give a noise
tolerance of 1 and a loss threshold of 2, so `Pmax` takes several samples to
settle and both verdicts occur on the way; the two-channel run has loads 0 and 2
with level and divisors 2, where one noisy sample precedes the quiet ones.
`CmdMasks` and `ActiveMasks`
limit in the two-channel run which channel is commanded and which power states
alternate; the one-channel run has all of them. In `Timers` the delays keep the
order of 1, 3 and 30 seconds. In `Signals` two changes are enough for one that
comes between clearing the bit and reading the lamps and one after it, and for a
return to the latched state; the second edge of the unit is the one that finds
its interrupt disabled. In `SerialPort` a line with its end fills the receive
ring and two overrun it, the ring wraps, and a third command meets the answers
of two that were given up; a transmit ring of one byte is full or empty at every
step. In `SmsTask` the second message arrives while the first is read, run or
deleted, and two parameters are the fewest that can be torn apart. The texts are
an `ip`, an `rst` alone, an `rst` between two other commands, and two commands
of which a shorter text leaves the last; `Capacity` is the longest of them.

`lossRun` and `quietRun` are bounded by the behaviour itself. The bounds on the
world are `MaxChanges`, `MaxFaults`, `MaxLines`, `MaxMessages` and `MaxCuts`;
all are guards of actions of the environment.

Deadlock is checked in every run but `serial_port`: there the typed lines or the
commands run out, and a modem port that has sent its last command stops.

## 4. Fairness

- `monitor_liveness`: weak fairness of `ControlLoop` and of `CmdTask`. The main
  loop always comes back to both; a one-second timer is in the list at all
  times (`TasksRunUnlessMisused`). The properties assume the lamps settle, and
  `CalibrationCompletes` that no recalibration is forced for ever. Time spent
  in a notification is left out here: see `RegistrationEnds` and its refuted
  counterpart `NotificationEnds`.
- `Notifier`: weak fairness of the program, and strong fairness of the modem's
  registration *during a wait*: the loop spends its time in 60 s and 20 s
  waits, and a modem that always registered in the instant between a query and
  the reset that follows would otherwise be an infinite counterexample. The
  properties assume that the network settles.
- `Timers`: weak fairness of the main loop, the watchdog and time. None for the
  button. `TasksRunUnlessMisused` assumes that the board is not reset again and
  again, for the SMS task needs 30 s without a reset.
- `Signals`: weak fairness of the main loop, which waits only in `Wait` (a busy
  loop), and of the zero crossings while the mains are there. The properties
  assume that the mains stay, and `FaultReported` that the scan changes channel
  again and again: the crossing it then waits for is what looks at the unit's
  line. None for lamps and unit.
- `SerialPort`: weak fairness of each interrupt (the hardware raises it while
  its cause lasts) and of the client, which the main loop comes back to. The
  modem need not answer.
- `SmsTask`: weak fairness of the loop. Strong fairness of `ReadWhole` and of a
  deletion at boot that succeeds: a modem that fails does not fail for ever.
  Both are outcomes of a call the loop makes again and again, so weak fairness,
  which asks for a call that never returns in between, would say nothing. The
  deletion after a command has no fairness and may fail each time.

## 5. Proofs

Eight modules hold theorems. They hold for every value of the constants that
satisfies the named assumptions.

| Module | Theorem | Property |
|---|---|---|
| `ChannelMonitorProofs` | `TypeCorrect` | `TypeOK` |
| | `CountersDoNotWrap` | `CountersNeverWrap` |
| | `EvidenceBelongsToLossy` | `EvidenceOnlyWhenLossy` |
| | `EvidenceCoveredByLosses` | `EvidenceIsReal` |
| | `FaultsAreBacked` | `FaultBackedByLosses` |
| | `LossesAreDeclared` | `LossesMakeFault` |
| | `MonitoredIsCalibrated` | `MonitoredAfterQuietSeries` |
| | `MuxIsOnSelection` | `MuxFollowsSelection` |
| | `FlagImpliesRelay` | `FaultFlagOnRelay` |
| `FaultDetectorProofs` | `RefinesDetector` | `ImplementsDetector` |
| `ResumeTimeProofs` | `SuspensionsAreBounded` | `SuspensionBounded` |
| `NotifierProofs` | `TypeCorrect`, `EveryNumberIsTried` | `TypeOK`, `EveryDestinationTried` |
| | `ModemIsReset` | `ResetsKeepComing` |
| `TimersProofs` | `TypeCorrect`, `ListIsSound` | `TypeOK`, `ListSound` |
| | `TasksStayScheduled` | `TasksScheduled` |
| | `StartsAreScheduled` | `StartsOnlyScheduled` |
| | `ListImplementsQueue` | `TimersImplementQueue` |
| `SignalsProofs` | `TypeCorrect`, `ChangesAreNoticed` | `TypeOK`, `MaskCurrentOrDue` |
| | `WaitIsArmed` | `WaitArmed` |
| | `FaultsAreServed` | `FaultToldOrDue` |
| `SerialPortProofs` | `TypeCorrect`, `FifoCallsAreDefined` | `TypeOK`, `FifoCallsDefined` |
| | `TransmitterIsArmed` | `TransmitterArmed` |
| | `AnswersAreNotStale` | `AnswersNotStale` |
| | `PiecesAreExecutedOnce` | `PiecesExecutedOnce` |
| | `PortIsAQueue` | `PortImplementsQueue` |
| `SmsTaskProofs` | `TypeCorrect` | `TypeOK` |
| | `ConfIsOfOneCommand` | `ConfOfOneCommand` |
| | `RunsThisPollsText` | `OnlyThisPollsText` |
| | `TaskIsAMailbox` | `ImplementsMailbox` |

The arguments.

- *Detector.* `TypeOK` is inductive. Lemmas state what the helpers compute
  (`IncExact`: an increment below the top of the byte does not wrap;
  `SampleFacts`: what selecting a channel says of it; `RecalibrateValues`), and
  `StepKinds` sorts the disjuncts of `Next`: a step either leaves the counters
  of a channel alone, resets them, or is one of the samples.
  `CountersNeverWrap` is inductive with `TypeOK`: a count is advanced only while
  the incremented value is below a limit of the parameters *now* in force,
  which is a byte. `EvidenceIsReal` needs `CountersNeverWrap`, or the increment
  would not be one; a completed check moves at least `MinSamples` losses from
  one counter to the other (`OneMoreCheck`). `FaultBackedByLosses` follows from
  it at the step that declares the fault (`FaultEvidence`).
  `LossesMakeFault` is the converse, and needs an upper bound that survives
  `ip`: `Covered` says that some parameters that were in force have a limit of
  samples above the running count and cover each completed check with it; a
  loss may replace them by larger ones, never by smaller.
  `MonitoredAfterQuietSeries` is not inductive: it says nothing of channels
  still in calibration. `SeriesUnderWay` adds that quiet samples seen plus
  samples still due never fall below `MinSamples` for every enabled channel in
  calibration, whatever `ip` stores.
- *Refinement of the detector.* Each handler maps to a step of the life cycle
  or to a stutter. A suspension needs that a sampled channel is not suspended; a
  fault needs `FaultEvidence`; a channel that is not lossy must have lost nothing
  (`EvidenceOnlyWhenLossy`), or a good sample would change `losses` of a channel
  that is monitored.
- *Suspensions.* The bound is not inductive. `BoundedBy(t)` adds to the time
  waited the time the countdown still has to run, and bounds both by `t` for
  each suspended channel: the countdown starts again only when one more channel
  is suspended. `t` is one of the check times, and another one when `ip` has
  stored a longer one.
- *Notifier.* `DestinationSound` says which numbers were tried at each call:
  the enabled ones before the slot that is served. The types need it, and that
  the timeout that has grown is never 0, for it is a divisor.
  `ResetsKeepComing` depends on the constants of the loops. `LoopsAssumption`
  says what the proof uses of them: each limit is a multiple of its step, at
  least four times as large, and the byte wraps within one step of the limit
  (250 = 25 * 10, 240 = 12 * 20, 256). `LoopsInStep` then gives the phase of
  each loop: how far `try` has gone for each size of `timeout`, and how many
  waits have passed since the reset.
- *Timers.* The types hold on broken lists too: `EndsKept` says that no link
  leads past an end. `Chain` describes the whole list: its timers linked both
  ways from head to tail in the order of expiry; the other timers' links are
  cleared (`Whole`), which is why removing a timer that is in no list does no
  harm in the debug build. An insertion puts its timer at the place where the
  search stops, a removal links the neighbours, a second keeps the order. The
  refinement follows with `Listed = active`. `TasksScheduled` adds that the
  timer of every periodic task is active or runs (`PeriodicKept`).
  After a double insertion `Chain` is gone, and `StartsOnlyScheduled` rests on
  what the macros cannot break (`BrokenInv`): every link is answered by the
  link back, except links to the button timer, of which several may be left
  over (`LinksAnswered`, `ButtonLinked`); a timer that is not scheduled leads
  nowhere (`InactiveEnds`). The poll takes the head's successor for expired
  only if that one has a successor itself, so it is scheduled. Without the
  clearing of the links in the debug build `InactiveEnds` would be false.
- *Signals.* `SignalsInv` says that the handler has seen INT as it is, that the
  byte `signal_enable` loaded still enables the expander, and that the mask and
  the latch are the lamps unless a reading is due or the change was missed.
  `ServedInv` is inductive on top of it: a crossing that comes before the store
  of `signal_enable` has left its pending bit, and a fault that was seen is
  pending, being served, told or counted as erased.
- *Serial port.* `PortInv` says what each test leaves true until its call: the
  receive interrupt only adds bytes, the transmit interrupt only takes them.
  The refinement maps the ring to the sequence of its bytes; lemmas say what
  push, pop and flush do to that sequence, across the wrap. `ArmedInv`: the
  flag `sending` is set without the interrupt only between the statements that
  start the transmitter. `AnswerInv`: until the last byte of a command has left,
  nothing of its answer is on the wire, in the ring or in the line; and a
  command that was not given up is over before the next is sent. `PieceInv`
  numbers the bytes in the order they are typed (`Nth`): executed, read,
  buffered and on the wire are stretches of that order, one behind the other,
  until a byte is dropped.
- *SMS task.* `TaskInv` is inductive: the types, `BufferSound` and `StepSound`.
  `BufferSound` says what may stand in the buffer. Behind the zero, and before
  it between two polls, there are only commands that have run and are no `rst`
  (`Old`, `Done`): the number of a shown sender stays with its text, so that the
  cleanup before each poll removes it, and a reading puts its text in front of
  them. While a text is run each command is `Old` or stands where this poll's
  message has it (`InPlace`). `StepSound`: only the first slot is ever read, a
  text that is run before its deletion is that slot's, and what a boot finds
  marked as read was run, stands behind an `rst` that was, or was cut off.
  Lemmas on the sequences (`HeldConcat`, `LeftByFacts`, `CutsFacts`,
  `ReadLeaves`) say what a text that is cut, joined or overwritten holds.
  `ConfSound`: in the middle of `ip` the parameters before `next` are of the
  command that is run, and RAM is EEPROM.
- *Refinement of the mailbox.* Each step executes a command of the box, forgets,
  fails, receives or stutters. What a poll or a reading erases was run
  (`IdleRan`); what has not run while a text is run is this poll's, at or behind
  the command the loop has come to (`UnrunOfPolled`): so a reset erases only
  what stands behind its `rst`, and a power failure finds one message at most
  that is marked or in the buffer and has commands left. `FromRan`: each
  parameter is from an `ip` that was run.

The assumptions on constants are those named in the modules, and TLC evaluates
them in the runs. `ParamsAssumption` is the only one the code does not enforce
(see `ChannelMonitor` in section 2).

Every invariant, action property and refinement of a passing run is proved.
Left to TLC are the liveness properties, for fairness is out of the prover's
reach. Their safe side is proved for most of them: the transmitter is armed,
the wait is armed, the fault is told or due, the change of the lamps is in the
mask or due, the tasks are in the list, the modem keeps being reset, a command
that leaves the SIM and the buffer was run, skipped by an `rst` or cut off,
losses in a row are bounded by a fault. What TLC adds is that the loop takes the
steps that these leave enabled. `CalibrationCompletes`, `ConsoleRecovers`
and `ResetsEnd` have no such counterpart and are known on the small instances
only. That a suspension ends and that no byte stays in the transmit buffer are
stated by invariants alone: `SuspensionBounded` counts the runs of `cmd_task`, and
`TransmitterArmed` leaves the interrupt enabled. `TypeOK` of `Timers`, `Signals`
and `SmsTask` is in no run, for it is proved and their other invariants say more.
What the violation runs refute needs no proof: a counterexample is one.

## 6. What the runs refute, and what else the models show

Refuted by a run:

- `control.c:150-168` (`notifier_ends`): the signal loop never reads the signal
  again; the first bad reading blocks the firmware for ever with the watchdog
  fed.
- `timer.c:126` (`timers_quick`): two presses in one iteration insert the button
  timer twice; the SMS and console tasks then never run again. The links cleared
  in the debug build keep it from being worse: with `REMOVE` as a release build
  compiles it (the mutant of `StartsOnlyScheduled`) an expired timer can stay
  in the list and run for ever.
- `control.c:464` (`signals_mask`): a reading of the expander that fails leaves
  the old mask and inverts it.
- `signals.h:44` (`signals_lost`): the store that clears one signal erases
  another one that came after the load.

Read off the models, with no run of their own:

- `control.c:878`: a suspension that falls between the expiry of the countdown
  and the next tick restarts it for the channels that were due, so a channel can
  wait up to N check times (`SuspensionsAreBounded`), not one.
- `control.c:140`: the interval between two resets of the modem does not grow
  as the timeout does, for the counter it is compared with is not cleared.
- `timer.c:171`: every three-second press ends with the removal of an expired
  timer. In the debug build this writes only the AVR registers.
- `control.c:246-253`: the message is deleted before its text is run command by
  command, so what stands behind an `rst` in the same text is lost in the reset,
  without a power failure. TLC refutes "each command of a message runs", in
  place of `EachCommandRuns`, with `ip; rst; other`.
- `control.c:205` and `gsm.c:698-700`: the final zero becomes a semicolon, and an
  empty slot zeroes one byte of the text only: what is left of a hidden sender's
  text, which is not cleaned (`gsm.h:145`), runs again behind a shorter text and
  at each poll that fails, also after its message was deleted and another `ip`
  was run. TLC refutes "an `ip` that left the SIM does not run again".
- `control.c:253`: a message that could be read only in part is executed; a
  command cut short that is still a command runs with what was read of it.
- `signals.c:111` and `control.c:522-525`: the unit's interrupt is off after its
  first edge. The wait for a zero crossing runs the handler again, but only when
  the sampled channel changed. With one channel active, or one in focus, a later
  fault of the unit is not reported until the lamps or the button give an edge:
  TLC refutes `FaultReported` without its assumption on the scan, with a loop
  that samples one channel.
- `control.c:975`: the comment says a fault is notified "on transitionn to LOW
  value"; line 974 asks for the status, which is set when the line is high. The
  model follows the code.
- `control.c:700`: `controlCalibration` clears the fault flag and leaves the
  relay on; `FaultFlagOnRelay` says only that the flag implies the relay.
- `gsm.c:418`: the answer to a command that was given up may be taken for that
  of the next; `AnswersNotStale` leaves such commands out.

## 7. State of the plan

Done: the detector with its abstract specification and refinement, the
notifier, the timers with theirs, the signals, the serial port with its queue,
the SMS task with the EEPROM and its mailbox, and a proof of every safety property that a
passing run checks.

Left, in this order: the texts of an SMS byte by byte (here commands, whole or
damaged); the lists of channels
(`getChannelsMask`) against a reference; monitoring switched off while a channel
is in doubt (`dm`, `control.c:578`); the console's replies over the transmitter;
the dialogue with the modem command by command over `SerialPort`; a write of
several bytes to the EEPROM that is cut.

## 8. Not modelled

Of the firmware: the formatting of reports, the parser and its table of
commands (`SmsTask` has its verdict on a text), the register transfers of meter
and expander, the LEDs other than the relay's, the reset reasons and the stack
check, the real-time clock; `gsm.c` after line 860, which is not compiled.

Of the repository: almost all of its lines are BeRTOS, vendored and for the
greatest part not linked into this firmware: code pages and the FAT file
system, fonts and graphics, the network stack, the preemptive kernel, the
register headers and drivers of other processors. Modelling them would say
nothing of this system; the parts it does use (lists, timers, FIFO, serial
driver) are modelled. That is why the share of the repository's lines the
modules stand for is small.
