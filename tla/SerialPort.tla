----------------------------- MODULE SerialPort -----------------------------
(***************************************************************************)
(* The serial driver (src/bertos/drv/ser.c, the interrupt handlers of      *)
(* src/bertos/cpu/avr/drv/ser_avr.c) and its two clients: the console,     *)
(* which polls its port once a second without a timeout, and the GSM       *)
(* driver, which purges its port, sends a command and waits for a line.    *)
(* The two ports share nothing: a behaviour is about one of them, told     *)
(* apart by the receive timeout that is set at boot.                       *)
(*                                                                         *)
(* An action is what runs between two points where an interrupt may come   *)
(* in: the fifo operations are under ATOMIC, the rest of ser.c is not.     *)
(***************************************************************************)
EXTENDS FifoBuf

CONSTANTS
  RxEnd, TxEnd,  \* the last places of the two buffers (sizes less one)
  LineLength,    \* bytes of a line of the console, of a command
  MaxLines,      \* bound: lines typed at the console, commands sent
  LineBuf        \* size of the buffer kfile_gets is given

ASSUME SizesAssumption ==
  /\ RxEnd \in Nat \ {0} /\ TxEnd \in Nat \ {0}
  /\ LineLength \in Nat \ {0} /\ MaxLines \in Nat \ {0}
  /\ LineBuf \in Nat \ {0}

Line == 1 .. MaxLines

\* Byte nr of line (or of the answer to command) of; nr 0 ends a line
Byte == [of : Line, nr : 0 .. LineLength]
Ends(c) == c.nr = 0

VARIABLES
  rx, tx,      \* rxfifo and txfifo
  status,      \* TRUE: some flag of SERRF_RX is set
  sending,     \* hw->sending
  txirq,       \* UDRIE: the interrupt of the transmitter is enabled
  rxtimeout,   \* 0 for dbg_port, not 0 for gsm_port
  pc,          \* where the client is
  line,        \* what kfile_gets has stored of the line it reads
  put,         \* the byte of the command that is sent
  wire,        \* the bytes that have yet to arrive
  cmd,         \* commands sent to the modem, lines typed, so far
  \* history: a byte was dropped or swallowed; the bytes the console executed;
  \* the commands whose answer nobody waits for any more
  lost, ran, gaveUp

port    == <<rx, status>>
sender  == <<tx, sending, txirq>>
history == <<lost, ran, gaveUp>>
vars == <<port, sender, rxtimeout, pc, line, put, wire, cmd, history>>

TypeOK ==
  /\ rx \in FifoOf(Byte, RxEnd) /\ tx \in FifoOf(Byte, TxEnd)
  /\ status \in BOOLEAN /\ sending \in BOOLEAN /\ txirq \in BOOLEAN
  /\ rxtimeout \in {0, 1}
  /\ pc \in {"idle", "purge", "clear", "put", "full", "push", "start",
             "begin", "get", "wait", "take", "pop", "parse", "settle"}
  /\ line \in Seq(Byte)
  /\ put \in Byte /\ wire \in Seq(Byte) /\ cmd \in 0 .. MaxLines
  /\ lost \in BOOLEAN /\ ran \subseteq Byte /\ gaveUp \subseteq Line

-----------------------------------------------------------------------------
\* The line n of the console; the answer to command n, a line and its result
TypedLine(n) == [i \in 1 .. LineLength + 1 |->
                   [of |-> n, nr |-> IF i <= LineLength THEN i ELSE 0]]
AnswerTo(n)  == <<[of |-> n, nr |-> 1], [of |-> n, nr |-> 0],
                  [of |-> n, nr |-> LineLength], [of |-> n, nr |-> 0]>>

Blank(end) == [buf |-> [i \in 0 .. end |-> [of |-> 1, nr |-> 0]],
               head |-> 0, tail |-> 0, end |-> end]

Init ==
  /\ rx = Blank(RxEnd) /\ tx = Blank(TxEnd)
  /\ status = FALSE /\ sending = FALSE /\ txirq = FALSE
  /\ rxtimeout \in {0, 1}
  /\ pc = "idle" /\ line = <<>> /\ put = [of |-> 1, nr |-> 0]
  /\ wire = <<>>
  /\ cmd = 0 /\ lost = FALSE /\ ran = {} /\ gaveUp = {}

-----------------------------------------------------------------------------
(***************************************************************************)
(* The interrupt handlers.                                                 *)
(***************************************************************************)
\* USART1_RX: the byte is read in any case and dropped when there is no room.
\* A framing error or an overrun of the shift register is flagged too.
RxInterrupt ==
  /\ wire # <<>> /\ wire' = Tail(wire)
  /\ \/ /\ fifo_isfull(rx)
        /\ status' = TRUE /\ lost' = TRUE
        /\ rx' = rx
     \/ /\ ~fifo_isfull(rx)
        /\ rx' = fifo_push(rx, Head(wire))
        /\ status' \in {status, TRUE} /\ lost' = lost
  /\ UNCHANGED <<sender, rxtimeout, pc, line, put, cmd, ran, gaveUp>>

\* The modem starts to answer a command when its last byte has arrived, now or
\* later, or not at all; the delay is that of the bytes on the wire
Hears(c) ==
  IF Ends(c) THEN wire' \in {wire, wire \o AnswerTo(c.of)} ELSE wire' = wire

\* USART1_UDRE: the next byte, or the end of the transmission
TxInterrupt ==
  /\ txirq
  /\ IF fifo_isempty(tx)
       THEN txirq' = FALSE /\ sending' = FALSE /\ UNCHANGED <<tx, wire>>
       ELSE /\ tx' = fifo_pop(tx) /\ Hears(fifo_first(tx))
            /\ UNCHANGED <<sending, txirq>>
  /\ UNCHANGED <<port, rxtimeout, pc, line, put, cmd, history>>

-----------------------------------------------------------------------------
(***************************************************************************)
(* ser_getchar and kfile_gets.                                             *)
(***************************************************************************)
\* What the client makes of EOF: the console executes what it has read, the
\* GSM driver gives the command up
EndOfFile ==
  IF rxtimeout = 0 THEN pc' = "parse" /\ gaveUp' = gaveUp
                   ELSE pc' = "idle" /\ gaveUp' = gaveUp \cup {cmd}

\* With no timeout there is no wait
GetChar ==
  /\ pc = "get"
  /\ IF ~fifo_isempty(rx) THEN pc' = "take" /\ gaveUp' = gaveUp
     ELSE IF rxtimeout = 0 THEN EndOfFile
     ELSE pc' = "wait" /\ gaveUp' = gaveUp
  /\ UNCHANGED <<port, sender, rxtimeout, line, put, wire, cmd, lost, ran>>

WaitEnds ==
  /\ pc = "wait" /\ (~fifo_isempty(rx) \/ status)
  /\ pc' = "take"
  /\ UNCHANGED <<port, sender, rxtimeout, line, put, wire, cmd, history>>

WaitTimesOut ==
  /\ pc = "wait"
  /\ status' = TRUE
  /\ EndOfFile
  /\ UNCHANGED <<rx, sender, rxtimeout, line, put, wire, cmd, lost, ran>>

\* MUTANT: the status is not tested after the wait
MutNotTested == FALSE

ErrorFlagged == status

\* A flagged error hides the bytes that did arrive
TestStatus ==
  /\ pc = "take"
  /\ IF ErrorFlagged THEN EndOfFile ELSE pc' = "pop" /\ gaveUp' = gaveUp
  /\ UNCHANGED <<port, sender, rxtimeout, line, put, wire, cmd, lost, ran>>

\* The line is of the answer to the last command
Mine == \A i \in 1 .. Len(line) : line[i].of = cmd

\* The end of the line; _gsmRead goes on to the next one when it is empty.  A
\* command that took the answer to another one leaves its own to be read.
LineRead ==
  /\ pc' = IF rxtimeout = 0 THEN "parse"
           ELSE IF line = <<>> THEN "get" ELSE "settle"
  /\ gaveUp' = IF rxtimeout # 0 /\ ~Mine THEN gaveUp \cup {cmd} ELSE gaveUp

\* kfile_gets stores the byte unless it ends the line; the byte that does not
\* fit in the buffer ends it too and is gone
PopChar ==
  /\ pc = "pop"
  /\ rx' = fifo_pop(rx)
  /\ LET c == fifo_first(rx) IN
       IF Ends(c) \/ Len(line) >= LineBuf - 1
         THEN LineRead /\ line' = line /\ lost' = (lost \/ ~Ends(c))
         ELSE /\ pc' = "get" /\ line' = Append(line, c)
              /\ UNCHANGED <<lost, gaveUp>>
  /\ UNCHANGED <<status, sender, rxtimeout, put, wire, cmd, ran>>

-----------------------------------------------------------------------------
(***************************************************************************)
(* The console: console_run, once a second.                                *)
(***************************************************************************)
\* MUTANT: a call that reads nothing leaves the old text
MutTextKept == line' = line

NewText == line' = <<>>

OperatorTypes ==
  /\ rxtimeout = 0 /\ cmd < MaxLines
  /\ cmd' = cmd + 1
  /\ wire' = wire \o TypedLine(cmd + 1)
  /\ UNCHANGED <<port, sender, rxtimeout, pc, line, put, history>>

Poll ==
  /\ pc = "idle" /\ rxtimeout = 0
  /\ pc' = "get" /\ NewText
  /\ UNCHANGED <<port, sender, rxtimeout, put, wire, cmd, history>>

\* MUTANT: the errors of the port are not cleared
MutErrorsKept == status' = status

kfile_clearerr == status' = FALSE

\* The result of kfile_gets is ignored: what it stored is executed in any case
Execute ==
  /\ pc = "parse"
  /\ kfile_clearerr
  /\ ran' = ran \cup {line[i] : i \in 1 .. Len(line)}
  /\ pc' = "idle"
  /\ UNCHANGED <<rx, sender, rxtimeout, line, put, wire, cmd, lost, gaveUp>>

-----------------------------------------------------------------------------
(***************************************************************************)
(* The GSM driver: _gsmWriteLine, byte by byte, and _gsmRead.              *)
(***************************************************************************)
SendCommand ==
  /\ pc = "idle" /\ rxtimeout # 0 /\ cmd < MaxLines
  /\ cmd' = cmd + 1
  /\ put' = [of |-> cmd + 1, nr |-> 1]
  /\ pc' = "purge"
  /\ UNCHANGED <<port, sender, rxtimeout, line, wire, history>>

\* MUTANT: what is buffered is kept
MutNoPurge == rx' = rx

ser_purgeRx == rx' = fifo_flush(rx)

PurgeRx ==
  /\ pc = "purge"
  /\ ser_purgeRx
  /\ pc' = "clear"
  /\ UNCHANGED <<status, sender, rxtimeout, line, put, wire, cmd, history>>

\* ser_purgeTx, then ser_setstatus(gsm, 0): no interrupt reads both
PurgeTx ==
  /\ pc = "clear"
  /\ tx' = fifo_flush(tx) /\ status' = FALSE
  /\ pc' = "put"
  /\ UNCHANGED <<rx, sending, txirq, rxtimeout, line, put, wire, cmd, history>>

\* ser_putchar waits while the buffer is full ...
PutChar ==
  /\ pc = "put"
  /\ pc' = IF fifo_isfull(tx) THEN "full" ELSE "push"
  /\ UNCHANGED <<port, sender, rxtimeout, line, put, wire, cmd, history>>

PutWaitEnds ==
  /\ pc = "full" /\ ~fifo_isfull(tx)
  /\ pc' = "push"
  /\ UNCHANGED <<port, sender, rxtimeout, line, put, wire, cmd, history>>

\* The next byte of the command, or the wait for its answer
NextByte ==
  IF Ends(put)
    THEN pc' = "get" /\ line' = <<>> /\ put' = put
    ELSE /\ pc' = "put" /\ line' = line
         /\ put' = [put EXCEPT !.nr = IF @ = LineLength THEN 0 ELSE @ + 1]

\* ... and drops the byte when that takes too long; _gsmWriteLine goes on
PutTimesOut ==
  /\ pc = "full"
  /\ NextByte
  /\ UNCHANGED <<port, sender, rxtimeout, wire, cmd, history>>

PushChar ==
  /\ pc = "push"
  /\ tx' = fifo_push(tx, put)
  /\ pc' = "start"
  /\ UNCHANGED <<port, sending, txirq, rxtimeout, line, put, wire, cmd, history>>

\* MUTANT: the two statements of the if-block are swapped
MutIfBlock(step) ==
  \/ step = 1 /\ txirq' = TRUE /\ sending' = sending
  \/ step = 2 /\ sending' = TRUE /\ txirq' = txirq

\* The if-block of uart1_enabletxirq: "WARNING: racy code here! [...] The order
\* of the statements in the if-block matters."
IfBlock(step) ==
  \/ step = 1 /\ sending' = TRUE /\ txirq' = txirq
  \/ step = 2 /\ txirq' = TRUE /\ sending' = sending

TxStart ==
  /\ pc = "start"
  /\ IF sending THEN NextByte /\ UNCHANGED <<sending, txirq>>
                ELSE IfBlock(1) /\ pc' = "begin" /\ UNCHANGED <<line, put>>
  /\ UNCHANGED <<port, tx, rxtimeout, wire, cmd, history>>

TxBegin ==
  /\ pc = "begin"
  /\ IfBlock(2) /\ NextByte
  /\ UNCHANGED <<port, tx, rxtimeout, wire, cmd, history>>

\* After a line _gsmRead waits: the rest of an answer that has begun arrives.
\* Then the command is over, or its result is read as one more line.
Settled ==
  /\ pc = "settle"
  /\ \A i \in 1 .. Len(wire) : wire[i].of # cmd
  /\ pc' \in {"idle", "get"} /\ line' = <<>>
  /\ UNCHANGED <<port, sender, rxtimeout, put, wire, cmd, history>>

-----------------------------------------------------------------------------
Interrupt == RxInterrupt \/ TxInterrupt

Client ==
  \/ Poll \/ Execute
  \/ SendCommand \/ PurgeRx \/ PurgeTx \/ Settled
  \/ PutChar \/ PutWaitEnds \/ PutTimesOut \/ PushChar \/ TxStart \/ TxBegin
  \/ GetChar \/ WaitEnds \/ WaitTimesOut \/ TestStatus \/ PopChar

Next == Interrupt \/ OperatorTypes \/ Client

\* Bytes arrive and leave, and the main loop comes back to its client
Spec == /\ Init /\ [][Next]_vars
        /\ WF_vars(RxInterrupt) /\ WF_vars(TxInterrupt) /\ WF_vars(Client)

-----------------------------------------------------------------------------
(***************************************************************************)
(* Properties.                                                             *)
(***************************************************************************)
\* Whatever the interleaving of the handlers with ser_getchar and ser_purge,
\* the port is a queue that drops bytes only when it is full and says so.
Queue == INSTANCE ByteQueue WITH Capacity <- RxEnd, queue <- Contents(rx),
                                 err <- status
PortImplementsQueue == Queue!QueueSpec

\* fifo_pop of an empty buffer and fifo_push to a full one are undefined: the
\* test comes steps before them, and what comes in between does not undo it.
FifoCallsDefined ==
  /\ pc = "pop" => ~fifo_isempty(rx)
  /\ pc = "push" => ~fifo_isfull(tx)

\* The inductive invariant behind it
PortInv ==
  /\ TypeOK /\ FifoCallsDefined
  /\ pc = "take" => ~fifo_isempty(rx) \/ status
  /\ rxtimeout # 0 /\ pc # "idle" => cmd \in Line

\* What the console executes are pieces of one line, in order, and none of
\* them twice, unless a byte was dropped: the tail of one line and the head of
\* the next are then run together.
PiecesExecutedOnce ==
  [][Execute /\ ~lost =>
       /\ \A i \in 1 .. Len(line) : line[i] \notin ran
       /\ \A i \in 2 .. Len(line) :
            line[i] = [line[i - 1] EXCEPT !.nr = @ + 1]]_vars

\* A console overrun once is not deaf: everything that arrives is read in the
\* end, although the error flag hides it until somebody clears the flag.
ConsoleRecovers ==
  rxtimeout = 0 => <>[](wire = <<>> /\ fifo_isempty(rx) /\ ~status)

\* No byte stays in the buffer with the transmitter stopped: whenever there is
\* one to send, the interrupt is enabled or the client has still to find it
\* disabled.  The order of the statements that start the transmitter is right
\* for every moment of its interrupt.
TransmitterArmed == fifo_isempty(tx) \/ txirq \/ pc \in {"start", "begin"}

\* The line a command takes for its answer is its own, or that of a command
\* that was given up before (or had itself taken the answer to another one):
\* the lines the driver leaves unread do not disturb the next command.
AnswersNotStale ==
  [][pc = "pop" /\ pc' = "settle" =>
       \A i \in 1 .. Len(line) : line[i].of \in gaveUp \cup {cmd}]_vars
=============================================================================
