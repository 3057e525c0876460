------------------------------ MODULE SmsTask -------------------------------
(***************************************************************************)
(* Commands by SMS (sms_task of src/ade/control.c, gsmSMSByIndex and the   *)
(* deletions of src/ade/gsm.c) and what they leave in the EEPROM           *)
(* (src/ade/eeprom.c), with a modem that may not answer, a reset by the    *)
(* rst command and the power failing at any moment.                        *)
(*                                                                         *)
(* The task reads the first slot of the SIM, gives the whole text to       *)
(* command_parse, deletes the message and goes through the text again,     *)
(* command by command, and on into what an older, longer text left in the  *)
(* buffer.  The modem puts a new message into the lowest free slot.  The   *)
(* answers that commands send are the subject of Notifier.                 *)
(***************************************************************************)
EXTENDS Naturals, Sequences, FiniteSets

CONSTANTS
  Slots,        \* the slots of the SIM: 1 .. Slots
  Params,       \* the bytes the ip command writes, one after the other
  Texts,        \* what is sent: the commands between the semicolons
  Capacity,     \* bound: commands, whole or in part, the buffer holds
  MaxMessages,  \* bound: messages that arrive
  MaxCuts       \* bound: power failures

\* ip sets the parameters, rst resets the board, any other command is told by
\* its having run
Kinds == {"ip", "rst", "other"}

ASSUME SmsAssumption ==
  /\ Slots \in Nat \ {0} /\ Params \in Nat \ {0} /\ Capacity \in Nat
  /\ Texts \subseteq Seq(Kinds) \ {<<>>}
  /\ MaxMessages \in Nat /\ MaxCuts \in Nat

\* The number of the sender may not be shown
Message == [nr : 1 .. MaxMessages, kinds : Texts, shown : BOOLEAN]
NoMessage == [nr |-> 0, kinds |-> <<>>, shown |-> FALSE]

\* A command, by its message and its place in it
Command == [nr : 1 .. MaxMessages, place : Nat \ {0}, cmd : Kinds, shown : BOOLEAN]

\* Part of a command, which no command's name begins; also what the EEPROM is
\* programmed with
NoCommand == [nr |-> 0, place |-> 0, cmd |-> "none", shown |-> FALSE]
Piece == Command \cup {NoCommand}

Commands(m) ==
  [i \in 1 .. Len(m.kinds) |->
     [nr |-> m.nr, place |-> i, cmd |-> m.kinds[i], shown |-> m.shown]]
Held(s) == {s[i] : i \in 1 .. Len(s)} \ {NoCommand}

VARIABLES
  slots,   \* the messages on the SIM
  seen,    \* the slots marked as read
  text,    \* msg.text up to its final zero
  rest,    \* what stands behind that zero
  from,    \* msg.from[0] # 0
  at,      \* the step of the task
  pos,     \* the command of the text smsSplitAndParse is at, or 0 before it
  next,    \* the parameter ip writes next
  eeprom, ram,     \* eeconf and its copy rt_conf: the ip each byte is from
  arrived, cuts,   \* messages and power failures so far
  \* history: what slot 1 held at this poll; the commands that were run; the
  \* power failed in the middle of an ip; the commands not yet run of messages
  \* that were marked as read or in the buffer when it failed
  polled, ran, torn, cutOff

sim     == <<slots, seen>>
buffer  == <<text, rest, from>>
conf    == <<eeprom, ram>>
losses  == <<torn, cutOff>>
vars == <<sim, buffer, at, pos, next, conf, arrived, cuts, polled, ran, losses>>

Parameter == 1 .. Params
Confs == [Parameter -> Piece]

TypeOK ==
  /\ slots \in [1 .. Slots -> Message \cup {NoMessage}] /\ seen \subseteq 1 .. Slots
  /\ \A i \in seen : slots[i] # NoMessage
  /\ text \in Seq(Piece) /\ rest \in Seq(Piece) /\ from \in BOOLEAN
  /\ at \in {"boot", "idle", "read", "parse", "delete", "split", "write", "reset"}
  /\ pos \in Nat /\ next \in 1 .. Params
  /\ eeprom \in Confs /\ ram \in Confs
  /\ arrived \in 0 .. MaxMessages /\ cuts \in 0 .. MaxCuts
  /\ polled \in Message \cup {NoMessage} /\ ran \subseteq Command
  /\ torn \in BOOLEAN /\ cutOff \subseteq Command

-----------------------------------------------------------------------------
(***************************************************************************)
(* The modem and the power.                                                *)
(***************************************************************************)
Arrives(m) ==
  /\ m.nr = arrived + 1 /\ arrived' = arrived + 1
  /\ \E i \in 1 .. Slots :
       /\ slots[i] = NoMessage /\ \A j \in 1 .. i - 1 : slots[j] # NoMessage
       /\ slots' = [slots EXCEPT ![i] = m]
  /\ UNCHANGED <<seen, buffer, at, pos, next, conf, cuts, polled, ran, losses>>

Delete(S) ==
  /\ slots' = [i \in 1 .. Slots |-> IF i \in S THEN NoMessage ELSE slots[i]]
  /\ seen' = seen \ S

\* ee_loadConf and the zeroed msg; the step left is controlSetup's deletion
Boots ==
  /\ ram' = eeprom /\ text' = <<>> /\ rest' = <<>> /\ from' = FALSE
  /\ at' = "boot" /\ pos' = 0 /\ next' = 1 /\ polled' = NoMessage
  /\ UNCHANGED <<sim, eeprom, arrived, ran>>

InBuffer == Held(text) \cup Held(rest)
Read == UNION {Held(Commands(slots[i])) : i \in seen}

PowerFails ==
  /\ cuts < MaxCuts /\ cuts' = cuts + 1
  /\ torn' = (torn \/ at = "write")
  /\ cutOff' = cutOff \cup ((Read \cup InBuffer) \ ran)
  /\ Boots

-----------------------------------------------------------------------------
(***************************************************************************)
(* gsmSMSDelRead at boot: the messages that were read.  Neither deletion's *)
(* result is looked at: the modem may have done nothing.                   *)
(***************************************************************************)
\* MUTANT: nothing is deleted at boot
MutDelNone == {}

\* MUTANT: the messages that were not read are deleted too
MutDelAll == 1 .. Slots

gsmSMSDelRead == seen

DelReadDone == at = "boot" /\ Delete(gsmSMSDelRead)
DelReadFails == at = "boot" /\ UNCHANGED sim

SetupEnds ==
  /\ DelReadDone \/ DelReadFails
  /\ at' = "idle"
  /\ UNCHANGED <<buffer, pos, next, conf, arrived, cuts, polled, ran, losses>>

-----------------------------------------------------------------------------
(***************************************************************************)
(* sms_task: what a reading leaves in the buffer.                          *)
(***************************************************************************)
\* MUTANT: the buffer is left as it is
MutNoCleanup == UNCHANGED buffer

\* The buffer is cleaned only when it holds the number of a sender
gsmBufferCleanup ==
  IF from THEN text' = <<>> /\ rest' = <<>> /\ from' = FALSE
          ELSE UNCHANGED buffer

Poll ==
  /\ at = "idle" /\ at' = "read"
  /\ gsmBufferCleanup
  /\ UNCHANGED <<sim, pos, next, conf, arrived, cuts, polled, ran, losses>>

\* The commands that are whole when the first byte of the text is overwritten
Behind == IF text = <<>> THEN rest ELSE Tail(text) \o rest

\* What the text t leaves of them behind its final zero: all that follows it
\* when the text began with t already, else what t is too short to reach
Ends(s) == {SubSeq(s, i, Len(s)) : i \in 1 .. Len(s) + 1}
LeftBy(t) ==
  IF Len(t) <= Len(text) /\ SubSeq(text, 1, Len(t)) = t
    THEN {SubSeq(text, Len(t) + 1, Len(text))}
    ELSE {e \in Ends(Behind) : Len(t) + Len(e) <= Capacity} \cup {<<>>}

\* gsmSMSByIndex returns 0: only the first byte of the text is zeroed, and
\* smsSplitAndParse stops at it
ReadEmpty ==
  /\ at = "read" /\ polled' = slots[1] /\ slots[1] = NoMessage
  /\ text' = <<>> /\ rest' = Behind /\ from' = FALSE
  /\ at' = "idle"
  /\ UNCHANGED <<sim, pos, next, conf, arrived, cuts, ran, losses>>

\* gsmSMSByIndex returns 1
ReadWhole ==
  /\ at = "read" /\ polled' = slots[1] /\ slots[1] # NoMessage
  /\ text' = Commands(slots[1]) /\ rest' \in LeftBy(text')
  /\ from' = slots[1].shown /\ seen' = seen \cup {1}
  /\ at' = "parse"
  /\ UNCHANGED <<slots, pos, next, conf, arrived, cuts, ran, losses>>

\* A text that is cut in or behind its command j
Cuts(s) == {SubSeq(s, 1, j) : j \in 1 .. Len(s)}
           \cup {Append(SubSeq(s, 1, j - 1), NoCommand) : j \in 1 .. Len(s)}

\* The answer stops before the text, or with its first byte written (the mark
\* of the end of file, or a dollar sign), or in the text
ReadInPart ==
  /\ slots[1] # NoMessage
  /\ from' = slots[1].shown /\ seen' = seen \cup {1}
  /\ \/ UNCHANGED <<text, rest>>
     \/ text' = <<NoCommand>> \o Behind /\ rest' = <<>>
     \/ text' \in Cuts(Commands(slots[1])) /\ rest' \in LeftBy(text')

\* The modem did not answer, though it may have marked the message
ReadNothing ==
  /\ UNCHANGED buffer
  /\ seen' \in {seen, seen \cup {i \in {1} : slots[i] # NoMessage}}

\* gsmSMSByIndex returns -1, and what is in the buffer is run all the same
ReadFails ==
  /\ at = "read" /\ polled' = slots[1]
  /\ ReadInPart \/ ReadNothing
  /\ at' = "split" /\ pos' = 1
  /\ UNCHANGED <<slots, next, conf, arrived, cuts, ran, losses>>

-----------------------------------------------------------------------------
(***************************************************************************)
(* sms_task: the commands.                                                 *)
(***************************************************************************)
\* Back from a command: to sms_task, or to the loop of smsSplitAndParse
Return == IF pos = 0 THEN at' = "delete" /\ pos' = 0
                     ELSE at' = "split" /\ pos' = pos + 1

Obey(c) ==
  /\ ran' = ran \cup ({c} \ {NoCommand})
  /\ \/ c.cmd = "ip"  /\ at' = "write" /\ pos' = pos
     \/ c.cmd = "rst" /\ at' = "reset" /\ pos' = pos
     \/ c.cmd \notin {"ip", "rst"} /\ Return

\* command_parse of the whole text: the first command may be taken, with the
\* semicolon behind its arguments, or refused, when its name is in capitals or
\* the semicolon follows the name; rst, without arguments, is taken only alone
Parse ==
  /\ at = "parse"
  /\ \/ (Len(text) = 1 \/ text[1].cmd # "rst") /\ Obey(text[1])
     \/ Return /\ UNCHANGED ran
  /\ UNCHANGED <<sim, buffer, next, conf, arrived, cuts, polled, losses>>

\* smsSplitAndParse: the next command
Split ==
  /\ at = "split" /\ pos \in 1 .. Len(text)
  /\ Obey(text[pos])
  /\ UNCHANGED <<sim, buffer, next, conf, arrived, cuts, polled, losses>>

\* ... whose end became a semicolon, the final zero as well: the loop goes on
\* with the bytes behind it, unless there are none
FinalZero ==
  /\ at = "split" /\ pos > Len(text)
  /\ IF text # <<>> /\ rest # <<>>
       THEN text' = text \o rest /\ rest' = <<>> /\ UNCHANGED <<at, pos>>
       ELSE at' = "idle" /\ pos' = 0 /\ UNCHANGED <<text, rest>>
  /\ UNCHANGED <<sim, from, next, conf, arrived, cuts, polled, ran, losses>>

Current == text[IF pos = 0 THEN 1 ELSE pos]

\* MUTANT: only the EEPROM is written
MutCopyKept == ram' = ram

UpdateCopy == ram' = [ram EXCEPT ![next] = Current]

AfterWrite == IF next = Params THEN 1 ELSE next + 1

\* The setters ip calls one after the other, each for the EEPROM and its copy
Write ==
  /\ at = "write"
  /\ eeprom' = [eeprom EXCEPT ![next] = Current] /\ UpdateCopy
  /\ next' = AfterWrite
  /\ IF next = Params THEN Return ELSE UNCHANGED <<at, pos>>
  /\ UNCHANGED <<sim, buffer, arrived, cuts, polled, ran, losses>>

\* The rst command waits for the watchdog
Reset == at = "reset" /\ Boots /\ UNCHANGED <<cuts, losses>>

DelDone  == at = "delete" /\ Delete({1})
DelFails == at = "delete" /\ UNCHANGED sim

\* gsmSMSDel(1), then smsSplitAndParse
gsmSMSDel ==
  /\ DelDone \/ DelFails
  /\ at' = "split" /\ pos' = 1
  /\ UNCHANGED <<buffer, next, conf, arrived, cuts, polled, ran, losses>>

-----------------------------------------------------------------------------
\* Before the first boot no message was read and the EEPROM is as programmed
Init ==
  /\ slots = [i \in 1 .. Slots |-> NoMessage] /\ seen = {}
  /\ text = <<>> /\ rest = <<>> /\ from = FALSE
  /\ at = "boot" /\ pos = 0 /\ next = 1
  /\ eeprom = [p \in Parameter |-> NoCommand] /\ ram = eeprom
  /\ arrived = 0 /\ cuts = 0 /\ polled = NoMessage /\ ran = {} /\ torn = FALSE
  /\ cutOff = {}

MainLoop ==
  \/ SetupEnds \/ Poll \/ ReadEmpty \/ ReadWhole \/ ReadFails
  \/ Parse \/ Split \/ FinalZero \/ Write \/ Reset \/ gsmSMSDel

Next == MainLoop \/ PowerFails \/ \E m \in Message : Arrives(m)

\* The loop polls for ever, and the modem does not fail for ever
Spec ==
  /\ Init /\ [][Next]_vars /\ WF_vars(MainLoop)
  /\ SF_vars(ReadWhole) /\ SF_vars(DelReadDone /\ SetupEnds)

-----------------------------------------------------------------------------
(***************************************************************************)
(* Properties.                                                             *)
(***************************************************************************)
\* A command that is run is one of the message this poll found in the first
\* slot, although the text is run after a reading that failed and after the
\* message was deleted.  What older polls left in the buffer may run again
\* behind it: only commands of hidden senders, that have run, and no rst.
OnlyThisPollsText ==
  [][Parse \/ Split =>
       \/ Current = NoCommand \/ Current \in Held(Commands(polled))
       \/ ~Current.shown /\ Current \in ran /\ Current.cmd # "rst"]_vars

\* The commands of a message that no rst stands before: what follows an rst is
\* lost in the reset, for the message is deleted by then
BeforeReset(m) ==
  {c \in Held(Commands(m)) :
     ~\E d \in Held(Commands(m)) : d.cmd = "rst" /\ d.place < c.place}

\* Each command of a message that is found in the first slot is run at some
\* poll, up to the first rst: readings and deletions that fail and resets do
\* not lose it, but a power failure may that comes after the message was marked
\* as read, for the boot deletes it.
EachCommandRuns ==
  \A m \in Message : slots[1] = m ~> BeforeReset(m) \subseteq ran \cup cutOff

\* The rst command may reset the board before its message is deleted, yet not
\* for ever: a boot deletes the message.
ResetsEnd == <>[](at # "reset")

\* Between two polls the copy in RAM is what the EEPROM holds, and both are
\* the parameters of one command that was run, or the programmed ones, unless
\* the power failed in the middle of an ip.
ConfOfOneCommand ==
  at = "idle" =>
    /\ ram = eeprom
    /\ torn \/ \E c \in ran \cup {NoCommand} : eeprom = [p \in Parameter |-> c]

\* What Mailbox says of the SIM, the buffer and the EEPROM: a command that is in
\* the buffer may be run, at this poll or, when its sender is hidden, at a later
\* one; ip is in force from its first write on
Running == at \in {"parse", "delete", "split", "write", "reset"}
Box == {c \in InBuffer : Running \/ ~c.shown}
       \cup (UNION {Held(Commands(slots[i])) : i \in 1 .. Slots})
InForce == IF at = "write" THEN [p \in Parameter |-> Current] ELSE eeprom

Mail == INSTANCE Mailbox
  WITH Messages <- {Held(Commands(m)) : m \in Message}, Parameters <- Parameter,
       Factory <- NoCommand, box <- Box, inForce <- InForce

\* The first slot, the buffer that is not always cleaned, the two runs of a text
\* around its deletion, the text that runs on into an older one and the deletion
\* at boot keep what Mailbox promises: a command leaves the SIM and the buffer
\* only when it was run, stands behind an rst that was, or was cut off by the
\* power, and is not run after that; an ip takes effect as a whole; and each
\* power failure cuts off one message at most.
ImplementsMailbox == Mail!MailboxSpec
=============================================================================
