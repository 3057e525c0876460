------------------------------ MODULE Mailbox -------------------------------
(***************************************************************************)
(* What the senders of commands by SMS may rely on: a command stays until  *)
(* it was run, unless an rst was run that its message has before it; it    *)
(* never runs once it is gone, from the SIM and from the buffer; ip takes  *)
(* effect at once and as a whole; a power failure costs at most what one   *)
(* message has that was not run yet.                                       *)
(***************************************************************************)
EXTENDS Naturals

CONSTANTS
  Messages,    \* sets of commands: message nr, place in it, cmd
  Parameters,  \* what ip sets
  Factory      \* what they are before

VARIABLES
  box,      \* the commands that are waiting, or that may run once more
  ran,      \* the commands that have run
  inForce,  \* the parameters: the ip each is from
  cutOff    \* the commands that a power failure may have cost

mailboxVars == <<box, ran, inForce, cutOff>>

Gone == box \ box'

Receive(S) ==
  /\ \A c \in S, d \in box \cup ran \cup cutOff : c.nr # d.nr
  /\ box' = box \cup S
  /\ UNCHANGED <<ran, inForce, cutOff>>

Execute(c) ==
  /\ c \in box /\ ran' = ran \cup {c}
  /\ inForce' = IF c.cmd = "ip" THEN [p \in Parameters |-> c] ELSE inForce
  /\ UNCHANGED <<box, cutOff>>

\* The reset loses what the message has behind its rst
Skipped == {c \in box : \E r \in ran : r.cmd = "rst" /\ r.nr = c.nr /\ r.place < c.place}

Forget ==
  /\ box' \subseteq box /\ Gone \subseteq ran \cup cutOff \cup Skipped
  /\ UNCHANGED <<ran, inForce, cutOff>>

\* In the middle of an ip the parameters may be left of several commands
Fail ==
  /\ \E lost \in SUBSET (box \ ran) :
       /\ \A c, d \in lost : c.nr = d.nr
       /\ cutOff' = cutOff \cup lost
  /\ box' \subseteq box /\ Gone \subseteq ran \cup cutOff' \cup Skipped
  /\ inForce' \in [Parameters -> {Factory} \cup {c \in ran : c.cmd = "ip"}]
  /\ UNCHANGED ran

MailboxInit ==
  /\ box = {} /\ ran = {} /\ cutOff = {}
  /\ inForce = [p \in Parameters |-> Factory]

MailboxNext == \/ \E S \in Messages : Receive(S)
               \/ \E c \in box : Execute(c)
               \/ Forget \/ Fail

MailboxSpec == MailboxInit /\ [][MailboxNext]_mailboxVars
=============================================================================
