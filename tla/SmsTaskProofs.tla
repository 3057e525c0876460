--------------------------- MODULE SmsTaskProofs ----------------------------
(***************************************************************************)
(* Theorems about SmsTask: its types, the parameters that ip leaves in the *)
(* EEPROM and in RAM, whose commands are run, and the mailbox that all     *)
(* this implements.                                                        *)
(***************************************************************************)
EXTENDS SmsTask, SequenceTheorems, TLAPS

-----------------------------------------------------------------------------
(***************************************************************************)
(* Texts and the buffer.                                                   *)
(***************************************************************************)
\* A piece of a command is none.
LEMMA PieceFacts ==
  ASSUME NEW c \in Piece
  PROVE  /\ c # NoCommand <=> c \in Command
         /\ c \in Command => /\ c.nr \in Nat /\ c.place \in Nat /\ c.place > 0
                             /\ c.cmd \in Kinds /\ c.shown \in BOOLEAN
BY SmsAssumption DEF Piece, Command, NoCommand, Kinds

\* What a sequence of pieces holds are commands.
LEMMA HeldFacts ==
  ASSUME NEW s \in Seq(Piece)
  PROVE  /\ Held(s) \subseteq Command
         /\ \A i \in 1 .. Len(s) : s[i] \in Piece /\ (s[i] = NoCommand \/ s[i] \in Held(s))
         /\ \A c \in Held(s) : \E i \in 1 .. Len(s) : c = s[i]
<1>1. \A i \in 1 .. Len(s) : s[i] \in Piece
  BY ElementOfSeq
<1> QED BY <1>1, PieceFacts DEF Held

\* What stands in one part of a text or in the other.
LEMMA HeldConcat ==
  ASSUME NEW s \in Seq(Piece), NEW t \in Seq(Piece)
  PROVE  /\ s \o t \in Seq(Piece) /\ Len(s \o t) = Len(s) + Len(t)
         /\ \A i \in 1 .. Len(s) : (s \o t)[i] = s[i]
         /\ \A i \in 1 .. Len(s \o t) : i > Len(s) => (s \o t)[i] = NoCommand \/ (s \o t)[i] \in Held(t)
         /\ Held(s \o t) = Held(s) \cup Held(t)
<1>1. /\ s \o t \in Seq(Piece) /\ Len(s \o t) = Len(s) + Len(t)
      /\ \A i \in 1 .. Len(s) + Len(t) :
           (s \o t)[i] = IF i <= Len(s) THEN s[i] ELSE t[i - Len(s)]
  BY ConcatProperties
<1>2. Len(s) \in Nat /\ Len(t) \in Nat
  BY LenProperties
<1>3. \A i \in 1 .. Len(s) : (s \o t)[i] = s[i]
  BY <1>1, <1>2
<1>4. \A j \in 1 .. Len(t) : (s \o t)[Len(s) + j] = t[j] /\ Len(s) + j \in 1 .. Len(s \o t)
  BY <1>1, <1>2
<1>5. \A i \in 1 .. Len(s \o t) : i > Len(s) => (s \o t)[i] = NoCommand \/ (s \o t)[i] \in Held(t)
  <2> SUFFICES ASSUME NEW i \in 1 .. Len(s \o t), i > Len(s)
               PROVE  (s \o t)[i] = NoCommand \/ (s \o t)[i] \in Held(t)
    OBVIOUS
  <2>1. i - Len(s) \in 1 .. Len(t) /\ (s \o t)[i] = t[i - Len(s)]
    BY <1>1, <1>2
  <2> QED BY <2>1 DEF Held
<1>6. Held(s \o t) \subseteq Held(s) \cup Held(t)
  <2> SUFFICES ASSUME NEW c \in Held(s \o t) PROVE c \in Held(s) \cup Held(t)
    OBVIOUS
  <2>1. PICK i \in 1 .. Len(s \o t) : c = (s \o t)[i] /\ c # NoCommand
    BY DEF Held
  <2>2. CASE i <= Len(s)
    BY <1>2, <1>3, <2>1, <2>2 DEF Held
  <2>3. CASE i > Len(s)
    BY <1>5, <2>1, <2>3
  <2> QED BY <1>1, <1>2, <2>1, <2>2, <2>3
<1>7. Held(s) \subseteq Held(s \o t) /\ Held(t) \subseteq Held(s \o t)
  <2>1. \A i \in 1 .. Len(s) : i \in 1 .. Len(s \o t)
    BY <1>1, <1>2
  <2> QED BY <1>3, <1>4, <2>1 DEF Held
<1> QED BY <1>1, <1>3, <1>5, <1>6, <1>7

\* A part of a text holds what the text holds.
LEMMA HeldSubSeq ==
  ASSUME NEW s \in Seq(Piece), NEW i \in 1 .. Len(s) + 1, NEW j \in 0 .. Len(s)
  PROVE  /\ SubSeq(s, i, j) \in Seq(Piece)
         /\ Held(SubSeq(s, i, j)) \subseteq Held(s)
<1>1. Len(s) \in Nat
  BY LenProperties
<1>2. /\ SubSeq(s, i, j) \in Seq(Piece)
      /\ Len(SubSeq(s, i, j)) = IF i <= j THEN j - i + 1 ELSE 0
      /\ \A k \in 1 .. j - i + 1 : SubSeq(s, i, j)[k] = s[i + k - 1]
  BY <1>1, SubSeqProperties
<1>3. ASSUME NEW k \in 1 .. Len(SubSeq(s, i, j))
      PROVE  \E l \in 1 .. Len(s) : SubSeq(s, i, j)[k] = s[l]
  <2>1. k \in 1 .. j - i + 1 /\ i + k - 1 \in 1 .. Len(s)
    BY <1>1, <1>2
  <2> QED BY <1>2, <2>1
<1> QED BY <1>2, <1>3 DEF Held

\* So does what follows its first command, and what is behind its final zero.
LEMMA BehindFacts ==
  ASSUME text \in Seq(Piece), rest \in Seq(Piece)
  PROVE  Behind \in Seq(Piece) /\ Held(Behind) \subseteq InBuffer
<1>1. CASE text = <<>>
  BY <1>1 DEF Behind, InBuffer
<1>2. CASE text # <<>>
  <2>1. Len(text) \in Nat /\ Len(text) # 0
    BY <1>2, LenProperties, EmptySeq
  <2>2. Tail(text) = SubSeq(text, 2, Len(text))
    BY <1>2, TailIsSubSeq
  <2>3. Tail(text) \in Seq(Piece) /\ Held(Tail(text)) \subseteq Held(text)
    <3>1. 2 \in 1 .. Len(text) + 1 /\ Len(text) \in 0 .. Len(text)
      BY <2>1
    <3> QED BY <2>2, <3>1, HeldSubSeq
  <2> QED BY <1>2, <2>3, HeldConcat DEF Behind, InBuffer
<1> QED BY <1>1, <1>2

\* What a text leaves of the older one.
LEMMA LeftByFacts ==
  ASSUME text \in Seq(Piece), rest \in Seq(Piece),
         NEW t \in Seq(Piece), NEW e \in LeftBy(t)
  PROVE  e \in Seq(Piece) /\ Held(e) \subseteq InBuffer
<1>1. CASE Len(t) <= Len(text) /\ e = SubSeq(text, Len(t) + 1, Len(text))
  <2>1. Len(t) + 1 \in 1 .. Len(text) + 1 /\ Len(text) \in 0 .. Len(text)
    BY <1>1, LenProperties
  <2> QED BY <1>1, <2>1, HeldSubSeq DEF InBuffer
<1>2. CASE e \in Ends(Behind)
  <2>1. PICK i \in 1 .. Len(Behind) + 1 : e = SubSeq(Behind, i, Len(Behind))
    BY <1>2 DEF Ends
  <2>2. Behind \in Seq(Piece) /\ Len(Behind) \in 0 .. Len(Behind)
    BY BehindFacts, LenProperties
  <2> QED BY <2>1, <2>2, BehindFacts, HeldSubSeq
<1>3. CASE e = <<>>
  BY <1>3, EmptySeq DEF Held
<1> QED BY <1>1, <1>2, <1>3 DEF LeftBy

\* A text that is cut begins like the whole.
LEMMA CutsFacts ==
  ASSUME NEW s \in Seq(Piece), NEW t \in Cuts(s)
  PROVE  /\ t \in Seq(Piece)
         /\ \A i \in 1 .. Len(t) :
              t[i] = NoCommand \/ (i <= Len(s) /\ \A j \in 1 .. i : t[j] = s[j])
<1>1. Len(s) \in Nat
  BY LenProperties
<1>2. ASSUME NEW n \in 0 .. Len(s)
      PROVE  /\ SubSeq(s, 1, n) \in Seq(Piece) /\ Len(SubSeq(s, 1, n)) = n
             /\ \A j \in 1 .. n : SubSeq(s, 1, n)[j] = s[j]
  BY <1>1, SubSeqProperties
<1>3. CASE \E n \in 1 .. Len(s) : t = SubSeq(s, 1, n)
  <2>1. PICK n \in 1 .. Len(s) : t = SubSeq(s, 1, n)
    BY <1>3
  <2>2. n \in 0 .. Len(s) /\ \A i \in 1 .. n : i <= Len(s) /\ \A j \in 1 .. i : j \in 1 .. n
    BY <1>1
  <2> QED BY <1>2, <2>1, <2>2
<1>4. CASE \E n \in 1 .. Len(s) : t = Append(SubSeq(s, 1, n - 1), NoCommand)
  <2>1. PICK n \in 1 .. Len(s) : t = Append(SubSeq(s, 1, n - 1), NoCommand)
    BY <1>4
  <2>2. n - 1 \in 0 .. Len(s)
    BY <1>1
  <2> DEFINE u == SubSeq(s, 1, n - 1)
  <2>3. u \in Seq(Piece) /\ Len(u) = n - 1 /\ \A j \in 1 .. n - 1 : u[j] = s[j]
    BY <1>2, <2>2
  <2> HIDE DEF u
  <2>4. NoCommand \in Piece /\ t = Append(u, NoCommand)
    BY <2>1 DEF Piece, u
  <2>5. t \in Seq(Piece) /\ Len(t) = Len(u) + 1 /\ t[Len(u) + 1] = NoCommand
        /\ \A j \in 1 .. Len(u) : t[j] = u[j]
    BY <2>3, <2>4, AppendProperties
  <2>6. Len(t) = n /\ t[n] = NoCommand /\ \A j \in 1 .. n - 1 : t[j] = s[j]
    BY <1>1, <2>3, <2>5
  <2>7. \A i \in 1 .. n : i = n \/ (i <= Len(s) /\ \A j \in 1 .. i : j \in 1 .. n - 1)
    BY <1>1
  <2> QED BY <2>5, <2>6, <2>7
<1> QED BY <1>3, <1>4 DEF Cuts

\* The commands of a message.
LEMMA CommandsFacts ==
  ASSUME NEW m \in Message \cup {NoMessage}
  PROVE  /\ Commands(m) \in Seq(Piece)
         /\ \A i \in 1 .. Len(Commands(m)) :
              /\ Commands(m)[i] \in Held(Commands(m))
              /\ Commands(m)[i].place = i
         /\ \A c \in Held(Commands(m)) :
              /\ c \in Command /\ c.nr = m.nr /\ (c.shown <=> m.shown)
              /\ c.place \in 1 .. Len(Commands(m)) /\ c = Commands(m)[c.place]
         /\ m = NoMessage => Held(Commands(m)) = {}
         /\ m # NoMessage => /\ m \in Message /\ m.nr \in Nat /\ m.shown \in BOOLEAN
                             /\ 1 <= Len(Commands(m))
<1>1. CASE m = NoMessage
  <2>1. Len(m.kinds) = 0
    BY <1>1 DEF NoMessage
  <2>2. Commands(m) = <<>>
    BY <2>1 DEF Commands
  <2> QED BY <1>1, <2>2 DEF Held
<1>2. CASE m # NoMessage
  <2>1. /\ m \in Message /\ m.nr \in 1 .. MaxMessages /\ m.kinds \in Texts
        /\ m.shown \in BOOLEAN
    BY <1>2 DEF Message
  <2>2. m.kinds \in Seq(Kinds) /\ m.kinds # <<>>
    BY <2>1, SmsAssumption
  <2>3. Len(m.kinds) \in Nat /\ Len(m.kinds) # 0
    BY <2>2, LenProperties, EmptySeq
  <2>4. \A i \in 1 .. Len(m.kinds) : m.kinds[i] \in Kinds
    BY <2>2, ElementOfSeq
  <2> DEFINE n == Len(m.kinds)
             C(i) == [nr |-> m.nr, place |-> i, cmd |-> m.kinds[i], shown |-> m.shown]
  <2>5. \A i \in 1 .. n : C(i) \in Command
    BY <2>1, <2>3, <2>4 DEF Command
  <2>6. \A i \in 1 .. n : C(i) \in Piece /\ C(i) # NoCommand
    BY <2>5, PieceFacts DEF Piece
  <2>7. Commands(m) = [i \in 1 .. n |-> C(i)]
    BY DEF Commands
  <2>8. Commands(m) \in Seq(Piece) /\ Len(Commands(m)) = n
    <3>1. Commands(m) \in [1 .. n -> Piece]
      BY <2>6, <2>7
    <3> QED BY <2>3, <3>1, SeqDef, LenProperties
  <2>9. \A i \in 1 .. n : Commands(m)[i] = C(i)
    BY <2>7
  <2>10. Held(Commands(m)) = {C(i) : i \in 1 .. n}
    BY <2>6, <2>8, <2>9 DEF Held
  <2>11. ASSUME NEW c \in Held(Commands(m))
         PROVE  /\ c \in Command /\ c.nr = m.nr /\ (c.shown <=> m.shown)
                /\ c.place \in 1 .. Len(Commands(m)) /\ c = Commands(m)[c.place]
    <3>1. PICK i \in 1 .. n : c = C(i)
      BY <2>10
    <3> QED BY <2>5, <2>8, <2>9, <3>1
  <2>12. \A i \in 1 .. Len(Commands(m)) : Commands(m)[i] \in Held(Commands(m)) /\ Commands(m)[i].place = i
    <3> SUFFICES ASSUME NEW i \in 1 .. n
                 PROVE  Commands(m)[i] \in Held(Commands(m)) /\ Commands(m)[i].place = i
      BY <2>8
    <3>1. Commands(m)[i] = C(i)
      BY <2>9
    <3> QED BY <2>10, <3>1
  <2>13. m.nr \in Nat /\ 1 <= Len(Commands(m))
    BY <2>1, <2>3, <2>8, SmsAssumption
  <2> QED BY <1>2, <2>1, <2>8, <2>11, <2>12, <2>13
<1> QED BY <1>1, <1>2

\* What a reading leaves in the buffer: behind the zero what was in it, before
\* it that as well, pieces, and the commands of the message from its first on.
LEMMA ReadLeaves ==
  ASSUME TypeOK, ReadEmpty \/ ReadWhole \/ ReadFails
  PROVE  /\ text' \in Seq(Piece) /\ rest' \in Seq(Piece)
         /\ Held(rest') \subseteq InBuffer
         /\ \A i \in 1 .. Len(text') :
              \/ text'[i] = NoCommand \/ text'[i] \in InBuffer
              \/ /\ from' <=> slots[1].shown
                 /\ i <= Len(Commands(slots[1]))
                 /\ \A j \in 1 .. i : text'[j] = Commands(slots[1])[j]
<1>1. slots[1] \in Message \cup {NoMessage} /\ text \in Seq(Piece) /\ rest \in Seq(Piece)
  BY SmsAssumption DEF TypeOK
<1>2. Commands(slots[1]) \in Seq(Piece)
  BY <1>1, CommandsFacts
<1>3. Behind \in Seq(Piece) /\ Held(Behind) \subseteq InBuffer
  BY <1>1, BehindFacts
<1>4. CASE ReadEmpty
  BY <1>3, <1>4, EmptySeq DEF ReadEmpty
<1>5. CASE ReadWhole
  <2>1. text' = Commands(slots[1]) /\ rest' \in LeftBy(text') /\ (from' <=> slots[1].shown)
    BY <1>5, Zenon DEF ReadWhole
  <2>2. text' \in Seq(Piece)
    BY <1>2, <2>1
  <2>3. rest' \in Seq(Piece) /\ Held(rest') \subseteq InBuffer
    BY <1>1, <2>1, <2>2, LeftByFacts
  <2>4. \A i \in 1 .. Len(text') : i <= Len(text')
    BY <2>2, LenProperties
  <2> QED BY <2>1, <2>2, <2>3, <2>4
<1>6. CASE UNCHANGED <<text, rest>>
  BY <1>1, <1>6, HeldFacts DEF InBuffer
<1>7. CASE text' = <<NoCommand>> \o Behind /\ rest' = <<>>
  <2> DEFINE u == <<NoCommand>>
  <2>1. u \in Seq(Piece) /\ Len(u) = 1 /\ u[1] = NoCommand
    BY DEF Piece
  <2>5. text' = u \o Behind
    BY <1>7
  <2> HIDE DEF u
  <2>2. /\ text' \in Seq(Piece) /\ text'[1] = NoCommand
        /\ \A i \in 1 .. Len(text') : i > 1 => text'[i] = NoCommand \/ text'[i] \in Held(Behind)
    <3>1. 1 \in 1 .. Len(u)
      BY <2>1
    <3> QED BY <1>3, <2>1, <2>5, <3>1, HeldConcat
  <2>3. \A i \in 1 .. Len(text') : i > 1 \/ i = 1
    BY <2>2, LenProperties
  <2>4. rest' \in Seq(Piece) /\ Held(rest') = {}
    BY <1>7, EmptySeq DEF Held
  <2> QED BY <1>3, <2>2, <2>3, <2>4
<1>8. CASE /\ text' \in Cuts(Commands(slots[1])) /\ rest' \in LeftBy(text')
           /\ from' <=> slots[1].shown
  <2>1. text' \in Seq(Piece)
    BY <1>2, <1>8, CutsFacts
  <2> QED BY <1>1, <1>2, <1>8, <2>1, CutsFacts, LeftByFacts
<1>9. CASE ReadFails
  <2>1. \/ UNCHANGED <<text, rest>>
        \/ text' = <<NoCommand>> \o Behind /\ rest' = <<>>
        \/ /\ text' \in Cuts(Commands(slots[1])) /\ rest' \in LeftBy(text')
           /\ from' <=> slots[1].shown
    BY <1>9, Zenon DEF ReadFails, ReadInPart, ReadNothing, buffer
  <2> QED BY <1>6, <1>7, <1>8, <2>1
<1> QED BY <1>4, <1>5, <1>9

-----------------------------------------------------------------------------
(***************************************************************************)
(* The invariant of the task.                                              *)
(***************************************************************************)
\* What an older poll may leave to be run again: it was run, it is no rst, and
\* its sender is hidden.
Old(c) == ~c.shown /\ c \in ran /\ c.cmd # "rst"

\* Up to its command i the text is that of this poll's message.
InPlace(i) ==
  i <= Len(Commands(polled)) /\ \A j \in 1 .. i : text[j] = Commands(polled)[j]

\* ... a command that may be run at this poll, and one that was
Due(i) == text[i] = NoCommand \/ Old(text[i]) \/ InPlace(i)
Done(i) == text[i] = NoCommand \/ (text[i] \in ran /\ text[i].cmd # "rst")

\* The number of a sender stays with its text, so that once the buffer has been
\* cleaned only hidden senders' commands are left, which were run.  While the
\* text is run each command is an old one or in its place of this poll's
\* message, and those before pos were run, with no rst among them.
BufferSound ==
  /\ \A c \in Held(rest) : Old(c)
  /\ \A c \in Held(text) : c.shown => from
  /\ ~Running => \A c \in Held(text) : c \in ran /\ c.cmd # "rst"
  /\ at = "read" => \A c \in Held(text) : ~c.shown
  /\ at = "boot" => text = <<>> /\ rest = <<>>
  /\ Running => \A i \in 1 .. Len(text) : Due(i) /\ (i < pos => Done(i))

\* The command that is run
At == IF pos = 0 THEN 1 ELSE pos

\* An rst was run that stands before c in its message
AfterReset(c) == \E r \in ran : r.cmd = "rst" /\ r.nr = c.nr /\ r.place < c.place

\* Before the loop of smsSplitAndParse the text is the message of the first
\* slot.  Only that slot is ever marked, and while a text is run the message
\* that is marked is this poll's.  So when the board boots and deletes it, its
\* commands were run, stand behind an rst that was, or were cut off.
StepSound ==
  /\ ~Running \/ at \in {"parse", "delete"} => pos = 0
  /\ at = "split" => pos # 0
  /\ at \in {"write", "reset"} => At \in 1 .. Len(text) /\ Current \in ran
  /\ at = "write" => Current.cmd = "ip"
  /\ at = "reset" => Current.cmd = "rst"
  /\ Running /\ pos = 0 =>
       slots[1] = polled /\ polled # NoMessage /\ text = Commands(polled)
  /\ seen \subseteq {1}
  /\ Running /\ 1 \in seen => slots[1] = polled
  /\ at = "boot" /\ 1 \in seen =>
       \A c \in Held(Commands(slots[1])) : c \in ran \cup cutOff \/ AfterReset(c)

TaskInv == TypeOK /\ BufferSound /\ StepSound

\* The first slot and the commands of this poll's message
LEMMA SlotFacts ==
  ASSUME TypeOK
  PROVE  /\ 1 \in 1 .. Slots /\ 1 \in 1 .. Params
         /\ slots[1] \in Message \cup {NoMessage} /\ polled \in Message \cup {NoMessage}
         /\ Commands(slots[1]) \in Seq(Piece) /\ Commands(polled) \in Seq(Piece)
<1>1. 1 \in 1 .. Slots /\ 1 \in 1 .. Params
  BY SmsAssumption
<1>2. slots[1] \in Message \cup {NoMessage} /\ polled \in Message \cup {NoMessage}
  BY <1>1 DEF TypeOK
<1> QED BY <1>1, <1>2, CommandsFacts

\* The command that is to be run is in the text.
LEMMA AtFacts ==
  ASSUME TaskInv, at = "parse" \/ Split \/ at \in {"write", "reset"}
  PROVE  /\ At \in 1 .. Len(text) /\ Current = text[At] /\ Current \in Piece
         /\ Current = NoCommand \/ Current \in Held(text)
         /\ Running /\ At \in Nat /\ At # 0 /\ At >= pos
<1>1. text \in Seq(Piece) /\ Len(text) \in Nat /\ pos \in Nat
  BY LenProperties DEF TaskInv, TypeOK
<1>2. At \in 1 .. Len(text)
  <2>1. CASE at = "parse"
    <3>1. pos = 0 /\ polled # NoMessage /\ text = Commands(polled)
      BY <2>1 DEF TaskInv, StepSound, Running
    <3>2. 1 <= Len(text)
      BY <3>1, SlotFacts, CommandsFacts DEF TaskInv
    <3> QED BY <1>1, <3>1, <3>2 DEF At
  <2>2. CASE Split
    BY <2>2 DEF Split, At, TaskInv, StepSound
  <2>3. CASE at \in {"write", "reset"}
    BY <2>3 DEF TaskInv, StepSound
  <2> QED BY <2>1, <2>2, <2>3
<1>3. Current = text[At]
  BY DEF Current, At
<1>4. Running
  BY DEF Running, Split
<1> QED BY <1>1, <1>2, <1>3, <1>4, HeldFacts DEF At

\* What a command does that is run, or refused by command_parse.
LEMMA RunFacts ==
  ASSUME TaskInv, Parse \/ Split
  PROVE  /\ UNCHANGED <<slots, seen, text, rest, next, eeprom, ram, arrived, cuts,
                        polled, cutOff>>
         /\ (from' <=> from) /\ (torn' <=> torn)
         /\ ran' \subseteq Command /\ ran \subseteq ran'
         /\ \/ /\ ran' = ran \cup ({Current} \ {NoCommand})
               /\ \/ /\ Current.cmd = "ip" /\ at' = "write" /\ pos' = pos
                     /\ Current \in ran'
                  \/ /\ Current.cmd = "rst" /\ at' = "reset" /\ pos' = pos
                     /\ Current \in ran'
                  \/ Current.cmd \notin {"ip", "rst"} /\ Return
            \/ at = "parse" /\ Return /\ ran' = ran
<1>1. At \in 1 .. Len(text) /\ Current = text[At] /\ Current \in Piece
  BY AtFacts DEF Parse
<1>2. UNCHANGED <<slots, seen, text, rest, next, eeprom, ram, arrived, cuts, polled, cutOff>>
  BY DEF Parse, Split, sim, buffer, conf, losses
<1>3. (from' <=> from) /\ (torn' <=> torn)
  <2>1. UNCHANGED <<from, torn>>
    BY DEF Parse, Split, buffer, losses
  <2> QED BY <2>1
<1>4. Obey(Current) \/ (at = "parse" /\ Return /\ ran' = ran)
  <2>1. CASE Parse
    <3>1. pos = 0
      BY <2>1 DEF Parse, TaskInv, StepSound
    <3> QED BY <2>1, <3>1 DEF Parse, Current
  <2>2. CASE Split
    <3>1. pos # 0
      BY <2>2 DEF Split, TaskInv, StepSound
    <3> QED BY <2>2, <3>1 DEF Split, Current
  <2> QED BY <2>1, <2>2
<1>5. Current.cmd \in {"ip", "rst"} => Current # NoCommand
  BY DEF NoCommand
<1>6. Current # NoCommand => Current \in Command
  BY <1>1, PieceFacts
<1> QED BY <1>2, <1>3, <1>4, <1>5, <1>6 DEF Obey, TaskInv, TypeOK

\* Where the program goes on after a command
LEMMA ReturnFacts ==
  ASSUME TypeOK, Return
  PROVE  \/ pos = 0 /\ at' = "delete" /\ pos' = 0
         \/ pos # 0 /\ at' = "split" /\ pos' = pos + 1 /\ pos' \in Nat /\ pos' # 0
BY DEF TypeOK, Return

-----------------------------------------------------------------------------
(***************************************************************************)
(* Types.                                                                  *)
(***************************************************************************)
\* A slot that is emptied is no longer one that was read.
LEMMA DeleteType ==
  ASSUME TypeOK, NEW S, Delete(S)
  PROVE  /\ slots' \in [1 .. Slots -> Message \cup {NoMessage}]
         /\ seen' \subseteq 1 .. Slots
         /\ \A i \in seen' : slots'[i] # NoMessage
BY DEF TypeOK, Delete

\* A boot, after rst or when the power comes back, keeps the types.
LEMMA BootsType ==
  ASSUME TypeOK, Boots, torn' \in BOOLEAN, cutOff' \subseteq Command,
         cuts' \in 0 .. MaxCuts
  PROVE  TypeOK'
<1>1. 1 \in 1 .. Params /\ <<>> \in Seq(Piece)
  BY SmsAssumption, EmptySeq
<1> QED BY <1>1 DEF TypeOK, Boots, sim

\* Each step keeps the types.
LEMMA TypeStep == TaskInv /\ [Next]_vars => TypeOK'
<1> SUFFICES ASSUME TaskInv, TypeOK, [Next]_vars PROVE TypeOK'
  BY DEF TaskInv
<1>ok. /\ 1 \in 1 .. Slots /\ 1 \in 1 .. Params
       /\ slots[1] \in Message \cup {NoMessage}
       /\ text \in Seq(Piece) /\ rest \in Seq(Piece) /\ <<>> \in Seq(Piece)
  BY SlotFacts, EmptySeq DEF TypeOK
<1>1. CASE SetupEnds
  <2>1. /\ slots' \in [1 .. Slots -> Message \cup {NoMessage}] /\ seen' \subseteq 1 .. Slots
        /\ \A i \in seen' : slots'[i] # NoMessage
    BY <1>1, DeleteType DEF SetupEnds, DelReadDone, DelReadFails, sim, TypeOK
  <2> QED BY <1>1, <2>1 DEF SetupEnds, buffer, conf, losses, TypeOK
<1>2. CASE Poll
  BY <1>ok, <1>2 DEF Poll, gsmBufferCleanup, buffer, sim, conf, losses, TypeOK
<1>3. CASE ReadEmpty \/ ReadWhole \/ ReadFails
  <2>1. text' \in Seq(Piece) /\ rest' \in Seq(Piece)
    BY <1>3, ReadLeaves
  <2>2. from' \in BOOLEAN
    <3>1. slots[1] # NoMessage => slots[1].shown \in BOOLEAN
      BY <1>ok, CommandsFacts
    <3> QED BY <1>3, <3>1 DEF ReadEmpty, ReadWhole, ReadFails, ReadInPart, ReadNothing, buffer, TypeOK
  <2>3. seen' \subseteq 1 .. Slots /\ \A i \in seen' : slots[i] # NoMessage
    BY <1>ok, <1>3
    DEF ReadEmpty, ReadWhole, ReadFails, ReadInPart, ReadNothing, sim, TypeOK
  <2>4. /\ at' \in {"idle", "parse", "split"} /\ pos' \in Nat
        /\ polled' = slots[1]
        /\ UNCHANGED <<slots, next, conf, arrived, cuts, ran, losses>>
    BY <1>3 DEF ReadEmpty, ReadWhole, ReadFails, sim, TypeOK
  <2> QED BY <1>ok, <2>1, <2>2, <2>3, <2>4 DEF conf, losses, TypeOK
<1>4. CASE Parse \/ Split
  <2>1. /\ UNCHANGED <<slots, seen, text, rest, next, eeprom, ram, arrived, cuts,
                       polled, cutOff>>
        /\ ran' \subseteq Command
        /\ at' \in {"write", "reset", "delete", "split"} /\ pos' \in Nat
    BY <1>4, RunFacts, ReturnFacts DEF TypeOK
  <2>2. from' \in BOOLEAN /\ torn' \in BOOLEAN
    BY <1>4 DEF Parse, Split, buffer, losses, TypeOK
  <2> QED BY <2>1, <2>2 DEF TypeOK
<1>5. CASE FinalZero
  <2>1. text' \in Seq(Piece) /\ rest' \in Seq(Piece)
    BY <1>ok, <1>5, HeldConcat DEF FinalZero
  <2> QED BY <1>5, <2>1 DEF FinalZero, sim, conf, losses, TypeOK
<1>6. CASE Write
  <2>1. Current \in Piece
    BY <1>6, AtFacts DEF Write
  <2>2. eeprom' \in Confs /\ ram' \in Confs
    BY <1>6, <2>1 DEF Write, UpdateCopy, Confs, Parameter, TypeOK
  <2>3. next' \in 1 .. Params
    BY <1>6, <1>ok, SmsAssumption DEF Write, AfterWrite, TypeOK
  <2>4. at' \in {"write", "delete", "split"} /\ pos' \in Nat
    BY <1>6, ReturnFacts DEF Write, TypeOK
  <2> QED BY <1>6, <2>2, <2>3, <2>4 DEF Write, sim, buffer, losses, TypeOK
<1>7. CASE Reset
  BY <1>7, BootsType DEF Reset, losses, TypeOK
<1>8. CASE gsmSMSDel
  <2>1. /\ slots' \in [1 .. Slots -> Message \cup {NoMessage}] /\ seen' \subseteq 1 .. Slots
        /\ \A i \in seen' : slots'[i] # NoMessage
    BY <1>8, DeleteType DEF gsmSMSDel, DelDone, DelFails, sim, TypeOK
  <2> QED BY <1>8, <2>1 DEF gsmSMSDel, buffer, conf, losses, TypeOK
<1>9. CASE PowerFails
  <2>1. torn' \in BOOLEAN /\ cuts' \in 0 .. MaxCuts
    BY <1>9, SmsAssumption DEF PowerFails, TypeOK
  <2>2. Read \cup InBuffer \subseteq Command
    <3>1. \A i \in seen : Held(Commands(slots[i])) \subseteq Command
      BY CommandsFacts DEF TypeOK
    <3> QED BY <1>ok, <3>1, HeldFacts DEF Read, InBuffer
  <2>3. cutOff' \subseteq Command
    BY <1>9, <2>2 DEF PowerFails, TypeOK
  <2> QED BY <1>9, <2>1, <2>3, BootsType DEF PowerFails
<1>10. ASSUME NEW m \in Message, Arrives(m) PROVE TypeOK'
  <2>1. arrived' \in 0 .. MaxMessages
    BY <1>10, SmsAssumption DEF Arrives, Message, TypeOK
  <2>2. m # NoMessage
    BY SmsAssumption DEF Message, NoMessage
  <2>3. slots' \in [1 .. Slots -> Message \cup {NoMessage}] /\ \A i \in seen : slots'[i] # NoMessage
    BY <1>10, <2>2 DEF Arrives, TypeOK
  <2> QED BY <1>10, <2>1, <2>3 DEF Arrives, buffer, conf, losses, TypeOK
<1>11. CASE UNCHANGED vars
  BY <1>11 DEF vars, sim, buffer, conf, losses, TypeOK
<1> QED BY <1>1, <1>2, <1>3, <1>4, <1>5, <1>6, <1>7, <1>8, <1>9, <1>10, <1>11
        DEF Next, MainLoop

-----------------------------------------------------------------------------
(***************************************************************************)
(* The buffer.                                                             *)
(***************************************************************************)
\* A step that leaves the buffer alone keeps it sound, when the commands it
\* passes were run.
LEMMA BufferKept ==
  ASSUME BufferSound, UNCHANGED <<text, rest, polled>>, from' <=> from,
         ran \subseteq ran', Running' => Running, Running => Running',
         at' = "read" => at = "read", at' = "boot" => at = "boot",
         \A i \in 1 .. Len(text) : i < pos' => i < pos \/ Done(i)'
  PROVE  BufferSound'
<1>1. \A c : Old(c) => c \in ran' /\ ~c.shown /\ c.cmd # "rst"
  BY DEF Old
<1>2. ASSUME NEW i \in 1 .. Len(text), Running
      PROVE  Due(i)' /\ (i < pos' => Done(i)')
  <2>1. Due(i) /\ (i < pos => Done(i))
    BY <1>2 DEF BufferSound
  <2>2. Due(i)'
    BY <2>1 DEF Due, Old, InPlace, Commands
  <2>3. Done(i) => Done(i)'
    BY DEF Done
  <2> QED BY <2>1, <2>2, <2>3
<1>3. Held(text') = Held(text) /\ Held(rest') = Held(rest)
  OBVIOUS
<1> QED BY <1>1, <1>2, <1>3 DEF BufferSound, Old

\* A boot and a cleanup leave nothing in it.
LEMMA BufferEmpty ==
  ASSUME text' = <<>>, rest' = <<>>
  PROVE  BufferSound'
<1>1. Held(text') = {} /\ Held(rest') = {} /\ Len(text') = 0
  BY DEF Held
<1> QED BY <1>1 DEF BufferSound

\* A reading brings this poll's message before what was in it.
LEMMA BufferRead ==
  ASSUME TaskInv, ReadEmpty \/ ReadWhole \/ ReadFails
  PROVE  BufferSound'
<1>1. /\ at = "read" /\ ~Running /\ at' \in {"idle", "parse", "split"}
      /\ polled' = slots[1] /\ ran' = ran
      /\ at' = "parse" => pos' = 0
      /\ at' = "split" => pos' = 1
      /\ at' = "idle" => text' = <<>>
  BY DEF ReadEmpty, ReadWhole, ReadFails, Running, TaskInv, StepSound
<1>2. /\ slots[1] \in Message \cup {NoMessage} /\ text \in Seq(Piece)
      /\ rest \in Seq(Piece)
  BY SlotFacts DEF TaskInv, TypeOK
<1>3. InBuffer \subseteq Command /\ \A c \in InBuffer : Old(c)
  BY <1>1, <1>2, HeldFacts DEF InBuffer, TaskInv, BufferSound, Old
<1>4. \A c \in Held(rest') : Old(c)
  BY <1>3, ReadLeaves DEF TaskInv
<1>5. Len(text') \in Nat
  BY ReadLeaves, LenProperties DEF TaskInv
<1>6. ASSUME NEW i \in 1 .. Len(text')
      PROVE  Due(i)' /\ (text'[i] # NoCommand => Old(text'[i]) \/ (text'[i].shown => from'))
  <2>1. CASE text'[i] = NoCommand \/ text'[i] \in InBuffer
    BY <1>1, <1>3, <2>1 DEF Due, Old
  <2>2. CASE /\ from' <=> slots[1].shown
             /\ i <= Len(Commands(slots[1]))
             /\ \A j \in 1 .. i : text'[j] = Commands(slots[1])[j]
    <3>1. InPlace(i)'
      BY <1>1, <2>2 DEF InPlace, Commands
    <3>2. i \in 1 .. Len(Commands(slots[1])) /\ text'[i] = Commands(slots[1])[i]
      BY <1>5, <2>2
    <3>3. text'[i].shown <=> slots[1].shown
      BY <1>2, <3>2, CommandsFacts
    <3> QED BY <2>2, <3>1, <3>3 DEF Due
  <2> QED BY <2>1, <2>2, ReadLeaves DEF TaskInv
<1>7. \A c \in Held(text') : Old(c) \/ (c.shown => from')
  BY <1>6 DEF Held
<1>8. at' = "idle" => Held(text') = {}
  BY <1>1 DEF Held
<1>9. \A i \in 1 .. Len(text') : i < pos' => ~Running'
  BY <1>1, <1>5 DEF Running
<1>10. Running' <=> at' # "idle"
  BY <1>1 DEF Running
<1> QED BY <1>1, <1>4, <1>6, <1>7, <1>8, <1>9, <1>10 DEF BufferSound, Old

\* The final zero ends the run, or becomes a semicolon before old commands.
LEMMA BufferJoin ==
  ASSUME TaskInv, FinalZero
  PROVE  BufferSound'
<1>1. /\ at = "split" /\ Running /\ pos > Len(text) /\ ran' = ran /\ polled' = polled
      /\ pos \in Nat
      /\ text \in Seq(Piece) /\ rest \in Seq(Piece) /\ Len(text) \in Nat
  BY LenProperties DEF FinalZero, Running, TaskInv, TypeOK
<1>2. from' <=> from
  <2>1. from' = from
    BY DEF FinalZero
  <2> QED BY <2>1
<1>4. /\ \A c \in Held(rest) : Old(c)
      /\ \A c \in Held(text) : c.shown => from
      /\ \A i \in 1 .. Len(text) : Due(i) /\ Done(i)
  BY <1>1 DEF TaskInv, BufferSound
<1>5. CASE text # <<>> /\ rest # <<>>
  <2>1. text' = text \o rest /\ rest' = <<>> /\ at' = at /\ pos' = pos
    BY <1>5 DEF FinalZero
  <2>2. /\ Len(text') = Len(text) + Len(rest) /\ Len(rest) \in Nat
        /\ \A i \in 1 .. Len(text) : text'[i] = text[i]
        /\ \A i \in 1 .. Len(text') : i > Len(text) => text'[i] = NoCommand \/ text'[i] \in Held(rest)
        /\ Held(text') = Held(text) \cup Held(rest)
    BY <1>1, <2>1, HeldConcat, LenProperties
  <2>3. ASSUME NEW i \in 1 .. Len(text')
        PROVE  Due(i)' /\ Done(i)'
    <3>1. CASE i > Len(text)
      <4>1. text'[i] = NoCommand \/ Old(text'[i])
        BY <1>4, <2>2, <3>1
      <4> QED BY <1>1, <4>1 DEF Old, Due, Done
    <3>2. CASE i \in 1 .. Len(text)
      <4>1. text'[i] = text[i] /\ \A j \in 1 .. i : text'[j] = text[j]
        BY <1>1, <2>2, <3>2
      <4>2. InPlace(i) => InPlace(i)'
        BY <1>1, <4>1 DEF InPlace, Commands
      <4>3. Due(i) /\ Done(i)
        BY <1>4, <3>2
      <4> QED BY <1>1, <4>1, <4>2, <4>3 DEF Due, Done, Old
    <3> QED BY <1>1, <2>2, <3>1, <3>2
  <2>4. Held(rest') = {}
    BY <2>1 DEF Held
  <2>5. \A c \in Held(text') : c.shown => from'
    BY <1>2, <1>4, <2>2 DEF Old
  <2>6. Running' /\ at' # "read" /\ at' # "boot"
    BY <1>1, <2>1 DEF Running
  <2> QED BY <2>3, <2>4, <2>5, <2>6 DEF BufferSound
<1>6. CASE ~(text # <<>> /\ rest # <<>>)
  <2>1. at' = "idle" /\ text' = text /\ rest' = rest
    BY <1>6 DEF FinalZero
  <2>2. Held(text') = Held(text) /\ Held(rest') = Held(rest)
    BY <2>1
  <2>3. \A c \in Held(text) : c \in ran /\ c.cmd # "rst"
    BY <1>4 DEF Held, Done
  <2> QED BY <1>1, <1>2, <1>4, <2>1, <2>2, <2>3 DEF BufferSound, Running, Old
<1> QED BY <1>5, <1>6

\* Every step keeps it.
LEMMA BufferStep == TaskInv /\ [Next]_vars => BufferSound'
<1> SUFFICES ASSUME TaskInv, BufferSound, [Next]_vars PROVE BufferSound'
  BY DEF TaskInv
<1>0. pos \in Nat /\ text \in Seq(Piece) /\ Len(text) \in Nat
  BY LenProperties DEF TaskInv, TypeOK
<1>1. CASE SetupEnds \/ gsmSMSDel
  <2>1. UNCHANGED <<text, rest, polled, ran, from>>
    BY <1>1 DEF SetupEnds, gsmSMSDel, buffer
  <2>2. \/ at = "boot" /\ at' = "idle" /\ pos' = pos
        \/ at = "delete" /\ at' = "split" /\ pos' = 1
    BY <1>1 DEF SetupEnds, gsmSMSDel, DelReadDone, DelReadFails, DelDone, DelFails
  <2>3. \A i \in 1 .. Len(text) : i < pos' => i < pos
    BY <1>0, <2>2
  <2> QED BY <2>1, <2>2, <2>3, BufferKept DEF Running
<1>2. CASE Poll
  <2>1. at = "idle" /\ at' = "read" /\ UNCHANGED <<pos, polled, ran>>
    BY <1>2 DEF Poll
  <2>2. \/ text' = <<>> /\ rest' = <<>>
        \/ UNCHANGED <<text, rest>> /\ ~from /\ (from' <=> from)
    BY <1>2, Zenon DEF Poll, gsmBufferCleanup, buffer
  <2>3. CASE UNCHANGED <<text, rest>> /\ ~from /\ (from' <=> from)
    <3>1. Held(text') = Held(text) /\ Held(rest') = Held(rest)
      BY <2>3
    <3>2. \A c : Old(c)' <=> Old(c)
      BY <2>1 DEF Old
    <3> QED BY <2>1, <2>3, <3>1, <3>2 DEF BufferSound, Running
  <2> QED BY <2>2, <2>3, BufferEmpty
<1>3. CASE ReadEmpty \/ ReadWhole \/ ReadFails
  BY <1>3, BufferRead
<1>4. CASE Parse \/ Split
  <2>1. /\ UNCHANGED <<text, rest, polled>> /\ (from' <=> from) /\ ran \subseteq ran'
        /\ Running /\ Running' /\ at' # "read" /\ at' # "boot"
    BY <1>4, RunFacts, ReturnFacts DEF Running, Parse, Split, TaskInv
  <2>2. /\ at = "parse" => pos = 0
        /\ at = "split" => pos # 0 /\ Current = text[pos]
    BY DEF TaskInv, StepSound, Current
  <2>3. ASSUME NEW i \in 1 .. Len(text), i < pos', ~(i < pos)
        PROVE  Done(i)'
    <3>1. pos # 0 /\ pos' = pos + 1 /\ Return
      BY <1>0, <1>4, <2>3, RunFacts, ReturnFacts DEF TaskInv
    <3>2. at = "split" /\ i = pos
      BY <1>0, <1>4, <2>2, <2>3, <3>1 DEF Parse, Split
    <3>3. ran' = ran \cup ({Current} \ {NoCommand}) /\ Current.cmd # "rst"
      BY <1>0, <1>4, <3>1, <3>2, RunFacts
    <3> QED BY <2>1, <2>2, <3>2, <3>3 DEF Done
  <2> QED BY <2>1, <2>3, BufferKept
<1>5. CASE FinalZero
  BY <1>5, BufferJoin
<1>6. CASE Write
  <2>1. UNCHANGED <<text, rest, polled, ran>> /\ at = "write"
    BY <1>6 DEF Write, buffer
  <2>2. from' <=> from
    BY <1>6, Zenon DEF Write, buffer
  <2>3. /\ at' \in {"write", "delete", "split"}
        /\ pos' = pos \/ pos' = 0 \/ (pos # 0 /\ pos' = pos + 1)
    BY <1>6, ReturnFacts DEF Write, TaskInv
  <2>4. Current \in ran /\ Current.cmd = "ip" /\ (pos # 0 => Current = text[pos])
    BY <2>1 DEF TaskInv, StepSound, Current
  <2>5. ASSUME NEW i \in 1 .. Len(text), i < pos', ~(i < pos)
        PROVE  Done(i)'
    <3>1. pos # 0 /\ i = pos
      BY <1>0, <2>3, <2>5
    <3> QED BY <2>1, <2>4, <3>1 DEF Done
  <2> QED BY <2>1, <2>2, <2>3, <2>5, BufferKept DEF Running
<1>7. CASE Reset \/ PowerFails
  BY <1>7, BufferEmpty DEF Reset, PowerFails, Boots
<1>8. ASSUME NEW m \in Message, Arrives(m) PROVE BufferSound'
  <2>1. UNCHANGED <<text, rest, polled, ran, at, pos>> /\ (from' <=> from)
    BY <1>8, Zenon DEF Arrives, buffer
  <2> QED BY <2>1, BufferKept DEF Running
<1>9. CASE UNCHANGED vars
  <2>1. UNCHANGED <<text, rest, polled, ran, at, pos>> /\ (from' <=> from)
    BY <1>9, Zenon DEF vars, buffer
  <2> QED BY <2>1, BufferKept DEF Running
<1> QED BY <1>1, <1>2, <1>3, <1>4, <1>5, <1>6, <1>7, <1>8, <1>9 DEF Next, MainLoop

-----------------------------------------------------------------------------
(***************************************************************************)
(* The steps of the task.                                                  *)
(***************************************************************************)
\* A reset finds the commands of the marked message run up to its rst.
LEMMA ResetDeletes ==
  ASSUME TaskInv, at = "reset", 1 \in seen, NEW c \in Held(Commands(slots[1]))
  PROVE  c \in ran \/ AfterReset(c)
<1>1. Running /\ slots[1] = polled /\ Current \in ran /\ Current.cmd = "rst"
  BY DEF Running, TaskInv, StepSound
<1>2. /\ At \in 1 .. Len(text) /\ Current = text[At] /\ At \in Nat /\ pos \in Nat
      /\ Len(text) \in Nat /\ Current # NoCommand
  <2>1. text \in Seq(Piece) /\ pos \in Nat
    BY DEF TaskInv, TypeOK
  <2> QED BY <1>1, <2>1, AtFacts, LenProperties DEF NoCommand
<1>3. Due(At) /\ \A i \in 1 .. Len(text) : i < pos => Done(i)
  BY <1>1, <1>2 DEF TaskInv, BufferSound
<1>4. InPlace(At)
  BY <1>1, <1>2, <1>3 DEF Due, Old
<1>5. /\ c \in Command /\ c.place \in Nat /\ c.place \in 1 .. Len(Commands(polled))
      /\ c = Commands(polled)[c.place] /\ c.nr = polled.nr
  BY <1>1, SlotFacts, CommandsFacts, PieceFacts DEF TaskInv, Piece
<1>6. Current = Commands(polled)[At] /\ At \in 1 .. Len(Commands(polled))
  BY <1>2, <1>4 DEF InPlace
<1>7. Current.place = At /\ Current.nr = polled.nr
  BY <1>6, SlotFacts, CommandsFacts DEF TaskInv
<1>8. CASE c.place < At
  <2>1. c.place \in 1 .. Len(text) /\ c.place < pos /\ c.place \in 1 .. At
    BY <1>2, <1>5, <1>8 DEF At
  <2>2. text[c.place] = c
    BY <1>4, <1>5, <2>1 DEF InPlace
  <2>3. c # NoCommand
    BY <1>5, PieceFacts DEF Piece
  <2> QED BY <1>3, <2>1, <2>2, <2>3 DEF Done
<1>9. CASE c.place = At
  BY <1>1, <1>5, <1>6, <1>9
<1>10. CASE c.place > At
  BY <1>1, <1>5, <1>7, <1>10 DEF AfterReset
<1> QED BY <1>2, <1>5, <1>8, <1>9, <1>10

\* Every step keeps the steps sound.
LEMMA StepStep == TaskInv /\ [Next]_vars => StepSound'
<1> SUFFICES ASSUME TaskInv, StepSound, [Next]_vars PROVE StepSound'
  BY DEF TaskInv
<1>0. /\ 1 \in 1 .. Slots /\ pos \in Nat /\ text \in Seq(Piece)
      /\ seen \subseteq {1} /\ (1 \in seen => slots[1] # NoMessage)
  BY SlotFacts DEF TaskInv, TypeOK, StepSound
<1>1. CASE SetupEnds
  <2>1. at = "boot" /\ at' = "idle" /\ pos' = pos /\ pos = 0
    BY <1>1 DEF SetupEnds, DelReadDone, DelReadFails, StepSound, Running
  <2>2. seen' \subseteq {1}
    BY <1>0, <1>1 DEF SetupEnds, DelReadDone, DelReadFails, Delete, sim
  <2> QED BY <2>1, <2>2 DEF StepSound, Running
<1>2. CASE Poll
  <2>1. at = "idle" /\ at' = "read" /\ pos' = pos /\ seen' = seen
    BY <1>2 DEF Poll, sim
  <2> QED BY <1>0, <2>1 DEF StepSound, Running
<1>3. CASE ReadEmpty \/ ReadWhole \/ ReadFails
  <2>1. at = "read" /\ pos = 0 /\ slots' = slots /\ polled' = slots[1]
    BY <1>3 DEF ReadEmpty, ReadWhole, ReadFails, sim, StepSound, Running
  <2>2. seen' \subseteq {1}
    BY <1>0, <1>3 DEF ReadEmpty, ReadWhole, ReadFails, ReadInPart, ReadNothing, sim
  <2>3. \/ at' = "idle" /\ pos' = pos
        \/ at' = "split" /\ pos' = 1
        \/ at' = "parse" /\ pos' = pos /\ slots[1] # NoMessage /\ text' = Commands(slots[1])
    BY <1>3 DEF ReadEmpty, ReadWhole, ReadFails
  <2>4. Commands(slots[1]) = Commands(polled)'
    BY <2>1 DEF Commands
  <2> QED BY <2>1, <2>2, <2>3, <2>4 DEF StepSound, Running
<1>4. CASE Parse \/ Split
  <2>1. UNCHANGED <<slots, seen, text, polled>> /\ ran \subseteq ran'
    BY <1>4, RunFacts DEF TaskInv
  <2>2. Running /\ At \in 1 .. Len(text)
    BY <1>4, AtFacts DEF Running, Parse, Split, TaskInv
  <2>3. \/ /\ at' \in {"write", "reset"} /\ pos' = pos /\ Current \in ran'
           /\ at' = "write" => Current.cmd = "ip"
           /\ at' = "reset" => Current.cmd = "rst"
        \/ at' = "delete" /\ pos = 0 /\ pos' = 0
        \/ at' = "split" /\ pos' # 0
    BY <1>4, RunFacts, ReturnFacts DEF TaskInv
  <2>4. pos' = pos => Current' = Current /\ At' = At
    BY <2>1 DEF Current, At
  <2>5. Commands(polled)' = Commands(polled)
    BY <2>1 DEF Commands
  <2> QED BY <2>1, <2>2, <2>3, <2>4, <2>5 DEF StepSound, Running
<1>5. CASE FinalZero
  <2>1. at = "split" /\ UNCHANGED <<slots, seen, polled>>
    BY <1>5 DEF FinalZero, sim
  <2>2. pos # 0 /\ ((at' = "idle" /\ pos' = 0) \/ (at' = at /\ pos' = pos))
    BY <1>5, <2>1 DEF FinalZero, StepSound
  <2>3. CASE at' = "idle"
    BY <2>1, <2>2, <2>3 DEF StepSound, Running
  <2>4. CASE at' = at
    BY <2>1, <2>2, <2>4 DEF StepSound, Running
  <2> QED BY <2>2, <2>3, <2>4
<1>6. CASE Write
  <2>1. UNCHANGED <<slots, seen, text, polled, ran>> /\ at = "write"
    BY <1>6 DEF Write, sim, buffer
  <2>2. \/ at' = "write" /\ pos' = pos
        \/ at' = "delete" /\ pos = 0 /\ pos' = 0
        \/ at' = "split" /\ pos' # 0
    BY <1>6, ReturnFacts DEF Write, TaskInv
  <2>3. pos' = pos => Current' = Current /\ At' = At
    BY <2>1 DEF Current, At
  <2>4. Commands(polled)' = Commands(polled)
    BY <2>1 DEF Commands
  <2> QED BY <2>1, <2>2, <2>3, <2>4 DEF StepSound, Running
<1>7. CASE Reset
  <2>1. at = "reset" /\ at' = "boot" /\ pos' = 0 /\ UNCHANGED <<slots, seen, ran, cutOff>>
    BY <1>7 DEF Reset, Boots, sim, losses
  <2>2. ASSUME 1 \in seen', NEW c \in Held(Commands(slots[1]))'
        PROVE  c \in ran' \cup cutOff' \/ AfterReset(c)'
    <3>1. c \in Held(Commands(slots[1]))
      BY <2>1, <2>2 DEF Held, Commands
    <3> QED BY <2>1, <2>2, <3>1, ResetDeletes DEF AfterReset
  <2> QED BY <1>0, <2>1, <2>2 DEF StepSound, Running
<1>8. CASE gsmSMSDel
  <2>1. /\ at = "delete" /\ at' = "split" /\ pos' = 1 /\ polled' = polled
        /\ slots[1] = polled
    BY <1>8 DEF gsmSMSDel, DelDone, DelFails, StepSound, Running
  <2>2. seen' \subseteq {1} /\ (1 \in seen' => slots' = slots)
    BY <1>0, <1>8 DEF gsmSMSDel, DelDone, DelFails, Delete, sim
  <2> QED BY <2>1, <2>2 DEF StepSound, Running
<1>9. CASE PowerFails
  <2>1. at' = "boot" /\ pos' = 0 /\ UNCHANGED <<slots, seen, ran>>
    BY <1>9 DEF PowerFails, Boots, sim
  <2>2. ASSUME 1 \in seen', NEW c \in Held(Commands(slots[1]))'
        PROVE  c \in ran' \cup cutOff'
    <3>1. c \in Held(Commands(slots[1]))
      BY <2>1, <2>2 DEF Held, Commands
    <3>2. c \in Read
      BY <2>1, <2>2, <3>1 DEF Read
    <3> QED BY <1>9, <2>1, <3>2 DEF PowerFails
  <2> QED BY <1>0, <2>1, <2>2 DEF StepSound, Running
<1>10. ASSUME NEW m \in Message, Arrives(m) PROVE StepSound'
  <2>1. UNCHANGED <<seen, text, polled, ran, cutOff, at, pos>>
    BY <1>10 DEF Arrives, buffer, losses
  <2>2. slots[1] # NoMessage => slots'[1] = slots[1]
    BY <1>0, <1>10 DEF Arrives, TaskInv, TypeOK
  <2>3. Current' = Current /\ At' = At /\ Commands(polled)' = Commands(polled)
    BY <2>1 DEF Current, At, Commands
  <2>4. ASSUME at' = "boot", 1 \in seen', NEW c \in Held(Commands(slots[1]))'
        PROVE  c \in ran' \cup cutOff' \/ AfterReset(c)'
    <3>1. c \in Held(Commands(slots[1]))
      BY <1>0, <2>1, <2>2, <2>4 DEF Held, Commands
    <3> QED BY <2>1, <2>4, <3>1 DEF StepSound, AfterReset
  <2> QED BY <1>0, <2>1, <2>2, <2>3, <2>4 DEF StepSound, Running
<1>11. CASE UNCHANGED vars
  <2>1. UNCHANGED <<slots, seen, text, polled, ran, cutOff, at, pos>>
    BY <1>11 DEF vars, sim, buffer, losses
  <2>2. /\ Current' = Current /\ At' = At /\ Commands(polled)' = Commands(polled)
        /\ Held(Commands(slots[1]))' = Held(Commands(slots[1]))
    BY <2>1 DEF Current, At, Commands, Held
  <2>3. \A c : AfterReset(c)' <=> AfterReset(c)
    BY <2>1 DEF AfterReset
  <2> QED BY <2>1, <2>2, <2>3 DEF StepSound, Running
<1> QED BY <1>1, <1>2, <1>3, <1>4, <1>5, <1>6, <1>7, <1>8, <1>9, <1>10, <1>11
        DEF Next, MainLoop

\* Before the first boot all this holds.
LEMMA TaskInit == Init => TaskInv
<1> SUFFICES ASSUME Init PROVE TaskInv
  OBVIOUS
<1>1. 1 \in 1 .. Params /\ <<>> \in Seq(Piece) /\ NoCommand \in Piece
  BY SmsAssumption, EmptySeq DEF Piece
<1>2. TypeOK
  <2>1. eeprom \in Confs /\ ram \in Confs
    BY <1>1 DEF Init, Confs
  <2>2. arrived \in 0 .. MaxMessages /\ cuts \in 0 .. MaxCuts
    BY SmsAssumption DEF Init
  <2>3. slots \in [1 .. Slots -> Message \cup {NoMessage}]
    BY DEF Init
  <2> QED BY <1>1, <2>1, <2>2, <2>3 DEF Init, TypeOK
<1>3. Held(text) = {} /\ Held(rest) = {}
  BY DEF Init, Held
<1>4. BufferSound /\ StepSound
  BY <1>3 DEF Init, BufferSound, StepSound, Running
<1> QED BY <1>2, <1>4 DEF TaskInv

\* Whatever the modem and the power do, the buffer and the steps are sound.
LEMMA TaskHolds == Spec => []TaskInv
<1>1. TaskInv /\ [Next]_vars => TaskInv'
  BY TypeStep, BufferStep, StepStep DEF TaskInv
<1> QED BY <1>1, TaskInit, PTL DEF Spec

\* The types of the variables hold for any SIM, any texts and any failures.
THEOREM TypeCorrect == Spec => []TypeOK
<1>1. TaskInv => TypeOK
  BY DEF TaskInv
<1> QED BY <1>1, TaskHolds, PTL

-----------------------------------------------------------------------------
(***************************************************************************)
(* The parameters.                                                         *)
(***************************************************************************)
\* In the middle of an ip the parameters before next are those of the command
\* that is run; else they are all of one command, unless a failure tore them.
ConfSound ==
  /\ ram = eeprom
  /\ at = "write" => \A p \in Parameter : p < next => eeprom[p] = Current
  /\ at # "write" =>
       /\ next = 1
       /\ torn \/ \E c \in ran \cup {NoCommand} : eeprom = [p \in Parameter |-> c]

\* The write of a parameter adds it to those that are written.
LEMMA WriteAdds ==
  ASSUME TaskInv, ConfSound, Write
  PROVE  /\ eeprom' \in [Parameter -> Piece]
         /\ \A p \in Parameter : p <= next => eeprom'[p] = Current
         /\ next = Params => eeprom' = [p \in Parameter |-> Current]
<1>1. at = "write" /\ eeprom \in [Parameter -> Piece] /\ next \in Parameter
  BY DEF Write, TaskInv, TypeOK, Confs, Parameter
<1>2. Current \in Piece
  BY <1>1, AtFacts
<1>3. eeprom' = [eeprom EXCEPT ![next] = Current]
  BY DEF Write
<1>4. ASSUME NEW p \in Parameter, p <= next PROVE eeprom'[p] = Current
  <2>1. p < next => eeprom[p] = Current
    BY <1>1 DEF ConfSound
  <2>2. p = next \/ p < next
    BY <1>1, <1>4 DEF Parameter
  <2> QED BY <1>1, <1>3, <2>1, <2>2
<1>5. eeprom' \in [Parameter -> Piece]
  BY <1>1, <1>2, <1>3
<1>6. ASSUME next = Params PROVE eeprom' = [p \in Parameter |-> Current]
  <2>1. \A p \in Parameter : p <= next
    BY <1>6, SmsAssumption DEF Parameter
  <2> QED BY <1>4, <1>5, <2>1
<1> QED BY <1>4, <1>5, <1>6

\* Every step keeps the parameters those of one command.
LEMMA ConfStep == TaskInv /\ ConfSound /\ [Next]_vars => ConfSound'
<1> SUFFICES ASSUME TaskInv, ConfSound, [Next]_vars PROVE ConfSound'
  OBVIOUS
<1>1. CASE SetupEnds \/ Poll \/ ReadEmpty \/ ReadWhole \/ ReadFails \/ gsmSMSDel \/ FinalZero
  <2>1. UNCHANGED <<eeprom, ram, next, ran>> /\ (torn' <=> torn)
    BY <1>1 DEF SetupEnds, Poll, ReadEmpty, ReadWhole, ReadFails, gsmSMSDel,
                FinalZero, conf, losses
  <2>2. at # "write" /\ at' # "write"
    BY <1>1 DEF SetupEnds, DelReadDone, DelReadFails, Poll, ReadEmpty, ReadWhole,
                ReadFails, gsmSMSDel, DelDone, DelFails, FinalZero
  <2> QED BY <2>1, <2>2 DEF ConfSound
<1>2. CASE Parse \/ Split
  <2>1. UNCHANGED <<eeprom, ram, next>> /\ ran \subseteq ran' /\ (torn' <=> torn) /\ at # "write"
    BY <1>2, RunFacts DEF Parse, Split, TaskInv
  <2>2. \A p \in Parameter : ~(p < 1)
    BY SmsAssumption DEF Parameter
  <2> QED BY <2>1, <2>2 DEF ConfSound
<1>3. CASE Write
  <2>1. ram' = eeprom' /\ text' = text /\ ran' = ran /\ at = "write"
    BY <1>3 DEF Write, UpdateCopy, buffer, ConfSound
  <2>2. Current \in ran
    BY <2>1 DEF TaskInv, StepSound
  <2>3. CASE next = Params
    <3>1. next' = 1 /\ at' # "write"
      BY <1>3, <2>3 DEF Write, AfterWrite, Return
    <3> QED BY <1>3, <2>1, <2>2, <2>3, <3>1, WriteAdds DEF ConfSound
  <2>4. CASE next # Params
    <3>1. next' = next + 1 /\ at' = "write" /\ pos' = pos
      BY <1>3, <2>4 DEF Write, AfterWrite
    <3>2. \A p \in Parameter : p < next' => p <= next
      BY <3>1, SmsAssumption DEF Parameter, TaskInv, TypeOK
    <3>3. Current' = Current
      BY <2>1, <3>1 DEF Current
    <3> QED BY <1>3, <2>1, <3>1, <3>2, <3>3, WriteAdds DEF ConfSound
  <2> QED BY <2>3, <2>4
<1>4. CASE Reset \/ PowerFails
  <2>1. ram' = eeprom /\ eeprom' = eeprom /\ ran' = ran /\ next' = 1 /\ at' = "boot"
    BY <1>4 DEF Reset, PowerFails, Boots
  <2>2. (torn => torn') /\ (at = "write" => torn')
    <3>1. CASE Reset
      <4>1. torn' = torn
        BY <3>1, Zenon DEF Reset, losses
      <4>2. at # "write"
        BY <3>1 DEF Reset
      <4> QED BY <4>1, <4>2
    <3>2. CASE PowerFails
      BY <3>2, Zenon DEF PowerFails
    <3> QED BY <1>4, <3>1, <3>2
  <2> QED BY <2>1, <2>2 DEF ConfSound
<1>5. CASE UNCHANGED vars \/ \E m \in Message : Arrives(m)
  <2>1. UNCHANGED <<eeprom, ram, next, ran, at, text, pos>> /\ (torn' <=> torn)
    BY <1>5 DEF vars, Arrives, buffer, conf, losses
  <2>2. Current' = Current
    BY <2>1 DEF Current
  <2>3. CASE at = "write"
    BY <2>1, <2>2, <2>3 DEF ConfSound
  <2>4. CASE at # "write"
    BY <2>1, <2>4 DEF ConfSound
  <2> QED BY <2>3, <2>4
<1> QED BY <1>1, <1>2, <1>3, <1>4, <1>5 DEF Next, MainLoop

\* Between two polls the copy in RAM is what the EEPROM holds, and both are the
\* parameters of one command that was run, unless the power failed in an ip.
THEOREM ConfIsOfOneCommand == Spec => []ConfOfOneCommand
<1>1. Init => ConfSound
  BY SmsAssumption DEF Init, ConfSound
<1>2. ConfSound => ConfOfOneCommand
  BY DEF ConfSound, ConfOfOneCommand
<1> QED BY <1>1, <1>2, ConfStep, TaskHolds, PTL DEF Spec

-----------------------------------------------------------------------------
(***************************************************************************)
(* Whose commands are run.                                                 *)
(***************************************************************************)
\* A command that is run is of this poll's message, or one of a hidden sender
\* that was run before and does not reset: for any texts, failed readings and
\* failed deletions.
THEOREM RunsThisPollsText == Spec => OnlyThisPollsText
<1>1. ASSUME TaskInv, Parse \/ Split
      PROVE  \/ Current = NoCommand \/ Current \in Held(Commands(polled))
             \/ ~Current.shown /\ Current \in ran /\ Current.cmd # "rst"
  <2>1. At \in 1 .. Len(text) /\ Current = text[At] /\ Running /\ At \in Nat /\ At # 0
    BY <1>1, AtFacts DEF Parse
  <2>2. Due(At)
    BY <1>1, <2>1 DEF TaskInv, BufferSound
  <2>3. InPlace(At) => Current \in Held(Commands(polled))
    <3>1. InPlace(At) => At \in 1 .. Len(Commands(polled)) /\ Current = Commands(polled)[At]
      BY <2>1, SlotFacts, LenProperties, <1>1 DEF InPlace, TaskInv
    <3> QED BY <1>1, <3>1, SlotFacts, CommandsFacts DEF TaskInv
  <2> QED BY <2>1, <2>2, <2>3 DEF Due, Old
<1> QED BY <1>1, TaskHolds, PTL DEF Spec, OnlyThisPollsText

-----------------------------------------------------------------------------
(***************************************************************************)
(* The mailbox.                                                            *)
(***************************************************************************)
Waits == UNION {Held(Commands(slots[i])) : i \in 1 .. Slots}
Ips == {c \in ran : c.cmd = "ip"}

\* Each parameter is from an ip that was run, or the programmed one, and no
\* command has the number of a message that is to arrive.
FromRan ==
  /\ eeprom \in [Parameter -> {NoCommand} \cup Ips]
  /\ \A c \in Box \cup ran \cup cutOff : c.nr <= arrived

\* What the steps of the mailbox need
MailInv == TaskInv /\ ConfSound /\ FromRan

\* The members of the box, before and after a step
LEMMA InBox ==
  ASSUME NEW b
  PROVE  b \in Box <=> b \in Waits \/ (b \in InBuffer /\ (Running \/ ~b.shown))
BY DEF Box, Waits

LEMMA InBoxThen ==
  ASSUME NEW b
  PROVE  b \in Box' <=> b \in Waits' \/ (b \in InBuffer' /\ (Running' \/ ~b.shown))
BY DEF Box, Waits

\* They are commands.
LEMMA BoxType == TypeOK => /\ Box \subseteq Command /\ Waits \subseteq Command
                           /\ InBuffer \subseteq Command
<1> SUFFICES ASSUME TypeOK
             PROVE  /\ Box \subseteq Command /\ Waits \subseteq Command
                    /\ InBuffer \subseteq Command
  OBVIOUS
<1>1. Waits \subseteq Command
  <2>1. \A i \in 1 .. Slots : Held(Commands(slots[i])) \subseteq Command
    BY CommandsFacts DEF TypeOK
  <2> QED BY <2>1 DEF Waits
<1>2. InBuffer \subseteq Command
  BY HeldFacts DEF TypeOK, InBuffer
<1> QED BY <1>1, <1>2, InBox

\* Between two polls what is in the buffer was run.
LEMMA IdleRan ==
  ASSUME TaskInv, ~Running
  PROVE  InBuffer \subseteq ran
BY DEF TaskInv, BufferSound, InBuffer, Old

\* While a text is run, a command of it that was not run is of this poll's
\* message.
LEMMA UnrunOfPolled ==
  ASSUME TaskInv, Running, NEW c \in InBuffer, c \notin ran
  PROVE  /\ c \in Held(text) /\ c.nr = polled.nr
         /\ \E i \in 1 .. Len(text) : InPlace(i) /\ c = text[i] /\ ~(i < pos) /\ c.place = i
<1>1. c \in Held(text)
  BY DEF TaskInv, BufferSound, InBuffer, Old
<1>2. text \in Seq(Piece) /\ Len(text) \in Nat
  BY LenProperties DEF TaskInv, TypeOK
<1>3. PICK i \in 1 .. Len(text) : c = text[i] /\ c # NoCommand
  BY <1>1 DEF Held
<1>4. InPlace(i) /\ ~(i < pos)
  BY <1>3 DEF TaskInv, BufferSound, Due, Done, Old
<1>5. i \in 1 .. Len(Commands(polled)) /\ c = Commands(polled)[i]
  <2>1. i <= Len(Commands(polled)) /\ text[i] = Commands(polled)[i]
    BY <1>2, <1>4 DEF InPlace
  <2> QED BY <1>2, <1>3, <2>1
<1>6. c \in Held(Commands(polled)) /\ c.place = i /\ c.nr = polled.nr
  BY <1>5, SlotFacts, CommandsFacts DEF TaskInv
<1> QED BY <1>1, <1>3, <1>4, <1>6

\* When it is to forget, all that the mailbox asks
LEMMA ForgetOnly ==
  ASSUME Box' \subseteq Box, UNCHANGED <<ran, InForce, cutOff>>,
         \A b \in Box : b \notin Box' => b \in ran \cup cutOff \/ AfterReset(b)
  PROVE  Mail!Forget
BY DEF Mail!Forget, Mail!Gone, Mail!Skipped, AfterReset

\* The deletion at boot
LEMMA SetupForgets == MailInv /\ SetupEnds => Mail!Forget
<1> SUFFICES ASSUME MailInv, SetupEnds PROVE Mail!Forget
  OBVIOUS
<1>1. /\ at = "boot" /\ at' = "idle"
      /\ UNCHANGED <<text, rest, eeprom, ran, cutOff>>
  BY DEF SetupEnds, DelReadDone, DelReadFails, buffer, conf, losses
<1>2. InBuffer = {} /\ InBuffer' = {}
  BY <1>1 DEF MailInv, TaskInv, BufferSound, InBuffer, Held
<1>3. \A i \in 1 .. Slots :
        slots'[i] = slots[i] \/ (slots'[i] = NoMessage /\ i = 1 /\ 1 \in seen)
  BY DEF SetupEnds, DelReadDone, DelReadFails, Delete, gsmSMSDelRead, sim,
         MailInv, TaskInv, StepSound
<1>4. Held(Commands(NoMessage)) = {}
  BY CommandsFacts
<1>5. Waits' = UNION {Held(Commands(slots'[i])) : i \in 1 .. Slots}
  BY DEF Waits, Held, Commands
<1>6. Waits' \subseteq Waits
  BY <1>3, <1>4, <1>5 DEF Waits
<1>7. ASSUME NEW b \in Waits, b \notin Waits'
      PROVE  b \in ran \cup cutOff \/ AfterReset(b)
  <2>1. PICK i \in 1 .. Slots : b \in Held(Commands(slots[i]))
    BY DEF Waits
  <2>2. slots'[i] # slots[i]
    BY <1>5, <1>7, <2>1
  <2>3. i = 1 /\ 1 \in seen
    BY <1>3, <2>2
  <2> QED BY <1>1, <2>1, <2>3 DEF MailInv, TaskInv, StepSound
<1>8. InForce' = InForce
  BY <1>1 DEF InForce
<1>9. \A b : (b \in Box <=> b \in Waits) /\ (b \in Box' <=> b \in Waits')
  BY <1>2, InBox, InBoxThen
<1> QED BY <1>1, <1>6, <1>7, <1>8, <1>9, ForgetOnly

\* The cleanup of the buffer
LEMMA PollForgets == MailInv /\ Poll => Mail!Forget
<1> SUFFICES ASSUME MailInv, Poll PROVE Mail!Forget
  OBVIOUS
<1>1. at = "idle" /\ at' = "read" /\ UNCHANGED <<slots, eeprom, ran, cutOff>>
  BY DEF Poll, sim, conf, losses
<1>2. ~Running /\ ~Running' /\ Waits' = Waits /\ InForce' = InForce
  BY <1>1 DEF Running, Waits, InForce
<1>3. InBuffer' \subseteq InBuffer
  BY DEF Poll, gsmBufferCleanup, buffer, InBuffer, Held
<1>4. InBuffer \subseteq ran
  BY <1>2, IdleRan DEF MailInv
<1> QED BY <1>1, <1>2, <1>3, <1>4, InBox, InBoxThen, ForgetOnly

\* What a reading overwrites was run.
LEMMA ReadForgets == MailInv /\ (ReadEmpty \/ ReadWhole \/ ReadFails) => Mail!Forget
<1> SUFFICES ASSUME MailInv, ReadEmpty \/ ReadWhole \/ ReadFails PROVE Mail!Forget
  OBVIOUS
<1>1. /\ at = "read" /\ at' \in {"idle", "parse", "split"}
      /\ UNCHANGED <<slots, eeprom, ran, cutOff>>
  BY DEF ReadEmpty, ReadWhole, ReadFails, sim, conf, losses
<1>2. ~Running /\ Waits' = Waits /\ InForce' = InForce
  BY <1>1 DEF Running, Waits, InForce
<1>3. TypeOK /\ 1 \in 1 .. Slots /\ Commands(slots[1]) \in Seq(Piece)
  BY SlotFacts DEF MailInv, TaskInv
<1>4. InBuffer' \subseteq InBuffer \cup Waits
  <2>1. InBuffer' = Held(text') \cup Held(rest')
    BY DEF InBuffer, Held
  <2>2. ASSUME NEW c \in Held(text') PROVE c \in InBuffer \cup Waits
    <3>1. PICK i \in 1 .. Len(text') : c = text'[i] /\ c # NoCommand
      BY DEF Held
    <3>2. \/ text'[i] \in InBuffer
          \/ i <= Len(Commands(slots[1])) /\ \A j \in 1 .. i : text'[j] = Commands(slots[1])[j]
      BY <1>3, <3>1, ReadLeaves
    <3>3. CASE /\ i <= Len(Commands(slots[1]))
               /\ \A j \in 1 .. i : text'[j] = Commands(slots[1])[j]
      <4>1. Len(text') \in Nat /\ Len(Commands(slots[1])) \in Nat
        BY <1>3, ReadLeaves, LenProperties
      <4>2. i \in 1 .. Len(Commands(slots[1])) /\ c = Commands(slots[1])[i]
        BY <3>1, <3>3, <4>1
      <4>3. c \in Held(Commands(slots[1]))
        BY <3>1, <4>2 DEF Held
      <4> QED BY <1>3, <4>3 DEF Waits
    <3> QED BY <3>1, <3>2, <3>3
  <2> QED BY <1>3, <2>1, <2>2, ReadLeaves
<1>5. InBuffer \subseteq ran /\ \A c \in InBuffer : ~c.shown
  BY <1>1, <1>2, IdleRan DEF MailInv, TaskInv, BufferSound, InBuffer, Old
<1> QED BY <1>1, <1>2, <1>4, <1>5, InBox, InBoxThen, ForgetOnly

\* A command that is run was in the box; one that is refused changes nothing.
LEMMA RunExecutes ==
  ASSUME MailInv, Parse \/ Split
  PROVE  \/ \E c \in Box : Mail!Execute(c)
         \/ UNCHANGED <<Box, ran, InForce, cutOff>>
<1>1. /\ UNCHANGED <<slots, text, rest, eeprom, cutOff>>
      /\ Running /\ Running' /\ at # "write"
  BY RunFacts, ReturnFacts DEF Running, Parse, Split, MailInv, TaskInv
<1>2. Box' = Box
  <2>1. Waits' = Waits /\ InBuffer' = InBuffer
    BY <1>1 DEF Waits, InBuffer
  <2> QED BY <1>1, <2>1, InBox, InBoxThen
<1>3. Current = NoCommand \/ Current \in Box
  BY <1>1, AtFacts, InBox DEF Parse, InBuffer, MailInv
<1>4. at' # "write" => InForce' = InForce
  BY <1>1 DEF InForce
<1>5. at' = "write" => /\ Current.cmd = "ip" /\ Current \in ran'
                       /\ InForce' = [p \in Parameter |-> Current]
  <2>1. at' = "write" => Current.cmd = "ip" /\ Current \in ran' /\ pos' = pos
    BY RunFacts, ReturnFacts DEF MailInv, TaskInv
  <2>2. pos' = pos => Current' = Current
    BY <1>1 DEF Current
  <2> QED BY <2>1, <2>2 DEF InForce
<1>6. Current.cmd = "ip" => at' = "write" \/ ran' = ran
  BY RunFacts DEF MailInv
<1>7. NoCommand.cmd # "ip"
  BY DEF NoCommand
<1>8. CASE ran' = ran \cup ({Current} \ {NoCommand}) /\ Current = NoCommand
  <2>1. ran' = ran /\ at' # "write"
    BY <1>5, <1>7, <1>8
  <2> QED BY <1>1, <1>2, <1>4, <2>1
<1>9. CASE ran' = ran \cup ({Current} \ {NoCommand}) /\ Current # NoCommand /\ at' = "write"
  BY <1>1, <1>2, <1>3, <1>5, <1>9 DEF Mail!Execute
<1>10. CASE ran' = ran \cup ({Current} \ {NoCommand}) /\ Current # NoCommand /\ at' # "write"
  <2>1. CASE Current.cmd # "ip"
    BY <1>1, <1>2, <1>3, <1>4, <1>10, <2>1 DEF Mail!Execute
  <2>2. CASE Current.cmd = "ip"
    BY <1>1, <1>2, <1>4, <1>6, <1>10, <2>2
  <2> QED BY <2>1, <2>2
<1>11. CASE ran' = ran /\ at' # "write"
  BY <1>1, <1>2, <1>4, <1>11
<1>12. \/ ran' = ran \cup ({Current} \ {NoCommand})
       \/ ran' = ran /\ at' # "write"
  BY RunFacts DEF MailInv, Return
<1> QED BY <1>8, <1>9, <1>10, <1>11, <1>12

\* When the text is at its end all of it was run.
LEMMA FinalZeroForgets == MailInv /\ FinalZero => Mail!Forget
<1> SUFFICES ASSUME MailInv, FinalZero PROVE Mail!Forget
  OBVIOUS
<1>1. /\ at = "split" /\ at' \in {"split", "idle"} /\ Running
      /\ UNCHANGED <<slots, eeprom, ran, cutOff>>
  BY DEF FinalZero, sim, conf, losses, Running
<1>2. Waits' = Waits /\ InForce' = InForce
  BY <1>1 DEF Waits, InForce
<1>3. text \in Seq(Piece) /\ rest \in Seq(Piece) /\ Len(text) \in Nat /\ pos \in Nat
  BY LenProperties DEF MailInv, TaskInv, TypeOK
<1>4. InBuffer' = InBuffer
  <2>1. CASE text' = text \o rest /\ rest' = <<>>
    <3>1. Held(text') = Held(text) \cup Held(rest)
      BY <1>3, <2>1, HeldConcat
    <3>2. Held(rest') = {}
      BY <2>1 DEF Held
    <3>3. InBuffer' = Held(text') \cup Held(rest')
      BY DEF InBuffer, Held
    <3> QED BY <3>1, <3>2, <3>3 DEF InBuffer
  <2>2. CASE text' = text /\ rest' = rest
    BY <2>2 DEF InBuffer
  <2> QED BY <2>1, <2>2 DEF FinalZero
<1>5. InBuffer \subseteq ran
  <2>1. \A i \in 1 .. Len(text) : i < pos
    BY <1>3 DEF FinalZero
  <2> QED BY <1>1, <2>1, UnrunOfPolled DEF MailInv
<1> QED BY <1>1, <1>2, <1>4, <1>5, InBox, InBoxThen, ForgetOnly

\* ip is in force from its first write on.
LEMMA WriteKeeps ==
  ASSUME MailInv, Write
  PROVE  UNCHANGED <<Box, ran, InForce, cutOff>>
<1>1. /\ at = "write" /\ Running /\ Running'
      /\ UNCHANGED <<slots, text, rest, ran, cutOff>>
  BY ReturnFacts DEF Write, sim, buffer, losses, Running, MailInv, TaskInv
<1>2. Box' = Box
  <2>1. Waits' = Waits /\ InBuffer' = InBuffer
    BY <1>1 DEF Waits, InBuffer
  <2> QED BY <1>1, <2>1, InBox, InBoxThen
<1>3. CASE next = Params
  <2>1. at' # "write"
    BY <1>3 DEF Write, Return
  <2> QED BY <1>1, <1>2, <1>3, <2>1, WriteAdds DEF MailInv, InForce
<1>4. CASE next # Params
  <2>1. at' = "write" /\ Current' = Current
    BY <1>1, <1>4 DEF Write, Current
  <2> QED BY <1>1, <1>2, <2>1 DEF InForce
<1> QED BY <1>3, <1>4

\* What a reset erases of the buffer was run, or stands behind the rst.
LEMMA ResetForgets == MailInv /\ Reset => Mail!Forget
<1> SUFFICES ASSUME MailInv, Reset PROVE Mail!Forget
  OBVIOUS
<1>1. /\ at = "reset" /\ at' = "boot" /\ Running /\ text' = <<>> /\ rest' = <<>>
      /\ UNCHANGED <<slots, eeprom, ran, cutOff>>
  BY DEF Reset, Boots, sim, losses, Running
<1>2. Waits' = Waits /\ InBuffer' = {} /\ InForce' = InForce
  BY <1>1 DEF Waits, InBuffer, Held, InForce
<1>3. /\ At \in 1 .. Len(text) /\ Current = text[At] /\ At \in Nat /\ Len(text) \in Nat
      /\ Current \in ran /\ Current.cmd = "rst" /\ Current # NoCommand /\ pos \in Nat
  <2>1. Len(text) \in Nat /\ pos \in Nat
    BY LenProperties DEF MailInv, TaskInv, TypeOK
  <2> QED BY <1>1, <2>1, AtFacts DEF MailInv, TaskInv, StepSound, NoCommand
<1>4. InPlace(At)
  BY <1>1, <1>3 DEF MailInv, TaskInv, BufferSound, Due, Old
<1>5. Current.place = At /\ Current.nr = polled.nr
  <2>1. At \in 1 .. Len(Commands(polled)) /\ Current = Commands(polled)[At]
    BY <1>3, <1>4 DEF InPlace
  <2> QED BY <2>1, SlotFacts, CommandsFacts DEF MailInv, TaskInv
<1>6. ASSUME NEW b \in InBuffer, b \notin ran
      PROVE  AfterReset(b)
  <2>1. PICK i \in 1 .. Len(text) : b = text[i] /\ ~(i < pos) /\ b.place = i /\ b.nr = polled.nr
    BY <1>1, <1>6, UnrunOfPolled DEF MailInv
  <2>2. i # At
    BY <1>3, <1>6, <2>1
  <2>3. At < i
    BY <1>3, <2>1, <2>2 DEF At
  <2> QED BY <1>3, <1>5, <2>1, <2>3 DEF AfterReset
<1> QED BY <1>1, <1>2, <1>6, InBox, InBoxThen, ForgetOnly

\* The message that is deleted is in the buffer, to be run.
LEMMA DeletionKeeps ==
  ASSUME MailInv, gsmSMSDel
  PROVE  UNCHANGED <<Box, ran, InForce, cutOff>>
<1>1. /\ at = "delete" /\ at' = "split" /\ Running /\ Running'
      /\ UNCHANGED <<text, rest, eeprom, ran, cutOff>>
  BY DEF gsmSMSDel, DelDone, DelFails, buffer, conf, losses, Running
<1>2. slots[1] = polled /\ text = Commands(polled)
  BY <1>1 DEF MailInv, TaskInv, StepSound
<1>3. \A i \in 1 .. Slots :
        slots'[i] = slots[i] \/ (slots'[i] = NoMessage /\ i = 1)
  BY DEF gsmSMSDel, DelDone, DelFails, Delete, sim
<1>4. Waits' \subseteq Waits /\ Waits \subseteq Waits' \cup InBuffer
  <2>1. Waits' = UNION {Held(Commands(slots'[i])) : i \in 1 .. Slots}
    BY DEF Waits, Held, Commands
  <2>2. Held(Commands(NoMessage)) = {}
    BY CommandsFacts
  <2>3. Waits' \subseteq Waits
    BY <1>3, <2>1, <2>2 DEF Waits
  <2>4. ASSUME NEW b \in Waits PROVE b \in Waits' \cup InBuffer
    <3>1. PICK i \in 1 .. Slots : b \in Held(Commands(slots[i]))
      BY DEF Waits
    <3>2. CASE slots'[i] = slots[i]
      BY <2>1, <3>1, <3>2
    <3>3. CASE i = 1
      BY <1>2, <3>1, <3>3 DEF InBuffer
    <3> QED BY <1>3, <3>2, <3>3
  <2> QED BY <2>3, <2>4
<1>5. InBuffer' = InBuffer /\ InForce' = InForce
  BY <1>1 DEF InBuffer, InForce
<1>6. Box' = Box
  BY <1>1, <1>4, <1>5, InBox, InBoxThen
<1> QED BY <1>1, <1>5, <1>6

\* A power failure costs what was not run of one message.
LEMMA PowerFailureFails == MailInv /\ PowerFails => Mail!Fail
<1> SUFFICES ASSUME MailInv, PowerFails PROVE Mail!Fail
  OBVIOUS
<1> DEFINE lost == (Read \cup InBuffer) \ ran
<1>1. /\ at' = "boot" /\ text' = <<>> /\ rest' = <<>>
      /\ cutOff' = cutOff \cup lost
      /\ UNCHANGED <<slots, eeprom, ran>>
  BY DEF PowerFails, Boots, sim
<1>2. Waits' = Waits /\ InBuffer' = {} /\ InForce' = eeprom
  BY <1>1 DEF Waits, InBuffer, Held, InForce
<1>3. Read \subseteq Waits
  BY DEF Read, Waits, MailInv, TaskInv, TypeOK
<1>4. ASSUME NEW c \in InBuffer, c \notin ran
      PROVE  Running /\ c.nr = polled.nr
  BY <1>4, IdleRan, UnrunOfPolled DEF MailInv
<1>5. lost \subseteq Box \ ran
  BY <1>3, <1>4, InBox
<1>6. ASSUME NEW c \in Read
      PROVE  /\ 1 \in seen /\ c.nr = slots[1].nr
             /\ Running => slots[1] = polled
  <2>1. 1 \in seen /\ c \in Held(Commands(slots[1]))
    BY DEF Read, MailInv, TaskInv, StepSound
  <2> QED BY <2>1, SlotFacts, CommandsFacts DEF MailInv, TaskInv, StepSound
<1>7. \A c, d \in lost : c.nr = d.nr
  BY <1>4, <1>6
<1>8. Box' \subseteq Box /\ Box \ Box' \subseteq ran \cup cutOff'
  BY <1>1, <1>2, InBox, InBoxThen
<1>9. InForce' \in [Parameter -> {NoCommand} \cup {c \in ran : c.cmd = "ip"}]
  BY <1>2 DEF MailInv, FromRan, Ips
<1> QED BY <1>1, <1>5, <1>7, <1>8, <1>9 DEF Mail!Fail, Mail!Gone

\* A message that arrives is new to the box.
LEMMA ArrivalReceives ==
  ASSUME MailInv, NEW m \in Message, Arrives(m)
  PROVE  Mail!Receive(Held(Commands(m)))
<1>1. UNCHANGED <<text, rest, at, pos, eeprom, ran, cutOff>> /\ m.nr = arrived + 1
  BY DEF Arrives, buffer, conf, losses
<1>2. Waits' = Waits \cup Held(Commands(m))
  <2>1. PICK j \in 1 .. Slots : slots[j] = NoMessage /\ slots' = [slots EXCEPT ![j] = m]
    BY DEF Arrives
  <2>2. /\ slots'[j] = m
        /\ \A i \in 1 .. Slots : i # j => slots'[i] = slots[i]
    BY <2>1 DEF MailInv, TaskInv, TypeOK
  <2>3. Waits' = UNION {Held(Commands(slots'[i])) : i \in 1 .. Slots}
    BY DEF Waits, Held, Commands
  <2>4. Held(Commands(slots[j])) = {}
    BY <2>1, CommandsFacts
  <2>5. Waits' \subseteq Waits \cup Held(Commands(m))
    BY <2>2, <2>3 DEF Waits
  <2>6. Waits \subseteq Waits'
    BY <2>2, <2>3, <2>4 DEF Waits
  <2>7. Held(Commands(m)) \subseteq Waits'
    BY <2>2, <2>3
  <2> QED BY <2>5, <2>6, <2>7
<1>3. InBuffer' = InBuffer /\ InForce' = InForce /\ (Running' <=> Running)
  BY <1>1 DEF InBuffer, InForce, Current, Running
<1>4. Box' = Box \cup Held(Commands(m))
  BY <1>2, <1>3, InBox, InBoxThen
<1>5. \A c \in Held(Commands(m)), d \in Box \cup ran \cup cutOff : c.nr # d.nr
  <2>1. \A c \in Held(Commands(m)) : c.nr = arrived + 1
    BY <1>1, CommandsFacts
  <2>2. \A d \in Box \cup ran \cup cutOff : d.nr \in Nat /\ d.nr <= arrived
    BY BoxType, PieceFacts DEF MailInv, TaskInv, TypeOK, FromRan, Piece
  <2>3. arrived \in Nat
    BY SmsAssumption DEF MailInv, TaskInv, TypeOK
  <2> QED BY <2>1, <2>2, <2>3
<1> QED BY <1>1, <1>3, <1>4, <1>5 DEF Mail!Receive

\* What the task and the power do to the mailbox
OwnStep ==
  \/ Mail!Forget \/ Mail!Fail \/ \E c \in Box : Mail!Execute(c)
  \/ UNCHANGED <<Box, ran, InForce, cutOff>>

\* Every step but an arrival is one of them.
LEMMA OwnSteps ==
  ASSUME MailInv, [Next]_vars, ~\E m \in Message : Arrives(m)
  PROVE  OwnStep
<1>1. CASE SetupEnds \/ Poll \/ ReadEmpty \/ ReadWhole \/ ReadFails \/ FinalZero \/ Reset
  BY <1>1, SetupForgets, PollForgets, ReadForgets, FinalZeroForgets, ResetForgets
  DEF OwnStep
<1>2. CASE Parse \/ Split \/ Write \/ gsmSMSDel
  BY <1>2, RunExecutes, WriteKeeps, DeletionKeeps DEF OwnStep
<1>3. CASE PowerFails
  BY <1>3, PowerFailureFails DEF OwnStep
<1>4. CASE UNCHANGED vars
  <2>1. UNCHANGED <<slots, text, rest, at, pos, eeprom, ran, cutOff>>
    BY <1>4 DEF vars, sim, buffer, conf, losses
  <2>2. /\ Waits' = Waits /\ InBuffer' = InBuffer /\ (Running' <=> Running)
        /\ InForce' = InForce
    BY <2>1 DEF Waits, InBuffer, Running, InForce, Current
  <2>3. Box' = Box
    BY <2>2, InBox, InBoxThen
  <2> QED BY <2>1, <2>2, <2>3 DEF OwnStep
<1> QED BY <1>1, <1>2, <1>3, <1>4 DEF Next, MainLoop

\* The commands that the parameters are from stay among those that were run,
\* and the numbers of messages only grow.
LEMMA FromRanStep ==
  ASSUME MailInv, [Next]_vars
  PROVE  FromRan'
<1>1. arrived \in Nat /\ (arrived' = arrived \/ arrived' = arrived + 1)
  BY SmsAssumption
  DEF MailInv, TaskInv, TypeOK, Next, MainLoop, SetupEnds, Poll, ReadEmpty,
      ReadWhole, ReadFails, Parse, Split, FinalZero, Write, Reset, Boots,
      gsmSMSDel, PowerFails, Arrives, vars
<1>2. ran \subseteq ran' /\ Ips \subseteq Ips'
  <2>1. CASE Parse \/ Split
    BY <2>1, RunFacts DEF MailInv, Ips
  <2>2. CASE ~(Parse \/ Split)
    <3>1. ran' = ran
      BY <2>2 DEF Next, MainLoop, SetupEnds, Poll, ReadEmpty, ReadWhole,
         ReadFails, FinalZero, Write, Reset, Boots, gsmSMSDel, PowerFails,
         Arrives, vars
    <3> QED BY <3>1 DEF Ips
  <2> QED BY <2>1, <2>2
<1>3. eeprom' \in [Parameter -> {NoCommand} \cup Ips']
  <2>1. CASE Write
    <3>1. Current \in Ips /\ eeprom' = [eeprom EXCEPT ![next] = Current]
      BY <2>1 DEF Write, MailInv, TaskInv, StepSound, Ips
    <3> QED BY <1>2, <3>1 DEF MailInv, FromRan
  <2>2. CASE ~Write
    <3>1. eeprom' = eeprom
      BY <2>2 DEF Next, MainLoop, SetupEnds, Poll, ReadEmpty, ReadWhole,
         ReadFails, Parse, Split, FinalZero, Reset, Boots, gsmSMSDel,
         PowerFails, Arrives, vars, conf
    <3> QED BY <1>2, <3>1 DEF MailInv, FromRan
  <2> QED BY <2>1, <2>2
<1>4. ASSUME NEW c \in Box' \cup ran' \cup cutOff' PROVE c.nr <= arrived'
  <2>1. \A d \in Box \cup ran \cup cutOff : d.nr \in Nat /\ d.nr <= arrived
    BY BoxType, PieceFacts DEF MailInv, TaskInv, TypeOK, FromRan, Piece
  <2>2. CASE \E m \in Message : Arrives(m)
    <3>1. PICK m \in Message : Arrives(m)
      BY <2>2
    <3>2. /\ Box' = Box \cup Held(Commands(m)) /\ ran' = ran /\ cutOff' = cutOff
      BY <3>1, ArrivalReceives DEF Mail!Receive
    <3>3. m.nr = arrived' /\ arrived' = arrived + 1
      BY <3>1 DEF Arrives
    <3>4. \A d \in Held(Commands(m)) : d.nr = m.nr
      BY CommandsFacts
    <3> QED BY <1>1, <1>4, <2>1, <3>2, <3>3, <3>4
  <2>3. CASE ~\E m \in Message : Arrives(m)
    <3>1. Box' \cup ran' \cup cutOff' \subseteq Box \cup ran \cup cutOff
      BY <2>3, OwnSteps DEF OwnStep, Mail!Forget, Mail!Fail, Mail!Execute
    <3> QED BY <1>1, <1>4, <2>1, <3>1
  <2> QED BY <2>2, <2>3
<1> QED BY <1>3, <1>4 DEF FromRan

\* Before the first boot the box is empty.
LEMMA MailStart == Init => MailInv /\ Mail!MailboxInit
<1> SUFFICES ASSUME Init PROVE MailInv /\ Mail!MailboxInit
  OBVIOUS
<1>1. TaskInv
  BY TaskInit
<1>2. Waits = {} /\ InBuffer = {}
  <2>1. \A i \in 1 .. Slots : Held(Commands(slots[i])) = {}
    BY CommandsFacts DEF Init
  <2> QED BY <2>1 DEF Init, Waits, InBuffer, Held
<1>3. Box = {}
  BY <1>2, InBox
<1>4. eeprom = [p \in Parameter |-> NoCommand] /\ ran = {} /\ cutOff = {} /\ at = "boot"
  BY DEF Init
<1>5. ConfSound
  BY SmsAssumption DEF Init, ConfSound
<1>6. FromRan
  BY <1>3, <1>4 DEF FromRan
<1> QED BY <1>1, <1>3, <1>4, <1>5, <1>6 DEF MailInv, Mail!MailboxInit, InForce

\* The task with the SIM, its buffer and the EEPROM implements the mailbox: for
\* any SIM, any texts, any number of parameters, messages and power failures.
THEOREM TaskIsAMailbox == Spec => ImplementsMailbox
<1>1. MailInv /\ [Next]_vars => MailInv'
  <2> SUFFICES ASSUME MailInv, [Next]_vars PROVE MailInv'
    OBVIOUS
  <2>1. TaskInv'
    BY TypeStep, BufferStep, StepStep DEF MailInv, TaskInv
  <2> QED BY <2>1, ConfStep, FromRanStep DEF MailInv
<1>2. MailInv /\ [Next]_vars => [Mail!MailboxNext]_Mail!mailboxVars
  <2> SUFFICES ASSUME MailInv, [Next]_vars
               PROVE  [Mail!MailboxNext]_Mail!mailboxVars
    OBVIOUS
  <2>1. CASE \E m \in Message : Arrives(m)
    <3>1. PICK m \in Message : Arrives(m)
      BY <2>1
    <3>2. Mail!Receive(Held(Commands(m)))
      BY <3>1, ArrivalReceives
    <3> QED BY <3>2 DEF Mail!MailboxNext
  <2>2. CASE ~\E m \in Message : Arrives(m)
    BY <2>2, OwnSteps DEF OwnStep, Mail!MailboxNext, Mail!mailboxVars
  <2> QED BY <2>1, <2>2
<1> QED BY <1>1, <1>2, MailStart, PTL DEF Spec, ImplementsMailbox, Mail!MailboxSpec
=============================================================================
