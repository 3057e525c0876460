-------------------------- MODULE SerialPortProofs --------------------------
(***************************************************************************)
(* Proofs about SerialPort, for buffers of any size and any number of      *)
(* lines: the pointers of the ring buffer implement a sequence, and the    *)
(* receiving half of the port the queue of ByteQueue.                      *)
(***************************************************************************)
EXTENDS SerialPort, SequenceTheorems, TLAPS

-----------------------------------------------------------------------------
(***************************************************************************)
(* The ring buffer.                                                        *)
(***************************************************************************)
\* The distance between the pointers counts the bytes, and fifo_isfull and
\* fifo_isempty are its two extremes
LEMMA CountBounds ==
  ASSUME NEW V, NEW end \in Nat \ {0}, NEW f \in FifoOf(V, end)
  PROVE  /\ Count(f) \in 0 .. end
         /\ fifo_isempty(f) <=> Count(f) = 0
         /\ fifo_isfull(f) <=> Count(f) = end
  BY SMT DEF FifoOf, Count, fifo_isempty, fifo_isfull

\* The places of the bytes are inside the buffer.
LEMMA PlaceInRange ==
  ASSUME NEW V, NEW end \in Nat \ {0}, NEW f \in FifoOf(V, end),
         NEW i \in 1 .. Count(f)
  PROVE  Place(f, i) \in 0 .. end
  BY SMT DEF FifoOf, Count, Place

\* What a buffer holds is a sequence of its values.
LEMMA ContentsType ==
  ASSUME NEW V, NEW end \in Nat \ {0}, NEW f \in FifoOf(V, end)
  PROVE  Contents(f) \in Seq(V) /\ Len(Contents(f)) = Count(f)
<1>1. Count(f) \in Nat  BY CountBounds
<1>2. \A i \in 1 .. Count(f) : f.buf[Place(f, i)] \in V
  BY PlaceInRange DEF FifoOf
<1> QED  BY <1>1, <1>2, IsASeq, LenProperties DEF Contents

\* A push appends
LEMMA PushAppends ==
  ASSUME NEW V, NEW end \in Nat \ {0}, NEW f \in FifoOf(V, end), NEW c \in V,
         ~fifo_isfull(f)
  PROVE  /\ fifo_push(f, c) \in FifoOf(V, end)
         /\ Contents(fifo_push(f, c)) = Append(Contents(f), c)
<1> DEFINE g == fifo_push(f, c)
<1>1. g \in FifoOf(V, end)
  <2>1. After(f, f.tail) \in 0 .. end  BY SMT DEF After, FifoOf
  <2>2. [f.buf EXCEPT ![f.tail] = c] \in [0 .. end -> V]
    BY Zenon DEF FifoOf
  <2> HIDE DEF g
  <2>3. \A b \in [0 .. end -> V], t \in 0 .. end :
          [f EXCEPT !.buf = b, !.tail = t] \in FifoOf(V, end)
    BY DEF FifoOf
  <2> QED  BY <2>1, <2>2, <2>3 DEF g, fifo_push
<1>2. Count(g) = Count(f) + 1
  BY SMT DEF fifo_push, After, FifoOf, Count, fifo_isfull
<1>3. \A i \in 1 .. Count(f) :
        Place(g, i) = Place(f, i) /\ Place(f, i) # f.tail
  BY SMT DEF fifo_push, After, FifoOf, Count, Place
<1>4. Place(g, Count(f) + 1) = f.tail
  BY SMT DEF fifo_push, After, FifoOf, Count, Place, fifo_isfull
<1>5. \A i \in 1 .. Count(f) : g.buf[Place(g, i)] = f.buf[Place(f, i)]
  BY <1>3, PlaceInRange, SMT DEF fifo_push, FifoOf
<1>6. g.buf[Place(g, Count(f) + 1)] = c
  BY <1>4, SMT DEF fifo_push, FifoOf
<1>7. Contents(f) \in Seq(V) /\ Len(Contents(f)) = Count(f)
  BY ContentsType
<1>8. Contents(g) \in Seq(V) /\ Len(Contents(g)) = Count(f) + 1
  BY <1>1, <1>2, ContentsType
<1>9. /\ Append(Contents(f), c) \in Seq(V)
      /\ Len(Append(Contents(f), c)) = Count(f) + 1
      /\ Append(Contents(f), c)[Count(f) + 1] = c
      /\ \A i \in 1 .. Count(f) : Append(Contents(f), c)[i] = Contents(f)[i]
  BY <1>7, AppendProperties
<1>10. \A i \in 1 .. Count(f) + 1 :
         Contents(g)[i] = Append(Contents(f), c)[i]
  <2> SUFFICES ASSUME NEW i \in 1 .. Count(f) + 1
               PROVE  Contents(g)[i] = Append(Contents(f), c)[i]
    OBVIOUS
  <2>1. Contents(g)[i] = g.buf[Place(g, i)]
    BY <1>2 DEF Contents
  <2>2. CASE i = Count(f) + 1  BY <2>1, <2>2, <1>6, <1>9
  <2>3. CASE i \in 1 .. Count(f)
    <3>1. Contents(f)[i] = f.buf[Place(f, i)]  BY <2>3 DEF Contents
    <3> QED  BY <2>1, <2>3, <3>1, <1>5, <1>9
  <2>4. i = Count(f) + 1 \/ i \in 1 .. Count(f)  BY CountBounds
  <2> QED  BY <2>2, <2>3, <2>4
<1>11. Contents(g) = Append(Contents(f), c)
  BY <1>8, <1>9, <1>10, SeqEqual
<1> QED  BY <1>1, <1>11

\* A pop returns the head and leaves the tail
LEMMA PopTakesHead ==
  ASSUME NEW V, NEW end \in Nat \ {0}, NEW f \in FifoOf(V, end),
         ~fifo_isempty(f)
  PROVE  /\ fifo_pop(f) \in FifoOf(V, end)
         /\ fifo_first(f) \in V
         /\ Contents(f) # <<>>
         /\ fifo_first(f) = Head(Contents(f))
         /\ Contents(fifo_pop(f)) = Tail(Contents(f))
<1> DEFINE g == fifo_pop(f)
<1>1. g \in FifoOf(V, end) /\ fifo_first(f) \in V
  BY SMT DEF fifo_pop, fifo_first, After, FifoOf
<1>2. Count(f) \in Nat \ {0} /\ Count(g) = Count(f) - 1
  BY SMT DEF fifo_pop, After, FifoOf, Count, fifo_isempty
<1>3. \A i \in 1 .. Count(g) : Place(g, i) = Place(f, i + 1)
  BY SMT DEF fifo_pop, After, FifoOf, Count, Place
<1>4. g.buf = f.buf
  BY DEF fifo_pop, FifoOf
<1>5. Contents(f) \in Seq(V) /\ Len(Contents(f)) = Count(f)
  BY ContentsType
<1>6. Contents(g) \in Seq(V) /\ Len(Contents(g)) = Count(f) - 1
  BY <1>1, <1>2, ContentsType
<1>7. Contents(f) # <<>>
  BY <1>2, <1>5, EmptySeq
<1>8. Head(Contents(f)) = fifo_first(f)
  <2>1. Contents(f)[1] = f.buf[Place(f, 1)]
    BY <1>2, SMT DEF Contents
  <2>2. Place(f, 1) = f.head
    BY SMT DEF FifoOf, Place
  <2> QED  BY <2>1, <2>2, <1>5, <1>7, HeadTailProperties DEF fifo_first
<1>9. /\ Tail(Contents(f)) \in Seq(V)
      /\ Len(Tail(Contents(f))) = Count(f) - 1
      /\ \A i \in 1 .. Count(f) - 1 :
           Tail(Contents(f))[i] = Contents(f)[i + 1]
  BY <1>5, <1>7, HeadTailProperties
<1>10. \A i \in 1 .. Count(f) - 1 : Contents(g)[i] = Tail(Contents(f))[i]
  <2> SUFFICES ASSUME NEW i \in 1 .. Count(f) - 1
               PROVE  Contents(g)[i] = Tail(Contents(f))[i]
    OBVIOUS
  <2>1. Contents(g)[i] = g.buf[Place(g, i)]
    BY <1>2 DEF Contents
  <2>2. i + 1 \in 1 .. Count(f)  BY <1>2
  <2>3. Contents(f)[i + 1] = f.buf[Place(f, i + 1)]
    BY <2>2 DEF Contents
  <2> QED  BY <2>1, <2>3, <1>2, <1>3, <1>4, <1>9
<1>11. Contents(g) = Tail(Contents(f))
  BY <1>6, <1>9, <1>10, SeqEqual
<1> QED  BY <1>1, <1>7, <1>8, <1>11

\* A flush forgets everything
LEMMA FlushEmpties ==
  ASSUME NEW V, NEW end \in Nat \ {0}, NEW f \in FifoOf(V, end)
  PROVE  /\ fifo_flush(f) \in FifoOf(V, end)
         /\ Contents(fifo_flush(f)) = <<>>
<1>1. fifo_flush(f) \in FifoOf(V, end)
  BY DEF FifoOf, fifo_flush
<1>2. Count(fifo_flush(f)) = 0
  BY SMT DEF FifoOf, fifo_flush, Count
<1> QED  BY <1>1, <1>2, ContentsType, EmptySeq

-----------------------------------------------------------------------------
(***************************************************************************)
(* The port.                                                               *)
(***************************************************************************)
LEMMA Sizes ==
  /\ RxEnd \in Nat \ {0} /\ TxEnd \in Nat \ {0} /\ MaxLines \in Nat \ {0}
  /\ LineLength \in 0 .. LineLength /\ 0 \in 0 .. LineLength
  /\ 1 \in 0 .. LineLength /\ 1 \in Line
  BY SizesAssumption DEF Line

\* What is sent to the port is made of bytes
LEMMA LinesType ==
  ASSUME NEW n \in Line
  PROVE  TypedLine(n) \in Seq(Byte) /\ AnswerTo(n) \in Seq(Byte)
<1>1. \A i \in 1 .. LineLength + 1 :
        [of |-> n, nr |-> IF i <= LineLength THEN i ELSE 0] \in Byte
  BY SizesAssumption DEF Byte
<1>2. LineLength + 1 \in Nat
  BY SizesAssumption
<1>3. TypedLine(n) \in Seq(Byte)
  BY <1>1, <1>2 DEF TypedLine
<1>4. AnswerTo(n) \in Seq(Byte)
  BY Sizes DEF AnswerTo, Byte
<1> QED  BY <1>3, <1>4

\* The buffers are empty at boot.
LEMMA BlankType ==
  ASSUME NEW end \in Nat \ {0}
  PROVE  Blank(end) \in FifoOf(Byte, end) /\ Contents(Blank(end)) = <<>>
<1>1. [of |-> 1, nr |-> 0] \in Byte
  BY Sizes DEF Byte
<1>2. Blank(end) \in FifoOf(Byte, end)
  BY <1>1 DEF Blank, FifoOf
<1>3. Count(Blank(end)) = 0
  BY DEF Blank, Count
<1> QED  BY <1>2, <1>3, ContentsType, EmptySeq

\* A byte that leaves the transmitter may be answered
LEMMA HearsType ==
  ASSUME wire \in Seq(Byte), NEW c \in Byte, Hears(c)
  PROVE  /\ wire' \in Seq(Byte)
         /\ \E more \in Seq(Byte) : wire' = wire \o more
<1>1. c.of \in Line  BY DEF Byte
<1>2. AnswerTo(c.of) \in Seq(Byte)  BY <1>1, LinesType
<1>3. <<>> \in Seq(Byte) /\ wire \o <<>> = wire
  BY EmptySeq, ConcatEmptySeq
<1>4. wire' = wire \/ wire' = wire \o AnswerTo(c.of)
  BY DEF Hears
<1>5. wire \o AnswerTo(c.of) \in Seq(Byte)
  BY <1>2, ConcatProperties
<1> QED  BY <1>2, <1>3, <1>4, <1>5

\* The byte after one of a command is a byte of that command.
LEMMA NextByteType ==
  ASSUME put \in Byte, line \in Seq(Byte), NextByte
  PROVE  /\ put' \in Byte /\ line' \in Seq(Byte) /\ pc' \in {"get", "put"}
<1>1. CASE Ends(put)
  BY <1>1, EmptySeq DEF NextByte
<1>2. CASE ~Ends(put)
  <2>1. put.of \in Line /\ put.nr \in 0 .. LineLength
    BY DEF Byte
  <2>2. (IF put.nr = LineLength THEN 0 ELSE put.nr + 1) \in 0 .. LineLength
    BY <2>1, SizesAssumption
  <2>3. put' = [put EXCEPT !.nr = IF put.nr = LineLength THEN 0 ELSE put.nr + 1]
    BY <1>2 DEF NextByte
  <2>4. \A k \in 0 .. LineLength : [put EXCEPT !.nr = k] \in Byte
    BY DEF Byte
  <2> QED  BY <1>2, <2>2, <2>3, <2>4 DEF NextByte
<1> QED  BY <1>1, <1>2

\* The invariant holds at boot.
LEMMA InitEstablishes == Init => PortInv
<1> SUFFICES ASSUME Init PROVE PortInv
  OBVIOUS
<1>1. rx \in FifoOf(Byte, RxEnd) /\ tx \in FifoOf(Byte, TxEnd)
  BY Sizes, BlankType DEF Init
<1>2. put \in Byte /\ <<>> \in Seq(Byte)
  BY Sizes, EmptySeq DEF Init, Byte
<1>3. 0 \in 0 .. MaxLines
  BY Sizes
<1>4. TypeOK
  BY <1>1, <1>2, <1>3 DEF Init, TypeOK
<1> QED  BY <1>4 DEF Init, PortInv, FifoCallsDefined

\* The receive interrupt keeps it: a byte more never undoes a test for one.
LEMMA RxInterruptKeeps == PortInv /\ RxInterrupt => PortInv'
<1> SUFFICES ASSUME PortInv, RxInterrupt PROVE PortInv'
  OBVIOUS
<1>0. TypeOK /\ FifoCallsDefined
  BY DEF PortInv
<1>1. wire \in Seq(Byte) /\ wire # <<>>
  BY <1>0 DEF TypeOK, RxInterrupt
<1>2. Head(wire) \in Byte /\ wire' \in Seq(Byte)
  BY <1>1, HeadTailProperties DEF RxInterrupt
<1>3. /\ rx' \in FifoOf(Byte, RxEnd)
      /\ ~fifo_isempty(rx) => ~fifo_isempty(rx')
  <2>1. CASE fifo_isfull(rx)
    BY <2>1, <1>0 DEF RxInterrupt, TypeOK
  <2>2. CASE ~fifo_isfull(rx)
    <3>1. rx' = fifo_push(rx, Head(wire))
      BY <2>2 DEF RxInterrupt
    <3>2. rx \in FifoOf(Byte, RxEnd)
      BY <1>0 DEF TypeOK
    <3>3. rx' \in FifoOf(Byte, RxEnd)
      BY <3>1, <3>2, <1>2, <2>2, Sizes, PushAppends
    <3>4. ~fifo_isempty(rx')
      BY <3>1, <3>2, <2>2, Sizes, SMT
      DEF FifoOf, fifo_push, fifo_isempty, fifo_isfull, After
    <3> QED  BY <3>3, <3>4
  <2> QED  BY <2>1, <2>2
<1>4. status' \in BOOLEAN /\ lost' \in BOOLEAN /\ (status => status')
  BY <1>0 DEF TypeOK, RxInterrupt
<1>5. TypeOK'
  BY <1>0, <1>2, <1>3, <1>4 DEF TypeOK, RxInterrupt, sender
<1>6. FifoCallsDefined'
  BY <1>0, <1>3 DEF FifoCallsDefined, RxInterrupt, sender
<1> QED  BY <1>3, <1>4, <1>5, <1>6 DEF PortInv, RxInterrupt

\* So does the transmit interrupt: a byte less never undoes a test for room.
LEMMA TxInterruptKeeps == PortInv /\ TxInterrupt => PortInv'
<1> SUFFICES ASSUME PortInv, TxInterrupt PROVE PortInv'
  OBVIOUS
<1>0. TypeOK /\ FifoCallsDefined /\ tx \in FifoOf(Byte, TxEnd)
  BY DEF PortInv, TypeOK
<1>1. CASE fifo_isempty(tx)
  BY <1>0, <1>1 DEF PortInv, TypeOK, FifoCallsDefined, TxInterrupt, port, history
<1>2. CASE ~fifo_isempty(tx)
  <2>1. tx' = fifo_pop(tx) /\ Hears(fifo_first(tx))
    BY <1>2 DEF TxInterrupt
  <2>2. tx' \in FifoOf(Byte, TxEnd) /\ fifo_first(tx) \in Byte
    BY <1>0, <1>2, <2>1, Sizes, PopTakesHead
  <2>3. wire' \in Seq(Byte)
    BY <1>0, <2>1, <2>2, HearsType DEF TypeOK
  <2>4. ~fifo_isfull(tx')
    BY <1>0, <1>2, <2>1, Sizes, SMT
    DEF FifoOf, fifo_pop, fifo_isempty, fifo_isfull, After
  <2>5. TypeOK'
    BY <1>0, <1>2, <2>2, <2>3 DEF TypeOK, TxInterrupt, port, history
  <2>6. FifoCallsDefined'
    BY <1>0, <2>4 DEF FifoCallsDefined, TxInterrupt, port
  <2> QED  BY <2>5, <2>6 DEF PortInv, TxInterrupt, port
<1> QED  BY <1>1, <1>2

\* The reader's steps
LEMMA ReaderKeeps ==
  PortInv /\ (GetChar \/ WaitEnds \/ WaitTimesOut \/ TestStatus \/ PopChar)
    => PortInv'
<1> SUFFICES ASSUME PortInv,
                    GetChar \/ WaitEnds \/ WaitTimesOut \/ TestStatus \/ PopChar
             PROVE  PortInv'
  OBVIOUS
<1> USE DEF PortInv, FifoCallsDefined
<1>1. CASE GetChar
  <2>1. TypeOK'  BY <1>1 DEF GetChar, EndOfFile, TypeOK, port, sender
  <2> QED  BY <1>1, <2>1 DEF GetChar, EndOfFile, port, sender
<1>2. CASE WaitEnds
  BY <1>2 DEF WaitEnds, TypeOK, port, sender, history
<1>3. CASE WaitTimesOut
  <2>1. TypeOK'  BY <1>3 DEF WaitTimesOut, EndOfFile, TypeOK, sender
  <2> QED  BY <1>3, <2>1 DEF WaitTimesOut, EndOfFile, sender
<1>4. CASE TestStatus
  <2>1. TypeOK'
    BY <1>4 DEF TestStatus, ErrorFlagged, EndOfFile, TypeOK, port, sender
  <2> QED
    BY <1>4, <2>1 DEF TestStatus, ErrorFlagged, EndOfFile, port, sender
<1>5. CASE PopChar
  <2>1. rx \in FifoOf(Byte, RxEnd) /\ ~fifo_isempty(rx) /\ line \in Seq(Byte)
    BY <1>5 DEF PopChar, TypeOK
  <2>2. rx' \in FifoOf(Byte, RxEnd) /\ fifo_first(rx) \in Byte
    BY <1>5, <2>1, Sizes, PopTakesHead DEF PopChar
  <2>3. Append(line, fifo_first(rx)) \in Seq(Byte)
    BY <2>1, <2>2, AppendProperties
  <2>4. /\ pc' \in {"parse", "get", "settle"} /\ line' \in Seq(Byte)
        /\ lost' \in BOOLEAN /\ gaveUp' \subseteq Line
    <3>1. rxtimeout # 0 => cmd \in Line
      BY <1>5 DEF PopChar
    <3>2. lost' \in BOOLEAN
      BY <1>5 DEF PopChar, TypeOK
    <3> QED  BY <1>5, <2>1, <2>3, <3>1, <3>2 DEF PopChar, LineRead, TypeOK
  <2>5. TypeOK'
    BY <1>5, <2>2, <2>4 DEF PopChar, TypeOK, sender
  <2> QED  BY <1>5, <2>4, <2>5 DEF PopChar, sender
<1> QED  BY <1>1, <1>2, <1>3, <1>4, <1>5

\* The console and its operator
LEMMA ConsoleKeeps ==
  PortInv /\ (OperatorTypes \/ Poll \/ Execute) => PortInv'
<1> SUFFICES ASSUME PortInv, OperatorTypes \/ Poll \/ Execute
             PROVE  PortInv'
  OBVIOUS
<1> USE DEF PortInv, FifoCallsDefined
<1>1. CASE OperatorTypes
  <2>1. cmd + 1 \in Line /\ cmd' \in 0 .. MaxLines
    BY <1>1, SizesAssumption DEF OperatorTypes, TypeOK, Line
  <2>2. wire' \in Seq(Byte)
    BY <1>1, <2>1, LinesType, ConcatProperties DEF OperatorTypes, TypeOK
  <2> QED  BY <1>1, <2>1, <2>2 DEF OperatorTypes, TypeOK, port, sender, history
<1>2. CASE Poll
  <2>1. line' \in Seq(Byte)  BY <1>2, EmptySeq DEF Poll, NewText
  <2> QED  BY <1>2, <2>1 DEF Poll, TypeOK, port, sender, history
<1>3. CASE Execute
  <2>1. \A i \in 1 .. Len(line) : line[i] \in Byte
    BY LenProperties DEF TypeOK
  <2>2. ran' \subseteq Byte
    BY <1>3, <2>1 DEF Execute, TypeOK
  <2> QED  BY <1>3, <2>2 DEF Execute, kfile_clearerr, TypeOK, sender
<1> QED  BY <1>1, <1>2, <1>3

\* The steps of _gsmWriteLine, and the wait after a line
LEMMA WriterKeeps ==
  PortInv /\ (\/ SendCommand \/ PurgeRx \/ PurgeTx \/ Settled \/ PutChar
              \/ PutWaitEnds \/ PutTimesOut \/ PushChar \/ TxStart \/ TxBegin)
    => PortInv'
<1> SUFFICES ASSUME PortInv,
                    \/ SendCommand \/ PurgeRx \/ PurgeTx \/ Settled \/ PutChar
                    \/ PutWaitEnds \/ PutTimesOut \/ PushChar \/ TxStart \/ TxBegin
             PROVE  PortInv'
  OBVIOUS
<1> USE DEF PortInv, FifoCallsDefined
<1>1. CASE SendCommand
  <2>1. cmd' \in Line /\ cmd' \in 0 .. MaxLines /\ put' \in Byte
    BY <1>1, SizesAssumption DEF SendCommand, TypeOK, Line, Byte
  <2> QED  BY <1>1, <2>1 DEF SendCommand, TypeOK, port, sender, history
<1>2. CASE PurgeRx
  <2>1. rx' \in FifoOf(Byte, RxEnd)
    BY <1>2, Sizes, FlushEmpties DEF PurgeRx, ser_purgeRx, TypeOK
  <2> QED  BY <1>2, <2>1 DEF PurgeRx, TypeOK, sender, history
<1>3. CASE PurgeTx
  <2>1. tx' \in FifoOf(Byte, TxEnd)
    BY <1>3, Sizes, FlushEmpties DEF PurgeTx, TypeOK
  <2> QED  BY <1>3, <2>1 DEF PurgeTx, TypeOK, history
<1>4. CASE Settled
  <2>1. line' \in Seq(Byte)  BY <1>4, EmptySeq DEF Settled
  <2> QED  BY <1>4, <2>1 DEF Settled, TypeOK, port, sender, history
<1>5. CASE PutChar
  BY <1>5 DEF PutChar, TypeOK, port, sender, history
<1>6. CASE PutWaitEnds
  BY <1>6 DEF PutWaitEnds, TypeOK, port, sender, history
<1>7. CASE PutTimesOut
  <2>1. put' \in Byte /\ line' \in Seq(Byte) /\ pc' \in {"get", "put"}
    BY <1>7, NextByteType DEF PutTimesOut, TypeOK
  <2> QED  BY <1>7, <2>1 DEF PutTimesOut, TypeOK, port, sender, history
<1>8. CASE PushChar
  <2>1. tx' \in FifoOf(Byte, TxEnd)
    BY <1>8, Sizes, PushAppends DEF PushChar, TypeOK
  <2> QED  BY <1>8, <2>1 DEF PushChar, TypeOK, port, history
<1>9. CASE TxStart
  <2>1. /\ put' \in Byte /\ line' \in Seq(Byte) /\ pc' \in {"get", "put", "begin"}
        /\ sending' \in BOOLEAN /\ txirq' \in BOOLEAN
    BY <1>9, NextByteType DEF TxStart, IfBlock, TypeOK
  <2> QED  BY <1>9, <2>1 DEF TxStart, TypeOK, port, history
<1>10. CASE TxBegin
  <2>1. /\ put' \in Byte /\ line' \in Seq(Byte) /\ pc' \in {"get", "put"}
        /\ sending' \in BOOLEAN /\ txirq' \in BOOLEAN
    BY <1>10, NextByteType DEF TxBegin, IfBlock, TypeOK
  <2> QED  BY <1>10, <2>1 DEF TxBegin, TypeOK, port, history
<1> QED  BY <1>1, <1>2, <1>3, <1>4, <1>5, <1>6, <1>7, <1>8, <1>9, <1>10

\* Nothing happens to it when nothing happens.
LEMMA StutterKeeps == PortInv /\ UNCHANGED vars => PortInv'
  BY DEF PortInv, FifoCallsDefined, TypeOK, vars, port, sender, history

\* The invariant of every behaviour of the port.
LEMMA PortInvHolds == Spec => []PortInv
<1>1. PortInv /\ [Next]_vars => PortInv'
  BY RxInterruptKeeps, TxInterruptKeeps, ReaderKeeps, ConsoleKeeps,
     WriterKeeps, StutterKeeps DEF Next, Interrupt, Client
<1> QED  BY <1>1, InitEstablishes, PTL DEF Spec

\* Every variable of the port and of its clients keeps its type, the pointers
\* their range, whatever the sizes of the buffers.
THEOREM TypeCorrect == Spec => []TypeOK
<1>1. PortInv => TypeOK  BY DEF PortInv
<1> QED  BY <1>1, PortInvHolds, PTL

\* Neither ser_getchar nor ser_putchar ever calls fifo_pop or fifo_push when
\* the call is undefined.
THEOREM FifoCallsAreDefined == Spec => []FifoCallsDefined
<1>1. PortInv => FifoCallsDefined  BY DEF PortInv
<1> QED  BY <1>1, PortInvHolds, PTL

-----------------------------------------------------------------------------
(***************************************************************************)
(* The race of uart1_enabletxirq.                                          *)
(***************************************************************************)
\* hw->sending is never set without the interrupt but between the statements of
\* the if-block, and the interrupt is never enabled without it.
ArmedInv ==
  /\ TransmitterArmed
  /\ sending => txirq \/ pc = "begin"
  /\ txirq => sending
  /\ pc = "begin" => sending /\ ~txirq

\* The interrupt clears both at once, and only when it finds no byte: a byte
\* pushed since finds sending reset, or is found by the next interrupt.
LEMMA ArmedStep == PortInv /\ ArmedInv /\ [Next]_vars => ArmedInv'
<1> SUFFICES ASSUME PortInv, ArmedInv, [Next]_vars PROVE ArmedInv'
  OBVIOUS
<1> USE DEF ArmedInv, TransmitterArmed
<1>1. CASE TxInterrupt
  BY <1>1 DEF TxInterrupt
<1>2. CASE RxInterrupt \/ OperatorTypes
  <2>1. UNCHANGED <<tx, sending, txirq, pc>>
    BY <1>2 DEF RxInterrupt, OperatorTypes, sender
  <2> QED  BY <2>1
<1>3. CASE \/ GetChar \/ WaitEnds \/ WaitTimesOut \/ TestStatus \/ PopChar
           \/ Poll \/ Execute \/ SendCommand \/ PurgeRx \/ Settled \/ PutChar
           \/ PutWaitEnds
  <2>1. UNCHANGED sender
    BY <1>3 DEF GetChar, WaitEnds, WaitTimesOut, TestStatus, PopChar, Poll,
                Execute, SendCommand, PurgeRx, Settled, PutChar, PutWaitEnds
  <2>2. pc \notin {"start", "begin"} /\ pc' # "begin"
    BY <1>3 DEF GetChar, WaitEnds, WaitTimesOut, TestStatus, PopChar, Poll,
                Execute, SendCommand, PurgeRx, Settled, PutChar, PutWaitEnds,
                EndOfFile, LineRead
  <2> QED  BY <2>1, <2>2 DEF sender
<1>4. CASE PurgeTx
  <2>1. fifo_isempty(tx')
    BY <1>4 DEF PurgeTx, fifo_flush, fifo_isempty, PortInv, TypeOK, FifoOf
  <2> QED  BY <1>4, <2>1 DEF PurgeTx
<1>5. CASE PushChar
  BY <1>5 DEF PushChar
<1>6. CASE PutTimesOut
  BY <1>6 DEF PutTimesOut, NextByte, sender
<1>7. CASE TxStart
  BY <1>7 DEF TxStart, IfBlock, NextByte
<1>8. CASE TxBegin
  BY <1>8 DEF TxBegin, IfBlock, NextByte
<1>9. CASE UNCHANGED vars
  BY <1>9 DEF vars, sender
<1> QED
  BY <1>1, <1>2, <1>3, <1>4, <1>5, <1>6, <1>7, <1>8, <1>9
  DEF Next, Interrupt, Client

\* The transmitter is never left stopped with a byte to send, wherever its
\* interrupt comes, for buffers of any size.
THEOREM TransmitterIsArmed == Spec => []TransmitterArmed
<1>1. Init => ArmedInv
  BY DEF Init, ArmedInv, TransmitterArmed, Blank, fifo_isempty
<1>2. ArmedInv => TransmitterArmed
  BY DEF ArmedInv
<1> QED  BY <1>1, <1>2, ArmedStep, PortInvHolds, PTL DEF Spec

-----------------------------------------------------------------------------
(***************************************************************************)
(* The refinement of ByteQueue.                                            *)
(***************************************************************************)
\* More bytes on the wire are a step of the abstract environment
LEMMA MoreIsFeed ==
  ASSUME wire \in Seq(Byte), NEW more \in Seq(Byte), wire' = wire \o more,
         rx' = rx, status' = status
  PROVE  Queue!Feed
<1>1. /\ wire' \in Seq(Byte)
      /\ Len(wire') = Len(wire) + Len(more)
      /\ \A i \in 1 .. Len(wire) + Len(more) :
           wire'[i] = IF i <= Len(wire) THEN wire[i] ELSE more[i - Len(wire)]
  BY ConcatProperties
<1>2. Len(wire) \in Nat /\ Len(more) \in Nat
  BY LenProperties
<1>3. /\ SubSeq(wire', 1, Len(wire)) \in Seq(Byte)
      /\ Len(SubSeq(wire', 1, Len(wire))) = Len(wire)
      /\ \A i \in 1 .. Len(wire) : SubSeq(wire', 1, Len(wire))[i] = wire[i]
  BY <1>1, <1>2, SubSeqProperties
<1>4. SubSeq(wire', 1, Len(wire)) = wire
  BY <1>3, SeqEqual
<1> QED  BY <1>1, <1>2, <1>4 DEF Queue!Feed

\* A byte received is one that arrives at the queue, or is dropped from it.
LEMMA RxInterruptArrives == PortInv /\ RxInterrupt => Queue!Arrive
<1> SUFFICES ASSUME PortInv, RxInterrupt PROVE Queue!Arrive
  OBVIOUS
<1>1. rx \in FifoOf(Byte, RxEnd) /\ wire \in Seq(Byte) /\ status \in BOOLEAN
  BY DEF PortInv, TypeOK
<1>2. Len(Contents(rx)) = Count(rx) /\ Count(rx) \in 0 .. RxEnd
  BY <1>1, Sizes, ContentsType, CountBounds
<1>3. CASE fifo_isfull(rx)
  <2>1. Len(Contents(rx)) = RxEnd
    BY <1>1, <1>2, <1>3, Sizes, CountBounds
  <2> QED  BY <1>3, <2>1 DEF RxInterrupt, Queue!Arrive
<1>4. CASE ~fifo_isfull(rx)
  <2>1. Len(Contents(rx)) < RxEnd
    BY <1>1, <1>2, <1>4, Sizes, CountBounds
  <2>2. Head(wire) \in Byte
    BY <1>1, HeadTailProperties DEF RxInterrupt
  <2>3. Contents(rx') = Append(Contents(rx), Head(wire))
    BY <1>1, <1>4, <2>2, Sizes, PushAppends DEF RxInterrupt
  <2> QED  BY <1>4, <2>1, <2>3 DEF RxInterrupt, Queue!Arrive
<1> QED  BY <1>3, <1>4

\* An interrupt is a step of the queue or none.
LEMMA InterruptStep ==
  PortInv /\ (TxInterrupt \/ OperatorTypes)
    => Queue!Feed \/ UNCHANGED Queue!queueVars
<1> SUFFICES ASSUME PortInv, TxInterrupt \/ OperatorTypes
             PROVE  Queue!Feed \/ UNCHANGED Queue!queueVars
  OBVIOUS
<1>0. wire \in Seq(Byte) /\ tx \in FifoOf(Byte, TxEnd) /\ cmd \in 0 .. MaxLines
  BY DEF PortInv, TypeOK
<1>1. CASE TxInterrupt
  <2>1. rx' = rx /\ status' = status
    BY <1>1 DEF TxInterrupt, port
  <2>2. CASE fifo_isempty(tx)
    BY <1>1, <2>1, <2>2 DEF TxInterrupt, Queue!queueVars
  <2>3. CASE ~fifo_isempty(tx)
    <3>1. fifo_first(tx) \in Byte
      BY <1>0, <2>3, Sizes, PopTakesHead
    <3>2. PICK more \in Seq(Byte) : wire' = wire \o more
      BY <1>0, <1>1, <2>3, <3>1, HearsType DEF TxInterrupt
    <3> QED  BY <1>0, <2>1, <3>2, MoreIsFeed
  <2> QED  BY <2>2, <2>3
<1>2. CASE OperatorTypes
  <2>1. cmd + 1 \in Line
    BY <1>0, <1>2, SizesAssumption DEF OperatorTypes, Line
  <2>2. TypedLine(cmd + 1) \in Seq(Byte)
    BY <2>1, LinesType
  <2> QED  BY <1>0, <1>2, <2>2, MoreIsFeed DEF OperatorTypes, port
<1> QED  BY <1>1, <1>2

\* A statement of a client is a step of the queue or none.
LEMMA ClientStep ==
  PortInv /\ Client
    => \/ Queue!Take \/ Queue!Discard \/ Queue!SetError
       \/ UNCHANGED Queue!queueVars
<1> SUFFICES ASSUME PortInv, Client
             PROVE  \/ Queue!Take \/ Queue!Discard \/ Queue!SetError
                    \/ UNCHANGED Queue!queueVars
  OBVIOUS
<1>0. rx \in FifoOf(Byte, RxEnd)
  BY DEF PortInv, TypeOK
<1>1. CASE PopChar
  <2>1. ~fifo_isempty(rx)
    BY <1>1 DEF PortInv, FifoCallsDefined, PopChar
  <2>2. Contents(rx) # <<>> /\ Contents(rx') = Tail(Contents(rx))
    BY <1>0, <1>1, <2>1, Sizes, PopTakesHead DEF PopChar
  <2> QED  BY <1>1, <2>2 DEF PopChar, Queue!Take
<1>2. CASE PurgeRx
  <2>1. Contents(rx') = <<>>
    BY <1>0, <1>2, Sizes, FlushEmpties DEF PurgeRx, ser_purgeRx
  <2> QED  BY <1>2, <2>1 DEF PurgeRx, Queue!Discard
<1>3. CASE Execute \/ PurgeTx \/ WaitTimesOut
  BY <1>3 DEF Execute, kfile_clearerr, PurgeTx, WaitTimesOut, Queue!SetError
<1>4. CASE \/ Poll \/ SendCommand \/ Settled \/ PutChar \/ PutWaitEnds
           \/ PutTimesOut \/ PushChar \/ TxStart \/ TxBegin
           \/ GetChar \/ WaitEnds \/ TestStatus
  BY <1>4 DEF Poll, SendCommand, Settled, PutChar, PutWaitEnds, PutTimesOut,
              PushChar, TxStart, TxBegin, GetChar, WaitEnds, TestStatus, port,
              Queue!queueVars
<1> QED  BY <1>1, <1>2, <1>3, <1>4 DEF Client

\* The port with its ring buffer is a queue of bytes that drops only what does
\* not fit, whatever the interleaving, for buffers of any size.
THEOREM PortIsAQueue == Spec => PortImplementsQueue
<1>1. Init => Queue!QueueInit
  BY Sizes, BlankType DEF Init, Queue!QueueInit
<1>2. PortInv /\ [Next]_vars => [Queue!QueueNext]_(Queue!queueVars)
  <2>1. PortInv /\ Next => Queue!QueueNext \/ UNCHANGED Queue!queueVars
    BY RxInterruptArrives, InterruptStep, ClientStep
    DEF Next, Interrupt, Queue!QueueNext
  <2>2. UNCHANGED vars => UNCHANGED Queue!queueVars
    BY DEF vars, port, Queue!queueVars
  <2> QED  BY <2>1, <2>2
<1> QED
  BY <1>1, <1>2, PortInvHolds, PTL
  DEF Spec, PortImplementsQueue, Queue!QueueSpec
-----------------------------------------------------------------------------
(***************************************************************************)
(* Whose bytes are where.                                                  *)
(***************************************************************************)
Bytes(s) == {s[i] : i \in 1 .. Len(s)}

\* The bytes of what the operations on sequences make.
LEMMA BytesFacts ==
  ASSUME NEW V, NEW s \in Seq(V)
  PROVE  /\ Bytes(<<>>) = {}
         /\ Bytes(s) \subseteq V
         /\ \A c \in V : Bytes(Append(s, c)) = Bytes(s) \cup {c}
         /\ \A t \in Seq(V) : Bytes(s \o t) = Bytes(s) \cup Bytes(t)
         /\ s # <<>> => Bytes(s) = {Head(s)} \cup Bytes(Tail(s))
<1>0. Len(s) \in Nat /\ \A i \in 1 .. Len(s) : s[i] \in V
  BY LenProperties
<1>1. Bytes(<<>>) = {}
  BY DEF Bytes
<1>2. Bytes(s) \subseteq V
  BY <1>0 DEF Bytes
<1>3. ASSUME NEW c \in V PROVE Bytes(Append(s, c)) = Bytes(s) \cup {c}
  <2>1. /\ Len(Append(s, c)) = Len(s) + 1
        /\ \A i \in 1 .. Len(s) : Append(s, c)[i] = s[i]
        /\ Append(s, c)[Len(s) + 1] = c
    BY AppendProperties
  <2>2. 1 .. Len(s) + 1 = (1 .. Len(s)) \cup {Len(s) + 1}
    BY <1>0
  <2> QED  BY <2>1, <2>2 DEF Bytes
<1>4. ASSUME NEW t \in Seq(V) PROVE Bytes(s \o t) = Bytes(s) \cup Bytes(t)
  <2>1. /\ Len(s \o t) = Len(s) + Len(t) /\ Len(t) \in Nat
        /\ \A i \in 1 .. Len(s) + Len(t) :
             (s \o t)[i] = IF i <= Len(s) THEN s[i] ELSE t[i - Len(s)]
    BY ConcatProperties, LenProperties
  <2>2. \A i \in 1 .. Len(s) : i \in 1 .. Len(s) + Len(t) /\ (s \o t)[i] = s[i]
    BY <1>0, <2>1
  <2>3. \A i \in 1 .. Len(t) :
          Len(s) + i \in 1 .. Len(s) + Len(t) /\ (s \o t)[Len(s) + i] = t[i]
    BY <1>0, <2>1
  <2>4. \A i \in 1 .. Len(s) + Len(t) :
          i \in 1 .. Len(s) \/ (i - Len(s) \in 1 .. Len(t) /\ (s \o t)[i] = t[i - Len(s)])
    BY <1>0, <2>1
  <2> HIDE DEF Bytes
  <2>5. \A b : b \in Bytes(s \o t) <=> \E i \in 1 .. Len(s) + Len(t) : (s \o t)[i] = b
    BY <2>1 DEF Bytes
  <2>6. /\ \A b : b \in Bytes(s) <=> \E i \in 1 .. Len(s) : s[i] = b
        /\ \A b : b \in Bytes(t) <=> \E i \in 1 .. Len(t) : t[i] = b
    BY DEF Bytes
  <2>7. \A i \in 1 .. Len(s) : (s \o t)[i] = s[i] /\ i \in 1 .. Len(s) + Len(t)
    BY <2>2
  <2>8. ASSUME NEW b PROVE b \in Bytes(s \o t) => b \in Bytes(s) \cup Bytes(t)
    BY <2>4, <2>5, <2>6, <2>7
  <2>9. ASSUME NEW b PROVE b \in Bytes(s) \cup Bytes(t) => b \in Bytes(s \o t)
    BY <2>3, <2>5, <2>6, <2>7
  <2> QED  BY <2>8, <2>9
<1>5. ASSUME s # <<>> PROVE Bytes(s) = {Head(s)} \cup Bytes(Tail(s))
  <2>1. /\ Len(Tail(s)) = Len(s) - 1 /\ Head(s) = s[1] /\ Len(s) # 0
        /\ \A i \in 1 .. Len(s) - 1 : Tail(s)[i] = s[i + 1]
    BY <1>5, HeadTailProperties, EmptySeq
  <2>2. \A i \in 1 .. Len(s) : i = 1 \/ (i - 1 \in 1 .. Len(s) - 1 /\ i - 1 + 1 = i)
    BY <1>0
  <2>3. 1 \in 1 .. Len(s) /\ \A i \in 1 .. Len(s) - 1 : i + 1 \in 1 .. Len(s)
    BY <1>0, <2>1
  <2>4. \A b : b \in Bytes(s) <=> \E i \in 1 .. Len(s) : b = s[i]
    BY DEF Bytes
  <2>5. \A b : b \in Bytes(Tail(s)) <=> \E i \in 1 .. Len(s) - 1 : b = Tail(s)[i]
    BY <2>1 DEF Bytes
  <2>6. ASSUME NEW i \in 1 .. Len(s) PROVE s[i] \in {Head(s)} \cup Bytes(Tail(s))
    <3>1. CASE i = 1
      BY <3>1, <2>1
    <3>2. CASE i - 1 \in 1 .. Len(s) - 1 /\ i - 1 + 1 = i
      <4>1. Tail(s)[i - 1] = s[i]
        BY <3>2, <2>1
      <4> QED  BY <3>2, <4>1, <2>5
    <3> QED  BY <3>1, <3>2, <2>2
  <2>7. ASSUME NEW b \in Bytes(Tail(s)) PROVE b \in Bytes(s)
    <3>1. PICK i \in 1 .. Len(s) - 1 : b = Tail(s)[i]
      BY <2>5
    <3> QED  BY <3>1, <2>1, <2>3, <2>4
  <2>8. Head(s) \in Bytes(s)
    BY <2>1, <2>3, <2>4
  <2> QED  BY <2>4, <2>6, <2>7, <2>8
<1> QED  BY <1>1, <1>2, <1>3, <1>4, <1>5

\* e is in the sequence once at most
Once(s, e) == \A i, j \in 1 .. Len(s) : s[i] = e /\ s[j] = e => i = j

\* It stays so when the first is taken and when another is added.
LEMMA OnceFacts ==
  ASSUME NEW V, NEW s \in Seq(V), NEW e
  PROVE  /\ Once(<<>>, e)
         /\ s # <<>> /\ Once(s, e) =>
              Once(Tail(s), e) /\ (Head(s) = e => e \notin Bytes(Tail(s)))
         /\ \A c \in V : Once(s, e) /\ (c = e => e \notin Bytes(s)) =>
              Once(Append(s, c), e)
<1>0. Len(s) \in Nat
  BY LenProperties
<1>1. Once(<<>>, e)
  BY DEF Once
<1>2. ASSUME s # <<>>, Once(s, e)
      PROVE  Once(Tail(s), e) /\ (Head(s) = e => e \notin Bytes(Tail(s)))
  <2>1. /\ Len(Tail(s)) = Len(s) - 1 /\ Head(s) = s[1] /\ Len(s) # 0
        /\ \A i \in 1 .. Len(s) - 1 : Tail(s)[i] = s[i + 1]
    BY <1>2, HeadTailProperties, EmptySeq
  <2>2. 1 \in 1 .. Len(s) /\ \A i \in 1 .. Len(s) - 1 : i + 1 \in 1 .. Len(s)
    BY <1>0, <2>1
  <2>3. \A i, j \in 1 .. Len(s) - 1 : Tail(s)[i] = e /\ Tail(s)[j] = e => i + 1 = j + 1
    BY <1>2, <2>1, <2>2 DEF Once
  <2>4. \A i \in 1 .. Len(s) - 1 : Head(s) = e /\ Tail(s)[i] = e => i + 1 = 1
    BY <1>2, <2>1, <2>2 DEF Once
  <2> QED  BY <1>0, <2>1, <2>3, <2>4 DEF Once, Bytes
<1>3. ASSUME NEW c \in V, Once(s, e), c = e => e \notin Bytes(s)
      PROVE  Once(Append(s, c), e)
  <2>1. /\ Len(Append(s, c)) = Len(s) + 1
        /\ \A i \in 1 .. Len(s) : Append(s, c)[i] = s[i]
        /\ Append(s, c)[Len(s) + 1] = c
    BY AppendProperties
  <2>2. \A i \in 1 .. Len(s) + 1 : i \in 1 .. Len(s) \/ i = Len(s) + 1
    BY <1>0
  <2> QED  BY <1>3, <2>1, <2>2 DEF Once, Bytes
<1> QED  BY <1>1, <1>2, <1>3

-----------------------------------------------------------------------------
(***************************************************************************)
(* The answers of the modem: the numbers of the commands whose bytes are   *)
(* in the transmitter, on the wire, in the receive buffer and in the line. *)
(***************************************************************************)
Of(s) == {b.of : b \in Bytes(s)}
EndOf(k) == [of |-> k, nr |-> 0]

Sending  == Bytes(Contents(tx))
Arriving == Of(wire)
Buffered == Of(Contents(rx))
Stored   == Of(line)

\* The last command is not sent to its end.
Writing == \/ pc \in {"purge", "clear", "put", "full", "push"}
           \/ pc \in {"start", "begin"} /\ ~Ends(put)

\* No answer to k will come any more, and none that came is read.
Over(k) ==
  /\ EndOf(k) \notin Sending /\ k \notin Arriving
  /\ pc \notin {"idle", "purge"} => k \notin Buffered

\* The modem answers a command when the last byte of it has left: until then
\* nothing of the answer is anywhere.  A command that was not given up is over.
AnswerInv ==
  /\ pc # "parse" /\ (pc # "idle" => put.of = cmd)
  /\ \A b \in Sending : b.of <= cmd
  /\ \A k \in Arriving \cup Buffered \cup Stored : k <= cmd
  /\ Once(Contents(tx), EndOf(cmd))
  /\ \/ EndOf(cmd) \notin Sending
     \/ ~Writing /\ cmd \notin Arriving \cup Buffered \cup Stored
  /\ Writing => cmd \notin Arriving \cup Buffered \cup Stored
  /\ \A k \in Line \ gaveUp : k < cmd \/ (k = cmd /\ pc = "idle") => Over(k)
  /\ pc \in {"get", "wait", "take", "pop", "settle"} => Stored \subseteq gaveUp \cup {cmd}
  /\ pc = "settle" => cmd \in gaveUp \/ cmd \in Stored

\* The numbers of what is read: lines of commands.
LEMMA AnswerTypes ==
  ASSUME PortInv
  PROVE  /\ cmd \in Nat /\ rxtimeout \in {0, 1} /\ put \in Byte
         /\ rx \in FifoOf(Byte, RxEnd) /\ tx \in FifoOf(Byte, TxEnd)
         /\ Contents(rx) \in Seq(Byte) /\ Contents(tx) \in Seq(Byte)
         /\ wire \in Seq(Byte) /\ line \in Seq(Byte)
         /\ Sending \subseteq Byte
         /\ Arriving \subseteq Line /\ Buffered \subseteq Line /\ Stored \subseteq Line
<1>1. TypeOK
  BY DEF PortInv
<1>2. /\ cmd \in Nat /\ rxtimeout \in {0, 1} /\ put \in Byte
      /\ rx \in FifoOf(Byte, RxEnd) /\ tx \in FifoOf(Byte, TxEnd)
      /\ wire \in Seq(Byte) /\ line \in Seq(Byte)
  BY <1>1, Sizes DEF TypeOK
<1>3. Contents(rx) \in Seq(Byte) /\ Contents(tx) \in Seq(Byte)
  BY <1>2, Sizes, ContentsType
<1>4. \A s \in Seq(Byte) : Bytes(s) \subseteq Byte
  BY BytesFacts
<1>5. \A s \in Seq(Byte) : Of(s) \subseteq Line
  BY <1>4 DEF Of, Byte
<1> QED  BY <1>2, <1>3, <1>4, <1>5 DEF Sending, Arriving, Buffered, Stored

\* The numbers in an answer, and in sequences that grow and shrink.
LEMMA OfFacts ==
  ASSUME NEW s \in Seq(Byte)
  PROVE  /\ Of(<<>>) = {}
         /\ \A c \in Byte : Of(Append(s, c)) = Of(s) \cup {c.of}
         /\ \A t \in Seq(Byte) : Of(s \o t) = Of(s) \cup Of(t)
         /\ s # <<>> => Of(s) = {Head(s).of} \cup Of(Tail(s))
BY BytesFacts DEF Of

\* An answer is of its command.
LEMMA AnswerOf ==
  ASSUME NEW n \in Line
  PROVE  Of(AnswerTo(n)) = {n}
<1>1. Len(AnswerTo(n)) = 4 /\ \A i \in 1 .. 4 : AnswerTo(n)[i].of = n
  BY DEF AnswerTo
<1> QED  BY <1>1 DEF Of, Bytes

\* A received byte moves from the wire to the buffer, or is lost.
LEMMA RxMoves ==
  ASSUME PortInv, RxInterrupt
  PROVE  /\ Arriving' \subseteq Arriving
         /\ Buffered' \subseteq Buffered \cup Arriving
         /\ UNCHANGED <<tx, line, pc, put, cmd, gaveUp>>
<1>1. wire # <<>> /\ wire' = Tail(wire)
  BY DEF RxInterrupt
<1>2. Arriving = {Head(wire).of} \cup Arriving' /\ Head(wire) \in Byte
  BY <1>1, AnswerTypes, OfFacts, HeadTailProperties DEF Arriving
<1>3. Buffered' \subseteq Buffered \cup {Head(wire).of}
  <2>1. CASE rx' = rx
    BY <2>1 DEF Buffered
  <2>2. CASE ~fifo_isfull(rx) /\ rx' = fifo_push(rx, Head(wire))
    <3>1. Contents(rx') = Append(Contents(rx), Head(wire))
      BY <1>2, <2>2, Sizes, AnswerTypes, PushAppends
    <3> QED  BY <1>2, <3>1, AnswerTypes, OfFacts DEF Buffered
  <2> QED  BY <2>1, <2>2 DEF RxInterrupt
<1>4. UNCHANGED <<tx, line, pc, put, cmd, gaveUp>>
  BY DEF RxInterrupt, sender
<1> QED  BY <1>2, <1>3, <1>4

\* A sent byte leaves the transmitter, and an answer comes only with the end
\* of its command.
LEMMA TxMoves ==
  ASSUME PortInv, TxInterrupt
  PROVE  /\ Sending' \subseteq Sending
         /\ \A k \in Arriving' : k \in Arriving \/ EndOf(k) \in Sending
         /\ Once(Contents(tx), EndOf(cmd)) =>
              /\ Once(Contents(tx'), EndOf(cmd))
              /\ cmd \in Arriving' => cmd \in Arriving \/ EndOf(cmd) \notin Sending'
         /\ UNCHANGED <<rx, line, pc, put, cmd, gaveUp>>
<1>1. UNCHANGED <<rx, line, pc, put, cmd, gaveUp>>
  BY DEF TxInterrupt, port, history
<1>2. CASE fifo_isempty(tx)
  <2>1. tx' = tx /\ wire' = wire
    BY <1>2 DEF TxInterrupt
  <2> QED  BY <1>1, <2>1 DEF Sending, Arriving
<1>3. CASE ~fifo_isempty(tx)
  <2> DEFINE c == fifo_first(tx)
             s == Contents(tx)
  <2>1. tx' = fifo_pop(tx) /\ Hears(c)
    BY <1>3 DEF TxInterrupt
  <2>2. /\ c \in Byte /\ s \in Seq(Byte) /\ s # <<>> /\ c = Head(s)
        /\ Contents(tx') = Tail(s)
    BY <1>3, <2>1, Sizes, AnswerTypes, PopTakesHead
  <2> HIDE DEF c, s
  <2>3. Sending = {c} \cup Sending'
    BY <2>2, BytesFacts DEF Sending, s
  <2>4. /\ Ends(c) => c = EndOf(c.of)
        /\ c.of \in Line
    BY <2>2 DEF Ends, EndOf, Byte
  <2>5. \/ wire' = wire
        \/ Ends(c) /\ wire' = wire \o AnswerTo(c.of)
    BY <2>1 DEF Hears
  <2>6. Arriving' = Arriving \/ (c = EndOf(c.of) /\ Arriving' = Arriving \cup {c.of})
    <3>1. AnswerTo(c.of) \in Seq(Byte) /\ Of(AnswerTo(c.of)) = {c.of}
      BY <2>4, LinesType, AnswerOf
    <3>2. Of(wire \o AnswerTo(c.of)) = Of(wire) \cup {c.of}
      BY <3>1, AnswerTypes, OfFacts
    <3> QED  BY <2>4, <2>5, <3>2 DEF Arriving
  <2>7. /\ Once(s, EndOf(cmd)) => Once(Tail(s), EndOf(cmd))
        /\ Once(s, EndOf(cmd)) /\ c = EndOf(cmd) => EndOf(cmd) \notin Sending'
    BY <2>2, OnceFacts DEF Sending
  <2> QED  BY <1>1, <2>2, <2>3, <2>6, <2>7 DEF s
<1> QED  BY <1>2, <1>3

\* The interrupts only move what was sent, or have it answered.
LEMMA InterruptAnswers ==
  ASSUME PortInv, AnswerInv, Interrupt
  PROVE  AnswerInv'
<1>0. cmd \in Nat /\ Sending \subseteq Byte
  BY AnswerTypes
<1>1. ASSUME RxInterrupt PROVE AnswerInv'
  <2>1. /\ UNCHANGED <<tx, line, pc, put, cmd, gaveUp, Sending, Stored, Writing>>
        /\ Arriving' \subseteq Arriving /\ Buffered' \subseteq Buffered \cup Arriving
    BY <1>1, RxMoves DEF Sending, Stored, Writing
  <2>2. UNCHANGED Once(Contents(tx), EndOf(cmd))
    BY <2>1
  <2>3. \A k \in Line : Over(k) => Over(k)'
    BY <2>1 DEF Over
  <2> QED  BY <1>0, <2>1, <2>2, <2>3 DEF AnswerInv
<1>2. ASSUME TxInterrupt PROVE AnswerInv'
  <2>1. /\ UNCHANGED <<rx, line, pc, put, cmd, gaveUp, Buffered, Stored, Writing>>
        /\ Sending' \subseteq Sending
        /\ \A k \in Arriving' : k \in Arriving \/ EndOf(k) \in Sending
        /\ cmd \in Arriving' => cmd \in Arriving \/ EndOf(cmd) \notin Sending'
        /\ Once(Contents(tx), EndOf(cmd))'
    BY <1>2, TxMoves DEF Buffered, Stored, Writing, AnswerInv
  <2>2. \A k \in Line : Over(k) => Over(k)'
    BY <2>1 DEF Over
  <2>3. \A k \in Arriving' : k <= cmd
    BY <2>1 DEF AnswerInv, EndOf
  <2>4. \A b \in Sending' : b.of <= cmd
    BY <2>1 DEF AnswerInv
  <2> QED  BY <2>1, <2>2, <2>3, <2>4 DEF AnswerInv
<1> QED  BY <1>1, <1>2 DEF Interrupt

\* The byte after one of a command is of that command, and the line is empty
\* when the last of them was sent.
LEMMA NextByteOf ==
  ASSUME PortInv, NextByte
  PROVE  /\ put'.of = put.of /\ Stored' \subseteq Stored
         /\ \/ Ends(put) /\ pc' = "get" /\ Stored' = {}
            \/ ~Ends(put) /\ pc' = "put"
<1>1. put \in Byte
  BY AnswerTypes
<1>2. CASE Ends(put)
  <2>1. pc' = "get" /\ line' = <<>> /\ put' = put
    BY <1>2 DEF NextByte
  <2>2. Of(<<>>) = {}
    BY AnswerTypes, OfFacts
  <2> QED  BY <1>2, <2>1, <2>2 DEF Stored
<1>3. CASE ~Ends(put)
  BY <1>1, <1>3 DEF NextByte, Stored, Byte
<1> QED  BY <1>2, <1>3

\* A command is written while nothing of its answer is anywhere.
LEMMA WriterAnswers ==
  ASSUME PortInv, AnswerInv, rxtimeout # 0,
         \/ SendCommand \/ PurgeRx \/ PurgeTx \/ PutChar \/ PutWaitEnds
         \/ PutTimesOut \/ PushChar \/ TxStart \/ TxBegin
  PROVE  AnswerInv'
<1>0. /\ cmd \in Nat /\ Sending \subseteq Byte /\ put \in Byte
      /\ Arriving \subseteq Line /\ Buffered \subseteq Line /\ Stored \subseteq Line
  BY AnswerTypes
<1>1. CASE SendCommand
  <2>1. /\ pc = "idle" /\ pc' = "purge" /\ cmd' = cmd + 1 /\ put'.of = cmd + 1
        /\ UNCHANGED <<rx, tx, wire, line, gaveUp>>
    BY <1>1 DEF SendCommand, port, sender, history
  <2>2. UNCHANGED <<Sending, Arriving, Buffered, Stored, Contents(tx)>>
    BY <2>1 DEF Sending, Arriving, Buffered, Stored
  <2>3. /\ \A b \in Sending : b.of <= cmd + 1
        /\ \A k \in Arriving \cup Buffered \cup Stored : k <= cmd + 1
        /\ EndOf(cmd + 1) \notin Sending
        /\ cmd + 1 \notin Arriving \cup Buffered \cup Stored
    BY <1>0 DEF AnswerInv, EndOf, Byte, Line
  <2>4. Once(Contents(tx), EndOf(cmd + 1))
    BY <2>3 DEF Once, Sending, Bytes
  <2>5. \A k \in Line \ gaveUp : k < cmd + 1 => Over(k)
    BY <1>0, <2>1 DEF AnswerInv, Line
  <2>6. \A k \in Line : Over(k) => Over(k)'
    BY <2>1, <2>2 DEF Over
  <2> QED
    BY <2>1, <2>2, <2>3, <2>4, <2>5, <2>6 DEF AnswerInv
<1>2. CASE PurgeRx
  <2>1. /\ pc = "purge" /\ pc' = "clear" /\ rx' = fifo_flush(rx)
        /\ UNCHANGED <<tx, wire, line, put, cmd, gaveUp>>
    BY <1>2 DEF PurgeRx, ser_purgeRx, sender, history
  <2>2. UNCHANGED <<Sending, Arriving, Stored, Contents(tx)>>
    BY <2>1 DEF Sending, Arriving, Stored
  <2>3. Buffered' = {}
    BY <2>1, Sizes, AnswerTypes, FlushEmpties, OfFacts DEF Buffered
  <2>4. \A k \in Line : Over(k) => Over(k)'
    BY <2>1, <2>2, <2>3 DEF Over
  <2> QED  BY <2>1, <2>2, <2>3, <2>4 DEF AnswerInv, Writing
<1>3. CASE PurgeTx
  <2>1. /\ pc = "clear" /\ pc' = "put" /\ tx' = fifo_flush(tx)
        /\ UNCHANGED <<rx, wire, line, put, cmd, gaveUp>>
    BY <1>3 DEF PurgeTx, history
  <2>2. UNCHANGED <<Arriving, Buffered, Stored>>
    BY <2>1 DEF Arriving, Buffered, Stored
  <2>3. Contents(tx') = <<>> /\ Sending' = {}
    BY <2>1, Sizes, AnswerTypes, FlushEmpties, BytesFacts DEF Sending
  <2>4. Once(Contents(tx), EndOf(cmd))'
    BY <2>1, <2>3 DEF Once
  <2>5. \A k \in Line : Over(k) => Over(k)'
    BY <2>1, <2>2, <2>3 DEF Over
  <2> QED  BY <2>1, <2>2, <2>3, <2>4, <2>5 DEF AnswerInv, Writing
<1>4. CASE PutChar \/ PutWaitEnds
  <2>1. /\ pc \in {"put", "full"} /\ pc' \in {"full", "push"}
        /\ UNCHANGED <<rx, tx, wire, line, put, cmd, gaveUp>>
    BY <1>4 DEF PutChar, PutWaitEnds, port, sender, history
  <2>2. UNCHANGED <<Sending, Arriving, Buffered, Stored, Contents(tx)>>
    BY <2>1 DEF Sending, Arriving, Buffered, Stored
  <2>3. \A k \in Line : Over(k) => Over(k)'
    BY <2>1, <2>2 DEF Over
  <2> QED  BY <2>1, <2>2, <2>3 DEF AnswerInv, Writing
<1>5. CASE PushChar
  <2>1. /\ pc = "push" /\ pc' = "start" /\ tx' = fifo_push(tx, put)
        /\ UNCHANGED <<rx, wire, line, put, cmd, gaveUp>>
    BY <1>5 DEF PushChar, port, history
  <2>2. UNCHANGED <<Arriving, Buffered, Stored>>
    BY <2>1 DEF Arriving, Buffered, Stored
  <2>3. ~fifo_isfull(tx)
    BY <2>1 DEF PortInv, FifoCallsDefined
  <2>4. Contents(tx') = Append(Contents(tx), put)
    BY <2>1, <2>3, Sizes, AnswerTypes, PushAppends
  <2>5. Sending' = Sending \cup {put}
    BY <2>4, AnswerTypes, BytesFacts DEF Sending
  <2>6. EndOf(cmd) \notin Sending /\ put.of = cmd
    BY <2>1 DEF AnswerInv, Writing
  <2>7. Once(Contents(tx), EndOf(cmd))'
    BY <2>1, <2>4, <2>6, AnswerTypes, OnceFacts DEF AnswerInv, Sending
  <2>8. \A k \in Line : k # cmd /\ Over(k) => Over(k)'
    BY <2>1, <2>2, <2>5, <2>6 DEF Over, EndOf
  <2>9. \A b \in Sending' : b.of <= cmd
    BY <1>0, <2>5, <2>6 DEF AnswerInv
  <2>10. Ends(put) \/ put # EndOf(cmd)
    BY DEF Ends, EndOf
  <2>11. cmd \notin Arriving \cup Buffered \cup Stored
    BY <2>1 DEF AnswerInv, Writing
  <2> QED
    BY <1>0, <2>1, <2>2, <2>5, <2>6, <2>7, <2>8, <2>9, <2>10, <2>11
    DEF AnswerInv, Writing, Line
<1>6. CASE TxStart /\ ~NextByte
  <2>1. /\ pc = "start" /\ pc' = "begin"
        /\ UNCHANGED <<rx, tx, wire, line, put, cmd, gaveUp>>
    BY <1>6 DEF TxStart, port, history
  <2>2. UNCHANGED <<Sending, Arriving, Buffered, Stored, Contents(tx)>>
    BY <2>1 DEF Sending, Arriving, Buffered, Stored
  <2>3. \A k \in Line : Over(k) => Over(k)'
    BY <2>1, <2>2 DEF Over
  <2> QED  BY <2>1, <2>2, <2>3 DEF AnswerInv, Writing
<1>7. CASE (TxStart \/ TxBegin \/ PutTimesOut) /\ NextByte
  <2>1. /\ pc \in {"full", "start", "begin"}
        /\ UNCHANGED <<rx, tx, wire, cmd, gaveUp>>
    BY <1>7 DEF TxStart, TxBegin, PutTimesOut, port, sender, history
  <2>2. UNCHANGED <<Sending, Arriving, Buffered, Contents(tx)>>
    BY <2>1 DEF Sending, Arriving, Buffered
  <2>3. /\ put'.of = put.of /\ Stored' \subseteq Stored
        /\ \/ Ends(put) /\ pc' = "get" /\ Stored' = {}
           \/ ~Ends(put) /\ pc' = "put"
    BY <1>7, NextByteOf
  <2>4. \A k \in Line : Over(k) => Over(k)'
    BY <2>1, <2>2, <2>3 DEF Over
  <2>5. Writing' => Writing
    BY <2>1, <2>3 DEF Writing
  <2> QED  BY <1>0, <2>1, <2>2, <2>3, <2>4, <2>5 DEF AnswerInv
<1>8. PutTimesOut \/ TxBegin => NextByte
  BY DEF PutTimesOut, TxBegin
<1> QED  BY <1>1, <1>2, <1>3, <1>4, <1>5, <1>6, <1>7, <1>8

\* A command is given up, or reads what is of it or of one given up before.
LEMMA ReaderAnswers ==
  ASSUME PortInv, AnswerInv, rxtimeout # 0,
         GetChar \/ WaitEnds \/ WaitTimesOut \/ TestStatus \/ PopChar \/ Settled
  PROVE  AnswerInv'
<1>0. /\ cmd \in Nat /\ Sending \subseteq Byte
      /\ Arriving \subseteq Line /\ Buffered \subseteq Line /\ Stored \subseteq Line
  BY AnswerTypes
<1>1. CASE GetChar \/ WaitEnds \/ WaitTimesOut \/ TestStatus
  <2>1. /\ pc \in {"get", "wait", "take"}
        /\ UNCHANGED <<rx, tx, wire, line, put, cmd>>
        /\ \/ pc' \in {"wait", "take", "pop"} /\ gaveUp' = gaveUp
           \/ pc' = "idle" /\ gaveUp' = gaveUp \cup {cmd}
    BY <1>1 DEF GetChar, WaitEnds, WaitTimesOut, TestStatus, EndOfFile,
       port, sender, history
  <2>2. UNCHANGED <<Sending, Arriving, Buffered, Stored, Contents(tx)>>
    BY <2>1 DEF Sending, Arriving, Buffered, Stored
  <2>3. \A k \in Line : Over(k) => Over(k)'
    BY <2>1, <2>2 DEF Over
  <2> QED  BY <1>0, <2>1, <2>2, <2>3 DEF AnswerInv, Writing
<1>2. CASE PopChar
  <2> DEFINE c == fifo_first(rx)
  <2>1. /\ pc = "pop" /\ pc' \in {"get", "settle"} /\ rx' = fifo_pop(rx)
        /\ UNCHANGED <<tx, wire, put, cmd>>
        /\ gaveUp \subseteq gaveUp'
        /\ line' = line \/ line' = Append(line, c)
        /\ pc' = "settle" => line' = line /\ line # <<>> /\ (Mine \/ cmd \in gaveUp')
    BY <1>2 DEF PopChar, LineRead, sender
  <2>2. UNCHANGED <<Sending, Arriving, Contents(tx)>>
    BY <2>1 DEF Sending, Arriving
  <2>3. ~fifo_isempty(rx)
    BY <2>1 DEF PortInv, FifoCallsDefined
  <2>4. /\ c \in Byte /\ Contents(rx) # <<>> /\ c = Head(Contents(rx))
        /\ Contents(rx') = Tail(Contents(rx))
    BY <2>1, <2>3, Sizes, AnswerTypes, PopTakesHead
  <2> HIDE DEF c
  <2>5. Buffered = {c.of} \cup Buffered'
    BY <2>4, AnswerTypes, OfFacts DEF Buffered
  <2>6. Stored' = Stored \/ Stored' = Stored \cup {c.of}
    BY <2>1, <2>4, AnswerTypes, OfFacts DEF Stored
  <2>7. pc' = "settle" => cmd \in gaveUp' \/ cmd \in Stored'
    <3> SUFFICES ASSUME line # <<>>, Mine, line' = line PROVE cmd \in Stored'
      BY <2>1
    <3>1. 1 \in 1 .. Len(line)
      BY AnswerTypes, LenProperties, EmptySeq
    <3>2. line[1].of = cmd
      BY <3>1 DEF Mine
    <3> QED  BY <3>1, <3>2 DEF Stored, Of, Bytes
  <2>8. \A k \in Line : Over(k) => Over(k)'
    BY <2>1, <2>2, <2>5 DEF Over
  <2>9. ASSUME NEW k \in Buffered, k \notin gaveUp PROVE k = cmd
    <3>1. k <= cmd /\ k \in Line \ gaveUp
      BY <1>0, <2>9 DEF AnswerInv
    <3>2. ~Over(k)
      BY <2>1, <2>9 DEF Over
    <3> QED  BY <1>0, <3>1, <3>2 DEF AnswerInv, Line
  <2>10. Stored' \subseteq gaveUp' \cup {cmd}
    BY <2>1, <2>5, <2>6, <2>9 DEF AnswerInv
  <2>11. Arriving' \cup Buffered' \cup Stored' \subseteq Arriving \cup Buffered \cup Stored
    BY <2>2, <2>5, <2>6
  <2> QED
    BY <1>0, <2>1, <2>2, <2>7, <2>8, <2>10, <2>11 DEF AnswerInv, Writing
<1>3. CASE Settled
  <2>1. /\ pc = "settle" /\ pc' \in {"idle", "get"} /\ line' = <<>>
        /\ \A i \in 1 .. Len(wire) : wire[i].of # cmd
        /\ UNCHANGED <<rx, tx, wire, put, cmd, gaveUp>>
    BY <1>3 DEF Settled, port, sender, history
  <2>2. UNCHANGED <<Sending, Arriving, Buffered, Contents(tx)>>
    BY <2>1 DEF Sending, Arriving, Buffered
  <2>3. Stored' = {}
    BY <2>1, AnswerTypes, OfFacts DEF Stored
  <2>4. cmd \notin Arriving
    BY <2>1 DEF Arriving, Of, Bytes
  <2>5. cmd \in gaveUp \/ EndOf(cmd) \notin Sending
    BY <2>1 DEF AnswerInv
  <2>6. \A k \in Line : Over(k) => Over(k)'
    BY <2>1, <2>2 DEF Over
  <2>7. pc' = "idle" /\ cmd \notin gaveUp => Over(cmd)'
    BY <2>1, <2>2, <2>4, <2>5 DEF Over
  <2> QED
    BY <1>0, <2>1, <2>2, <2>3, <2>6, <2>7 DEF AnswerInv, Writing
<1> QED  BY <1>1, <1>2, <1>3

\* At boot no command was sent.
LEMMA BootAnswers == Init => AnswerInv
<1> SUFFICES ASSUME Init PROVE AnswerInv
  OBVIOUS
<1>1. Contents(rx) = <<>> /\ Contents(tx) = <<>> /\ wire = <<>> /\ line = <<>>
  BY Sizes, BlankType DEF Init
<1>2. Sending = {} /\ Arriving = {} /\ Buffered = {} /\ Stored = {}
  BY <1>1, InitEstablishes, AnswerTypes, BytesFacts, OfFacts
  DEF Sending, Arriving, Buffered, Stored
<1>3. Once(Contents(tx), EndOf(cmd))
  BY <1>1 DEF Once
<1> QED  BY <1>2, <1>3 DEF Init, AnswerInv, Writing, Over

\* The client of the other port never comes to a line of the modem.
LEMMA AnswerStep ==
  ASSUME PortInv, rxtimeout # 0 => AnswerInv, [Next]_vars
  PROVE  (rxtimeout # 0 => AnswerInv)'
<1>1. rxtimeout' = rxtimeout
  BY DEF Next, Interrupt, Client, RxInterrupt, TxInterrupt, OperatorTypes, Poll,
     Execute, SendCommand, PurgeRx, PurgeTx, Settled, PutChar, PutWaitEnds,
     PutTimesOut, PushChar, TxStart, TxBegin, GetChar, WaitEnds, WaitTimesOut,
     TestStatus, PopChar, vars
<1> SUFFICES ASSUME AnswerInv, rxtimeout # 0 PROVE AnswerInv'
  BY <1>1
<1>2. CASE UNCHANGED vars
  <2>1. UNCHANGED <<rx, tx, wire, line, pc, put, cmd, gaveUp>>
    BY <1>2 DEF vars, port, sender, history
  <2>2. UNCHANGED <<Sending, Arriving, Buffered, Stored, Contents(tx)>>
    BY <2>1 DEF Sending, Arriving, Buffered, Stored
  <2> QED  BY <2>1, <2>2 DEF AnswerInv, Writing, Over
<1>3. ~OperatorTypes /\ ~Poll /\ ~Execute
  BY DEF OperatorTypes, Poll, Execute, AnswerInv
<1> QED
  BY <1>2, <1>3, InterruptAnswers, WriterAnswers, ReaderAnswers DEF Next, Client

\* The line a command takes for its answer is its own, or that of a command
\* given up before: for any number of commands, buffers of any size, and
\* wherever the interrupts come between the purge, the bytes that are sent and
\* the bytes that are read.
THEOREM AnswersAreNotStale == Spec => AnswersNotStale
<1> DEFINE Inv == PortInv /\ (rxtimeout # 0 => AnswerInv)
           Step == pc = "pop" /\ pc' = "settle" =>
                     \A i \in 1 .. Len(line) : line[i].of \in gaveUp \cup {cmd}
<1>1. Init => Inv
  BY InitEstablishes, BootAnswers
<1>2. Inv /\ [Next]_vars => Inv'
  <2> SUFFICES ASSUME Inv, [Next]_vars PROVE Inv'
    OBVIOUS
  <2>1. PortInv'
    BY RxInterruptKeeps, TxInterruptKeeps, ReaderKeeps, ConsoleKeeps,
       WriterKeeps, StutterKeeps DEF Next, Interrupt, Client
  <2> QED  BY <2>1, AnswerStep
<1>3. Inv /\ [Next]_vars => [Step]_vars
  <2> SUFFICES ASSUME Inv, Next, pc = "pop", pc' = "settle",
                      NEW i \in 1 .. Len(line)
               PROVE  line[i].of \in gaveUp \cup {cmd}
    OBVIOUS
  <2>1. PopChar
    BY DEF Next, Interrupt, Client, RxInterrupt, TxInterrupt, OperatorTypes, Poll,
       Execute, SendCommand, PurgeRx, PurgeTx, Settled, PutChar, PutWaitEnds,
       PutTimesOut, PushChar, TxStart, TxBegin, GetChar, WaitEnds, WaitTimesOut,
       TestStatus, port, sender
  <2>2. rxtimeout # 0
    BY <2>1 DEF PopChar, LineRead
  <2>3. line[i].of \in Stored
    BY DEF Stored, Of, Bytes
  <2> QED  BY <2>2, <2>3 DEF AnswerInv
<1> QED  BY <1>1, <1>2, <1>3, PTL DEF Spec, AnswersNotStale

-----------------------------------------------------------------------------
(***************************************************************************)
(* The pieces the console executes.  The bytes of all lines are numbered   *)
(* in the order they are typed; what is executed, read, buffered and on    *)
(* the wire are stretches of that order, one behind the other.             *)
(***************************************************************************)
Nth(b) == b.of * (LineLength + 1) + (IF Ends(b) THEN LineLength + 1 ELSE b.nr)

\* The numbers of the last byte that was typed, and that left the buffer
Typed == (cmd + 1) * (LineLength + 1)
Read  == Typed - Len(wire) - Len(Contents(rx))

Text == IF pc = "idle" THEN <<>> ELSE line

Numbered(s, p) == \A i \in 1 .. Len(s) : Nth(s[i]) = p + i

\* The console uses nothing but its own half of the port.
ConsoleOnly == ~txirq /\ pc \in {"idle", "get", "take", "pop", "parse"}

\* The byte p is the last before the text, which is followed by what comes, but
\* for the end of the line that kfile_gets has taken away.
PieceInv ==
  /\ \A b \in Bytes(Text) : ~Ends(b)
  /\ Numbered(Contents(rx), Read)
  /\ Numbered(wire, Read + Len(Contents(rx)))
  /\ \E p \in Int :
       /\ Numbered(Text, p)
       /\ \A b \in ran : Nth(b) <= p
       /\ p + Len(Text) <= Read
       /\ pc # "parse" => p + Len(Text) = Read

\* Numbers are whole, and the next number of a line is of the next byte.
LEMMA NthFacts ==
  /\ \A b \in Byte : Nth(b) \in Int
  /\ \A n \in Nat : (n + 1) * (LineLength + 1) \in Int
  /\ \A a, b \in Byte : ~Ends(a) /\ ~Ends(b) /\ Nth(b) = Nth(a) + 1 =>
       b = [a EXCEPT !.nr = @ + 1]
<1>0. LineLength \in Nat
  BY SizesAssumption
<1> DEFINE L == LineLength + 1
<1>1. L \in Nat /\ \A m \in Nat : m * L \in Nat
  BY <1>0
<1>2. \A b \in Byte : b.of \in Nat /\ b.nr \in Nat /\ b.nr < L
  BY <1>0 DEF Byte, Line
<1>3. \A a, b \in Nat : a < b => b * L >= a * L + L
  <2> SUFFICES ASSUME NEW a \in Nat, NEW b \in Nat, a < b
               PROVE  b * L >= a * L + L
    OBVIOUS
  <2>1. PICK d \in Nat : b = a + 1 + d
    BY b - a - 1 \in Nat
  <2>2. b * L = a * L + L + d * L
    BY <2>1, <1>1
  <2> QED  BY <1>1, <2>2
<1>4. \A b \in Byte : Nth(b) \in Int
  BY <1>1, <1>2 DEF Nth
<1>5. ASSUME NEW a \in Byte, NEW b \in Byte, ~Ends(a), ~Ends(b),
             Nth(b) = Nth(a) + 1
      PROVE  b = [a EXCEPT !.nr = @ + 1]
  <2>1. b.of * L + b.nr = a.of * L + a.nr + 1
    BY <1>5 DEF Nth
  <2>2. a.nr # 0 /\ b.nr # 0
    BY <1>5 DEF Ends
  <2>3. a.of * L \in Nat /\ b.of * L \in Nat
    BY <1>1, <1>2
  <2> HIDE DEF L
  <2>4. ~(a.of < b.of) /\ ~(b.of < a.of)
    BY <1>1, <1>2, <1>3, <2>1, <2>2, <2>3
  <2>5. a.of = b.of
    BY <1>2, <2>4
  <2>6. b.nr = a.nr + 1
    BY <1>1, <1>2, <2>1, <2>3, <2>5
  <2> QED  BY <2>5, <2>6 DEF Byte
<1>6. \A n \in Nat : (n + 1) * L \in Int
  BY <1>1
<1> QED  BY <1>4, <1>5, <1>6

\* The bytes of a line that is typed are the next ones.
LEMMA TypedNumbers ==
  ASSUME NEW n \in Nat
  PROVE  /\ Len(TypedLine(n)) = LineLength + 1
         /\ Numbered(TypedLine(n), n * (LineLength + 1))
<1>1. LineLength \in Nat
  BY SizesAssumption
<1>2. \A i \in 1 .. LineLength + 1 :
        TypedLine(n)[i] = [of |-> n, nr |-> IF i <= LineLength THEN i ELSE 0]
  BY DEF TypedLine
<1>3. Len(TypedLine(n)) = LineLength + 1
  BY <1>1 DEF TypedLine
<1>4. ASSUME NEW i \in 1 .. LineLength + 1
      PROVE  Nth(TypedLine(n)[i]) = n * (LineLength + 1) + i
  <2>1. CASE i <= LineLength
    <3>1. TypedLine(n)[i] = [of |-> n, nr |-> i]
      BY <1>2, <2>1
    <3>2. TypedLine(n)[i].of = n /\ TypedLine(n)[i].nr = i /\ i # 0
      BY <3>1
    <3> QED  BY <3>2 DEF Nth, Ends
  <2>2. CASE i = LineLength + 1
    <3>1. TypedLine(n)[i] = [of |-> n, nr |-> 0]
      BY <1>1, <1>2, <2>2
    <3>2. TypedLine(n)[i].of = n /\ TypedLine(n)[i].nr = 0
      BY <3>1
    <3> QED  BY <2>2, <3>2 DEF Nth, Ends
  <2> QED  BY <1>1, <2>1, <2>2
<1> QED  BY <1>3, <1>4 DEF Numbered

\* The numbers in sequences that grow and shrink
LEMMA NumberedFacts ==
  ASSUME NEW s \in Seq(Byte), NEW p \in Int
  PROVE  /\ Numbered(<<>>, p)
         /\ s # <<>> /\ Numbered(s, p) =>
              Nth(Head(s)) = p + 1 /\ Numbered(Tail(s), p + 1)
         /\ \A c \in Byte : Numbered(s, p) /\ Nth(c) = p + Len(s) + 1 =>
              Numbered(Append(s, c), p)
         /\ \A t \in Seq(Byte) : Numbered(s, p) /\ Numbered(t, p + Len(s)) =>
              Numbered(s \o t, p)
<1>0. Len(s) \in Nat
  BY LenProperties
<1>1. Numbered(<<>>, p)
  BY DEF Numbered
<1>2. ASSUME s # <<>>, Numbered(s, p)
      PROVE  Nth(Head(s)) = p + 1 /\ Numbered(Tail(s), p + 1)
  <2>1. /\ Len(Tail(s)) = Len(s) - 1 /\ Head(s) = s[1] /\ Len(s) # 0
        /\ \A i \in 1 .. Len(s) - 1 : Tail(s)[i] = s[i + 1]
    BY <1>2, HeadTailProperties, EmptySeq
  <2>2. 1 \in 1 .. Len(s) /\ \A i \in 1 .. Len(s) - 1 : i + 1 \in 1 .. Len(s)
    BY <1>0, <2>1
  <2>3. \A i \in 1 .. Len(s) - 1 : Nth(Tail(s)[i]) = p + 1 + i
    BY <1>0, <1>2, <2>1, <2>2 DEF Numbered
  <2> QED  BY <1>2, <2>1, <2>2, <2>3 DEF Numbered
<1>3. ASSUME NEW c \in Byte, Numbered(s, p), Nth(c) = p + Len(s) + 1
      PROVE  Numbered(Append(s, c), p)
  <2>1. /\ Len(Append(s, c)) = Len(s) + 1
        /\ \A i \in 1 .. Len(s) : Append(s, c)[i] = s[i]
        /\ Append(s, c)[Len(s) + 1] = c
    BY AppendProperties
  <2>2. \A i \in 1 .. Len(s) + 1 : i \in 1 .. Len(s) \/ i = Len(s) + 1
    BY <1>0
  <2> QED  BY <1>0, <1>3, <2>1, <2>2 DEF Numbered
<1>4. ASSUME NEW t \in Seq(Byte), Numbered(s, p), Numbered(t, p + Len(s))
      PROVE  Numbered(s \o t, p)
  <2>1. /\ Len(s \o t) = Len(s) + Len(t) /\ Len(t) \in Nat
        /\ \A i \in 1 .. Len(s) + Len(t) :
             (s \o t)[i] = IF i <= Len(s) THEN s[i] ELSE t[i - Len(s)]
    BY ConcatProperties, LenProperties
  <2>2. \A i \in 1 .. Len(s) + Len(t) :
          i \in 1 .. Len(s) \/ (i - Len(s) \in 1 .. Len(t) /\ ~(i <= Len(s)))
    BY <1>0, <2>1
  <2>3. \A i \in 1 .. Len(s) : i <= Len(s) /\ Nth(s[i]) = p + i
    BY <1>4 DEF Numbered
  <2>4. \A i \in 1 .. Len(s) + Len(t) :
          i - Len(s) \in 1 .. Len(t) => Nth(t[i - Len(s)]) = p + i
    BY <1>0, <1>4, <2>1 DEF Numbered
  <2> QED  BY <2>1, <2>2, <2>3, <2>4 DEF Numbered
<1> QED  BY <1>1, <1>2, <1>3, <1>4

\* The numbers of the port are whole.
LEMMA PieceTypes ==
  ASSUME PortInv
  PROVE  /\ Typed \in Int /\ Read \in Int /\ Text \in Seq(Byte)
         /\ Len(wire) \in Nat /\ Len(Contents(rx)) \in Nat /\ Len(Text) \in Nat
<1>1. Text \in Seq(Byte)
  BY AnswerTypes, EmptySeq DEF Text
<1>2. Len(wire) \in Nat /\ Len(Contents(rx)) \in Nat /\ Len(Text) \in Nat
  BY <1>1, AnswerTypes, LenProperties
<1>3. Typed \in Int
  BY AnswerTypes, NthFacts DEF Typed
<1> QED  BY <1>1, <1>2, <1>3 DEF Read

\* A byte that arrives without being dropped joins the others in their order.
LEMMA RxKeepsPieces ==
  ASSUME PortInv, PieceInv, RxInterrupt, ~lost'
  PROVE  PieceInv'
<1>1. /\ wire # <<>> /\ wire' = Tail(wire) /\ ~fifo_isfull(rx)
      /\ rx' = fifo_push(rx, Head(wire))
      /\ UNCHANGED <<pc, line, cmd, ran>>
  BY DEF RxInterrupt
<1>2. Head(wire) \in Byte /\ Len(wire') = Len(wire) - 1
  BY <1>1, AnswerTypes, HeadTailProperties
<1>3. Contents(rx') = Append(Contents(rx), Head(wire))
  BY <1>1, <1>2, Sizes, AnswerTypes, PushAppends
<1>4. Len(Contents(rx')) = Len(Contents(rx)) + 1
  BY <1>2, <1>3, AnswerTypes, AppendProperties
<1>5. UNCHANGED <<Typed, Text>> /\ Read' = Read
  <2>1. UNCHANGED <<Typed, Text>>
    BY <1>1 DEF Typed, Text
  <2> QED  BY <2>1, <1>2, <1>4, PieceTypes DEF Read
<1>6. Numbered(Contents(rx), Read) /\ Numbered(wire, Read + Len(Contents(rx)))
  BY DEF PieceInv
<1>7. Read \in Int /\ Len(Contents(rx)) \in Nat /\ Read + Len(Contents(rx)) \in Int
  BY PieceTypes
<1>8. /\ Nth(Head(wire)) = Read + Len(Contents(rx)) + 1
      /\ Numbered(Tail(wire), Read + Len(Contents(rx)) + 1)
  BY <1>1, <1>6, <1>7, AnswerTypes, NumberedFacts
<1>9. Numbered(Contents(rx)', Read')
  BY <1>2, <1>3, <1>5, <1>6, <1>7, <1>8, AnswerTypes, NumberedFacts
<1>10. Numbered(wire', Read' + Len(Contents(rx)'))
  <2>1. Read' + Len(Contents(rx)') = Read + Len(Contents(rx)) + 1
    BY <1>4, <1>5, <1>7
  <2> QED  BY <1>1, <1>8, <2>1
<1> QED  BY <1>1, <1>5, <1>9, <1>10 DEF PieceInv

\* A line that is typed continues the numbers.
LEMMA TypingKeepsPieces ==
  ASSUME PortInv, PieceInv, OperatorTypes
  PROVE  PieceInv'
<1>1. /\ cmd' = cmd + 1 /\ wire' = wire \o TypedLine(cmd + 1) /\ cmd + 1 \in Line
      /\ UNCHANGED <<rx, pc, line, ran>>
  BY AnswerTypes, SizesAssumption DEF OperatorTypes, port, history, Line
<1> DEFINE L == LineLength + 1
           t == TypedLine(cmd + 1)
           q == Read + Len(Contents(rx))
<1>2. t \in Seq(Byte) /\ Len(t) = L /\ L \in Nat
  <2>1. cmd + 1 \in Nat /\ LineLength \in Nat
    BY AnswerTypes, SizesAssumption
  <2> QED  BY <1>1, <2>1, LinesType, TypedNumbers
<1>3. Numbered(t, Typed)
  BY <1>1, AnswerTypes, TypedNumbers DEF Typed
<1>4. Typed' = Typed + L
  <2>1. Typed' = (cmd + 1 + 1) * L
    BY <1>1 DEF Typed
  <2> QED  BY <1>2, <2>1, AnswerTypes DEF Typed
<1> HIDE DEF t, L
<1>5. Len(wire') = Len(wire) + L
  BY <1>1, <1>2, AnswerTypes, ConcatProperties DEF t
<1>6. Read' = Read /\ Typed = q + Len(wire)
  <2>1. Contents(rx)' = Contents(rx)
    BY <1>1
  <2> QED  BY <1>2, <1>4, <1>5, <2>1, PieceTypes DEF Read
<1>7. q \in Int
  BY PieceTypes
<1>8. Numbered(wire', q)
  BY <1>1, <1>2, <1>3, <1>6, <1>7, AnswerTypes, NumberedFacts DEF PieceInv, t
<1>9. UNCHANGED <<Text, ran, pc, Contents(rx)>>
  BY <1>1 DEF Text
<1> QED  BY <1>6, <1>8, <1>9 DEF PieceInv

\* A byte that is read is the next of the text, or ends it.
LEMMA PopKeepsPieces ==
  ASSUME PortInv, PieceInv, PopChar, rxtimeout = 0, ~lost'
  PROVE  PieceInv'
<1> DEFINE c == fifo_first(rx)
<1>1. /\ pc = "pop" /\ rx' = fifo_pop(rx) /\ UNCHANGED <<wire, cmd, ran>>
      /\ \/ Ends(c) /\ pc' = "parse" /\ line' = line
         \/ ~Ends(c) /\ pc' = "get" /\ line' = Append(line, c)
  BY DEF PopChar, LineRead
<1>2. ~fifo_isempty(rx)
  BY <1>1 DEF PortInv, FifoCallsDefined
<1>3. /\ c \in Byte /\ Contents(rx) # <<>> /\ c = Head(Contents(rx))
      /\ Contents(rx') = Tail(Contents(rx))
  BY <1>1, <1>2, Sizes, AnswerTypes, PopTakesHead
<1> HIDE DEF c
<1>4. Len(Contents(rx')) = Len(Contents(rx)) - 1
  BY <1>3, AnswerTypes, HeadTailProperties
<1>5. Typed' = Typed /\ Read' = Read + 1
  <2>1. Typed' = Typed
    BY <1>1 DEF Typed
  <2> QED  BY <1>1, <1>4, <2>1, PieceTypes DEF Read
<1>6. Nth(c) = Read + 1 /\ Numbered(Contents(rx)', Read')
  BY <1>3, <1>5, PieceTypes, AnswerTypes, NumberedFacts DEF PieceInv
<1>7. Numbered(wire', Read' + Len(Contents(rx)'))
  <2>1. Read' + Len(Contents(rx)') = Read + Len(Contents(rx))
    BY <1>4, <1>5, PieceTypes
  <2> QED  BY <1>1, <2>1 DEF PieceInv
<1>8. PICK p \in Int : /\ Numbered(Text, p) /\ \A b \in ran : Nth(b) <= p
                       /\ p + Len(Text) = Read
  BY <1>1 DEF PieceInv
<1>9. CASE Ends(c)
  <2>1. pc' = "parse" /\ Text' = Text
    BY <1>1, <1>9 DEF Text
  <2>2. p + Len(Text) <= Read'
    BY <1>5, <1>8, PieceTypes
  <2> QED  BY <1>1, <1>6, <1>7, <1>8, <2>1, <2>2 DEF PieceInv
<1>10. CASE ~Ends(c)
  <2>1. Text' = Append(Text, c)
    BY <1>1, <1>10 DEF Text
  <2>2. Numbered(Text', p)
    BY <1>3, <1>6, <1>8, <2>1, PieceTypes, NumberedFacts
  <2>3. Len(Text') = Len(Text) + 1
    BY <1>3, <2>1, PieceTypes, AppendProperties
  <2>4. p + Len(Text') = Read' /\ p + Len(Text') <= Read'
    BY <1>5, <1>8, <2>3, PieceTypes
  <2>5. \A b \in Bytes(Text') : ~Ends(b)
    BY <1>3, <1>10, <2>1, PieceTypes, BytesFacts DEF PieceInv
  <2> QED  BY <1>1, <1>6, <1>7, <1>8, <2>2, <2>4, <2>5 DEF PieceInv
<1> QED  BY <1>9, <1>10

\* The text is executed, and the next one is behind it.
LEMMA ExecuteKeepsPieces ==
  ASSUME PortInv, PieceInv, Execute
  PROVE  PieceInv'
<1>1. /\ pc = "parse" /\ pc' = "idle" /\ UNCHANGED <<rx, line, wire, cmd>>
      /\ ran' = ran \cup Bytes(line)
  BY DEF Execute, Bytes
<1>2. Text = line /\ Text' = <<>> /\ UNCHANGED <<Read, Contents(rx)>>
  BY <1>1 DEF Text, Read, Typed
<1>3. PICK p \in Int : /\ Numbered(line, p) /\ \A b \in ran : Nth(b) <= p
                       /\ p + Len(line) <= Read
  BY <1>2 DEF PieceInv
<1>4. ran \subseteq Byte /\ Len(line) \in Nat /\ Read \in Int
  BY <1>2, PieceTypes DEF PortInv, TypeOK
<1>5. \A b \in ran' : Nth(b) <= Read
  <2>1. \A i \in 1 .. Len(line) : Nth(line[i]) = p + i
    BY <1>3 DEF Numbered
  <2>2. \A b \in Bytes(line) : Nth(b) <= Read
    BY <1>3, <1>4, <2>1 DEF Bytes
  <2>3. \A b \in ran : Nth(b) \in Int /\ Nth(b) <= p
    BY <1>3, <1>4, NthFacts
  <2> QED  BY <1>1, <1>3, <1>4, <2>2, <2>3
<1>6. /\ Numbered(Text', Read') /\ Len(Text') = 0
      /\ \A b \in Bytes(Text') : FALSE
  BY <1>2, <1>4, EmptySeq DEF Numbered, Bytes
<1>7. /\ Read' \in Int /\ Read' = Read
      /\ Read' + Len(Text') <= Read' /\ Read' + Len(Text') = Read'
  BY <1>2, <1>4, <1>6
<1>8. Numbered(Contents(rx)', Read') /\ Numbered(wire', Read' + Len(Contents(rx)'))
  BY <1>1, <1>2 DEF PieceInv
<1> QED  BY <1>5, <1>6, <1>7, <1>8 DEF PieceInv

\* The invariant of the port of the console
ConsoleInv == rxtimeout = 0 => ConsoleOnly /\ (~lost => PieceInv)

\* The console runs none of the driver's steps, and a byte once lost is lost.
LEMMA ConsoleSteps ==
  ASSUME PortInv, rxtimeout = 0, ConsoleOnly, Next
  PROVE  /\ \/ RxInterrupt \/ OperatorTypes \/ PopChar \/ Execute
            \/ Poll \/ GetChar \/ TestStatus
         /\ ConsoleOnly' /\ rxtimeout' = rxtimeout /\ (lost => lost')
<1>1. \/ RxInterrupt \/ OperatorTypes \/ PopChar \/ Execute
      \/ Poll \/ GetChar \/ TestStatus
  BY DEF Next, Interrupt, Client, ConsoleOnly, TxInterrupt, SendCommand, PurgeRx,
     PurgeTx, Settled, PutChar, PutWaitEnds, PutTimesOut, PushChar, TxStart,
     TxBegin, WaitEnds, WaitTimesOut
<1>2. rxtimeout' = rxtimeout /\ txirq' = txirq
  BY <1>1 DEF RxInterrupt, OperatorTypes, PopChar, Execute, Poll, GetChar,
     TestStatus, sender
<1>3. pc' \in {"idle", "get", "take", "pop", "parse"}
  BY <1>1 DEF ConsoleOnly, RxInterrupt, OperatorTypes, PopChar, LineRead, Execute,
     Poll, GetChar, TestStatus, EndOfFile
<1>4. lost => lost'
  BY <1>1 DEF RxInterrupt, OperatorTypes, PopChar, LineRead, Execute,
     Poll, GetChar, TestStatus, history
<1> QED  BY <1>1, <1>2, <1>3, <1>4 DEF ConsoleOnly

\* The invariant is kept by every step.
LEMMA PieceStep ==
  ASSUME PortInv, ConsoleInv, [Next]_vars
  PROVE  ConsoleInv'
<1>1. CASE UNCHANGED vars
  BY <1>1 DEF vars, port, sender, history, ConsoleInv, ConsoleOnly, PieceInv,
     Text, Typed, Read
<1>2. CASE Next /\ rxtimeout # 0
  <2>1. rxtimeout' = rxtimeout
    BY <1>2 DEF Next, Interrupt, Client, RxInterrupt, TxInterrupt, OperatorTypes,
       Poll, Execute, SendCommand, PurgeRx, PurgeTx, Settled, PutChar, PutWaitEnds,
       PutTimesOut, PushChar, TxStart, TxBegin, GetChar, WaitEnds, WaitTimesOut,
       TestStatus, PopChar
  <2> QED  BY <1>2, <2>1 DEF ConsoleInv
<1>3. CASE Next /\ rxtimeout = 0
  <2>1. ConsoleOnly
    BY <1>3 DEF ConsoleInv
  <2>2. /\ \/ RxInterrupt \/ OperatorTypes \/ PopChar \/ Execute
           \/ Poll \/ GetChar \/ TestStatus
        /\ ConsoleOnly' /\ rxtimeout' = rxtimeout /\ (lost => lost')
    BY <1>3, <2>1, ConsoleSteps
  <2>3. SUFFICES ASSUME ~lost' PROVE PieceInv'
    BY <2>2 DEF ConsoleInv
  <2>4. PieceInv
    BY <1>3, <2>2, <2>3 DEF ConsoleInv
  <2>5. CASE GetChar \/ TestStatus
    <3>1. /\ pc \notin {"idle", "parse"} /\ pc' # "idle"
          /\ UNCHANGED <<rx, line, wire, cmd, ran>>
      BY <1>3, <2>5 DEF GetChar, TestStatus, EndOfFile, port
    <3>2. UNCHANGED <<Text, Read, Contents(rx), wire, ran>>
      BY <3>1 DEF Text, Read, Typed
    <3> QED  BY <2>4, <3>1, <3>2 DEF PieceInv
  <2>6. CASE Poll
    <3>1. pc = "idle" /\ pc' = "get" /\ line' = <<>> /\ UNCHANGED <<rx, wire, cmd, ran>>
      BY <2>6 DEF Poll, NewText, port, history
    <3>2. UNCHANGED <<Text, Read, Contents(rx), wire, ran>>
      BY <3>1 DEF Text, Read, Typed
    <3> QED  BY <2>4, <3>1, <3>2 DEF PieceInv
  <2> QED
    BY <1>3, <2>2, <2>3, <2>4, <2>5, <2>6, RxKeepsPieces, TypingKeepsPieces,
       PopKeepsPieces, ExecuteKeepsPieces
<1> QED  BY <1>1, <1>2, <1>3

\* Nothing was typed at boot.
LEMMA BootPieces == Init => ConsoleInv
<1> SUFFICES ASSUME Init PROVE ConsoleInv
  OBVIOUS
<1>1. Contents(rx) = <<>> /\ wire = <<>> /\ Text = <<>> /\ ran = {}
  BY Sizes, BlankType DEF Init, Text
<1>2. Len(<<>>) = 0 /\ Read = Typed /\ Read \in Int
  BY <1>1, InitEstablishes, PieceTypes, EmptySeq DEF Read
<1>3. \A p \in Int : Numbered(<<>>, p)
  BY <1>2 DEF Numbered
<1>4. Read + Len(<<>>) = Read /\ Read <= Read
  BY <1>2
<1>5. Bytes(<<>>) = {}
  BY <1>2 DEF Bytes
<1>6. PieceInv
  BY <1>1, <1>2, <1>3, <1>4, <1>5 DEF PieceInv
<1> QED  BY <1>6 DEF Init, ConsoleInv, ConsoleOnly

\* As long as no byte is dropped the console executes every byte once at most,
\* and in the order they were typed: whatever the moments it polls its port at,
\* and however a line is cut by the end of what has arrived.
THEOREM PiecesAreExecutedOnce == Spec => PiecesExecutedOnce
<1> DEFINE Inv == PortInv /\ ConsoleInv /\ (rxtimeout # 0 => AnswerInv)
           Step == Execute /\ ~lost =>
                     /\ \A i \in 1 .. Len(line) : line[i] \notin ran
                     /\ \A i \in 2 .. Len(line) :
                          line[i] = [line[i - 1] EXCEPT !.nr = @ + 1]
<1>1. Init => Inv
  BY InitEstablishes, BootPieces, BootAnswers
<1>2. Inv /\ [Next]_vars => Inv'
  <2> SUFFICES ASSUME Inv, [Next]_vars PROVE Inv'
    OBVIOUS
  <2>1. PortInv'
    BY RxInterruptKeeps, TxInterruptKeeps, ReaderKeeps, ConsoleKeeps,
       WriterKeeps, StutterKeeps DEF Next, Interrupt, Client
  <2> QED  BY <2>1, PieceStep, AnswerStep
<1>3. Inv => Step
  <2> SUFFICES ASSUME Inv, Execute, ~lost
               PROVE  /\ \A i \in 1 .. Len(line) : line[i] \notin ran
                      /\ \A i \in 2 .. Len(line) :
                           line[i] = [line[i - 1] EXCEPT !.nr = @ + 1]
    OBVIOUS
  <2>1. pc = "parse" /\ Text = line
    BY DEF Execute, Text
  <2>2. rxtimeout = 0
    BY <2>1 DEF AnswerInv
  <2>3. PieceInv
    BY <2>2 DEF ConsoleInv
  <2>4. PICK p \in Int : /\ \A i \in 1 .. Len(line) : Nth(line[i]) = p + i
                         /\ \A b \in ran : Nth(b) <= p
    BY <2>1, <2>3 DEF PieceInv, Numbered
  <2>5. Len(line) \in Nat /\ \A i \in 1 .. Len(line) : line[i] \in Byte
    BY AnswerTypes, LenProperties
  <2>6. \A i \in 1 .. Len(line) : line[i] \notin ran
    BY <2>4, <2>5
  <2>7. ASSUME NEW i \in 2 .. Len(line)
        PROVE  line[i] = [line[i - 1] EXCEPT !.nr = @ + 1]
    <3>1. i \in 1 .. Len(line) /\ i - 1 \in 1 .. Len(line)
      BY <2>5
    <3>2. ~Ends(line[i]) /\ ~Ends(line[i - 1])
      BY <2>1, <2>3, <3>1 DEF PieceInv, Bytes
    <3>3. Nth(line[i]) = Nth(line[i - 1]) + 1
      BY <2>4, <3>1
    <3> QED  BY <2>5, <3>1, <3>2, <3>3, NthFacts
  <2> QED  BY <2>6, <2>7
<1>4. Inv /\ [Next]_vars => [Step]_vars
  BY <1>3
<1> QED  BY <1>1, <1>2, <1>4, PTL DEF Spec, PiecesExecutedOnce
=============================================================================
