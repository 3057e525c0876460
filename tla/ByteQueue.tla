----------------------------- MODULE ByteQueue ------------------------------
(***************************************************************************)
(* What the receiving half of a serial port promises to its reader: the    *)
(* bytes of the line in their order, none twice, and none dropped but for  *)
(* lack of room and with an error raised.                                  *)
(***************************************************************************)
EXTENDS Naturals, Sequences

CONSTANT Capacity  \* how many bytes the port holds

VARIABLES
  wire,   \* the bytes that have yet to arrive
  queue,  \* the bytes that have arrived and nobody has read
  err     \* an error has been raised and not cleared

queueVars == <<wire, queue, err>>

\* A byte may arrive damaged, which raises the error too
Arrive ==
  /\ wire # <<>> /\ wire' = Tail(wire)
  /\ \/ /\ Len(queue) < Capacity /\ queue' = Append(queue, Head(wire))
        /\ err' \in {err, TRUE}
     \/ Len(queue) = Capacity /\ queue' = queue /\ err' = TRUE

\* The other end starts to send some more bytes
Feed ==
  /\ Len(wire) <= Len(wire') /\ SubSeq(wire', 1, Len(wire)) = wire
  /\ UNCHANGED <<queue, err>>

Take == queue # <<>> /\ queue' = Tail(queue) /\ UNCHANGED <<wire, err>>

Discard == queue' = <<>> /\ UNCHANGED <<wire, err>>

SetError == err' \in BOOLEAN /\ UNCHANGED <<wire, queue>>

QueueInit == queue = <<>> /\ err = FALSE

QueueNext == Arrive \/ Feed \/ Take \/ Discard \/ SetError

QueueSpec == QueueInit /\ [][QueueNext]_queueVars
=============================================================================
