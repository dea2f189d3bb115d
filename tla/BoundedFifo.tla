---------------------------- MODULE BoundedFifo -----------------------------
(***************************************************************************)
(* What lob::MpscRing promises its callers: a FIFO of at most Size         *)
(* elements.  An element enters at the tail when its place is reserved and *)
(* may leave from the head once it is ready.                               *)
(***************************************************************************)
EXTENDS Naturals, Sequences

CONSTANTS Size, Values

VARIABLES queue,    \* the reserved elements, oldest first
          ready,    \* ready[i]: may queue[i] be delivered?
          delivered \* the elements handed to the consumer, oldest first

absVars == <<queue, ready, delivered>>

AbsInit == queue = <<>> /\ ready = <<>> /\ delivered = <<>>

Reserve ==
  /\ Len(queue) < Size
  /\ \E v \in Values : queue' = Append(queue, v)
  /\ ready' = Append(ready, FALSE)
  /\ UNCHANGED delivered

MakeReady ==
  /\ \E i \in 1..Len(queue) : ~ready[i] /\ ready' = [ready EXCEPT ![i] = TRUE]
  /\ UNCHANGED <<queue, delivered>>

Deliver ==
  /\ queue # <<>> /\ ready[1]
  /\ delivered' = Append(delivered, queue[1])
  /\ queue' = Tail(queue)
  /\ ready' = Tail(ready)

AbsNext == Reserve \/ MakeReady \/ Deliver

FifoSpec == AbsInit /\ [][AbsNext]_absVars
=============================================================================
