------------------------------ MODULE SpscRing ------------------------------
(***************************************************************************)
(* lob::SpscRing: a ring of Size slots between one producer and one        *)
(* consumer.  Every access to shared memory is a step of its own; the      *)
(* acquire/release pairs make a slot's content visible with the counter    *)
(* that publishes it, so steps are taken on one shared memory.             *)
(***************************************************************************)
EXTENDS Integers, Sequences

CONSTANTS
  Size,    \* Capacity
  CtrMod,  \* head_ and tail_ are counters modulo CtrMod (2^64 in the code)
  CtrStart \* the counters of the empty ring at the start: 0 when it is new, k when
           \* k elements have gone through it

\* Capacity >= 2 is a power of two and so divides the range of size_t.
ASSUME SizeAssumption ==
  /\ Size \in Nat /\ CtrMod \in Nat /\ CtrStart \in 0..(CtrMod - 1)
  /\ Size >= 2 /\ CtrMod > Size /\ CtrMod % Size = 0

VARIABLES
  buf,     \* buf_
  head,    \* head_: the next slot to write
  tail,    \* tail_: the next slot to read
  prod,    \* the producer in try_push: its pc and its argument v
  cons,    \* the consumer in try_pop: its pc and its result out
  pushed,  \* auxiliary: what try_push accepted, in order
  popped   \* auxiliary: what try_pop returned, in order

ringVars == <<buf, head, tail, prod, cons, pushed, popped>>

NoValue == <<>>      \* T{}
IdleSide == [pc |-> "idle", val |-> NoValue]

RingInit ==
  /\ buf = [i \in 0..(Size - 1) |-> NoValue]
  /\ head = CtrStart /\ tail = CtrStart
  /\ prod = IdleSide /\ cons = IdleSide
  /\ pushed = <<>> /\ popped = <<>>

-----------------------------------------------------------------------------
FullMut_OffByOne == (head + 1 - tail) % CtrMod > Size + 1
Full == (head + 1 - tail) % CtrMod > Size

\* try_push(v) finds a free slot; a caller that sees Full returns false.
PushCheck(v) ==
  /\ prod.pc = "idle" /\ ~Full
  /\ prod' = [pc |-> "write", val |-> v]
  /\ UNCHANGED <<buf, head, tail, cons, pushed, popped>>

PushWriteMut_NextSlot ==
  /\ prod.pc = "write"
  /\ buf' = [buf EXCEPT ![(head + 1) % Size] = prod.val]
  /\ prod' = [prod EXCEPT !.pc = "store"]
  /\ UNCHANGED <<head, tail, cons, pushed, popped>>

PushWrite ==
  /\ prod.pc = "write"
  /\ buf' = [buf EXCEPT ![head % Size] = prod.val]
  /\ prod' = [prod EXCEPT !.pc = "store"]
  /\ UNCHANGED <<head, tail, cons, pushed, popped>>

PushStore ==
  /\ prod.pc = "store"
  /\ head' = (head + 1) % CtrMod
  /\ prod' = IdleSide
  /\ pushed' = Append(pushed, prod.val)
  /\ UNCHANGED <<buf, tail, cons, popped>>

-----------------------------------------------------------------------------
Empty == tail = head

\* try_pop finds an element; a caller that sees Empty gets false.
PopCheck ==
  /\ cons.pc = "idle" /\ ~Empty
  /\ cons' = [cons EXCEPT !.pc = "read"]
  /\ UNCHANGED <<buf, head, tail, prod, pushed, popped>>

PopRead ==
  /\ cons.pc = "read"
  /\ cons' = [pc |-> "store", val |-> buf[tail % Size]]
  /\ UNCHANGED <<buf, head, tail, prod, pushed, popped>>

PopStore ==
  /\ cons.pc = "store"
  /\ tail' = (tail + 1) % CtrMod
  /\ cons' = IdleSide
  /\ popped' = Append(popped, cons.val)
  /\ UNCHANGED <<buf, head, prod, pushed>>

-----------------------------------------------------------------------------
\* The producer never writes a slot that the consumer is reading: buf_ is not
\* atomic, so the two counters alone keep the accesses apart.
NoSlotRace ==
  ~(prod.pc = "write" /\ cons.pc = "read" /\ head % Size = tail % Size)

\* The elements of the ring, oldest first, the one being published included.
Waiting == (head - tail) % CtrMod
Claimed == Waiting + IF prod.pc = "store" THEN 1 ELSE 0
Contents == [i \in 1..Claimed |-> buf[(tail + i - 1) % Size]]
=============================================================================
