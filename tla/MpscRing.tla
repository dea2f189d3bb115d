------------------------------ MODULE MpscRing ------------------------------
(***************************************************************************)
(* lob::MpscRing<T, Size>: many producers call try_push, one consumer calls *)
(* try_pop, all concurrently.  Every access to memory that threads share   *)
(* (the positions, a slot's seq, a slot's data) is one step.               *)
(*                                                                         *)
(* Positions are natural numbers: a size_t would wrap after 2^64 pushes.   *)
(* The n-th value that producer p pushes is <<p, n>>; a push that finds    *)
(* the ring full is tried again with the same value, as the callers do.    *)
(***************************************************************************)
EXTENDS Integers, Sequences, FiniteSets

CONSTANTS
  Producers,
  Size,       \* the template parameter Capacity
  MaxPush     \* bound: the values each producer pushes

ASSUME SizeAssumption == Size \in Nat /\ Size >= 2
ASSUME MaxPushAssumption == MaxPush \in Nat

VARIABLES
  seq, data,   \* slots_[i].seq, slots_[i].data
  enq, deq,    \* enqueue_pos_, dequeue_pos_
  pc, pos,     \* per producer: where it is in try_push, its local pos
  sent,        \* per producer: how many of its pushes have returned true
  cpc,         \* where the consumer is in try_pop (its pos is deq throughout)
  out,         \* the value try_pop has copied
  claimed,     \* auxiliary: the values in the order of the successful CASes
  popped       \* auxiliary: the values try_pop has taken, in order

vars == <<seq, data, enq, deq, pc, pos, sent, cpc, out, claimed, popped>>
producerVars == <<pc, pos, sent>>
consumerVars == <<deq, cpc, out, popped>>

Indices == 0..(Size - 1)
Slot(i) == i % Size
NoValue == <<>>
Values == Producers \X (1..MaxPush)
Value(p) == <<p, sent[p] + 1>>

Init ==
  /\ seq = [i \in Indices |-> i]
  /\ data = [i \in Indices |-> NoValue]
  /\ enq = 0 /\ deq = 0
  /\ pc = [p \in Producers |-> "idle"]
  /\ pos = [p \in Producers |-> 0]
  /\ sent = [p \in Producers |-> 0]
  /\ cpc = "idle" /\ out = NoValue
  /\ claimed = <<>> /\ popped = <<>>

-----------------------------------------------------------------------------
\* try_push: load enqueue_pos_.
PushStart(p) ==
  /\ pc[p] = "idle" /\ sent[p] < MaxPush
  /\ pos' = [pos EXCEPT ![p] = enq]
  /\ pc' = [pc EXCEPT ![p] = "check"]
  /\ UNCHANGED <<seq, data, enq, sent, claimed, consumerVars>>

\* Load the slot's seq: the slot is free for this position, or holds the
\* element of the previous lap (full), or pos is out of date and is reloaded.
PushCheck(p) ==
  LET dif == seq[Slot(pos[p])] - pos[p] IN
  /\ pc[p] = "check"
  /\ pc' = [pc EXCEPT ![p] = IF dif = 0 THEN "cas"
                             ELSE IF dif < 0 THEN "idle" ELSE "reload"]
  /\ UNCHANGED <<seq, data, enq, pos, sent, claimed, consumerVars>>

PushReload(p) ==
  /\ pc[p] = "reload"
  /\ pos' = [pos EXCEPT ![p] = enq]
  /\ pc' = [pc EXCEPT ![p] = "check"]
  /\ UNCHANGED <<seq, data, enq, sent, claimed, consumerVars>>

PushCasMut_Always(p) ==
  /\ pc[p] = "cas"
  /\ enq' = enq + 1
  /\ claimed' = Append(claimed, Value(p))
  /\ pc' = [pc EXCEPT ![p] = "write"]
  /\ UNCHANGED <<seq, data, pos, sent, consumerVars>>

PushCas(p) ==
  /\ pc[p] = "cas" /\ enq = pos[p]
  /\ enq' = enq + 1
  /\ claimed' = Append(claimed, Value(p))
  /\ pc' = [pc EXCEPT ![p] = "write"]
  /\ UNCHANGED <<seq, data, pos, sent, consumerVars>>

\* compare_exchange_weak fails when another producer was faster, or spuriously;
\* it leaves the current position in pos.
PushCasFail(p) ==
  /\ pc[p] = "cas"
  /\ pos' = [pos EXCEPT ![p] = enq]
  /\ pc' = [pc EXCEPT ![p] = "check"]
  /\ UNCHANGED <<seq, data, enq, sent, claimed, consumerVars>>

PushWrite(p) ==
  /\ pc[p] = "write"
  /\ data' = [data EXCEPT ![Slot(pos[p])] = Value(p)]
  /\ pc' = [pc EXCEPT ![p] = "publish"]
  /\ UNCHANGED <<seq, enq, pos, sent, claimed, consumerVars>>

PushPublishMut_SamePos(p) ==
  /\ pc[p] = "publish"
  /\ seq' = [seq EXCEPT ![Slot(pos[p])] = pos[p]]
  /\ sent' = [sent EXCEPT ![p] = @ + 1]
  /\ pc' = [pc EXCEPT ![p] = "idle"]
  /\ UNCHANGED <<data, enq, pos, claimed, consumerVars>>

PushPublish(p) ==
  /\ pc[p] = "publish"
  /\ seq' = [seq EXCEPT ![Slot(pos[p])] = pos[p] + 1]
  /\ sent' = [sent EXCEPT ![p] = @ + 1]
  /\ pc' = [pc EXCEPT ![p] = "idle"]
  /\ UNCHANGED <<data, enq, pos, claimed, consumerVars>>

-----------------------------------------------------------------------------
\* try_pop: load the seq of the slot at dequeue_pos_; a negative difference
\* returns false.
PopCheckMut_NoCheck ==
  /\ cpc = "idle"
  /\ cpc' = "read"
  /\ UNCHANGED <<seq, data, enq, deq, out, claimed, popped, producerVars>>

PopCheck ==
  /\ cpc = "idle"
  /\ cpc' = IF seq[Slot(deq)] - (deq + 1) < 0 THEN "idle" ELSE "read"
  /\ UNCHANGED <<seq, data, enq, deq, out, claimed, popped, producerVars>>

PopRead ==
  /\ cpc = "read"
  /\ out' = data[Slot(deq)]
  /\ cpc' = "release"
  /\ UNCHANGED <<seq, data, enq, deq, claimed, popped, producerVars>>

PopReleaseMut_NextLap ==
  /\ cpc = "release"
  /\ seq' = [seq EXCEPT ![Slot(deq)] = deq + Size - 1]
  /\ popped' = Append(popped, out)
  /\ cpc' = "advance"
  /\ UNCHANGED <<data, enq, deq, out, claimed, producerVars>>

\* seq.store(pos + Size): from here on the slot belongs to the next lap.
PopRelease ==
  /\ cpc = "release"
  /\ seq' = [seq EXCEPT ![Slot(deq)] = deq + Size]
  /\ popped' = Append(popped, out)
  /\ cpc' = "advance"
  /\ UNCHANGED <<data, enq, deq, out, claimed, producerVars>>

PopAdvance ==
  /\ cpc = "advance"
  /\ deq' = deq + 1
  /\ cpc' = "idle"
  /\ UNCHANGED <<seq, data, enq, out, claimed, popped, producerVars>>

-----------------------------------------------------------------------------
ProducerStep(p) ==
  PushStart(p) \/ PushCheck(p) \/ PushReload(p) \/ PushCas(p) \/ PushCasFail(p)
    \/ PushWrite(p) \/ PushPublish(p)

ConsumerStep == PopCheck \/ PopRead \/ PopRelease \/ PopAdvance

Next == (\E p \in Producers : ProducerStep(p)) \/ ConsumerStep

SafetySpec == Init /\ [][Next]_vars

\* Every thread that is in the middle of a call keeps running, and the consumer
\* (MatchingPipeline::drain) polls again and again.  Nothing makes a producer
\* win its CAS.
Fairness ==
  /\ WF_vars(ConsumerStep)
  /\ \A p \in Producers : WF_vars(PushWrite(p) \/ PushPublish(p))

Spec == SafetySpec /\ Fairness

-----------------------------------------------------------------------------
\* The first position whose slot the consumer has not released.
Released == IF cpc = "advance" THEN deq + 1 ELSE deq

InPush(p) == pc[p] \in {"write", "publish"}

\* Positions are ordered, and each variable has its type.
TypeOK ==
  /\ seq \in [Indices -> Nat]
  /\ data \in [Indices -> Values \cup {NoValue}]
  /\ enq \in Nat /\ deq \in Nat
  /\ pc \in [Producers -> {"idle", "check", "reload", "cas", "write", "publish"}]
  /\ pos \in [Producers -> Nat]
  /\ sent \in [Producers -> 0..MaxPush]
  /\ cpc \in {"idle", "read", "release", "advance"}
  /\ out \in Values \cup {NoValue}
  /\ claimed \in Seq(Values) /\ popped \in Seq(Values \cup {NoValue})

\* The plain (non-atomic) field data of a slot is never written by one thread
\* while another writes or reads it.
NoDataRace ==
  /\ \A p, q \in Producers :
       p # q /\ pc[p] = "write" /\ pc[q] = "write" => Slot(pos[p]) # Slot(pos[q])
  /\ \A p \in Producers :
       pc[p] = "write" /\ cpc = "read" => Slot(pos[p]) # Slot(deq)

\* No value is lost, duplicated, torn or reordered: what the consumer took is
\* what the CASes claimed, in the same order.
PopsFollowClaims ==
  /\ Len(popped) <= Len(claimed)
  /\ \A i \in 1..Len(popped) : popped[i] = claimed[i]

\* try_push: "Returns false if the ring is full."  It returns false only then:
\* all Size slots hold elements that were claimed and not released.
PushFailsOnlyWhenFull ==
  [][\A p \in Producers :
       pc[p] = "check" /\ pc'[p] = "idle" => enq - Released = Size]_vars

\* Every value whose slot was claimed reaches the consumer.
ClaimedIsDelivered ==
  \A n \in 1..(MaxPush * Cardinality(Producers)) : Len(claimed) >= n ~> Len(popped) >= n

\* The ring implements a bounded FIFO: an element is reserved by the CAS, ready
\* when seq is published, and delivered when the consumer releases the slot.
Fifo == INSTANCE BoundedFifo WITH
  queue <- SubSeq(claimed, Released + 1, enq),
  ready <- [i \in 1..(enq - Released) |->
              seq[Slot(Released + i - 1)] = Released + i],
  delivered <- popped

ImplementsFifo == Fifo!FifoSpec
=============================================================================
