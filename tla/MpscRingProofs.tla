--------------------------- MODULE MpscRingProofs ---------------------------
(***************************************************************************)
(* The ring delivers what was pushed, in claim order, without data races,  *)
(* and implements BoundedFifo: for any set of producers, any Size >= 2 and *)
(* any number of pushes.                                                   *)
(***************************************************************************)
EXTENDS MpscRing, SequenceTheorems, TLAPS

-----------------------------------------------------------------------------
(***************************************************************************)
(* Positions and slots: Size consecutive positions have different slots,   *)
(* and a position shares its slot with the one a lap later.                *)
(***************************************************************************)
LEMMA SlotType == ASSUME NEW i \in Nat PROVE Slot(i) \in Indices
BY SizeAssumption DEF Slot, Indices

LEMMA Division ==
  ASSUME NEW i \in Nat
  PROVE  i \div Size \in Int /\ i = Size * (i \div Size) + Slot(i)
BY SizeAssumption DEF Slot

LEMMA MultipleStep ==
  ASSUME NEW a \in Int, NEW b \in Int, a < b
  PROVE  Size * b >= Size * a + Size
<1>1. b >= a + 1
  OBVIOUS
<1>2. Size * b >= Size * (a + 1)
  BY <1>1, SizeAssumption
<1>3. QED
  BY <1>2, SizeAssumption

LEMMA SlotDistinct ==
  ASSUME NEW i \in Nat, NEW j \in Nat, i < j, j < i + Size
  PROVE  Slot(i) # Slot(j)
<1> SUFFICES ASSUME Slot(i) = Slot(j) PROVE FALSE
  OBVIOUS
<1> DEFINE a == i \div Size
           b == j \div Size
           r == Slot(i)
<1>1. a \in Int /\ b \in Int /\ r \in Int /\ i = Size * a + r /\ j = Size * b + r
  BY Division, SlotType DEF Indices
<1> HIDE DEF a, b, r
<1>2. CASE a < b
  BY <1>1, <1>2, MultipleStep, SizeAssumption
<1>3. CASE b <= a
  <2>1. Size * b <= Size * a
    BY <1>1, <1>3, SizeAssumption
  <2>2. QED
    BY <1>1, <2>1, SizeAssumption
<1>4. QED
  BY <1>1, <1>2, <1>3

LEMMA SlotNextLap == ASSUME NEW i \in Nat PROVE Slot(i + Size) = Slot(i)
<1> DEFINE a == i \div Size
           b == (i + Size) \div Size
           r == Slot(i)
           t == Slot(i + Size)
<1>1. a \in Int /\ r \in 0..(Size - 1) /\ i = Size * a + r
  BY Division, SlotType DEF Indices
<1>2. b \in Int /\ t \in 0..(Size - 1) /\ i + Size = Size * b + t
  <2>1. i + Size \in Nat
    BY SizeAssumption
  <2>2. QED
    BY <2>1, Division, SlotType DEF Indices
<1> HIDE DEF a, b, r, t
<1>3. Size * (a + 1) = Size * a + Size
  BY <1>1, SizeAssumption
<1>4. ~(a + 1 < b)
  <2> SUFFICES ASSUME a + 1 < b PROVE FALSE
    OBVIOUS
  <2>1. Size * b >= Size * (a + 1) + Size
    BY <1>1, <1>2, MultipleStep
  <2>2. QED
    BY <1>1, <1>2, <1>3, <2>1, SizeAssumption
<1>5. ~(b < a + 1)
  <2> SUFFICES ASSUME b < a + 1 PROVE FALSE
    OBVIOUS
  <2>1. Size * (a + 1) >= Size * b + Size
    BY <1>1, <1>2, MultipleStep
  <2>2. QED
    BY <1>1, <1>2, <1>3, <2>1, SizeAssumption
<1>6. b = a + 1
  BY <1>1, <1>2, <1>4, <1>5
<1>7. t = r
  BY <1>1, <1>2, <1>3, <1>6, SizeAssumption
<1>8. QED
  BY <1>7 DEF r, t

-----------------------------------------------------------------------------
(***************************************************************************)
(* The inductive invariant.  The window of live positions starts at        *)
(* Released and is Size long; its slots are all different, and seq tells   *)
(* for each of them whether it is free (i), claimed (i) or published (i+1). *)
(***************************************************************************)
WindowInv ==
  /\ Released <= enq /\ enq <= Released + Size
  /\ Len(claimed) = enq
  /\ Len(popped) = Released
  /\ \A i \in 1..Len(popped) : popped[i] = claimed[i]

SlotInv ==
  \A i \in Nat : Released <= i /\ i < Released + Size =>
    /\ seq[Slot(i)] \in {i, i + 1}
    /\ seq[Slot(i)] = i + 1 => i < enq /\ data[Slot(i)] = claimed[i + 1]

ProducerOK(p) ==
  /\ pc[p] # "idle" => sent[p] < MaxPush
  /\ pc[p] \in {"check", "cas", "reload"} =>
       /\ pos[p] <= enq
       /\ seq[Slot(pos[p])] < pos[p] => pos[p] = Released + Size
  /\ pc[p] = "cas" => seq[Slot(pos[p])] >= pos[p]
  /\ InPush(p) =>
       /\ Released <= pos[p] /\ pos[p] < enq
       /\ seq[Slot(pos[p])] = pos[p]
       /\ claimed[pos[p] + 1] = Value(p)
       /\ pc[p] = "publish" => data[Slot(pos[p])] = Value(p)

ProducerInv == \A p \in Producers : ProducerOK(p)

ExclusiveInv ==
  \A p, q \in Producers : p # q /\ InPush(p) /\ InPush(q) => pos[p] # pos[q]

ConsumerInv ==
  /\ cpc \in {"read", "release"} => seq[Slot(deq)] = deq + 1
  /\ cpc = "release" => out = claimed[deq + 1]

RingInv == TypeOK /\ WindowInv /\ SlotInv /\ ProducerInv /\ ExclusiveInv /\ ConsumerInv

LEMMA InitRing == Init => RingInv
<1> SUFFICES ASSUME Init PROVE RingInv
  OBVIOUS
<1> USE SizeAssumption, MaxPushAssumption DEF Init
<1>1. TypeOK
  BY DEF TypeOK, Indices, NoValue
<1>2. Released = 0
  BY DEF Released
<1>3. WindowInv
  BY <1>2 DEF WindowInv
<1>4. SlotInv
  BY <1>2, SMTT(30) DEF SlotInv, Slot, Indices
<1>5. ProducerInv /\ ExclusiveInv /\ ConsumerInv
  BY DEF ProducerInv, ProducerOK, ExclusiveInv, ConsumerInv, InPush
<1>6. QED
  BY <1>1, <1>3, <1>4, <1>5 DEF RingInv

\* A value being pushed is one of Values.
LEMMA ValueType ==
  ASSUME TypeOK, ProducerInv, NEW p \in Producers, pc[p] # "idle"
  PROVE  Value(p) \in Values
BY MaxPushAssumption DEF TypeOK, ProducerInv, ProducerOK, Value, Values

LEMMA TypePreserved == RingInv /\ [Next]_vars => TypeOK'
<1> SUFFICES ASSUME RingInv, [Next]_vars PROVE TypeOK'
  OBVIOUS
<1> USE SizeAssumption, MaxPushAssumption DEF RingInv, TypeOK
<1>1. ASSUME NEW p \in Producers, PushStart(p) \/ PushReload(p) \/ PushCasFail(p)
      PROVE  TypeOK'
  BY <1>1 DEF PushStart, PushReload, PushCasFail, consumerVars
<1>2. ASSUME NEW p \in Producers, PushCheck(p) PROVE TypeOK'
  BY <1>2 DEF PushCheck, consumerVars
<1>3. ASSUME NEW p \in Producers, PushCas(p) PROVE TypeOK'
  <2>1. Value(p) \in Values
    BY <1>3, ValueType DEF PushCas
  <2>2. QED
    BY <1>3, <2>1 DEF PushCas, consumerVars
<1>4. ASSUME NEW p \in Producers, PushWrite(p) PROVE TypeOK'
  <2>1. Value(p) \in Values
    BY <1>4, ValueType DEF PushWrite
  <2>2. QED
    BY <1>4, <2>1 DEF PushWrite, consumerVars
<1>5. ASSUME NEW p \in Producers, PushPublish(p) PROVE TypeOK'
  <2>1. sent[p] + 1 \in 0..MaxPush /\ pos[p] + 1 \in Nat
    <3>1. ProducerOK(p) /\ pc[p] = "publish"
      BY <1>5 DEF PushPublish, ProducerInv
    <3>2. QED
      BY <3>1 DEF ProducerOK
  <2>2. seq' \in [Indices -> Nat]
    BY <1>5, <2>1, SlotType DEF PushPublish
  <2>3. sent' \in [Producers -> 0..MaxPush]
    BY <1>5, <2>1 DEF PushPublish
  <2>4. QED
    BY <1>5, <2>2, <2>3 DEF PushPublish, consumerVars
<1>6. CASE PopCheck
  BY <1>6 DEF PopCheck, producerVars
<1>7. CASE PopRead
  BY <1>7, SlotType DEF PopRead, producerVars
<1>8. CASE PopRelease
  <2>1. popped' \in Seq(Values \cup {NoValue})
    BY <1>8 DEF PopRelease
  <2>2. seq' \in [Indices -> Nat]
    <3>1. deq + Size \in Nat
      OBVIOUS
    <3>2. QED
      BY <1>8, <3>1, Zenon DEF PopRelease
  <2>3. QED
    BY <1>8, <2>1, <2>2 DEF PopRelease, producerVars
<1>9. CASE PopAdvance
  BY <1>9 DEF PopAdvance, producerVars
<1>10. CASE UNCHANGED vars
  BY <1>10 DEF vars
<1>11. QED
  BY <1>1, <1>2, <1>3, <1>4, <1>5, <1>6, <1>7, <1>8, <1>9, <1>10
  DEF Next, ProducerStep, ConsumerStep

\* A producer whose position is current has a free slot: if the ring were full,
\* the slot would hold an element of the previous lap, whose seq is smaller.
LEMMA ClaimIsFree ==
  ASSUME RingInv, NEW p \in Producers, PushCas(p)
  PROVE  enq < Released + Size /\ seq[Slot(enq)] = enq
<1> USE SizeAssumption DEF RingInv, TypeOK
<1>1. pos[p] = enq /\ seq[Slot(enq)] >= enq /\ Released \in Nat
  BY DEF PushCas, ProducerInv, ProducerOK, Released
<1>2. ~(enq = Released + Size)
  <2> SUFFICES ASSUME enq = Released + Size PROVE FALSE
    OBVIOUS
  <2>1. Slot(enq) = Slot(Released)
    BY <1>1, SlotNextLap
  <2>2. seq[Slot(Released)] \in {Released, Released + 1}
    BY <1>1 DEF SlotInv
  <2>3. QED
    BY <1>1, <2>1, <2>2
<1>3. enq < Released + Size
  BY <1>1, <1>2 DEF WindowInv
<1>4. QED
  BY <1>1, <1>3 DEF SlotInv, WindowInv

-----------------------------------------------------------------------------
(***************************************************************************)
(* Preservation of the other parts, one lemma per kind of step.            *)
(***************************************************************************)
Rest == WindowInv /\ SlotInv /\ ProducerInv /\ ExclusiveInv /\ ConsumerInv

\* try_push up to its CAS changes only the producer's locals.
LEMMA LookStep ==
  ASSUME RingInv, NEW p \in Producers,
         PushStart(p) \/ PushCheck(p) \/ PushReload(p) \/ PushCasFail(p)
  PROVE  Rest'
<1> USE SizeAssumption DEF RingInv, TypeOK
<1>1. UNCHANGED <<seq, data, enq, sent, claimed, deq, cpc, out, popped>>
  BY DEF PushStart, PushCheck, PushReload, PushCasFail, consumerVars
<1>2. Released' = Released /\ Released \in Nat
  BY <1>1 DEF Released
<1>3. WindowInv' /\ SlotInv' /\ ConsumerInv'
  BY <1>1, <1>2 DEF WindowInv, SlotInv, ConsumerInv
<1>4. \A q \in Producers \ {p} : pc'[q] = pc[q] /\ pos'[q] = pos[q]
  BY DEF PushStart, PushCheck, PushReload, PushCasFail
<1>5. ~InPush(p)' /\ ~InPush(p)
  BY DEF PushStart, PushCheck, PushReload, PushCasFail, InPush
<1>6. ExclusiveInv'
  BY <1>4, <1>5 DEF ExclusiveInv, InPush
<1>7. seq[Slot(enq)] < enq => enq = Released + Size
  BY <1>2 DEF WindowInv, SlotInv
<1>8. ProducerInv'
  <2> SUFFICES ASSUME NEW q \in Producers PROVE ProducerOK(q)'
    BY DEF ProducerInv
  <2>0. ProducerOK(q) /\ pos[q] \in Nat /\ Slot(pos[q]) \in Indices
    BY SlotType DEF ProducerInv
  <2>1. CASE q # p
    BY <1>1, <1>2, <1>4, <2>0, <2>1 DEF ProducerOK, InPush, Value
  <2>2. CASE q = p /\ PushCheck(p)
    BY <1>1, <1>2, <1>5, <2>0, <2>2 DEF ProducerOK, PushCheck
  <2>3. CASE q = p /\ (PushStart(p) \/ PushReload(p) \/ PushCasFail(p))
    <3>1. pos'[p] = enq /\ pc'[p] = "check" /\ sent[p] < MaxPush
      BY <2>0, <2>3 DEF ProducerOK, PushStart, PushReload, PushCasFail
    <3>2. QED
      BY <1>1, <1>2, <1>5, <1>7, <2>3, <3>1 DEF ProducerOK
  <2>4. QED
    BY <2>1, <2>2, <2>3
<1>9. QED
  BY <1>3, <1>6, <1>8 DEF Rest

\* The successful CAS extends the window's claimed part by one position.
LEMMA CasStep ==
  ASSUME RingInv, NEW p \in Producers, PushCas(p)
  PROVE  Rest'
<1> USE SizeAssumption DEF RingInv, TypeOK
<1>1. enq < Released + Size /\ seq[Slot(enq)] = enq
  BY ClaimIsFree
<1>2. /\ UNCHANGED <<seq, data, pos, sent, deq, cpc, out, popped>>
      /\ enq' = enq + 1 /\ pos[p] = enq
      /\ claimed' = Append(claimed, Value(p))
      /\ pc' = [pc EXCEPT ![p] = "write"]
      /\ pc[p] = "cas"
  BY DEF PushCas, consumerVars
<1>3. Released' = Released /\ Released \in Nat
  BY <1>2 DEF Released
<1>4. /\ Len(claimed') = enq + 1 /\ claimed'[enq + 1] = Value(p)
      /\ \A i \in 1..enq : claimed'[i] = claimed[i]
  <2>1. Value(p) \in Values
    BY <1>2, ValueType
  <2>2. QED
    BY <1>2, <2>1 DEF WindowInv
<1>5. WindowInv'
  BY <1>1, <1>2, <1>3, <1>4 DEF WindowInv
<1>6. SlotInv'
  BY <1>2, <1>3, <1>4 DEF SlotInv
<1>7. ExclusiveInv'
  BY <1>2 DEF ExclusiveInv, ProducerInv, ProducerOK, InPush
<1>8. ProducerInv'
  <2> SUFFICES ASSUME NEW q \in Producers PROVE ProducerOK(q)'
    BY DEF ProducerInv
  <2>0. ProducerOK(q) /\ pos[q] \in Nat /\ Slot(pos[q]) \in Indices
    BY SlotType DEF ProducerInv
  <2>1. CASE q # p
    <3>1. pc'[q] = pc[q] /\ pos'[q] = pos[q] /\ Value(q)' = Value(q)
      BY <1>2, <2>1 DEF Value
    <3>2. ASSUME InPush(q) PROVE claimed'[pos[q] + 1] = claimed[pos[q] + 1]
      <4>1. pos[q] + 1 \in 1..enq
        BY <1>3, <2>0, <3>2 DEF ProducerOK
      <4>2. QED
        BY <1>4, <4>1
    <3>3. InPush(q)' <=> InPush(q)
      BY <3>1 DEF InPush
    <3>4. sent' = sent /\ seq' = seq /\ data' = data /\ Released' = Released /\ enq' = enq + 1
      BY <1>2, <1>3
    <3>5. QED
      BY <1>3, <2>0, <3>1, <3>2, <3>3, <3>4 DEF ProducerOK
  <2>2. CASE q = p
    BY <1>1, <1>2, <1>3, <1>4, <2>0, <2>2 DEF ProducerOK, WindowInv, Value
  <2>3. QED
    BY <2>1, <2>2
<1>9. ConsumerInv'
  <2>1. ASSUME cpc = "release" PROVE deq + 1 \in 1..enq
    <3>1. Released = deq /\ seq[Slot(deq)] = deq + 1
      BY <2>1 DEF Released, ConsumerInv
    <3>2. deq < enq
      BY <3>1 DEF SlotInv
    <3>3. QED
      BY <3>2
  <2>2. QED
    BY <1>2, <1>4, <2>1 DEF ConsumerInv
<1>10. QED
  BY <1>5, <1>6, <1>7, <1>8, <1>9 DEF Rest

\* In the window the producer's slot differs from every other position's slot.
LEMMA OtherSlot ==
  ASSUME RingInv, NEW i \in Nat, NEW j \in Nat, i # j,
         Released <= i, i < Released + Size, Released <= j, j < Released + Size
  PROVE  Slot(i) # Slot(j)
<1>1. Released \in Nat
  BY DEF RingInv, TypeOK, Released
<1>2. CASE i < j
  BY <1>1, <1>2, SlotDistinct, SizeAssumption
<1>3. CASE j < i
  BY <1>1, <1>3, SlotDistinct, SizeAssumption
<1>4. QED
  BY <1>2, <1>3

\* The store of data goes to a slot that nobody else uses.
LEMMA WriteStep ==
  ASSUME RingInv, NEW p \in Producers, PushWrite(p)
  PROVE  Rest'
<1> USE SizeAssumption DEF RingInv, TypeOK
<1>1. /\ UNCHANGED <<seq, enq, pos, sent, claimed, deq, cpc, out, popped>>
      /\ data' = [data EXCEPT ![Slot(pos[p])] = Value(p)]
      /\ pc' = [pc EXCEPT ![p] = "publish"]
      /\ pc[p] = "write"
  BY DEF PushWrite, consumerVars
<1>2. Released' = Released /\ Released \in Nat /\ pos[p] \in Nat
  BY <1>1 DEF Released
<1>3. /\ Released <= pos[p] /\ pos[p] < enq /\ enq <= Released + Size
      /\ seq[Slot(pos[p])] = pos[p] /\ Slot(pos[p]) \in Indices
  BY <1>1, <1>2, SlotType DEF ProducerInv, ProducerOK, InPush, WindowInv
<1>4. WindowInv' /\ ConsumerInv'
  BY <1>1, <1>2 DEF WindowInv, ConsumerInv
<1>5. SlotInv'
  <2> SUFFICES ASSUME NEW i \in Nat, Released <= i, i < Released + Size
               PROVE  /\ seq[Slot(i)] \in {i, i + 1}
                      /\ seq[Slot(i)] = i + 1 => i < enq /\ data'[Slot(i)] = claimed[i + 1]
    BY <1>1, <1>2 DEF SlotInv
  <2>1. CASE i = pos[p]
    BY <1>2, <1>3, <2>1 DEF SlotInv
  <2>2. CASE i # pos[p]
    <3>1. Slot(i) # Slot(pos[p])
      BY <1>2, <1>3, <2>2, OtherSlot
    <3>2. data'[Slot(i)] = data[Slot(i)]
      BY <1>1, <3>1, SlotType
    <3>3. QED
      BY <3>2 DEF SlotInv
  <2>3. QED
    BY <2>1, <2>2
<1>6. \A q \in Producers : (InPush(q)' <=> InPush(q)) /\ Value(q)' = Value(q)
  BY <1>1 DEF InPush, Value
<1>7. ExclusiveInv'
  BY <1>1, <1>6 DEF ExclusiveInv
<1>8. ProducerInv'
  <2> SUFFICES ASSUME NEW q \in Producers PROVE ProducerOK(q)'
    BY DEF ProducerInv
  <2>0. ProducerOK(q) /\ pos[q] \in Nat
    BY DEF ProducerInv
  <2>1. CASE q # p
    <3>1. ASSUME InPush(q) PROVE data'[Slot(pos[q])] = data[Slot(pos[q])]
      <4>1. pos[q] # pos[p]
        BY <1>1, <2>1, <3>1 DEF ExclusiveInv, InPush
      <4>2. Released <= pos[q] /\ pos[q] < Released + Size
        BY <1>2, <1>3, <2>0, <3>1 DEF ProducerOK
      <4>3. Slot(pos[q]) # Slot(pos[p])
        BY <1>2, <1>3, <2>0, <4>1, <4>2, OtherSlot
      <4>4. QED
        BY <1>1, <2>0, <4>3, SlotType
    <3>2. pc'[q] = pc[q]
      BY <1>1, <2>1
    <3>3. QED
      BY <1>1, <1>2, <1>6, <2>0, <3>1, <3>2 DEF ProducerOK, InPush
  <2>2. CASE q = p
    <3>1. data'[Slot(pos[p])] = Value(p) /\ pc'[p] = "publish" /\ InPush(p)
      BY <1>1, <1>3 DEF InPush
    <3>2. QED
      BY <1>1, <1>2, <1>6, <2>0, <2>2, <3>1 DEF ProducerOK
  <2>3. QED
    BY <2>1, <2>2
<1>9. QED
  BY <1>4, <1>5, <1>7, <1>8 DEF Rest

\* The store of seq publishes the producer's slot.
LEMMA PublishStep ==
  ASSUME RingInv, NEW p \in Producers, PushPublish(p)
  PROVE  Rest'
<1> USE SizeAssumption DEF RingInv, TypeOK
<1>1. /\ UNCHANGED <<data, enq, pos, claimed, deq, cpc, out, popped>>
      /\ seq' = [seq EXCEPT ![Slot(pos[p])] = pos[p] + 1]
      /\ sent' = [sent EXCEPT ![p] = @ + 1]
      /\ pc' = [pc EXCEPT ![p] = "idle"]
      /\ pc[p] = "publish"
  BY DEF PushPublish, consumerVars
<1>2. Released' = Released /\ Released \in Nat /\ pos[p] \in Nat
  BY <1>1 DEF Released
<1>3. /\ Released <= pos[p] /\ pos[p] < enq /\ enq <= Released + Size
      /\ seq[Slot(pos[p])] = pos[p] /\ Slot(pos[p]) \in Indices
      /\ data[Slot(pos[p])] = claimed[pos[p] + 1]
  BY <1>1, <1>2, SlotType DEF ProducerInv, ProducerOK, InPush, WindowInv
<1>4. \A i \in Nat : Released <= i /\ i < Released + Size /\ i # pos[p]
         => seq'[Slot(i)] = seq[Slot(i)]
  <2> SUFFICES ASSUME NEW i \in Nat, Released <= i, i < Released + Size, i # pos[p]
               PROVE  seq'[Slot(i)] = seq[Slot(i)]
    OBVIOUS
  <2>1. Slot(i) # Slot(pos[p])
    BY <1>2, <1>3, OtherSlot
  <2>2. Slot(i) \in Indices
    BY SlotType
  <2>3. QED
    BY <1>1, <2>1, <2>2
<1>5. WindowInv'
  BY <1>1, <1>2 DEF WindowInv
<1>6. SlotInv'
  <2> SUFFICES ASSUME NEW i \in Nat, Released <= i, i < Released + Size
               PROVE  /\ seq'[Slot(i)] \in {i, i + 1}
                      /\ seq'[Slot(i)] = i + 1 => i < enq /\ data[Slot(i)] = claimed[i + 1]
    BY <1>1, <1>2 DEF SlotInv
  <2>1. CASE i = pos[p]
    <3>1. seq'[Slot(pos[p])] = pos[p] + 1
      BY <1>1, <1>3
    <3>2. QED
      BY <1>2, <1>3, <2>1, <3>1
  <2>2. CASE i # pos[p]
    BY <1>4, <2>2 DEF SlotInv
  <2>3. QED
    BY <2>1, <2>2
<1>7. \A q \in Producers \ {p} : pc'[q] = pc[q] /\ sent'[q] = sent[q]
  BY <1>1
<1>8. ExclusiveInv'
  BY <1>1, <1>7 DEF ExclusiveInv, InPush
<1>9. ConsumerInv'
  <2>1. cpc \in {"read", "release"} => seq'[Slot(deq)] = seq[Slot(deq)]
    <3> SUFFICES ASSUME cpc \in {"read", "release"} PROVE seq'[Slot(deq)] = seq[Slot(deq)]
      OBVIOUS
    <3>1. Released = deq /\ deq \in Nat /\ seq[Slot(deq)] = deq + 1
      BY DEF ConsumerInv, Released
    <3>2. deq # pos[p]
      BY <1>3, <3>1
    <3>3. QED
      BY <1>4, <3>1, <3>2
  <2>2. QED
    BY <1>1, <2>1 DEF ConsumerInv
<1>10. ProducerInv'
  <2> SUFFICES ASSUME NEW q \in Producers PROVE ProducerOK(q)'
    BY DEF ProducerInv
  <2>0. ProducerOK(q) /\ pos[q] \in Nat /\ Slot(pos[q]) \in Indices
    BY SlotType DEF ProducerInv
  <2>1. CASE q # p
    <3>1. seq'[Slot(pos[q])] >= seq[Slot(pos[q])]
      BY <1>1, <1>3, <2>0
    <3>2. ASSUME InPush(q) PROVE seq'[Slot(pos[q])] = seq[Slot(pos[q])]
      <4>1. pos[q] # pos[p]
        BY <1>1, <2>1, <3>2 DEF ExclusiveInv, InPush
      <4>2. QED
        BY <1>2, <1>3, <1>4, <2>0, <3>2, <4>1 DEF ProducerOK
    <3>3. pc'[q] = pc[q] /\ (InPush(q)' <=> InPush(q)) /\ Value(q)' = Value(q)
      BY <1>7, <2>1 DEF InPush, Value
    <3>4. seq'[Slot(pos[q])] \in Nat
      BY <1>1, <1>2, <2>0
    <3>5. sent'[q] = sent[q]
      BY <1>7, <2>1
    <3>6. QED
      BY <1>1, <1>2, <2>0, <3>1, <3>2, <3>3, <3>4, <3>5 DEF ProducerOK
  <2>2. CASE q = p
    BY <1>1, <2>2 DEF ProducerOK, InPush
  <2>3. QED
    BY <2>1, <2>2
<1>11. QED
  BY <1>5, <1>6, <1>8, <1>9, <1>10 DEF Rest

\* try_pop's check finds the slot published exactly when its element is there;
\* the copy and the advance of dequeue_pos_ leave the window as it is.
LEMMA PopLookStep ==
  ASSUME RingInv, PopCheck \/ PopRead \/ PopAdvance
  PROVE  Rest'
<1> USE SizeAssumption DEF RingInv, TypeOK
<1>1. UNCHANGED <<seq, data, enq, pc, pos, sent, claimed, popped>>
  BY DEF PopCheck, PopRead, PopAdvance, producerVars
<1>2. Released' = Released /\ Released \in Nat
  BY DEF PopCheck, PopRead, PopAdvance, Released
<1>3. WindowInv' /\ SlotInv' /\ ExclusiveInv'
  BY <1>1, <1>2 DEF WindowInv, SlotInv, ExclusiveInv, InPush
<1>4. ProducerInv'
  BY <1>1, <1>2 DEF ProducerInv, ProducerOK, InPush, Value
<1>5. ConsumerInv'
  <2>1. CASE PopCheck
    <3>1. Released = deq /\ Slot(deq) \in Indices /\ deq \in Nat
      BY <2>1, SlotType DEF PopCheck, Released
    <3>2. seq[Slot(deq)] \in {deq, deq + 1}
      BY <3>1 DEF SlotInv
    <3>3. deq' = deq /\ cpc' \in {"idle", "read"} /\ (cpc' = "read" => seq[Slot(deq)] >= deq + 1)
      BY <2>1, <3>1, <3>2 DEF PopCheck
    <3>4. QED
      BY <1>1, <3>1, <3>2, <3>3 DEF ConsumerInv
  <2>2. CASE PopRead
    <3>1. Released = deq /\ deq \in Nat /\ seq[Slot(deq)] = deq + 1
      BY <2>2 DEF PopRead, Released, ConsumerInv
    <3>2. data[Slot(deq)] = claimed[deq + 1]
      BY <3>1 DEF SlotInv
    <3>3. QED
      BY <1>1, <2>2, <3>1, <3>2 DEF PopRead, ConsumerInv
  <2>3. CASE PopAdvance
    BY <2>3 DEF PopAdvance, ConsumerInv
  <2>4. QED
    BY <2>1, <2>2, <2>3
<1>6. QED
  BY <1>3, <1>4, <1>5 DEF Rest

\* Releasing the slot of the oldest position makes it the slot of the newest
\* one, a lap later: the window moves by one.
LEMMA ReleaseStep ==
  ASSUME RingInv, PopRelease
  PROVE  Rest'
<1> USE SizeAssumption DEF RingInv, TypeOK
<1>1. /\ UNCHANGED <<data, enq, deq, out, claimed, pc, pos, sent>>
      /\ seq' = [seq EXCEPT ![Slot(deq)] = deq + Size]
      /\ popped' = Append(popped, out)
      /\ cpc = "release" /\ cpc' = "advance"
  BY DEF PopRelease, producerVars
<1>2. Released = deq /\ Released' = deq + 1 /\ deq \in Nat /\ Slot(deq) \in Indices
  BY <1>1, SlotType DEF Released
<1>3. seq[Slot(deq)] = deq + 1 /\ out = claimed[deq + 1]
  BY <1>1 DEF ConsumerInv
<1>4. deq < enq
  BY <1>2, <1>3 DEF SlotInv
<1>5. \A i \in Nat : deq < i /\ i < deq + Size => seq'[Slot(i)] = seq[Slot(i)]
  <2> SUFFICES ASSUME NEW i \in Nat, deq < i, i < deq + Size
               PROVE  seq'[Slot(i)] = seq[Slot(i)]
    OBVIOUS
  <2>1. Slot(deq) # Slot(i)
    BY <1>2, SlotDistinct
  <2>2. Slot(i) \in Indices
    BY SlotType
  <2>3. QED
    BY <1>1, <2>1, <2>2
<1>6. seq'[Slot(deq)] = deq + Size /\ Slot(deq + Size) = Slot(deq)
  BY <1>1, <1>2, SlotNextLap
<1>7. WindowInv'
  <2>1. Len(popped') = deq + 1 /\ popped'[deq + 1] = claimed[deq + 1]
    BY <1>1, <1>2, <1>3 DEF WindowInv
  <2>2. \A i \in 1..deq : popped'[i] = claimed[i]
    BY <1>1, <1>2 DEF WindowInv
  <2>3. \A i \in 1..(deq + 1) : popped'[i] = claimed[i]
    BY <1>2, <2>1, <2>2
  <2>4. deq + 1 <= enq /\ enq <= deq + 1 + Size /\ Len(claimed) = enq
    BY <1>2, <1>4 DEF WindowInv
  <2>5. QED
    BY <1>1, <1>2, <2>1, <2>3, <2>4 DEF WindowInv
<1>8. SlotInv'
  <2> SUFFICES ASSUME NEW i \in Nat, deq + 1 <= i, i < deq + 1 + Size
               PROVE  /\ seq'[Slot(i)] \in {i, i + 1}
                      /\ seq'[Slot(i)] = i + 1 => i < enq /\ data[Slot(i)] = claimed[i + 1]
    BY <1>1, <1>2 DEF SlotInv
  <2>1. CASE i = deq + Size
    BY <1>2, <1>6, <2>1
  <2>2. CASE i < deq + Size
    <3>1. seq'[Slot(i)] = seq[Slot(i)]
      BY <1>2, <1>5, <2>2
    <3>2. QED
      BY <1>2, <2>2, <3>1 DEF SlotInv
  <2>3. QED
    BY <1>2, <2>1, <2>2
<1>9. ExclusiveInv' /\ ConsumerInv'
  BY <1>1 DEF ExclusiveInv, InPush, ConsumerInv
<1>10. ProducerInv'
  <2> SUFFICES ASSUME NEW q \in Producers PROVE ProducerOK(q)'
    BY DEF ProducerInv
  <2>0. ProducerOK(q) /\ pos[q] \in Nat /\ Slot(pos[q]) \in Indices
    BY SlotType DEF ProducerInv
  <2>1. pc'[q] = pc[q] /\ pos'[q] = pos[q] /\ sent' = sent
        /\ (InPush(q)' <=> InPush(q)) /\ Value(q)' = Value(q)
    BY <1>1 DEF InPush, Value
  <2>2. seq'[Slot(pos[q])] \in Nat /\ seq'[Slot(pos[q])] >= seq[Slot(pos[q])]
    BY <1>1, <1>2, <1>3, <2>0
  <2>3. ASSUME seq[Slot(pos[q])] < pos[q], pos[q] = deq + Size
        PROVE  ~(seq'[Slot(pos[q])] < pos[q])
    BY <1>2, <1>6, <2>3
  <2>4. ASSUME InPush(q)
        PROVE  deq < pos[q] /\ pos[q] < deq + Size /\ seq'[Slot(pos[q])] = seq[Slot(pos[q])]
    <3>1. deq <= pos[q] /\ pos[q] < enq /\ seq[Slot(pos[q])] = pos[q]
      BY <1>2, <2>0, <2>4 DEF ProducerOK
    <3>2. pos[q] # deq
      BY <1>2, <1>3, <3>1
    <3>3. pos[q] < deq + Size
      BY <1>2, <3>1, <2>0 DEF WindowInv
    <3>4. QED
      BY <1>2, <1>5, <2>0, <3>1, <3>2, <3>3
  <2>5. QED
    BY <1>1, <1>2, <2>0, <2>1, <2>2, <2>3, <2>4 DEF ProducerOK
<1>11. QED
  BY <1>7, <1>8, <1>9, <1>10 DEF Rest

-----------------------------------------------------------------------------
LEMMA RingPreserved == RingInv /\ [Next]_vars => RingInv'
<1> SUFFICES ASSUME RingInv, [Next]_vars PROVE RingInv'
  OBVIOUS
<1>1. TypeOK'
  BY TypePreserved
<1>2. ASSUME UNCHANGED vars PROVE Rest'
  BY <1>2
  DEF RingInv, Rest, vars, WindowInv, SlotInv, ProducerInv, ProducerOK, ExclusiveInv,
      ConsumerInv, Released, InPush, Value
<1>3. Rest'
  BY <1>2, LookStep, CasStep, WriteStep, PublishStep, PopLookStep, ReleaseStep
  DEF Next, ProducerStep, ConsumerStep
<1>4. QED
  BY <1>1, <1>3 DEF RingInv, Rest

LEMMA RingInvariance == SafetySpec => []RingInv
BY InitRing, RingPreserved, PTL DEF SafetySpec

\* The non-atomic field data is never accessed by two threads at once, one of
\* them writing.
THEOREM DataRaceFreedom == SafetySpec => []NoDataRace
<1>1. RingInv => NoDataRace
  <2> SUFFICES ASSUME RingInv PROVE NoDataRace
    OBVIOUS
  <2> USE DEF RingInv, TypeOK
  <2>1. \A p \in Producers : InPush(p) => /\ pos[p] \in Nat /\ Released <= pos[p]
                                          /\ pos[p] < Released + Size
    BY SizeAssumption DEF ProducerInv, ProducerOK, WindowInv, Released
  <2>2. ASSUME NEW p \in Producers, NEW q \in Producers, p # q, pc[p] = "write", pc[q] = "write"
        PROVE  Slot(pos[p]) # Slot(pos[q])
    BY <2>1, <2>2, OtherSlot DEF ExclusiveInv, InPush
  <2>3. ASSUME NEW p \in Producers, pc[p] = "write", cpc = "read"
        PROVE  Slot(pos[p]) # Slot(deq)
    <3>1. seq[Slot(pos[p])] = pos[p] /\ seq[Slot(deq)] = deq + 1
      BY <2>3 DEF ProducerInv, ProducerOK, ConsumerInv, InPush
    <3>2. pos[p] \in Nat /\ Released <= pos[p] /\ pos[p] < Released + Size /\ Released = deq
      BY <2>1, <2>3 DEF InPush, Released
    <3>3. CASE pos[p] = deq
      BY <3>1, <3>2, <3>3
    <3>4. CASE pos[p] # deq
      BY <3>2, <3>4, OtherSlot, SizeAssumption
    <3>5. QED
      BY <3>3, <3>4
  <2>4. QED
    BY <2>2, <2>3 DEF NoDataRace
<1>2. QED
  BY RingInvariance, <1>1, PTL

\* What try_pop hands out is what the CASes of try_push claimed, in that order.
THEOREM FifoDelivery == SafetySpec => []PopsFollowClaims
<1>1. RingInv => PopsFollowClaims
  BY DEF RingInv, TypeOK, WindowInv, PopsFollowClaims, Released
<1>2. QED
  BY RingInvariance, <1>1, PTL

\* try_push returns false only when all Size slots are claimed and unreleased.
THEOREM FullOnFailure == SafetySpec => PushFailsOnlyWhenFull
<1>1. ASSUME RingInv, [Next]_vars, NEW p \in Producers, pc[p] = "check", pc'[p] = "idle"
      PROVE  enq - Released = Size
  <2> USE DEF RingInv, TypeOK
  <2>1. PushCheck(p)
    <3>1. pc' # pc
      BY <1>1
    <3>2. ~ConsumerStep /\ ~UNCHANGED vars
      BY <3>1 DEF ConsumerStep, vars, producerVars, PopCheck, PopRead, PopRelease, PopAdvance
    <3>3. PICK q \in Producers : ProducerStep(q)
      BY <1>1, <3>2 DEF Next
    <3>4. q = p
      BY <1>1, <3>3 DEF ProducerStep, PushStart, PushCheck, PushReload, PushCas, PushCasFail,
                        PushWrite, PushPublish
    <3>5. QED
      BY <1>1, <3>3, <3>4 DEF ProducerStep, PushStart, PushReload, PushCas, PushCasFail,
                              PushWrite, PushPublish
  <2>2. seq[Slot(pos[p])] < pos[p]
    BY <1>1, <2>1, SlotType DEF PushCheck
  <2>3. pos[p] = Released + Size /\ pos[p] <= enq /\ enq <= Released + Size
    BY <1>1, <2>2 DEF ProducerInv, ProducerOK, WindowInv
  <2>4. QED
    BY <1>1, <2>3, SizeAssumption DEF Released
<1>2. RingInv /\ [Next]_vars =>
        [\A p \in Producers : pc[p] = "check" /\ pc'[p] = "idle" => enq - Released = Size]_vars
  BY <1>1
<1>3. QED
  BY RingInvariance, <1>2, PTL DEF SafetySpec, PushFailsOnlyWhenFull

-----------------------------------------------------------------------------
(***************************************************************************)
(* Refinement.  The abstract queue is the window of claimed positions that *)
(* are not released, and an element is ready when its slot is published.   *)
(***************************************************************************)
AbsQueue == SubSeq(claimed, Released + 1, enq)

AbsReady == [i \in 1..(enq - Released) |-> seq[Slot(Released + i - 1)] = Released + i]

LEMMA WindowSeq ==
  ASSUME NEW V, NEW c \in Seq(V), NEW lo \in Nat, NEW hi \in Nat, lo <= hi, Len(c) = hi
  PROVE  /\ SubSeq(c, lo + 1, hi) \in Seq(V)
         /\ Len(SubSeq(c, lo + 1, hi)) = hi - lo
         /\ \A i \in 1..(hi - lo) : SubSeq(c, lo + 1, hi)[i] = c[lo + i]
<1>1. \A i \in (lo + 1)..hi : c[i] \in V
  OBVIOUS
<1>2. /\ SubSeq(c, lo + 1, hi) \in Seq(V)
      /\ Len(SubSeq(c, lo + 1, hi)) = (IF lo + 1 <= hi THEN hi - (lo + 1) + 1 ELSE 0)
      /\ \A i \in 1..(hi - (lo + 1) + 1) : SubSeq(c, lo + 1, hi)[i] = c[lo + 1 + i - 1]
  <2>1. lo + 1 \in Int /\ hi \in Int
    OBVIOUS
  <2>2. QED
    BY <1>1, <2>1, SubSeqProperties
<1>3. QED
  BY <1>2

LEMMA FlagSeq ==
  ASSUME NEW n \in Nat, NEW f \in [1..n -> BOOLEAN]
  PROVE  f \in Seq(BOOLEAN) /\ Len(f) = n
BY SeqDef, LenProperties

\* The shape of the two abstract sequences.
AbsShape ==
  /\ Released \in Nat /\ enq - Released \in Nat
  /\ AbsQueue \in Seq(Values) /\ Len(AbsQueue) = enq - Released
  /\ \A i \in 1..(enq - Released) : AbsQueue[i] = claimed[Released + i]
  /\ AbsReady \in Seq(BOOLEAN) /\ Len(AbsReady) = enq - Released
  /\ \A i \in 1..(enq - Released) :
       AbsReady[i] = (seq[Slot(Released + i - 1)] = Released + i)

LEMMA AbstractShape == RingInv => AbsShape
<1> SUFFICES ASSUME RingInv PROVE AbsShape
  OBVIOUS
<1>1. /\ Released \in Nat /\ enq \in Nat /\ Released <= enq /\ enq - Released \in Nat
      /\ claimed \in Seq(Values) /\ Len(claimed) = enq
  BY DEF RingInv, TypeOK, WindowInv, Released
<1>2. /\ AbsQueue \in Seq(Values) /\ Len(AbsQueue) = enq - Released
      /\ \A i \in 1..(enq - Released) : AbsQueue[i] = claimed[Released + i]
  BY <1>1, WindowSeq DEF AbsQueue
<1>3. AbsReady \in [1..(enq - Released) -> BOOLEAN]
  BY Zenon DEF AbsReady
<1>4. AbsReady \in Seq(BOOLEAN) /\ Len(AbsReady) = enq - Released
  BY <1>1, <1>3, FlagSeq
<1>5. \A i \in 1..(enq - Released) :
        AbsReady[i] = (seq[Slot(Released + i - 1)] = Released + i)
  BY Zenon DEF AbsReady
<1>6. QED
  BY <1>1, <1>2, <1>4, <1>5 DEF AbsShape

LEMMA AbstractShapeNext == RingInv' => AbsShape'
BY AbstractShape, PTL

\* A step that leaves the window and seq alone is a stutter.
LEMMA WindowStutter ==
  ASSUME UNCHANGED <<seq, enq, claimed, popped>>, Released' = Released
  PROVE  UNCHANGED Fifo!absVars
BY DEF Fifo!absVars

\* The successful CAS reserves a place at the tail.
LEMMA CasReserves ==
  ASSUME RingInv, RingInv', NEW p \in Producers, PushCas(p)
  PROVE  Fifo!Reserve
<1>1. enq < Released + Size /\ seq[Slot(enq)] = enq
  BY ClaimIsFree
<1>2. /\ UNCHANGED <<seq, popped>> /\ Released' = Released
      /\ enq' = enq + 1 /\ claimed' = Append(claimed, Value(p))
  BY DEF PushCas, consumerVars, Released
<1>3. Value(p) \in Values
  BY ValueType DEF RingInv, PushCas
<1>4. /\ enq \in Nat /\ claimed \in Seq(Values) /\ Len(claimed) = enq
      /\ Released \in Nat /\ enq - Released \in Nat
  BY AbstractShape DEF AbsShape, RingInv, TypeOK, WindowInv
<1>5. AbsQueue' = Append(AbsQueue, Value(p))
  <2> DEFINE t == Append(AbsQueue, Value(p))
             n == enq - Released
  <2>1. t \in Seq(Values) /\ Len(t) = n + 1 /\ t[n + 1] = Value(p)
        /\ \A i \in 1..n : t[i] = claimed[Released + i]
    BY <1>3, AbstractShape, AppendProperties DEF AbsShape
  <2>2. /\ AbsQueue' \in Seq(Values) /\ Len(AbsQueue') = n + 1
        /\ \A i \in 1..(n + 1) : AbsQueue'[i] = claimed'[Released + i]
    <3>1. enq' - Released' = n + 1
      BY <1>2, <1>4
    <3>2. QED
      BY <1>2, <3>1, AbstractShapeNext DEF AbsShape
  <2>3. \A i \in 1..n : claimed'[Released + i] = claimed[Released + i]
    BY <1>2, <1>3, <1>4
  <2>4. claimed'[Released + (n + 1)] = Value(p)
    BY <1>2, <1>3, <1>4
  <2>5. \A i \in 1..(n + 1) : AbsQueue'[i] = t[i]
    <3> SUFFICES ASSUME NEW i \in 1..(n + 1) PROVE AbsQueue'[i] = t[i]
      OBVIOUS
    <3> HIDE DEF t
    <3>1. CASE i \in 1..n
      BY <2>1, <2>2, <2>3, <3>1
    <3>2. CASE i = n + 1
      BY <2>1, <2>2, <2>4, <3>2
    <3>3. QED
      BY <1>4, <3>1, <3>2
  <2> HIDE DEF t
  <2>6. AbsQueue' = t
    BY <2>1, <2>2, <2>5, SeqEqual
  <2>7. QED
    BY <2>6 DEF t
<1>6. AbsReady' = Append(AbsReady, FALSE)
  <2> DEFINE t == Append(AbsReady, FALSE)
             n == enq - Released
  <2>1. t \in Seq(BOOLEAN) /\ Len(t) = n + 1 /\ t[n + 1] = FALSE
        /\ \A i \in 1..n : t[i] = AbsReady[i]
    <3>1. AbsReady \in Seq(BOOLEAN) /\ Len(AbsReady) = n /\ FALSE \in BOOLEAN
      BY AbstractShape DEF AbsShape
    <3>2. /\ t \in Seq(BOOLEAN) /\ Len(t) = Len(AbsReady) + 1
          /\ t[Len(AbsReady) + 1] = FALSE
          /\ \A i \in 1..Len(AbsReady) : t[i] = AbsReady[i]
      BY <3>1, AppendProperties, Zenon
    <3> HIDE DEF t, n
    <3>3. QED
      BY <3>1, <3>2, Zenon
  <2>2. /\ AbsReady' \in Seq(BOOLEAN) /\ Len(AbsReady') = n + 1
        /\ \A i \in 1..(n + 1) : AbsReady'[i] = (seq[Slot(Released + i - 1)] = Released + i)
    <3>1. enq' - Released' = n + 1
      BY <1>2, <1>4
    <3>2. QED
      BY <1>2, <3>1, AbstractShapeNext DEF AbsShape
  <2>3. ~(seq[Slot(Released + (n + 1) - 1)] = Released + (n + 1))
    <3>1. Released + (n + 1) - 1 = enq /\ Released + (n + 1) = enq + 1
      BY <1>4
    <3>2. enq # enq + 1
      BY <1>4
    <3>3. QED
      BY <1>1, <3>1, <3>2, Zenon
  <2>4. \A i \in 1..(n + 1) : AbsReady'[i] = t[i]
    <3> SUFFICES ASSUME NEW i \in 1..(n + 1) PROVE AbsReady'[i] = t[i]
      OBVIOUS
    <3> HIDE DEF t
    <3>1. CASE i \in 1..n
      BY <2>1, <2>2, <3>1, AbstractShape, Zenon DEF AbsShape
    <3>2. CASE i = n + 1
      BY <2>1, <2>2, <2>3, <3>2, Zenon
    <3>3. QED
      BY <1>4, <3>1, <3>2
  <2> HIDE DEF t
  <2>5. AbsReady' = t
    BY <2>1, <2>2, <2>4, SeqEqual
  <2>6. QED
    BY <2>5 DEF t
<1>7. Len(AbsQueue) < Size
  BY <1>1, <1>4, AbstractShape, SizeAssumption DEF AbsShape
<1>8. QED
  BY <1>2, <1>3, <1>5, <1>6, <1>7 DEF Fifo!Reserve, AbsQueue, AbsReady

\* The store of seq makes the producer's element ready.
LEMMA PublishMakesReady ==
  ASSUME RingInv, RingInv', NEW p \in Producers, PushPublish(p)
  PROVE  Fifo!MakeReady
<1>1. /\ UNCHANGED <<enq, claimed, popped>> /\ Released' = Released
      /\ seq' = [seq EXCEPT ![Slot(pos[p])] = pos[p] + 1]
  BY DEF PushPublish, consumerVars, Released
<1>2. /\ pos[p] \in Nat /\ Released \in Nat /\ enq \in Nat /\ Slot(pos[p]) \in Indices
      /\ Released <= pos[p] /\ pos[p] < enq /\ enq <= Released + Size
      /\ seq[Slot(pos[p])] = pos[p] /\ seq \in [Indices -> Nat]
  <2>1. /\ pos[p] \in Nat /\ Released \in Nat /\ enq \in Nat /\ seq \in [Indices -> Nat]
        /\ ProducerOK(p) /\ InPush(p) /\ enq <= Released + Size
    BY DEF RingInv, TypeOK, WindowInv, ProducerInv, InPush, PushPublish, Released
  <2>2. QED
    BY <2>1, SlotType DEF ProducerOK
<1> DEFINE k == pos[p] - Released + 1
           n == enq - Released
<1>3. k \in 1..n /\ n \in Nat /\ Released + k - 1 = pos[p] /\ Released + k = pos[p] + 1
  BY <1>2
<1>4. AbsReady[k] = FALSE
  <2>1. AbsReady[k] = (seq[Slot(Released + k - 1)] = Released + k)
    BY <1>3, AbstractShape DEF AbsShape
  <2>2. ~(seq[Slot(Released + k - 1)] = Released + k)
    BY <1>2, <1>3
  <2>3. QED
    BY <2>1, <2>2, Zenon
<1>5. AbsReady' = [AbsReady EXCEPT ![k] = TRUE]
  <2> DEFINE t == [AbsReady EXCEPT ![k] = TRUE]
  <2> HIDE DEF k, n
  <2>1. t \in Seq(BOOLEAN) /\ Len(t) = n
        /\ \A i \in 1..n : t[i] = IF i = k THEN TRUE ELSE AbsReady[i]
    BY <1>3, AbstractShape, ExceptSeq DEF AbsShape, n
  <2>2. /\ AbsReady' \in Seq(BOOLEAN) /\ Len(AbsReady') = n
        /\ \A i \in 1..n : AbsReady'[i] = (seq'[Slot(Released + i - 1)] = Released + i)
    BY <1>1, AbstractShapeNext DEF AbsShape, n
  <2>3. \A i \in 1..n : AbsReady'[i] = t[i]
    <3> SUFFICES ASSUME NEW i \in 1..n PROVE AbsReady'[i] = t[i]
      OBVIOUS
    <3> HIDE DEF t
    <3>1. CASE i = k
      <4>1. seq'[Slot(Released + k - 1)] = Released + k
        BY <1>1, <1>2, <1>3
      <4>2. QED
        BY <2>1, <2>2, <3>1, <4>1, Zenon
    <3>2. CASE i # k
      <4>1. Released + i - 1 \in Nat /\ Released + i - 1 # pos[p]
            /\ Released <= Released + i - 1 /\ Released + i - 1 < Released + Size
        BY <1>2, <1>3, <3>2, SizeAssumption DEF n
      <4>2. Slot(Released + i - 1) # Slot(pos[p])
        BY <1>2, <4>1, OtherSlot, SizeAssumption
      <4>3. seq'[Slot(Released + i - 1)] = seq[Slot(Released + i - 1)]
        BY <1>1, <1>2, <4>1, <4>2, SlotType
      <4>4. AbsReady[i] = (seq[Slot(Released + i - 1)] = Released + i)
        BY AbstractShape DEF AbsShape, n
      <4>5. QED
        BY <2>1, <2>2, <3>2, <4>3, <4>4, Zenon
    <3>3. QED
      BY <3>1, <3>2
  <2> HIDE DEF t
  <2>4. AbsReady' = t
    BY <2>1, <2>2, <2>3, SeqEqual
  <2>5. QED
    BY <2>4 DEF t
<1>6. k \in 1..Len(AbsQueue)
  BY <1>3, AbstractShape DEF AbsShape
<1>7. UNCHANGED AbsQueue
  BY <1>1 DEF AbsQueue
<1> HIDE DEF k
<1>8. \E i \in 1..Len(AbsQueue) : ~AbsReady[i] /\ AbsReady' = [AbsReady EXCEPT ![i] = TRUE]
  BY <1>4, <1>5, <1>6, Zenon
<1>9. QED
  BY <1>1, <1>7, <1>8 DEF Fifo!MakeReady, AbsQueue, AbsReady

\* Releasing the slot delivers the element at the head.
LEMMA ReleaseDelivers ==
  ASSUME RingInv, RingInv', PopRelease
  PROVE  Fifo!Deliver
<1>1. /\ UNCHANGED <<enq, claimed>>
      /\ seq' = [seq EXCEPT ![Slot(deq)] = deq + Size]
      /\ popped' = Append(popped, out)
      /\ Released = deq /\ Released' = deq + 1
  BY DEF PopRelease, producerVars, Released
<1>2. /\ deq \in Nat /\ enq \in Nat /\ seq[Slot(deq)] = deq + 1 /\ out = claimed[deq + 1]
      /\ seq \in [Indices -> Nat] /\ Slot(deq) \in Indices /\ deq < enq /\ enq <= deq + Size
  <2>1. /\ deq \in Nat /\ enq \in Nat /\ seq[Slot(deq)] = deq + 1 /\ out = claimed[deq + 1]
        /\ seq \in [Indices -> Nat] /\ Slot(deq) \in Indices /\ enq <= deq + Size
    BY <1>1, SlotType DEF RingInv, TypeOK, WindowInv, ConsumerInv, PopRelease
  <2>2. deq < enq
    BY <1>1, <2>1, SizeAssumption DEF RingInv, SlotInv
  <2>3. QED
    BY <2>1, <2>2
<1> DEFINE n == enq - deq
<1>3. n \in Nat /\ n >= 1 /\ enq' - Released' = n - 1
  BY <1>1, <1>2
<1>4. /\ AbsQueue \in Seq(Values) /\ Len(AbsQueue) = n /\ AbsQueue # <<>>
      /\ AbsReady \in Seq(BOOLEAN) /\ Len(AbsReady) = n /\ AbsReady # <<>>
      /\ \A i \in 1..n : AbsQueue[i] = claimed[deq + i]
      /\ \A i \in 1..n : AbsReady[i] = (seq[Slot(deq + i - 1)] = deq + i)
  BY <1>1, <1>3, AbstractShape, EmptySeq DEF AbsShape
<1>5. /\ AbsQueue' \in Seq(Values) /\ Len(AbsQueue') = n - 1
      /\ AbsReady' \in Seq(BOOLEAN) /\ Len(AbsReady') = n - 1
      /\ \A i \in 1..(n - 1) : AbsQueue'[i] = claimed[(deq + 1) + i]
      /\ \A i \in 1..(n - 1) : AbsReady'[i] = (seq'[Slot((deq + 1) + i - 1)] = (deq + 1) + i)
  BY <1>1, <1>3, AbstractShapeNext DEF AbsShape
<1> HIDE DEF n
<1>6. popped' = Append(popped, AbsQueue[1])
  BY <1>1, <1>2, <1>3, <1>4
<1>7. AbsReady[1]
  <2>1. AbsReady[1] = (seq[Slot(deq + 1 - 1)] = deq + 1)
    BY <1>3, <1>4
  <2>2. seq[Slot(deq + 1 - 1)] = deq + 1
    BY <1>2
  <2>3. QED
    BY <2>1, <2>2, Zenon
<1>8. AbsQueue' = Tail(AbsQueue)
  <2> DEFINE t == Tail(AbsQueue)
  <2>1. t \in Seq(Values) /\ Len(t) = n - 1 /\ \A i \in 1..(n - 1) : t[i] = AbsQueue[i + 1]
    BY <1>4, HeadTailProperties
  <2> HIDE DEF t
  <2>2. \A i \in 1..(n - 1) : AbsQueue'[i] = t[i]
    <3> SUFFICES ASSUME NEW i \in 1..(n - 1) PROVE AbsQueue'[i] = t[i]
      OBVIOUS
    <3>1. i + 1 \in 1..n /\ deq + (i + 1) = (deq + 1) + i
      BY <1>2, <1>3
    <3>2. QED
      BY <1>4, <1>5, <2>1, <3>1
  <2>3. AbsQueue' = t
    BY <1>5, <2>1, <2>2, SeqEqual
  <2>4. QED
    BY <2>3 DEF t
<1>9. AbsReady' = Tail(AbsReady)
  <2> DEFINE t == Tail(AbsReady)
  <2>1. t \in Seq(BOOLEAN) /\ Len(t) = n - 1 /\ \A i \in 1..(n - 1) : t[i] = AbsReady[i + 1]
    BY <1>4, HeadTailProperties
  <2> HIDE DEF t
  <2>2. \A i \in 1..(n - 1) : AbsReady'[i] = t[i]
    <3> SUFFICES ASSUME NEW i \in 1..(n - 1) PROVE AbsReady'[i] = t[i]
      OBVIOUS
    <3>1. /\ i + 1 \in 1..n /\ deq + i \in Nat /\ deq < deq + i /\ deq + i < deq + Size
          /\ (deq + 1) + i - 1 = deq + i /\ deq + (i + 1) - 1 = deq + i
          /\ (deq + 1) + i = deq + (i + 1)
      BY <1>2, <1>3, SizeAssumption DEF n
    <3>2. Slot(deq) # Slot(deq + i)
      BY <1>2, <3>1, SlotDistinct
    <3>3. seq'[Slot(deq + i)] = seq[Slot(deq + i)]
      BY <1>1, <1>2, <3>1, <3>2, SlotType
    <3>4. AbsReady'[i] = (seq'[Slot((deq + 1) + i - 1)] = (deq + 1) + i)
      BY <1>5
    <3>5. AbsReady[i + 1] = (seq[Slot(deq + (i + 1) - 1)] = deq + (i + 1))
      BY <1>4, <3>1
    <3>6. QED
      BY <2>1, <3>1, <3>3, <3>4, <3>5, Zenon
  <2>3. AbsReady' = t
    BY <1>5, <2>1, <2>2, SeqEqual
  <2>4. QED
    BY <2>3 DEF t
<1>10. QED
  BY <1>4, <1>6, <1>7, <1>8, <1>9 DEF Fifo!Deliver, AbsQueue, AbsReady

\* The ring implements BoundedFifo: the CAS reserves, the store of seq makes
\* ready, the release of a slot delivers, and every other step is a stutter.
THEOREM RingRefinesFifo == SafetySpec => ImplementsFifo
<1>1. ASSUME Init PROVE Fifo!AbsInit
  <2>1. Released = 0 /\ enq = 0 /\ claimed = <<>> /\ popped = <<>>
    BY <1>1 DEF Init, Released
  <2>2. AbsQueue = <<>>
    BY <2>1, SubSeqEmpty DEF AbsQueue
  <2>3. AbsReady = <<>>
    <3>1. RingInv
      BY <1>1, InitRing
    <3>2. AbsReady \in Seq(BOOLEAN) /\ Len(AbsReady) = 0
      BY <2>1, <3>1, AbstractShape DEF AbsShape
    <3>3. QED
      BY <3>2, EmptySeq
  <2>4. QED
    BY <2>1, <2>2, <2>3 DEF Fifo!AbsInit, AbsQueue, AbsReady
<1>2. ASSUME RingInv, RingInv', [Next]_vars PROVE [Fifo!AbsNext]_(Fifo!absVars)
  <2>1. ASSUME NEW p \in Producers,
               PushStart(p) \/ PushCheck(p) \/ PushReload(p) \/ PushCasFail(p) \/ PushWrite(p)
        PROVE  UNCHANGED Fifo!absVars
    <3>1. UNCHANGED <<seq, enq, claimed, popped>> /\ Released' = Released
      BY <2>1
      DEF PushStart, PushCheck, PushReload, PushCasFail, PushWrite, consumerVars, Released
    <3>2. QED
      BY <3>1, WindowStutter
  <2>2. ASSUME NEW p \in Producers, PushCas(p) PROVE Fifo!AbsNext
    BY <1>2, <2>2, CasReserves DEF Fifo!AbsNext
  <2>3. ASSUME NEW p \in Producers, PushPublish(p) PROVE Fifo!AbsNext
    BY <1>2, <2>3, PublishMakesReady DEF Fifo!AbsNext
  <2>4. ASSUME PopCheck \/ PopRead \/ PopAdvance PROVE UNCHANGED Fifo!absVars
    <3>1. UNCHANGED <<seq, enq, claimed, popped>> /\ Released' = Released
      BY <1>2, <2>4 DEF PopCheck, PopRead, PopAdvance, Released, RingInv, TypeOK
    <3>2. QED
      BY <3>1, WindowStutter
  <2>5. ASSUME PopRelease PROVE Fifo!AbsNext
    BY <1>2, <2>5, ReleaseDelivers DEF Fifo!AbsNext
  <2>6. ASSUME UNCHANGED vars PROVE UNCHANGED Fifo!absVars
    <3>1. UNCHANGED <<seq, enq, claimed, popped>> /\ Released' = Released
      BY <2>6 DEF vars, Released
    <3>2. QED
      BY <3>1, WindowStutter
  <2>7. QED
    BY <1>2, <2>1, <2>2, <2>3, <2>4, <2>5, <2>6 DEF Next, ProducerStep, ConsumerStep
<1>3. QED
  BY RingInvariance, <1>1, <1>2, PTL DEF SafetySpec, ImplementsFifo, Fifo!FifoSpec
=============================================================================
