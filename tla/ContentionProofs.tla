-------------------------- MODULE ContentionProofs --------------------------
(***************************************************************************)
(* For any finite set of producers, any commands, any queue and batch size *)
(* and any number of shards: the single writer loses, repeats or reorders  *)
(* no command and shows a current quote between two batches; neither driver*)
(* of bench_contention.cpp ever sees a lost update; and every shard's book *)
(* is what its commands make one after the other, in the order the mutex   *)
(* was taken, so that an observer's quote is one of a settled book.  A     *)
(* Command asks for limit orders, market orders and cancels only: the books*)
(* hold no stop and no iceberg, and a market order's loop ends.            *)
(***************************************************************************)
EXTENDS Contention, OrderBookProofs

(***************************************************************************)
(* The invariant of the single writer.  Beyond the properties it says that *)
(* a drain that has applied nothing has not made the quote old, that the   *)
(* queue has held one element per command submitted, and that the flag     *)
(* run_cons falls only once everything has been applied.                   *)
(***************************************************************************)
ConsPcs == {"loop", "drain", "market", "done"}
InMarket == IF cons.pc = "market" THEN 1 ELSE 0
SubmittedBy == [p \in Producers |-> Submitted(p)]

ConsOK ==
  /\ cons \in [pc : ConsPcs, n : Nat]
  /\ q \in Seq(Entry) /\ taken \in Seq(Entry)
  /\ applied \in Nat /\ applied + InMarket = Len(taken)

QuoteOK ==
  /\ cons.pc \in {"loop", "done"} => cons.n = 0 /\ quote = Inside(book)
  /\ cons.pc = "drain" /\ cons.n = 0 => quote = Inside(book)

ProdsOK ==
  /\ prods \in [Producers -> [busy : BOOLEAN, sent : 0..OpsEach]]
  /\ \A p \in Producers : prods[p].busy => prods[p].sent < OpsEach

InOrder(p) ==
  /\ {Arrived[i].seq : i \in Places(p)} = 1..Submitted(p)
  /\ \A i, j \in Places(p) : i < j => Arrived[i].seq < Arrived[j].seq
OrderOK == \A p \in Producers : InOrder(p)

FlagOK ==
  /\ Len(Arrived) = Sum(SubmittedBy, Producers)
  /\ runCons \in BOOLEAN /\ (~runCons => AllOps <= applied)

PipeOK == ConsOK /\ QuoteOK /\ ProdsOK /\ OrderOK /\ FlagOK

-----------------------------------------------------------------------------
(***************************************************************************)
(* The steps of the single writer, by what they do to the queue.           *)
(***************************************************************************)
\* Nothing of the queue, the counters and the flag changes.
PipeRest == UNCHANGED <<q, taken, prods, applied, runCons>>

Delivers ==
  /\ q # <<>> /\ taken' = Append(taken, q[1]) /\ q' = Tail(q)
  /\ UNCHANGED <<prods, quote, runCons>>

Reserves(p) ==
  /\ p \in Producers /\ ~prods[p].busy /\ prods[p].sent < OpsEach
  /\ \E v \in Entry : q' = Append(q, v) /\ v.prod = p /\ v.seq = prods[p].sent + 1
  /\ prods' = [prods EXCEPT ![p].busy = TRUE]
  /\ UNCHANGED <<book, taken, cons, applied, quote, runCons>>

Publishes(p) ==
  /\ p \in Producers /\ prods[p].busy
  /\ prods' = [prods EXCEPT ![p] = [busy |-> FALSE, sent |-> @.sent + 1]]
  /\ UNCHANGED <<book, q, taken, cons, applied, quote, runCons>>

PipeCases ==
  \/ ConsumerLoop
  \/ cons.pc = "drain" /\ Delivers /\ Counted
  \/ cons.pc = "drain" /\ Delivers /\ cons' = [cons EXCEPT !.pc = "market"] /\ UNCHANGED applied
  \/ cons.pc = "market" /\ PipeRest /\ UNCHANGED <<cons, quote>>
  \/ cons.pc = "market" /\ Counted /\ UNCHANGED <<q, taken, prods, quote, runCons>>
  \/ DrainEnd /\ UNCHANGED runCons
  \/ \E p : Reserves(p)
  \/ \E p : Publishes(p)
  \/ AwaitApplied
  \/ PipeRest /\ UNCHANGED <<book, cons, quote>>

LEMMA ReserveStep ==
  ASSUME q \in Seq(Entry), NEW p \in Producers, NEW c \in Cmds, SubmitReserve(p, c), UNCHANGED runCons
  PROVE  Reserves(p)
<1>1. PICK v \in Entry : q' = Append(q, v)
  BY DEF SubmitReserve, Queue!Reserve
<1>2. q'[Len(q')] = v
  BY <1>1, AppendProperties
<1>3. v = [cmd |-> c, prod |-> p, seq |-> prods[p].sent + 1]
  BY <1>2 DEF SubmitReserve
<1>4. v.prod = p /\ v.seq = prods[p].sent + 1
  BY <1>3
<1>5. QED
  BY <1>1, <1>4 DEF SubmitReserve, Queue!Reserve, Reserves

LEMMA PublishStep ==
  ASSUME NEW p \in Producers, SubmitPublish(p), UNCHANGED runCons
  PROVE  Publishes(p)
BY DEF SubmitPublish, Queue!MakeReady, Publishes

LEMMA ConsumerCases ==
  ASSUME ConsumerStep
  PROVE  PipeCases
<1>1. ASSUME ApplyLimit \/ ApplyCancel, UNCHANGED runCons PROVE PipeCases
  BY <1>1 DEF ApplyLimit, ApplyCancel, DrainPop, Queue!Deliver, PipeCases, Delivers
<1>2. ASSUME ApplyMarket, UNCHANGED runCons PROVE PipeCases
  BY <1>2 DEF ApplyMarket, DrainPop, Queue!Deliver, PipeCases, Delivers
<1>3. ASSUME ApplyMarketStep, UNCHANGED runCons PROVE PipeCases
  BY <1>3 DEF ApplyMarketStep, PipeCases, PipeRest
<1>4. ASSUME ApplyMarketReturn, UNCHANGED runCons PROVE PipeCases
  BY <1>4 DEF ApplyMarketReturn, PipeCases
<1>5. QED
  BY <1>1, <1>2, <1>3, <1>4 DEF ConsumerStep, PipeCases

LEMMA PipeSteps == ConsOK /\ [ContNext]_contVars => PipeCases
<1> SUFFICES ASSUME ConsOK, [ContNext]_contVars PROVE PipeCases
  OBVIOUS
<1>1. ASSUME SingleWriterStep PROVE PipeCases
  <2>1. ASSUME NEW p \in Producers, ProducerStep(p) PROVE PipeCases
    BY <2>1, ReserveStep, PublishStep DEF ConsOK, ProducerStep, PipeCases
  <2>2. QED
    BY <1>1, <2>1, ConsumerCases DEF SingleWriterStep, PipeCases
<1>2. ASSUME UNCHANGED <<pipeVars, runCons>> PROVE PipeCases
  BY <1>2 DEF pipeVars, PipeCases, PipeRest
<1>3. ASSUME Steps(ShardNext) PROVE UNCHANGED <<pipeVars, runCons>>
  BY <1>3 DEF Steps
<1>4. ASSUME Finished \/ UNCHANGED contVars PROVE UNCHANGED <<pipeVars, runCons>>
  BY <1>4 DEF Finished, contVars
<1>5. QED
  BY <1>1, <1>2, <1>3, <1>4 DEF ContNext

-----------------------------------------------------------------------------
(***************************************************************************)
(* The consumer, its counters and its quote.                               *)
(***************************************************************************)
LEMMA ConsPreserved == ConsOK /\ PipeCases => ConsOK'
<1> SUFFICES ASSUME ConsOK, PipeCases PROVE ConsOK'
  OBVIOUS
<1>1. cons \in [pc : ConsPcs, n : Nat] /\ q \in Seq(Entry) /\ taken \in Seq(Entry)
      /\ applied \in Nat /\ Len(taken) \in Nat /\ applied + InMarket = Len(taken)
  BY LenProperties DEF ConsOK
\* Taking an element out of the queue.
<1>2. ASSUME Delivers
      PROVE  q' \in Seq(Entry) /\ taken' \in Seq(Entry) /\ Len(taken') = Len(taken) + 1
  <2>1. q[1] \in Entry /\ Tail(q) \in Seq(Entry)
    BY <1>1, <1>2, HeadTailProperties, ElementOfSeq, EmptySeq, LenProperties DEF Delivers
  <2>2. QED
    BY <1>1, <1>2, <2>1, AppendProperties DEF Delivers
<1>3. ASSUME cons.pc = "drain", Delivers, Counted PROVE ConsOK'
  <2>1. cons' \in [pc : ConsPcs, n : Nat] /\ cons'.pc = "drain" /\ applied' = applied + 1
    BY <1>1, <1>3 DEF Counted, ConsPcs
  <2>2. QED
    BY <1>1, <1>2, <1>3, <2>1 DEF ConsOK, InMarket
<1>4. ASSUME cons.pc = "drain", Delivers, cons' = [cons EXCEPT !.pc = "market"], UNCHANGED applied
      PROVE  ConsOK'
  <2>1. cons' \in [pc : ConsPcs, n : Nat] /\ cons'.pc = "market"
    BY <1>1, <1>4 DEF ConsPcs
  <2>2. QED
    BY <1>1, <1>2, <1>4, <2>1 DEF ConsOK, InMarket
<1>5. ASSUME cons.pc = "market", Counted, UNCHANGED <<q, taken, prods, quote, runCons>>
      PROVE  ConsOK'
  <2>1. cons' \in [pc : ConsPcs, n : Nat] /\ cons'.pc = "drain" /\ applied' = applied + 1
    BY <1>1, <1>5 DEF Counted, ConsPcs
  <2>2. QED
    BY <1>1, <1>5, <2>1 DEF ConsOK, InMarket
\* Steps of the consumer outside of apply.
<1>6. ASSUME cons' \in [pc : ConsPcs, n : Nat], cons.pc # "market", cons'.pc # "market",
             UNCHANGED <<q, taken, applied>>
      PROVE  ConsOK'
  BY <1>1, <1>6 DEF ConsOK, InMarket
<1>7. ASSUME ConsumerLoop PROVE ConsOK'
  <2>1. cons' \in [pc : ConsPcs, n : Nat] /\ cons'.pc # "market"
    BY <1>1, <1>7 DEF ConsumerLoop, ConsPcs
  <2>2. QED
    BY <1>6, <1>7, <2>1 DEF ConsumerLoop
<1>8. ASSUME DrainEnd PROVE ConsOK'
  <2>1. cons' \in [pc : ConsPcs, n : Nat] /\ cons'.pc # "market"
    BY <1>1, <1>8 DEF DrainEnd, ConsPcs
  <2>2. QED
    BY <1>6, <1>8, <2>1 DEF DrainEnd
<1>9. ASSUME NEW p, Reserves(p) PROVE ConsOK'
  <2>1. PICK v \in Entry : q' = Append(q, v)
    BY <1>9 DEF Reserves
  <2>2. q' \in Seq(Entry)
    BY <1>1, <2>1, AppendProperties
  <2>3. QED
    BY <1>1, <1>9, <2>2 DEF Reserves, ConsOK, InMarket
<1>10. ASSUME UNCHANGED <<q, taken, cons, applied>> PROVE ConsOK'
  BY <1>1, <1>10 DEF ConsOK, InMarket
<1>11. QED
  BY <1>3, <1>4, <1>5, <1>7, <1>8, <1>9, <1>10
  DEF PipeCases, PipeRest, Publishes, AwaitApplied, pipeVars

LEMMA QuotePreserved == ConsOK /\ QuoteOK /\ PipeCases => QuoteOK'
<1> SUFFICES ASSUME ConsOK, QuoteOK, PipeCases PROVE QuoteOK'
  OBVIOUS
<1>1. cons \in [pc : ConsPcs, n : Nat]
  BY DEF ConsOK
<1>2. ASSUME UNCHANGED book PROVE Inside(book') = Inside(book)
  BY <1>2
<1> HIDE DEF Inside
<1>3. ASSUME ConsumerLoop PROVE QuoteOK'
  <2>1. /\ cons.pc = "loop" /\ UNCHANGED <<book, quote>>
        /\ \E c \in {"drain", "done"} : cons' = [cons EXCEPT !.pc = c]
    BY <1>3 DEF ConsumerLoop
  <2>2. cons'.n = cons.n
    BY <1>1, <2>1
  <2>3. QED
    BY <1>2, <2>1, <2>2 DEF QuoteOK
<1>4. ASSUME Counted PROVE QuoteOK'
  <2>1. cons'.pc = "drain" /\ cons'.n # 0
    BY <1>1, <1>4 DEF Counted
  <2>2. QED
    BY <2>1 DEF QuoteOK
<1>5. ASSUME cons' = [cons EXCEPT !.pc = "market"] PROVE QuoteOK'
  <2>1. cons'.pc = "market"
    BY <1>1, <1>5
  <2>2. QED
    BY <2>1 DEF QuoteOK
<1>6. ASSUME cons.pc = "market", UNCHANGED cons PROVE QuoteOK'
  BY <1>6 DEF QuoteOK
<1>7. ASSUME DrainEnd PROVE QuoteOK'
  <2>1. /\ cons.pc = "drain" /\ book' = book /\ cons'.pc = "loop" /\ cons'.n = 0
        /\ quote' = IF cons.n > 0 THEN Inside(book) ELSE quote
    BY <1>7 DEF DrainEnd
  <2>2. cons.n > 0 \/ cons.n = 0
    BY <1>1
  <2>3. quote' = Inside(book)
    BY <2>1, <2>2 DEF QuoteOK
  <2>4. QED
    BY <1>2, <2>1, <2>3 DEF QuoteOK
<1>8. ASSUME UNCHANGED <<book, cons, quote>> PROVE QuoteOK'
  BY <1>2, <1>8 DEF QuoteOK
<1>9. QED
  BY <1>3, <1>4, <1>5, <1>6, <1>7, <1>8
  DEF PipeCases, Reserves, Publishes, AwaitApplied, pipeVars

LEMMA ProdsPreserved == ProdsOK /\ PipeCases => ProdsOK'
<1> SUFFICES ASSUME ProdsOK, PipeCases PROVE ProdsOK'
  OBVIOUS
<1>1. ASSUME UNCHANGED prods PROVE ProdsOK'
  BY <1>1 DEF ProdsOK
<1>2. ASSUME NEW p, Reserves(p) PROVE ProdsOK'
  BY <1>2 DEF ProdsOK, Reserves
<1>3. ASSUME NEW p, Publishes(p) PROVE ProdsOK'
  <2>1. prods[p].sent + 1 \in 0..OpsEach
    BY <1>3, PipelineAssumption DEF ProdsOK, Publishes
  <2>2. QED
    BY <1>3, <2>1 DEF ProdsOK, Publishes
<1>4. QED
  BY <1>1, <1>2, <1>3
  DEF PipeCases, PipeRest, Delivers, AwaitApplied, pipeVars, ConsumerLoop, DrainEnd

-----------------------------------------------------------------------------
(***************************************************************************)
(* What has arrived in the queue.                                          *)
(***************************************************************************)
LEMMA DeliverKeeps ==
  ASSUME ConsOK, Delivers
  PROVE  Arrived' = Arrived
<1>1. q \in Seq(Entry) /\ taken \in Seq(Entry) /\ q # <<>> /\ <<>> \in Seq(Entry)
      /\ taken' = Append(taken, q[1]) /\ q' = Tail(q)
  BY EmptySeq DEF ConsOK, Delivers
<1>2. HeadMoves(<<>>, taken, q)
  BY <1>1, ConcatMove
<1>3. q[1] \in Entry
  BY <1>1, ElementOfSeq, EmptySeq, LenProperties
<1>4. Append(taken, q[1]) \in Seq(Entry)
  BY <1>1, <1>3, AppendProperties
<1>5. <<>> \o taken = taken /\ <<>> \o Append(taken, q[1]) = Append(taken, q[1])
  BY <1>1, <1>4, ConcatEmptySeq
<1>6. Append(taken, q[1]) \o Tail(q) = taken \o q
  BY <1>2, <1>5 DEF HeadMoves
<1>7. QED
  BY <1>1, <1>6 DEF Arrived

ArrivedType == Arrived \in Seq(Entry) /\ Len(Arrived) \in Nat

LEMMA ArrivedIs == ConsOK => ArrivedType
BY ConcatProperties, LenProperties DEF ConsOK, Arrived, ArrivedType

LEMMA ReserveAdds ==
  ASSUME ConsOK, NEW v \in Entry, q' = Append(q, v), UNCHANGED taken
  PROVE  /\ Len(Arrived') = Len(Arrived) + 1 /\ Arrived'[Len(Arrived) + 1] = v
         /\ \A i \in 1..Len(Arrived) : Arrived'[i] = Arrived[i]
<1>1. q \in Seq(Entry) /\ taken \in Seq(Entry)
  BY DEF ConsOK
<1>2. taken \o Append(q, v) = Append(taken \o q, v)
  BY <1>1, ConcatAppend
<1>3. Arrived' = Append(Arrived, v)
  BY <1>2 DEF Arrived
<1>4. Arrived \in Seq(Entry)
  BY ArrivedIs DEF ArrivedType
<1> HIDE DEF Arrived
<1> DEFINE A == Arrived
           B == Arrived'
<1>5. A \in Seq(Entry) /\ B = Append(A, v)
  BY <1>3, <1>4
<1> HIDE DEF A, B
<1>6. Len(B) = Len(A) + 1 /\ B[Len(A) + 1] = v /\ \A i \in 1..Len(A) : B[i] = A[i]
  BY <1>5, AppendProperties
<1>7. QED
  BY <1>6 DEF A, B

LEMMA OrderPreserved == ConsOK /\ ProdsOK /\ OrderOK /\ PipeCases => OrderOK'
<1> SUFFICES ASSUME ConsOK, ProdsOK, OrderOK, PipeCases PROVE OrderOK'
  OBVIOUS
<1>1. ASSUME Arrived' = Arrived, \A p \in Producers : Submitted(p)' = Submitted(p)
      PROVE  OrderOK'
  BY <1>1 DEF OrderOK, InOrder, Places
<1>2. ASSUME UNCHANGED <<q, taken, prods>> PROVE OrderOK'
  <2>1. Arrived' = Arrived
    BY <1>2 DEF Arrived
  <2>2. QED
    BY <1>1, <1>2, <2>1 DEF Submitted
<1>3. ASSUME Delivers PROVE OrderOK'
  <2>1. Arrived' = Arrived
    BY <1>3, DeliverKeeps
  <2>2. QED
    BY <1>1, <1>3, <2>1 DEF Submitted, Delivers
<1>4. ASSUME NEW p, Publishes(p) PROVE OrderOK'
  <2>1. Arrived' = Arrived
    BY <1>4 DEF Arrived, Publishes
  <2>2. ASSUME NEW r \in Producers PROVE Submitted(r)' = Submitted(r)
    BY <1>4 DEF Submitted, Publishes, ProdsOK
  <2>3. QED
    BY <1>1, <2>1, <2>2
<1>5. ASSUME NEW p, Reserves(p) PROVE OrderOK'
  <2> SUFFICES ASSUME NEW r \in Producers PROVE InOrder(r)'
    BY DEF OrderOK
  <2>1. PICK v \in Entry : q' = Append(q, v) /\ v.prod = p /\ v.seq = prods[p].sent + 1
    BY <1>5 DEF Reserves
  <2> DEFINE n == Len(Arrived)
             A == Arrived
             B == Arrived'
             P == Places(r)
             R == Places(r)'
             m == Submitted(r)
  <2>2. n \in Nat /\ Len(B) = n + 1 /\ B[n + 1] = v /\ \A i \in 1..n : B[i] = A[i]
    BY <1>5, <2>1, ReserveAdds, ArrivedIs DEF Reserves, ArrivedType
  <2>3. P = {i \in 1..n : A[i].prod = r} /\ R = {i \in 1..(n + 1) : B[i].prod = r}
    BY <2>2 DEF Places
  <2>4. {A[i].seq : i \in P} = 1..m /\ \A i, j \in P : i < j => A[i].seq < A[j].seq
    BY DEF OrderOK, InOrder
  <2>5. m \in Nat /\ Submitted(r)' = IF r = p THEN m + 1 ELSE m
    BY <1>5 DEF Submitted, Reserves, ProdsOK
  <2>6. r = p => v.seq = m + 1
    BY <1>5, <2>1 DEF Submitted, Reserves, ProdsOK
  <2> HIDE DEF n, A, B, P, R, m
  <2>7. {B[i].seq : i \in R} = 1..(Submitted(r)')
        /\ \A i, j \in R : i < j => B[i].seq < B[j].seq
    <3>1. CASE r # p
      <4>1. R = P /\ \A i \in P : B[i] = A[i]
        BY <2>1, <2>2, <2>3, <3>1
      <4>2. QED
        BY <2>4, <2>5, <3>1, <4>1
    <3>2. CASE r = p
      <4>1. R = P \cup {n + 1} /\ n + 1 \notin P /\ \A i \in P : B[i] = A[i] /\ i < n + 1 /\ i \in Nat
        BY <2>1, <2>2, <2>3, <3>2
      <4>2. \A i \in P : A[i].seq \in 1..m
        BY <2>4
      <4>3. \A i \in P : B[i].seq = A[i].seq
        BY <4>1
      <4>4. B[n + 1].seq = m + 1
        BY <2>2, <2>6, <3>2
      <4>5. {B[i].seq : i \in R} = 1..(m + 1)
        <5>1. ASSUME NEW x \in 1..(m + 1) PROVE x \in {B[i].seq : i \in R}
          <6>1. CASE x = m + 1
            BY <4>1, <4>4, <6>1
          <6>2. CASE x \in 1..m
            BY <2>4, <4>1, <4>3, <6>2
          <6>3. QED
            BY <2>5, <6>1, <6>2
        <5>2. ASSUME NEW i \in R PROVE B[i].seq \in 1..(m + 1)
          <6>1. CASE i = n + 1
            BY <2>5, <4>4, <6>1
          <6>2. CASE i \in P
            BY <2>5, <4>2, <4>3, <6>2
          <6>3. QED
            BY <4>1, <6>1, <6>2
        <5>3. QED
          BY <5>1, <5>2
      <4>6. ASSUME NEW i \in R, NEW j \in R, i < j PROVE B[i].seq < B[j].seq
        <5>1. i \in P
          BY <2>2, <4>1, <4>6
        <5>2. CASE j \in P
          BY <2>4, <4>3, <4>6, <5>1, <5>2
        <5>3. CASE j = n + 1
          BY <2>5, <4>2, <4>3, <4>4, <5>1, <5>3
        <5>4. QED
          BY <4>1, <5>2, <5>3
      <4>7. QED
        BY <2>5, <3>2, <4>5, <4>6
    <3>3. QED
      BY <3>1, <3>2
  <2>8. QED
    BY <2>7 DEF InOrder, B, R
<1>6. QED
  BY <1>2, <1>3, <1>4, <1>5
  DEF PipeCases, PipeRest, AwaitApplied, pipeVars, ConsumerLoop, DrainEnd

LEMMA FlagPreserved == ConsOK /\ ProdsOK /\ FlagOK /\ PipeCases => FlagOK'
<1> SUFFICES ASSUME ConsOK, ProdsOK, FlagOK, PipeCases PROVE FlagOK'
  OBVIOUS
<1>1. applied \in Nat /\ AllOps \in Nat /\ IsFiniteSet(Producers)
  BY PipelineAssumption, FS_CardinalityType DEF ConsOK, AllOps
<1>2. ASSUME Arrived' = Arrived, \A p \in Producers : Submitted(p)' = Submitted(p),
             runCons' = runCons, applied' = applied \/ applied' = applied + 1
      PROVE  FlagOK'
  <2>1. SubmittedBy' = SubmittedBy
    BY <1>2 DEF SubmittedBy
  <2>2. AllOps' = AllOps
    BY DEF AllOps
  <2> HIDE DEF AllOps, SubmittedBy, Arrived
  <2>3. ~runCons' => AllOps <= applied'
    BY <1>1, <1>2 DEF FlagOK
  <2>4. QED
    BY <1>2, <2>1, <2>2, <2>3 DEF FlagOK
<1>3. ASSUME UNCHANGED <<q, taken, prods, runCons>>, applied' = applied \/ applied' = applied + 1
      PROVE  FlagOK'
  <2>1. Arrived' = Arrived
    BY <1>3 DEF Arrived
  <2>2. QED
    BY <1>2, <1>3, <2>1 DEF Submitted
<1>4. ASSUME Delivers, applied' = applied \/ applied' = applied + 1 PROVE FlagOK'
  <2>1. Arrived' = Arrived
    BY <1>4, DeliverKeeps
  <2>2. QED
    BY <1>2, <1>4, <2>1 DEF Submitted, Delivers
<1>5. ASSUME NEW p, Publishes(p) PROVE FlagOK'
  <2>1. Arrived' = Arrived
    BY <1>5 DEF Arrived, Publishes
  <2>2. ASSUME NEW r \in Producers PROVE Submitted(r)' = Submitted(r)
    BY <1>5 DEF Submitted, Publishes, ProdsOK
  <2>3. QED
    BY <1>2, <1>5, <2>1, <2>2 DEF Publishes
<1>6. ASSUME NEW p, Reserves(p) PROVE FlagOK'
  <2>1. PICK v \in Entry : q' = Append(q, v)
    BY <1>6 DEF Reserves
  <2> DEFINE n == Len(Arrived)
             m == Len(Arrived')
             w == SubmittedBy
             u == SubmittedBy'
  <2>2. n \in Nat /\ m = n + 1
    BY <1>6, <2>1, ReserveAdds, ArrivedIs DEF Reserves, ArrivedType
  <2>3. /\ w \in [Producers -> Nat] /\ u \in [Producers -> Nat] /\ p \in Producers
        /\ u[p] = w[p] + 1 /\ \A r \in Producers : r # p => u[r] = w[r]
    BY <1>6 DEF SubmittedBy, Submitted, Reserves, ProdsOK
  <2>4. n = Sum(w, Producers)
    BY DEF FlagOK
  <2> HIDE DEF n, m, w, u
  <2>5. Sum(u, Producers) = Sum(w, Producers) + 1
    BY <1>1, <2>3, SumBump
  <2>6. Len(Arrived') = Sum(SubmittedBy', Producers)
    BY <2>2, <2>4, <2>5 DEF m, u
  <2>7. UNCHANGED <<applied, runCons, AllOps>>
    BY <1>6 DEF Reserves, AllOps
  <2> HIDE DEF AllOps, SubmittedBy, Arrived
  <2>8. QED
    BY <2>6, <2>7 DEF FlagOK
<1>7. ASSUME AwaitApplied PROVE FlagOK'
  <2>1. UNCHANGED <<q, taken, prods, applied, AllOps>> /\ runCons' = (applied < AllOps)
    BY <1>7 DEF AwaitApplied, pipeVars, AllOps
  <2>2. Arrived' = Arrived /\ SubmittedBy' = SubmittedBy
    BY <2>1 DEF Arrived, SubmittedBy, Submitted
  <2> HIDE DEF AllOps, SubmittedBy, Arrived
  <2>3. (applied < AllOps) \in BOOLEAN /\ (~(applied < AllOps) => AllOps <= applied)
    BY <1>1
  <2>4. runCons' \in BOOLEAN /\ (~runCons' => AllOps <= applied)
    BY <2>1, <2>3, Zenon
  <2>5. QED
    BY <2>1, <2>2, <2>4 DEF FlagOK
<1>8. QED
  BY <1>3, <1>4, <1>5, <1>6, <1>7
  DEF PipeCases, PipeRest, ConsumerLoop, DrainEnd, Counted

LEMMA InitPipe == ContInit => PipeOK
<1> SUFFICES ASSUME ContInit PROVE PipeOK
  OBVIOUS
<1>1. /\ q = <<>> /\ taken = <<>> /\ prods = [p \in Producers |-> [busy |-> FALSE, sent |-> 0]]
      /\ cons = [pc |-> "loop", n |-> 0] /\ applied = 0 /\ quote = Inside(book) /\ runCons = TRUE
  BY DEF ContInit, PipeInit
<1>2. <<>> \in Seq(Entry) /\ Len(<<>>) = 0
  BY EmptySeq
<1>3. ConsOK
  BY <1>1, <1>2 DEF ConsOK, ConsPcs, InMarket
<1>4. QuoteOK
  BY <1>1 DEF QuoteOK
<1>5. ProdsOK
  BY <1>1, PipelineAssumption DEF ProdsOK
<1>6. Arrived = <<>> /\ Len(Arrived) = 0
  BY <1>1, <1>2, ConcatEmptySeq DEF Arrived
<1>7. \A p \in Producers : Submitted(p) = 0
  BY <1>1 DEF Submitted
<1>8. OrderOK
  BY <1>6, <1>7 DEF OrderOK, InOrder, Places
<1>9. Sum(SubmittedBy, Producers) = 0
  <2>1. SubmittedBy \in [Producers -> Nat] /\ \A p \in Producers : SubmittedBy[p] = 0
    BY <1>7 DEF SubmittedBy
  <2>2. Sum(SubmittedBy, Producers) = 0 * Cardinality(Producers)
    BY <2>1, SumConst, PipelineAssumption
  <2>3. Cardinality(Producers) \in Nat
    BY PipelineAssumption, FS_CardinalityType
  <2>4. QED
    BY <2>2, <2>3
<1>10. FlagOK
  BY <1>1, <1>6, <1>9 DEF FlagOK
<1>11. QED
  BY <1>3, <1>4, <1>5, <1>8, <1>10 DEF PipeOK

LEMMA PipeInvariance == ContSpec => []PipeOK
<1>1. PipeOK /\ [ContNext]_contVars => PipeOK'
  BY PipeSteps, ConsPreserved, QuotePreserved, ProdsPreserved, OrderPreserved, FlagPreserved
  DEF PipeOK
<1>2. QED
  BY <1>1, InitPipe, PTL DEF ContSpec

\* The commands of a producer are all in the queue or taken, once each and in the
\* order it submitted them, and applied() counts the commands taken.
THEOREM PipelineKeepsOrder == ContSpec => []CommandsInOrder
<1>1. PipeOK => CommandsInOrder
  BY DEF PipeOK, ConsOK, OrderOK, InOrder, InMarket, CommandsInOrder
<1>2. QED
  BY <1>1, PipeInvariance, PTL

\* Between two drains the published quote is the inside of the book.
THEOREM PipelineQuoteCurrent == ContSpec => []QuoteCurrent
<1>1. PipeOK => QuoteCurrent
  BY DEF PipeOK, QuoteOK, QuoteCurrent
<1>2. QED
  BY <1>1, PipeInvariance, PTL

-----------------------------------------------------------------------------
(***************************************************************************)
(* The invariant of the shards and of the observer.  What all shards have  *)
(* applied is what all producers have completed.  In the middle of         *)
(* applied(), the sum so far is at most what the shards read have now, and *)
(* with what the others have now at least what all had at the call.        *)
(***************************************************************************)
AppliedBy == [s \in ShardIds |-> shards[s].applied]
SentBy == [p \in Producers |-> workers[p].sent]

Tables ==
  /\ DOMAIN shards = ShardIds
  /\ \A s \in ShardIds :
       DOMAIN shards[s] = {"book", "mu", "applied"} /\ shards[s].applied \in Nat
  /\ DOMAIN workers = Producers
  /\ \A p \in Producers :
       /\ DOMAIN workers[p] = {"pc", "sent", "cmd", "left"} /\ workers[p].sent \in Nat
       /\ workers[p].pc # "call" => workers[p].cmd \in Cmds

AskerShape ==
  /\ DOMAIN asker = {"pc", "shard", "quote", "of", "from", "sum", "low", "asks"}
  /\ asker.pc \in {"idle", "bid", "ask", "sum"}
  /\ asker.shard \in Nat /\ asker.sum \in Nat /\ asker.low \in Nat

SumsAgreed == Sum(AppliedBy, ShardIds) = Sum(SentBy, Producers)

AskerBounds ==
  /\ asker.pc # "sum" => asker.low <= asker.sum /\ asker.sum <= Sum(AppliedBy, ShardIds)
  /\ asker.pc = "sum" =>
       /\ asker.shard < ShardCount
       /\ asker.sum <= Sum(AppliedBy, 0..(asker.shard - 1))
       /\ asker.low <= asker.sum + Sum(AppliedBy, asker.shard..(ShardCount - 1))

ShardOK == Tables /\ AskerShape /\ SumsAgreed /\ AskerBounds

LEMMA ShardIdsFinite == IsFiniteSet(ShardIds)
<1>1. 0 \in Int /\ ShardCount - 1 \in Int
  BY ShardCountAssumption
<1>2. QED
  BY <1>1, FS_Interval DEF ShardIds

LEMMA ShardOfIn == \A c \in Cmds : ShardOf(c) \in ShardIds
BY ShardCountAssumption DEF ShardOf, ShardIds

\* The model's fold is Sum.
TotalSummed == Total = Sum(AppliedBy, ShardIds)

LEMMA TotalIs == TotalSummed
<1> DEFINE w == AppliedBy
           T == ShardIds
           o(s) == shards[s].applied
<1>1. IsFiniteSet(T)
  BY ShardIdsFinite
<1>2. \A s \in SUBSET T : s # {} => w[Pick(s)] = o(Pick(s))
  BY PickIn DEF AppliedBy
<1>3. ASSUME NEW g
      PROVE  [s \in SUBSET T |-> IF s = {} THEN 0 ELSE o(Pick(s)) + g[s \ {Pick(s)}]]
             = [s \in SUBSET T |-> IF s = {} THEN 0 ELSE w[Pick(s)] + g[s \ {Pick(s)}]]
  BY <1>2
<1>4. Total = (CHOOSE g : g = [s \in SUBSET T |-> IF s = {} THEN 0
                 ELSE o(Pick(s)) + g[s \ {Pick(s)}]])[T]
  BY DEF Total, MapThenSumSet, MapThenFoldSet, Pick
<1> DEFINE h == CHOOSE g : g = [s \in SUBSET T |-> IF s = {} THEN 0
                  ELSE o(Pick(s)) + g[s \ {Pick(s)}]]
<1> HIDE DEF w, T, o
<1>5. SumFcn(w, T) = [s \in SUBSET T |-> IF s = {} THEN 0
                        ELSE o(Pick(s)) + SumFcn(w, T)[s \ {Pick(s)}]]
  <2> DEFINE f == SumFcn(w, T)
  <2>1. Sums(f, w, T)
    BY <1>1, SumsExist
  <2> HIDE DEF f
  <2>2. f = [s \in SUBSET T |-> IF s = {} THEN 0 ELSE w[Pick(s)] + f[s \ {Pick(s)}]]
    BY <2>1 DEF Sums
  <2>3. f = [s \in SUBSET T |-> IF s = {} THEN 0 ELSE o(Pick(s)) + f[s \ {Pick(s)}]]
    BY <1>3, <2>2, Zenon
  <2>4. QED
    BY <2>3 DEF f
<1>6. h = [s \in SUBSET T |-> IF s = {} THEN 0 ELSE o(Pick(s)) + h[s \ {Pick(s)}]]
  BY <1>5, Zenon
<1> HIDE DEF h
<1>7. Sums(h, w, T)
  BY <1>3, <1>6 DEF Sums
<1>8. Sums(SumFcn(w, T), w, T) /\ T \in SUBSET T
  BY <1>1, SumsExist
<1>9. h[T] = SumFcn(w, T)[T]
  BY <1>1, <1>7, <1>8, SumsAgree
<1>10. QED
  BY <1>4, <1>9 DEF h, w, T, Sum, TotalSummed

\* The steps of the shards, by what they do to the counters.
ShardKept ==
  /\ DOMAIN shards' = ShardIds
  /\ \A s \in ShardIds :
       DOMAIN shards'[s] = {"book", "mu", "applied"} /\ shards'[s].applied = shards[s].applied

WorkersKept ==
  /\ DOMAIN workers' = Producers
  /\ \A p \in Producers :
       /\ DOMAIN workers'[p] = {"pc", "sent", "cmd", "left"} /\ workers'[p].sent = workers[p].sent
       /\ workers'[p].pc # "call" => workers'[p].cmd \in Cmds

LEMMA KeptTables ==
  ASSUME Tables, ShardKept, WorkersKept
  PROVE  Tables' /\ AppliedBy' = AppliedBy /\ SentBy' = SentBy
<1>1. Tables'
  BY DEF Tables, ShardKept, WorkersKept
<1>2. AppliedBy' = AppliedBy
  BY DEF Tables, ShardKept, AppliedBy
<1>3. SentBy' = SentBy
  BY DEF Tables, WorkersKept, SentBy
<1>4. QED
  BY <1>1, <1>2, <1>3

LEMMA LockKept ==
  ASSUME Tables, NEW p \in Producers, NEW c \in Cmds, ShardLock(p, c)
  PROVE  ShardKept /\ WorkersKept /\ UNCHANGED asker
<1>1. /\ shards' = [shards EXCEPT ![ShardOf(c)].mu = p] /\ UNCHANGED asker
      /\ workers' = [workers EXCEPT ![p].pc = "apply", ![p].cmd = c, ![p].left = c.qty]
  BY DEF ShardLock
<1>2. ShardKept
  BY <1>1 DEF Tables, ShardKept
<1>3. WorkersKept
  BY <1>1 DEF Tables, WorkersKept
<1>4. QED
  BY <1>1, <1>2, <1>3

LEMMA ApplyKept ==
  ASSUME Tables, NEW p \in Producers, ShardApplyOnce(p) \/ ShardApplyMarket(p)
  PROVE  ShardKept /\ WorkersKept /\ UNCHANGED asker
<1>1. /\ UNCHANGED asker /\ workers[p].pc = "apply"
      /\ \/ shards' = shards
         \/ \E s, b : shards' = [shards EXCEPT ![s].book = b]
      /\ \/ workers' = [workers EXCEPT ![p].pc = "unlock"]
         \/ \E m : workers' = [workers EXCEPT ![p].left = m]
  BY DEF ShardApplyOnce, ShardApplyMarket
<1>2. ShardKept
  BY <1>1 DEF Tables, ShardKept
<1>3. WorkersKept
  BY <1>1 DEF Tables, WorkersKept
<1>4. QED
  BY <1>1, <1>2, <1>3

LEMMA AskerKept ==
  ASSUME AskerShape, AskerBounds, UNCHANGED <<asker, AppliedBy>>
  PROVE  AskerShape' /\ AskerBounds'
<1> HIDE DEF AppliedBy
<1>1. QED
  BY DEF AskerShape, AskerBounds

\* The end of submit raises the shard's counter and what the producer has completed.
LEMMA UnlockStep ==
  ASSUME ShardOK, NEW p \in Producers, ShardUnlock(p)
  PROVE  ShardOK'
<1> DEFINE c == workers[p].cmd
           x == ShardOf(c)
<1>1. /\ workers[p].pc = "unlock" /\ UNCHANGED asker
      /\ shards' = [shards EXCEPT ![x].mu = Nobody, ![x].applied = @ + 1]
      /\ workers' = [workers EXCEPT ![p].pc = "call", ![p].sent = @ + 1]
  BY DEF ShardUnlock
<1>2. x \in ShardIds
  BY <1>1, ShardOfIn DEF ShardOK, Tables
<1> HIDE DEF x
<1>3. /\ DOMAIN shards' = ShardIds
      /\ \A s \in ShardIds :
           /\ DOMAIN shards'[s] = {"book", "mu", "applied"}
           /\ shards'[s].applied = IF s = x THEN shards[s].applied + 1 ELSE shards[s].applied
  BY <1>1, <1>2 DEF ShardOK, Tables
<1>4. /\ DOMAIN workers' = Producers
      /\ \A r \in Producers :
           /\ DOMAIN workers'[r] = {"pc", "sent", "cmd", "left"}
           /\ workers'[r].sent = IF r = p THEN workers[r].sent + 1 ELSE workers[r].sent
           /\ workers'[r].pc # "call" => workers'[r].cmd \in Cmds
  BY <1>1 DEF ShardOK, Tables
<1>5. Tables'
  BY <1>3, <1>4 DEF ShardOK, Tables
<1> DEFINE a == AppliedBy
           b == AppliedBy'
           w == SentBy
           v == SentBy'
<1>6. /\ a \in [ShardIds -> Nat] /\ b \in [ShardIds -> Nat]
      /\ b[x] = a[x] + 1 /\ \A s \in ShardIds : s # x => b[s] = a[s]
  BY <1>2, <1>3 DEF ShardOK, Tables, AppliedBy
<1>7. /\ w \in [Producers -> Nat] /\ v \in [Producers -> Nat]
      /\ v[p] = w[p] + 1 /\ \A r \in Producers : r # p => v[r] = w[r]
  BY <1>4 DEF ShardOK, Tables, SentBy
<1>8. ShardOK
  OBVIOUS
<1> HIDE DEF a, b, w, v
\* A sum over some of the shards never falls.
<1>9. ASSUME NEW T \in SUBSET ShardIds
      PROVE  Sum(b, T) = Sum(a, T) + (IF x \in T THEN 1 ELSE 0) /\ Sum(a, T) \in Nat
  BY <1>2, <1>6, ShardIdsFinite, SumBump
<1>10. Sum(v, Producers) = Sum(w, Producers) + 1
  BY <1>7, PipelineAssumption, SumBump
<1>11. Sum(b, ShardIds) = Sum(a, ShardIds) + 1 /\ Sum(a, ShardIds) \in Nat
  BY <1>2, <1>9
<1>12. Sum(b, ShardIds) = Sum(v, Producers)
  BY <1>8, <1>10, <1>11 DEF ShardOK, SumsAgreed, a, w
<1>13. AskerShape' /\ asker' = asker
  BY <1>1, <1>8 DEF ShardOK, AskerShape
<1>14. CASE asker.pc # "sum"
  <2>1. asker.low <= asker.sum /\ asker.sum <= Sum(a, ShardIds) /\ asker.sum \in Nat
    BY <1>8, <1>14 DEF ShardOK, AskerShape, AskerBounds, a
  <2>2. asker.sum <= Sum(b, ShardIds)
    BY <1>11, <2>1
  <2>3. AskerBounds'
    BY <1>13, <1>14, <2>1, <2>2 DEF AskerBounds, b
  <2>4. QED
    BY <1>5, <1>12, <1>13, <2>3 DEF ShardOK, SumsAgreed, b, v
<1>15. CASE asker.pc = "sum"
  <2> DEFINE lo == 0..(asker.shard - 1)
             hi == asker.shard..(ShardCount - 1)
  <2>1. /\ asker.shard < ShardCount /\ asker.sum <= Sum(a, lo)
        /\ asker.low <= asker.sum + Sum(a, hi)
        /\ asker.shard \in Nat /\ asker.sum \in Nat /\ asker.low \in Nat
    BY <1>8, <1>15 DEF ShardOK, AskerShape, AskerBounds, a
  <2>2. lo \in SUBSET ShardIds /\ hi \in SUBSET ShardIds
    BY <2>1, ShardCountAssumption DEF ShardIds
  <2> HIDE DEF lo, hi
  <2>3. Sum(a, lo) \in Nat /\ Sum(b, lo) \in Nat /\ Sum(a, lo) <= Sum(b, lo)
    BY <1>9, <2>2
  <2>4. Sum(a, hi) \in Nat /\ Sum(b, hi) \in Nat /\ Sum(a, hi) <= Sum(b, hi)
    BY <1>9, <2>2
  <2>5. asker.sum <= Sum(b, lo) /\ asker.low <= asker.sum + Sum(b, hi)
    BY <2>1, <2>3, <2>4
  <2>6. AskerBounds'
    BY <1>13, <1>15, <2>1, <2>5 DEF AskerBounds, b, lo, hi
  <2>7. QED
    BY <1>5, <1>12, <1>13, <2>6 DEF ShardOK, SumsAgreed, b, v
<1>16. QED
  BY <1>14, <1>15

LEMMA AppliedByType ==
  ASSUME Tables
  PROVE  AppliedBy \in [ShardIds -> Nat] /\ \A T \in SUBSET ShardIds : Sum(AppliedBy, T) \in Nat
<1>1. AppliedBy \in [ShardIds -> Nat]
  BY DEF Tables, AppliedBy
<1> HIDE DEF AppliedBy
<1>2. QED
  BY <1>1, ShardIdsFinite, SumNat

LEMMA ShardsSame ==
  ASSUME Tables, UNCHANGED <<shards, workers>>
  PROVE  Tables' /\ AppliedBy' = AppliedBy /\ SentBy' = SentBy
BY DEF Tables, AppliedBy, SentBy

\* applied() reads one shard's counter after the other.
LEMMA AppliedAddStep ==
  ASSUME ShardOK, AppliedAdd
  PROVE  ShardOK'
<1> DEFINE k == asker.shard
           a == AppliedBy
           m == ShardCount - 1
<1>1. /\ asker.pc = "sum" /\ k < ShardCount /\ UNCHANGED <<shards, workers>>
      /\ asker' = [asker EXCEPT !.sum = @ + shards[k].applied, !.shard = @ + 1,
                                !.pc = IF k + 1 = ShardCount THEN "idle" ELSE "sum"]
  BY DEF AppliedAdd
<1>2. Tables' /\ AppliedBy' = a /\ SentBy' = SentBy
  BY <1>1, ShardsSame DEF ShardOK
<1>3. k \in Nat /\ asker.sum \in Nat /\ asker.low \in Nat /\ k \in ShardIds
      /\ asker.sum <= Sum(a, 0..(k - 1)) /\ asker.low <= asker.sum + Sum(a, k..m)
  BY <1>1, ShardCountAssumption DEF ShardOK, AskerShape, AskerBounds, ShardIds
<1> DEFINE v == shards[k].applied
<1>4. a \in [ShardIds -> Nat] /\ a[k] = v /\ v \in Nat
      /\ \A T \in SUBSET ShardIds : Sum(a, T) \in Nat
  BY <1>3, AppliedByType DEF ShardOK, Tables, AppliedBy
<1>5. /\ DOMAIN asker' = DOMAIN asker
      /\ asker'.pc = IF k + 1 = ShardCount THEN "idle" ELSE "sum"
      /\ asker'.sum = asker.sum + v /\ asker'.shard = k + 1 /\ asker'.low = asker.low
  BY <1>1 DEF ShardOK, AskerShape
<1>6. AskerShape'
  BY <1>3, <1>4, <1>5 DEF ShardOK, AskerShape
<1>7. SumsAgreed'
  BY <1>2 DEF ShardOK, SumsAgreed
<1> HIDE DEF k, a, v
<1>8. Sum(a, 0..k) = v + Sum(a, 0..(k - 1)) /\ Sum(a, 0..(k - 1)) \in Nat
  <2> DEFINE T == 0..(k - 1)
  <2>1. T \in SUBSET ShardIds /\ k \in ShardIds \ T /\ T \cup {k} = 0..k
    BY <1>3, ShardCountAssumption DEF ShardIds
  <2> HIDE DEF T
  <2>2. Sum(a, T \cup {k}) = a[k] + Sum(a, T)
    BY <1>4, <2>1, ShardIdsFinite, SumAdd
  <2>3. QED
    BY <1>4, <2>1, <2>2 DEF T
<1>9. Sum(a, k..m) = v + Sum(a, (k + 1)..m) /\ Sum(a, (k + 1)..m) \in Nat
  <2> DEFINE T == (k + 1)..m
  <2>1. T \in SUBSET ShardIds /\ k \in ShardIds \ T /\ T \cup {k} = k..m
    BY <1>3, ShardCountAssumption DEF ShardIds
  <2> HIDE DEF T
  <2>2. Sum(a, T \cup {k}) = a[k] + Sum(a, T)
    BY <1>4, <2>1, ShardIdsFinite, SumAdd
  <2>3. QED
    BY <1>4, <2>1, <2>2 DEF T
<1>10. asker'.sum <= Sum(a, 0..k) /\ asker'.low <= asker'.sum + Sum(a, (k + 1)..m)
  BY <1>3, <1>4, <1>5, <1>8, <1>9
<1>11. CASE k + 1 = ShardCount
  <2>1. (k + 1)..m = {} /\ 0..k = ShardIds
    BY <1>3, <1>11 DEF ShardIds
  <2>2. Sum(a, {}) = 0
    BY FS_EmptySet, SumUnfold
  <2>3. asker'.low <= asker'.sum /\ asker'.sum <= Sum(a, ShardIds) /\ asker'.pc = "idle"
    <3>1. asker'.sum <= Sum(a, ShardIds) /\ asker'.low <= asker'.sum + 0
      BY <1>10, <2>1, <2>2
    <3>2. QED
      BY <1>3, <1>4, <1>5, <1>11, <3>1
  <2>4. AskerBounds'
    BY <1>2, <2>3 DEF AskerBounds
  <2>5. QED
    BY <1>2, <1>6, <1>7, <2>4 DEF ShardOK
<1>12. CASE k + 1 # ShardCount
  <2>1. asker'.pc = "sum" /\ asker'.shard < ShardCount /\ asker'.shard = k + 1
        /\ asker'.shard - 1 = k
    BY <1>1, <1>3, <1>5, <1>12, ShardCountAssumption DEF k
  <2>2. asker'.sum <= Sum(a, 0..(asker'.shard - 1))
        /\ asker'.low <= asker'.sum + Sum(a, (asker'.shard)..(ShardCount - 1))
    BY <1>10, <2>1
  <2>3. AskerBounds'
    BY <1>2, <2>1, <2>2 DEF AskerBounds
  <2>4. QED
    BY <1>2, <1>6, <1>7, <2>3 DEF ShardOK
<1>13. QED
  BY <1>11, <1>12

LEMMA AskAppliedStep ==
  ASSUME ShardOK, AskApplied
  PROVE  ShardOK'
<1> DEFINE a == AppliedBy
<1>1. /\ UNCHANGED <<shards, workers>>
      /\ asker' = [asker EXCEPT !.pc = "sum", !.shard = 0, !.sum = 0, !.low = Total, !.asks = @ + 1]
  BY DEF AskApplied
<1>2. Tables' /\ AppliedBy' = a /\ SentBy' = SentBy
  BY <1>1, ShardsSame DEF ShardOK
<1>3. Total = Sum(a, ShardIds)
  BY TotalIs DEF TotalSummed
<1>4. \A T \in SUBSET ShardIds : Sum(a, T) \in Nat
  BY AppliedByType DEF ShardOK
<1> DEFINE t == Total
<1>5. t \in Nat /\ t = Sum(a, ShardIds)
  BY <1>3, <1>4
<1> HIDE DEF t, a
<1>6. /\ DOMAIN asker' = DOMAIN asker /\ asker'.pc = "sum" /\ asker'.shard = 0
      /\ asker'.sum = 0 /\ asker'.low = t
  BY <1>1 DEF ShardOK, AskerShape, t
<1>7. AskerShape'
  BY <1>5, <1>6 DEF ShardOK, AskerShape
<1>8. 0..(0 - 1) = {} /\ 0..(ShardCount - 1) = ShardIds /\ 0 < ShardCount
  BY ShardCountAssumption DEF ShardIds
<1>9. Sum(a, {}) = 0
  BY FS_EmptySet, SumUnfold
<1>10. /\ asker'.shard < ShardCount
       /\ asker'.sum <= Sum(a, 0..(asker'.shard - 1))
       /\ asker'.low <= asker'.sum + Sum(a, (asker'.shard)..(ShardCount - 1))
  BY <1>5, <1>6, <1>8, <1>9
<1>11. AskerBounds'
  BY <1>2, <1>6, <1>10 DEF AskerBounds
<1>12. QED
  BY <1>2, <1>7, <1>11 DEF ShardOK, SumsAgreed, a

\* quote: the mutex and the two sides, none of which the counters see.
AskerMoves ==
  /\ DOMAIN asker' = DOMAIN asker /\ asker.pc # "sum"
  /\ asker'.pc \in {"idle", "bid", "ask"} /\ asker'.shard = asker.shard
  /\ asker'.sum = asker.sum /\ asker'.low = asker.low

LEMMA QuoteSteps ==
  ASSUME ShardOK, (\E s \in ShardIds : AskQuote(s)) \/ QuoteBid \/ QuoteAsk
  PROVE  ShardOK'
<1>1. /\ UNCHANGED workers
      /\ shards' = shards \/ \E s, m : shards' = [shards EXCEPT ![s].mu = m]
  BY DEF AskQuote, QuoteBid, QuoteAsk
<1>2. ShardKept
  BY <1>1 DEF ShardOK, Tables, ShardKept
<1>3. WorkersKept
  BY <1>1 DEF ShardOK, Tables, WorkersKept
<1>4. Tables' /\ AppliedBy' = AppliedBy /\ SentBy' = SentBy
  BY <1>2, <1>3, KeptTables DEF ShardOK
<1>5. AskerMoves
  <2>1. ASSUME NEW s, AskQuote(s) PROVE AskerMoves
    BY <2>1 DEF AskQuote, MayAsk, ShardOK, AskerShape, AskerMoves
  <2>2. ASSUME QuoteBid PROVE AskerMoves
    BY <2>2 DEF QuoteBid, ShardOK, AskerShape, AskerMoves
  <2>3. ASSUME QuoteAsk PROVE AskerMoves
    BY <2>3 DEF QuoteAsk, ShardOK, AskerShape, AskerMoves
  <2>4. QED
    BY <2>1, <2>2, <2>3
<1> HIDE DEF AppliedBy, SentBy
<1>6. AskerShape' /\ AskerBounds' /\ SumsAgreed'
  BY <1>4, <1>5 DEF ShardOK, AskerShape, AskerBounds, SumsAgreed, AskerMoves
<1>7. QED
  BY <1>4, <1>6 DEF ShardOK

LEMMA InitShards == ContInit => ShardOK
<1> SUFFICES ASSUME ContInit PROVE ShardOK
  OBVIOUS
<1>1. /\ shards = [s \in ShardIds |-> [book |-> NewBook, mu |-> Nobody, applied |-> 0]]
      /\ workers = [p \in Producers |-> [pc |-> "call", sent |-> 0, cmd |-> AnyCmd, left |-> 0]]
      /\ asker = [pc |-> "idle", shard |-> 0, quote |-> NoAnswer, of |-> 0, from |-> 0,
                  sum |-> 0, low |-> 0, asks |-> 0]
  BY DEF ContInit, ShardInit
<1>2. Tables /\ AskerShape
  BY <1>1 DEF Tables, AskerShape
<1>3. /\ AppliedBy \in [ShardIds -> Nat] /\ \A s \in ShardIds : AppliedBy[s] = 0
      /\ SentBy \in [Producers -> Nat] /\ \A p \in Producers : SentBy[p] = 0
  BY <1>1 DEF AppliedBy, SentBy
<1> HIDE DEF AppliedBy, SentBy
<1>4. Sum(AppliedBy, ShardIds) = 0 * Cardinality(ShardIds)
      /\ Sum(SentBy, Producers) = 0 * Cardinality(Producers)
  BY <1>3, ShardIdsFinite, PipelineAssumption, SumConst
<1>5. Cardinality(ShardIds) \in Nat /\ Cardinality(Producers) \in Nat
  BY ShardIdsFinite, PipelineAssumption, FS_CardinalityType
<1>6. Sum(AppliedBy, ShardIds) = 0 /\ Sum(SentBy, Producers) = 0
  BY <1>4, <1>5
<1>7. AskerBounds /\ SumsAgreed
  BY <1>1, <1>6 DEF AskerBounds, SumsAgreed
<1>8. QED
  BY <1>2, <1>7 DEF ShardOK

LEMMA ShardPreserved == ShardOK /\ [ContNext]_contVars => ShardOK'
<1> SUFFICES ASSUME ShardOK, [ContNext]_contVars PROVE ShardOK'
  OBVIOUS
<1>1. ASSUME ShardKept, WorkersKept, UNCHANGED asker PROVE ShardOK'
  <2>1. Tables' /\ AppliedBy' = AppliedBy /\ SentBy' = SentBy
    BY <1>1, KeptTables DEF ShardOK
  <2>2. AskerShape' /\ AskerBounds'
    BY <1>1, <2>1, AskerKept DEF ShardOK
  <2> HIDE DEF AppliedBy, SentBy
  <2>3. QED
    BY <2>1, <2>2 DEF ShardOK, SumsAgreed
<1>2. ASSUME NEW p \in Producers, WorkerStep(p) PROVE ShardOK'
  BY <1>1, <1>2, LockKept, ApplyKept, UnlockStep DEF WorkerStep, ShardOK
<1>3. ASSUME ShardNext PROVE ShardOK'
  BY <1>2, <1>3, QuoteSteps, AskAppliedStep, AppliedAddStep DEF ShardNext, AskerStep
<1>4. ASSUME UNCHANGED shardVars PROVE ShardOK'
  <2>1. UNCHANGED <<shards, workers, asker>>
    BY <1>4 DEF shardVars
  <2>2. ShardKept /\ WorkersKept
    BY <2>1 DEF ShardOK, Tables, ShardKept, WorkersKept
  <2>3. QED
    BY <1>1, <2>1, <2>2
<1>5. QED
  BY <1>3, <1>4 DEF ContNext, SingleWriterStep, Steps, Finished, contVars

\* When a driver returns, applied() is the number of commands of all producers, and
\* a sum that applied() has added up shard by shard lies between what had been
\* applied at the call and what has been applied by now.
THEOREM NothingIsLost == ContSpec => []NoLostUpdates
<1>1. ContSpec => []ShardOK
  BY InitShards, ShardPreserved, PTL DEF ContSpec
<1>2. PipeOK /\ ShardOK => NoLostUpdates
  <2> SUFFICES ASSUME PipeOK, ShardOK PROVE NoLostUpdates
    OBVIOUS
  <2> DEFINE c == Cardinality(Producers)
             k == OpsEach
  <2>1. Total = Sum(AppliedBy, ShardIds)
    BY TotalIs DEF TotalSummed
  <2>2. IsFiniteSet(Producers) /\ c \in Nat /\ k \in Nat /\ AllOps = c * k /\ c * k = k * c
    BY PipelineAssumption, FS_CardinalityType DEF AllOps
  <2>3. ASSUME SingleWriter, Returned PROVE applied = AllOps
    <3>1. ~runCons /\ cons.pc = "done"
      BY <2>3 DEF Returned
    <3>2. AllOps <= applied /\ applied \in Nat /\ applied = Len(taken)
      BY <3>1 DEF PipeOK, FlagOK, ConsOK, InMarket
    <3>3. Len(taken) <= Len(Arrived) /\ Len(taken) \in Nat /\ Len(Arrived) \in Nat
      <4>1. q \in Seq(Entry) /\ taken \in Seq(Entry)
        BY DEF PipeOK, ConsOK
      <4>2. Len(Arrived) = Len(taken) + Len(q) /\ Len(taken) \in Nat /\ Len(q) \in Nat
        BY <4>1, ConcatProperties, LenProperties DEF Arrived
      <4>3. QED
        BY <4>2
    <3>4. SubmittedBy \in [Producers -> Nat] /\ \A p \in Producers : SubmittedBy[p] <= k
      BY <2>2 DEF PipeOK, ProdsOK, SubmittedBy, Submitted
    <3>5. Len(Arrived) <= k * c
      <4> DEFINE w == SubmittedBy
      <4>1. Len(Arrived) = Sum(w, Producers) /\ w \in [Producers -> Nat]
            /\ \A p \in Producers : w[p] <= k
        BY <3>4 DEF PipeOK, FlagOK
      <4> HIDE DEF w
      <4>2. Sum(w, Producers) <= k * Cardinality(Producers)
        BY <2>2, <4>1, SumBound
      <4>3. QED
        BY <4>1, <4>2
    <3>6. k * c \in Nat
      BY <2>2
    <3> HIDE DEF c, k, AllOps
    <3>7. QED
      BY <2>2, <3>2, <3>3, <3>5, <3>6
  <2>4. ASSUME ~SingleWriter, Returned PROVE Total = AllOps
    <3> DEFINE w == SentBy
    <3>1. w \in [Producers -> Nat] /\ \A p \in Producers : w[p] = k
      BY <2>2, <2>4 DEF Returned, SentBy
    <3>2. Total = Sum(w, Producers)
      BY <2>1 DEF ShardOK, SumsAgreed
    <3> HIDE DEF w
    <3>3. Sum(w, Producers) = k * Cardinality(Producers)
      BY <2>2, <3>1, SumConst
    <3>4. QED
      BY <2>2, <3>2, <3>3
  <2>5. asker.pc = "idle" => asker.low <= asker.sum /\ asker.sum <= Total
    BY <2>1 DEF ShardOK, AskerBounds
  <2>6. QED
    BY <2>3, <2>4, <2>5 DEF NoLostUpdates
<1>3. QED
  BY <1>1, <1>2, PipeInvariance, PTL

-----------------------------------------------------------------------------
(***************************************************************************)
(* Replay: what a fold of apply from the left computes.                    *)
(***************************************************************************)
\* g maps every set of indices to the book after the commands there.
UpTo(g, w, s) ==
  IF s = {} THEN NewBook ELSE ApplyCmd(g[s \ {Greatest(s)}], w[Greatest(s)])
Replays(g, w, T) ==
  g = [s \in SUBSET T |-> UpTo(g, w, s)]

ReplayFcn(w, n) == CHOOSE g : Replays(g, w, 1..n)
Replayed(w, n) == ReplayFcn(w, n)[1..n]

\* A longer replay is the shorter one on what the two have in common.
Agree(g, h, w, n, m) ==
  Replays(g, w, 1..n) /\ Replays(h, w, 1..m) /\ m <= n =>
    \A u \in SUBSET (1..m) : h[u] = g[u]

LEMMA ReplaysAgree ==
  ASSUME NEW w, NEW n \in Nat, NEW m \in Nat, NEW g, NEW h
  PROVE  Agree(g, h, w, n, m)
<1> USE DEF UpTo
<1> SUFFICES ASSUME Replays(g, w, 1..n), Replays(h, w, 1..m), m <= n
             PROVE  \A u \in SUBSET (1..m) : h[u] = g[u]
  BY DEF Agree
<1> DEFINE Bad == {u \in SUBSET (1..m) : h[u] # g[u]}
<1> SUFFICES ASSUME Bad # {} PROVE FALSE
  OBVIOUS
<1>1. PICK u \in Bad : \A v \in SUBSET u : v # u => v \notin Bad
  <2>1. Bad \in SUBSET (SUBSET (1..m)) /\ IsFiniteSet(1..m)
    BY FS_Interval
  <2> HIDE DEF Bad
  <2>2. QED
    BY <2>1, SmallestSet
<1>2. u \in SUBSET (1..m) /\ u \in SUBSET (1..n)
  OBVIOUS
<1>3. /\ h[u] = UpTo(h, w, u)
      /\ g[u] = UpTo(g, w, u)
  BY <1>2 DEF Replays
<1>4. u # {}
  BY <1>3
<1>5. h[u \ {Greatest(u)}] = g[u \ {Greatest(u)}]
  BY <1>1, <1>2, <1>4, GreatestIn
<1>6. QED
  BY <1>3, <1>5

LEMMA ReplaysExist ==
  ASSUME NEW w, NEW N \in Nat
  PROVE  \A n \in 0..N : Replays(ReplayFcn(w, n), w, 1..n)
<1> USE DEF UpTo
<1> DEFINE Good(n) == Replays(ReplayFcn(w, n), w, 1..n)
           Bad == {1..n : n \in {k \in 0..N : ~Good(k)}}
<1> SUFFICES ASSUME NEW z \in 0..N, ~Good(z) PROVE FALSE
  OBVIOUS
<1>1. Bad \in SUBSET (SUBSET (1..N)) /\ Bad # {} /\ IsFiniteSet(1..N)
  <2>1. \A k \in 0..N : 1..k \in SUBSET (1..N)
    OBVIOUS
  <2>2. 1..z \in Bad
    OBVIOUS
  <2>3. Bad \in SUBSET (SUBSET (1..N))
    BY <2>1
  <2>4. IsFiniteSet(1..N)
    BY FS_Interval
  <2> HIDE DEF Bad
  <2>5. QED
    BY <2>2, <2>3, <2>4
<1>2. PICK u \in Bad : \A v \in SUBSET u : v # u => v \notin Bad
  <2> HIDE DEF Bad
  <2>1. QED
    BY <1>1, SmallestSet
<1>3. PICK n \in 0..N : u = 1..n /\ ~Good(n)
  BY <1>2
<1>4. \A k \in 0..(n - 1) : Good(k)
  <2> SUFFICES ASSUME NEW k \in 0..(n - 1), ~Good(k) PROVE FALSE
    OBVIOUS
  <2>1. 1..k \in Bad /\ 1..k \in SUBSET u
    BY <1>3
  <2>2. 1..k # u
    <3>1. n \in 1..n /\ n \notin 1..k
      OBVIOUS
    <3>2. QED
      BY <1>3, <3>1
  <2>3. QED
    BY <1>2, <2>1, <2>2
<1> HIDE DEF Bad
<1>5. CASE n = 0
  <2> DEFINE g == [s \in SUBSET (1..0) |-> NewBook]
  <2>1. \A s \in SUBSET (1..0) : s = {}
    OBVIOUS
  <2>2. Replays(g, w, 1..0)
    <3>1. [s \in SUBSET (1..0) |-> NewBook]
          = [s \in SUBSET (1..0) |-> UpTo(g, w, s)]
      BY <2>1
    <3>2. g = [s \in SUBSET (1..0) |-> UpTo(g, w, s)]
      BY <3>1
    <3> HIDE DEF g
    <3>3. QED
      BY <3>2 DEF Replays
  <2> HIDE DEF g
  <2>3. QED
    BY <1>3, <1>5, <2>2 DEF ReplayFcn
<1>6. CASE n > 0
  <2> DEFINE f == ReplayFcn(w, n - 1)
             g == [s \in SUBSET (1..n) |-> UpTo(f, w, s)]
  <2>1. Replays(f, w, 1..(n - 1)) /\ n - 1 \in Nat
    BY <1>4, <1>6
  <2> HIDE DEF f
  <2>2. ASSUME NEW s \in SUBSET (1..n), s # {} PROVE g[s \ {Greatest(s)}] = f[s \ {Greatest(s)}]
    <3> DEFINE v == s \ {Greatest(s)}
    <3>1. v \in SUBSET (1..(n - 1)) /\ v \in SUBSET (1..n)
      <4>1. Greatest(s) \in s /\ \A y \in s : Greatest(s) >= y
        <5>1. n \in Nat
          OBVIOUS
        <5>2. QED
          BY <2>2, <5>1, GreatestIn
      <4>2. ASSUME NEW y \in v PROVE y \in 1..(n - 1)
        <5> DEFINE m == Greatest(s)
        <5>1. m \in 1..n /\ y \in 1..n /\ m >= y /\ y # m
          BY <4>1
        <5> HIDE DEF m
        <5>2. QED
          BY <5>1
      <4>3. QED
        BY <4>2
    <3> HIDE DEF v
    <3>2. f[v] = UpTo(f, w, v)
      BY <2>1, <3>1 DEF Replays
    <3>3. g[v] = UpTo(f, w, v)
      BY <3>1
    <3>4. QED
      BY <3>2, <3>3 DEF v
  <2>3. g = [s \in SUBSET (1..n) |-> UpTo(g, w, s)]
    BY <2>2
  <2> HIDE DEF g
  <2>4. Replays(g, w, 1..n)
    BY <2>3 DEF Replays
  <2>5. QED
    BY <1>3, <2>4 DEF ReplayFcn
<1>7. QED
  BY <1>5, <1>6

LEMMA ReplayEmpty == \A w : Replayed(w, 0) = NewBook
<1> USE DEF UpTo
<1> SUFFICES ASSUME NEW w PROVE Replayed(w, 0) = NewBook
  OBVIOUS
<1>1. Replays(ReplayFcn(w, 0), w, 1..0) /\ 1..0 = {}
  <2>1. 0 \in 0..0 /\ 0 \in Nat /\ 1..0 = {}
    OBVIOUS
  <2>2. QED
    BY <2>1, ReplaysExist
<1>2. QED
  BY <1>1 DEF Replays, Replayed

LEMMA ReplayStep ==
  ASSUME NEW w, NEW n \in Nat
  PROVE  Replayed(w, n + 1) = ApplyCmd(Replayed(w, n), w[n + 1])
<1> USE DEF UpTo
<1> DEFINE g == ReplayFcn(w, n + 1)
           h == ReplayFcn(w, n)
<1>1. Replays(g, w, 1..(n + 1)) /\ Replays(h, w, 1..n)
  <2>1. n + 1 \in Nat /\ n + 1 \in 0..(n + 1) /\ n \in 0..(n + 1)
    OBVIOUS
  <2>2. QED
    BY <2>1, ReplaysExist
<1> HIDE DEF g, h
<1>2. g[1..(n + 1)] = ApplyCmd(g[1..n], w[n + 1])
  <2>1. 1..(n + 1) \in SUBSET (1..(n + 1)) /\ 1..(n + 1) # {}
    OBVIOUS
  <2>2. g[1..(n + 1)] = ApplyCmd(g[(1..(n + 1)) \ {Greatest(1..(n + 1))}],
                                    w[Greatest(1..(n + 1))])
    BY <1>1, <2>1 DEF Replays
  <2>3. QED
    BY <2>2, GreatestRange
<1>3. h[1..n] = g[1..n]
  <2> DEFINE m == n + 1
  <2>1. m \in Nat /\ n <= m /\ 1..n \in SUBSET (1..n) /\ Replays(g, w, 1..m)
    BY <1>1
  <2> HIDE DEF m
  <2>2. Agree(g, h, w, m, n)
    BY <2>1, ReplaysAgree
  <2>3. \A u \in SUBSET (1..n) : h[u] = g[u]
    BY <1>1, <2>1, <2>2 DEF Agree
  <2>4. QED
    BY <2>1, <2>3
<1>4. QED
  BY <1>2, <1>3 DEF g, h, Replayed

LEMMA ReplaySame ==
  ASSUME NEW w, NEW v, NEW n \in Nat, \A i \in 1..n : w[i] = v[i]
  PROVE  Replayed(w, n) = Replayed(v, n)
<1> USE DEF UpTo
<1> DEFINE g == ReplayFcn(w, n)
           h == ReplayFcn(v, n)
<1>1. Replays(g, w, 1..n) /\ Replays(h, v, 1..n)
  <2>1. n \in 0..n
    OBVIOUS
  <2>2. QED
    BY <2>1, ReplaysExist
<1> HIDE DEF g, h
<1>2. \A s \in SUBSET (1..n) : s # {} => w[Greatest(s)] = v[Greatest(s)]
  BY GreatestIn
<1>3. Replays(g, v, 1..n)
  <2>1. g = [s \in SUBSET (1..n) |-> UpTo(g, w, s)]
    BY <1>1 DEF Replays
  <2>2. [s \in SUBSET (1..n) |-> UpTo(g, w, s)]
        = [s \in SUBSET (1..n) |-> UpTo(g, v, s)]
    BY <1>2
  <2>3. g = [s \in SUBSET (1..n) |-> UpTo(g, v, s)]
    BY <2>1, <2>2, Zenon
  <2>4. QED
    BY <2>3 DEF Replays
<1>4. h[1..n] = g[1..n]
  <2>1. Agree(g, h, v, n, n) /\ n <= n /\ 1..n \in SUBSET (1..n)
    BY ReplaysAgree
  <2>2. QED
    BY <1>1, <1>3, <2>1 DEF Agree
<1>5. QED
  BY <1>4 DEF g, h, Replayed

\* The model's fold is Replayed.
LEMMA ReplayIs == ASSUME NEW w, NEW n \in Nat, DOMAIN w = 1..n PROVE Replay(w) = Replayed(w, n)
<1>1. \A s : Seqs!Max(s) = Greatest(s)
  BY DEF Seqs!Max, Greatest
<1>2. Replay(w) = (CHOOSE g : g = [s \in SUBSET (DOMAIN w) |-> IF s = {} THEN NewBook
                     ELSE ApplyCmd(g[s \ {Seqs!Max(s)}], w[Seqs!Max(s)])])[DOMAIN w]
  BY DEF Replay, Seqs!FoldLeft, Seqs!MapThenFoldSet
<1>3. Replay(w) = (CHOOSE g : g = [s \in SUBSET (1..n) |-> IF s = {} THEN NewBook
                     ELSE ApplyCmd(g[s \ {Greatest(s)}], w[Greatest(s)])])[1..n]
  BY <1>1, <1>2
<1>4. QED
  BY <1>3 DEF Replayed, ReplayFcn, Replays, UpTo

\* Replaying one more command applies it to what the others gave.
LEMMA ReplayAppend ==
  /\ Replay(<<>>) = NewBook
  /\ \A S : \A L \in Seq(S) : \A c \in S : Replay(Append(L, c)) = ApplyCmd(Replay(L), c)
<1>1. Replay(<<>>) = NewBook
  <2> DEFINE w == <<>>
  <2>1. DOMAIN w = 1..0 /\ 0 \in Nat
    OBVIOUS
  <2> HIDE DEF w
  <2>2. Replay(w) = NewBook
    BY <2>1, ReplayIs, ReplayEmpty
  <2>3. QED
    BY <2>2 DEF w
<1>2. ASSUME NEW S, NEW L \in Seq(S), NEW c \in S
      PROVE  Replay(Append(L, c)) = ApplyCmd(Replay(L), c)
  <2> DEFINE n == Len(L)
             w == Append(L, c)
  <2>1. n \in Nat /\ n + 1 \in Nat /\ DOMAIN L = 1..n /\ DOMAIN w = 1..(n + 1)
        /\ w[n + 1] = c /\ \A i \in 1..n : w[i] = L[i]
    OBVIOUS
  <2> HIDE DEF n, w
  <2>2. Replay(L) = Replayed(L, n) /\ Replay(w) = Replayed(w, n + 1)
    BY <2>1, ReplayIs
  <2>3. Replayed(w, n + 1) = ApplyCmd(Replayed(w, n), w[n + 1])
    BY <2>1, ReplayStep
  <2>4. Replayed(w, n) = Replayed(L, n)
    BY <2>1, ReplaySame
  <2>5. Replay(w) = ApplyCmd(Replay(L), c)
    BY <2>1, <2>2, <2>3, <2>4
  <2>6. QED
    BY <2>5 DEF w
<1>3. QED
  BY <1>1, <1>2

-----------------------------------------------------------------------------
(***************************************************************************)
(* The invariant behind ShardsSerial.  While a producer holds the mutex,   *)
(* what is left of its command leads from the book to the replay of the    *)
(* log; and every command has left an id for the next one.                 *)
(***************************************************************************)
Rest(b, c, left) ==
  IF c.type = "Market" THEN MarketOrder(b, c.side, left) ELSE ApplyCmd(b, c)

Holds(p, s) ==
  /\ workers[p].pc \in {"apply", "unlock"} /\ ShardOf(workers[p].cmd) = s
  /\ Len(log[s]) = shards[s].applied + 1
  /\ workers[p].pc = "apply" =>
       /\ shards[s].book.nextId <= Len(log[s]) /\ workers[p].left \in Qty
       /\ Rest(shards[s].book, workers[p].cmd, workers[p].left) = Replay(log[s])
  /\ workers[p].pc = "unlock" => shards[s].book = Replay(log[s])

SerialAt(s) ==
  /\ log[s] \in Seq(Cmds)
  /\ Plain(shards[s].book) /\ shards[s].book.nextId <= 1 + Len(log[s])
  /\ shards[s].mu \notin Producers =>
       Len(log[s]) = shards[s].applied /\ shards[s].book = Replay(log[s])
  /\ \A p \in Producers : shards[s].mu = p => Holds(p, s)

WorkersOK ==
  \A p \in Producers :
    /\ workers[p].pc \in {"call", "apply", "unlock"} /\ workers[p].sent <= OpsEach
    /\ workers[p].pc # "call" =>
         workers[p].sent < OpsEach /\ shards[ShardOf(workers[p].cmd)].mu = p

SerialOK == DOMAIN log = ShardIds /\ (\A s \in ShardIds : SerialAt(s)) /\ WorkersOK

LEMMA SerialFrame ==
  ASSUME NEW s \in ShardIds, SerialAt(s), shards'[s] = shards[s], log'[s] = log[s],
         \A p \in Producers : shards[s].mu = p => workers'[p] = workers[p]
  PROVE  SerialAt(s)'
BY DEF SerialAt, Holds

\* A producer takes the mutex: the command joins the log.
LEMMA LockSerial ==
  ASSUME Tables, SerialOK, NEW p \in Producers, NEW c \in Cmds, ShardLock(p, c)
  PROVE  SerialOK'
<1> DEFINE x == ShardOf(c)
           L == log[x]
           M == Append(L, c)
<1>1. /\ workers[p].pc = "call" /\ workers[p].sent < OpsEach /\ shards[x].mu = Nobody
      /\ shards' = [shards EXCEPT ![x].mu = p]
      /\ workers' = [workers EXCEPT ![p].pc = "apply", ![p].cmd = c, ![p].left = c.qty]
      /\ log' = [log EXCEPT ![x] = M]
  BY DEF ShardLock
<1>2. x \in ShardIds /\ SerialAt(x) /\ Nobody \notin Producers
  BY ShardOfIn, HoldersAssumption DEF SerialOK
<1>3. L \in Seq(Cmds) /\ Len(L) \in Nat /\ M \in Seq(Cmds) /\ Len(M) = Len(L) + 1
  BY <1>2 DEF SerialAt
<1>4. Replay(M) = ApplyCmd(Replay(L), c)
  BY <1>3, ReplayAppend
<1> HIDE DEF M, x
<1>5. /\ shards'[x].mu = p /\ shards'[x].book = shards[x].book
      /\ shards'[x].applied = shards[x].applied
      /\ \A t \in ShardIds : t # x => shards'[t] = shards[t]
  BY <1>1, <1>2 DEF Tables
<1>6. /\ workers'[p].pc = "apply" /\ workers'[p].cmd = c /\ workers'[p].left = c.qty
      /\ workers'[p].sent = workers[p].sent
      /\ \A r \in Producers : r # p => workers'[r] = workers[r]
  BY <1>1 DEF Tables
<1>7. /\ DOMAIN log' = ShardIds /\ log'[x] = M
      /\ \A t \in ShardIds : t # x => log'[t] = log[t]
  BY <1>1, <1>2 DEF SerialOK
<1> DEFINE b == shards[x].book
<1>8. /\ Plain(b) /\ b.nextId <= 1 + Len(L) /\ b.nextId \in Int
      /\ Len(L) = shards[x].applied /\ b = Replay(L)
  <2>1. /\ Plain(b) /\ b.nextId <= 1 + Len(L)
        /\ Len(L) = shards[x].applied /\ b = Replay(L)
    BY <1>1, <1>2 DEF SerialAt
  <2>2. b.nextId \in Int
    BY <2>1, PlainId
  <2>3. QED
    BY <2>1, <2>2
<1> HIDE DEF b, L
<1>9. c.qty \in Qty /\ Rest(b, c, c.qty) = ApplyCmd(b, c)
  BY CmdsAssumption DEF Rest, ApplyCmd
<1>10. SerialAt(x)'
  <2>1. Rest(b, c, c.qty) = Replay(M)
    BY <1>4, <1>8, <1>9
  <2>2. b.nextId <= Len(M) /\ Len(M) = shards[x].applied + 1 /\ b.nextId <= 1 + Len(M)
    BY <1>3, <1>8
  <2>3. Holds(p, x)'
    BY <1>5, <1>6, <1>7, <1>9, <2>1, <2>2 DEF Holds, b, x
  <2>4. shards'[x].mu \in Producers /\ \A r \in Producers : shards'[x].mu = r => r = p
    BY <1>5
  <2>5. QED
    BY <1>3, <1>5, <1>7, <1>8, <2>2, <2>3, <2>4 DEF SerialAt, b
<1>11. ASSUME NEW t \in ShardIds, t # x PROVE SerialAt(t)'
  <2>1. SerialAt(t)
    BY DEF SerialOK
  <2>2. \A r \in Producers : shards[t].mu = r => r # p
    BY <1>1, <2>1 DEF SerialAt, Holds
  <2>3. QED
    BY <1>5, <1>6, <1>7, <1>11, <2>1, <2>2, SerialFrame
<1>12. WorkersOK'
  <2> SUFFICES ASSUME NEW r \in Producers
               PROVE  /\ workers'[r].pc \in {"call", "apply", "unlock"} /\ workers'[r].sent <= OpsEach
                      /\ workers'[r].pc # "call" => /\ workers'[r].sent < OpsEach
                                                    /\ shards'[ShardOf(workers'[r].cmd)].mu = r
    BY DEF WorkersOK
  <2>1. CASE r = p
    BY <1>1, <1>5, <1>6, <2>1, PipelineAssumption DEF Tables, x
  <2>2. CASE r # p
    <3>1. workers'[r] = workers[r]
      BY <1>6, <2>2
    <3>2. /\ workers[r].pc \in {"call", "apply", "unlock"} /\ workers[r].sent <= OpsEach
          /\ workers[r].pc # "call" => /\ workers[r].sent < OpsEach
                                       /\ shards[ShardOf(workers[r].cmd)].mu = r
      BY DEF SerialOK, WorkersOK
    <3>3. workers[r].pc # "call" => ShardOf(workers[r].cmd) \in ShardIds
      BY ShardOfIn DEF Tables
    <3>4. QED
      BY <1>1, <1>2, <1>5, <3>1, <3>2, <3>3
  <2>3. QED
    BY <2>1, <2>2
<1>13. QED
  BY <1>7, <1>10, <1>11, <1>12 DEF SerialOK

\* Every producer has a command left as long as it has one under way.
LEMMA IdsLeft ==
  ASSUME ShardOK, SerialOK, NEW p \in Producers, workers[p].pc # "call", NEW s \in ShardIds
  PROVE  shards[s].applied + 1 <= MaxId
<1> DEFINE w == SentBy
           v == [SentBy EXCEPT ![p] = @ + 1]
           a == AppliedBy
           c == Cardinality(Producers)
<1>1. IsFiniteSet(Producers) /\ OpsEach \in Nat /\ c \in Nat /\ OpsEach * c = AllOps /\ AllOps \in Nat
  <2>1. IsFiniteSet(Producers) /\ OpsEach \in Nat /\ c \in Nat /\ AllOps = c * OpsEach
    BY PipelineAssumption, FS_CardinalityType DEF AllOps
  <2> HIDE DEF c
  <2>2. QED
    BY <2>1
<1>2. /\ w \in [Producers -> Nat] /\ v \in [Producers -> Nat]
      /\ v[p] = w[p] + 1 /\ \A r \in Producers : r # p => v[r] = w[r]
  BY DEF ShardOK, Tables, SentBy
<1>3. \A r \in Producers : v[r] <= OpsEach
  <2>1. workers[p].sent < OpsEach /\ \A r \in Producers : workers[r].sent <= OpsEach
    BY DEF SerialOK, WorkersOK
  <2>2. w[p] + 1 <= OpsEach /\ \A r \in Producers : w[r] <= OpsEach
    BY <1>1, <2>1 DEF ShardOK, Tables, SentBy
  <2> HIDE DEF w, v
  <2>3. QED
    BY <1>2, <2>2
<1>4. a \in [ShardIds -> Nat] /\ a[s] = shards[s].applied /\ a[s] \in Nat
  BY DEF ShardOK, Tables, AppliedBy
<1>5. Sum(a, ShardIds) = Sum(w, Producers)
  BY DEF ShardOK, SumsAgreed
<1> HIDE DEF w, v, a, c
<1>6. Sum(v, Producers) = Sum(w, Producers) + 1 /\ Sum(w, Producers) \in Nat
  BY <1>1, <1>2, SumBump
<1>7. Sum(v, Producers) <= OpsEach * c
  BY <1>1, <1>2, <1>3, SumBound DEF c
<1>8. a[s] <= Sum(a, ShardIds)
  <2> DEFINE T == ShardIds \ {s}
  <2>1. Sum(a, ShardIds) = a[s] + Sum(a, T) /\ Sum(a, T) \in Nat
    BY <1>4, ShardIdsFinite, SumTake, SumNat
  <2> HIDE DEF T
  <2>2. QED
    BY <1>4, <2>1
<1>9. QED
  BY <1>1, <1>4, <1>5, <1>6, <1>7, <1>8, IdsAssumption, MaxIdAssumption

\* The holder of the mutex of shard x goes on: its book becomes nb.
Proceeds(p, x, nb) ==
  /\ DOMAIN log' = ShardIds /\ log' = log
  /\ shards'[x].book = nb /\ shards'[x].mu = shards[x].mu
  /\ shards'[x].applied = shards[x].applied
  /\ \A t \in ShardIds : t # x => shards'[t] = shards[t]
  /\ workers'[p].cmd = workers[p].cmd /\ workers'[p].sent = workers[p].sent
  /\ workers'[p].pc \in {"apply", "unlock"}
  /\ \A r \in Producers : r # p => workers'[r] = workers[r]
  /\ workers'[p].pc = "apply" =>
       /\ nb.nextId <= Len(log[x]) /\ workers'[p].left \in Qty
       /\ Rest(nb, workers[p].cmd, workers'[p].left) = Replay(log[x])
  /\ workers'[p].pc = "unlock" => nb = Replay(log[x])

LEMMA HolderFacts ==
  ASSUME Tables, SerialOK, NEW p \in Producers, workers[p].pc # "call"
  PROVE  LET x == ShardOf(workers[p].cmd) IN
         /\ workers[p].cmd \in Cmds /\ x \in ShardIds /\ SerialAt(x) /\ Holds(p, x)
         /\ shards[x].mu = p
<1>1. workers[p].cmd \in Cmds
  BY DEF Tables
<1>2. ShardOf(workers[p].cmd) \in ShardIds
  BY <1>1, ShardOfIn
<1>3. shards[ShardOf(workers[p].cmd)].mu = p
  BY DEF SerialOK, WorkersOK
<1>4. QED
  BY <1>1, <1>2, <1>3 DEF SerialOK, SerialAt

LEMMA ProceedSerial ==
  ASSUME Tables, SerialOK, NEW p \in Producers, workers[p].pc = "apply",
         NEW nb, Plain(nb), NEW x, x = ShardOf(workers[p].cmd),
         nb.nextId <= 1 + Len(log[x]), Proceeds(p, x, nb)
  PROVE  SerialOK'
<1>1. x \in ShardIds /\ SerialAt(x) /\ Holds(p, x) /\ shards[x].mu = p
  BY HolderFacts
<1>2. Holds(p, x)'
  BY <1>1 DEF Holds, Proceeds
<1>3. SerialAt(x)'
  BY <1>1, <1>2 DEF SerialAt, Proceeds
<1>4. ASSUME NEW t \in ShardIds, t # x PROVE SerialAt(t)'
  <2>1. SerialAt(t)
    BY DEF SerialOK
  <2>2. \A r \in Producers : shards[t].mu = r => r # p
    BY <1>4, <2>1 DEF SerialAt, Holds
  <2>3. shards'[t] = shards[t] /\ log'[t] = log[t]
        /\ \A r \in Producers : r # p => workers'[r] = workers[r]
    BY <1>4 DEF Proceeds
  <2>4. QED
    BY <2>1, <2>2, <2>3, SerialFrame
<1>5. WorkersOK'
  <2> SUFFICES ASSUME NEW r \in Producers
               PROVE  /\ workers'[r].pc \in {"call", "apply", "unlock"} /\ workers'[r].sent <= OpsEach
                      /\ workers'[r].pc # "call" => /\ workers'[r].sent < OpsEach
                                                    /\ shards'[ShardOf(workers'[r].cmd)].mu = r
    BY DEF WorkersOK
  <2>1. /\ workers[r].pc \in {"call", "apply", "unlock"} /\ workers[r].sent <= OpsEach
        /\ workers[r].pc # "call" => /\ workers[r].sent < OpsEach
                                     /\ shards[ShardOf(workers[r].cmd)].mu = r
                                     /\ ShardOf(workers[r].cmd) \in ShardIds
    BY HolderFacts DEF SerialOK, WorkersOK
  <2>2. \A t \in ShardIds : shards'[t].mu = shards[t].mu
    BY DEF Proceeds
  <2>3. /\ workers'[r].cmd = workers[r].cmd /\ workers'[r].sent = workers[r].sent
        /\ workers'[r].pc \in {"call", "apply", "unlock"}
        /\ workers'[r].pc # "call" => workers[r].pc # "call"
    BY <2>1 DEF Proceeds
  <2>4. QED
    BY <2>1, <2>2, <2>3
<1>6. QED
  BY <1>3, <1>4, <1>5 DEF SerialOK, Proceeds

\* A limit or a cancel is applied in one step.
LEMMA ApplyOnceSerial ==
  ASSUME ShardOK, SerialOK, NEW p \in Producers, ShardApplyOnce(p)
  PROVE  SerialOK'
<1> DEFINE c == workers[p].cmd
           x == ShardOf(c)
           b == shards[x].book
           L == log[x]
           nb == ApplyCmd(b, c)
<1>1. /\ workers[p].pc = "apply" /\ c.type # "Market" /\ UNCHANGED log
      /\ shards' = [shards EXCEPT ![x].book =
           IF c.type = "Limit" THEN AddLimitOrder(b, c.side, c.price, c.qty)
           ELSE CancelOrder(b, c.cancel_id)]
      /\ workers' = [workers EXCEPT ![p].pc = "unlock"]
  BY DEF ShardApplyOnce
<1>2. Tables
  BY DEF ShardOK
<1>3. c \in Cmds /\ x \in ShardIds /\ SerialAt(x) /\ Holds(p, x)
  BY <1>1, <1>2, HolderFacts
<1>4. c.type \in {"Limit", "Cancel"}
  BY <1>1, <1>3, PipelineAssumption
<1>5. nb = IF c.type = "Limit" THEN AddLimitOrder(b, c.side, c.price, c.qty)
           ELSE CancelOrder(b, c.cancel_id)
  BY <1>4 DEF ApplyCmd
<1>6. /\ Plain(b) /\ b.nextId <= Len(L) /\ Len(L) = shards[x].applied + 1
      /\ Rest(b, c, workers[p].left) = Replay(L) /\ L \in Seq(Cmds) /\ b.nextId \in Int
  <2>1. /\ Plain(b) /\ b.nextId <= Len(L) /\ Len(L) = shards[x].applied + 1
        /\ Rest(b, c, workers[p].left) = Replay(L) /\ L \in Seq(Cmds)
    BY <1>1, <1>3 DEF SerialAt, Holds
  <2>2. b.nextId \in Int
    BY <2>1, PlainId
  <2>3. QED
    BY <2>1, <2>2
<1>7. shards[x].applied + 1 <= MaxId /\ shards[x].applied \in Nat
  BY <1>1, <1>2, <1>3, IdsLeft DEF Tables
<1>8. b.nextId <= MaxId /\ Len(L) \in Nat
  BY <1>6, <1>7, MaxIdAssumption
<1>9. nb = Replay(L)
  BY <1>1, <1>6 DEF Rest
<1>10. Plain(nb) /\ nb.nextId <= b.nextId + 1 /\ nb.nextId \in Int
  <2>1. CASE c.type = "Limit"
    <3>1. c.side \in Sides /\ c.price \in Prices /\ c.qty \in Qty
      BY <1>3, <2>1, CmdsAssumption
    <3>2. nb = AddLimitOrder(b, c.side, c.price, c.qty)
      BY <1>5, <2>1
    <3> HIDE DEF nb, b, c
    <3>3. Plain(nb) /\ nb.nextId <= b.nextId + 1
      BY <1>6, <1>8, <3>1, <3>2, PlainAdd
    <3>4. nb.nextId \in Int
      BY <3>3, PlainId
    <3>5. QED
      BY <3>3, <3>4
  <2>2. CASE c.type = "Cancel"
    <3>1. c.cancel_id \in Ids
      BY <1>3, CmdsAssumption
    <3>2. nb = CancelOrder(b, c.cancel_id)
      BY <1>5, <2>2
    <3> HIDE DEF nb, b, c
    <3>3. Plain(nb) /\ nb.nextId = b.nextId
      BY <1>6, <3>1, <3>2, PlainCancel
    <3>4. QED
      BY <1>6, <3>3
  <2>3. QED
    BY <1>4, <2>1, <2>2
<1> HIDE DEF nb, b
<1>11. Proceeds(p, x, nb)
  <2>1. shards' = [shards EXCEPT ![x].book = nb]
    BY <1>1, <1>5
  <2>2. /\ shards'[x].book = nb /\ shards'[x].mu = shards[x].mu
        /\ shards'[x].applied = shards[x].applied
        /\ \A t \in ShardIds : t # x => shards'[t] = shards[t]
    BY <1>2, <1>3, <2>1 DEF Tables
  <2>3. /\ workers'[p].cmd = workers[p].cmd /\ workers'[p].sent = workers[p].sent
        /\ workers'[p].pc = "unlock"
        /\ \A r \in Producers : r # p => workers'[r] = workers[r]
    BY <1>1, <1>2 DEF Tables
  <2>4. DOMAIN log' = ShardIds /\ log' = log
    BY <1>1 DEF SerialOK
  <2>5. QED
    BY <1>9, <2>2, <2>3, <2>4 DEF Proceeds
<1>12. nb.nextId <= 1 + Len(log[x])
  BY <1>6, <1>8, <1>10
<1>13. QED
  BY <1>1, <1>2, <1>10, <1>11, <1>12, ProceedSerial

\* An iteration of market_order, or its return.
LEMMA ApplyMarketSerial ==
  ASSUME ShardOK, SerialOK, NEW p \in Producers, ShardApplyMarket(p)
  PROVE  SerialOK'
<1> DEFINE c == workers[p].cmd
           x == ShardOf(c)
           b == shards[x].book
           L == log[x]
           left == workers[p].left
           more == left > 0 /\ ~SideEmpty(b, Opposite(c.side))
           k == BestKey(b, Opposite(c.side))
           nb == MarketIteration(b, k, left)
           l == left - MarketTake(b, k, left)
<1>1. /\ workers[p].pc = "apply" /\ c.type = "Market" /\ UNCHANGED log
      /\ IF more
         THEN /\ shards' = [shards EXCEPT ![x].book = nb]
              /\ workers' = [workers EXCEPT ![p].left = @ - MarketTake(b, k, @)]
         ELSE /\ workers' = [workers EXCEPT ![p].pc = "unlock"]
              /\ UNCHANGED shards
  BY DEF ShardApplyMarket
<1>2. Tables
  BY DEF ShardOK
<1>3. c \in Cmds /\ x \in ShardIds /\ SerialAt(x) /\ Holds(p, x)
  BY <1>1, <1>2, HolderFacts
<1>4. /\ Plain(b) /\ b.nextId <= Len(L) /\ left \in Qty
      /\ Rest(b, c, left) = Replay(L) /\ L \in Seq(Cmds)
  BY <1>1, <1>3 DEF SerialAt, Holds
<1>5. b.nextId \in Int /\ Len(L) \in Nat /\ b.nextId <= 1 + Len(L)
  <2>1. b.nextId \in Int /\ Len(L) \in Nat
    BY <1>4, PlainId
  <2>2. QED
    BY <1>4, <2>1
<1>6. c.side \in Sides /\ Opposite(c.side) \in Sides
  BY <1>3, CmdsAssumption DEF Opposite, Sides
<1>7. MarketOrder(b, c.side, left) = Replay(L)
  BY <1>1, <1>4 DEF Rest
<1>8. DOMAIN log' = ShardIds /\ log' = log
  BY <1>1 DEF SerialOK
<1>9. CASE more
  <2>1. /\ shards' = [shards EXCEPT ![x].book = nb]
        /\ workers' = [workers EXCEPT ![p].left = @ - MarketTake(b, k, @)]
    BY <1>1, <1>9
  <2>2. Plain(nb) /\ nb.nextId = b.nextId /\ l \in Qty
    BY <1>4, <1>6, <1>9, PlainMarket
  <2>3. MarketOrder(nb, c.side, l) = MarketOrder(b, c.side, left)
    BY <1>4, <1>6, <1>9, MarketContinues
  <2>4. /\ workers'[p].cmd = workers[p].cmd /\ workers'[p].sent = workers[p].sent
        /\ workers'[p].pc = "apply" /\ workers'[p].left = l
        /\ \A r \in Producers : r # p => workers'[r] = workers[r]
    BY <1>1, <1>2, <2>1 DEF Tables
  <2> HIDE DEF nb, l
  <2>5. /\ shards'[x].book = nb /\ shards'[x].mu = shards[x].mu
        /\ shards'[x].applied = shards[x].applied
        /\ \A t \in ShardIds : t # x => shards'[t] = shards[t]
    BY <1>2, <1>3, <2>1 DEF Tables
  <2>6. Rest(nb, c, l) = Replay(L)
    BY <1>1, <1>7, <2>3 DEF Rest
  <2>7. Proceeds(p, x, nb)
    BY <1>4, <1>8, <2>2, <2>4, <2>5, <2>6 DEF Proceeds
  <2>8. nb.nextId <= 1 + Len(log[x])
    BY <1>5, <2>2
  <2>9. QED
    BY <1>1, <1>2, <2>2, <2>7, <2>8, ProceedSerial
<1>10. CASE ~more
  <2>1. UNCHANGED shards /\ workers' = [workers EXCEPT ![p].pc = "unlock"]
    BY <1>1, <1>10
  <2>2. left = 0 \/ SideEmpty(b, Opposite(c.side))
    BY <1>4, <1>10, QtyModAssumption DEF Qty
  <2>3. b = Replay(L)
    <3>1. MarketOrder(b, c.side, left) = b
      BY <2>2, MarketEnds
    <3>2. QED
      BY <1>7, <3>1
  <2>4. /\ workers'[p].cmd = workers[p].cmd /\ workers'[p].sent = workers[p].sent
        /\ workers'[p].pc = "unlock"
        /\ \A r \in Producers : r # p => workers'[r] = workers[r]
    BY <1>2, <2>1 DEF Tables
  <2>5. Proceeds(p, x, b)
    BY <1>8, <2>1, <2>3, <2>4 DEF Proceeds
  <2> HIDE DEF b
  <2>6. QED
    BY <1>1, <1>2, <1>4, <1>5, <2>5, ProceedSerial
<1>11. QED
  BY <1>9, <1>10

\* The mutex is released: the command is complete.
LEMMA UnlockSerial ==
  ASSUME ShardOK, SerialOK, NEW p \in Producers, ShardUnlock(p)
  PROVE  SerialOK'
<1>0. PICK x : x = ShardOf(workers[p].cmd)
  OBVIOUS
<1>1. /\ workers[p].pc = "unlock" /\ UNCHANGED log
      /\ shards' = [shards EXCEPT ![x].mu = Nobody, ![x].applied = @ + 1]
      /\ workers' = [workers EXCEPT ![p].pc = "call", ![p].sent = @ + 1]
  BY <1>0 DEF ShardUnlock
<1>2. Tables
  BY DEF ShardOK
<1>3. x \in ShardIds /\ SerialAt(x) /\ Holds(p, x) /\ Nobody \notin Producers
      /\ shards[x].mu = p
  BY <1>0, <1>1, <1>2, HolderFacts, HoldersAssumption
<1>4. shards[x].book = Replay(log[x]) /\ Len(log[x]) = shards[x].applied + 1
  BY <1>1, <1>3 DEF Holds
<1>5. /\ shards'[x].mu = Nobody /\ shards'[x].applied = shards[x].applied + 1
      /\ shards'[x].book = shards[x].book
      /\ \A t \in ShardIds : t # x => shards'[t] = shards[t]
  BY <1>1, <1>2, <1>3 DEF Tables
<1>6. /\ workers'[p].pc = "call" /\ workers'[p].sent = workers[p].sent + 1
      /\ \A r \in Producers : r # p => workers'[r] = workers[r]
  BY <1>1, <1>2 DEF Tables
<1>7. SerialAt(x)'
  BY <1>1, <1>3, <1>4, <1>5 DEF SerialAt
<1>8. ASSUME NEW t \in ShardIds, t # x PROVE SerialAt(t)'
  <2>1. SerialAt(t)
    BY DEF SerialOK
  <2>2. \A r \in Producers : shards[t].mu = r => r # p
    BY <1>0, <1>8, <2>1 DEF SerialAt, Holds
  <2>3. QED
    BY <1>1, <1>5, <1>6, <1>8, <2>1, <2>2, SerialFrame
<1>9. WorkersOK'
  <2> SUFFICES ASSUME NEW r \in Producers
               PROVE  /\ workers'[r].pc \in {"call", "apply", "unlock"} /\ workers'[r].sent <= OpsEach
                      /\ workers'[r].pc # "call" => /\ workers'[r].sent < OpsEach
                                                    /\ shards'[ShardOf(workers'[r].cmd)].mu = r
    BY DEF WorkersOK
  <2>1. CASE r = p
    <3>1. workers[p].sent < OpsEach /\ workers[p].sent \in Nat /\ OpsEach \in Nat
      BY <1>1, <1>2, PipelineAssumption DEF SerialOK, WorkersOK, Tables
    <3>2. QED
      BY <1>6, <2>1, <3>1
  <2>2. CASE r # p
    <3>1. workers'[r] = workers[r]
      BY <1>6, <2>2
    <3>2. /\ workers[r].pc \in {"call", "apply", "unlock"} /\ workers[r].sent <= OpsEach
          /\ workers[r].pc # "call" => /\ workers[r].sent < OpsEach
                                       /\ shards[ShardOf(workers[r].cmd)].mu = r
                                       /\ ShardOf(workers[r].cmd) \in ShardIds
      BY <1>2, HolderFacts DEF SerialOK, WorkersOK
    <3>3. QED
      BY <1>3, <1>5, <2>2, <3>1, <3>2
  <2>3. QED
    BY <2>1, <2>2
<1>10. DOMAIN log' = ShardIds
  BY <1>1 DEF SerialOK
<1>11. QED
  BY <1>7, <1>8, <1>9, <1>10 DEF SerialOK

\* The observer takes or releases a mutex that no producer holds.
LEMMA AskerSerial ==
  ASSUME Tables, SerialOK, UNCHANGED <<workers, log>>,
         \/ shards' = shards
         \/ \E x \in ShardIds : \E m : /\ shards' = [shards EXCEPT ![x].mu = m]
                                        /\ shards[x].mu \notin Producers /\ m \notin Producers
  PROVE  SerialOK'
<1>1. CASE shards' = shards
  BY <1>1 DEF SerialOK, SerialAt, Holds, WorkersOK
<1>2. ASSUME NEW x \in ShardIds, NEW m, shards' = [shards EXCEPT ![x].mu = m],
             shards[x].mu \notin Producers, m \notin Producers
      PROVE  SerialOK'
  <2>1. /\ shards'[x].mu = m /\ shards'[x].applied = shards[x].applied
        /\ shards'[x].book = shards[x].book
        /\ \A t \in ShardIds : t # x => shards'[t] = shards[t]
    BY <1>2 DEF Tables
  <2>2. SerialAt(x) /\ log' = log /\ workers' = workers /\ DOMAIN log' = ShardIds
    BY DEF SerialOK
  <2>3. SerialAt(x)'
    BY <1>2, <2>1, <2>2 DEF SerialAt
  <2>4. ASSUME NEW t \in ShardIds, t # x PROVE SerialAt(t)'
    <3>1. SerialAt(t) /\ shards'[t] = shards[t] /\ log'[t] = log[t]
      BY <2>1, <2>2, <2>4 DEF SerialOK
    <3>2. QED
      BY <2>2, <3>1, SerialFrame
  <2>5. WorkersOK'
    <3> SUFFICES ASSUME NEW r \in Producers
                 PROVE  /\ workers'[r].pc \in {"call", "apply", "unlock"} /\ workers'[r].sent <= OpsEach
                        /\ workers'[r].pc # "call" => /\ workers'[r].sent < OpsEach
                                                      /\ shards'[ShardOf(workers'[r].cmd)].mu = r
      BY DEF WorkersOK
    <3>1. /\ workers[r].pc \in {"call", "apply", "unlock"} /\ workers[r].sent <= OpsEach
          /\ workers[r].pc # "call" => /\ workers[r].sent < OpsEach
                                       /\ shards[ShardOf(workers[r].cmd)].mu = r
                                       /\ ShardOf(workers[r].cmd) \in ShardIds
      BY HolderFacts DEF SerialOK, WorkersOK
    <3>2. QED
      BY <1>2, <2>1, <2>2, <3>1
  <2>6. QED
    BY <2>2, <2>3, <2>4, <2>5 DEF SerialOK
<1>3. QED
  BY <1>1, <1>2

-----------------------------------------------------------------------------
(***************************************************************************)
(* The invariant behind QuoteSettled: in the middle of quote, the observer *)
(* holds the mutex of the shard and the bid is that of the shard's book.   *)
(***************************************************************************)
QuoteSeen ==
  \E n \in asker.from..Len(log[asker.of]) :
    asker.quote = Inside(Replay(SubSeq(log[asker.of], 1, n)))

AskerOK ==
  /\ DOMAIN asker.quote = {"bid", "ask"}
  /\ asker.of \in ShardIds /\ asker.from \in Nat /\ asker.from <= Len(log[asker.of])
  /\ asker.pc \in {"bid", "ask"} => shards[asker.of].mu = Observer
  /\ asker.pc = "ask" => asker.quote.bid = Top(shards[asker.of].book, Buy)
  /\ asker.pc \in {"idle", "sum"} => QuoteSeen

\* A longer log has seen what the shorter one had.
LEMMA PrefixKept ==
  ASSUME NEW L \in Seq(Cmds), NEW c \in Cmds, NEW n \in 0..Len(L)
  PROVE  SubSeq(Append(L, c), 1, n) = SubSeq(L, 1, n) /\ n \in 0..Len(Append(L, c))
<1>1. Append(L, c) \in Seq(Cmds) /\ Len(Append(L, c)) = Len(L) + 1 /\ Len(L) \in Nat
  OBVIOUS
<1>2. \A i \in 1..n : Append(L, c)[i] = L[i]
  OBVIOUS
<1>3. QED
  BY <1>1, <1>2

\* The steps of producers leave the shard alone while the observer has its mutex.
LEMMA WorkersKeepQuote ==
  ASSUME SerialOK, AskerOK, UNCHANGED asker,
         NEW x, x = asker.of,
         log'[x] = log[x] \/ \E c \in Cmds : log'[x] = Append(log[x], c),
         shards[x].mu = Observer => shards'[x] = shards[x]
  PROVE  AskerOK'
<1> DEFINE L == log[x]
<1>1. x \in ShardIds /\ L \in Seq(Cmds) /\ Len(L) \in Nat /\ asker.from \in Nat /\ asker.from <= Len(L)
  BY DEF SerialOK, SerialAt, AskerOK
<1>2. CASE log'[x] = L
  BY <1>2 DEF AskerOK, QuoteSeen
<1>3. ASSUME NEW c \in Cmds, log'[x] = Append(L, c) PROVE AskerOK'
  <2>1. Len(log'[x]) = Len(L) + 1 /\ asker.from <= Len(log'[x])
    BY <1>1, <1>3
  <2>2. ASSUME QuoteSeen PROVE QuoteSeen'
    <3>1. PICK n \in asker.from..Len(L) : asker.quote = Inside(Replay(SubSeq(L, 1, n)))
      BY <2>2 DEF QuoteSeen
    <3>2. n \in 0..Len(L)
      BY <1>1
    <3>3. SubSeq(log'[x], 1, n) = SubSeq(L, 1, n)
      BY <1>1, <1>3, <3>2, PrefixKept
    <3>4. n \in (asker.from)..Len(log'[x])
      BY <1>1, <2>1
    <3>5. asker'.quote = Inside(Replay(SubSeq(log'[asker'.of], 1, n)))
      BY <3>1, <3>3
    <3>6. QED
      BY <3>4, <3>5 DEF QuoteSeen
  <2>3. QED
    BY <1>1, <2>1, <2>2 DEF AskerOK
<1>4. QED
  BY <1>2, <1>3

LEMMA WorkerQuote ==
  ASSUME Tables, SerialOK, AskerOK, NEW p \in Producers, WorkerStep(p)
  PROVE  AskerOK'
<1>1. PICK x : x = asker.of
  OBVIOUS
<1>2. x \in ShardIds /\ Observer \notin Producers /\ Nobody # Observer /\ DOMAIN log = ShardIds
  BY <1>1, HoldersAssumption DEF AskerOK, SerialOK, Nobody, Observer
<1>3. ASSUME NEW c \in Cmds, ShardLock(p, c) PROVE AskerOK'
  <2>1. /\ shards[ShardOf(c)].mu = Nobody /\ UNCHANGED asker
        /\ shards' = [shards EXCEPT ![ShardOf(c)].mu = p]
        /\ log' = [log EXCEPT ![ShardOf(c)] = Append(log[ShardOf(c)], c)]
    BY <1>3 DEF ShardLock
  <2>2. log'[x] = log[x] \/ log'[x] = Append(log[x], c)
    BY <1>2, <2>1
  <2>3. shards[x].mu = Observer => shards'[x] = shards[x]
    BY <1>2, <2>1 DEF Tables
  <2>4. QED
    BY <1>1, <2>1, <2>2, <2>3, WorkersKeepQuote
<1>4. ASSUME ShardApplyOnce(p) \/ ShardApplyMarket(p) \/ ShardUnlock(p) PROVE AskerOK'
  <2> DEFINE s == ShardOf(workers[p].cmd)
  <2>1. /\ workers[p].pc # "call" /\ UNCHANGED <<asker, log>>
        /\ \/ shards' = shards
           \/ \E b : shards' = [shards EXCEPT ![s].book = b]
           \/ shards' = [shards EXCEPT ![s].mu = Nobody, ![s].applied = @ + 1]
    BY <1>4 DEF ShardApplyOnce, ShardApplyMarket, ShardUnlock
  <2>2. shards[s].mu = p
    BY <2>1, HolderFacts
  <2> HIDE DEF s
  <2>3. shards[x].mu = Observer => shards'[x] = shards[x]
    BY <1>2, <2>1, <2>2 DEF Tables
  <2>4. QED
    BY <1>1, <2>1, <2>3, WorkersKeepQuote
<1>5. QED
  BY <1>3, <1>4 DEF WorkerStep

\* quote takes the mutex of a shard that nobody holds.
LEMMA AskQuoteStep ==
  ASSUME Tables, AskerShape, SerialOK, AskerOK, NEW s \in ShardIds, AskQuote(s)
  PROVE  SerialOK' /\ AskerOK'
<1>1. /\ MayAsk /\ shards[s].mu = Nobody /\ UNCHANGED <<workers, log>>
      /\ shards' = [shards EXCEPT ![s].mu = Observer]
      /\ asker' = [asker EXCEPT !.pc = "bid", !.of = s, !.from = Completed(s), !.asks = @ + 1]
  BY DEF AskQuote
<1>2. Nobody \notin Producers /\ Observer \notin Producers
  BY HoldersAssumption
<1>3. SerialOK'
  BY <1>1, <1>2, AskerSerial
<1>4. Completed(s) = Len(log[s]) /\ Len(log[s]) \in Nat
  <2>1. log[s] \in Seq(Cmds)
    BY DEF SerialOK, SerialAt
  <2>2. Len(log[s]) \in Nat /\ Completed(s) = Len(log[s]) - 0
    BY <1>1, <1>2, <2>1 DEF Completed
  <2>3. QED
    BY <2>2
<1>5. /\ asker'.pc = "bid" /\ asker'.of = s /\ asker'.from = Completed(s)
      /\ asker'.quote = asker.quote
  BY <1>1 DEF AskerShape
<1>6. shards'[s].mu = Observer
  BY <1>1 DEF Tables
<1>7. AskerOK'
  BY <1>1, <1>4, <1>5, <1>6 DEF AskerOK
<1>8. QED
  BY <1>3, <1>7

\* The bid, and then the ask, of the book under the mutex.
LEMMA QuoteBidStep ==
  ASSUME Tables, AskerShape, SerialOK, AskerOK, QuoteBid
  PROVE  SerialOK' /\ AskerOK'
<1>1. /\ asker.pc = "bid" /\ UNCHANGED <<shards, workers, log>>
      /\ asker' = [asker EXCEPT !.pc = "ask", !.quote.bid = Top(shards[asker.of].book, Buy)]
  BY DEF QuoteBid
<1>2. SerialOK'
  BY <1>1, AskerSerial
<1>3. /\ asker'.pc = "ask" /\ asker'.of = asker.of /\ asker'.from = asker.from
      /\ DOMAIN asker'.quote = {"bid", "ask"}
      /\ asker'.quote.bid = Top(shards[asker.of].book, Buy)
  BY <1>1 DEF AskerShape, AskerOK
<1>4. AskerOK'
  BY <1>1, <1>3 DEF AskerOK
<1>5. QED
  BY <1>2, <1>4

LEMMA WholeLog ==
  ASSUME NEW L \in Seq(Cmds)
  PROVE  SubSeq(L, 1, Len(L)) = L /\ Len(L) \in Nat
OBVIOUS

LEMMA QuoteAskStep ==
  ASSUME Tables, AskerShape, SerialOK, AskerOK, QuoteAsk
  PROVE  SerialOK' /\ AskerOK'
<1>1. PICK x : x = asker.of
  OBVIOUS
<1>2. /\ asker.pc = "ask" /\ x \in ShardIds /\ shards[x].mu = Observer
      /\ asker.quote.bid = Top(shards[x].book, Buy) /\ DOMAIN asker.quote = {"bid", "ask"}
      /\ asker.from \in Nat /\ asker.from <= Len(log[x])
  BY <1>1 DEF QuoteAsk, AskerOK
<1>3. /\ UNCHANGED <<workers, log>> /\ shards' = [shards EXCEPT ![x].mu = Nobody]
      /\ asker' = [asker EXCEPT !.pc = "idle", !.quote.ask = Top(shards[x].book, Sell)]
  BY <1>1, <1>2 DEF QuoteAsk
<1>4. Nobody \notin Producers /\ Observer \notin Producers
  BY HoldersAssumption
<1>5. SerialOK'
  BY <1>2, <1>3, <1>4, AskerSerial
<1>6. log[x] \in Seq(Cmds) /\ shards[x].book = Replay(log[x])
  BY <1>2, <1>4 DEF SerialOK, SerialAt
<1>7. /\ asker'.pc = "idle" /\ asker'.of = x /\ asker'.from = asker.from
      /\ DOMAIN asker'.quote = {"bid", "ask"}
      /\ asker'.quote = [asker.quote EXCEPT !.ask = Top(shards[x].book, Sell)]
  BY <1>1, <1>2, <1>3 DEF AskerShape
<1>8. asker'.quote = Inside(Replay(log[x]))
  <2> DEFINE b == Top(shards[x].book, Buy)
             a == Top(shards[x].book, Sell)
             qt == asker.quote
  <2>1. Inside(Replay(log[x])) = [bid |-> b, ask |-> a]
    BY <1>6 DEF Inside
  <2>2. qt.bid = b /\ DOMAIN qt = {"bid", "ask"} /\ asker'.quote = [qt EXCEPT !.ask = a]
    BY <1>2, <1>7
  <2> HIDE DEF b, a, qt
  <2>3. [qt EXCEPT !.ask = a] = [bid |-> b, ask |-> a]
    BY <2>2
  <2>4. QED
    BY <2>1, <2>2, <2>3
<1>9. QuoteSeen'
  <2> DEFINE n == Len(log[x])
  <2>1. SubSeq(log[x], 1, n) = log[x] /\ n \in Nat
    BY <1>6, WholeLog
  <2>2. n \in (asker.from)..n
    BY <1>2, <2>1
  <2>3. log'[asker'.of] = log[x] /\ asker'.from = asker.from
    BY <1>3, <1>7
  <2> HIDE DEF n
  <2>4. asker'.quote = Inside(Replay(SubSeq(log'[asker'.of], 1, n)))
    BY <1>8, <2>1, <2>3
  <2>5. QED
    BY <2>2, <2>3, <2>4 DEF QuoteSeen, n
<1>10. AskerOK'
  BY <1>2, <1>3, <1>7, <1>9 DEF AskerOK
<1>11. QED
  BY <1>5, <1>10

\* applied() needs no mutex and leaves the last quote alone.
LEMMA SumKeepsQuote ==
  ASSUME Tables, AskerShape, SerialOK, AskerOK, AskApplied \/ AppliedAdd
  PROVE  SerialOK' /\ AskerOK'
<1>1. /\ UNCHANGED <<shards, workers, log>> /\ asker.pc \in {"idle", "sum"}
      /\ asker'.pc \in {"idle", "sum"} /\ asker'.of = asker.of /\ asker'.from = asker.from
      /\ asker'.quote = asker.quote
  BY DEF AppliedAdd, AskApplied, MayAsk, AskerShape
<1>2. SerialOK'
  BY <1>1, AskerSerial
<1>3. AskerOK'
  BY <1>1 DEF AskerOK, QuoteSeen
<1>4. QED
  BY <1>2, <1>3

LEMMA InitSerial == ContInit => SerialOK /\ AskerOK
<1> SUFFICES ASSUME ContInit PROVE SerialOK /\ AskerOK
  OBVIOUS
<1>1. /\ shards = [s \in ShardIds |-> [book |-> NewBook, mu |-> Nobody, applied |-> 0]]
      /\ workers = [p \in Producers |-> [pc |-> "call", sent |-> 0, cmd |-> AnyCmd, left |-> 0]]
      /\ asker = [pc |-> "idle", shard |-> 0, quote |-> NoAnswer, of |-> 0, from |-> 0,
                  sum |-> 0, low |-> 0, asks |-> 0]
      /\ log = [s \in ShardIds |-> <<>>]
  BY DEF ContInit, ShardInit
<1>2. Nobody \notin Producers /\ 0 \in ShardIds /\ OpsEach \in Nat
  BY HoldersAssumption, ShardCountAssumption, PipelineAssumption DEF ShardIds
<1> DEFINE nb == NewBook
<1>3. /\ Plain(nb) /\ nb.nextId = 1 /\ nb = Replay(<<>>)
      /\ \A side \in Sides : nb.ladder[side] = <<>>
  BY PlainNew, ReplayAppend DEF NewBook
<1> HIDE DEF nb
<1>4. ASSUME NEW s \in ShardIds PROVE SerialAt(s)
  <2>1. shards[s].book = nb /\ shards[s].mu = Nobody /\ shards[s].applied = 0 /\ log[s] = <<>>
    BY <1>1 DEF nb
  <2>2. <<>> \in Seq(Cmds) /\ Len(<<>>) = 0
    OBVIOUS
  <2>3. QED
    BY <1>2, <1>3, <2>1, <2>2 DEF SerialAt
<1>5. SerialOK
  BY <1>1, <1>2, <1>4 DEF SerialOK, WorkersOK
<1>6. NoAnswer = Inside(nb)
  BY <1>3 DEF NoAnswer, Inside, Top, SideEmpty, Sides
<1>7. /\ asker.pc = "idle" /\ asker.quote = NoAnswer /\ asker.of = 0 /\ asker.from = 0
      /\ log[0] = <<>> /\ Len(<<>>) = 0
  BY <1>1, <1>2
<1>8. QuoteSeen
  <2>1. SubSeq(<<>>, 1, 0) = <<>> /\ 0 \in 0..0
    OBVIOUS
  <2>2. asker.quote = Inside(Replay(SubSeq(log[asker.of], 1, 0)))
    BY <1>3, <1>6, <1>7, <2>1
  <2>3. 0 \in (asker.from)..Len(log[asker.of])
    BY <1>7
  <2>4. QED
    BY <2>2, <2>3 DEF QuoteSeen
<1>9. AskerOK
  BY <1>2, <1>7, <1>8 DEF AskerOK, NoAnswer
<1>10. QED
  BY <1>5, <1>9

LEMMA SerialPreserved ==
  ShardOK /\ SerialOK /\ AskerOK /\ [ContNext]_contVars => SerialOK' /\ AskerOK'
<1> SUFFICES ASSUME ShardOK, SerialOK, AskerOK, [ContNext]_contVars PROVE SerialOK' /\ AskerOK'
  OBVIOUS
<1>1. Tables /\ AskerShape
  BY DEF ShardOK
<1>2. ASSUME NEW p \in Producers, WorkerStep(p) PROVE SerialOK' /\ AskerOK'
  <2>1. AskerOK'
    BY <1>1, <1>2, WorkerQuote
  <2>2. SerialOK'
    BY <1>1, <1>2, LockSerial, ApplyOnceSerial, ApplyMarketSerial, UnlockSerial DEF WorkerStep
  <2>3. QED
    BY <2>1, <2>2
<1>3. ASSUME ShardNext PROVE SerialOK' /\ AskerOK'
  BY <1>1, <1>2, <1>3, AskQuoteStep, QuoteBidStep, QuoteAskStep, SumKeepsQuote
  DEF ShardNext, AskerStep
<1>4. ASSUME UNCHANGED shardVars PROVE SerialOK' /\ AskerOK'
  <2>1. UNCHANGED <<shards, workers, asker, log>>
    BY <1>4 DEF shardVars
  <2>2. SerialOK'
    BY <1>1, <2>1, AskerSerial
  <2>3. AskerOK'
    BY <2>1 DEF AskerOK, QuoteSeen
  <2>4. QED
    BY <2>2, <2>3
<1>5. QED
  BY <1>3, <1>4 DEF ContNext, SingleWriterStep, Steps, Finished, contVars

LEMMA SerialInvariance == ContSpec => [](SerialOK /\ AskerOK)
<1>1. ContSpec => []ShardOK
  BY InitShards, ShardPreserved, PTL DEF ContSpec
<1>2. QED
  BY <1>1, InitSerial, SerialPreserved, PTL DEF ContSpec

\* The commands of all producers on a shard take effect one after the other, in
\* the order in which they took the mutex, however the producers interleave and
\* however many iterations their market orders need: whenever no producer holds
\* it, the book is what add_limit_order, cancel_order and market_order as
\* functions make of those commands.
THEOREM ShardsAreSerial == ContSpec => []ShardsSerial
<1>1. SerialOK => ShardsSerial
  BY DEF SerialOK, SerialAt, ShardsSerial
<1>2. QED
  BY <1>1, SerialInvariance, PTL

\* A quote of a shard is the inside of its book after a number of whole commands,
\* among them all that were complete when quote was called.
THEOREM QuotesAreSettled == ContSpec => []QuoteSettled
<1>1. AskerOK => QuoteSettled
  BY DEF AskerOK, QuoteSeen, QuoteSettled
<1>2. QED
  BY <1>1, SerialInvariance, PTL
=============================================================================
