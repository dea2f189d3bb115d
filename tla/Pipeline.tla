------------------------------ MODULE Pipeline ------------------------------
(***************************************************************************)
(* lob::SingleWriterPipeline: producers submit commands to an MPSC queue;  *)
(* one consumer drains it, applies the commands to the book and publishes  *)
(* the inside of the book after each batch.                                *)
(*                                                                         *)
(* The queue is the BoundedFifo that MpscRing implements: try_push         *)
(* reserves a place and makes it ready in a second step, and try_pop waits *)
(* for the oldest place to be ready.  Publishing a quote is one step, as   *)
(* SeqlockQuote lets no reader see part of it.                             *)
(***************************************************************************)
EXTENDS OrderBook

CONSTANTS
  Producers,  \* the producer threads
  OpsEach,    \* the commands each of them submits
  Cmds,       \* the commands they choose from (IngressCmd)
  QueueCap,   \* kIngressCap
  MaxDrain    \* drain's max_cmds

ASSUME PipelineAssumption ==
  /\ IsFiniteSet(Producers)
  /\ OpsEach \in Nat /\ QueueCap \in Nat \ {0} /\ MaxDrain \in Nat \ {0}
  /\ \A c \in Cmds : c.type \in {"Limit", "Market", "Cancel"}
ASSUME CmdsAssumption ==
  \A c \in Cmds : /\ c.side \in Sides /\ c.qty \in Qty /\ c.cancel_id \in Ids
                  /\ c.type = "Limit" => c.price \in Prices

VARIABLES
  q,        \* the queue's elements [cmd, prod, seq] and whether each is ready
  ready,
  taken,    \* what the consumer has popped, in order
  prods,    \* per producer: is it between reserving and publishing, and how
            \* many commands it has submitted
  cons,     \* the consumer: pc, and n of the current drain
  applied,  \* applied_
  quote     \* quotes_: the published inside of the book

pipeVars == <<book, call, q, ready, taken, prods, cons, applied, quote>>

Entry == [cmd : Cmds, prod : Producers, seq : 1..OpsEach]

\* SeqlockQuote and Quote{}: what best_bid, best_ask and their quantities tell.
NoTop == <<0, 0>>
Top(b, side) ==
  IF SideEmpty(b, side) THEN NoTop
  ELSE <<BestKey(b, side)[2], b.level[BestKey(b, side)].agg>>
Inside(b) == [bid |-> Top(b, Buy), ask |-> Top(b, Sell)]

PipeInit ==
  /\ Init
  /\ q = <<>> /\ ready = <<>> /\ taken = <<>>
  /\ prods = [p \in Producers |-> [busy |-> FALSE, sent |-> 0]]
  /\ cons = [pc |-> "loop", n |-> 0]
  /\ applied = 0 /\ quote = Inside(book)

Queue == INSTANCE BoundedFifo WITH
  Size <- QueueCap, Values <- Entry, queue <- q, delivered <- taken

-----------------------------------------------------------------------------
(***************************************************************************)
(* try_submit by producer p.  When the queue is full it returns false and  *)
(* the caller spins, which changes nothing.                                *)
(***************************************************************************)
SubmitReserve(p, c) ==
  /\ ~prods[p].busy /\ prods[p].sent < OpsEach
  /\ Queue!Reserve /\ q'[Len(q')] = [cmd |-> c, prod |-> p, seq |-> prods[p].sent + 1]
  /\ prods' = [prods EXCEPT ![p].busy = TRUE]
  /\ UNCHANGED <<book, call, cons, applied, quote>>

SubmitPublish(p) ==
  /\ prods[p].busy
  /\ Queue!MakeReady
  /\ \E i \in 1..Len(q) : q[i].prod = p /\ ~ready[i] /\ ready'[i]
  /\ prods' = [prods EXCEPT ![p] = [busy |-> FALSE, sent |-> @.sent + 1]]
  /\ UNCHANGED <<book, call, cons, applied, quote>>

-----------------------------------------------------------------------------
(***************************************************************************)
(* drain and apply.                                                        *)
(***************************************************************************)
Available == q # <<>> /\ ready[1]
Popped == q[1].cmd
DrainPop(type) ==
  /\ cons.pc = "drain" /\ cons.n < MaxDrain
  /\ Available /\ Popped.type = type
  /\ Queue!Deliver
  /\ UNCHANGED <<prods, quote>>
Counted ==
  /\ applied' = applied + 1
  /\ cons' = [pc |-> "drain", n |-> cons.n + 1]

ApplyLimit ==
  /\ DrainPop("Limit")
  /\ book' = AddLimitOrder(book, Popped.side, Popped.price, Popped.qty)
  /\ Counted /\ UNCHANGED call

ApplyCancel ==
  /\ DrainPop("Cancel")
  /\ book' = CancelOrder(book, Popped.cancel_id)
  /\ Counted /\ UNCHANGED call

\* market_order runs as the steps of OrderBook.
ApplyMarket ==
  /\ DrainPop("Market")
  /\ MarketBegin(Popped.side, Popped.qty)
  /\ cons' = [cons EXCEPT !.pc = "market"]
  /\ UNCHANGED applied

ApplyMarketStep ==
  /\ cons.pc = "market" /\ MarketStep
  /\ UNCHANGED <<q, ready, taken, prods, cons, applied, quote>>

ApplyMarketReturnMut_NoCount ==
  /\ cons.pc = "market" /\ MarketReturn
  /\ cons' = [pc |-> "drain", n |-> cons.n + 1]
  /\ UNCHANGED <<q, ready, taken, prods, applied, quote>>

ApplyMarketReturn ==
  /\ cons.pc = "market" /\ MarketReturn
  /\ Counted
  /\ UNCHANGED <<q, ready, taken, prods, quote>>

\* The batch is full or try_pop fails: a batch that applied something publishes
\* the inside of the book.
DrainEndMut_FullBatches ==
  /\ cons.pc = "drain" /\ (cons.n = MaxDrain \/ ~Available)
  /\ quote' = IF cons.n = MaxDrain THEN Inside(book) ELSE quote
  /\ cons' = [pc |-> "loop", n |-> 0]
  /\ UNCHANGED <<book, call, q, ready, taken, prods, applied>>

DrainEnd ==
  /\ cons.pc = "drain" /\ (cons.n = MaxDrain \/ ~Available)
  /\ quote' = IF cons.n > 0 THEN Inside(book) ELSE quote
  /\ cons' = [pc |-> "loop", n |-> 0]
  /\ UNCHANGED <<book, call, q, ready, taken, prods, applied>>

-----------------------------------------------------------------------------
\* Everything the queue has held, and the places of a producer's commands in it.
Arrived == taken \o q
Places(p) == {i \in 1..Len(Arrived) : Arrived[i].prod = p}
Submitted(p) == prods[p].sent + (IF prods[p].busy THEN 1 ELSE 0)

\* No command is lost, repeated or overtaken: the commands of a producer are all
\* there and taken in the order it submitted them, and applied() counts those
\* taken.
CommandsInOrder ==
  /\ applied + (IF cons.pc = "market" THEN 1 ELSE 0) = Len(taken)
  /\ \A p \in Producers :
       /\ {Arrived[i].seq : i \in Places(p)} = 1..Submitted(p)
       /\ \A i, j \in Places(p) : i < j => Arrived[i].seq < Arrived[j].seq

\* Readers are behind by at most the batch under way: whenever the consumer is
\* between two drains, the quote is the inside of the book.
QuoteCurrent == cons.pc \in {"loop", "done"} => quote = Inside(book)
=============================================================================
