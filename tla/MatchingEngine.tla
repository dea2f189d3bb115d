--------------------------- MODULE MatchingEngine ---------------------------
(***************************************************************************)
(* lob::MatchingEngine with either policy, on one book and one thread.     *)
(* With FIFO, market_order runs as the steps of OrderBook; a pro-rata      *)
(* match is one step.  process_triggers, which re-enters submit_market, is *)
(* a stack of trigger loops.  Clients submit orders and cancel resting     *)
(* ones between calls of the engine.                                       *)
(***************************************************************************)
EXTENDS ProRata

CONSTANTS
  StopSides,  \* the sides of stop orders
  Policies    \* the policies an engine may be constructed with

FIFO == [kind |-> "FIFO", minFill |-> 0]
ProRataWith(minFill) == [kind |-> "ProRata", minFill |-> minFill]

ASSUME StopSidesAssumption == StopSides \subseteq Sides
ASSUME PoliciesAssumption ==
  Policies \subseteq {FIFO} \cup {ProRataWith(m) : m \in 1..(QtyMod - 1)}

VARIABLES
  policy,    \* policy_, given to the constructor
  pend,      \* pending_stops_
  stack,     \* the active calls of process_triggers, innermost last: each
             \* one's last_trade_price and its local queue q
  accepted,  \* auxiliary: the ids submit_stop has returned
  fired,     \* auxiliary: the ids of the stops that fired, in order
  lastTrade  \* auxiliary: the price of the latest trade after the latest stop
             \* was submitted

engineVars == <<book, call, policy, pend, stack, accepted, fired, lastTrade>>
history == <<policy, accepted, fired, lastTrade>>

EngineInit ==
  /\ Init
  /\ policy \in Policies
  /\ pend = <<>> /\ stack = <<>>
  /\ accepted = {} /\ fired = <<>> /\ lastTrade = NoPrice

-----------------------------------------------------------------------------
\* No call of the engine is running.
Quiet == ~call.active /\ stack = <<>>

\* Bound on the ids: one is kept for every pending stop-limit that may fire.
CanSubmit == book.nextId + Cardinality(Stops(book)) < MaxId /\ CanArrive

NewId(b) == IF b.free = <<>> THEN 0 ELSE b.nextId

SubmitLimit(b, side, price, qty, display) ==
  LET b1 == AddLimitOrder(b, side, price, qty) IN
  IF display > 0 THEN ConfigureIceberg(b1, NewId(b), display) ELSE b1

ClientLimit(side, price, qty, display) ==
  /\ Quiet /\ CanSubmit
  /\ book' = SubmitLimit(book, side, price, qty, display)
  /\ UNCHANGED <<call, pend, stack, history>>

ClientCancel(id) ==
  /\ stack = <<>> /\ Cancel(id)
  /\ UNCHANGED <<pend, stack, history>>

\* The stop is now registered twice: by the book and by the engine.
SubmitStop(side, stop, qty, stype, limitPrice, display) ==
  /\ Quiet /\ CanSubmit
  /\ book' = AddPendingStop(book, side, stop, qty, stype, limitPrice, display)
  /\ pend' = IF NewId(book) = 0 THEN pend ELSE Append(pend, FindId(book', NewId(book)))
  /\ accepted' = accepted \cup ({NewId(book)} \ {0})
  /\ lastTrade' = NoPrice
  /\ UNCHANGED <<call, policy, stack, fired>>

SubmitMarket(side, qty) ==
  /\ stack = <<>> /\ MarketBegin(side, qty)
  /\ UNCHANGED <<pend, stack, history>>

\* FIFOStack::match: the loop of market_order.
Match ==
  /\ policy = FIFO /\ MarketStep
  /\ UNCHANGED <<pend, stack, history>>

\* match returns and leaves book b; with fills, process_triggers is called with
\* the price of the last one and collects both registrations of the pending stops.
AfterMatch(b, traded, last) ==
  /\ call' = NoCall
  /\ IF traded
     THEN /\ stack' = Append(stack, [last |-> last, queue |-> pend \o b.pending])
          /\ pend' = <<>>
          /\ book' = TakePendingStops(b)
          /\ lastTrade' = last
     ELSE book' = b /\ UNCHANGED <<stack, pend, lastTrade>>
  /\ UNCHANGED <<policy, accepted, fired>>

MatchReturn ==
  /\ policy = FIFO
  /\ call.active /\ (call.left = 0 \/ SideEmpty(book, Opposite(call.side)))
  /\ AfterMatch(book, call.traded, call.last)

\* ProRataPolicy::match
MatchProRata ==
  /\ policy # FIFO /\ call.active
  /\ LET m == ProRataMatch(book, call.side, call.left, policy.minFill)
     IN AfterMatch(m.book, m.traded, m.last)

-----------------------------------------------------------------------------
(***************************************************************************)
(* process_triggers: one iteration of the innermost loop.                  *)
(***************************************************************************)
Top == stack[Len(stack)]
Entry == Head(Top.queue)
EntryOrder == book.order[Entry]
EntryDetached == Detached(book, EntryOrder.id)

Iterating == ~call.active /\ stack # <<>> /\ Top.queue # <<>>
NextEntry == stack' = [stack EXCEPT ![Len(stack)].queue = Tail(@)]

Triggered(ord, last) == IF ord.side = Buy THEN last >= ord.stop ELSE last <= ord.stop
Fires(stype) ==
  /\ EntryOrder.stype = stype
  /\ Triggered(EntryOrder, Top.last)
  /\ EntryDetached # Null

RequeueStopMut_OwnQueue ==
  /\ Iterating
  /\ EntryOrder.stype # NoStop /\ ~Triggered(EntryOrder, Top.last)
  /\ stack' = [stack EXCEPT ![Len(stack)].queue = Append(Tail(@), Entry)]
  /\ UNCHANGED <<book, call, pend, history>>

RequeueStopMut_Forget ==
  /\ Iterating
  /\ EntryOrder.stype # NoStop /\ ~Triggered(EntryOrder, Top.last)
  /\ NextEntry
  /\ UNCHANGED <<book, call, pend, history>>

RequeueStop ==
  /\ Iterating
  /\ EntryOrder.stype # NoStop /\ ~Triggered(EntryOrder, Top.last)
  /\ NextEntry
  /\ pend' = Append(pend, Entry)
  /\ UNCHANGED <<book, call, history>>

\* The entry's slot holds no stop any more, or detach_pending finds no order
\* with its id.
SkipEntryMut_Free ==
  /\ Iterating
  /\ \/ EntryOrder.stype = NoStop
     \/ Triggered(EntryOrder, Top.last) /\ EntryDetached = Null
  /\ NextEntry
  /\ book' = IF EntryOrder.stype = NoStop THEN book ELSE FreeOrder(book, Entry)
  /\ UNCHANGED <<call, pend, history>>

SkipEntry ==
  /\ Iterating
  /\ \/ EntryOrder.stype = NoStop
     \/ Triggered(EntryOrder, Top.last) /\ EntryDetached = Null
  /\ NextEntry
  /\ UNCHANGED <<book, call, pend, history>>

\* The stop leaves the book and its size is submitted as a market order, which
\* runs (and triggers further stops) before this loop goes on.
FireStopMarket ==
  /\ Iterating /\ Fires(StopMarket)
  /\ NextEntry
  /\ book' = FreeOrder(DetachPending(book, EntryOrder.id), EntryDetached)
  /\ call' = [NoCall EXCEPT !.active = TRUE, !.side = EntryOrder.side,
                            !.left = book.order[EntryDetached].qty]
  /\ fired' = Append(fired, EntryOrder.id)
  /\ UNCHANGED <<policy, pend, accepted, lastTrade>>

FireStopLimitMut_SubmitFirst ==
  /\ Iterating /\ Fires(StopLimit)
  /\ NextEntry
  /\ LET d == book.order[EntryDetached] IN
     book' = FreeOrder(SubmitLimit(DetachPending(book, EntryOrder.id),
                                   EntryOrder.side, d.price, d.qty, d.disp), EntryDetached)
  /\ fired' = Append(fired, EntryOrder.id)
  /\ UNCHANGED <<call, policy, pend, accepted, lastTrade>>

FireStopLimit ==
  /\ Iterating /\ Fires(StopLimit)
  /\ NextEntry
  /\ LET d == book.order[EntryDetached] IN
     book' = SubmitLimit(FreeOrder(DetachPending(book, EntryOrder.id), EntryDetached),
                         EntryOrder.side, d.price, d.qty, d.disp)
  /\ fired' = Append(fired, EntryOrder.id)
  /\ UNCHANGED <<call, policy, pend, accepted, lastTrade>>

TriggersReturn ==
  /\ ~call.active /\ stack # <<>> /\ Top.queue = <<>>
  /\ stack' = SubSeq(stack, 1, Len(stack) - 1)
  /\ UNCHANGED <<book, call, pend, history>>

-----------------------------------------------------------------------------
EngineStep ==
  \/ Match \/ MatchReturn \/ MatchProRata
  \/ RequeueStop \/ SkipEntry \/ FireStopMarket \/ FireStopLimit \/ TriggersReturn

EngineNext ==
  \/ \E side \in QuoteSides, price \in Prices, qty \in Qtys, display \in Displays \cup {0} :
       ClientLimit(side, price, qty, display)
  \/ \E id \in Ids : ClientCancel(id)
  \/ \E side \in StopSides, stop \in StopPrices, qty \in StopQtys :
       SubmitStop(side, stop, qty, StopMarket, NoPrice, 0)
  \/ \E side \in StopSides, stop \in StopPrices, qty \in StopQtys, price \in Prices,
        display \in Displays \cup {0} :
       SubmitStop(side, stop, qty, StopLimit, price, display)
  \/ \E side \in Sides, qty \in TakeQtys : SubmitMarket(side, qty)
  \/ EngineStep

EngineSafetySpec == EngineInit /\ [][EngineNext]_engineVars

\* A call of the engine is a sequence of steps of one thread: it keeps running.
EngineSpec == EngineSafetySpec /\ WF_engineVars(EngineStep)

-----------------------------------------------------------------------------
EngineTypeOK ==
  /\ TypeOK
  /\ policy \in Policies
  /\ pend \in Seq(Slots)
  /\ stack \in Seq([last : Prices, queue : Seq(Slots)])
  /\ accepted \subseteq Ids /\ fired \in Seq(Ids) /\ lastTrade \in Prices \cup {NoPrice}

\* The engine's lists hold pointers into the slab, and the pool, the queues of
\* the levels, the ladders and the aggregates stay sound although the trigger
\* queues hold pointers to orders that were freed, and whose slots other orders
\* may have taken, and a pro-rata match walks over orders that it retires.
StalePointersHarmless ==
  /\ EngineTypeOK
  /\ PoolPartitioned(book) /\ FifoLevels(book) /\ ExactLevels(book)
  /\ DepthExact

InSeq(x, s) == \E i \in 1..Len(s) : s[i] = x
Registered(slot) ==
  \/ InSeq(slot, pend) \/ InSeq(slot, book.pending)
  \/ \E i \in 1..Len(stack) : InSeq(slot, stack[i].queue)
Firings(id) == Cardinality({i \in 1..Len(fired) : fired[i] = id})

\* No stop is lost and none fires twice: an accepted stop is still in the book
\* and known to a queue that will be looked at, or it has fired exactly once.
StopsAccounted ==
  \A id \in accepted :
    IF FindId(book, id) = Null THEN Firings(id) = 1
    ELSE /\ Firings(id) = 0
         /\ FindId(book, id) \in Stops(book)
         /\ Registered(FindId(book, id))

\* A stop-limit that fires rests in full, its hidden part included: the slot it
\* gave back is there for the limit order it becomes.
StopLimitRestsInFull ==
  [][FireStopLimit =>
       OpenQty(book') - OpenQty(book) = book.order[EntryDetached].qty]_engineVars

\* Every cascade of stops comes to an end.
CascadeEnds == ~Quiet ~> Quiet

\* test_matching.cpp: "stop cascade triggers chained stops".  When the engine
\* is done, no stop is left pending that the latest trade triggers.
NoStopLeftBehind ==
  Quiet /\ lastTrade # NoPrice =>
    \A id \in accepted :
      FindId(book, id) \in Stops(book) => ~Triggered(book.order[FindId(book, id)], lastTrade)

\* The orders a market order for this side meets first.
BestLevel(side) ==
  IF SideEmpty(book, Opposite(side)) THEN {}
  ELSE Resting(book, BestKey(book, Opposite(side)))

\* A pro-rata match never trades more than the market order asks for, and no
\* less than it can but for what min_fill drops.
ProRataConserves ==
  [][MatchProRata =>
       SplitConserves(book, book', BestLevel(call.side), call.left, policy.minFill)]_engineVars

\* A pro-rata match gives every order of the best level its proportional share
\* to within one unit, and leaves the orders of all other levels alone.
ProRataIsFair ==
  [][MatchProRata =>
       /\ NoOverflow(book, BestLevel(call.side), call.left) =>
            SplitFair(book, book', BestLevel(call.side), call.left, policy.minFill)
       /\ \A s \in Live(book) \ BestLevel(call.side) : Sold(book, book', s) = 0]_engineVars
=============================================================================
