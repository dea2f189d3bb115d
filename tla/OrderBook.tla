----------------------------- MODULE OrderBook ------------------------------
(***************************************************************************)
(* lob::OrderBook: its public operations on one book, called by one thread *)
(* at a time.  Every operation is an operator on book values (BookData) and *)
(* an action that applies it; market_order's loop is one action per        *)
(* iteration.  The caller owns the ids of its orders, and the matching     *)
(* engine is the caller of the pending-stop operations.                    *)
(***************************************************************************)
EXTENDS BookData, FiniteSetsExt

CONSTANTS
  QuoteSides,   \* the sides on which clients add limit orders
  Qtys,         \* the sizes of limit orders, new or modified
  TakeQtys,     \* the sizes of market orders and of fills
  Displays,     \* the display sizes of icebergs
  StopQtys,     \* the sizes of stop orders
  StopPrices,   \* their trigger prices, and the limit prices of stop-limits
  MaxArrivals,  \* bound: clients only cancel once this many orders queued
  TouchStops    \* may clients cancel, modify, configure or fill the id of a
                \* stop order that is still pending?

\* Sizes below 2^62, so that the int64 casts of a difference are exact.
ASSUME QtysAssumption ==
  Qtys \cup TakeQtys \cup Displays \cup StopQtys \subseteq 0..((QtyMod - 1) \div 4)
ASSUME QuoteSidesAssumption == QuoteSides \subseteq Sides
ASSUME StopPricesAssumption == StopPrices \subseteq Prices
ASSUME MaxArrivalsAssumption == MaxArrivals \in Nat
ASSUME TouchStopsAssumption == TouchStops \in BOOLEAN

VARIABLES
  book,  \* the book (BookData)
  call   \* market_order's locals while it runs: side, to_fill, last fill price

vars == <<book, call>>

MinOf(m, n) == IF m < n THEN m ELSE n

NoCall == [active |-> FALSE, side |-> Buy, left |-> 0, traded |-> FALSE, last |-> NoPrice]

Init == book = NewBook /\ call = NoCall

-----------------------------------------------------------------------------
(***************************************************************************)
(* The methods.                                                            *)
(***************************************************************************)

\* The list of a level, as get_level_orders walks it from head to nullptr.
\* The walk is cut after Capacity + 1 nodes, more than a list without cycles
\* can have.
GetLevelOrders(b, k) ==
  LET at[i \in 1..(Capacity + 1)] ==
        IF i = 1 THEN b.level[k].head
        ELSE IF at[i - 1] = Null THEN Null ELSE b.next[at[i - 1]]
  IN IF HasLevel(b, k) THEN SelectSeq(at, LAMBDA s : s # Null) ELSE <<>>

AddLimitOrder(b, side, price, qty) ==
  IF b.free = <<>> THEN b
  ELSE LET o  == FreshSlot(b)
           k  == <<side, price>>
           b1 == [Allocate(b) EXCEPT
                    !.order[o] = [BlankOrder EXCEPT
                        !.id = b.nextId, !.price = price, !.qty = qty,
                        !.rem = qty, !.side = side],
                    !.nextId = @ + 1]
       IN PutId(PushBack(FindOrEmplace(b1, k), k, o), o)

RetireMut_KeepLevel(b, k, o) ==
  Deallocate(DropId(Remove(b, k, o), b.order[o].id), o)

\* An order leaves its level and the book: the level is erased when it was
\* the last one, the id is dropped and the slot goes back to the pool.
Retire(b, k, o) ==
  LET b1 == Remove(b, k, o)
      b2 == IF b1.level[k].cnt = 0 THEN EraseLevel(b1, k) ELSE b1
  IN Deallocate(DropId(b2, b2.order[o].id), o)

CancelOrder(b, id) ==
  LET o == FindId(b, id) IN
  IF o = Null THEN b
  ELSE IF HasLevel(b, KeyOf(b, o)) THEN Retire(b, KeyOf(b, o), o)
  ELSE Deallocate(DropId(b, id), o)

\* The new visible quantity of an in-place modify: growth is added to what is
\* left, a reduction truncates it.
ResizedRem(old, newQty) ==
  IF newQty >= old.qty THEN (old.rem + (newQty - old.qty)) % QtyMod
  ELSE MinOf(old.rem, newQty)

ModifyInPlaceMut_Requeue(b, k, o, newQty) ==
  LET b1 == [Remove(b, k, o) EXCEPT !.order[o].qty = newQty,
                                    !.order[o].rem = ResizedRem(b.order[o], newQty)]
  IN PushBack(b1, k, o)

ModifyInPlace(b, k, o, newQty) ==
  LET newRem == ResizedRem(b.order[o], newQty)
      b1 == [b EXCEPT !.order[o].qty = newQty, !.order[o].rem = newRem]
  IN AdjustAggregate(b1, k, newRem - b.order[o].rem)

ModifyOrderMut_AddFirst(b, id, newPrice, newQty) ==
  LET o == FindId(b, id)
      k == KeyOf(b, o)
  IN IF o = Null THEN b
     ELSE IF newPrice # b.order[o].price
     THEN CancelOrder(AddLimitOrder(b, b.order[o].side, newPrice, newQty), id)
     ELSE IF HasLevel(b, k) THEN ModifyInPlace(b, k, o, newQty) ELSE b

ModifyOrder(b, id, newPrice, newQty) ==
  LET o == FindId(b, id)
      k == KeyOf(b, o)
  IN IF o = Null THEN b
     ELSE IF newPrice # b.order[o].price
     THEN AddLimitOrder(CancelOrder(b, id), b.order[o].side, newPrice, newQty)
     ELSE IF HasLevel(b, k) THEN ModifyInPlace(b, k, o, newQty) ELSE b

ConfigureIcebergMut_NoAdjust(b, id, display) ==
  LET o == FindId(b, id)
      q == b.order[o].qty
  IN IF o = Null \/ display = 0 THEN b
     ELSE [b EXCEPT !.order[o].disp = display,
                    !.order[o].hid = IF q > display THEN q - display ELSE 0,
                    !.order[o].rem = MinOf(display, q)]

ConfigureIceberg(b, id, display) ==
  LET o  == FindId(b, id)
      k  == KeyOf(b, o)
      q  == b.order[o].qty
      b1 == [b EXCEPT !.order[o].disp = display,
                      !.order[o].hid = IF q > display THEN q - display ELSE 0,
                      !.order[o].rem = MinOf(display, q)]
  IN IF o = Null \/ display = 0 THEN b
     ELSE IF HasLevel(b, k)
     THEN AdjustAggregate(b1, k, MinOf(display, q) - b.order[o].rem)
     ELSE b1

\* try_replenish_iceberg: the order's visible quantity is exhausted.
Replenishable(b, o) == b.order[o].disp # 0 /\ b.order[o].hid # 0

ReplenishMut_KeepHidden(b, k, o) ==
  LET slice == MinOf(b.order[o].disp, b.order[o].hid)
  IN PushBack([Remove(b, k, o) EXCEPT !.order[o].rem = slice], k, o)

Replenish(b, k, o) ==
  LET slice == MinOf(b.order[o].disp, b.order[o].hid)
      b1 == [Remove(b, k, o) EXCEPT !.order[o].hid = @ - slice,
                                    !.order[o].rem = slice]
  IN PushBack(b1, k, o)

\* What follows a fill that took the visible quantity to zero.
Exhausted(b, k, o) ==
  IF Replenishable(b, o) THEN Replenish(b, k, o) ELSE Retire(b, k, o)

ApplyFill(b, id, qty) ==
  LET o      == FindId(b, id)
      k      == KeyOf(b, o)
      filled == MinOf(qty, b.order[o].rem)
      b1     == [b EXCEPT !.order[o].rem = @ - filled]
      b2     == IF HasLevel(b, k) THEN AdjustAggregate(b1, k, -filled) ELSE b1
  IN IF o = Null THEN b
     ELSE IF b2.order[o].rem = 0 /\ HasLevel(b, k) THEN Exhausted(b2, k, o)
     ELSE b2

\* One iteration of market_order's loop on the level at key k.  A level
\* without a head is erased and nothing is filled.
MarketTake(b, k, toFill) ==
  IF b.level[k].head = Null THEN 0
  ELSE MinOf(toFill, b.order[b.level[k].head].rem)

MarketIterationMut_KeepEmpty(b, k, toFill) ==
  LET cur  == b.level[k].head
      take == MarketTake(b, k, toFill)
      b1   == DecreaseAggregate([b EXCEPT !.order[cur].rem = @ - take], k, take)
  IN IF cur = Null THEN EraseLevel(b, k)
     ELSE IF take > 0 /\ b1.order[cur].rem = 0 THEN Exhausted(b1, k, cur)
     ELSE b1

MarketIteration(b, k, toFill) ==
  LET cur  == b.level[k].head
      take == MarketTake(b, k, toFill)
      b1   == DecreaseAggregate([b EXCEPT !.order[cur].rem = @ - take], k, take)
  IN IF cur = Null THEN EraseLevel(b, k)
     ELSE IF b1.order[cur].rem = 0 THEN Exhausted(b1, k, cur)
     ELSE b1

\* The whole loop as a function, for callers that run it in one step.  Without
\* icebergs an iteration retires an order or is the last one.
MarketOrder(b, side, qty) ==
  LET run[n \in 0..(Capacity + 1)] ==
        IF n = 0 THEN [b |-> b, left |-> qty]
        ELSE LET st == run[n - 1]
                 k  == BestKey(st.b, Opposite(side))
             IN IF st.left = 0 \/ SideEmpty(st.b, Opposite(side)) THEN st
                ELSE [b    |-> MarketIteration(st.b, k, st.left),
                      left |-> st.left - MarketTake(st.b, k, st.left)]
  IN run[Capacity + 1].b

AddPendingStop(b, side, stop, qty, stype, limitPrice, display) ==
  IF b.free = <<>> THEN b
  ELSE LET o  == FreshSlot(b)
           b1 == [Allocate(b) EXCEPT
                    !.order[o] = [BlankOrder EXCEPT
                        !.id = b.nextId, !.side = side, !.stop = stop, !.stype = stype,
                        !.price = limitPrice, !.qty = qty, !.rem = qty,
                        !.disp = display,
                        !.hid = IF display > 0 /\ qty > display
                                THEN qty - display ELSE 0],
                    !.nextId = @ + 1,
                    !.pending = Append(@, o)]
       IN PutId(b1, o)

TakePendingStops(b) == [b EXCEPT !.pending = <<>>]

\* detach_pending(id) erases the first entry of the pending vector with this
\* id and drops the id; the detached order is that entry or, when there is
\* none, the mapped order.
PendingAt(b, id) == {i \in 1..Len(b.pending) : b.order[b.pending[i]].id = id}
FirstPending(b, id) == CHOOSE i \in PendingAt(b, id) :
                         \A j \in PendingAt(b, id) : i <= j
Detached(b, id) ==
  IF PendingAt(b, id) # {} THEN b.pending[FirstPending(b, id)] ELSE FindId(b, id)

DetachPendingMut_KeepEntry(b, id) == DropId(b, id)

DetachPending(b, id) ==
  LET b1 == IF PendingAt(b, id) = {} THEN b
            ELSE LET f == FirstPending(b, id) IN
                 [b EXCEPT !.pending = SubSeq(@, 1, f - 1) \o SubSeq(@, f + 1, Len(@))]
  IN DropId(b1, id)

FreeOrder(b, o) == IF o = Null THEN b ELSE Deallocate(b, o)

-----------------------------------------------------------------------------
(***************************************************************************)
(* The actions: one client call each, except market_order, which begins,   *)
(* iterates and returns.  No other call runs in between.                   *)
(***************************************************************************)
Idle == ~call.active /\ UNCHANGED call
CanIssue == book.nextId <= MaxId
CanArrive == book.clock <= MaxArrivals
MayTouch(id) == TouchStops \/ FindId(book, id) \notin Stops(book)

Add(side, price, qty) ==
  /\ Idle /\ CanIssue /\ CanArrive
  /\ book' = AddLimitOrder(book, side, price, qty)

Cancel(id) ==
  /\ Idle /\ MayTouch(id)
  /\ book' = CancelOrder(book, id)

Modify(id, price, qty) ==
  /\ Idle /\ CanIssue /\ CanArrive /\ MayTouch(id)
  /\ book' = ModifyOrder(book, id, price, qty)

Configure(id, display) ==
  /\ Idle /\ CanArrive /\ MayTouch(id)
  /\ book' = ConfigureIceberg(book, id, display)

Fill(id, qty) ==
  /\ Idle /\ CanArrive /\ MayTouch(id)
  /\ book' = ApplyFill(book, id, qty)

AddStop(side, stop, qty, stype, limitPrice, display) ==
  /\ Idle /\ CanIssue /\ CanArrive
  /\ book' = AddPendingStop(book, side, stop, qty, stype, limitPrice, display)

TakeStops ==
  /\ Idle /\ book.pending # <<>>
  /\ book' = TakePendingStops(book)

\* The engine takes a triggered stop out of the book (it then submits it as a
\* new order).
ReleaseStop(id) ==
  /\ Idle
  /\ FindId(book, id) \in Stops(book)
  /\ book' = FreeOrder(DetachPending(book, id), Detached(book, id))

MarketBegin(side, qty) ==
  /\ ~call.active /\ CanArrive
  /\ call' = [NoCall EXCEPT !.active = TRUE, !.side = side, !.left = qty]
  /\ UNCHANGED book

MarketStep ==
  /\ call.active /\ call.left > 0 /\ ~SideEmpty(book, Opposite(call.side))
  /\ LET k == BestKey(book, Opposite(call.side)) IN
     /\ book' = MarketIteration(book, k, call.left)
     /\ call' = IF book.level[k].head = Null THEN call
                ELSE [call EXCEPT !.left = @ - MarketTake(book, k, call.left),
                                  !.traded = TRUE,
                                  !.last = k[2]]

MarketReturn ==
  /\ call.active /\ (call.left = 0 \/ SideEmpty(book, Opposite(call.side)))
  /\ call' = NoCall
  /\ UNCHANGED book

Next ==
  \/ \E side \in QuoteSides, price \in Prices, qty \in Qtys : Add(side, price, qty)
  \/ \E id \in Ids : Cancel(id)
  \/ \E id \in Ids, price \in Prices, qty \in Qtys : Modify(id, price, qty)
  \/ \E id \in Ids, display \in Displays : Configure(id, display)
  \/ \E id \in Ids, qty \in TakeQtys : Fill(id, qty)
  \/ \E side \in Sides, stop \in StopPrices, qty \in StopQtys :
       AddStop(side, stop, qty, StopMarket, NoPrice, 0)
  \/ \E side \in Sides, stop \in StopPrices, qty \in StopQtys, price \in StopPrices,
        display \in Displays \cup {0} :
       AddStop(side, stop, qty, StopLimit, price, display)
  \/ TakeStops
  \/ \E id \in Ids : ReleaseStop(id)
  \/ \E side \in Sides, qty \in TakeQtys : MarketBegin(side, qty)
  \/ MarketStep
  \/ MarketReturn

\* market_order is a loop of the calling thread: once called it keeps running.
Fairness == WF_vars(MarketStep \/ MarketReturn)

SafetySpec == Init /\ [][Next]_vars

Spec == SafetySpec /\ Fairness

-----------------------------------------------------------------------------
(***************************************************************************)
(* Properties.                                                             *)
(***************************************************************************)

\* The vector of a side, from the best price to the worst, each once.
BestToWorst(side, v) ==
  \A i, j \in 1..Len(v) : i < j => Better(side, v[i], v[j])

Ladders == {l \in [Sides -> Seq(Prices \cup {NoPrice})] :
              \A side \in Sides : BestToWorst(side, l[side])}

Book == [order : [Slots -> Order], prev : [Slots -> Slots \cup {Null}],
         next : [Slots -> Slots \cup {Null}], free : Seq(Slots),
         ids : [Ids -> Slots \cup {Null}], nextId : 1..(MaxId + 1),
         ladder : Ladders, level : [Keys -> Level],
         pending : Seq(Slots), arr : [Slots -> Nat], clock : Nat]

MarketCall == [active : BOOLEAN, side : Sides, left : Qty, traded : BOOLEAN,
               last : Prices \cup {NoPrice}]

\* The fields have the types of struct Order, PriceLevel and OrderBook; every
\* pointer is a slot of the slab or nullptr.
TypeOK ==
  /\ book \in Book
  /\ call \in MarketCall

PoolPartitioned(b) ==
  /\ \A i, j \in 1..Len(b.free) : b.free[i] = b.free[j] => i = j
  /\ \A s \in Slots : s \in FreeSlots(b) <=> s \notin Live(b)
  /\ \A id \in Ids : b.ids[id] # Null => b.order[b.ids[id]].id = id

\* No leak and no double free: every slot of the pool is either on the freelist,
\* once, or owned by exactly one id of the id table (allocate, deallocate,
\* put_id and drop_id across all operations).
PoolPartition == PoolPartitioned(book)

\* R is the set of orders of a level, the list of which runs from L.head to
\* L.tail: next leads from each order to the one that arrived next, prev back.
IsFifo(R, L, nx, pv, ar) ==
  /\ R = {} => L.head = Null /\ L.tail = Null
  /\ R # {} => /\ L.head \in R /\ pv[L.head] = Null
               /\ L.tail \in R /\ nx[L.tail] = Null
  /\ \A s \in R :
       /\ ar[L.head] <= ar[s] /\ ar[s] <= ar[L.tail]
       /\ s # L.tail => /\ nx[s] \in R /\ pv[nx[s]] = s /\ ar[s] < ar[nx[s]]
                        /\ \A u \in R : ar[u] <= ar[s] \/ ar[nx[s]] <= ar[u]
       /\ s # L.head => pv[s] \in R /\ nx[pv[s]] = s
       /\ \A u \in R : ar[s] = ar[u] => s = u

FifoLevels(b) ==
  \A k \in Keys : IsFifo(Resting(b, k), b.level[k], b.next, b.prev, b.arr)

\* Time priority: the list of every level holds exactly the resting orders of
\* that price and side, linked in order of arrival, so that head is the order
\* that has waited longest (push_back, remove, and every caller of them).
TimePriority == FifoLevels(book)

ExactLevels(b) ==
  \A k \in Keys : /\ k \in LevelKeys(b.ladder) <=> Resting(b, k) # {}
                  /\ b.level[k].cnt = Cardinality(Resting(b, k))

\* A ladder has a level for a price exactly when orders rest there, and
\* order_count() counts them; so the erase at zero comes neither early nor late.
LevelsExact == ExactLevels(book)

SumRem(b, S) == MapThenSumSet(LAMBDA s : b.order[s].rem, S)

\* aggregate_qty() of every level is the visible quantity resting there, however
\* it was reached: saturating decrements, signed adjustments, re-queued slices.
DepthExact ==
  \A k \in Keys : book.level[k].agg = SumRem(book, Resting(book, k))

\* get_level_orders returns all the orders resting at the level, each once.
LevelOrdersComplete ==
  \A k \in Keys :
    LET list == GetLevelOrders(book, k) IN
    /\ {list[i] : i \in 1..Len(list)} = Resting(book, k)
    /\ Len(list) = Cardinality(Resting(book, k))

NoDangling(b) ==
  /\ \A i \in 1..Len(b.pending) : b.pending[i] \in Stops(b)
  /\ \A i, j \in 1..Len(b.pending) : b.pending[i] = b.pending[j] => i = j

\* pending_stop_storage_ points to live stop orders only, to each at most once.
PendingStopsLive == NoDangling(book)

InsideExact(b) ==
  \A side \in Sides :
    IF SideEmpty(b, side) THEN RestingOn(b, side) = {}
    ELSE /\ Resting(b, BestKey(b, side)) # {}
         /\ \A s \in RestingOn(b, side) :
              ~Better(side, b.order[s].price, BestKey(b, side)[2])

\* Price priority: begin() of a ladder is the best price at which an order of
\* that side rests, and a ladder is empty only when no order rests there.  So
\* best_bid and best_ask are the inside, and market_order, which looks at
\* begin() only, leaves no order behind at a price better than one it has
\* traded at (lower_bound, find_or_emplace, and each erase of a level).
MarketBestFirst ==
  /\ InsideExact(book)
  /\ \A s \in RestingOn(book, Opposite(call.side)) :
       call.active /\ call.traded =>
         ~Better(Opposite(call.side), book.order[s].price, call.last)

\* Of two orders resting at a level before and after a step, the earlier one
\* stays the earlier one, unless it is an iceberg that showed a new slice.
OnlyReplenishmentLosesPriority ==
  [][\A k \in Keys :
       \A s, t \in Resting(book, k) \cap Resting(book', k) :
         /\ book.order[s].id = book'.order[s].id
         /\ book.order[t].id = book'.order[t].id
         /\ book.arr[s] < book.arr[t]
         => \/ book'.arr[s] < book'.arr[t]
            \/ book'.order[s].hid < book.order[s].hid]_vars

OpenQty(b) ==
  MapThenSumSet(LAMBDA s : b.order[s].rem + b.order[s].hid, Live(b) \ Stops(b))

\* Matching conserves quantity: what an iteration of market_order takes from
\* to_fill is what leaves the resting orders, hidden slices included; the same
\* for apply_fill and the amount it returns.
FillsConserve ==
  [][/\ MarketStep => OpenQty(book) - OpenQty(book') = call.left - call'.left
     /\ \A id \in Ids, qty \in TakeQtys :
          Fill(id, qty) =>
            OpenQty(book) - OpenQty(book') =
              IF FindId(book, id) = Null THEN 0
              ELSE MinOf(qty, book.order[FindId(book, id)].rem)]_vars

\* modify_order replaces an order, it never loses one: the slot that the cancel
\* half frees is there for the add half even when the pool is exhausted.
ModifyKeepsOrder ==
  [][\/ Cardinality(Live(book')) = Cardinality(Live(book))
     \/ \A id \in Ids, price \in Prices, qty \in Qtys : ~Modify(id, price, qty)]_vars

\* Every market_order call returns, also over levels with zero-quantity orders
\* and icebergs that re-queue.
MarketTerminates == call.active ~> ~call.active
=============================================================================
