----------------------------- MODULE FeedDriver -----------------------------
(***************************************************************************)
(* run_pipeline of profile_pipeline.cpp: the simulator warms the book up;  *)
(* then the driver sends limit orders, market orders and cancels through   *)
(* the matching engine (FIFO, no stops, so submit_market is market_order)  *)
(* and publishes what happened.  A try_publish_* may find the queue full   *)
(* and drop the event.  mirror is a listener's copy of the book, built     *)
(* from the accepted events alone.  Snapshots tell nothing about a single  *)
(* order and leave it as it is; the measurements are left out.             *)
(***************************************************************************)
EXTENDS Simulator

CONSTANTS
  WarmupIds,    \* bound: the ids in use when the driver takes over
  DriverOrders  \* bound: the orders the driver places

VARIABLES
  pc,       \* "warmup", "idle", "matching" or "publishing"
  ours,     \* run_pipeline's live
  first,    \* auxiliary: the first id the driver may be given
  fills,    \* the fills of the market order, those not published yet
  mirror    \* auxiliary: per id the quantity a listener believes to rest, or
            \* Unknown when it missed an event of that order

driverVars == <<pc, ours, first, fills, mirror>>
runVars == <<simVars, driverVars>>

Unknown == -1

DriverInit ==
  /\ SimInit
  /\ pc = "warmup" /\ ours = <<>> /\ first = 0 /\ fills = <<>>
  /\ mirror = [id \in Ids |-> Unknown]

Warmup == pc = "warmup" /\ SimNext /\ UNCHANGED driverVars

\* The simulator is not used again; its list is dropped here.
WarmupEnd ==
  /\ pc = "warmup" /\ sim.pc = "idle" /\ book.nextId <= WarmupIds
  /\ pc' = "idle" /\ first' = book.nextId
  /\ live' = <<>> /\ since' = 0
  /\ UNCHANGED <<book, call, sim, ours, fills, mirror>>

-----------------------------------------------------------------------------
CanPlace == CanIssue /\ book.nextId < first + DriverOrders

\* What a listener makes of an accepted event; a dropped one leaves it ignorant.
Heard(ok, id, qty) == [mirror EXCEPT ![id] = IF ok THEN qty ELSE Unknown]

\* submit_limit; the id, if there is one, is kept.
Submit(side, price, qty) ==
  /\ book' = AddLimitOrder(book, side, price, qty)
  /\ ours' = IF book.free = <<>> THEN ours ELSE Append(ours, book.nextId)

DriverLimit(side, mag, ok) ==
  /\ pc = "idle" /\ CanPlace
  /\ Submit(side, IF side = Buy THEN Mid - mag ELSE Mid + mag, DefaultQty)
  /\ mirror' = IF book.free = <<>> THEN mirror ELSE Heard(ok, book.nextId, DefaultQty)
  /\ UNCHANGED <<call, live, since, sim, pc, first, fills>>

\* A cancel with nothing to cancel places an order, and does not announce it.
CancelPlacesLimit ==
  /\ pc = "idle" /\ CanPlace /\ ours = <<>>
  /\ Submit(Buy, Mid - 1, 1)
  /\ UNCHANGED <<call, live, since, sim, pc, first, fills, mirror>>

\* A drawn id leaves ours, the last one takes its place; a cancel that succeeds
\* is published.
DriverCancel(i, ok) ==
  /\ pc = "idle"
  /\ ours' = DrawId(ours, i)
  /\ book' = CancelOrder(book, ours[i])
  /\ mirror' = IF InBook(book, ours[i]) THEN Heard(ok, ours[i], 0) ELSE mirror
  /\ UNCHANGED <<call, live, since, sim, pc, first, fills>>

-----------------------------------------------------------------------------
DriverMarket(side, qty) ==
  /\ pc = "idle" /\ MarketBegin(side, qty)
  /\ pc' = "matching" /\ fills' = <<>>
  /\ UNCHANGED <<live, since, sim, ours, first, mirror>>

\* Fill{id, price, take}; the price plays no part here.
FillOfMut_Whole(k) ==
  LET o == book.order[book.level[k].head] IN [id |-> o.id, qty |-> o.rem]
FillOf(k) ==
  LET o == book.order[book.level[k].head] IN
  [id |-> o.id, qty |-> MarketTake(book, k, call.left)]

DriverMatch ==
  /\ pc = "matching" /\ MarketStep
  /\ fills' = Append(fills, FillOf(BestKey(book, Opposite(call.side))))
  /\ UNCHANGED <<live, since, sim, pc, ours, first, mirror>>

DriverMatched ==
  /\ pc = "matching" /\ MarketReturn
  /\ pc' = "publishing"
  /\ UNCHANGED <<live, since, sim, ours, first, fills, mirror>>

PublishFill(ok) ==
  /\ pc = "publishing" /\ fills # <<>>
  /\ LET f == Head(fills) IN
     mirror' = IF mirror[f.id] = Unknown THEN mirror
               ELSE Heard(ok, f.id, mirror[f.id] - f.qty)
  /\ fills' = Tail(fills)
  /\ UNCHANGED <<simVars, pc, ours, first>>

\* try_publish_snapshot
PublishInside ==
  /\ pc = "publishing" /\ fills = <<>>
  /\ pc' = "idle"
  /\ UNCHANGED <<simVars, ours, first, fills, mirror>>

DriverNext ==
  \/ Warmup \/ WarmupEnd
  \/ \E side \in Sides, mag \in 1..Span, ok \in BOOLEAN : DriverLimit(side, mag, ok)
  \/ CancelPlacesLimit
  \/ \E i \in 1..Len(ours), ok \in BOOLEAN : DriverCancel(i, ok)
  \/ \E side \in Sides, qty \in 1..MaxTake : DriverMarket(side, qty)
  \/ DriverMatch \/ DriverMatched
  \/ \E ok \in BOOLEAN : PublishFill(ok)
  \/ PublishInside

DriverSpec == DriverInit /\ [][DriverNext]_runVars

-----------------------------------------------------------------------------
\* The simulator's live_ knows every order in the book, once, and so does the
\* driver's list every order the driver placed: none escapes the cancels and
\* none is drawn twice, whatever market orders, cancels, failed draws and
\* compactions removed.  live_ keeps to its cap, and a compaction leaves in it
\* exactly the ids in the book.
LiveCoversBook ==
  /\ Covers(ours, first) \/ pc = "warmup"
  /\ pc = "warmup" => /\ Covers(live, 1) /\ Len(live) <= Cap
                      /\ since = 0 => \A i \in 1..Len(live) : InBook(book, live[i])

\* What rests of an order, and what a listener has still to be told of its fills.
Remaining(b, id) == IF InBook(b, id) THEN b.order[FindId(b, id)].rem ELSE 0
Due(id) == MapThenSumSet(LAMBDA i : IF fills[i].id = id THEN fills[i].qty ELSE 0,
                         1..Len(fills))

\* The feed tells the truth: an order a listener heard of, and of which it
\* missed no event, has in the listener's copy the quantity that rests in the
\* book, and none there when it has left the book; fills still to be published
\* are what the copy is behind by.
ListenerAgrees ==
  \A id \in Ids \ {0} :
    mirror[id] # Unknown => mirror[id] = Remaining(book, id) + Due(id)
=============================================================================
