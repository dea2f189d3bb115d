# A TLA+ verification project for the limit order book

This directory holds TLA+ models of the C++ limit order book and of the
concurrent structures around it, TLC configurations that check them on small
instances, and TLAPS proofs of the most important properties for every
instance. `PROJECT.json` lists components, runs, theorems, hazards and findings
and maps each definition to the source lines it models.

## 1. The system

| Component | State it keeps | Operations | Correct when |
|---|---|---|---|
| `OrderPool` | slab of `Order`s, LIFO freelist | `allocate`, `deallocate` | a slot is free, once, or owned by one order |
| `PriceLevel` | `head_`, `tail_`, `cnt_`, `agg_qty_`; links inside the orders | `push_back`, `remove`, aggregate updates | the list is the queue of the orders at that price; count and aggregate match it |
| `PriceLadder` | sorted vector of (price, level) | `find`, `find_or_emplace`, `erase`, `begin` | sorted, one node per price, best price first |
| `OrderBook` | two ladders, dense id table, `next_order_id_`, pool, `pending_stop_storage_` | add, cancel, modify, market, apply_fill, configure_iceberg, the pending-stop operations | price-time priority; levels vanish with their last order; quantities are conserved |
| `MatchingEngine` | `pending_stops_`, a policy | `submit_limit`, `submit_market`, `submit_stop`, `process_triggers` | every stop fires at most once, and when the market trades through it |
| `ProRataPolicy` | `min_fill_` | `match` | the documented allocation; never more than the incoming size |
| `MpscRing` | slots with a sequence number, two positions | `try_push` (many threads), `try_pop` (one) | race-free bounded FIFO |
| `SpscRing` | buffer, head, tail | `try_push`, `try_pop` | race-free bounded FIFO |
| `SeqlockQuote` | sequence number, payload atomics | `publish` (one thread), `read` (many) | no torn or outdated quote |
| `SingleWriterPipeline` | ring, book, seqlock, `applied_` | `try_submit`, `drain` | commands applied once, in order; the quote follows the book |
| `ShardedBooks` | a book and a mutex per shard | `submit`, `quote` | each shard is serial |
| `OrderFlowSimulator` | `live_` ids, counters | `step` | every live order's id is known |
| `md::Publisher`, `md::Receiver` | SPSC queue, thread, socket, statistics | `try_publish_*`, the loops, `start`, `stop` | every event is sent, dropped with a count, or still queued |

The matching engine, the pipeline and the simulator call the book on one thread.
Other threads push commands into the MPSC ring and read quotes from the seqlock.
`ShardedBooks` is the alternative design: every producer applies its own commands,
under the mutex of a shard. The matching thread feeds the publisher's thread
through the SPSC ring; the publisher packs the events into datagrams in the
format of `itch_protocol.hpp` and sends them as UDP multicast to receivers.
`bench_contention.cpp` drives the two designs and compares the number of applied
commands; `profile_pipeline.cpp` drives simulator, engine and publisher together.

What is hard to test here: the interleavings of the three lock-free structures
and of the sharded books; long sequences of calls on the intrusive lists, whose
corruption shows much later; the re-entrant trigger loop with its pointers to
orders that may have been freed; arithmetic at its width in the pro-rata policy;
exhaustion of the pool and of the rings; stop against a thread that is anywhere in
its loop; the unreliable network. `PROJECT.json` lists each such place under
`hazards`, with the property that watches it or the reason why none does.

## 2. Modules

| Module | Models |
|---|---|
| `BookData` | the book as a value: pool, id table, intrusive lists, ladders, pending stops, and the operators on it |
| `OrderBook` (extends `BookData`) | every operation of `lob::OrderBook` as an action, and the book's properties |
| `SumProofs` | lemmas about sums over finite sets and concatenations, used by five modules of proofs |
| `OrderBookProofs` | the proofs for `OrderBook`, and lemmas about books without stops and icebergs |
| `ProRata` (extends `OrderBook`) | the allocation of `ProRataPolicy::match` and what a fair split is |
| `MatchingEngine` (extends `ProRata`) | `lob::MatchingEngine` with either policy on that book |
| `EngineProofs` (extends `OrderBookProofs`) | the proofs for `MatchingEngine` |
| `MpscRing` | `try_push` and `try_pop`, one step per shared access |
| `MpscRingProofs` | the proofs for `MpscRing` |
| `BoundedFifo` | what a ring promises: the abstract specification `MpscRing` and `SpscRing` implement and `Pipeline` uses |
| `SeqlockQuote` | `publish` and `read`, one step per shared access; also the module of its run |
| `SeqlockQuoteProofs` | its proofs |
| `Pipeline` (extends `OrderBook`) | `SingleWriterPipeline`: producers, queue, drain, book, quotes |
| `ShardedBooks` (extends `Pipeline`) | `ShardedBooks`: a book, a mutex and a counter per shard |
| `Contention` (extends `ShardedBooks`) | the drivers of `bench_contention.cpp` around both |
| `ContentionProofs` (extends `OrderBookProofs`) | the proofs for `Pipeline`, `ShardedBooks` and `Contention` |
| `Simulator` (extends `OrderBook`) | `OrderFlowSimulator` on a book |
| `FeedDriver` (extends `Simulator`) | `run_pipeline` of `profile_pipeline.cpp`: warm-up, engine and published events |
| `FeedDriverProofs` (extends `OrderBookProofs`) | the proofs for `FeedDriver`, the simulator's part included |
| `SpscRing` | `try_push` and `try_pop` of the SPSC ring, one step per shared access |
| `ItchProtocol` | events, their wire form, the datagram |
| `MdPublisher` (extends `SpscRing`, `ItchProtocol`) | `md::Publisher`: its owner and its thread |
| `MdFeed` (extends `MdPublisher`) | the network and `md::Receiver` |
| `MdFeedProofs` | the proofs for `SpscRing`, `MdPublisher` and `MdFeed` |
| `MCOrderBook`, `MCMatchingEngine`, `MCMpscRing`, `MCContention`, `MCSimulator`, `MCFeedDriver`, `MCMdFeed` | the constants of the runs |

Definitions whose name contains `Mut_` are deliberate defects, one for each
property of a passing run: put in the place of the definition whose name they
start with, they make TLC find that property violated. `PROJECT.json` pairs them.

### The book

A book is a record `b`. An `Order*` is a slot number, `nullptr` is `Null`; the
links `prev` and `next` are functions on slots, so that `PushBack` and `Remove`
assign the same pointers the C++ methods assign, whether or not the order is in
the list. `free` is the freelist (last element on top), `ids` the id table,
`ladder` the sorted vector of prices of each side, `level` the four fields of the
`PriceLevel` of each (side, price) key, `pending` the pending-stop vector. A freed slot
keeps its contents until it is allocated again, as in the code. Quantities are
taken modulo `QtyMod`, which stands for 2^64.

Each method is an operator from a book value to a book value (`CancelOrder`,
`ModifyOrder`, ...) and each action applies one operator. `market_order` is
`MarketBegin`, one `MarketStep` per iteration of its loop and `MarketReturn`;
`call` holds its local variables. The two branches of the code for buy and sell
are one definition with the side as a parameter. `arr` and `clock` are
auxiliary: they number the calls of `push_back`, so that the properties can say
who arrived first; no other field depends on them. Left out: the timestamp
(always zero), the text of `snapshot`, the heap allocation mode, the capacity of
vectors; the vector of fills is modelled where it is used, in `FeedDriver`.

A `PriceLadder` is the vector `v_` without its levels. `LowerBound` is what
`std::lower_bound` returns, the first position whose price does not come before
the one looked for in the order of the side; `HasLevel` (`find`), `FindOrEmplace`
and `EraseLevel` start from it and insert or erase at that position, and
`BestKey` is the first element, whatever its price. So a level that is looked for in a
vector out of order may be missed, and a vector out of order has a wrong best
price. In `market_order`, which walks with an iterator, the iterator is always
`begin()`: `erase` returns the new first element, and a level that is not erased
keeps the iterator where it is.

`TouchStops` says whether clients may pass the id of a stop that is still
pending to cancel, modify, configure or apply_fill. With it the book breaks
(finding 1 below), so the positive runs and the theorems are about clients that
do not.

### The matching engine

`MatchingEngine` adds `policy`, `pend` (`pending_stops_`) and `stack` to the book
and its market call. Between calls (`Quiet`) a client submits a limit order, a stop or a
market order, or cancels a resting order. `submit_market` is `SubmitMarket`, the
`Match` steps of the book's loop, and `MatchReturn`, which, if there were fills,
enters `process_triggers`: it pushes a frame with the last trade price and the
queue of both registrations, `pend` first. Each iteration of the innermost loop
is one of `RequeueStop`, `SkipEntry`, `FireStopMarket` or `FireStopLimit`,
decided by what the entry's slot holds now, be it the stop, a freed order or
another order that took the slot. A stop-market that fires starts a market call
while its loop's frame stays on the stack, and so nests as the C++ calls do.
`accepted`, `fired` and `lastTrade` are auxiliary histories.

With the pro-rata policy the match is one step, `MatchProRata`, since nothing can
interleave with it: `Allocation` is the sequence of shares, with the products and
the total taken modulo `QtyMod` as the code's 64-bit arithmetic does, `Place` the
order in which the largest remainders get the units left over, and `Distribute`
the calls of `apply_fill`, on pointers collected before the first of them.

### The rings and the seqlock

In `MpscRing` a producer's `pc` says at which shared access of `try_push` it
is; the consumer's `cpc` the same for `try_pop`. `compare_exchange_weak` may
fail spuriously. `claimed` and `popped` are auxiliary histories. In
`SeqlockQuote` the n-th publish writes n into every field; the relaxed payload
stores happen in any order between the two increments of `seq_`, the loads in
any order between the two loads of it. In `SpscRing` the counters wrap modulo
`CtrMod`, which stands for 2^64. The models interleave the accesses of
all threads sequentially consistently: the argument that the acquire, release
and fence annotations give this ordering is in the comments of the source and is
not checked here. The positions of `MpscRing` and `seq_` do not wrap.

### Pipeline and sharded books

`Pipeline` builds on what is shown of its parts. Its queue is `BoundedFifo`, so
that a `try_submit` reserves a place and fills it in a second step, between which
the consumer may wait; publishing a quote is one step. `drain` and `apply` are one
action per command, a market order one per iteration. `ShardedBooks` takes the
mutex, applies, counts and releases in separate steps; an observer asks for a
quote, side by side, under the mutex, or for `applied()`, shard by shard, without
it. `log` is auxiliary: the commands in the order in which the mutex was taken.
`Contention` adds the threads of the two benchmark drivers; a behaviour runs one
of them.

### Simulator and profiling driver

The draws of `step` are choices; a cancel is one action per attempt.
`DivideByZero` is the attempt on an empty list (finding 3). `FeedDriver` starts
with the simulator's warm-up and then runs the driver's own mix of limits,
market orders and cancels through the engine. Each published event is accepted or,
with the queue full, dropped, by choice. `mirror` is auxiliary: what a listener
that builds its copy from the accepted events alone holds.

### The market data feed

`MdPublisher` has two threads: the owner, which calls `start`, `stop` and
`try_publish_*`, and the publisher thread, whose `pc` follows `thread_main`.
A word on the wire has two bytes, which are swapped; a message carries the fields
of its type only and has the size of its packed struct, so that the room check and
the receiver's length checks work on real sizes. `sendto` and `socket` may fail at
any call. In `MdFeed` `recvfrom` returns any datagram that was sent, any number of
times and in any order, a foreign datagram, an error or nothing: loss,
duplication and reordering. The receiver's steps are taken after the publisher is
done: they read nothing of the publisher but the datagrams sent, which stay
available, and change nothing it reads, so every other interleaving reaches the
same states of each side. `sends`, `calls` and `seen` are auxiliary.

## 3. Runs

| Run | Result | Instance | Shows |
|---|---|---|---|
| `iceberg` | pass | 3 slots, 3 ids, 1 price, sizes 0 and 3, takes of 2, display 1 | list order and depth with icebergs that re-queue; conservation of quantity; `market_order` returns |
| `ladder` | pass | 3 slots, 4 ids, 3 prices, both sides, stops | pool, levels, pending stops, the first price of a vector is the inside and market orders sweep from it, modify with an exhausted pool |
| `engine` | pass | FIFO; 4 slots, 6 ids, 2 prices, buy stops of both kinds, asks | stale pointers do no harm; no stop is lost or fires twice; a stop-limit that fires rests in full; cascades end |
| `prorata` | pass | pro-rata with min_fill 1 and 3; 3 slots, 4 ids, sizes 2 and 7, takes of 3 and 5, display 2, stops | fair shares, no overfill, a sound book, also when products overflow |
| `mpsc` | pass | 3 producers, 2 slots, 2 pushes each | race freedom, order, failure only when full, refinement of `BoundedFifo`; claimed values are delivered |
| `seqlock` | pass | 2 readers, 2 fields, 3 publishes | no torn, no outdated read; reads return |
| `contention` | pass | 2 producers with 2 commands each; queue of 2, batches of 2; 2 shards, 1 question of the observer | commands once and in order, quotes of whole commands, no lost update, both drivers return |
| `driver` | pass | 3 slots, 5 ids, 3 prices, cap 3, 2 draws, compaction every third step; 3 orders of the driver | simulator and driver keep track of every order; a listener's copy follows the book |
| `feed` | pass | ring of 2, 3 events, 2 starts, datagrams of 2 messages, 2 receptions | race freedom and refinement of `BoundedFifo`; every event accounted for; sockets and buffers respected; the receiver decodes what was published; accepted events are sent, `stop` returns |
| `stop_cancel` | violation | pending stops may be cancelled | finding 1 |
| `chained` | violation | 4 slots, 6 ids | finding 2 |
| `sim_zero` | violation | 3 slots, 3 ids, 8 draws | finding 3 |

Bounds. Three slots are the smallest pool in which a list has a middle element,
the case where `remove` rewires two neighbours, and in which a vector of prices
has one: with three prices `find_or_emplace` inserts in front, in the middle and
at the end. One more id than slots is enough for adds and modifies that find the
pool exhausted. Except in `iceberg`, `MaxId` is one or two above the
pool size, so slots are reused by new ids. `MaxArrivals` bounds the calls of
`push_back`; once it is reached clients may only cancel, which keeps every
reached state able to empty the book. In `engine` four
slots hold two asks and two stops, the smallest cascade in which the trade of one
stop makes another eligible; `CanSubmit` keeps an id for every pending stop, so
that the limit order a stop-limit becomes never runs out of ids. In `prorata`
`QtyMod` is 32: 7 * 5 overflows and 7 * 3 does not, and three orders of 7 stay
below it, so the total is right and only the products wrap. A ring of two slots with six pushes wraps
three times, so every slot sees producers of different laps. Three publishes let
a slow reader span a whole publish and meet the next. In `contention` four
commands on a queue of two fill it, and make a full batch and a partial one. In
`driver` the simulator takes its turn without limit on the number of steps;
`WarmupIds` hands over while at most one order of the warm-up exists, which is
enough for an order the listener never heard of, and `DriverOrders` bounds the
orders placed after it. In `feed` the counters start at 2 and wrap at 4;
`Payload` is one byte less than the header and two snapshots take, so that batches
end by count, by room (after a snapshot) and by an empty ring; two starts let a second thread go on with what the
first left in the ring.

Deadlock is checked except in `driver` and `sim_zero`, where the process may die
in the division by zero, and the driver's loop ends.

Fairness. `OrderBook!Fairness`: the thread inside `market_order` keeps running;
nothing is assumed of clients. `EngineSpec`: the same of a call of the engine,
which is one thread's sequence of steps. `MpscRing!Fairness`: a producer that has won its
CAS finishes its two stores, and the consumer polls again and again, as the loop
around `drain` does; no producer is assumed to win a CAS, which the comment of
the source rules out too. `SeqlockQuote!Fairness`: threads inside `publish` and
`read` keep running. `MaxPublish` bounds the writer: under a writer that never
pauses a reader may starve, as the source says, so `ReadReturns` is a statement
about a writer that pauses. `ContFairness`: every thread of a driver is scheduled
again and again; weak fairness is enough, as a producer that loses a place or the
mutex loses it to one that then has a command less to submit. `MdFeed!Fairness`:
the owner finishes a call and the publisher thread, which spins, keeps running;
nothing is assumed of the network or the receiver.

## 4. Proofs

All theorems hold for every value of the constants that the named assumptions of
the modules, and those listed here, allow. An invariant of the kind the runs
check is seldom inductive; for each group the strengthening is named.

**The book** (`OrderBookProofs`, about `SafetySpec`, for `TouchStops = FALSE`):
`TypeCorrect`, `PoolSafety`, `PriceTimePriority`, `LevelsAreExact`,
`StopsStayLive`, `BestPriceFirst`. Sizes that clients use are below a quarter of
`QtyMod`, so that the code's casts to `int64_t` are exact. `remove` is right only
on an order that is in the list; that it is follows from the id table and the
pool partition; that in turn needs that fresh ids are unused and that no live
slot is on the freelist. The inductive invariant is

    Inv == BookInv(book) /\ TypeOK /\ MarketBestFirst

where `BookInv` collects the type of the book, `PoolPartitioned`, `NoDangling`,
`FreshIds`, `ClockAhead` (no order arrived in the future), `FifoLevels` and
`ExactLevels`. The heart is three lemmas on a level's list (`FifoAppend`,
`FifoRemove`, `FifoFrame`), lifted to all levels by `PushBackQueues` and
`RemoveQueues`; then one lemma per operation (`AddLimitInv`, `CancelInv`,
`ReplenishInv`, `MarketInv`, ...). That the vectors are sorted is part of the type `Book`
(`Ladders`). `LowerBoundIs` and `PlaceFacts` show that `lower_bound` finds a price
of a sorted vector and otherwise the place where it belongs, `InsertKeeps` and
`RemoveAtKeeps` that an insertion there and an erasure leave the vector sorted, with
one price more or less (`EmplaceFields`, `EraseFields`). `BestPriceFirst` then needs
both halves: the first element is the best of the vector (`BestExists`), and the
prices of the vector are those at which orders rest (`ExactLevels`, by
`InsideBest`); a market order only shrinks that set, so what is left is no better than
its last trade. Two action
properties follow from the same invariant: `PriorityIsKept` (an operation changes
the arrival number of no order but the one it queues anew) and
`ModifyReplacesOrder` (the cancel half frees the slot the add half takes).

**Depth and conservation** (also `OrderBookProofs`): `DepthIsExact` and
`FillsAreConserved`. Both sum over the orders of a level or of the book. `DepthIsExact`
assumes, with M the largest size clients use, that a pool full of orders of 2M stays
within the width of a quantity (`Fits(M)`: `2 * M * Capacity < QtyMod`), since
otherwise the 64-bit aggregate of the code wraps, or its saturating decrement
loses quantity. The factor two is real: an in-place modify of an iceberg whose
total was reduced below its hidden part may leave more visible than the total
(`WellFormed`). The inductive invariant adds to `Inv` these bounds on every
order's parts and the aggregates themselves; `FillsAreConserved` needs the bounds
only.

**The engine** (`EngineProofs`, about `EngineSafetySpec`, for the FIFO policy and
under the assumptions of `DepthIsExact`): `StalePointersDoNoHarm`,
`EveryStopAccounted`, `StopLimitsRestInFull`. The engine looks at freed and reused
slots. What makes that harmless is that ids are never issued twice: in
`EngineInv` every id in the slab, stale slots included, was issued, and to one
slot only (`IdsIssued`), so that a slot whose id is still mapped holds the order
the pointer was made for; an id is left for every pending stop (`IdsLeft`), so
that a stop-limit that fires gets one.

**The rings.** `MpscRingProofs`: `DataRaceFreedom`, `FifoDelivery`,
`FullOnFailure` from `RingInv`, which says for every position between the two
ends of the ring what its slot's `seq` is and who may be working on it; and the
refinement `RingRefinesFifo`, action by action: the CAS that wins is `Reserve`,
the store of `seq` is `MakeReady`, the consumer's last store is `Deliver`, every
other access stutters. `MdFeedProofs`: `SpscRaceFreedom` and `SpscRefinesFifo`,
from `RingOK` (a producer inside `try_push` has a free cell, a consumer inside
`try_pop` an element). The counters wrap; `Size` divides their range
(`SizeAssumption`, in the code both are powers of two), and the lemmas on `%`
show that a counter keeps its cell when it wraps.

**The seqlock** (`SeqlockQuoteProofs`): `NoTornReads` and `ReadsAreFresh`, from an
invariant that ties a reader's partial copy to the parity and value of `seq_`.

**The feed** (`MdFeedProofs`, about `MdFeed!Spec`): `PublisherStaysInBounds` from
`FeedOK` (there is a thread while `run_` is set or `stop` waits, and it holds the
socket; a batch grows only with room for the largest message);
`PublisherLosesNothing` from `AccountOK` (the log of accepted events is the
concatenation of datagrams, batch and ring; there are at most as many datagrams
as events, so that a sequence number is a word); `ReceiverDecodesAll` from
`WireOK` and `RxOK` (a datagram is as long as its header and its messages, so the
receiver's offsets, a recursive function in the model, fall on message
boundaries). Rests on `PackUnpack`: packing and unpacking an event gives it back,
for every event whose fields are words and are zero where its type has none.
Assumptions: a payload that holds a header (`PayloadAssumption`), fields and call
counts that are words (`PublisherAssumption`), and that foreign datagrams with a
good header announce messages and hold no complete one (`ForeignAssumption`): a
foreign sender that speaks the protocol is indistinguishable from the publisher.

**Pipeline and benchmark drivers** (`ContentionProofs`, about `ContSpec`):
`PipelineKeepsOrder` (the log of a producer's commands is the sequence numbers
one to the number it has submitted, in order), `PipelineQuoteCurrent`,
`NothingIsLost` (a shard's counter lags its log by the command whose producer
holds the mutex; a sum over producers equals a sum over shards),
`ShardsAreSerial` and `QuotesAreSettled`. The invariant of the last two is
`SerialOK` with `AskerOK`: a free shard's book is the replay of its log; while a
producer holds the mutex, what is left of its command (a fill per step for a
market order) leads from the book to that replay; ids never pass `MaxId`; and an
observer in the middle of `quote` holds the mutex of the shard whose bid it has
read. It needs
that `MarketOrder`, the whole loop as a function, is the last of its iterations,
and that the loop ends: in a book without stops and icebergs (`Plain`) every
iteration but the last retires an order, so `Capacity + 1` are enough
(`MarketEnds`). Assumptions: finitely many producers, instruments that are
numbers, commands whose fields have the types of `Command` (`CmdsAssumption`),
mutex owners told apart (`HoldersAssumption`), and at least as many ids as the
benchmark has operations (`IdsAssumption`; the ids are 64-bit).

**Simulator and profiling driver** (`FeedDriverProofs`, about `DriverSpec`):
`ListsCoverBook` and `ListenerKnows`, from `DriverInv`. A list *tracks* the
orders of a book from an id on (`Tracks`) when it names each of them, no id
twice, and only ids that were issued; this is kept by an order that is added and
appended (`TracksAdd`), by orders that leave the book (`TracksShrink`), by a draw
of an id that is not, or no longer, in the book (`TracksDraw`) and by
`compact_live` (`TracksCompact`, over its loop as a recursive function). Before
the driver takes over, `live` tracks the whole book, and right after a compaction
it names nothing else; after that, `ours` tracks the orders from `first` on. For
the listener, what is still due for an order is a sum over the fills not yet
published: taking a fill moves its size from the book to that sum
(`ToldFilled`), publishing it moves it from the sum to the copy. The invariant
needs one thing more: a listener knows nothing of an id that was not issued yet,
because the driver places some orders without announcing them. The lemmas
`AddEffect`, `CancelEffect` and `MatchEffect` say that an operation on a book
without stops and icebergs changes what rests of one id only. Assumptions: a
span of at least one tick, prices within it (`SimAssumption`, `SpanAssumption`),
and sizes of the width of a quantity (`SimQtyAssumption`). These theorems are
about safety: that `step` always returns is false (finding 3), and nothing is
claimed of a process that has died.

Induction. The provers cannot use the library's induction principles, which take
a predicate as parameter. Where a theorem is about a sum, a concatenation or a
recursive function, `SumProofs` and the modules that use it argue by a smallest
counterexample: a finite set all of whose proper subsets satisfy the claim
(`SmallestSet`, from the well-foundedness of strict inclusion), or a smallest
number (`SmallestNat`).

Only model-checked: liveness (`MarketTerminates`, `CascadeEnds`,
`ClaimedIsDelivered`, `ReadReturns`, `BothReturn`, `AcceptedIsSent`,
`StopReturns`), which is out of the prover's reach; and the pro-rata properties
`ProRataConserves` and `ProRataIsFair`.
`TypeCorrect` is proved and not checked by a run as well.

## 5. Findings

Each is shown by a run that expects a violation.

1. `cancel_order` (and `modify_order`, `apply_fill`) on a stop-limit that is
   still pending, at a price that has a level on its side, removes the order
   from a list it is not in and so empties the level. The orders resting there
   keep their ids and slots and are never matched again.
2. A stop that the trade of another stop makes eligible is not fired. It waits in
   the queue of the outer trigger loop, where the inner one does not see it, and
   the outer one compares it with the older price. It stays pending until the
   next trade. (`process_triggers` re-enters itself through `submit_market` here,
   although the header says it works from a queue "to avoid recursion".)
3. `do_cancel` of the simulator looks whether `live_` is empty once, and then
   removes an id at each of up to eight attempts: when the ids left are stale and
   fewer than that, `rng_() % live_.size()` divides by zero.

Seen while modelling, and not the subject of a run:

- An in-place `modify_order` of an iceberg leaves `hidden_qty` unchanged, so `qty`
  is no longer the total of the visible and the hidden part; `configure_iceberg`
  on a partly filled order splits the original total again and so brings filled
  quantity back.
- `try_pop` of the MPSC ring returns false on a ring that holds a completed push
  behind a claimed and unpublished one, where the comment says "if empty".
- `process_triggers` reads orders it has already given to `free_order`, through
  the second registration of each stop. In the pool's slab this is harmless, as
  the run `engine` shows; in the heap allocation mode the memory has been deleted.
- Where a product overflows, pro-rata shares are smaller than proportional; the
  run `prorata` shows that they never add up to more than the market order.
- A publisher whose group does not parse has `run_` true and a thread that has
  exited: events pile up until they are dropped, and `start` does nothing.
- `stop` leaves accepted events in the ring; they go out only after another
  `start`. The receiver does not look at the packet sequence number, so that loss
  and repetition are invisible to it.
- The profiling driver does not announce the order that a cancel without live
  orders places, nor the orders of the warm-up: listeners get executions and
  cancels of orders they never heard of.

## 6. Not modelled, and what is left

Not modelled: the heap allocation mode of the pool (the component is "partly" for
that); cancelling a pending stop, and what its pointer does in the engine
afterwards, beyond finding 1 (`TouchStops`); memory
orders weaker than sequential consistency; thread pinning, socket options and
latency samples, which do not touch the program's state; the version string; the
timing harnesses of `bench_lob.cpp` and most of `profile_pipeline.cpp`, the
latency ring they report from, and the demo with its web front end.

Left: proofs of the pro-rata policy's bounds.
