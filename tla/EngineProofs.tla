---------------------------- MODULE EngineProofs ----------------------------
(***************************************************************************)
(* The matching engine.  Its trigger queues hold pointers that may be      *)
(* stale; they do no harm because ids are never issued twice: a slot whose *)
(* id is still mapped holds the very order that the pointer was made for.  *)
(***************************************************************************)
EXTENDS MatchingEngine, OrderBookProofs

-----------------------------------------------------------------------------
(***************************************************************************)
(* The inductive invariant.                                                *)
(***************************************************************************)

\* Every id in the slab was issued, and to one slot only, stale slots included.
IdsIssued(b) ==
  \A s \in Slots :
    /\ b.order[s].id < b.nextId
    /\ \A t \in Slots : b.order[t].id = b.order[s].id /\ b.order[s].id # 0 => t = s

\* An id is left for every pending stop (CanSubmit).
IdsLeft(b) == b.nextId + Cardinality(Stops(b)) <= MaxId + 1

Sound(b, M) == BookInv(b) /\ DepthInv(b) /\ Bounded(b, M) /\ IdsIssued(b)

\* The price of a fill is a limit price.
CallPriced(c) == c.traded => c.last \in Prices

\* The ids that clients were given and the ids that fired were issued.
HistoryIssued(b, acc, frd) ==
  /\ \A id \in acc : id # 0 /\ id < b.nextId
  /\ \A i \in 1..Len(frd) : frd[i] < b.nextId

EngineInv(M) ==
  /\ Sound(book, M) /\ IdsLeft(book)
  /\ EngineTypeOK
  /\ CallPriced(call)
  /\ HistoryIssued(book, accepted, fired)

-----------------------------------------------------------------------------
(***************************************************************************)
(* The id table and the pending stops over an operation of the book.       *)
(***************************************************************************)

\* From b to c the stops in the slots of O leave, the other stops and their
\* registrations stay, and an order that was not live before has a new id.
KeptOrders(b, c, O) ==
  /\ \A s \in Stops(b) \ O : s \in Stops(c) /\ c.order[s].id = b.order[s].id
  /\ \A s \in Live(c) : \/ s \in Live(b) \ O /\ c.order[s].id = b.order[s].id
                        \/ c.order[s].id >= b.nextId
  /\ b.nextId <= c.nextId

Kept(b, c, O) ==
  /\ KeptOrders(b, c, O)
  /\ \A s \in Stops(b) \ O : InSeq(s, b.pending) => InSeq(s, c.pending)

LEMMA KeptChain ==
  ASSUME NEW b, NEW d, NEW c, NEW O, BookInv(b), BookInv(d), BookInv(c),
         Kept(b, d, O), Kept(d, c, {})
  PROVE  Kept(b, c, O)
<1>1. b.nextId \in Nat /\ d.nextId \in Nat /\ c.nextId \in Nat
  BY BookTypes DEF BookInv
<1>2. \A s \in Live(c) : c.order[s].id \in Nat
  BY BookTypes, MaxIdAssumption DEF BookInv, Live, Order, Ids
<1>3. ASSUME NEW s \in Stops(b) \ O
      PROVE  /\ s \in Stops(c) /\ c.order[s].id = b.order[s].id
             /\ InSeq(s, b.pending) => InSeq(s, c.pending)
  BY DEF Kept, KeptOrders
<1>4. ASSUME NEW s \in Live(c)
      PROVE  \/ s \in Live(b) \ O /\ c.order[s].id = b.order[s].id
             \/ c.order[s].id >= b.nextId
  BY <1>1, <1>2 DEF Kept, KeptOrders
<1>5. QED
  BY <1>1, <1>3, <1>4 DEF Kept, KeptOrders

\* The map of ids and the slab agree.
LEMMA FindLive ==
  ASSUME NEW b, BookInv(b)
  PROVE  /\ \A id \in Ids : FindId(b, id) # Null =>
              FindId(b, id) \in Live(b) /\ b.order[FindId(b, id)].id = id
         /\ \A s \in Live(b) : /\ s \in Slots /\ s # Null /\ b.order[s].id \in Ids
                               /\ FindId(b, b.order[s].id) = s
                               /\ b.order[s].id # 0 /\ b.order[s].id < b.nextId
<1>1. b \in Book /\ b.ids \in [Ids -> Slots \cup {Null}] /\ b.order \in [Slots -> Order]
  BY BookTypes DEF BookInv
<1>2. ASSUME NEW id \in Ids, FindId(b, id) # Null
      PROVE  FindId(b, id) \in Live(b) /\ b.order[FindId(b, id)].id = id
  <2>1. b.ids[id] \in Slots /\ b.order[b.ids[id]].id = id
    BY <1>1, <1>2 DEF FindId, BookInv, PoolPartitioned
  <2>2. QED
    BY <2>1 DEF FindId, Live
<1>3. ASSUME NEW s \in Live(b)
      PROVE  /\ s \in Slots /\ s # Null /\ b.order[s].id \in Ids /\ FindId(b, b.order[s].id) = s
             /\ b.order[s].id # 0 /\ b.order[s].id < b.nextId
  <2>1. s \in Slots /\ s # Null /\ b.ids[b.order[s].id] = s
    BY SlotFacts DEF Live
  <2>2. b.order[s].id \in Ids
    BY <1>1, <2>1 DEF Order
  <2>3. b.nextId \in Nat /\ b.order[s].id \in Nat
    BY <1>1, <2>2, BookTypes, MaxIdAssumption DEF Ids
  <2>4. ~(b.order[s].id >= b.nextId \/ b.order[s].id = 0)
    BY <2>1, <2>2 DEF BookInv, FreshIds
  <2>5. QED
    BY <2>1, <2>2, <2>3, <2>4 DEF FindId
<1>4. QED
  BY <1>2, <1>3

LEMMA MovedFacts ==
  ASSUME NEW M \in Nat, NEW b, BookInv(b), Bounded(b, M), NEW c, BookInv(c), Moved(b, c, M)
  PROVE  /\ \A s \in Slots : c.order[s].id = b.order[s].id
         /\ Live(c) \subseteq Live(b) /\ Stops(c) = Stops(b)
         /\ c.nextId = b.nextId /\ c.pending = b.pending
<1>1. b.order \in [Slots -> Order]
  BY BookTypes DEF BookInv
<1>2. ASSUME NEW k \in Keys, NEW o \in Resting(b, k), Retired(b, c, k, o)
      PROVE  /\ \A s \in Slots : c.order[s].id = b.order[s].id
             /\ Live(c) \subseteq Live(b) /\ Stops(c) = Stops(b)
             /\ c.nextId = b.nextId /\ c.pending = b.pending
  BY <1>2 DEF Retired
<1>3. ASSUME NEW k \in Keys, NEW o \in Resting(b, k), Requeued(b, c, k, o)
      PROVE  /\ \A s \in Slots : c.order[s].id = b.order[s].id
             /\ Live(c) \subseteq Live(b) /\ Stops(c) = Stops(b)
             /\ c.nextId = b.nextId /\ c.pending = b.pending
  <2>1. /\ c.order = [b.order EXCEPT ![o] = Sliced(b.order[o])]
        /\ Live(c) = Live(b) /\ Stops(c) = Stops(b)
        /\ c.nextId = b.nextId /\ c.pending = b.pending
    BY <1>3, Zenon DEF Requeued, Sliced
  <2>2. o \in Slots /\ b.order[o] \in Order
    BY <1>1, OneLevel
  <2>3. Sliced(b.order[o]).id = b.order[o].id
    BY <2>2 DEF Sliced, Order
  <2>4. \A s \in Slots : c.order[s].id = b.order[s].id
    BY <1>1, <2>1, <2>2, <2>3
  <2>5. QED
    BY <2>1, <2>4
<1>4. ASSUME NEW k \in Keys, NEW o, NEW ord, NEW x, Resized(b, c, k, o, ord, x)
      PROVE  /\ \A s \in Slots : c.order[s].id = b.order[s].id
             /\ Live(c) \subseteq Live(b) /\ Stops(c) = Stops(b)
             /\ c.nextId = b.nextId /\ c.pending = b.pending
  <2>1. SameShape(b, c)
    BY <1>4 DEF Resized
  <2>2. Live(c) = Live(b) /\ Stops(c) = Stops(b)
    BY <2>1, ShapeSets
  <2>3. QED
    BY <2>1, <2>2 DEF SameShape
<1>5. QED
  BY <1>2, <1>3, <1>4 DEF Moved

LEMMA SoundMoved ==
  ASSUME NEW M \in Nat, Fits(M), NEW b, Sound(b, M), NEW c, BookInv(c), Moved(b, c, M)
  PROVE  /\ Sound(c, M) /\ Kept(b, c, {})
         /\ Stops(c) = Stops(b) /\ c.nextId = b.nextId
<1>1. BookInv(b) /\ DepthInv(b) /\ Bounded(b, M) /\ IdsIssued(b) /\ b.nextId \in Nat
  BY BookTypes DEF Sound, BookInv
<1>2. /\ \A s \in Slots : c.order[s].id = b.order[s].id
      /\ Live(c) \subseteq Live(b) /\ Stops(c) = Stops(b)
      /\ c.nextId = b.nextId /\ c.pending = b.pending
  BY <1>1, MovedFacts
<1>3. DepthInv(c) /\ Bounded(c, M)
  BY <1>1, DepthElementary DEF Elementary
<1>4. IdsIssued(c)
  BY <1>1, <1>2 DEF IdsIssued
<1>5. Stops(b) \subseteq Slots /\ Live(c) \subseteq Slots
  BY DEF Stops, Live
<1>6. Kept(b, c, {})
  BY <1>1, <1>2, <1>5 DEF Kept, KeptOrders
<1>7. QED
  BY <1>2, <1>3, <1>4, <1>6 DEF Sound

LEMMA SoundMoves ==
  ASSUME NEW M \in Nat, Fits(M), NEW b, Sound(b, M), NEW c, BookInv(c), Moves(b, c, M)
  PROVE  /\ Sound(c, M) /\ Kept(b, c, {})
         /\ Stops(c) = Stops(b) /\ c.nextId = b.nextId
<1>1. PICK d : BookInv(d) /\ Moved(b, d, M) /\ Moved(d, c, M)
  BY DEF Moves
<1>2. /\ Sound(d, M) /\ Kept(b, d, {}) /\ Stops(d) = Stops(b) /\ d.nextId = b.nextId
  BY <1>1, SoundMoved
<1>3. /\ Sound(c, M) /\ Kept(d, c, {}) /\ Stops(c) = Stops(d) /\ c.nextId = d.nextId
  BY <1>1, <1>2, SoundMoved
<1>4. Kept(b, c, {})
  BY <1>1, <1>2, <1>3, KeptChain DEF Sound
<1>5. QED
  BY <1>2, <1>3, <1>4

\* An order in a free slot, with the next id.
LEMMA IssuedNext ==
  ASSUME NEW b, BookInv(b), IdsIssued(b), NEW c, NEW o \in Slots, NEW ord,
         ord.id = b.nextId, c.order = [b.order EXCEPT ![o] = ord], c.nextId = b.nextId + 1
  PROVE  IdsIssued(c)
<1>1. b.order \in [Slots -> Order] /\ b.nextId \in Nat
  BY BookTypes DEF BookInv
<1>2. \A s \in Slots : b.order[s].id \in Nat /\ b.order[s].id < b.nextId
  BY <1>1, MaxIdAssumption DEF IdsIssued, Order, Ids
<1>3. c.order[o] = ord /\ \A s \in Slots : s # o => c.order[s] = b.order[s]
  BY <1>1
<1>4. ASSUME NEW s \in Slots PROVE c.order[s].id < c.nextId
  BY <1>1, <1>2, <1>3
<1>5. ASSUME NEW s \in Slots, NEW t \in Slots, c.order[t].id = c.order[s].id, c.order[s].id # 0
      PROVE  t = s
  BY <1>1, <1>2, <1>3, <1>5 DEF IdsIssued
<1>6. QED
  BY <1>4, <1>5 DEF IdsIssued

LEMMA SoundLimit ==
  ASSUME NEW M \in Nat, Fits(M), NEW b, Sound(b, M), NEW c, BookInv(c), NEW k \in Keys,
         NEW o, NEW ord, LimitAdded(b, c, k, o, ord), WellFormed(ord, M)
  PROVE  /\ Sound(c, M) /\ Kept(b, c, {})
         /\ Stops(c) = Stops(b) /\ c.nextId = b.nextId + 1
<1>1. BookInv(b) /\ DepthInv(b) /\ Bounded(b, M) /\ IdsIssued(b) /\ b.nextId \in Nat
  BY BookTypes DEF Sound, BookInv
<1>2. /\ o \in Slots \ Live(b) /\ ord.id = b.nextId /\ c.order = [b.order EXCEPT ![o] = ord]
      /\ Live(c) = Live(b) \cup {o} /\ Stops(c) = Stops(b)
      /\ c.nextId = b.nextId + 1 /\ c.pending = b.pending
  BY DEF LimitAdded
<1>3. DepthInv(c) /\ Bounded(c, M)
  BY <1>1, DepthElementary DEF Elementary
<1>4. IdsIssued(c)
  BY <1>1, <1>2, IssuedNext
<1>5. b.order \in [Slots -> Order] /\ Live(b) \subseteq Slots /\ Stops(b) \subseteq Live(b)
  BY <1>1, BookTypes DEF BookInv, Live, Stops
<1>6. c.order[o].id = b.nextId /\ \A s \in Live(b) : c.order[s] = b.order[s]
  BY <1>2, <1>5
<1>7. Kept(b, c, {})
  BY <1>1, <1>2, <1>5, <1>6 DEF Kept, KeptOrders
<1>8. QED
  BY <1>2, <1>3, <1>4, <1>7 DEF Sound

LEMMA SoundStop ==
  ASSUME NEW M \in Nat, Fits(M), NEW b, Sound(b, M), NEW c, BookInv(c),
         NEW o, NEW ord, StopAdded(b, c, o, ord), WellFormed(ord, M)
  PROVE  /\ Sound(c, M) /\ Kept(b, c, {})
         /\ o \in Slots \ Live(b) /\ Stops(c) = Stops(b) \cup {o} /\ c.nextId = b.nextId + 1
         /\ FindId(c, b.nextId) = o /\ InSeq(o, c.pending)
<1>1. BookInv(b) /\ DepthInv(b) /\ Bounded(b, M) /\ IdsIssued(b) /\ b.nextId \in Nat
  BY BookTypes DEF Sound, BookInv
<1>2. /\ o \in Slots \ Live(b) /\ ord.id = b.nextId /\ c.order = [b.order EXCEPT ![o] = ord]
      /\ Live(c) = Live(b) \cup {o} /\ Stops(c) = Stops(b) \cup {o}
      /\ c.nextId = b.nextId + 1 /\ c.pending = Append(b.pending, o)
  BY DEF StopAdded
<1>3. DepthInv(c) /\ Bounded(c, M)
  BY <1>1, DepthElementary DEF Elementary
<1>4. IdsIssued(c)
  BY <1>1, <1>2, IssuedNext
<1>5. /\ b.order \in [Slots -> Order] /\ Live(b) \subseteq Slots /\ Stops(b) \subseteq Live(b)
      /\ b.pending \in Seq(Slots)
  BY <1>1, BookTypes DEF BookInv, Live, Stops
<1>6. c.order[o].id = b.nextId /\ \A s \in Live(b) : c.order[s] = b.order[s]
  BY <1>2, <1>5
<1>7. InSeq(o, c.pending) /\ \A s : InSeq(s, b.pending) => InSeq(s, c.pending)
  <2>1. /\ Len(b.pending) \in Nat /\ Len(c.pending) = Len(b.pending) + 1
        /\ c.pending[Len(b.pending) + 1] = o
        /\ \A i \in 1..Len(b.pending) : c.pending[i] = b.pending[i]
    BY <1>2, <1>5
  <2>2. QED
    BY <2>1 DEF InSeq
<1>8. Kept(b, c, {})
  BY <1>1, <1>2, <1>5, <1>6, <1>7 DEF Kept, KeptOrders
<1>9. FindId(c, b.nextId) = o
  BY <1>2, <1>6 DEF Live, FindId
<1>10. QED
  BY <1>2, <1>3, <1>4, <1>7, <1>8, <1>9 DEF Sound

-----------------------------------------------------------------------------
(***************************************************************************)
(* The operations of the engine on the book.                               *)
(***************************************************************************)

\* The stop in slot o leaves the book, and its slot is free.
StopGone(b, c, o) ==
  /\ Kept(b, c, {o})
  /\ Stops(c) = Stops(b) \ {o} /\ Live(c) = Live(b) \ {o}
  /\ c.nextId = b.nextId /\ c.order = b.order /\ c.free # <<>>

LEMMA SoundRelease ==
  ASSUME NEW M \in Nat, NEW b, Sound(b, M), NEW id \in Ids, NEW o, o = FindId(b, id),
         o \in Stops(b), NEW c, c = FreeOrder(DetachPending(b, id), Detached(b, id))
  PROVE  Sound(c, M) /\ Detached(b, id) = o /\ StopGone(b, c, o)
<1>1. BookInv(b) /\ DepthInv(b) /\ Bounded(b, M) /\ IdsIssued(b) /\ b.nextId \in Nat
  BY BookTypes DEF Sound, BookInv
<1>2. /\ BookInv(c) /\ StopsLeft(b, c, {o}) /\ Detached(b, id) = o
      /\ \A i \in 1..Len(b.pending) :
           b.pending[i] # o => \E j \in 1..Len(c.pending) : c.pending[j] = b.pending[i]
  BY <1>1, ReleaseInv
<1>3. /\ c.order = b.order /\ Live(c) = Live(b) \ {o} /\ Stops(c) = Stops(b) \ {o}
      /\ c.nextId = b.nextId
  BY <1>2 DEF StopsLeft
<1>4. DepthInv(c) /\ Bounded(c, M)
  BY <1>1, <1>2, DepthStopsLeft
<1>5. IdsIssued(c)
  BY <1>1, <1>3 DEF IdsIssued
<1>6. \A s : s # o /\ InSeq(s, b.pending) => InSeq(s, c.pending)
  BY <1>2 DEF InSeq
<1>7. Kept(b, c, {o})
  BY <1>1, <1>3, <1>6 DEF Kept, KeptOrders
<1>8. c.free # <<>>
  <2>1. o \in Slots
    BY DEF Stops, Live
  <2>2. o \in FreeSlots(c)
    BY <1>2, <1>3, <2>1 DEF BookInv, PoolPartitioned
  <2>3. QED
    BY <2>2 DEF FreeSlots
<1>9. QED
  BY <1>2, <1>3, <1>4, <1>5, <1>7, <1>8 DEF Sound, StopGone

LEMMA SoundTake ==
  ASSUME NEW M \in Nat, NEW b, Sound(b, M), NEW c, c = TakePendingStops(b)
  PROVE  /\ Sound(c, M) /\ Stops(c) = Stops(b) /\ Live(c) = Live(b)
         /\ c.nextId = b.nextId /\ c.order = b.order /\ c.ids = b.ids
<1>1. BookInv(b) /\ DepthInv(b) /\ Bounded(b, M) /\ IdsIssued(b) /\ b \in Book
  BY DEF Sound, BookInv
<1>2. BookInv(c) /\ StopsLeft(b, c, {})
  BY <1>1, TakeInv
<1>3. /\ c.order = b.order /\ Live(c) = Live(b) /\ Stops(c) = Stops(b) /\ c.nextId = b.nextId
  BY <1>2 DEF StopsLeft
<1>4. DepthInv(c) /\ Bounded(c, M)
  BY <1>1, <1>2, DepthStopsLeft
<1>5. IdsIssued(c)
  BY <1>1, <1>3 DEF IdsIssued
<1>6. c.ids = b.ids
  BY <1>1 DEF TakePendingStops, Book
<1>7. QED
  BY <1>2, <1>3, <1>4, <1>5, <1>6 DEF Sound

\* add_limit_order and, for an iceberg, configure_iceberg on the order it added.
LEMMA SoundSubmit ==
  ASSUME NEW M \in Nat, Fits(M), NEW b, Sound(b, M), b.nextId <= MaxId,
         NEW side \in Sides, NEW price \in Prices, NEW qty \in Qty, qty <= M,
         NEW display \in Qty, NEW c, c = SubmitLimit(b, side, price, qty, display)
  PROVE  /\ Sound(c, M) /\ Kept(b, c, {}) /\ Stops(c) = Stops(b)
         /\ b.nextId <= c.nextId /\ c.nextId <= b.nextId + 1
<1> DEFINE b1 == AddLimitOrder(b, side, price, qty)
           id == NewId(b)
<1>1. /\ BookInv(b) /\ Bounded(b, M) /\ b \in Book /\ b.nextId \in Nat
      /\ b.nextId \in Ids /\ 0 \in Ids
  BY BookTypes, MaxIdAssumption DEF Sound, BookInv, Ids
<1>2. /\ BookInv(b1) /\ Sound(b1, M) /\ Kept(b, b1, {}) /\ Stops(b1) = Stops(b)
      /\ b.nextId <= b1.nextId /\ b1.nextId <= b.nextId + 1
      /\ id \in Ids /\ FindId(b1, id) \notin Stops(b1)
  <2>1. CASE b.free = <<>>
    <3>1. b1 = b /\ id = 0
      BY <2>1 DEF AddLimitOrder, NewId
    <3>2. FindId(b, 0) = Null /\ Null \notin Stops(b)
      BY <1>1, SlotFacts DEF BookInv, FreshIds, FindId, Stops, Live
    <3>3. Kept(b, b, {})
      BY <1>1 DEF Kept, KeptOrders, Stops
    <3> HIDE DEF b1, id
    <3>4. QED
      BY <1>1, <3>1, <3>2, <3>3
  <2>2. CASE b.free # <<>>
    <3> DEFINE k == <<side, price>>
               o == FreshSlot(b)
               ord == LimitOrder(b, side, price, qty)
    <3>1. id = b.nextId /\ k \in Keys
      BY <2>2 DEF NewId, Keys
    <3>2. BookInv(b1) /\ LimitAdded(b, b1, k, o, ord)
      BY <1>1, <2>2, AddLimitInv, Zenon
    <3>3. WellFormed(ord, M)
      BY <1>1, SizedLimit
    <3> HIDE DEF b1, id, k, o, ord
    <3>4. /\ Sound(b1, M) /\ Kept(b, b1, {})
          /\ Stops(b1) = Stops(b) /\ b1.nextId = b.nextId + 1
      BY <3>1, <3>2, <3>3, SoundLimit
    <3>5. /\ o \in Slots \ Live(b) /\ ord.id = b.nextId /\ b1.order = [b.order EXCEPT ![o] = ord]
          /\ Live(b1) = Live(b) \cup {o}
      BY <3>2 DEF LimitAdded
    <3>6. b1.order[o].id = b.nextId
      BY <1>1, <3>5, BookTypes
    <3>7. FindId(b1, id) = o
      BY <3>1, <3>5, <3>6 DEF Live, FindId
    <3>8. o \notin Stops(b1)
      BY <3>4, <3>5 DEF Stops
    <3>9. QED
      BY <1>1, <3>1, <3>2, <3>4, <3>7, <3>8
  <2>3. QED
    BY <2>1, <2>2
<1>3. c = IF display > 0 THEN ConfigureIceberg(b1, id, display) ELSE b1
  BY DEF SubmitLimit
<1> HIDE DEF b1, id
<1>4. CASE ~(display > 0)
  BY <1>2, <1>3, <1>4
<1>5. CASE display > 0
  <2>1. c = ConfigureIceberg(b1, id, display)
    BY <1>3, <1>5
  <2>2. Bounded(b1, M) /\ BookInv(c)
    BY <1>2, <2>1, ConfigureInv DEF Sound
  <2>3. Moved(b1, c, M)
    BY <1>2, <2>1, <2>2, ConfigureMoved
  <2>4. /\ Sound(c, M) /\ Kept(b1, c, {}) /\ Stops(c) = Stops(b1) /\ c.nextId = b1.nextId
    BY <1>2, <2>2, <2>3, SoundMoved
  <2>5. Kept(b, c, {})
    BY <1>1, <1>2, <2>2, <2>4, KeptChain
  <2>6. QED
    BY <1>2, <2>4, <2>5
<1>6. QED
  BY <1>4, <1>5

\* Orders rest at limit prices.
LEMMA RestingPriced ==
  ASSUME NEW M, NEW b, Sound(b, M), NEW k, NEW o \in Resting(b, k)
  PROVE  k[2] \in Prices
<1>1. /\ o \in Live(b) /\ o \in Slots /\ b.order[o].stype = NoStop /\ k = KeyOf(b, o)
  BY DEF Resting, Live
<1>2. b.order[o].id # 0
  BY <1>1, FindLive DEF Sound
<1>3. b.order[o].price \in Prices
  BY <1>1, <1>2 DEF Sound, Bounded, WellFormed, NoStop, StopMarket
<1>4. QED
  BY <1>1, <1>3 DEF KeyOf

\* A queue entry of which the slot still holds a stop and the id is still
\* mapped or pending is a pointer to that very stop.
LEMMA EntryIsStop ==
  ASSUME NEW M, NEW b, Sound(b, M), NEW s \in Slots, b.order[s].stype # NoStop,
         Detached(b, b.order[s].id) # Null
  PROVE  b.order[s].id \in Ids /\ FindId(b, b.order[s].id) = s /\ s \in Stops(b)
<1> DEFINE id == b.order[s].id
<1>1. BookInv(b) /\ IdsIssued(b) /\ id \in Ids
  BY BookTypes DEF Sound, BookInv, Order
<1>2. FindId(b, id) # Null
  <2>1. CASE PendingAt(b, id) # {}
    <3>1. PICK i \in 1..Len(b.pending) : b.order[b.pending[i]].id = id
      BY <2>1 DEF PendingAt
    <3>2. b.pending[i] \in Live(b)
      BY <1>1 DEF BookInv, NoDangling, Stops
    <3>3. QED
      BY <1>1, <3>1, <3>2, FindLive
  <2>2. CASE PendingAt(b, id) = {}
    BY <2>2 DEF Detached
  <2>3. QED
    BY <2>1, <2>2
<1>3. FindId(b, id) \in Live(b) /\ b.order[FindId(b, id)].id = id /\ id # 0
  BY <1>1, <1>2, FindLive
<1>4. FindId(b, id) = s
  BY <1>1, <1>3 DEF IdsIssued, Live
<1>5. QED
  BY <1>1, <1>3, <1>4 DEF Stops

-----------------------------------------------------------------------------
(***************************************************************************)
(* The invariant, action by action.                                        *)
(***************************************************************************)
LEMMA StopsCount ==
  ASSUME NEW b
  PROVE  IsFiniteSet(Stops(b)) /\ Cardinality(Stops(b)) \in Nat
BY SlotFacts, FS_Subset, FS_CardinalityType DEF Stops, Live

LEMMA HistoryKept ==
  ASSUME NEW b, NEW c, b.nextId \in Nat, c.nextId \in Nat, b.nextId <= c.nextId,
         NEW acc, NEW frd, acc \subseteq Ids, frd \in Seq(Ids), HistoryIssued(b, acc, frd)
  PROVE  HistoryIssued(c, acc, frd)
<1>1. \A id \in acc : id \in Nat
  BY MaxIdAssumption DEF Ids
<1>2. \A i \in 1..Len(frd) : frd[i] \in Nat
  BY MaxIdAssumption DEF Ids
<1>3. QED
  BY <1>1, <1>2 DEF HistoryIssued

\* The state an action starts from.
LEMMA EngineFacts ==
  ASSUME NEW M \in Nat, EngineInv(M)
  PROVE  /\ BookInv(book) /\ Bounded(book, M) /\ book \in Book /\ book.nextId \in Nat
         /\ Cardinality(Stops(book)) \in Nat
         /\ call \in MarketCall /\ pend \in Seq(Slots)
         /\ stack \in Seq([last : Prices, queue : Seq(Slots)])
         /\ CanSubmit => book.nextId <= MaxId
<1>1. /\ BookInv(book) /\ Bounded(book, M) /\ book \in Book /\ book.nextId \in Nat
      /\ Cardinality(Stops(book)) \in Nat
  BY BookTypes, StopsCount DEF EngineInv, Sound, BookInv
<1>2. CanSubmit => book.nextId <= MaxId
  BY <1>1, MaxIdAssumption DEF CanSubmit
<1>3. QED
  BY <1>1, <1>2 DEF EngineInv, EngineTypeOK, TypeOK

LEMMA ClientLimitSafe ==
  ASSUME NEW M \in Nat, SizesUpTo(M), Fits(M), EngineInv(M),
         NEW side \in QuoteSides, NEW price \in Prices, NEW qty \in Qtys,
         NEW display \in Displays \cup {0}, ClientLimit(side, price, qty, display)
  PROVE  EngineInv(M)' /\ Kept(book, book', {})
<1>1. /\ book \in Book /\ book.nextId \in Nat /\ book.nextId <= MaxId
      /\ Cardinality(Stops(book)) \in Nat /\ Sound(book, M)
  BY EngineFacts DEF ClientLimit, EngineInv
<1>2. side \in Sides /\ qty \in Qty /\ qty <= M /\ display \in Qty
  BY SizeFacts, QuoteSidesAssumption DEF SizesUpTo
<1>3. book' = SubmitLimit(book, side, price, qty, display)
  BY DEF ClientLimit
<1>4. /\ Sound(book', M) /\ Kept(book, book', {}) /\ Stops(book') = Stops(book)
      /\ book.nextId <= book'.nextId /\ book'.nextId <= book.nextId + 1
  BY <1>1, <1>2, <1>3, SoundSubmit
<1>5. book' \in Book /\ book'.nextId \in Nat
  BY <1>4, BookTypes DEF Sound, BookInv
<1>6. IdsLeft(book')
  BY <1>1, <1>4, <1>5, MaxIdAssumption DEF ClientLimit, CanSubmit, IdsLeft
<1>7. /\ call' = call /\ policy' = policy /\ pend' = pend /\ stack' = stack
      /\ accepted' = accepted /\ fired' = fired /\ lastTrade' = lastTrade
  BY DEF ClientLimit, history
<1>8. EngineTypeOK'
  BY <1>5, <1>7 DEF EngineInv, EngineTypeOK, TypeOK
<1>9. HistoryIssued(book', accepted', fired')
  BY <1>1, <1>4, <1>5, <1>7, HistoryKept DEF EngineInv, EngineTypeOK
<1>10. QED
  BY <1>4, <1>6, <1>7, <1>8, <1>9 DEF EngineInv

LEMMA ClientCancelSafe ==
  ASSUME TouchStops = FALSE, NEW M \in Nat, Fits(M), EngineInv(M),
         NEW id \in Ids, ClientCancel(id)
  PROVE  EngineInv(M)' /\ Kept(book, book', {})
<1>1. /\ book \in Book /\ book.nextId \in Nat /\ BookInv(book) /\ Sound(book, M)
  BY EngineFacts DEF EngineInv
<1> DEFINE o == FindId(book, id)
           k == KeyOf(book, o)
<1>2. o \notin Stops(book) /\ book' = CancelOrder(book, id)
  BY DEF ClientCancel, Cancel, MayTouch
<1>3. /\ BookInv(book')
      /\ book' = book \/ (Retired(book, book', k, o) /\ o \in Resting(book, k))
  BY <1>1, <1>2, CancelInv, Zenon
<1>4. o \in Resting(book, k) => k \in Keys
  BY <1>1, OneLevel, KeyType
<1> HIDE DEF k, o
<1>5. Moved(book, book', M)
  BY <1>3, <1>4 DEF Moved
<1>6. /\ Sound(book', M) /\ Kept(book, book', {})
      /\ Stops(book') = Stops(book) /\ book'.nextId = book.nextId
  BY <1>1, <1>3, <1>5, SoundMoved
<1>7. book' \in Book
  BY <1>3 DEF BookInv
<1>8. IdsLeft(book')
  BY <1>6 DEF EngineInv, IdsLeft
<1>9. /\ call' = call /\ policy' = policy /\ pend' = pend /\ stack' = stack
      /\ accepted' = accepted /\ fired' = fired /\ lastTrade' = lastTrade
  BY DEF ClientCancel, Cancel, Idle, history
<1>10. EngineTypeOK'
  BY <1>7, <1>9 DEF EngineInv, EngineTypeOK, TypeOK
<1>11. HistoryIssued(book', accepted', fired')
  BY <1>6, <1>9 DEF EngineInv, HistoryIssued
<1>12. QED
  BY <1>6, <1>8, <1>9, <1>10, <1>11 DEF EngineInv

\* submit_stop registers the new stop twice, or finds the pool exhausted.
LEMMA SubmitStopSafe ==
  ASSUME NEW M \in Nat, SizesUpTo(M), Fits(M), EngineInv(M),
         NEW side \in StopSides, NEW stop \in StopPrices, NEW qty \in StopQtys,
         NEW stype \in StopTypes \ {NoStop}, NEW price \in Prices \cup {NoPrice},
         stype # StopMarket => price \in Prices, NEW display \in Displays \cup {0},
         SubmitStop(side, stop, qty, stype, price, display)
  PROVE  /\ EngineInv(M)' /\ Kept(book, book', {})
         /\ \/ accepted' = accepted /\ pend' = pend
            \/ /\ accepted' = accepted \cup {book.nextId} /\ book.nextId < book'.nextId
               /\ pend' = Append(pend, FindId(book', book.nextId))
               /\ FindId(book', book.nextId) \in Stops(book')
<1>1. /\ book \in Book /\ book.nextId \in Nat /\ book.nextId <= MaxId /\ BookInv(book)
      /\ Cardinality(Stops(book)) \in Nat /\ Sound(book, M) /\ pend \in Seq(Slots)
      /\ book.nextId >= 1
  BY EngineFacts, BookTypes DEF SubmitStop, EngineInv
<1>2. side \in Sides /\ stop \in Prices /\ qty \in Qty /\ qty <= M /\ display \in Qty
  BY SizeFacts, StopSidesAssumption, StopPricesAssumption DEF SizesUpTo
<1>3. book' = AddPendingStop(book, side, stop, qty, stype, price, display)
  BY DEF SubmitStop
<1>4. /\ call' = call /\ policy' = policy /\ stack' = stack /\ fired' = fired
      /\ lastTrade' = NoPrice
  BY DEF SubmitStop
<1>5. CASE book.free = <<>>
  <2>1. book' = book /\ pend' = pend /\ accepted' = accepted
    BY <1>3, <1>5 DEF SubmitStop, AddPendingStop, NewId
  <2>2. Kept(book, book, {})
    BY <1>1 DEF Kept, KeptOrders, Stops
  <2>3. EngineTypeOK'
    BY <1>4, <2>1 DEF EngineInv, EngineTypeOK, TypeOK
  <2>4. QED
    BY <1>4, <2>1, <2>2, <2>3 DEF EngineInv
<1>6. CASE book.free # <<>>
  <2> DEFINE o == FreshSlot(book)
             ord == StopOrder(book, side, stop, qty, stype, price, display)
  <2>1. BookInv(book') /\ StopAdded(book, book', o, ord)
    BY <1>1, <1>2, <1>3, <1>6, AddPendingInv, Zenon
  <2>2. WellFormed(ord, M)
    BY <1>1, <1>2, SizedStop
  <2> HIDE DEF o, ord
  <2>3. /\ Sound(book', M) /\ Kept(book, book', {})
        /\ o \in Slots \ Live(book) /\ Stops(book') = Stops(book) \cup {o}
        /\ book'.nextId = book.nextId + 1 /\ FindId(book', book.nextId) = o
    BY <1>1, <2>1, <2>2, SoundStop
  <2>4. book' \in Book /\ book'.nextId \in Nat
    BY <2>1, <2>3, <1>1 DEF BookInv
  <2>5. /\ accepted' = accepted \cup {book.nextId}
        /\ pend' = Append(pend, o) /\ pend' \in Seq(Slots)
    <3>1. NewId(book) = book.nextId /\ book.nextId # 0
      BY <1>1, <1>6 DEF NewId
    <3>2. QED
      BY <1>1, <2>3, <3>1 DEF SubmitStop
  <2>6. IdsLeft(book')
    <3>1. o \notin Stops(book)
      BY <2>3 DEF Stops
    <3>2. Cardinality(Stops(book')) = Cardinality(Stops(book)) + 1
      BY <2>3, <3>1, StopsCount, FS_AddElement
    <3>3. QED
      BY <1>1, <2>3, <3>2, MaxIdAssumption DEF SubmitStop, CanSubmit, IdsLeft
  <2>7. EngineTypeOK'
    <3>1. accepted \subseteq Ids /\ book.nextId \in Ids
      BY <1>1, MaxIdAssumption DEF EngineInv, EngineTypeOK, Ids
    <3>2. QED
      BY <1>4, <2>4, <2>5, <3>1 DEF EngineInv, EngineTypeOK, TypeOK
  <2>8. HistoryIssued(book', accepted', fired')
    <3>1. HistoryIssued(book', accepted, fired)
      BY <1>1, <2>3, <2>4, HistoryKept DEF EngineInv, EngineTypeOK
    <3>2. QED
      BY <1>1, <1>4, <2>3, <2>5, <3>1 DEF HistoryIssued
  <2>9. QED
    BY <1>1, <1>4, <2>3, <2>5, <2>6, <2>7, <2>8 DEF EngineInv
<1>7. QED
  BY <1>5, <1>6

LEMMA SubmitMarketSafe ==
  ASSUME NEW M \in Nat, EngineInv(M), NEW side \in Sides, NEW qty \in TakeQtys,
         SubmitMarket(side, qty)
  PROVE  EngineInv(M)'
<1>1. qty \in Qty
  BY SizeFacts
<1>2. call' \in MarketCall /\ ~call'.traded
  BY <1>1 DEF SubmitMarket, MarketBegin, NoCall, MarketCall
<1>3. /\ book' = book /\ policy' = policy /\ pend' = pend /\ stack' = stack
      /\ accepted' = accepted /\ fired' = fired /\ lastTrade' = lastTrade
  BY DEF SubmitMarket, MarketBegin, history
<1>4. EngineTypeOK'
  BY <1>2, <1>3 DEF EngineInv, EngineTypeOK, TypeOK
<1>5. QED
  BY <1>2, <1>3, <1>4 DEF EngineInv, CallPriced

LEMMA MatchSafe ==
  ASSUME NEW M \in Nat, Fits(M), EngineInv(M), Match
  PROVE  EngineInv(M)' /\ Kept(book, book', {})
<1>1. /\ book \in Book /\ BookInv(book) /\ Bounded(book, M) /\ Sound(book, M)
      /\ call \in MarketCall /\ MarketStep
  BY EngineFacts DEF EngineInv, Match
<1> DEFINE side == Opposite(call.side)
           k == BestKey(book, side)
           o == book.level[k].head
           amt == MarketTake(book, k, call.left)
<1>2. call.left \in Qty /\ side \in Sides /\ ~SideEmpty(book, side)
  BY <1>1 DEF MarketStep, MarketCall, Opposite, Sides
<1>3. k \in LevelKeys(book.ladder)
  BY <1>1, <1>2, BestExists
<1>4. /\ book' = MarketIteration(book, k, call.left)
      /\ call' = IF o = Null THEN call
                 ELSE [call EXCEPT !.left = @ - amt, !.traded = TRUE, !.last = k[2]]
  BY <1>1, Zenon DEF MarketStep
<1> HIDE DEF k
<1>5. /\ BookInv(book') /\ o # Null
      /\ k \in Keys /\ o \in Resting(book, k) /\ amt \in 0..call.left /\ amt <= book.order[o].rem
      /\ Filled(book, book', k, o, amt, Decreased(book.level[k].agg, amt))
  BY <1>1, <1>2, <1>3, <1>4, MarketInv, Zenon
<1>6. amt \in Nat /\ call.left - amt \in Qty
  BY <1>2, <1>5, QtyInNat, QtyModAssumption DEF Qty
<1>7. book.level[k].agg \in Nat /\ book.level[k].agg < QtyMod
  BY <1>1, <1>5, BookTypes, QtyModAssumption DEF Level, Qty
<1> HIDE DEF o, amt
<1>8. Decreased(book.level[k].agg, amt) = Adjusted(book.level[k].agg, -amt)
  BY <1>6, <1>7, AdjustIsDecrease
<1>9. Moves(book, book', M)
  BY <1>1, <1>5, <1>6, <1>8, MovesFilled
<1>10. /\ Sound(book', M) /\ Kept(book, book', {})
       /\ Stops(book') = Stops(book) /\ book'.nextId = book.nextId
  BY <1>1, <1>5, <1>9, SoundMoves
<1>11. book' \in Book
  BY <1>5 DEF BookInv
<1>12. k[2] \in Prices
  BY <1>1, <1>5, RestingPriced
<1>13. call' \in MarketCall /\ call'.last \in Prices
  BY <1>1, <1>4, <1>5, <1>6, <1>12 DEF MarketCall
<1>14. IdsLeft(book')
  BY <1>10 DEF EngineInv, IdsLeft
<1>15. /\ policy' = policy /\ pend' = pend /\ stack' = stack
       /\ accepted' = accepted /\ fired' = fired /\ lastTrade' = lastTrade
  BY DEF Match, history
<1>16. EngineTypeOK'
  BY <1>11, <1>13, <1>15 DEF EngineInv, EngineTypeOK, TypeOK
<1>17. HistoryIssued(book', accepted', fired')
  BY <1>10, <1>15 DEF EngineInv, HistoryIssued
<1>18. QED
  BY <1>10, <1>13, <1>14, <1>16, <1>17 DEF EngineInv, CallPriced

LEMMA NoCallTyped == NoCall \in MarketCall /\ ~NoCall.traded /\ ~NoCall.active
BY SizeFacts DEF NoCall, MarketCall, Sides

\* The end of a match that left book b and, with fills, the price of the last.
LEMMA AfterMatchSafe ==
  ASSUME NEW M \in Nat, EngineInv(M), NEW b, Sound(b, M),
         Stops(b) = Stops(book), b.nextId = book.nextId,
         NEW traded, NEW last, traded => last \in Prices, AfterMatch(b, traded, last)
  PROVE  EngineInv(M)'
<1>1. /\ b \in Book /\ b.pending \in Seq(Slots) /\ pend \in Seq(Slots)
      /\ stack \in Seq([last : Prices, queue : Seq(Slots)])
  BY EngineFacts, BookTypes DEF Sound, BookInv
<1>2. /\ Sound(book', M) /\ Stops(book') = Stops(book) /\ book'.nextId = book.nextId
      /\ pend' \in Seq(Slots) /\ stack' \in Seq([last : Prices, queue : Seq(Slots)])
      /\ lastTrade' \in Prices \cup {NoPrice}
  <2>1. CASE traded
    <3>1. /\ stack' = Append(stack, [last |-> last, queue |-> pend \o b.pending])
          /\ pend' = <<>> /\ book' = TakePendingStops(b) /\ lastTrade' = last
      BY <2>1 DEF AfterMatch
    <3>2. /\ Sound(book', M) /\ Stops(book') = Stops(b) /\ book'.nextId = b.nextId
      BY <3>1, SoundTake
    <3>3. pend \o b.pending \in Seq(Slots) /\ <<>> \in Seq(Slots)
      BY <1>1
    <3>4. [last |-> last, queue |-> pend \o b.pending] \in [last : Prices, queue : Seq(Slots)]
      BY <2>1, <3>3
    <3>5. QED
      BY <1>1, <2>1, <3>1, <3>2, <3>3, <3>4
  <2>2. CASE ~traded
    <3>1. book' = b /\ stack' = stack /\ pend' = pend /\ lastTrade' = lastTrade
      BY <2>2 DEF AfterMatch
    <3>2. QED
      BY <1>1, <3>1 DEF EngineInv, EngineTypeOK
  <2>3. QED
    BY <2>1, <2>2
<1>3. /\ call' = NoCall /\ policy' = policy /\ accepted' = accepted /\ fired' = fired
  BY DEF AfterMatch
<1>4. book' \in Book
  BY <1>2 DEF Sound, BookInv
<1>5. EngineTypeOK'
  BY <1>2, <1>3, <1>4, NoCallTyped DEF EngineInv, EngineTypeOK, TypeOK
<1>6. IdsLeft(book')
  BY <1>2 DEF EngineInv, IdsLeft
<1>7. HistoryIssued(book', accepted', fired')
  BY <1>2, <1>3 DEF EngineInv, HistoryIssued
<1>8. CallPriced(call')
  BY <1>3, NoCallTyped DEF CallPriced
<1>9. QED
  BY <1>2, <1>5, <1>6, <1>7, <1>8 DEF EngineInv

LEMMA MatchReturnSafe ==
  ASSUME NEW M \in Nat, EngineInv(M), MatchReturn
  PROVE  EngineInv(M)'
BY AfterMatchSafe DEF MatchReturn, EngineInv, CallPriced

-----------------------------------------------------------------------------
\* The innermost trigger loop moves on to its next entry.
LEMMA NextEntryTyped ==
  ASSUME NEW M \in Nat, EngineInv(M), Iterating, NextEntry
  PROVE  /\ Entry \in Slots /\ EntryOrder \in Order /\ Top.last \in Prices
         /\ stack' \in Seq([last : Prices, queue : Seq(Slots)])
         /\ Len(stack) \in Nat /\ Len(stack) > 0 /\ Len(stack') = Len(stack)
         /\ Top.queue \in Seq(Slots) /\ Top.queue # <<>>
         /\ stack'[Len(stack)].queue = Tail(Top.queue)
         /\ \A i \in 1..Len(stack) : i # Len(stack) => stack'[i] = stack[i]
<1> DEFINE F == [last : Prices, queue : Seq(Slots)]
           n == Len(stack)
<1>1. stack \in Seq(F) /\ stack # <<>> /\ book.order \in [Slots -> Order]
  BY EngineFacts, BookTypes DEF Iterating
<1> HIDE DEF F
<1>2. n \in Nat /\ n > 0 /\ stack \in [1..n -> F] /\ n \in 1..n
  BY <1>1
<1> USE DEF F
<1>3. Top \in F /\ Top = stack[n]
  BY <1>2 DEF Top
<1>4. Top.queue \in Seq(Slots) /\ Top.queue # <<>> /\ Top.last \in Prices
  BY <1>3 DEF Iterating
<1>5. Entry \in Slots /\ Tail(Top.queue) \in Seq(Slots)
  BY <1>4 DEF Entry
<1> DEFINE f == [stack[n] EXCEPT !.queue = Tail(@)]
<1>6. f \in F /\ f.queue = Tail(Top.queue)
  BY <1>3, <1>5
<1>7. stack' = [stack EXCEPT ![n] = f]
  BY DEF NextEntry
<1> HIDE DEF f, F
<1>8. /\ stack' \in [1..n -> F] /\ stack'[n] = f
      /\ \A i \in 1..n : i # n => stack'[i] = stack[i]
  BY <1>2, <1>6, <1>7
<1>9. stack' \in Seq(F) /\ Len(stack') = n
  <2>1. stack' \in Seq(F)
    BY <1>2, <1>8, SeqDef
  <2>2. DOMAIN stack' = 1..n /\ DOMAIN stack' = 1..Len(stack')
    BY <1>8, <2>1
  <2>3. QED
    BY <1>2, <2>1, <2>2
<1>10. QED
  BY <1>1, <1>2, <1>4, <1>5, <1>6, <1>8, <1>9 DEF EntryOrder, F

LEMMA RequeueStopSafe ==
  ASSUME NEW M \in Nat, EngineInv(M), RequeueStop
  PROVE  EngineInv(M)'
<1>1. Entry \in Slots /\ stack' \in Seq([last : Prices, queue : Seq(Slots)])
  BY NextEntryTyped DEF RequeueStop
<1>2. /\ book' = book /\ call' = call /\ policy' = policy /\ pend' = Append(pend, Entry)
      /\ accepted' = accepted /\ fired' = fired /\ lastTrade' = lastTrade
  BY DEF RequeueStop, history
<1>3. pend' \in Seq(Slots)
  BY <1>1, <1>2 DEF EngineInv, EngineTypeOK
<1>4. EngineTypeOK'
  BY <1>1, <1>2, <1>3 DEF EngineInv, EngineTypeOK, TypeOK
<1>5. QED
  BY <1>2, <1>4 DEF EngineInv

LEMMA SkipEntrySafe ==
  ASSUME NEW M \in Nat, EngineInv(M), SkipEntry
  PROVE  EngineInv(M)'
<1>1. stack' \in Seq([last : Prices, queue : Seq(Slots)])
  BY NextEntryTyped DEF SkipEntry
<1>2. /\ book' = book /\ call' = call /\ policy' = policy /\ pend' = pend
      /\ accepted' = accepted /\ fired' = fired /\ lastTrade' = lastTrade
  BY DEF SkipEntry, history
<1>3. EngineTypeOK'
  BY <1>1, <1>2 DEF EngineInv, EngineTypeOK, TypeOK
<1>4. QED
  BY <1>2, <1>3 DEF EngineInv

LEMMA TriggersReturnSafe ==
  ASSUME NEW M \in Nat, EngineInv(M), TriggersReturn
  PROVE  EngineInv(M)'
<1> DEFINE F == [last : Prices, queue : Seq(Slots)]
<1>1. stack \in Seq(F) /\ stack' = SubSeq(stack, 1, Len(stack) - 1)
  BY EngineFacts DEF TriggersReturn
<1> HIDE DEF F
<1>2. stack' \in Seq(F)
  BY <1>1
<1> USE DEF F
<1>3. /\ book' = book /\ call' = call /\ policy' = policy /\ pend' = pend
      /\ accepted' = accepted /\ fired' = fired /\ lastTrade' = lastTrade
  BY DEF TriggersReturn, history
<1>4. EngineTypeOK'
  BY <1>2, <1>3 DEF EngineInv, EngineTypeOK, TypeOK
<1>5. QED
  BY <1>3, <1>4 DEF EngineInv

-----------------------------------------------------------------------------
\* A stop fires: the entry is the stop itself, and it leaves the book.
LEMMA FiringReleases ==
  ASSUME NEW M \in Nat, EngineInv(M), Iterating, NextEntry, NEW stype, stype # NoStop,
         Fires(stype), NEW c,
         c = FreeOrder(DetachPending(book, EntryOrder.id), EntryDetached)
  PROVE  /\ Entry \in Stops(book) /\ EntryDetached = Entry
         /\ EntryOrder.id \in Ids /\ EntryOrder.id < book.nextId
         /\ FindId(book, EntryOrder.id) = Entry
         /\ Sound(c, M) /\ Kept(book, c, {Entry})
         /\ Stops(c) = Stops(book) \ {Entry} /\ Live(c) = Live(book) \ {Entry}
         /\ c.nextId = book.nextId /\ c.order = book.order /\ c.free # <<>>
         /\ Cardinality(Stops(c)) = Cardinality(Stops(book)) - 1
<1>1. Entry \in Slots /\ Sound(book, M) /\ book \in Book /\ book.nextId \in Nat
  BY EngineFacts, NextEntryTyped DEF EngineInv
<1>2. EntryOrder = book.order[Entry] /\ EntryOrder.stype # NoStop /\ EntryDetached # Null
  BY DEF Fires, EntryOrder
<1>3. EntryOrder.id \in Ids /\ FindId(book, EntryOrder.id) = Entry /\ Entry \in Stops(book)
  BY <1>1, <1>2, EntryIsStop DEF EntryDetached
<1>4. Sound(c, M) /\ EntryDetached = Entry /\ StopGone(book, c, Entry)
  BY <1>1, <1>3, SoundRelease DEF EntryDetached
<1>5. EntryOrder.id < book.nextId
  BY <1>1, <1>2 DEF Sound, IdsIssued
<1>6. Cardinality(Stops(c)) = Cardinality(Stops(book)) - 1
  BY <1>3, <1>4, StopsCount, FS_RemoveElement DEF StopGone
<1>7. QED
  BY <1>3, <1>4, <1>5, <1>6 DEF StopGone

\* The ids that fired, with one more.
LEMMA FiredIssued ==
  ASSUME NEW M \in Nat, EngineInv(M), NEW c, c.nextId \in Nat, book.nextId <= c.nextId,
         NEW id \in Ids, id < book.nextId
  PROVE  Append(fired, id) \in Seq(Ids) /\ HistoryIssued(c, accepted, Append(fired, id))
<1>1. /\ fired \in Seq(Ids) /\ accepted \subseteq Ids /\ book.nextId \in Nat
      /\ HistoryIssued(book, accepted, fired)
  BY EngineFacts DEF EngineInv, EngineTypeOK
<1>1a. id \in Nat
  BY MaxIdAssumption DEF Ids
<1>2. HistoryIssued(c, accepted, fired)
  BY <1>1, HistoryKept
<1> DEFINE f == Append(fired, id)
<1>3. /\ f \in Seq(Ids) /\ Len(f) = Len(fired) + 1 /\ f[Len(fired) + 1] = id
      /\ Len(fired) \in Nat /\ \A i \in 1..Len(fired) : f[i] = fired[i]
  BY <1>1
<1> HIDE DEF f
<1>4. \A i \in 1..Len(f) : f[i] < c.nextId
  BY <1>1, <1>1a, <1>2, <1>3 DEF HistoryIssued
<1>5. QED
  BY <1>2, <1>3, <1>4 DEF HistoryIssued, f

LEMMA FireStopMarketSafe ==
  ASSUME NEW M \in Nat, EngineInv(M), FireStopMarket
  PROVE  /\ EngineInv(M)' /\ Kept(book, book', {Entry}) /\ Entry \in Stops(book)
         /\ fired' = Append(fired, book.order[Entry].id) /\ EntryDetached = Entry
<1>1. Iterating /\ NextEntry /\ Fires(StopMarket) /\ StopMarket # NoStop
  BY DEF FireStopMarket, StopMarket, NoStop
<1>2. /\ book' = FreeOrder(DetachPending(book, EntryOrder.id), EntryDetached)
      /\ policy' = policy /\ pend' = pend /\ accepted' = accepted /\ lastTrade' = lastTrade
      /\ fired' = Append(fired, EntryOrder.id)
      /\ call' = [NoCall EXCEPT !.active = TRUE, !.side = EntryOrder.side,
                                !.left = book.order[EntryDetached].qty]
  BY DEF FireStopMarket
<1>3. /\ Entry \in Stops(book) /\ EntryDetached = Entry
      /\ EntryOrder.id \in Ids /\ EntryOrder.id < book.nextId
      /\ Sound(book', M) /\ Kept(book, book', {Entry})
      /\ book'.nextId = book.nextId
      /\ Cardinality(Stops(book')) = Cardinality(Stops(book)) - 1
  BY <1>1, <1>2, FiringReleases
<1>4. /\ EntryOrder \in Order /\ EntryOrder = book.order[Entry]
      /\ stack' \in Seq([last : Prices, queue : Seq(Slots)])
  BY <1>1, NextEntryTyped DEF EntryOrder
<1>5. book' \in Book /\ book.nextId \in Nat /\ Cardinality(Stops(book)) \in Nat
  BY <1>3, EngineFacts DEF Sound, BookInv
<1>6. call' \in MarketCall /\ ~call'.traded
  BY <1>2, <1>3, <1>4, NoCallTyped DEF MarketCall, NoCall, Order
<1>7. fired' \in Seq(Ids) /\ HistoryIssued(book', accepted', fired')
  BY <1>2, <1>3, <1>5, FiredIssued
<1>8. EngineTypeOK'
  BY <1>2, <1>4, <1>5, <1>6, <1>7 DEF EngineInv, EngineTypeOK, TypeOK
<1>9. IdsLeft(book')
  BY <1>3, <1>5, MaxIdAssumption DEF EngineInv, IdsLeft
<1>10. QED
  BY <1>2, <1>3, <1>4, <1>6, <1>7, <1>8, <1>9 DEF EngineInv, CallPriced

\* The book between the two halves of firing a stop-limit.
Released == FreeOrder(DetachPending(book, EntryOrder.id), EntryDetached)

LEMMA FiredOrder ==
  ASSUME NEW M \in Nat, EngineInv(M), Iterating, NextEntry, Fires(StopLimit), Entry \in Stops(book)
  PROVE  LET d == book.order[Entry] IN
         /\ d.side \in Sides /\ d.qty \in Qty /\ d.disp \in Qty /\ d.qty <= M /\ d.price \in Prices
         /\ book.nextId <= MaxId
<1> DEFINE d == book.order[Entry]
<1>1. EntryOrder = d /\ d \in Order /\ Entry \in Slots
  BY NextEntryTyped DEF EntryOrder
<1>2. /\ book.nextId \in Nat /\ Cardinality(Stops(book)) \in Nat /\ BookInv(book)
      /\ Bounded(book, M)
  BY EngineFacts
<1>3. d.stype = StopLimit /\ StopLimit # StopMarket
  BY <1>1 DEF Fires, StopLimit, StopMarket
<1>4. d.id # 0
  BY <1>2, FindLive DEF Stops
<1>5. WellFormed(d, M)
  BY <1>1, <1>2 DEF Bounded
<1>6. Cardinality(Stops(book)) # 0
  BY StopsCount, FS_EmptySet
<1>7. book.nextId <= MaxId
  BY <1>2, <1>6, MaxIdAssumption DEF EngineInv, IdsLeft
<1>8. QED
  BY <1>1, <1>3, <1>4, <1>5, <1>7 DEF WellFormed, Order

LEMMA FireStopLimitSafe ==
  ASSUME NEW M \in Nat, Fits(M), EngineInv(M), FireStopLimit
  PROVE  /\ EngineInv(M)' /\ Kept(book, book', {Entry}) /\ Entry \in Stops(book)
         /\ fired' = Append(fired, book.order[Entry].id) /\ EntryDetached = Entry
<1> DEFINE d == book.order[Entry]
<1>1. Iterating /\ NextEntry /\ Fires(StopLimit) /\ StopLimit # NoStop
  BY DEF FireStopLimit, StopLimit, NoStop
<1>2. /\ policy' = policy /\ pend' = pend /\ accepted' = accepted /\ lastTrade' = lastTrade
      /\ fired' = Append(fired, EntryOrder.id) /\ call' = call
  BY DEF FireStopLimit
<1>3. /\ Entry \in Stops(book) /\ EntryDetached = Entry
      /\ EntryOrder.id \in Ids /\ EntryOrder.id < book.nextId
      /\ Sound(Released, M) /\ Kept(book, Released, {Entry})
      /\ Released.nextId = book.nextId
      /\ Cardinality(Stops(Released)) = Cardinality(Stops(book)) - 1
  BY <1>1, FiringReleases DEF Released
<1>4. /\ EntryOrder = d /\ d \in Order /\ Entry \in Slots
      /\ stack' \in Seq([last : Prices, queue : Seq(Slots)])
  BY <1>1, NextEntryTyped DEF EntryOrder
<1>5. /\ book.nextId \in Nat /\ Cardinality(Stops(book)) \in Nat /\ BookInv(book)
      /\ Bounded(book, M) /\ Cardinality(Stops(Released)) \in Nat
  BY <1>3, EngineFacts, StopsCount
<1>6. book' = SubmitLimit(Released, d.side, d.price, d.qty, d.disp)
  BY <1>3, <1>4 DEF FireStopLimit, Released
<1>7. /\ d.side \in Sides /\ d.qty \in Qty /\ d.disp \in Qty /\ d.qty <= M /\ d.price \in Prices
      /\ Released.nextId <= MaxId
  BY <1>1, <1>3, FiredOrder
<1> HIDE DEF d
<1>9. /\ Sound(book', M) /\ Kept(Released, book', {}) /\ Stops(book') = Stops(Released)
      /\ Released.nextId <= book'.nextId /\ book'.nextId <= Released.nextId + 1
  BY <1>3, <1>6, <1>7, SoundSubmit
<1>10. Kept(book, book', {Entry})
  BY <1>3, <1>5, <1>9, KeptChain DEF Sound
<1>11. book' \in Book /\ book'.nextId \in Nat
  BY <1>9, BookTypes DEF Sound, BookInv
<1>12. fired' \in Seq(Ids) /\ HistoryIssued(book', accepted', fired')
  BY <1>2, <1>3, <1>5, <1>9, <1>11, FiredIssued
<1>13. EngineTypeOK'
  BY <1>2, <1>4, <1>11, <1>12 DEF EngineInv, EngineTypeOK, TypeOK
<1>14. IdsLeft(book')
  BY <1>3, <1>5, <1>9, <1>11, MaxIdAssumption DEF EngineInv, IdsLeft
<1>15. QED
  BY <1>2, <1>3, <1>4, <1>9, <1>10, <1>12, <1>13, <1>14 DEF EngineInv, d

-----------------------------------------------------------------------------
LEMMA EngineInitInv ==
  ASSUME NEW M \in Nat, EngineInit
  PROVE  EngineInv(M)
<1>1. Inv /\ Bounded(book, M) /\ DepthInv(book)
  BY InitInv, InitBounded DEF EngineInit
<1>2. BookInv(book) /\ TypeOK
  BY <1>1 DEF Inv
<1>3. /\ book.order = [s \in Slots |-> BlankOrder] /\ book.nextId = 1
      /\ book.ids = [i \in Ids |-> Null] /\ call = NoCall
  BY DEF EngineInit, Init, NewBook
<1>4. BlankOrder.id = 0
  BY DEF BlankOrder
<1>5. IdsIssued(book)
  BY <1>3, <1>4 DEF IdsIssued
<1>6. Stops(book) = {}
  <2>1. Stops(book) \subseteq Slots /\ \A s \in Slots : book.order[s].stype = NoStop
    BY <1>3 DEF Stops, Live, BlankOrder
  <2>2. QED
    BY <2>1 DEF Stops
<1>7. IdsLeft(book)
  BY <1>3, <1>6, FS_EmptySet, MaxIdAssumption DEF IdsLeft
<1>8. EngineTypeOK
  BY <1>2 DEF EngineInit, EngineTypeOK
<1>9. CallPriced(call) /\ HistoryIssued(book, accepted, fired)
  BY <1>3, NoCallTyped DEF CallPriced, HistoryIssued, EngineInit
<1>10. QED
  BY <1>1, <1>2, <1>5, <1>7, <1>8, <1>9 DEF EngineInv, Sound

LEMMA EngineNextInv ==
  ASSUME TouchStops = FALSE, Policies \subseteq {FIFO},
         NEW M \in Nat, SizesUpTo(M), Fits(M), EngineInv(M), [EngineNext]_engineVars
  PROVE  EngineInv(M)'
<1>1. ASSUME NEW side \in QuoteSides, NEW price \in Prices, NEW qty \in Qtys,
             NEW display \in Displays \cup {0}, ClientLimit(side, price, qty, display)
      PROVE  EngineInv(M)'
  BY <1>1, ClientLimitSafe
<1>2. ASSUME NEW id \in Ids, ClientCancel(id) PROVE EngineInv(M)'
  BY <1>2, ClientCancelSafe
<1>3. ASSUME NEW side \in StopSides, NEW stop \in StopPrices, NEW qty \in StopQtys,
             SubmitStop(side, stop, qty, StopMarket, NoPrice, 0)
      PROVE  EngineInv(M)'
  BY <1>3, SubmitStopSafe DEF StopTypes, StopMarket, NoStop
<1>4. ASSUME NEW side \in StopSides, NEW stop \in StopPrices, NEW qty \in StopQtys,
             NEW price \in Prices, NEW display \in Displays \cup {0},
             SubmitStop(side, stop, qty, StopLimit, price, display)
      PROVE  EngineInv(M)'
  BY <1>4, SubmitStopSafe DEF StopTypes, StopLimit, StopMarket, NoStop
<1>5. ASSUME NEW side \in Sides, NEW qty \in TakeQtys, SubmitMarket(side, qty)
      PROVE  EngineInv(M)'
  BY <1>5, SubmitMarketSafe
<1>6. ~MatchProRata
  BY DEF MatchProRata, EngineInv, EngineTypeOK
<1>7. CASE EngineStep
  BY <1>6, <1>7, MatchSafe, MatchReturnSafe, RequeueStopSafe, SkipEntrySafe,
     FireStopMarketSafe, FireStopLimitSafe, TriggersReturnSafe DEF EngineStep
<1>8. CASE UNCHANGED engineVars
  <2>1. /\ book' = book /\ call' = call /\ policy' = policy /\ pend' = pend /\ stack' = stack
        /\ accepted' = accepted /\ fired' = fired /\ lastTrade' = lastTrade
    BY <1>8 DEF engineVars
  <2>2. QED
    BY <2>1 DEF EngineInv, EngineTypeOK, TypeOK
<1>9. QED
  BY <1>1, <1>2, <1>3, <1>4, <1>5, <1>7, <1>8 DEF EngineNext

\* lob::MatchingEngine never corrupts the book although its trigger queues keep
\* pointers to orders that were freed, and whose slots other orders may have
\* taken: in every reachable state of the FIFO engine the pointers are slots of
\* the slab, and the pool, the lists, the ladders and the aggregates are sound.
THEOREM StalePointersDoNoHarm ==
  ASSUME TouchStops = FALSE, Policies \subseteq {FIFO}, NEW M \in Nat, SizesUpTo(M), Fits(M)
  PROVE  EngineSafetySpec => []StalePointersHarmless
<1>1. EngineInit => EngineInv(M)
  BY EngineInitInv
<1>2. EngineInv(M) /\ [EngineNext]_engineVars => EngineInv(M)'
  BY EngineNextInv
<1>3. EngineInv(M) => StalePointersHarmless
  <2> SUFFICES ASSUME EngineInv(M) PROVE StalePointersHarmless
    OBVIOUS
  <2>1. BookInv(book) /\ DepthInv(book) /\ EngineTypeOK
    BY DEF EngineInv, Sound
  <2>2. \A k \in Keys : Resting(book, k) \in SUBSET Slots
    BY DEF Resting, Live
  <2>3. DepthExact
    BY <2>1, <2>2, SumRemIs DEF DepthExact, DepthInv
  <2>4. QED
    BY <2>1, <2>3 DEF StalePointersHarmless, BookInv
<1>4. QED
  BY <1>1, <1>2, <1>3, PTL DEF EngineSafetySpec

-----------------------------------------------------------------------------
(***************************************************************************)
(* No stop is lost and none fires twice.                                   *)
(***************************************************************************)

\* What an operation of the book does to the order with an issued id.
LEMMA FoundAfter ==
  ASSUME NEW b, NEW c, NEW O, BookInv(b), BookInv(c), KeptOrders(b, c, O),
         NEW id \in Ids, id # 0, id < b.nextId
  PROVE  /\ FindId(b, id) = Null \/ FindId(b, id) \in O => FindId(c, id) = Null
         /\ FindId(b, id) \in Stops(b) \ O =>
              FindId(c, id) = FindId(b, id) /\ FindId(c, id) \in Stops(c)
<1>1. id \in Nat /\ b.nextId \in Nat
  BY BookTypes, MaxIdAssumption DEF BookInv, Ids
<1>2. ASSUME FindId(b, id) = Null \/ FindId(b, id) \in O, FindId(c, id) # Null PROVE FALSE
  <2> DEFINE s == FindId(c, id)
  <2>1. s \in Live(c) /\ c.order[s].id = id
    BY <1>2, FindLive
  <2>2. s \in Live(b) \ O /\ b.order[s].id = id
    BY <1>1, <2>1 DEF KeptOrders
  <2>3. FindId(b, id) = s /\ s # Null
    BY <2>2, FindLive
  <2>4. QED
    BY <1>2, <2>2, <2>3
<1>3. ASSUME FindId(b, id) \in Stops(b) \ O
      PROVE  FindId(c, id) = FindId(b, id) /\ FindId(c, id) \in Stops(c)
  <2> DEFINE s == FindId(b, id)
  <2>1. s \in Live(b) /\ s \in Slots /\ s # Null
    BY <1>3, SlotFacts DEF Stops, Live
  <2>2. b.order[s].id = id
    BY <2>1, FindLive
  <2>3. s \in Stops(c) /\ c.order[s].id = id
    BY <1>3, <2>2 DEF KeptOrders
  <2>4. FindId(c, id) = s
    BY <2>3, FindLive DEF Stops
  <2>5. QED
    BY <2>3, <2>4
<1>4. QED
  BY <1>2, <1>3

\* The firings of an id when the stop with id x fires.
Count(f, id) == Cardinality({i \in 1..Len(f) : f[i] = id})

LEMMA FiringsAppend ==
  ASSUME NEW f \in Seq(Ids), NEW x \in Ids, NEW id
  PROVE  /\ x = id => Count(Append(f, x), id) = Count(f, id) + 1
         /\ x # id => Count(Append(f, x), id) = Count(f, id)
<1> DEFINE g == Append(f, x)
           F == {i \in 1..Len(f) : f[i] = id}
           G == {i \in 1..Len(g) : g[i] = id}
           n == Len(f) + 1
<1>1. /\ Len(f) \in Nat /\ Len(g) = n /\ g[n] = x /\ \A i \in 1..Len(f) : g[i] = f[i]
  OBVIOUS
<1>2. IsFiniteSet(F) /\ Cardinality(F) \in Nat /\ n \notin F
  <2>1. IsFiniteSet(1..Len(f)) /\ F \subseteq 1..Len(f) /\ n \notin 1..Len(f)
    BY <1>1, FS_Interval
  <2> HIDE DEF F, n
  <2>2. QED
    BY <2>1, FS_Subset, FS_CardinalityType
<1>3. x = id => G = F \cup {n}
  BY <1>1
<1>4. x # id => G = F
  BY <1>1
<1> HIDE DEF F, G
<1>5. x = id => Cardinality(G) = Cardinality(F) + 1
  BY <1>2, <1>3, FS_AddElement
<1>6. QED
  BY <1>4, <1>5 DEF F, G, Count

Accounted(id) ==
  IF FindId(book, id) = Null THEN Firings(id) = 1
  ELSE Firings(id) = 0 /\ FindId(book, id) \in Stops(book) /\ Registered(FindId(book, id))

\* A step that keeps the accepted stops registered, but for the stops in the
\* slots of O, which leave the book and fire.
LEMMA AccountedStep ==
  ASSUME NEW M \in Nat, EngineInv(M), StopsAccounted, NEW O, BookInv(book'),
         KeptOrders(book, book', O),
         \A s \in Stops(book) \ O : Registered(s) => Registered(s)',
         \A id \in accepted :
           /\ FindId(book, id) \in O => Firings(id)' = Firings(id) + 1
           /\ FindId(book, id) \notin O => Firings(id)' = Firings(id),
         Null \notin O
  PROVE  \A id \in accepted : Accounted(id)'
<1> SUFFICES ASSUME NEW id \in accepted
             PROVE  IF FindId(book', id) = Null THEN Firings(id)' = 1
                    ELSE /\ Firings(id)' = 0
                         /\ FindId(book', id) \in Stops(book')
                         /\ Registered(FindId(book, id))'
  BY DEF Accounted
<1>1. id \in Ids /\ id # 0 /\ id < book.nextId /\ BookInv(book)
  BY DEF EngineInv, EngineTypeOK, HistoryIssued, Sound
<1>2. /\ FindId(book, id) = Null \/ FindId(book, id) \in O => FindId(book', id) = Null
      /\ FindId(book, id) \in Stops(book) \ O =>
           FindId(book', id) = FindId(book, id) /\ FindId(book', id) \in Stops(book')
  BY <1>1, FoundAfter
<1>3. IF FindId(book, id) = Null THEN Firings(id) = 1
      ELSE /\ Firings(id) = 0 /\ FindId(book, id) \in Stops(book) /\ Registered(FindId(book, id))
  BY DEF StopsAccounted
<1>4. CASE FindId(book, id) = Null
  BY <1>2, <1>3, <1>4
<1>5. CASE FindId(book, id) # Null /\ FindId(book, id) \in O
  BY <1>2, <1>3, <1>5
<1>6. CASE FindId(book, id) # Null /\ FindId(book, id) \notin O
  <2> PICK s : s = FindId(book, id)
    OBVIOUS
  <2>1. s \in Stops(book) \ O /\ Registered(s) /\ Firings(id)' = 0
    BY <1>3, <1>6
  <2>2. Registered(s)' /\ FindId(book', id) = s /\ s \in Stops(book')
    BY <1>2, <2>1
  <2>3. s # Null
    BY <1>6
  <2>4. Registered(FindId(book, id))'
    BY <2>2 DEF Registered
  <2>5. QED
    BY <2>1, <2>2, <2>3, <2>4
<1>7. QED
  BY <1>4, <1>5, <1>6

\* A step that fires no stop and leaves the queues alone.
LEMMA AccountedKept ==
  ASSUME NEW M \in Nat, EngineInv(M), EngineInv(M)', StopsAccounted, Kept(book, book', {}),
         pend' = pend, stack' = stack, accepted' = accepted, fired' = fired
  PROVE  StopsAccounted'
<1>1. BookInv(book') /\ KeptOrders(book, book', {})
  BY DEF EngineInv, Sound, Kept
<1>2. \A s \in Stops(book) \ {} : Registered(s) => Registered(s)'
  BY DEF Registered, Kept
<1>3. \A id \in accepted : Firings(id)' = Firings(id)
  BY DEF Firings
<1>4. \A id \in accepted : Accounted(id)'
  BY <1>1, <1>2, <1>3, AccountedStep
<1>5. QED
  BY <1>4 DEF StopsAccounted, Accounted

LEMMA AppendHolds ==
  ASSUME NEW S, NEW q \in Seq(S), NEW x \in S
  PROVE  InSeq(x, Append(q, x)) /\ \A y : InSeq(y, q) => InSeq(y, Append(q, x))
<1> DEFINE r == Append(q, x)
<1>1. /\ Len(q) \in Nat /\ Len(r) = Len(q) + 1 /\ r[Len(q) + 1] = x
      /\ \A i \in 1..Len(q) : r[i] = q[i]
  OBVIOUS
<1> HIDE DEF r
<1>2. QED
  BY <1>1 DEF InSeq, r

LEMMA ConcatHolds ==
  ASSUME NEW S, NEW p \in Seq(S), NEW q \in Seq(S), NEW y, InSeq(y, p) \/ InSeq(y, q)
  PROVE  InSeq(y, p \o q)
<1> DEFINE r == p \o q
<1>1. /\ Len(p) \in Nat /\ Len(q) \in Nat /\ Len(r) = Len(p) + Len(q)
      /\ \A i \in 1..Len(p) : r[i] = p[i]
      /\ \A i \in 1..Len(q) : r[Len(p) + i] = q[i]
  BY ConcatProperties
<1> HIDE DEF r
<1>2. CASE InSeq(y, p)
  BY <1>1, <1>2 DEF InSeq, r
<1>3. CASE InSeq(y, q)
  <2>1. PICK i \in 1..Len(q) : q[i] = y
    BY <1>3 DEF InSeq
  <2>2. Len(p) + i \in 1..Len(r) /\ r[Len(p) + i] = y
    BY <1>1, <2>1
  <2>3. QED
    BY <2>2 DEF InSeq, r
<1>4. QED
  BY <1>2, <1>3

LEMMA TailHolds ==
  ASSUME NEW S, NEW q \in Seq(S), q # <<>>, NEW y, y # Head(q), InSeq(y, q)
  PROVE  InSeq(y, Tail(q))
<1>1. PICK i \in 1..Len(q) : q[i] = y
  BY DEF InSeq
<1>2. i # 1 /\ Len(q) \in Nat /\ Head(q) = q[1]
  BY <1>1
<1>3. i - 1 \in 1..Len(Tail(q)) /\ Tail(q)[i - 1] = y
  BY <1>1, <1>2
<1>4. QED
  BY <1>3 DEF InSeq

LEMMA AccountedSubmit ==
  ASSUME NEW M \in Nat, EngineInv(M), EngineInv(M)', StopsAccounted, Kept(book, book', {}),
         stack' = stack, fired' = fired,
         accepted' = accepted \cup {book.nextId}, pend' = Append(pend, FindId(book', book.nextId)),
         FindId(book', book.nextId) \in Stops(book')
  PROVE  StopsAccounted'
<1> PICK n : n = book.nextId
  OBVIOUS
<1>1. BookInv(book') /\ KeptOrders(book, book', {}) /\ pend \in Seq(Slots) /\ n \in Nat
  BY EngineFacts DEF EngineInv, Sound, Kept
<1>2. PICK o \in Slots : o = FindId(book', n)
  BY DEF Stops, Live
<1>3. InSeq(o, pend') /\ \A s : InSeq(s, pend) => InSeq(s, pend')
  BY <1>1, <1>2, AppendHolds
<1>4. \A s \in Stops(book) \ {} : Registered(s) => Registered(s)'
  BY <1>3 DEF Registered, Kept
<1>5. \A id \in accepted : Firings(id)' = Firings(id)
  BY DEF Firings
<1>6. \A id \in accepted : Accounted(id)'
  BY <1>1, <1>4, <1>5, AccountedStep
<1>7. Firings(n)' = 0
  <2>1. fired \in Seq(Ids) /\ \A i \in 1..Len(fired) : fired[i] < n
    BY DEF EngineInv, EngineTypeOK, HistoryIssued
  <2>2. \A i \in 1..Len(fired) : fired[i] # n
    BY <1>1, <2>1, MaxIdAssumption DEF Ids
  <2>3. {i \in 1..Len(fired) : fired[i] = n} = {}
    BY <2>2
  <2>4. QED
    BY <2>3, FS_EmptySet DEF Firings
<1>8. o # Null
  BY SlotFacts
<1>9. Accounted(n)'
  BY <1>2, <1>3, <1>7, <1>8 DEF Accounted, Registered
<1>10. QED
  BY <1>6, <1>9 DEF StopsAccounted, Accounted

\* The end of a match that left book b: the two registrations of the pending
\* stops, the engine's and the book's, go to the queue of a new trigger loop.
LEMMA AccountedAfterMatch ==
  ASSUME NEW M \in Nat, EngineInv(M), EngineInv(M)', StopsAccounted,
         NEW b, Sound(b, M), Kept(book, b, {}),
         NEW traded, NEW last, AfterMatch(b, traded, last)
  PROVE  StopsAccounted'
<1>1. /\ BookInv(book') /\ pend \in Seq(Slots) /\ b.pending \in Seq(Slots)
      /\ stack \in Seq([last : Prices, queue : Seq(Slots)])
  BY EngineFacts, BookTypes DEF EngineInv, Sound, BookInv
<1>2. accepted' = accepted /\ fired' = fired
  BY DEF AfterMatch
<1>3. CASE traded
  <2> DEFINE q == pend \o b.pending
             f == [last |-> last, queue |-> q]
  <2>1. stack' = Append(stack, f) /\ book' = TakePendingStops(b)
    BY <1>3 DEF AfterMatch
  <2>2. /\ Stops(book') = Stops(b) /\ Live(book') = Live(b) /\ book'.nextId = b.nextId
        /\ book'.order = b.order
    BY <2>1, SoundTake
  <2>3. KeptOrders(book, book', {})
    BY <2>2 DEF Kept, KeptOrders
  <2>4. \A s : InSeq(s, pend) \/ InSeq(s, b.pending) => InSeq(s, q)
    BY <1>1, ConcatHolds
  <2>5. f.queue = q
    OBVIOUS
  <2> HIDE DEF q, f
  <2>6. /\ Len(stack) \in Nat /\ Len(stack') = Len(stack) + 1 /\ stack'[Len(stack) + 1] = f
        /\ \A i \in 1..Len(stack) : stack'[i] = stack[i]
    BY <1>1, <2>1
  <2>7. \A s \in Stops(book) \ {} : Registered(s) => Registered(s)'
    <3> SUFFICES ASSUME NEW s \in Stops(book), Registered(s) PROVE Registered(s)'
      OBVIOUS
    <3>1. CASE InSeq(s, pend) \/ InSeq(s, book.pending)
      <4>1. InSeq(s, q)
        BY <2>4, <3>1 DEF Kept
      <4>2. InSeq(s, stack'[Len(stack) + 1].queue) /\ Len(stack) + 1 \in 1..Len(stack')
        BY <2>5, <2>6, <4>1
      <4>3. QED
        BY <4>2 DEF Registered
    <3>2. CASE \E i \in 1..Len(stack) : InSeq(s, stack[i].queue)
      <4>1. \E i \in 1..Len(stack') : InSeq(s, stack'[i].queue)
        BY <2>6, <3>2
      <4>2. QED
        BY <4>1 DEF Registered
    <3>3. QED
      BY <3>1, <3>2 DEF Registered
  <2>8. \A id \in accepted : Firings(id)' = Firings(id)
    BY <1>2 DEF Firings
  <2>9. \A id \in accepted : Accounted(id)'
    BY <1>1, <2>3, <2>7, <2>8, AccountedStep
  <2>10. QED
    BY <1>2, <2>9 DEF StopsAccounted, Accounted
<1>4. CASE ~traded
  <2>1. book' = b /\ stack' = stack /\ pend' = pend
    BY <1>4 DEF AfterMatch
  <2>2. QED
    BY <1>2, <2>1, AccountedKept
<1>5. QED
  BY <1>3, <1>4

\* The other entries of the trigger loops stay.
LEMMA NextEntryHolds ==
  ASSUME NEW M \in Nat, EngineInv(M), Iterating, NextEntry, NEW s, s # Entry,
         \E i \in 1..Len(stack) : InSeq(s, stack[i].queue)
  PROVE  \E i \in 1..Len(stack') : InSeq(s, stack'[i].queue)
<1>1. /\ Len(stack) \in Nat /\ Len(stack) > 0 /\ Len(stack') = Len(stack)
      /\ Top.queue \in Seq(Slots) /\ Top.queue # <<>>
      /\ stack'[Len(stack)].queue = Tail(Top.queue)
      /\ \A i \in 1..Len(stack) : i # Len(stack) => stack'[i] = stack[i]
  BY NextEntryTyped
<1>2. PICK i \in 1..Len(stack) : InSeq(s, stack[i].queue)
  OBVIOUS
<1>3. CASE i # Len(stack)
  BY <1>1, <1>2, <1>3
<1>4. CASE i = Len(stack)
  <2>1. InSeq(s, Top.queue)
    BY <1>2, <1>4 DEF Top
  <2>2. InSeq(s, Tail(Top.queue))
    BY <1>1, <2>1, TailHolds DEF Entry
  <2>3. QED
    BY <1>1, <1>2, <1>4, <2>2
<1>5. QED
  BY <1>3, <1>4

\* A step that leaves the book alone and every stop of it registered.
LEMMA AccountedSame ==
  ASSUME NEW M \in Nat, EngineInv(M), StopsAccounted,
         book' = book, accepted' = accepted, fired' = fired,
         \A s \in Stops(book) : Registered(s) => Registered(s)'
  PROVE  StopsAccounted'
<1>1. BookInv(book) /\ book.nextId \in Nat
  BY EngineFacts
<1>2. KeptOrders(book, book', {}) /\ BookInv(book')
  BY <1>1 DEF KeptOrders
<1>3. \A id \in accepted : Firings(id)' = Firings(id)
  BY DEF Firings
<1>4. \A id \in accepted : Accounted(id)'
  BY <1>2, <1>3, AccountedStep
<1>5. QED
  BY <1>4 DEF StopsAccounted, Accounted

LEMMA AccountedRequeue ==
  ASSUME NEW M \in Nat, EngineInv(M), StopsAccounted, RequeueStop
  PROVE  StopsAccounted'
<1>1. /\ book' = book /\ pend' = Append(pend, Entry) /\ accepted' = accepted /\ fired' = fired
      /\ Iterating /\ NextEntry
  BY DEF RequeueStop, history
<1>2. Entry \in Slots /\ pend \in Seq(Slots)
  BY <1>1, NextEntryTyped, EngineFacts
<1>3. InSeq(Entry, pend') /\ \A s : InSeq(s, pend) => InSeq(s, pend')
  BY <1>1, <1>2, AppendHolds
<1>4. ASSUME NEW s, Registered(s) PROVE Registered(s)'
  <2>1. CASE s = Entry
    BY <1>3, <2>1 DEF Registered
  <2>2. CASE s # Entry
    BY <1>1, <1>3, <1>4, <2>2, NextEntryHolds DEF Registered
  <2>3. QED
    BY <2>1, <2>2
<1>5. QED
  BY <1>1, <1>4, AccountedSame

\* The entry of a live stop is never skipped.
LEMMA AccountedSkip ==
  ASSUME NEW M \in Nat, EngineInv(M), StopsAccounted, SkipEntry
  PROVE  StopsAccounted'
<1>1. /\ book' = book /\ pend' = pend /\ accepted' = accepted /\ fired' = fired
      /\ Iterating /\ NextEntry
  BY DEF SkipEntry, history
<1>2. BookInv(book)
  BY EngineFacts
<1>3. Entry \notin Stops(book)
  <2> SUFFICES ASSUME Entry \in Stops(book) PROVE FALSE
    OBVIOUS
  <2> DEFINE id == EntryOrder.id
  <2>1. EntryOrder.stype # NoStop /\ Entry \in Live(book)
    BY DEF Stops, EntryOrder
  <2>2. id \in Ids /\ FindId(book, id) = Entry /\ Entry # Null
    BY <1>2, <2>1, FindLive DEF EntryOrder
  <2>3. EntryDetached = Null
    BY <2>1 DEF SkipEntry
  <2>4. Detached(book, id) = FindId(book, id)
    BY <1>2, <2>2, ReleaseInv
  <2>5. QED
    BY <2>2, <2>3, <2>4 DEF EntryDetached
<1>4. ASSUME NEW s \in Stops(book), Registered(s) PROVE Registered(s)'
  BY <1>1, <1>3, <1>4, NextEntryHolds DEF Registered
<1>5. QED
  BY <1>1, <1>4, AccountedSame

LEMMA AccountedReturn ==
  ASSUME NEW M \in Nat, EngineInv(M), StopsAccounted, TriggersReturn
  PROVE  StopsAccounted'
<1> DEFINE n == Len(stack)
           F == [last : Prices, queue : Seq(Slots)]
<1>1. /\ book' = book /\ pend' = pend /\ accepted' = accepted /\ fired' = fired
      /\ stack # <<>> /\ stack[n].queue = <<>> /\ stack' = SubSeq(stack, 1, n - 1)
  BY DEF TriggersReturn, history, Top
<1>2. stack \in Seq(F)
  BY EngineFacts
<1> HIDE DEF F
<1>3. /\ n \in Nat /\ n > 0 /\ Len(stack') = n - 1
      /\ \A i \in 1..(n - 1) : stack'[i] = stack[i]
  <2>1. n \in Nat /\ n > 0
    BY <1>1, <1>2
  <2> DEFINE m == n - 1
  <2>2. m \in Nat /\ \A i \in 1..m : stack[i] \in F
    BY <1>2, <2>1, ElementOfSeq
  <2> HIDE DEF m, n
  <2>3. /\ Len(SubSeq(stack, 1, m)) = IF 1 <= m THEN m - 1 + 1 ELSE 0
        /\ \A i \in 1..(m - 1 + 1) : SubSeq(stack, 1, m)[i] = stack[1 + i - 1]
    BY <2>2, SubSeqProperties
  <2>3a. Len(SubSeq(stack, 1, m)) = m /\ \A i \in 1..m : SubSeq(stack, 1, m)[i] = stack[i]
    BY <2>2, <2>3
  <2>4. QED
    BY <1>1, <2>1, <2>3a DEF m
<1>4. \A s : ~InSeq(s, <<>>)
  BY DEF InSeq
<1>5. ASSUME NEW s, \E i \in 1..n : InSeq(s, stack[i].queue)
      PROVE  \E i \in 1..Len(stack') : InSeq(s, stack'[i].queue)
  <2>1. PICK i \in 1..n : InSeq(s, stack[i].queue)
    BY <1>5
  <2>2. i # n
    BY <1>1, <1>4, <2>1
  <2>3. QED
    BY <1>3, <2>1, <2>2
<1>6. \A s : Registered(s) => Registered(s)'
  BY <1>1, <1>5 DEF Registered
<1>7. QED
  BY <1>1, <1>6, AccountedSame

\* The stop of the entry leaves the book and fires.
LEMMA AccountedFire ==
  ASSUME NEW M \in Nat, EngineInv(M), EngineInv(M)', StopsAccounted,
         Iterating, NextEntry, Kept(book, book', {Entry}), Entry \in Stops(book),
         fired' = Append(fired, book.order[Entry].id), pend' = pend, accepted' = accepted
  PROVE  StopsAccounted'
<1> PICK e : e = Entry
  OBVIOUS
<1> DEFINE x == book.order[e].id
<1>1. /\ BookInv(book) /\ BookInv(book') /\ KeptOrders(book, book', {e})
      /\ fired \in Seq(Ids) /\ accepted \subseteq Ids
  BY EngineFacts DEF EngineInv, EngineTypeOK, Sound, Kept
<1>2. e \in Live(book) /\ x \in Ids /\ FindId(book, x) = e /\ e # Null
  BY <1>1, FindLive DEF Stops
<1>3. ASSUME NEW s \in Stops(book) \ {e}, Registered(s) PROVE Registered(s)'
  BY <1>3, NextEntryHolds DEF Registered, Kept
<1>4. ASSUME NEW id \in accepted
      PROVE  /\ FindId(book, id) \in {e} => Firings(id)' = Firings(id) + 1
             /\ FindId(book, id) \notin {e} => Firings(id)' = Firings(id)
  <2>1. FindId(book, id) = e <=> x = id
    BY <1>1, <1>2, FindLive
  <2>2. /\ x = id => Firings(id)' = Firings(id) + 1
        /\ x # id => Firings(id)' = Firings(id)
    <3>1. /\ fired' = Append(fired, x)
          /\ Firings(id) = Count(fired, id) /\ Firings(id)' = Count(fired', id)
      BY DEF Firings, Count
    <3> HIDE DEF x
    <3>2. QED
      BY <1>1, <1>2, <3>1, FiringsAppend
  <2>3. QED
    BY <2>1, <2>2
<1>5. \A id \in accepted : Accounted(id)'
  BY <1>1, <1>2, <1>3, <1>4, AccountedStep
<1>6. QED
  BY <1>5 DEF StopsAccounted, Accounted

LEMMA AccountedNext ==
  ASSUME TouchStops = FALSE, Policies \subseteq {FIFO},
         NEW M \in Nat, SizesUpTo(M), Fits(M), EngineInv(M), StopsAccounted,
         [EngineNext]_engineVars
  PROVE  StopsAccounted'
<1>0. EngineInv(M)'
  BY EngineNextInv
<1>1. ASSUME NEW side \in QuoteSides, NEW price \in Prices, NEW qty \in Qtys,
             NEW display \in Displays \cup {0}, ClientLimit(side, price, qty, display)
      PROVE  StopsAccounted'
  BY <1>0, <1>1, ClientLimitSafe, AccountedKept DEF ClientLimit, history
<1>2. ASSUME NEW id \in Ids, ClientCancel(id) PROVE StopsAccounted'
  BY <1>0, <1>2, ClientCancelSafe, AccountedKept DEF ClientCancel, history
<1>3. ASSUME NEW side \in StopSides, NEW stop \in StopPrices, NEW qty \in StopQtys,
             NEW stype \in StopTypes \ {NoStop}, NEW price \in Prices \cup {NoPrice},
             stype # StopMarket => price \in Prices, NEW display \in Displays \cup {0},
             SubmitStop(side, stop, qty, stype, price, display)
      PROVE  StopsAccounted'
  <2>1. /\ Kept(book, book', {}) /\ stack' = stack /\ fired' = fired
        /\ \/ accepted' = accepted /\ pend' = pend
           \/ /\ accepted' = accepted \cup {book.nextId}
              /\ pend' = Append(pend, FindId(book', book.nextId))
              /\ FindId(book', book.nextId) \in Stops(book')
    BY <1>3, SubmitStopSafe DEF SubmitStop
  <2>2. QED
    BY <1>0, <2>1, AccountedKept, AccountedSubmit
<1>4. ASSUME NEW side \in Sides, NEW qty \in TakeQtys, SubmitMarket(side, qty)
      PROVE  StopsAccounted'
  <2>1. /\ book' = book /\ pend' = pend /\ stack' = stack /\ accepted' = accepted
        /\ fired' = fired
    BY <1>4 DEF SubmitMarket, MarketBegin, history
  <2>2. QED
    BY <2>1, AccountedSame DEF Registered
<1>5. CASE Match
  BY <1>0, <1>5, MatchSafe, AccountedKept DEF Match, history
<1>6. CASE MatchReturn
  <2>1. Sound(book, M) /\ Kept(book, book, {})
    BY EngineFacts DEF EngineInv, Kept, KeptOrders
  <2>2. QED
    BY <1>0, <1>6, <2>1, AccountedAfterMatch DEF MatchReturn
<1>7. CASE FireStopMarket
  BY <1>0, <1>7, FireStopMarketSafe, AccountedFire DEF FireStopMarket
<1>8. CASE FireStopLimit
  BY <1>0, <1>8, FireStopLimitSafe, AccountedFire DEF FireStopLimit
<1>9. ~MatchProRata
  BY DEF MatchProRata, EngineInv, EngineTypeOK
<1>10. CASE EngineStep
  BY <1>5, <1>6, <1>7, <1>8, <1>9, <1>10, AccountedRequeue, AccountedSkip, AccountedReturn
  DEF EngineStep
<1>11. CASE UNCHANGED engineVars
  <2>1. /\ book' = book /\ pend' = pend /\ stack' = stack /\ accepted' = accepted
        /\ fired' = fired
    BY <1>11 DEF engineVars
  <2>2. QED
    BY <2>1, AccountedSame DEF Registered
<1>12. /\ StopMarket \in StopTypes \ {NoStop} /\ StopLimit \in StopTypes \ {NoStop}
       /\ StopLimit # StopMarket
  BY DEF StopMarket, StopLimit, NoStop, StopTypes
<1>13. QED
  BY <1>1, <1>2, <1>3, <1>4, <1>10, <1>11, <1>12 DEF EngineNext

\* No stop is lost and none fires twice, in every reachable state of the FIFO
\* engine: a stop that submit_stop accepted is in the book and registered in a
\* queue that process_triggers will look at, or it has fired exactly once.
THEOREM EveryStopAccounted ==
  ASSUME TouchStops = FALSE, Policies \subseteq {FIFO}, NEW M \in Nat, SizesUpTo(M), Fits(M)
  PROVE  EngineSafetySpec => []StopsAccounted
<1>1. EngineInit => EngineInv(M) /\ StopsAccounted
  BY EngineInitInv DEF EngineInit, StopsAccounted
<1>2. EngineInv(M) /\ StopsAccounted /\ [EngineNext]_engineVars => EngineInv(M)' /\ StopsAccounted'
  BY EngineNextInv, AccountedNext
<1>3. QED
  BY <1>1, <1>2, PTL DEF EngineSafetySpec

-----------------------------------------------------------------------------
(***************************************************************************)
(* A stop-limit that fires rests in full.                                  *)
(***************************************************************************)

\* An order in a slot of U changes, the others stay.
LEMMA OpenChanged ==
  ASSUME NEW b, BookInv(b), NEW c, BookInv(c), NEW o \in Slots,
         NEW T \in SUBSET Slots, o \in T, Live(c) \ Stops(c) = T,
         Live(b) \ Stops(b) \in {T, T \ {o}},
         \A s \in Slots : s # o => c.order[s] = b.order[s]
  PROVE  OpenQty(c) - OpenQty(b) =
           (c.order[o].rem + c.order[o].hid)
             - (IF o \in Live(b) \ Stops(b) THEN b.order[o].rem + b.order[o].hid ELSE 0)
<1> DEFINE U == T \ {o}
           L == Live(b) \ Stops(b)
<1>1. U \in SUBSET Slots /\ o \notin U /\ L \in {T, U}
  OBVIOUS
<1>2. OpenQty(c) = Sum(OpenOf(c), T) /\ OpenQty(b) = Sum(OpenOf(b), L)
  BY OpenQtyIs
<1>2a. U = T \ {o}
  OBVIOUS
<1> HIDE DEF U, L
<1>3. Sum(OpenOf(c), U) = Sum(OpenOf(b), U)
  BY <1>1, SumFrame
<1>4. /\ Sum(OpenOf(c), T) = c.order[o].rem + c.order[o].hid + Sum(OpenOf(c), U)
      /\ Sum(OpenOf(b), T) = b.order[o].rem + b.order[o].hid + Sum(OpenOf(b), U)
      /\ Sum(OpenOf(b), U) \in Nat
  BY <1>2a, OpenSplit
<1>5. /\ c.order[o].rem \in Nat /\ c.order[o].hid \in Nat
      /\ b.order[o].rem \in Nat /\ b.order[o].hid \in Nat
  BY BookTypes DEF BookInv
<1> DEFINE u == Sum(OpenOf(b), U)
           p == c.order[o].rem + c.order[o].hid
           q == b.order[o].rem + b.order[o].hid
<1>6. /\ OpenQty(c) = p + u /\ Sum(OpenOf(b), T) = q + u /\ u \in Nat /\ p \in Nat /\ q \in Nat
  BY <1>2, <1>3, <1>4, <1>5
<1> HIDE DEF u, p, q
<1>7. ASSUME L = T PROVE OpenQty(c) - OpenQty(b) = p - q /\ o \in L
  BY <1>2, <1>6, <1>7
<1>8. ASSUME L = U PROVE OpenQty(c) - OpenQty(b) = p /\ o \notin L
  <2>1. OpenQty(b) = u /\ o \notin L
    BY <1>1, <1>2, <1>8 DEF u
  <2>2. QED
    BY <1>6, <2>1
<1>9. OpenQty(c) - OpenQty(b) = p - (IF o \in L THEN q ELSE 0)
  BY <1>1, <1>6, <1>7, <1>8
<1>10. QED
  BY <1>9 DEF p, q, L

LEMMA OpenNat == ASSUME NEW b, BookInv(b) PROVE OpenQty(b) \in Nat
<1>1. Live(b) \ Stops(b) \in SUBSET Slots /\ IsFiniteSet(Slots)
  BY SlotFacts DEF Live
<1>2. QED
  BY <1>1, OpenQtyIs, SumNat, WeightTypes

LEMMA OpenSubmit ==
  ASSUME NEW M \in Nat, NEW b, BookInv(b), b.nextId <= MaxId, b.free # <<>>,
         NEW side \in Sides, NEW price \in Prices, NEW qty \in Qty, qty <= M,
         NEW display \in Qty, NEW c, c = SubmitLimit(b, side, price, qty, display)
  PROVE  OpenQty(c) - OpenQty(b) = qty
<1> DEFINE b1 == AddLimitOrder(b, side, price, qty)
           k == <<side, price>>
           o == FreshSlot(b)
           ord == LimitOrder(b, side, price, qty)
           id == b.nextId
           T == (Live(b) \ Stops(b)) \cup {o}
<1>1. /\ b \in Book /\ b.order \in [Slots -> Order] /\ id \in Ids /\ qty \in Nat /\ display \in Nat
  BY BookTypes, MaxIdAssumption, QtyInNat DEF BookInv, Ids
<1>2. BookInv(b1) /\ LimitAdded(b, b1, k, o, ord)
  BY AddLimitInv, Zenon
<1>3. ord.qty = qty /\ ord.rem = qty /\ ord.hid = 0
  BY DEF LimitOrder, BlankOrder
<1>4. c = IF display > 0 THEN ConfigureIceberg(b1, id, display) ELSE b1
  BY DEF SubmitLimit, NewId
<1> HIDE DEF b1, k, o, ord, id
<1>5. /\ o \in Slots \ Live(b) /\ ord.id = id /\ b1.order = [b.order EXCEPT ![o] = ord]
      /\ Live(b1) = Live(b) \cup {o} /\ Stops(b1) = Stops(b) /\ Stops(b) \subseteq Live(b)
  BY <1>2 DEF LimitAdded, id, Stops
<1>6. b1.order[o] = ord /\ \A s \in Slots : s # o => b1.order[s] = b.order[s]
  BY <1>1, <1>5
<1>7. /\ T \in SUBSET Slots /\ o \in T /\ Live(b1) \ Stops(b1) = T /\ o \notin Live(b) \ Stops(b)
      /\ Live(b) \ Stops(b) = T \ {o} /\ o \in Slots
  BY <1>5 DEF Live
<1> HIDE DEF T
<1>8. OpenQty(b1) - OpenQty(b) = qty
  <2>1. OpenQty(b1) - OpenQty(b) = (b1.order[o].rem + b1.order[o].hid) - 0
    BY <1>2, <1>6, <1>7, OpenChanged
  <2>2. QED
    BY <1>1, <1>3, <1>6, <2>1
<1>9. CASE ~(display > 0)
  BY <1>4, <1>8, <1>9
<1>10. CASE display > 0
  <2>1. FindId(b1, id) = o /\ o # Null /\ o \notin Stops(b1)
    BY <1>5, <1>6, SlotFacts DEF Live, FindId, Stops
  <2> DEFINE rem == MinOf(display, qty)
             hid == IF qty > display THEN qty - display ELSE 0
             new == [ord EXCEPT !.disp = display, !.hid = hid, !.rem = rem]
  <2>2. c = ConfigureIceberg(b1, id, display)
    BY <1>4, <1>10
  <2>3. BookInv(c) /\ \E j, x : Resized(b1, c, j, o, new, x)
    <3> DEFINE j == KeyOf(b1, o)
               q == b1.order[o].qty
               r == MinOf(display, q)
               n == [b1.order[o] EXCEPT !.disp = display,
                                        !.hid = IF q > display THEN q - display ELSE 0,
                                        !.rem = r]
               x == Adjusted(b1.level[j].agg, r - b1.order[o].rem)
    <3>1. BookInv(c) /\ Resized(b1, c, j, o, n, x)
      <4>1. display # 0
        BY <1>1, <1>10
      <4>2. QED
        BY <1>1, <1>2, <2>1, <2>2, <4>1, ConfigureInv, Zenon
    <3>2. n = new
      BY <1>3, <1>6
    <3>3. QED
      BY <3>1, <3>2
  <2>4. ord \in Order /\ b1.order \in [Slots -> Order]
    BY <1>2, <1>6, <1>7, BookTypes DEF BookInv
  <2>5. new.rem = rem /\ new.hid = hid
    BY <2>4 DEF Order
  <2>6. rem + hid = qty
    BY <1>1 DEF MinOf
  <2> HIDE DEF new, rem, hid
  <2>7. SameShape(b1, c) /\ c.order = [b1.order EXCEPT ![o] = new]
    BY <2>3 DEF Resized
  <2>8. c.order[o] = new /\ \A s \in Slots : s # o => c.order[s] = b1.order[s]
    BY <1>7, <2>4, <2>7
  <2>9. Live(c) = Live(b1) /\ Stops(c) = Stops(b1)
    BY <2>7, ShapeSets
  <2>10. Live(c) \ Stops(c) = T
    BY <1>7, <2>9
  <2>11. OpenQty(c) - OpenQty(b1) = (c.order[o].rem + c.order[o].hid) - (b1.order[o].rem + b1.order[o].hid)
    BY <1>2, <1>7, <2>3, <2>8, <2>10, OpenChanged
  <2>12. OpenQty(c) - OpenQty(b1) = 0
    BY <1>1, <1>3, <1>6, <2>5, <2>6, <2>8, <2>11
  <2>13. OpenQty(c) \in Int /\ OpenQty(b1) \in Int /\ OpenQty(b) \in Int
    BY <1>2, <2>3, OpenNat
  <2>14. QED
    BY <1>1, <1>8, <2>12, <2>13
<1>11. QED
  BY <1>9, <1>10

\* What the property says of a step.
RestsInFull ==
  FireStopLimit => OpenQty(book') - OpenQty(book) = book.order[EntryDetached].qty

LEMMA FireRestsInFull ==
  ASSUME NEW M \in Nat, EngineInv(M)
  PROVE  RestsInFull
<1> SUFFICES ASSUME FireStopLimit
             PROVE  OpenQty(book') - OpenQty(book) = book.order[EntryDetached].qty
  BY DEF RestsInFull
<1> DEFINE d == book.order[Entry]
<1>1. Iterating /\ NextEntry /\ Fires(StopLimit) /\ StopLimit # NoStop
  BY DEF FireStopLimit, StopLimit, NoStop
<1>2. /\ EntryDetached = Entry /\ Entry \in Stops(book)
      /\ Sound(Released, M) /\ Live(Released) = Live(book) \ {Entry}
      /\ Stops(Released) = Stops(book) \ {Entry} /\ Released.order = book.order
      /\ Released.free # <<>> /\ Released.nextId = book.nextId
      /\ Cardinality(Stops(Released)) = Cardinality(Stops(book)) - 1
  BY <1>1, FiringReleases DEF Released
<1>3. /\ book' = SubmitLimit(Released, d.side, d.price, d.qty, d.disp)
  BY <1>2 DEF FireStopLimit, Released, EntryOrder
<1>4. /\ d.side \in Sides /\ d.qty \in Qty /\ d.disp \in Qty /\ d.qty <= M /\ d.price \in Prices
      /\ Released.nextId <= MaxId
  BY <1>1, <1>2, FiredOrder
<1>5. OpenQty(Released) = OpenQty(book)
  <2>1. Live(Released) \ Stops(Released) = Live(book) \ Stops(book)
    BY <1>2
  <2>2. OpenOf(Released) = OpenOf(book)
    BY <1>2 DEF OpenOf
  <2>3. QED
    BY <2>1, <2>2, OpenQtyIs
<1>6. BookInv(Released)
  BY <1>2 DEF Sound
<1> HIDE DEF d
<1>7. OpenQty(book') - OpenQty(Released) = d.qty
  BY <1>2, <1>3, <1>4, <1>6, OpenSubmit
<1>8. QED
  BY <1>2, <1>5, <1>7 DEF d

\* A stop-limit that fires rests in full, its hidden part included, in every
\* step of the FIFO engine: free_order has returned the stop's slot before
\* add_limit_order asks for one.
THEOREM StopLimitsRestInFull ==
  ASSUME TouchStops = FALSE, Policies \subseteq {FIFO}, NEW M \in Nat, SizesUpTo(M), Fits(M)
  PROVE  EngineSafetySpec => StopLimitRestsInFull
<1>1. EngineInit => EngineInv(M)
  BY EngineInitInv
<1>2. EngineInv(M) /\ [EngineNext]_engineVars => EngineInv(M)'
  BY EngineNextInv
<1>3. EngineInv(M) /\ [EngineNext]_engineVars => [RestsInFull]_engineVars
  BY FireRestsInFull
<1>4. EngineSafetySpec => [][RestsInFull]_engineVars
  BY <1>1, <1>2, <1>3, PTL DEF EngineSafetySpec
<1>5. QED
  BY <1>4 DEF StopLimitRestsInFull, RestsInFull
=============================================================================
