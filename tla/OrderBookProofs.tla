-------------------------- MODULE OrderBookProofs ---------------------------
(***************************************************************************)
(* For every pool capacity, every set of prices and sizes and any number   *)
(* of orders: as long as clients leave pending stops alone, the pool never *)
(* leaks or frees twice, the list of every price level holds exactly its   *)
(* resting orders in order of arrival, and its aggregate is what they show.*)
(* The last part is about market_order run to its end.                     *)
(***************************************************************************)
EXTENDS OrderBook, SumProofs, FiniteSetTheorems, SequenceTheorems, TLAPS

-----------------------------------------------------------------------------
(***************************************************************************)
(* The lists, apart from the book: appending, removing, and what leaves a  *)
(* list alone.  R is the set of orders of the list.                        *)
(***************************************************************************)
Links == [Slots -> Slots \cup {Null}]

LEMMA FifoEmpty ==
  ASSUME NEW R \in SUBSET Slots, NEW L, NEW nx, NEW pv, NEW ar, IsFifo(R, L, nx, pv, ar)
  PROVE  (L.head = Null <=> R = {}) /\ (L.tail = Null <=> R = {})
BY CapacityAssumption DEF IsFifo, Slots, Null

LEMMA FifoFrame ==
  ASSUME NEW R, NEW L, NEW nx, NEW pv, NEW ar, NEW M, NEW nx2, NEW pv2, NEW ar2,
         IsFifo(R, L, nx, pv, ar),
         M.head = L.head, M.tail = L.tail,
         \A s \in R : nx2[s] = nx[s] /\ pv2[s] = pv[s] /\ ar2[s] = ar[s]
  PROVE  IsFifo(R, M, nx2, pv2, ar2)
BY DEF IsFifo

LEMMA FifoAppend ==
  ASSUME NEW R \in SUBSET Slots, NEW L, NEW nx \in Links, NEW pv \in Links,
         NEW ar \in [Slots -> Nat], NEW t \in Nat, NEW o \in Slots \ R,
         NEW M, NEW nx2, NEW pv2, NEW ar2,
         IsFifo(R, L, nx, pv, ar),
         \A s \in R : ar[s] < t,
         M.head = IF L.head = Null THEN o ELSE L.head, M.tail = o,
         nx2[o] = Null, pv2[o] = L.tail, ar2[o] = t,
         \A s \in R : /\ nx2[s] = IF s = L.tail THEN o ELSE nx[s]
                      /\ pv2[s] = pv[s] /\ ar2[s] = ar[s]
  PROVE  IsFifo(R \cup {o}, M, nx2, pv2, ar2)
<1>1. CASE R = {}
  <2>1. L.head = Null /\ L.tail = Null
    BY <1>1 DEF IsFifo
  <2>2. R \cup {o} = {o} /\ M.head = o /\ M.tail = o /\ pv2[o] = Null
    BY <1>1, <2>1
  <2>3. ar2[o] <= ar2[o]
    OBVIOUS
  <2>4. IsFifo({o}, M, nx2, pv2, ar2)
    BY <2>2, <2>3, Zenon DEF IsFifo
  <2>5. QED
    BY <2>2, <2>4
<1>2. CASE R # {}
  <2>1. L.head \in R /\ L.tail \in R /\ L.head # Null /\ M.head = L.head
    BY <1>2, CapacityAssumption DEF IsFifo, Slots, Null
  <2>2. /\ M.head \in R \cup {o} /\ pv2[M.head] = Null
        /\ M.tail \in R \cup {o} /\ nx2[M.tail] = Null
    BY <1>2, <2>1 DEF IsFifo
  <2>3. \A s \in R \cup {o} : ar2[s] \in Nat /\ (s # o => ar2[s] < t)
    OBVIOUS
  <2>4. ASSUME NEW s \in R \cup {o}
        PROVE  /\ ar2[M.head] <= ar2[s] /\ ar2[s] <= ar2[M.tail]
               /\ \A u \in R \cup {o} : ar2[s] = ar2[u] => s = u
    BY <1>2, <2>1, <2>3 DEF IsFifo
  <2>5. ASSUME NEW s \in R \cup {o}, s # M.tail
        PROVE  /\ nx2[s] \in R \cup {o} /\ pv2[nx2[s]] = s /\ ar2[s] < ar2[nx2[s]]
               /\ \A u \in R \cup {o} : ar2[u] <= ar2[s] \/ ar2[nx2[s]] <= ar2[u]
    <3>1. CASE s = L.tail
      BY <1>2, <2>1, <2>3, <2>5, <3>1 DEF IsFifo
    <3>2. CASE s # L.tail
      <4>1. nx2[s] = nx[s] /\ nx[s] \in R /\ s \in R
        BY <2>5, <3>2 DEF IsFifo
      <4>2. QED
        BY <2>3, <3>2, <4>1 DEF IsFifo
    <3>3. QED
      BY <3>1, <3>2
  <2>6. ASSUME NEW s \in R \cup {o}, s # M.head
        PROVE  pv2[s] \in R \cup {o} /\ nx2[pv2[s]] = s
    <3>1. CASE s = o
      BY <2>1, <3>1
    <3>2. CASE s # o
      <4>1. s \in R /\ pv2[s] = pv[s] /\ pv[s] \in R /\ nx[pv[s]] = s
        BY <2>1, <2>6, <3>2 DEF IsFifo
      <4>2. pv[s] # L.tail
        BY <1>2, <4>1, FifoEmpty, CapacityAssumption DEF IsFifo, Slots, Null
      <4>3. QED
        BY <4>1, <4>2
    <3>3. QED
      BY <3>1, <3>2
  <2>7. QED
    BY <2>2, <2>4, <2>5, <2>6 DEF IsFifo
<1>3. QED
  BY <1>1, <1>2

LEMMA FifoRemove ==
  ASSUME NEW R \in SUBSET Slots, NEW L, NEW nx \in Links, NEW pv \in Links,
         NEW ar \in [Slots -> Nat], NEW o \in R,
         NEW M, NEW nx2, NEW pv2, NEW ar2,
         IsFifo(R, L, nx, pv, ar),
         M.head = IF pv[o] = Null THEN nx[o] ELSE L.head,
         M.tail = IF nx[o] = Null THEN pv[o] ELSE L.tail,
         \A s \in R \ {o} : /\ nx2[s] = IF s = pv[o] THEN nx[o] ELSE nx[s]
                            /\ pv2[s] = IF s = nx[o] THEN pv[o] ELSE pv[s]
                            /\ ar2[s] = ar[s]
  PROVE  IsFifo(R \ {o}, M, nx2, pv2, ar2)
<1> DEFINE p == pv[o]
           n == nx[o]
           T == R \ {o}
<1>0. Null \notin R
  BY CapacityAssumption DEF Slots, Null
<1>1. /\ o = L.head <=> p = Null
      /\ o = L.tail <=> n = Null
      /\ p # Null => p \in T /\ nx[p] = o /\ ar[p] < ar[o]
      /\ n # Null => n \in T /\ pv[n] = o /\ ar[o] < ar[n]
  <2>1. Null \notin Slots
    BY CapacityAssumption DEF Slots, Null
  <2>2. R # {} /\ o \in Slots /\ p \in Slots \cup {Null} /\ n \in Slots \cup {Null}
    BY DEF Links
  <2>3. o = L.head => p = Null
    BY <2>2 DEF IsFifo
  <2>4. o = L.tail => n = Null
    BY <2>2 DEF IsFifo
  <2>5. o # L.head => p \in R /\ nx[p] = o
    BY DEF IsFifo
  <2>6. o # L.tail => n \in R /\ pv[n] = o /\ ar[o] < ar[n]
    BY DEF IsFifo
  <2>7. o # L.head => p # L.tail
    BY <2>1, <2>2, <2>5 DEF IsFifo
  <2>8. o # L.head => ar[p] < ar[o]
    BY <2>5, <2>7 DEF IsFifo
  <2>9. (o # L.head => p # o) /\ (o # L.tail => n # o)
    BY <2>2, <2>6, <2>8
  <2>10. QED
    BY <2>1, <2>3, <2>4, <2>5, <2>6, <2>8, <2>9
<1>2. T = {} => M.head = Null /\ M.tail = Null
  BY <1>1
<1>3. T # {} => M.head \in T /\ M.tail \in T
  <2> SUFFICES ASSUME T # {} PROVE M.head \in T /\ M.tail \in T
    OBVIOUS
  <2>1. p # Null \/ n # Null
    BY <1>1 DEF IsFifo
  <2>2. QED
    BY <1>1, <2>1 DEF IsFifo
<1>4. T # {} => pv2[M.head] = Null /\ nx2[M.tail] = Null
  <2> SUFFICES ASSUME T # {} PROVE pv2[M.head] = Null /\ nx2[M.tail] = Null
    OBVIOUS
  <2>1. pv[L.head] = Null /\ nx[L.tail] = Null /\ L.head \in R /\ L.tail \in R
    BY DEF IsFifo
  <2>2. p # Null => L.head # n
    BY <1>0, <1>1, <2>1
  <2>3. n # Null => L.tail # p
    BY <1>0, <1>1, <2>1
  <2>4. p = Null => pv2[M.head] = Null
    BY <1>1, <1>3
  <2>5. p # Null => pv2[M.head] = Null
    BY <1>1, <1>3, <2>1, <2>2
  <2>6. n = Null => nx2[M.tail] = Null
    BY <1>1, <1>3
  <2>7. n # Null => nx2[M.tail] = Null
    BY <1>1, <1>3, <2>1, <2>3
  <2>8. QED
    BY <2>4, <2>5, <2>6, <2>7
<1>5. \A s \in T : ar2[s] \in Nat /\ ar2[s] = ar[s] /\ ar[s] # ar[o]
  BY DEF IsFifo
<1>6. ASSUME NEW s \in T
      PROVE  /\ ar2[M.head] <= ar2[s] /\ ar2[s] <= ar2[M.tail]
             /\ \A u \in T : ar2[s] = ar2[u] => s = u
  <2>1. \A u \in T : ar2[s] = ar2[u] => s = u
    BY <1>5 DEF IsFifo
  <2>2. ar2[M.head] <= ar2[s]
    <3>1. M.head \in T /\ ar[o] \in Nat /\ ar[s] \in Nat /\ s \in R
      BY <1>3 DEF IsFifo
    <3>2. CASE p # Null
      <4>1. M.head = L.head /\ ar[L.head] <= ar[s]
        BY <3>1, <3>2 DEF IsFifo
      <4>2. QED
        BY <1>5, <3>1, <4>1
    <3>3. CASE p = Null
      <4>1. M.head = n /\ n # Null /\ o = L.head /\ o # L.tail
        BY <1>0, <1>1, <3>1, <3>3
      <4>2. ar[o] <= ar[s] /\ (ar[s] <= ar[o] \/ ar[n] <= ar[s])
        BY <3>1, <4>1 DEF IsFifo
      <4>3. QED
        BY <1>5, <3>1, <4>1, <4>2
    <3>4. QED
      BY <3>2, <3>3
  <2>3. ar2[s] <= ar2[M.tail]
    <3>1. M.tail \in T /\ ar[o] \in Nat /\ ar[s] \in Nat /\ s \in R
      BY <1>3 DEF IsFifo
    <3>2. CASE n # Null
      <4>1. M.tail = L.tail /\ ar[s] <= ar[L.tail]
        BY <3>1, <3>2 DEF IsFifo
      <4>2. QED
        BY <1>5, <3>1, <4>1
    <3>3. CASE n = Null
      <4>1. M.tail = p /\ p # Null /\ o = L.tail /\ p # L.tail /\ p \in R /\ nx[p] = o
        BY <1>0, <1>1, <3>1, <3>3
      <4>2. ar[s] <= ar[o] /\ (ar[s] <= ar[p] \/ ar[o] <= ar[s])
        BY <3>1, <4>1 DEF IsFifo
      <4>3. QED
        BY <1>5, <3>1, <4>1, <4>2
    <3>4. QED
      BY <3>2, <3>3
  <2>4. QED
    BY <2>1, <2>2, <2>3
<1>7. ASSUME NEW s \in T, s # M.tail
      PROVE  /\ nx2[s] \in T /\ pv2[nx2[s]] = s /\ ar2[s] < ar2[nx2[s]]
             /\ \A u \in T : ar2[u] <= ar2[s] \/ ar2[nx2[s]] <= ar2[u]
  <2>1. CASE s = p
    <3>1. n # Null /\ nx2[s] = n
      BY <1>1, <1>7, <2>1
    <3>2. n \in T /\ p \in T /\ p # L.tail /\ o # L.tail /\ ar[p] < ar[o] /\ ar[o] < ar[n]
      BY <1>0, <1>1, <2>1, <3>1 DEF IsFifo
    <3>3. pv2[n] = p /\ ar2[p] = ar[p] /\ ar2[n] = ar[n]
      BY <3>2
    <3>4. ar2[p] < ar2[n]
      BY <3>2, <3>3
    <3>5. ASSUME NEW u \in T PROVE ar2[u] <= ar2[p] \/ ar2[n] <= ar2[u]
      <4>1. ar[u] <= ar[p] \/ ar[o] <= ar[u]
        BY <1>1, <3>2 DEF IsFifo
      <4>2. ar[u] <= ar[o] \/ ar[n] <= ar[u]
        BY <3>2 DEF IsFifo
      <4>3. QED
        BY <1>5, <3>3, <4>1, <4>2
    <3>6. QED
      BY <2>1, <3>1, <3>2, <3>3, <3>4, <3>5
  <2>2. CASE s # p
    <3>1. s # L.tail /\ nx2[s] = nx[s] /\ nx[s] \in R /\ pv[nx[s]] = s
      BY <1>1, <1>7, <2>2 DEF IsFifo
    <3>2. nx[s] # o
      BY <2>2, <3>1
    <3>3. nx[s] # n
      BY <1>0, <1>1, <3>1, <3>2
    <3>4. QED
      BY <1>5, <3>1, <3>2, <3>3 DEF IsFifo
  <2>3. QED
    BY <2>1, <2>2
<1>8. ASSUME NEW s \in T, s # M.head
      PROVE  pv2[s] \in T /\ nx2[pv2[s]] = s
  <2>1. CASE s = n
    BY <1>1, <1>8, <2>1
  <2>2. CASE s # n
    <3>1. s # L.head /\ pv2[s] = pv[s] /\ pv[s] \in R /\ nx[pv[s]] = s
      BY <1>1, <1>8, <2>2 DEF IsFifo
    <3>2. pv[s] # o /\ pv[s] # p
      BY <1>0, <1>1, <2>2, <3>1
    <3>3. QED
      BY <3>1, <3>2
  <2>3. QED
    BY <2>1, <2>2
<1>9. QED
  BY <1>2, <1>3, <1>4, <1>6, <1>7, <1>8 DEF IsFifo

-----------------------------------------------------------------------------
(***************************************************************************)
(* The inductive invariant of a book value.                                *)
(***************************************************************************)

\* Ids that were not issued yet, and 0, map to nullptr.
FreshIds(b) == \A id \in Ids : id >= b.nextId \/ id = 0 => b.ids[id] = Null

\* The clock is ahead of every arrival.
ClockAhead(b) == \A s \in Slots : b.arr[s] < b.clock

BookInv(b) ==
  /\ b \in Book
  /\ PoolPartitioned(b)
  /\ NoDangling(b)
  /\ FreshIds(b)
  /\ ClockAhead(b)
  /\ FifoLevels(b)
  /\ ExactLevels(b)

LEMMA SlotFacts == Null \notin Slots /\ IsFiniteSet(Slots)
BY CapacityAssumption, FS_Interval DEF Slots, Null

LEMMA BlankType == BlankOrder \in Order /\ BlankOrder.stype = NoStop
BY QtyModAssumption, MaxIdAssumption
DEF BlankOrder, Order, Qty, Ids, Sides, Buy, StopTypes, NoStop

LEMMA KeyType == ASSUME NEW b \in Book, NEW s \in Slots PROVE KeyOf(b, s) \in Keys
BY DEF Book, Order, KeyOf, Keys

\* The slot that allocate hands out is on the freelist and belongs to nobody.
LEMMA FreshFacts ==
  ASSUME NEW b, BookInv(b), b.free # <<>>
  PROVE  /\ FreshSlot(b) \in Slots /\ FreshSlot(b) \notin Live(b)
         /\ Len(b.free) \in Nat /\ Len(b.free) > 0
<1>1. b.free \in Seq(Slots)
  BY DEF BookInv, Book
<1>2. Len(b.free) \in Nat /\ Len(b.free) > 0 /\ FreshSlot(b) \in Slots
  BY <1>1 DEF FreshSlot
<1>3. FreshSlot(b) \in FreeSlots(b)
  BY <1>2 DEF FreeSlots, FreshSlot
<1>4. QED
  BY <1>2, <1>3 DEF BookInv, PoolPartitioned

-----------------------------------------------------------------------------
(***************************************************************************)
(* Operations that only change quantities keep the invariant.              *)
(***************************************************************************)
SameShape(b, c) ==
  /\ c.prev = b.prev /\ c.next = b.next /\ c.free = b.free /\ c.ids = b.ids
  /\ c.nextId = b.nextId /\ c.ladder = b.ladder /\ c.pending = b.pending
  /\ c.arr = b.arr /\ c.clock = b.clock
  /\ \A s \in Slots : /\ c.order[s].id = b.order[s].id
                      /\ c.order[s].side = b.order[s].side
                      /\ c.order[s].price = b.order[s].price
                      /\ c.order[s].stype = b.order[s].stype
  /\ \A k \in Keys : /\ c.level[k].head = b.level[k].head
                     /\ c.level[k].tail = b.level[k].tail
                     /\ c.level[k].cnt = b.level[k].cnt

LEMMA ShapeSets ==
  ASSUME NEW b, NEW c, SameShape(b, c)
  PROVE  /\ Live(c) = Live(b) /\ Stops(c) = Stops(b) /\ FreeSlots(c) = FreeSlots(b)
         /\ \A k : Resting(c, k) = Resting(b, k)
<1>1. Live(c) = Live(b)
  BY DEF SameShape, Live
<1>2. Live(b) \subseteq Slots
  BY DEF Live
<1>3. Stops(c) = Stops(b) /\ FreeSlots(c) = FreeSlots(b)
  BY <1>1, <1>2 DEF SameShape, Stops, FreeSlots
<1>4. \A k : Resting(c, k) = Resting(b, k)
  BY <1>1, <1>2 DEF SameShape, Resting, KeyOf
<1>5. QED
  BY <1>1, <1>3, <1>4

LEMMA ShapeKeepsInv ==
  ASSUME NEW b, NEW c \in Book, BookInv(b), SameShape(b, c)
  PROVE  BookInv(c)
<1>1. PoolPartitioned(c)
  <2>1. c.free = b.free /\ c.ids = b.ids /\ \A s \in Slots : c.order[s].id = b.order[s].id
    BY DEF SameShape
  <2>2. \A id \in Ids : b.ids[id] # Null => b.ids[id] \in Slots
    BY DEF BookInv, Book
  <2>3. QED
    BY <2>1, <2>2, ShapeSets DEF BookInv, PoolPartitioned
<1>2. NoDangling(c)
  BY ShapeSets DEF BookInv, NoDangling, SameShape
<1>3. FreshIds(c) /\ ClockAhead(c)
  BY DEF BookInv, FreshIds, ClockAhead, SameShape
<1>4. FifoLevels(c)
  <2> SUFFICES ASSUME NEW k \in Keys
               PROVE  IsFifo(Resting(c, k), c.level[k], c.next, c.prev, c.arr)
    BY DEF FifoLevels
  <2>1. IsFifo(Resting(b, k), b.level[k], b.next, b.prev, b.arr)
    BY DEF BookInv, FifoLevels
  <2>2. /\ c.level[k].head = b.level[k].head /\ c.level[k].tail = b.level[k].tail
        /\ c.next = b.next /\ c.prev = b.prev /\ c.arr = b.arr
    BY DEF SameShape
  <2>3. Resting(c, k) = Resting(b, k)
    BY ShapeSets
  <2>4. QED
    BY <2>1, <2>2, <2>3, FifoFrame
<1>5. ExactLevels(c)
  BY ShapeSets DEF BookInv, ExactLevels, SameShape
<1>6. QED
  BY <1>1, <1>2, <1>3, <1>4, <1>5 DEF BookInv

-----------------------------------------------------------------------------
(***************************************************************************)
(* What each primitive of BookData changes, field by field.                *)
(***************************************************************************)
LevelAppended(L, o, qty) ==
  [head |-> IF L.head = Null THEN o ELSE L.head, tail |-> o,
   cnt |-> L.cnt + 1, agg |-> (L.agg + qty) % QtyMod]

LevelRemoved(L, p, n, qty) ==
  [head |-> IF p = Null THEN n ELSE L.head,
   tail |-> IF n = Null THEN p ELSE L.tail,
   cnt |-> L.cnt - 1, agg |-> (L.agg - qty) % QtyMod]

NextAppended(b, L, o) ==
  [s \in Slots |-> IF s = L.tail THEN o ELSE IF s = o THEN Null ELSE b.next[s]]

LEMMA QtyFacts ==
  ASSUME NEW x \in Int
  PROVE  x % QtyMod \in Qty
BY QtyModAssumption DEF Qty

LEMMA BookTypes ==
  ASSUME NEW b \in Book
  PROVE  /\ b.order \in [Slots -> Order] /\ b.level \in [Keys -> Level]
         /\ b.next \in Links /\ b.prev \in Links
         /\ b.arr \in [Slots -> Nat] /\ b.clock \in Nat
         /\ b.free \in Seq(Slots) /\ b.pending \in Seq(Slots)
         /\ b.ids \in [Ids -> Slots \cup {Null}] /\ b.nextId \in 1..(MaxId + 1)
         /\ b.ladder \in Ladders
         /\ \A s \in Slots : /\ b.order[s].rem \in Nat /\ b.order[s].qty \in Nat
                             /\ b.order[s].hid \in Nat /\ b.order[s].disp \in Nat
                             /\ b.order[s].id \in Ids
         /\ \A k \in Keys : /\ b.level[k].head \in Slots \cup {Null}
                            /\ b.level[k].tail \in Slots \cup {Null}
                            /\ b.level[k].cnt \in Nat /\ b.level[k].agg \in Nat
<1>1. /\ b.order \in [Slots -> Order] /\ b.level \in [Keys -> Level]
      /\ b.next \in Links /\ b.prev \in Links
      /\ b.arr \in [Slots -> Nat] /\ b.clock \in Nat
      /\ b.free \in Seq(Slots) /\ b.pending \in Seq(Slots)
      /\ b.ids \in [Ids -> Slots \cup {Null}] /\ b.nextId \in 1..(MaxId + 1)
      /\ b.ladder \in Ladders
  BY DEF Book, Links
<1>2. Qty \subseteq Nat
  BY QtyModAssumption DEF Qty
<1>3. \A s \in Slots : /\ b.order[s].rem \in Nat /\ b.order[s].qty \in Nat
                       /\ b.order[s].hid \in Nat /\ b.order[s].disp \in Nat
                       /\ b.order[s].id \in Ids
  BY <1>1, <1>2 DEF Order
<1>4. \A k \in Keys : /\ b.level[k].head \in Slots \cup {Null}
                      /\ b.level[k].tail \in Slots \cup {Null}
                      /\ b.level[k].cnt \in Nat /\ b.level[k].agg \in Nat
  BY <1>1, <1>2 DEF Level
<1>5. QED
  BY <1>1, <1>3, <1>4

LEMMA PushBackFields ==
  ASSUME NEW b \in Book, NEW k \in Keys, NEW o \in Slots
  PROVE  LET c == PushBack(b, k, o) IN
         /\ c \in Book
         /\ c.order = b.order /\ c.free = b.free /\ c.ids = b.ids
         /\ c.nextId = b.nextId /\ c.ladder = b.ladder /\ c.pending = b.pending
         /\ c.next = NextAppended(b, b.level[k], o)
         /\ c.prev = [b.prev EXCEPT ![o] = b.level[k].tail]
         /\ c.level = [b.level EXCEPT ![k] = LevelAppended(b.level[k], o, b.order[o].rem)]
         /\ c.arr = [b.arr EXCEPT ![o] = b.clock]
         /\ c.clock = b.clock + 1
<1> DEFINE c == PushBack(b, k, o)
           L == b.level[k]
           M == LevelAppended(L, o, b.order[o].rem)
           nx == NextAppended(b, L, o)
<1>1. /\ L.head \in Slots \cup {Null} /\ L.tail \in Slots \cup {Null}
      /\ L.cnt \in Nat /\ L.agg \in Nat /\ b.order[o].rem \in Nat
      /\ b.next \in Links /\ b.prev \in Links /\ b.arr \in [Slots -> Nat] /\ b.clock \in Nat
      /\ b.level \in [Keys -> Level]
  BY BookTypes
<1>2. M \in Level
  BY <1>1, QtyFacts DEF Level, LevelAppended
<1>3. /\ nx \in Links /\ [b.prev EXCEPT ![o] = L.tail] \in Links
      /\ [b.level EXCEPT ![k] = M] \in [Keys -> Level]
      /\ [b.arr EXCEPT ![o] = b.clock] \in [Slots -> Nat] /\ b.clock + 1 \in Nat
  BY <1>1, <1>2 DEF Links, NextAppended
<1>4. c = [b EXCEPT !.next = nx, !.prev = [b.prev EXCEPT ![o] = L.tail],
                    !.level = [b.level EXCEPT ![k] = M],
                    !.arr = [b.arr EXCEPT ![o] = b.clock],
                    !.clock = b.clock + 1]
  BY Zenon DEF PushBack, LevelAppended, NextAppended
<1> HIDE DEF M, nx, c
<1>5. c \in Book
  BY <1>3, <1>4 DEF Book, Links
<1>6. QED
  BY <1>4, <1>5 DEF Book, c, M, nx

NextRemoved(b, o) ==
  [s \in Slots |-> IF s = o THEN Null ELSE IF s = b.prev[o] THEN b.next[o] ELSE b.next[s]]
PrevRemoved(b, o) ==
  [s \in Slots |-> IF s = o THEN Null ELSE IF s = b.next[o] THEN b.prev[o] ELSE b.prev[s]]

LEMMA PushBackKeeps ==
  ASSUME NEW b \in Book, NEW k \in Keys, NEW o \in Slots
  PROVE  /\ PushBack(b, k, o) \in Book
         /\ PushBack(b, k, o).order = b.order
         /\ PushBack(b, k, o).free = b.free
         /\ PushBack(b, k, o).ids = b.ids
         /\ PushBack(b, k, o).nextId = b.nextId
         /\ PushBack(b, k, o).ladder = b.ladder
         /\ PushBack(b, k, o).pending = b.pending
<1>1. PushBack(b, k, o) \in Book
  BY PushBackFields, ZenonT(40)
<1>2. PushBack(b, k, o).order = b.order
  BY PushBackFields, ZenonT(40)
<1>3. PushBack(b, k, o).free = b.free
  BY PushBackFields, ZenonT(40)
<1>4. PushBack(b, k, o).ids = b.ids
  BY PushBackFields, ZenonT(40)
<1>5. PushBack(b, k, o).nextId = b.nextId
  BY PushBackFields, ZenonT(40)
<1>6. PushBack(b, k, o).ladder = b.ladder
  BY PushBackFields, ZenonT(40)
<1>7. PushBack(b, k, o).pending = b.pending
  BY PushBackFields, ZenonT(40)
<1>8. QED
  BY <1>1, <1>2, <1>3, <1>4, <1>5, <1>6, <1>7

LEMMA PushBackLevel ==
  ASSUME NEW b \in Book, NEW k \in Keys, NEW o \in Slots, NEW c, c = PushBack(b, k, o)
  PROVE  /\ c.arr = [b.arr EXCEPT ![o] = b.clock] /\ c.clock = b.clock + 1
         /\ c.level[k].agg = (b.level[k].agg + b.order[o].rem) % QtyMod
         /\ \A j \in Keys : j # k => c.level[j] = b.level[j]
<1> DEFINE nx == NextAppended(b, b.level[k], o)
           pv == [b.prev EXCEPT ![o] = b.level[k].tail]
           M == LevelAppended(b.level[k], o, b.order[o].rem)
           lv == [b.level EXCEPT ![k] = M]
           ar == [b.arr EXCEPT ![o] = b.clock]
<1>1. c = [b EXCEPT !.next = nx, !.prev = pv, !.level = lv, !.arr = ar, !.clock = b.clock + 1]
  BY Zenon DEF PushBack, LevelAppended, NextAppended
<1>2. M.agg = (b.level[k].agg + b.order[o].rem) % QtyMod
  BY DEF LevelAppended
<1> HIDE DEF M
<1>3. lv[k] = M /\ \A j \in Keys : j # k => lv[j] = b.level[j]
  BY BookTypes
<1> HIDE DEF nx, pv, lv, ar
<1>4. c.level = lv /\ c.arr = ar /\ c.clock = b.clock + 1
  BY <1>1 DEF Book
<1>5. QED
  BY <1>2, <1>3, <1>4 DEF ar

LEMMA RemoveFields ==
  ASSUME NEW b \in Book, NEW k \in Keys, NEW o \in Slots, b.level[k].cnt > 0
  PROVE  LET c == Remove(b, k, o) IN
         /\ c \in Book
         /\ c.order = b.order /\ c.free = b.free /\ c.ids = b.ids
         /\ c.nextId = b.nextId /\ c.ladder = b.ladder /\ c.pending = b.pending
         /\ c.arr = b.arr /\ c.clock = b.clock
         /\ c.next = NextRemoved(b, o)
         /\ c.prev = PrevRemoved(b, o)
         /\ c.level = [b.level EXCEPT ![k] =
                         LevelRemoved(b.level[k], b.prev[o], b.next[o], b.order[o].rem)]
<1> DEFINE c == Remove(b, k, o)
           L == b.level[k]
           M == LevelRemoved(L, b.prev[o], b.next[o], b.order[o].rem)
           nx == NextRemoved(b, o)
           pv == PrevRemoved(b, o)
<1>1. /\ L.head \in Slots \cup {Null} /\ L.tail \in Slots \cup {Null}
      /\ L.cnt \in Nat /\ L.agg \in Nat /\ b.order[o].rem \in Nat
      /\ b.next \in Links /\ b.prev \in Links
      /\ b.level \in [Keys -> Level]
  BY BookTypes
<1>2. M \in Level
  BY <1>1, QtyFacts DEF Level, LevelRemoved, Links
<1>3. nx \in Links /\ pv \in Links /\ [b.level EXCEPT ![k] = M] \in [Keys -> Level]
  BY <1>1, <1>2 DEF Links, NextRemoved, PrevRemoved
<1>4. c = [b EXCEPT !.next = nx, !.prev = pv, !.level = [b.level EXCEPT ![k] = M]]
  BY Zenon DEF Remove, LevelRemoved, NextRemoved, PrevRemoved
<1> HIDE DEF M, nx, pv, c
<1>5. c \in Book
  BY <1>3, <1>4 DEF Book, Links
<1>6. QED
  BY <1>4, <1>5 DEF Book, c, M, nx, pv

LEMMA RemoveKeeps ==
  ASSUME NEW b \in Book, NEW k \in Keys, NEW o \in Slots, b.level[k].cnt > 0
  PROVE  /\ Remove(b, k, o) \in Book
         /\ Remove(b, k, o).order = b.order
         /\ Remove(b, k, o).free = b.free
         /\ Remove(b, k, o).ids = b.ids
         /\ Remove(b, k, o).nextId = b.nextId
         /\ Remove(b, k, o).ladder = b.ladder
         /\ Remove(b, k, o).pending = b.pending
         /\ Remove(b, k, o).arr = b.arr
         /\ Remove(b, k, o).clock = b.clock
<1>1. Remove(b, k, o) \in Book
  BY RemoveFields, Zenon
<1>2. Remove(b, k, o).order = b.order
  BY RemoveFields, Zenon
<1>3. Remove(b, k, o).free = b.free
  BY RemoveFields, Zenon
<1>4. Remove(b, k, o).ids = b.ids
  BY RemoveFields, Zenon
<1>5. Remove(b, k, o).nextId = b.nextId
  BY RemoveFields, Zenon
<1>6. Remove(b, k, o).ladder = b.ladder
  BY RemoveFields, Zenon
<1>7. Remove(b, k, o).pending = b.pending
  BY RemoveFields, Zenon
<1>8. Remove(b, k, o).arr = b.arr
  BY RemoveFields, Zenon
<1>9. Remove(b, k, o).clock = b.clock
  BY RemoveFields, Zenon
<1>10. QED
  BY <1>1, <1>2, <1>3, <1>4, <1>5, <1>6, <1>7, <1>8, <1>9

LEMMA RemoveLevel ==
  ASSUME NEW b \in Book, NEW k \in Keys, NEW o \in Slots, b.level[k].cnt > 0,
         NEW c, c = Remove(b, k, o)
  PROVE  /\ c.level[k].agg = (b.level[k].agg - b.order[o].rem) % QtyMod
         /\ \A j \in Keys : j # k => c.level[j] = b.level[j]
<1> DEFINE d == Remove(b, k, o)
<1>1. d.level = [b.level EXCEPT ![k] =
                   LevelRemoved(b.level[k], b.prev[o], b.next[o], b.order[o].rem)]
  BY RemoveFields
<1>2. c = d /\ b.level \in [Keys -> Level]
  BY BookTypes
<1> HIDE DEF d
<1>3. QED
  BY <1>1, <1>2 DEF LevelRemoved

-----------------------------------------------------------------------------
(***************************************************************************)
(* The ladders.  lower_bound finds the place of a price in a vector that   *)
(* runs from the best price to the worst; an insertion there and an        *)
(* erasure keep the vector so.                                             *)
(***************************************************************************)
Px == Prices \cup {NoPrice}

LEMMA PxInt == Px \subseteq Int
BY PricesAssumption DEF Px, NoPrice

LEMMA VectorInt ==
  ASSUME NEW v \in Seq(Px)
  PROVE  Len(v) \in Nat /\ \A j \in 1..Len(v) : v[j] \in Px /\ v[j] \in Int
<1>1. Len(v) \in Nat /\ \A j \in 1..Len(v) : v[j] \in Px
  OBVIOUS
<1>2. QED
  BY <1>1, PxInt

LEMMA BetterOrder ==
  ASSUME NEW side, NEW p \in Int, NEW q \in Int, NEW r \in Int
  PROVE  /\ Better(side, p, q) => ~Better(side, q, p) /\ p # q
         /\ Better(side, p, q) \/ Better(side, q, p) \/ p = q
         /\ Better(side, p, q) /\ Better(side, q, r) => Better(side, p, r)
         /\ ~Better(side, p, q) /\ Better(side, p, r) => Better(side, q, r)
BY DEF Better

\* What lower_bound returns.
IsPlace(side, v, px, i) ==
  /\ i \in 1..(Len(v) + 1)
  /\ i <= Len(v) => ~Better(side, v[i], px)
  /\ \A j \in 1..(i - 1) : Better(side, v[j], px)

LEMMA LowerBoundIs ==
  ASSUME NEW side, NEW v \in Seq(Px), NEW px
  PROVE  IsPlace(side, v, px, LowerBound(side, v, px))
<1> DEFINE N == Len(v)
           Bad == {i \in 1..(N + 1) : i <= N => ~Better(side, v[i], px)}
<1>1. N \in Nat
  OBVIOUS
<1> HIDE DEF N
<1>2. Bad \in SUBSET Nat /\ N + 1 \in Bad
  BY <1>1
<1>3. PICK i \in Bad : \A k \in Bad : i <= k
  BY <1>2, SmallestNat
<1>4. i \in 1..(N + 1) /\ (i <= N => ~Better(side, v[i], px))
  BY <1>3
<1>5. \A j \in 1..(i - 1) : Better(side, v[j], px)
  <2> SUFFICES ASSUME NEW j \in 1..(i - 1), ~Better(side, v[j], px) PROVE FALSE
    OBVIOUS
  <2>1. j \in 1..(N + 1) /\ ~(i <= j)
    BY <1>1, <1>4
  <2>2. j \in Bad
    BY <2>1
  <2>3. QED
    BY <1>3, <2>1, <2>2
<1>6. QED
  BY <1>4, <1>5 DEF LowerBound, IsPlace, N

\* In a sorted vector a price is at its place or nowhere; the prices from its
\* place on are worse when it is nowhere.
LEMMA PlaceFacts ==
  ASSUME NEW side, NEW v \in Seq(Px), BestToWorst(side, v), NEW px \in Px,
         NEW i, IsPlace(side, v, px, i)
  PROVE  /\ \A j \in 1..Len(v) : v[j] = px => j = i
         /\ i > Len(v) \/ v[i] # px => \A j \in 1..Len(v) : j >= i => Better(side, px, v[j])
<1>1. Len(v) \in Nat /\ i \in 1..(Len(v) + 1) /\ \A j \in 1..Len(v) : v[j] \in Px /\ v[j] \in Int
  BY VectorInt DEF IsPlace
<1>2. px \in Int
  BY PxInt
<1>3. ASSUME NEW j \in 1..Len(v), v[j] = px PROVE j = i
  <2>1. CASE j < i
    <3>1. j \in 1..(i - 1)
      BY <1>1, <2>1
    <3>2. Better(side, px, px)
      BY <1>3, <3>1 DEF IsPlace
    <3>3. QED
      BY <1>2, <3>2, BetterOrder
  <2>2. CASE i < j
    <3>1. i \in 1..Len(v) /\ i <= Len(v)
      BY <1>1, <2>2
    <3>2. Better(side, v[i], v[j])
      BY <2>2, <3>1 DEF BestToWorst
    <3>3. QED
      BY <1>3, <3>1, <3>2 DEF IsPlace
  <2>3. QED
    BY <1>1, <2>1, <2>2
<1>4. ASSUME i > Len(v) \/ v[i] # px, NEW j \in 1..Len(v), j >= i
      PROVE  Better(side, px, v[j])
  <2>1. i \in 1..Len(v) /\ i <= Len(v) /\ v[i] # px
    BY <1>1, <1>4
  <2>2. v[i] \in Int /\ v[j] \in Int /\ ~Better(side, v[i], px)
    BY <1>1, <2>1 DEF IsPlace
  <2>3. Better(side, px, v[i])
    BY <1>2, <2>1, <2>2, BetterOrder
  <2>4. CASE i = j
    BY <2>3, <2>4
  <2>5. CASE i < j
    <3>1. Better(side, v[i], v[j])
      BY <2>1, <2>5 DEF BestToWorst
    <3>2. QED
      BY <1>2, <2>2, <2>3, <3>1, BetterOrder
  <2>6. QED
    BY <1>1, <1>4, <2>4, <2>5
<1>5. QED
  BY <1>3, <1>4

\* vector::insert and vector::erase, entry by entry.
LEMMA InsertAtIs ==
  ASSUME NEW S, NEW v \in Seq(S), NEW i \in 1..(Len(v) + 1), NEW x \in S
  PROVE  LET w == Seqs!InsertAt(v, i, x) IN
         /\ w \in Seq(S) /\ Len(w) = Len(v) + 1
         /\ \A j \in 1..(Len(v) + 1) :
              w[j] = IF j < i THEN v[j] ELSE IF j = i THEN x ELSE v[j - 1]
<1> DEFINE f == SubSeq(v, 1, i - 1)
           g == SubSeq(v, i, Len(v))
<1>1. Len(v) \in Nat
  OBVIOUS
<1>2. f \in Seq(S) /\ Len(f) = i - 1 /\ \A j \in 1..(i - 1) : f[j] = v[j]
  BY <1>1, SubSeqProperties
<1>3. /\ g \in Seq(S) /\ Len(g) = Len(v) - i + 1
      /\ \A j \in 1..(Len(v) - i + 1) : g[j] = v[i + j - 1]
  BY <1>1, SubSeqProperties
<1> HIDE DEF f, g
<1> DEFINE h == f \o <<x>>
<1>4. /\ h \in Seq(S) /\ Len(h) = i /\ h[i] = x
      /\ \A j \in 1..(i - 1) : h[j] = v[j]
  <2>1. <<x>> \in Seq(S) /\ Len(<<x>>) = 1 /\ <<x>>[1] = x
    OBVIOUS
  <2>2. QED
    BY <1>1, <1>2, <2>1, ConcatProperties
<1> HIDE DEF h
<1> DEFINE w == h \o g
<1>5. /\ w \in Seq(S) /\ Len(w) = Len(h) + Len(g)
      /\ \A j \in 1..(Len(h) + Len(g)) : w[j] = IF j <= Len(h) THEN h[j] ELSE g[j - Len(h)]
  BY <1>3, <1>4, ConcatProperties
<1>5a. Seqs!InsertAt(v, i, x) = w
  BY DEF Seqs!InsertAt, w, h, f, g
<1> HIDE DEF w
<1>5b. Len(w) = Len(v) + 1
  BY <1>1, <1>3, <1>4, <1>5
<1>6. ASSUME NEW j \in 1..(Len(v) + 1)
      PROVE  w[j] = IF j < i THEN v[j] ELSE IF j = i THEN x ELSE v[j - 1]
  <2>1. CASE j <= i
    <3>1. j \in 1..(Len(h) + Len(g)) /\ j <= Len(h)
      BY <1>1, <1>3, <1>4, <2>1
    <3>2. w[j] = h[j]
      BY <1>5, <3>1
    <3>3. j < i \/ j = i
      BY <1>1, <2>1
    <3>4. QED
      BY <1>4, <3>2, <3>3
  <2>2. CASE j > i
    <3>1. j - i \in 1..(Len(v) - i + 1) /\ i + (j - i) - 1 = j - 1
      BY <1>1, <2>2
    <3>2. w[j] = g[j - i]
      BY <1>1, <1>3, <1>4, <1>5, <2>2
    <3>3. QED
      BY <1>1, <1>3, <2>2, <3>1, <3>2
  <2>3. QED
    BY <1>1, <2>1, <2>2
<1>7. QED
  BY <1>5, <1>5a, <1>5b, <1>6

LEMMA RemoveAtIs ==
  ASSUME NEW S, NEW v \in Seq(S), NEW i \in 1..Len(v)
  PROVE  LET w == Seqs!RemoveAt(v, i) IN
         /\ w \in Seq(S) /\ Len(w) = Len(v) - 1
         /\ \A j \in 1..(Len(v) - 1) : w[j] = IF j < i THEN v[j] ELSE v[j + 1]
<1> DEFINE f == SubSeq(v, 1, i - 1)
           g == SubSeq(v, i + 1, Len(v))
<1>1. Len(v) \in Nat
  OBVIOUS
<1>2. f \in Seq(S) /\ Len(f) = i - 1 /\ \A j \in 1..(i - 1) : f[j] = v[j]
  BY <1>1, SubSeqProperties
<1>3. /\ g \in Seq(S) /\ Len(g) = Len(v) - i
      /\ \A j \in 1..(Len(v) - i) : g[j] = v[i + j]
  BY <1>1, SubSeqProperties
<1> HIDE DEF f, g
<1> DEFINE w == f \o g
<1>4. /\ w \in Seq(S) /\ Len(w) = Len(f) + Len(g)
      /\ \A j \in 1..(Len(f) + Len(g)) : w[j] = IF j <= Len(f) THEN f[j] ELSE g[j - Len(f)]
  BY <1>2, <1>3, ConcatProperties
<1>4a. Seqs!RemoveAt(v, i) = w
  BY DEF Seqs!RemoveAt, w, f, g
<1> HIDE DEF w
<1>4b. Len(w) = Len(v) - 1
  BY <1>1, <1>2, <1>3, <1>4
<1>5. ASSUME NEW j \in 1..(Len(v) - 1)
      PROVE  w[j] = IF j < i THEN v[j] ELSE v[j + 1]
  <2>1. CASE j < i
    BY <1>1, <1>2, <1>3, <1>4, <2>1
  <2>2. CASE j >= i
    <3>1. j - (i - 1) \in 1..(Len(v) - i) /\ i + (j - (i - 1)) = j + 1
      BY <1>1, <2>2
    <3>2. w[j] = g[j - (i - 1)]
      <4>1. j \in 1..(Len(f) + Len(g)) /\ ~(j <= Len(f)) /\ j - Len(f) = j - (i - 1)
        BY <1>1, <1>2, <1>3, <2>2
      <4>2. QED
        BY <1>4, <4>1
    <3>3. QED
      BY <1>1, <1>3, <2>2, <3>1, <3>2
  <2>3. QED
    BY <1>1, <2>1, <2>2
<1>6. QED
  BY <1>4, <1>4a, <1>4b, <1>5

OnVector(v, x) == \E j \in 1..Len(v) : v[j] = x

LEMMA InsertKeeps ==
  ASSUME NEW side, NEW v \in Seq(Px), BestToWorst(side, v), NEW px \in Px,
         NEW i, IsPlace(side, v, px, i), i > Len(v) \/ v[i] # px
  PROVE  LET w == Seqs!InsertAt(v, i, px) IN
         /\ w \in Seq(Px) /\ BestToWorst(side, w)
         /\ \A x : OnVector(w, x) <=> OnVector(v, x) \/ x = px
<1> DEFINE w == Seqs!InsertAt(v, i, px)
<1>1. Len(v) \in Nat /\ i \in 1..(Len(v) + 1) /\ px \in Int
      /\ \A j \in 1..Len(v) : v[j] \in Int
  BY PxInt, VectorInt DEF IsPlace
<1>2. /\ w \in Seq(Px) /\ Len(w) = Len(v) + 1
      /\ \A j \in 1..(Len(v) + 1) :
           w[j] = IF j < i THEN v[j] ELSE IF j = i THEN px ELSE v[j - 1]
  BY <1>1, InsertAtIs
<1> HIDE DEF w
<1>3. \A j \in 1..Len(v) : j < i => Better(side, v[j], px)
  BY <1>1 DEF IsPlace
<1>4. \A j \in 1..Len(v) : j >= i => Better(side, px, v[j])
  BY PlaceFacts
<1>5. ASSUME NEW j \in 1..Len(w), NEW k \in 1..Len(w), j < k PROVE Better(side, w[j], w[k])
  <2>1. CASE k < i
    <3>1. j \in 1..Len(v) /\ k \in 1..Len(v) /\ w[j] = v[j] /\ w[k] = v[k]
      BY <1>1, <1>2, <1>5, <2>1
    <3>2. QED
      BY <1>5, <3>1 DEF BestToWorst
  <2>2. CASE k = i
    <3>1. j \in 1..Len(v) /\ j < i /\ w[j] = v[j] /\ w[k] = px
      BY <1>1, <1>2, <1>5, <2>2
    <3>2. QED
      BY <1>3, <3>1
  <2>3. CASE k > i /\ j = i
    <3>1. k - 1 \in 1..Len(v) /\ k - 1 >= i /\ w[j] = px /\ w[k] = v[k - 1]
      BY <1>1, <1>2, <1>5, <2>3
    <3>2. QED
      BY <1>4, <3>1
  <2>4. CASE k > i /\ j < i
    <3>1. /\ k - 1 \in 1..Len(v) /\ j \in 1..Len(v) /\ j < k - 1
          /\ w[j] = v[j] /\ w[k] = v[k - 1]
      BY <1>1, <1>2, <1>5, <2>4
    <3>2. QED
      BY <3>1 DEF BestToWorst
  <2>5. CASE j > i
    <3>1. /\ k - 1 \in 1..Len(v) /\ j - 1 \in 1..Len(v) /\ j - 1 < k - 1
          /\ w[j] = v[j - 1] /\ w[k] = v[k - 1]
      BY <1>1, <1>2, <1>5, <2>5
    <3>2. QED
      BY <3>1 DEF BestToWorst
  <2>6. QED
    BY <1>1, <1>2, <1>5, <2>1, <2>2, <2>3, <2>4, <2>5
<1>6. ASSUME NEW x PROVE OnVector(w, x) <=> OnVector(v, x) \/ x = px
  <2>1. ASSUME OnVector(w, x) PROVE OnVector(v, x) \/ x = px
    <3>1. PICK j \in 1..(Len(v) + 1) : w[j] = x
      BY <1>2, <2>1 DEF OnVector
    <3>2. CASE j < i
      BY <1>1, <1>2, <3>1, <3>2 DEF OnVector
    <3>3. CASE j = i
      BY <1>1, <1>2, <3>1, <3>3
    <3>4. CASE j > i
      <4>1. j - 1 \in 1..Len(v) /\ v[j - 1] = x
        BY <1>1, <1>2, <3>1, <3>4
      <4>2. QED
        BY <4>1 DEF OnVector
    <3>5. QED
      BY <1>1, <3>2, <3>3, <3>4
  <2>2. ASSUME OnVector(v, x) PROVE OnVector(w, x)
    <3>1. PICK j \in 1..Len(v) : v[j] = x
      BY <2>2 DEF OnVector
    <3>2. CASE j < i
      <4>1. j \in 1..Len(w) /\ w[j] = x
        BY <1>1, <1>2, <3>1, <3>2
      <4>2. QED
        BY <4>1 DEF OnVector
    <3>3. CASE j >= i
      <4>1. j + 1 \in 1..Len(w) /\ w[j + 1] = v[(j + 1) - 1] /\ (j + 1) - 1 = j
        BY <1>1, <1>2, <3>3
      <4>2. QED
        BY <3>1, <4>1 DEF OnVector
    <3>4. QED
      BY <1>1, <3>2, <3>3
  <2>3. ASSUME x = px PROVE OnVector(w, x)
    <3>1. i \in 1..Len(w) /\ w[i] = px
      BY <1>1, <1>2
    <3>2. QED
      BY <2>3, <3>1 DEF OnVector
  <2>4. QED
    BY <2>1, <2>2, <2>3
<1>7. BestToWorst(side, w)
  BY <1>5 DEF BestToWorst
<1>8. QED
  BY <1>2, <1>6, <1>7 DEF w

LEMMA RemoveAtKeeps ==
  ASSUME NEW side, NEW v \in Seq(Px), BestToWorst(side, v), NEW i \in 1..Len(v)
  PROVE  LET w == Seqs!RemoveAt(v, i) IN
         /\ w \in Seq(Px) /\ BestToWorst(side, w)
         /\ \A x : OnVector(w, x) <=> OnVector(v, x) /\ x # v[i]
<1> DEFINE w == Seqs!RemoveAt(v, i)
           From(j) == IF j < i THEN j ELSE j + 1
<1>1. Len(v) \in Nat /\ \A j \in 1..Len(v) : v[j] \in Int
  BY VectorInt
<1>2. /\ w \in Seq(Px) /\ Len(w) = Len(v) - 1
      /\ \A j \in 1..(Len(v) - 1) : w[j] = IF j < i THEN v[j] ELSE v[j + 1]
  BY RemoveAtIs
<1> HIDE DEF w
<1>3. \A j \in 1..Len(w) : /\ From(j) \in 1..Len(v) /\ From(j) # i /\ w[j] = v[From(j)]
  BY <1>1, <1>2
<1>4. \A j, k \in 1..Len(w) : j < k => From(j) < From(k)
  BY <1>1, <1>2
<1>5. \A j \in 1..Len(v) : j # i => \E k \in 1..Len(w) : From(k) = j
  <2> SUFFICES ASSUME NEW j \in 1..Len(v), j # i PROVE \E k \in 1..Len(w) : From(k) = j
    OBVIOUS
  <2>1. CASE j < i
    <3>1. j \in 1..Len(w) /\ From(j) = j
      BY <1>1, <1>2, <2>1
    <3>2. QED
      BY <3>1
  <2>2. CASE j > i
    <3>1. j - 1 \in 1..Len(w) /\ From(j - 1) = j
      BY <1>1, <1>2, <2>2
    <3>2. QED
      BY <3>1
  <2>3. QED
    BY <1>1, <2>1, <2>2
<1> HIDE DEF From
<1>6. BestToWorst(side, w)
  BY <1>3, <1>4 DEF BestToWorst
<1>7. \A j \in 1..Len(v) : j # i => v[j] # v[i]
  <2> SUFFICES ASSUME NEW j \in 1..Len(v), j # i PROVE v[j] # v[i]
    OBVIOUS
  <2>1. Better(side, v[i], v[j]) \/ Better(side, v[j], v[i])
    BY <1>1 DEF BestToWorst
  <2>2. QED
    BY <1>1, <2>1, BetterOrder
<1>8. ASSUME NEW x PROVE OnVector(w, x) <=> OnVector(v, x) /\ x # v[i]
  <2>1. ASSUME OnVector(w, x) PROVE OnVector(v, x) /\ x # v[i]
    BY <1>3, <1>7, <2>1 DEF OnVector
  <2>2. ASSUME OnVector(v, x), x # v[i] PROVE OnVector(w, x)
    <3>1. PICK j \in 1..Len(v) : v[j] = x
      BY <2>2 DEF OnVector
    <3>2. PICK k \in 1..Len(w) : From(k) = j
      BY <1>5, <2>2, <3>1
    <3>3. QED
      BY <1>3, <3>1, <3>2 DEF OnVector
  <2>3. QED
    BY <2>1, <2>2
<1>9. QED
  BY <1>2, <1>6, <1>8 DEF w

\* The vectors of the two sides: the place of a key, and storing one vector.
LEMMA LadderPlace ==
  ASSUME NEW b \in Book, NEW k \in Keys
  PROVE  /\ b.ladder[k[1]] \in Seq(Px) /\ BestToWorst(k[1], b.ladder[k[1]])
         /\ k[1] \in Sides /\ k[2] \in Px
         /\ IsPlace(k[1], b.ladder[k[1]], k[2], PlaceOf(b, k))
         /\ HasLevel(b, k) <=> /\ PlaceOf(b, k) <= Len(b.ladder[k[1]])
                              /\ b.ladder[k[1]][PlaceOf(b, k)] = k[2]
         /\ HasLevel(b, k) <=> k \in LevelKeys(b.ladder)
<1> DEFINE v == b.ladder[k[1]]
           i == PlaceOf(b, k)
<1>1. k[1] \in Sides /\ k[2] \in Px
  BY DEF Keys, Px
<1>2. v \in Seq(Px) /\ BestToWorst(k[1], v)
  BY <1>1 DEF Book, Ladders, Px
<1>3. IsPlace(k[1], v, k[2], i)
  BY <1>2, LowerBoundIs DEF PlaceOf
<1>4. k \in LevelKeys(b.ladder) <=> OnVector(v, k[2])
  BY DEF LevelKeys, OnVector
<1>5. i \in 1..(Len(v) + 1) /\ Len(v) \in Nat
  BY <1>2, <1>3 DEF IsPlace
<1>6. HasLevel(b, k) <=> i <= Len(v) /\ v[i] = k[2]
  <2>1. HasLevel(b, k) <=> \E j \in 1..Len(v) : v[j] = k[2] /\ j = i
    BY Zenon DEF HasLevel
  <2> HIDE DEF v, i
  <2>2. QED
    BY <1>5, <2>1
<1> HIDE DEF v, i
<1>7. \A j \in 1..Len(v) : v[j] = k[2] => j = i
  BY <1>1, <1>2, <1>3, PlaceFacts
<1>8. (i <= Len(v) /\ v[i] = k[2]) <=> OnVector(v, k[2])
  <2>1. ASSUME OnVector(v, k[2]) PROVE i <= Len(v) /\ v[i] = k[2]
    BY <1>5, <1>7, <2>1 DEF OnVector
  <2>2. ASSUME i <= Len(v), v[i] = k[2] PROVE OnVector(v, k[2])
    <3>1. i \in 1..Len(v)
      BY <1>5, <2>2
    <3>2. QED
      BY <2>2, <3>1 DEF OnVector
  <2>3. QED
    BY <2>1, <2>2
<1>9. QED
  BY <1>1, <1>2, <1>3, <1>4, <1>6, <1>8 DEF v, i

LEMMA LadderStore ==
  ASSUME NEW l \in Ladders, NEW k \in Keys, NEW w \in Seq(Px), BestToWorst(k[1], w)
  PROVE  LET m == [l EXCEPT ![k[1]] = w] IN
         /\ m \in Ladders
         /\ \A j \in Keys : j \in LevelKeys(m) <=>
              IF j[1] = k[1] THEN OnVector(w, j[2]) ELSE j \in LevelKeys(l)
<1>1. k[1] \in Sides /\ \A j \in Keys : j[1] \in Sides
  BY DEF Keys
<1>2. l \in [Sides -> Seq(Px)] /\ \A side \in Sides : BestToWorst(side, l[side])
  BY DEF Ladders, Px
<1> DEFINE m == [l EXCEPT ![k[1]] = w]
<1>3. /\ m \in [Sides -> Seq(Px)] /\ m[k[1]] = w
      /\ \A side \in Sides : side # k[1] => m[side] = l[side]
  BY <1>1, <1>2
<1> HIDE DEF m
<1>4. m \in Ladders
  BY <1>2, <1>3 DEF Ladders, Px
<1>5. ASSUME NEW j \in Keys
      PROVE  j \in LevelKeys(m) <=> IF j[1] = k[1] THEN OnVector(w, j[2]) ELSE j \in LevelKeys(l)
  BY <1>1, <1>3 DEF LevelKeys, OnVector
<1>6. QED
  BY <1>4, <1>5 DEF m

\* On one side the second components tell keys apart.
LEMMA KeysOfSide ==
  ASSUME NEW b \in Book, NEW k \in Keys, NEW j \in Keys
  PROVE  /\ j = k <=> j[1] = k[1] /\ j[2] = k[2]
         /\ j[1] = k[1] => (j \in LevelKeys(b.ladder) <=> OnVector(b.ladder[k[1]], j[2]))
BY DEF Keys, LevelKeys, OnVector

LEMMA EraseFields ==
  ASSUME NEW b \in Book, NEW k \in Keys, k \in LevelKeys(b.ladder)
  PROVE  LET c == EraseLevel(b, k) IN
         /\ c \in Book
         /\ c.order = b.order /\ c.free = b.free /\ c.ids = b.ids
         /\ c.nextId = b.nextId /\ c.pending = b.pending
         /\ c.arr = b.arr /\ c.clock = b.clock /\ c.next = b.next /\ c.prev = b.prev
         /\ LevelKeys(c.ladder) = LevelKeys(b.ladder) \ {k}
         /\ c.level = [b.level EXCEPT ![k] = EmptyLevel]
<1> DEFINE c == EraseLevel(b, k)
           lv == [b.level EXCEPT ![k] = EmptyLevel]
           v == b.ladder[k[1]]
           i == PlaceOf(b, k)
           w == Seqs!RemoveAt(v, i)
           m == [b.ladder EXCEPT ![k[1]] = w]
<1>1. EmptyLevel \in Level
  BY QtyModAssumption DEF EmptyLevel, Level, Qty
<1>2. lv \in [Keys -> Level] /\ b.ladder \in Ladders
  BY <1>1, BookTypes
<1>3. HasLevel(b, k)
  BY LadderPlace
<1>4. v \in Seq(Px) /\ BestToWorst(k[1], v) /\ i \in 1..Len(v) /\ v[i] = k[2]
  <2>1. v \in Seq(Px) /\ BestToWorst(k[1], v) /\ IsPlace(k[1], v, k[2], i)
    BY LadderPlace
  <2>2. i <= Len(v) /\ v[i] = k[2]
    BY <1>3, LadderPlace
  <2>3. QED
    BY <2>1, <2>2 DEF IsPlace
<1>5. c = [b EXCEPT !.ladder = m, !.level = lv]
  BY <1>2, <1>3, Zenon DEF EraseLevel, PlaceOf, Ladders
<1>6. \A j \in Keys : /\ j = k <=> j[1] = k[1] /\ j[2] = k[2]
                      /\ j[1] = k[1] => (j \in LevelKeys(b.ladder) <=> OnVector(v, j[2]))
  BY KeysOfSide
<1> HIDE DEF v, i
<1>7. /\ w \in Seq(Px) /\ BestToWorst(k[1], w)
      /\ \A x : OnVector(w, x) <=> OnVector(v, x) /\ x # k[2]
  BY <1>4, RemoveAtKeeps
<1> HIDE DEF w
<1>8. /\ m \in Ladders
      /\ \A j \in Keys : j \in LevelKeys(m) <=>
           IF j[1] = k[1] THEN OnVector(w, j[2]) ELSE j \in LevelKeys(b.ladder)
  BY <1>2, <1>7, LadderStore
<1> HIDE DEF m, lv, c
<1>9. \A j \in Keys : j \in LevelKeys(m) <=> j \in LevelKeys(b.ladder) /\ j # k
  BY <1>6, <1>7, <1>8
<1>10. LevelKeys(m) = LevelKeys(b.ladder) \ {k}
  BY <1>9 DEF LevelKeys
<1>11. c \in Book
  BY <1>2, <1>5, <1>8 DEF Book
<1>12. QED
  BY <1>5, <1>10, <1>11 DEF Book, c, lv

LEMMA EmplaceFields ==
  ASSUME NEW b \in Book, NEW k \in Keys
  PROVE  LET c == FindOrEmplace(b, k)
             L == IF HasLevel(b, k) THEN b.level[k] ELSE EmptyLevel IN
         /\ c \in Book
         /\ c.order = b.order /\ c.free = b.free /\ c.ids = b.ids
         /\ c.nextId = b.nextId /\ c.pending = b.pending
         /\ c.arr = b.arr /\ c.clock = b.clock /\ c.next = b.next /\ c.prev = b.prev
         /\ LevelKeys(c.ladder) = LevelKeys(b.ladder) \cup {k}
         /\ c.level = [b.level EXCEPT ![k] = L]
<1> DEFINE c == FindOrEmplace(b, k)
<1>1. CASE HasLevel(b, k)
  <2>1. c = b
    BY <1>1 DEF FindOrEmplace
  <2>2. LevelKeys(b.ladder) \cup {k} = LevelKeys(b.ladder)
    BY <1>1, LadderPlace
  <2>3. [b.level EXCEPT ![k] = b.level[k]] = b.level
    BY BookTypes
  <2>4. QED
    BY <1>1, <2>1, <2>2, <2>3
<1>2. CASE ~HasLevel(b, k)
  <2> DEFINE lv == [b.level EXCEPT ![k] = EmptyLevel]
             v == b.ladder[k[1]]
             i == PlaceOf(b, k)
             w == Seqs!InsertAt(v, i, k[2])
             m == [b.ladder EXCEPT ![k[1]] = w]
  <2>1. EmptyLevel \in Level
    BY QtyModAssumption DEF EmptyLevel, Level, Qty
  <2>2. lv \in [Keys -> Level] /\ b.ladder \in Ladders
    BY <2>1, BookTypes
  <2>3. /\ v \in Seq(Px) /\ BestToWorst(k[1], v) /\ IsPlace(k[1], v, k[2], i)
        /\ k[2] \in Px
    BY LadderPlace
  <2>4. i > Len(v) \/ v[i] # k[2]
    <3>1. ~(i <= Len(v) /\ v[i] = k[2])
      BY <1>2, LadderPlace
    <3>2. i \in Int /\ Len(v) \in Int
      BY <2>3 DEF IsPlace
    <3> HIDE DEF v, i
    <3>3. QED
      BY <3>1, <3>2
  <2>5. c = [b EXCEPT !.ladder = m, !.level = lv]
    BY <1>2, <2>2, Zenon DEF FindOrEmplace, PlaceOf, Ladders
  <2>6. \A j \in Keys : /\ j = k <=> j[1] = k[1] /\ j[2] = k[2]
                        /\ j[1] = k[1] => (j \in LevelKeys(b.ladder) <=> OnVector(v, j[2]))
    BY KeysOfSide
  <2> HIDE DEF v, i
  <2>7. /\ w \in Seq(Px) /\ BestToWorst(k[1], w)
        /\ \A x : OnVector(w, x) <=> OnVector(v, x) \/ x = k[2]
    BY <2>3, <2>4, InsertKeeps
  <2> HIDE DEF w
  <2>8. /\ m \in Ladders
        /\ \A j \in Keys : j \in LevelKeys(m) <=>
             IF j[1] = k[1] THEN OnVector(w, j[2]) ELSE j \in LevelKeys(b.ladder)
    BY <2>2, <2>7, LadderStore
  <2> HIDE DEF m, lv, c
  <2>9. \A j \in Keys : j \in LevelKeys(m) <=> j \in LevelKeys(b.ladder) \/ j = k
    BY <2>6, <2>7, <2>8
  <2>10. LevelKeys(m) = LevelKeys(b.ladder) \cup {k}
    BY <2>9 DEF LevelKeys
  <2>11. c \in Book
    BY <2>2, <2>5, <2>8 DEF Book
  <2>12. QED
    BY <1>2, <2>5, <2>10, <2>11 DEF Book, c, lv
<1>3. QED
  BY <1>1, <1>2

\* put_id and drop_id store one entry of the id table.
LEMMA IdFields ==
  ASSUME NEW b \in Book, NEW id \in Ids, NEW s \in Slots \cup {Null}
  PROVE  LET c == [b EXCEPT !.ids[id] = s] IN
         /\ c \in Book
         /\ c.order = b.order /\ c.free = b.free
         /\ c.nextId = b.nextId /\ c.pending = b.pending /\ c.ladder = b.ladder
         /\ c.arr = b.arr /\ c.clock = b.clock /\ c.next = b.next /\ c.prev = b.prev
         /\ c.level = b.level
         /\ c.ids = [b.ids EXCEPT ![id] = s]
<1> DEFINE c == [b EXCEPT !.ids[id] = s]
           t == [b.ids EXCEPT ![id] = s]
<1>1. t \in [Ids -> Slots \cup {Null}]
  BY BookTypes
<1>2. c = [b EXCEPT !.ids = t]
  BY Zenon
<1> HIDE DEF t, c
<1>3. c \in Book
  BY <1>1, <1>2 DEF Book
<1>4. QED
  BY <1>2, <1>3 DEF Book, c, t

LEMMA DeallocateFields ==
  ASSUME NEW b \in Book, NEW o \in Slots
  PROVE  LET c == Deallocate(b, o) IN
         /\ c \in Book
         /\ c.order = b.order /\ c.ids = b.ids
         /\ c.nextId = b.nextId /\ c.pending = b.pending /\ c.ladder = b.ladder
         /\ c.arr = b.arr /\ c.clock = b.clock /\ c.next = b.next /\ c.prev = b.prev
         /\ c.level = b.level
         /\ c.free = Append(b.free, o)
<1> DEFINE c == Deallocate(b, o)
<1>1. Append(b.free, o) \in Seq(Slots)
  BY BookTypes
<1>2. c = [b EXCEPT !.free = Append(b.free, o)]
  BY Zenon DEF Deallocate
<1> HIDE DEF c
<1>3. c \in Book
  BY <1>1, <1>2 DEF Book
<1>4. QED
  BY <1>2, <1>3 DEF Book, c

\* allocate followed by the stores of the new order's fields and its id.
LEMMA AllocateFields ==
  ASSUME NEW b \in Book, b.free # <<>>, NEW o \in Slots, o = FreshSlot(b),
         NEW ord \in Order, b.nextId <= MaxId
  PROVE  LET c == [Allocate(b) EXCEPT !.order[o] = ord, !.nextId = @ + 1] IN
         /\ c \in Book
         /\ c.ids = b.ids /\ c.pending = b.pending /\ c.ladder = b.ladder
         /\ c.arr = b.arr /\ c.clock = b.clock /\ c.level = b.level
         /\ c.order = [b.order EXCEPT ![o] = ord]
         /\ c.next = [b.next EXCEPT ![o] = Null]
         /\ c.prev = [b.prev EXCEPT ![o] = Null]
         /\ c.nextId = b.nextId + 1
         /\ c.free = SubSeq(b.free, 1, Len(b.free) - 1)
<1> DEFINE c == [Allocate(b) EXCEPT !.order[o] = ord, !.nextId = @ + 1]
           a == Allocate(b)
           fr == SubSeq(b.free, 1, Len(b.free) - 1)
           nx == [b.next EXCEPT ![o] = Null]
           pv == [b.prev EXCEPT ![o] = Null]
           or1 == [b.order EXCEPT ![o] = BlankOrder]
           or2 == [b.order EXCEPT ![o] = ord]
<1>1. fr \in Seq(Slots)
  <2>1. b.free \in Seq(Slots) /\ Len(b.free) \in Nat /\ Len(b.free) > 0
    BY BookTypes
  <2>2. QED
    BY <2>1
<1>2. BlankOrder \in Order
  BY BlankType
<1>3. /\ nx \in Links /\ pv \in Links /\ or1 \in [Slots -> Order] /\ or2 \in [Slots -> Order]
      /\ [or1 EXCEPT ![o] = ord] = or2
  BY <1>2, BookTypes DEF Links
<1>4. a = [b EXCEPT !.free = fr, !.order = or1, !.prev = pv, !.next = nx]
  BY Zenon DEF Allocate
<1>5. b.nextId + 1 \in 1..(MaxId + 1)
  BY MaxIdAssumption, BookTypes
<1> HIDE DEF fr, nx, pv, or1, or2, a
<1>6. /\ a \in Book /\ a.order = or1 /\ a.nextId = b.nextId /\ a.ids = b.ids
      /\ a.pending = b.pending /\ a.ladder = b.ladder /\ a.arr = b.arr
      /\ a.clock = b.clock /\ a.level = b.level /\ a.next = nx /\ a.prev = pv
      /\ a.free = fr
  BY <1>1, <1>3, <1>4 DEF Book, Links
<1>7. c = [a EXCEPT !.order = or2, !.nextId = b.nextId + 1]
  BY <1>3, <1>6, Zenon DEF a
<1> HIDE DEF c
<1>8. c \in Book
  BY <1>3, <1>5, <1>6, <1>7, ZenonT(40) DEF Book
<1>9. QED
  BY <1>6, <1>7, <1>8 DEF Book, c, fr, nx, pv, or2

-----------------------------------------------------------------------------
(***************************************************************************)
(* The pool and the id table: giving a free slot a new id, and the reverse. *)
(***************************************************************************)
LEMMA LiveFacts ==
  ASSUME NEW b, BookInv(b), NEW o \in Live(b)
  PROVE  /\ o \in Slots /\ b.order[o].id \in Ids /\ b.ids[b.order[o].id] = o
         /\ b.order[o].id < b.nextId /\ b.order[o].id # 0
<1>1. o \in Slots /\ b.ids[b.order[o].id] = o /\ b.order[o].id \in Ids /\ b.nextId \in Nat
  BY BookTypes, MaxIdAssumption DEF BookInv, Live
<1>2. b.ids[b.order[o].id] # Null
  BY <1>1, SlotFacts
<1>3. QED
  BY <1>1, <1>2, MaxIdAssumption DEF BookInv, FreshIds, Ids

\* From b to c the slot o left the freelist and got the next id.
Issued(b, c, o) ==
  /\ b.free # <<>> /\ b.nextId <= MaxId /\ o = FreshSlot(b)
  /\ c.order[o].id = b.nextId
  /\ \A s \in Slots \ {o} : c.order[s] = b.order[s]
  /\ c.free = SubSeq(b.free, 1, Len(b.free) - 1)
  /\ c.ids = [b.ids EXCEPT ![b.nextId] = o]
  /\ c.nextId = b.nextId + 1

LEMMA IssueSlot ==
  ASSUME NEW b, NEW c \in Book, BookInv(b), NEW o, Issued(b, c, o)
  PROVE  /\ Live(c) = Live(b) \cup {o} /\ o \notin Live(b)
         /\ PoolPartitioned(c) /\ FreshIds(c)
<1> b \in Book
  BY DEF BookInv
<1> USE DEF Issued
<1>1. /\ b.nextId \in Ids /\ b.nextId # 0 /\ b.nextId \in Nat /\ b.ids[b.nextId] = Null
      /\ b.ids \in [Ids -> Slots \cup {Null}] /\ b.order \in [Slots -> Order]
  BY BookTypes, MaxIdAssumption DEF BookInv, FreshIds, Ids
<1>2. /\ o \in Slots /\ o \notin Live(b) /\ b.free \in Seq(Slots)
      /\ Len(b.free) \in Nat /\ Len(b.free) > 0
  BY FreshFacts, BookTypes
<1>3. c.order[o].id = b.nextId /\ c.ids[b.nextId] = o
  BY <1>1
<1>4. \A s \in Slots : s # o => c.order[s] = b.order[s] /\ b.order[s].id \in Ids
  BY <1>1, BookTypes
<1>5. \A s \in Slots : s # o => (c.ids[b.order[s].id] = s <=> b.ids[b.order[s].id] = s)
  <2> SUFFICES ASSUME NEW s \in Slots, s # o
               PROVE  c.ids[b.order[s].id] = s <=> b.ids[b.order[s].id] = s
    OBVIOUS
  <2>1. CASE b.order[s].id = b.nextId
    BY <1>1, <1>3, <2>1, SlotFacts
  <2>2. CASE b.order[s].id # b.nextId
    BY <1>1, <1>4, <2>2
  <2>3. QED
    BY <2>1, <2>2
<1>6. Live(c) = Live(b) \cup {o}
  BY <1>2, <1>3, <1>4, <1>5 DEF Live
<1>7. /\ Len(c.free) = Len(b.free) - 1
      /\ \A i \in 1..Len(c.free) : c.free[i] = b.free[i]
  BY <1>2
<1>8. \A i, j \in 1..Len(b.free) : b.free[i] = b.free[j] => i = j
  BY DEF BookInv, PoolPartitioned
<1>9. \A i, j \in 1..Len(c.free) : c.free[i] = c.free[j] => i = j
  BY <1>2, <1>7, <1>8, SMTT(30)
<1>10. FreeSlots(c) = FreeSlots(b) \ {o}
  <2>1. ASSUME NEW i \in 1..Len(c.free) PROVE c.free[i] \in FreeSlots(b) /\ c.free[i] # o
    <3>1. i \in 1..Len(b.free) /\ i # Len(b.free) /\ Len(b.free) \in 1..Len(b.free)
      BY <1>2, <1>7
    <3>2. QED
      BY <1>7, <1>8, <3>1 DEF FreeSlots, FreshSlot
  <2>2. ASSUME NEW i \in 1..Len(b.free), b.free[i] # o PROVE b.free[i] \in FreeSlots(c)
    <3>1. i \in 1..Len(c.free)
      BY <1>2, <1>7, <2>2 DEF FreshSlot
    <3>2. QED
      BY <1>7, <3>1 DEF FreeSlots
  <2>3. ASSUME NEW x \in FreeSlots(c) PROVE x \in FreeSlots(b) \ {o}
    BY <2>1 DEF FreeSlots
  <2>4. ASSUME NEW x \in FreeSlots(b) \ {o} PROVE x \in FreeSlots(c)
    <3>1. PICK i \in 1..Len(b.free) : x = b.free[i]
      BY DEF FreeSlots
    <3>2. QED
      BY <2>2, <3>1
  <2>5. QED
    BY <2>3, <2>4
<1>11. \A id \in Ids : c.ids[id] # Null => c.order[c.ids[id]].id = id
  <2> SUFFICES ASSUME NEW id \in Ids, c.ids[id] # Null PROVE c.order[c.ids[id]].id = id
    OBVIOUS
  <2>1. CASE id = b.nextId
    BY <1>3, <2>1
  <2>2. CASE id # b.nextId
    <3>1. c.ids[id] = b.ids[id] /\ b.ids[id] \in Slots /\ b.order[b.ids[id]].id = id
      BY <1>1, <2>2 DEF BookInv, PoolPartitioned
    <3>2. b.ids[id] \in Live(b)
      BY <3>1 DEF Live
    <3>3. QED
      BY <1>2, <1>4, <3>1, <3>2
  <2>3. QED
    BY <2>1, <2>2
<1>12. PoolPartitioned(c)
  <2>1. \A s \in Slots : s \in FreeSlots(b) <=> s \notin Live(b)
    BY DEF BookInv, PoolPartitioned
  <2>2. \A s \in Slots : s \in FreeSlots(c) <=> s \notin Live(c)
    BY <1>6, <1>10, <2>1
  <2>3. QED
    BY <1>9, <1>11, <2>2 DEF PoolPartitioned
<1>13. FreshIds(c)
  <2> SUFFICES ASSUME NEW id \in Ids, id >= c.nextId \/ id = 0 PROVE c.ids[id] = Null
    BY DEF FreshIds
  <2>1. id # b.nextId /\ (id >= b.nextId \/ id = 0)
    BY <1>1, MaxIdAssumption DEF Ids
  <2>2. b.ids[id] = Null
    BY <2>1 DEF BookInv, FreshIds
  <2>3. QED
    BY <1>1, <2>1, <2>2
<1>14. QED
  BY <1>2, <1>6, <1>12, <1>13

\* From b to c the slot o lost its id and went back to the freelist.
SlotReturned(b, c, o) ==
  /\ c.order = b.order
  /\ c.free = Append(b.free, o)
  /\ c.ids = [b.ids EXCEPT ![b.order[o].id] = Null]
  /\ c.nextId = b.nextId

LEMMA ReturnSlot ==
  ASSUME NEW b, NEW c \in Book, BookInv(b), NEW o \in Live(b), SlotReturned(b, c, o)
  PROVE  /\ Live(c) = Live(b) \ {o}
         /\ PoolPartitioned(c) /\ FreshIds(c)
<1> b \in Book
  BY DEF BookInv
<1> USE DEF SlotReturned
<1>1. /\ o \in Slots /\ b.order[o].id \in Ids /\ b.ids[b.order[o].id] = o
      /\ b.ids \in [Ids -> Slots \cup {Null}] /\ b.free \in Seq(Slots)
      /\ Len(b.free) \in Nat
  BY LiveFacts, BookTypes
<1>2. \A s \in Slots : b.order[s].id \in Ids
  BY BookTypes
<1>3. Live(c) = Live(b) \ {o}
  <2>1. \A s \in Slots : c.ids[b.order[s].id] = s <=> b.ids[b.order[s].id] = s /\ s # o
    <3> SUFFICES ASSUME NEW s \in Slots
                 PROVE  c.ids[b.order[s].id] = s <=> b.ids[b.order[s].id] = s /\ s # o
      OBVIOUS
    <3>1. CASE b.order[s].id = b.order[o].id
      BY <1>1, <3>1, SlotFacts
    <3>2. CASE b.order[s].id # b.order[o].id
      BY <1>1, <1>2, <3>2
    <3>3. QED
      BY <3>1, <3>2
  <2>2. QED
    BY <2>1 DEF Live
<1>4. /\ Len(c.free) = Len(b.free) + 1 /\ c.free[Len(b.free) + 1] = o
      /\ \A i \in 1..Len(b.free) : c.free[i] = b.free[i]
  BY <1>1
<1>5. FreeSlots(c) = FreeSlots(b) \cup {o}
  <2>1. 1..Len(c.free) = (1..Len(b.free)) \cup {Len(b.free) + 1}
    BY <1>1, <1>4
  <2>2. QED
    BY <1>4, <2>1 DEF FreeSlots
<1>6. o \notin FreeSlots(b) /\ \A s \in Slots : s \in FreeSlots(b) <=> s \notin Live(b)
  BY <1>1 DEF BookInv, PoolPartitioned
<1>7. \A i, j \in 1..Len(c.free) : c.free[i] = c.free[j] => i = j
  <2>1. \A i \in 1..Len(b.free) : c.free[i] # o
    BY <1>4, <1>6 DEF FreeSlots
  <2>2. \A i, j \in 1..Len(b.free) : c.free[i] = c.free[j] => i = j
    BY <1>4 DEF BookInv, PoolPartitioned
  <2>3. \A i \in 1..Len(c.free) : i \in 1..Len(b.free) \/ i = Len(b.free) + 1
    BY <1>1, <1>4
  <2>4. QED
    BY <1>4, <2>1, <2>2, <2>3
<1>8. \A id \in Ids : c.ids[id] # Null => c.order[c.ids[id]].id = id
  BY <1>1 DEF BookInv, PoolPartitioned
<1>9. \A s \in Slots : s \in FreeSlots(c) <=> s \notin Live(c)
  BY <1>1, <1>3, <1>5, <1>6
<1>10. FreshIds(c)
  BY <1>1 DEF BookInv, FreshIds
<1>11. QED
  BY <1>3, <1>7, <1>8, <1>9, <1>10 DEF PoolPartitioned

-----------------------------------------------------------------------------
(***************************************************************************)
(* The queues of all levels together.  R[k] is the set of orders linked in *)
(* level k; between a remove and a push_back it is not Resting(b, k).      *)
(***************************************************************************)
Queues(R, b) ==
  /\ R \in [Keys -> SUBSET Slots]
  /\ \A j, k \in Keys : j # k => R[j] \cap R[k] = {}
  /\ \A k \in Keys : /\ IsFifo(R[k], b.level[k], b.next, b.prev, b.arr)
                     /\ b.level[k].cnt = Cardinality(R[k])

RestingMap(b) == [k \in Keys |-> Resting(b, k)]

LEMMA QueuesOfInv ==
  ASSUME NEW b, BookInv(b)
  PROVE  Queues(RestingMap(b), b)
<1>1. \A k \in Keys : Resting(b, k) \in SUBSET Slots
  BY DEF Resting, Live
<1>2. \A j, k \in Keys : j # k => Resting(b, j) \cap Resting(b, k) = {}
  BY DEF Resting
<1>3. QED
  BY <1>1, <1>2 DEF BookInv, FifoLevels, ExactLevels, Queues, RestingMap

LEMMA InvOfQueues ==
  ASSUME NEW b \in Book, PoolPartitioned(b), NoDangling(b), FreshIds(b), ClockAhead(b),
         NEW R, Queues(R, b), \A k \in Keys : Resting(b, k) = R[k],
         \A k \in Keys : k \in LevelKeys(b.ladder) <=> R[k] # {}
  PROVE  BookInv(b)
BY DEF BookInv, FifoLevels, ExactLevels, Queues

LEMMA QueueFacts ==
  ASSUME NEW R, NEW b, Queues(R, b), NEW k \in Keys
  PROVE  /\ R[k] \in SUBSET Slots /\ IsFiniteSet(R[k]) /\ Cardinality(R[k]) \in Nat
         /\ IsFifo(R[k], b.level[k], b.next, b.prev, b.arr)
         /\ b.level[k].cnt = Cardinality(R[k])
         /\ b.level[k].cnt = 0 <=> R[k] = {}
<1>1. /\ R[k] \in SUBSET Slots /\ IsFifo(R[k], b.level[k], b.next, b.prev, b.arr)
      /\ b.level[k].cnt = Cardinality(R[k])
  BY DEF Queues
<1>2. IsFiniteSet(R[k])
  BY <1>1, SlotFacts, FS_Subset
<1>3. QED
  BY <1>1, <1>2, FS_CardinalityType, FS_EmptySet

\* What does not touch the links or the list of any level.
LEMMA QueuesFrame ==
  ASSUME NEW R, NEW b, NEW c, Queues(R, b),
         \A k \in Keys : /\ c.level[k].head = b.level[k].head
                         /\ c.level[k].tail = b.level[k].tail
                         /\ c.level[k].cnt = b.level[k].cnt,
         \A k \in Keys : \A s \in R[k] : /\ c.next[s] = b.next[s]
                                         /\ c.prev[s] = b.prev[s]
                                         /\ c.arr[s] = b.arr[s]
  PROVE  Queues(R, c)
<1>1. ASSUME NEW k \in Keys
      PROVE  IsFifo(R[k], c.level[k], c.next, c.prev, c.arr)
  <2>1. IsFifo(R[k], b.level[k], b.next, b.prev, b.arr)
    BY DEF Queues
  <2>2. QED
    BY <2>1, FifoFrame
<1>2. QED
  BY <1>1 DEF Queues

LEMMA PushBackQueues ==
  ASSUME NEW R, NEW b \in Book, Queues(R, b), ClockAhead(b), NEW k \in Keys,
         NEW o \in Slots, \A j \in Keys : o \notin R[j]
  PROVE  /\ Queues([R EXCEPT ![k] = @ \cup {o}], PushBack(b, k, o))
         /\ ClockAhead(PushBack(b, k, o))
<1> DEFINE c == PushBack(b, k, o)
           L == b.level[k]
           S == [R EXCEPT ![k] = R[k] \cup {o}]
<1>1. /\ c.next = NextAppended(b, L, o) /\ c.prev = [b.prev EXCEPT ![o] = L.tail]
      /\ c.level = [b.level EXCEPT ![k] = LevelAppended(L, o, b.order[o].rem)]
      /\ c.arr = [b.arr EXCEPT ![o] = b.clock] /\ c.clock = b.clock + 1
  BY PushBackFields
<1>2. /\ b.next \in Links /\ b.prev \in Links /\ b.arr \in [Slots -> Nat] /\ b.clock \in Nat
      /\ b.level \in [Keys -> Level]
  BY BookTypes
<1>3. R \in [Keys -> SUBSET Slots] /\ \A i, j \in Keys : i # j => R[i] \cap R[j] = {}
  BY DEF Queues
<1>4. /\ R[k] \in SUBSET Slots /\ IsFiniteSet(R[k]) /\ L.cnt = Cardinality(R[k])
      /\ IsFifo(R[k], L, b.next, b.prev, b.arr)
  BY QueueFacts
<1>5. L.tail # o /\ (L.tail = Null \/ L.tail \in R[k])
  BY <1>3, <1>4, SlotFacts DEF IsFifo
<1>6. \A s \in Slots : c.next[s] = IF s = L.tail THEN o ELSE IF s = o THEN Null ELSE b.next[s]
  BY <1>1 DEF NextAppended
<1>7. c.level[k] = LevelAppended(L, o, b.order[o].rem) /\ \A j \in Keys : j # k => c.level[j] = b.level[j]
  BY <1>1, <1>2
<1> HIDE DEF c, L
<1>8. IsFifo(R[k] \cup {o}, c.level[k], c.next, c.prev, c.arr)
  <2>1. \A s \in R[k] : b.arr[s] < b.clock
    BY <1>4 DEF ClockAhead
  <2>2. c.level[k].head = (IF L.head = Null THEN o ELSE L.head) /\ c.level[k].tail = o
    BY <1>7 DEF LevelAppended
  <2>3. c.next[o] = Null /\ c.prev[o] = L.tail /\ c.arr[o] = b.clock
    BY <1>1, <1>2, <1>5, <1>6 DEF Links
  <2>4. \A s \in R[k] : /\ c.next[s] = IF s = L.tail THEN o ELSE b.next[s]
                        /\ c.prev[s] = b.prev[s] /\ c.arr[s] = b.arr[s]
    BY <1>1, <1>2, <1>4, <1>6 DEF Links
  <2>5. o \in Slots \ R[k]
    OBVIOUS
  <2>6. QED
    BY <1>2, <1>4, <2>1, <2>2, <2>3, <2>4, <2>5, FifoAppend
<1>9. ASSUME NEW j \in Keys, j # k
      PROVE  IsFifo(R[j], c.level[j], c.next, c.prev, c.arr) /\ c.level[j].cnt = Cardinality(R[j])
  <2>1. R[j] \subseteq Slots /\ o \notin R[j] /\ L.tail \notin R[j]
    BY <1>3, <1>5, <1>9, SlotFacts
  <2>2. \A s \in R[j] : c.next[s] = b.next[s] /\ c.prev[s] = b.prev[s] /\ c.arr[s] = b.arr[s]
    BY <1>1, <1>2, <1>6, <2>1 DEF Links
  <2>3. IsFifo(R[j], b.level[j], b.next, b.prev, b.arr) /\ b.level[j].cnt = Cardinality(R[j])
    BY QueueFacts
  <2>4. c.level[j] = b.level[j]
    BY <1>7, <1>9
  <2>5. QED
    BY <2>2, <2>3, <2>4, FifoFrame
<1>10. c.level[k].cnt = Cardinality(R[k] \cup {o})
  <2>1. Cardinality(R[k] \cup {o}) = Cardinality(R[k]) + 1
    BY <1>4, FS_AddElement
  <2>2. c.level[k].cnt = L.cnt + 1
    BY <1>7 DEF LevelAppended
  <2>3. QED
    BY <1>4, <2>1, <2>2
<1>11. S \in [Keys -> SUBSET Slots] /\ S[k] = R[k] \cup {o} /\ \A j \in Keys : j # k => S[j] = R[j]
  BY <1>3
<1>12. \A i, j \in Keys : i # j => S[i] \cap S[j] = {}
  BY <1>3, <1>11
<1>13. Queues(S, c)
  <2> HIDE DEF S
  <2> QED
    BY <1>8, <1>9, <1>10, <1>11, <1>12 DEF Queues
<1>14. ClockAhead(c)
  BY <1>1, <1>2 DEF ClockAhead
<1>15. QED
  BY <1>13, <1>14 DEF c

LEMMA RemoveQueues ==
  ASSUME NEW R, NEW b \in Book, Queues(R, b), NEW k \in Keys, NEW o \in R[k]
  PROVE  /\ Queues([R EXCEPT ![k] = @ \ {o}], Remove(b, k, o))
         /\ b.level[k].cnt > 0
<1> DEFINE c == Remove(b, k, o)
           L == b.level[k]
           p == b.prev[o]
           n == b.next[o]
           S == [R EXCEPT ![k] = R[k] \ {o}]
<1>1. /\ b.next \in Links /\ b.prev \in Links /\ b.arr \in [Slots -> Nat]
      /\ b.level \in [Keys -> Level]
  BY BookTypes
<1>2. R \in [Keys -> SUBSET Slots] /\ \A i, j \in Keys : i # j => R[i] \cap R[j] = {}
  BY DEF Queues
<1>3. /\ R[k] \in SUBSET Slots /\ IsFiniteSet(R[k]) /\ L.cnt = Cardinality(R[k])
      /\ IsFifo(R[k], L, b.next, b.prev, b.arr) /\ o \in Slots /\ L.cnt > 0
      /\ Cardinality(R[k]) \in Nat
  BY QueueFacts
<1>4. /\ c.next = NextRemoved(b, o) /\ c.prev = PrevRemoved(b, o) /\ c.arr = b.arr
      /\ c.level = [b.level EXCEPT ![k] = LevelRemoved(L, p, n, b.order[o].rem)]
  BY <1>3, RemoveFields
<1>5. (p = Null \/ p \in R[k]) /\ (n = Null \/ n \in R[k])
  BY <1>3 DEF IsFifo
<1>6. \A s \in Slots : s # o => /\ c.next[s] = IF s = p THEN n ELSE b.next[s]
                                /\ c.prev[s] = IF s = n THEN p ELSE b.prev[s]
  BY <1>4 DEF NextRemoved, PrevRemoved
<1>7. c.level[k] = LevelRemoved(L, p, n, b.order[o].rem) /\ \A j \in Keys : j # k => c.level[j] = b.level[j]
  BY <1>1, <1>4
<1> HIDE DEF c, L
<1>8. IsFifo(R[k] \ {o}, c.level[k], c.next, c.prev, c.arr)
  <2>1. /\ c.level[k].head = IF b.prev[o] = Null THEN b.next[o] ELSE L.head
        /\ c.level[k].tail = IF b.next[o] = Null THEN b.prev[o] ELSE L.tail
    BY <1>7 DEF LevelRemoved
  <2>2. \A s \in R[k] \ {o} : /\ c.next[s] = IF s = b.prev[o] THEN b.next[o] ELSE b.next[s]
                              /\ c.prev[s] = IF s = b.next[o] THEN b.prev[o] ELSE b.prev[s]
                              /\ c.arr[s] = b.arr[s]
    BY <1>3, <1>4, <1>6
  <2>3. QED
    BY <1>1, <1>3, <2>1, <2>2, FifoRemove
<1>9. ASSUME NEW j \in Keys, j # k
      PROVE  IsFifo(R[j], c.level[j], c.next, c.prev, c.arr) /\ c.level[j].cnt = Cardinality(R[j])
  <2>1. R[j] \subseteq Slots /\ o \notin R[j] /\ p \notin R[j] /\ n \notin R[j]
    BY <1>2, <1>5, <1>9, SlotFacts
  <2>2. \A s \in R[j] : c.next[s] = b.next[s] /\ c.prev[s] = b.prev[s] /\ c.arr[s] = b.arr[s]
    BY <1>4, <1>6, <2>1
  <2>3. IsFifo(R[j], b.level[j], b.next, b.prev, b.arr) /\ b.level[j].cnt = Cardinality(R[j])
    BY QueueFacts
  <2>4. c.level[j] = b.level[j]
    BY <1>7, <1>9
  <2>5. QED
    BY <2>2, <2>3, <2>4, FifoFrame
<1>10. c.level[k].cnt = Cardinality(R[k] \ {o})
  <2>1. Cardinality(R[k] \ {o}) = Cardinality(R[k]) - 1
    BY <1>3, FS_RemoveElement
  <2>2. c.level[k].cnt = L.cnt - 1
    BY <1>7 DEF LevelRemoved
  <2>3. QED
    BY <1>3, <2>1, <2>2
<1>11. S \in [Keys -> SUBSET Slots] /\ S[k] = R[k] \ {o} /\ \A j \in Keys : j # k => S[j] = R[j]
  BY <1>2
<1>12. \A i, j \in Keys : i # j => S[i] \cap S[j] = {}
  BY <1>2, <1>11
<1>13. Queues(S, c)
  <2> HIDE DEF S
  <2> QED
    BY <1>8, <1>9, <1>10, <1>11, <1>12 DEF Queues
<1>14. QED
  BY <1>3, <1>13 DEF c, L

\* Creating or erasing the level of a price where nothing rests.
LEMMA EmptyLevelQueues ==
  ASSUME NEW R, NEW b \in Book, NEW c, Queues(R, b), NEW k \in Keys, R[k] = {},
         c.level = [b.level EXCEPT ![k] = EmptyLevel],
         c.next = b.next, c.prev = b.prev, c.arr = b.arr
  PROVE  Queues(R, c)
<1>1. /\ b.level[k].head = Null /\ b.level[k].tail = Null /\ b.level[k].cnt = 0
      /\ b.level \in [Keys -> Level]
  BY QueueFacts, BookTypes DEF IsFifo
<1>2. \A j \in Keys : /\ c.level[j].head = b.level[j].head
                      /\ c.level[j].tail = b.level[j].tail
                      /\ c.level[j].cnt = b.level[j].cnt
  BY <1>1 DEF EmptyLevel
<1>3. QED
  BY <1>2, QueuesFrame

-----------------------------------------------------------------------------
(***************************************************************************)
(* What an operation does to the book, as a relation of the book before    *)
(* and after it: the lemmas below establish these together with the        *)
(* invariant, and the action properties and the depth follow from them.    *)
(***************************************************************************)

\* ord takes the free slot o and, unless it is a stop, queues behind the
\* orders of its level.
LimitAdded(b, c, k, o, ord) ==
  /\ o \in Slots \ Live(b) /\ ord.id = b.nextId
  /\ c.order = [b.order EXCEPT ![o] = ord]
  /\ Live(c) = Live(b) \cup {o} /\ Stops(c) = Stops(b)
  /\ \A j : Resting(c, j) = Resting(b, j) \cup (IF j = k THEN {o} ELSE {})
  /\ \A j \in Keys : j # k => c.level[j] = b.level[j]
  /\ c.level[k].agg = ((IF HasLevel(b, k) THEN b.level[k].agg ELSE 0) + ord.rem) % QtyMod
  /\ c.arr = [b.arr EXCEPT ![o] = b.clock] /\ c.clock = b.clock + 1
  /\ c.nextId = b.nextId + 1 /\ c.pending = b.pending

StopAdded(b, c, o, ord) ==
  /\ o \in Slots \ Live(b) /\ ord.id = b.nextId /\ ord.stype # NoStop
  /\ c.order = [b.order EXCEPT ![o] = ord]
  /\ Live(c) = Live(b) \cup {o} /\ Stops(c) = Stops(b) \cup {o}
  /\ \A j : Resting(c, j) = Resting(b, j)
  /\ c.level = b.level /\ c.arr = b.arr /\ c.clock = b.clock
  /\ c.nextId = b.nextId + 1 /\ c.pending = Append(b.pending, o)

\* The order in slot o leaves level k and the book.
Retired(b, c, k, o) ==
  /\ c.order = b.order /\ c.free # <<>>
  /\ Live(c) = Live(b) \ {o} /\ Stops(c) = Stops(b)
  /\ \A j : Resting(c, j) = Resting(b, j) \ {o}
  /\ \A j \in Keys : j # k => c.level[j] = b.level[j]
  /\ c.level[k].agg = IF Resting(b, k) = {o} THEN 0
                      ELSE (b.level[k].agg - b.order[o].rem) % QtyMod
  /\ c.arr = b.arr /\ c.clock = b.clock /\ c.nextId = b.nextId
  /\ c.pending = b.pending

\* A pending stop in one of the slots of O, or none, leaves the book.
StopsLeft(b, c, O) ==
  /\ c.order = b.order /\ Live(c) = Live(b) \ O /\ Stops(c) = Stops(b) \ O
  /\ \A j : Resting(c, j) = Resting(b, j)
  /\ c.level = b.level /\ c.arr = b.arr /\ c.clock = b.clock /\ c.nextId = b.nextId

\* Only the quantities of the order in slot o and the aggregate of level k
\* change: to those of ord and to x.
Resized(b, c, k, o, ord, x) ==
  /\ SameShape(b, c)
  /\ c.order = [b.order EXCEPT ![o] = ord]
  /\ \A j \in Keys : j # k => c.level[j] = b.level[j]
  /\ c.level[k].agg = x

\* The order in slot o shows its next slice and queues at the back.
Requeued(b, c, k, o) ==
  LET slice == MinOf(b.order[o].disp, b.order[o].hid) IN
  /\ c.order = [b.order EXCEPT ![o] = [b.order[o] EXCEPT !.hid = @ - slice, !.rem = slice]]
  /\ Live(c) = Live(b) /\ Stops(c) = Stops(b)
  /\ \A j : Resting(c, j) = Resting(b, j)
  /\ \A j \in Keys : j # k => c.level[j] = b.level[j]
  /\ c.level[k].agg = (((b.level[k].agg - b.order[o].rem) % QtyMod) + slice) % QtyMod
  /\ c.arr = [b.arr EXCEPT ![o] = b.clock] /\ c.clock = b.clock + 1
  /\ c.nextId = b.nextId /\ c.pending = b.pending

-----------------------------------------------------------------------------
(***************************************************************************)
(* The operations that add an order.                                       *)
(***************************************************************************)
\* The fields that add_limit_order and add_pending_stop store.
LimitOrder(b, side, price, qty) ==
  [BlankOrder EXCEPT !.id = b.nextId, !.price = price, !.qty = qty,
                     !.rem = qty, !.side = side]

StopOrder(b, side, stop, qty, stype, price, display) ==
  [BlankOrder EXCEPT !.id = b.nextId, !.side = side, !.stop = stop, !.stype = stype,
                     !.price = price, !.qty = qty, !.rem = qty, !.disp = display,
                     !.hid = IF display > 0 /\ qty > display THEN qty - display ELSE 0]

LEMMA IssuedSets ==
  ASSUME NEW b, NEW c \in Book, BookInv(b), NEW o \in Slots \ Live(b), NEW ord \in Order,
         c.order = [b.order EXCEPT ![o] = ord],
         Live(c) = Live(b) \cup {o}
  PROVE  /\ \A j : Resting(c, j) = Resting(b, j) \cup
                     (IF ord.stype = NoStop /\ j = <<ord.side, ord.price>> THEN {o} ELSE {})
         /\ Stops(c) = Stops(b) \cup (IF ord.stype # NoStop THEN {o} ELSE {})
<1>1. b.order \in [Slots -> Order] /\ Live(b) \subseteq Slots
  BY BookTypes DEF BookInv, Live
<1>2. c.order[o] = ord /\ \A s \in Live(b) : c.order[s] = b.order[s]
  BY <1>1
<1>3. \A j : Resting(c, j) = Resting(b, j) \cup
               (IF ord.stype = NoStop /\ j = <<ord.side, ord.price>> THEN {o} ELSE {})
  BY <1>2 DEF Resting, KeyOf
<1>4. QED
  BY <1>2, <1>3 DEF Stops

\* The slot being filled is in no queue, so storing into it disturbs none.
LEMMA AllocateQueues ==
  ASSUME NEW b, BookInv(b), NEW c, NEW o \in Slots \ Live(b),
         c.level = b.level, c.arr = b.arr,
         c.next = [b.next EXCEPT ![o] = Null], c.prev = [b.prev EXCEPT ![o] = Null]
  PROVE  Queues(RestingMap(b), c) /\ \A j \in Keys : o \notin RestingMap(b)[j]
<1>1. b.next \in Links /\ b.prev \in Links
  BY BookTypes DEF BookInv
<1>2. \A j \in Keys : o \notin RestingMap(b)[j] /\ RestingMap(b)[j] \subseteq Slots
  BY DEF RestingMap, Resting, Live
<1>3. \A j \in Keys : \A s \in RestingMap(b)[j] :
        c.next[s] = b.next[s] /\ c.prev[s] = b.prev[s] /\ c.arr[s] = b.arr[s]
  BY <1>1, <1>2 DEF Links
<1>4. Queues(RestingMap(b), b)
  BY QueuesOfInv
<1>5. \A j \in Keys : /\ c.level[j].head = b.level[j].head
                      /\ c.level[j].tail = b.level[j].tail
                      /\ c.level[j].cnt = b.level[j].cnt
  OBVIOUS
<1>6. Queues(RestingMap(b), c)
  <2> DEFINE R == RestingMap(b)
  <2>1. /\ Queues(R, b)
        /\ \A j \in Keys : \A s \in R[j] :
             c.next[s] = b.next[s] /\ c.prev[s] = b.prev[s] /\ c.arr[s] = b.arr[s]
    BY <1>3, <1>4
  <2> HIDE DEF R
  <2>2. Queues(R, c)
    BY ONLY <1>5, <2>1, QueuesFrame
  <2>3. QED
    BY <2>2 DEF R
<1>7. QED
  BY <1>2, <1>6

LEMMA AddLimitInv ==
  ASSUME NEW b, BookInv(b), b.nextId <= MaxId,
         NEW side \in Sides, NEW price \in Prices, NEW qty \in Qty
  PROVE  LET c == AddLimitOrder(b, side, price, qty) IN
         /\ BookInv(c)
         /\ b.free = <<>> => c = b
         /\ b.free # <<>> => LimitAdded(b, c, <<side, price>>, FreshSlot(b),
                                       LimitOrder(b, side, price, qty))
<1>1. CASE b.free = <<>>
  BY <1>1 DEF AddLimitOrder
<1>2. CASE b.free # <<>>
  <2> DEFINE o == FreshSlot(b)
             k == <<side, price>>
             ord == LimitOrder(b, side, price, qty)
             b1 == [Allocate(b) EXCEPT !.order[o] = ord, !.nextId = @ + 1]
             b2 == FindOrEmplace(b1, k)
             b3 == PushBack(b2, k, o)
             c == PutId(b3, o)
             R == RestingMap(b)
             S == [R EXCEPT ![k] = @ \cup {o}]
  <2>0. AddLimitOrder(b, side, price, qty) = c
    BY <1>2, Zenon DEF AddLimitOrder, LimitOrder
  <2>1. b \in Book /\ o \in Slots /\ o \notin Live(b) /\ k \in Keys
    BY <1>2, FreshFacts DEF BookInv, Keys
  <2>2. b.nextId \in Ids /\ b.nextId \in Nat
    BY <2>1, BookTypes, MaxIdAssumption DEF Ids
  <2>3. /\ ord \in Order /\ ord.id = b.nextId /\ ord.side = side /\ ord.price = price
        /\ ord.stype = NoStop
    BY <2>2, BlankType DEF Order, LimitOrder
  <2> HIDE DEF ord, o
  <2>4. /\ b1 \in Book
        /\ b1.ids = b.ids /\ b1.pending = b.pending /\ b1.ladder = b.ladder
        /\ b1.arr = b.arr /\ b1.clock = b.clock /\ b1.level = b.level
        /\ b1.order = [b.order EXCEPT ![o] = ord]
        /\ b1.next = [b.next EXCEPT ![o] = Null]
        /\ b1.prev = [b.prev EXCEPT ![o] = Null]
        /\ b1.nextId = b.nextId + 1
        /\ b1.free = SubSeq(b.free, 1, Len(b.free) - 1)
    BY <1>2, <2>1, <2>3, AllocateFields DEF o
  <2> HIDE DEF b1, k
  <2>5. /\ b2 \in Book
        /\ b2.order = b1.order /\ b2.free = b1.free /\ b2.ids = b1.ids
        /\ b2.nextId = b1.nextId /\ b2.pending = b1.pending
        /\ b2.arr = b1.arr /\ b2.clock = b1.clock /\ b2.next = b1.next /\ b2.prev = b1.prev
        /\ LevelKeys(b2.ladder) = LevelKeys(b1.ladder) \cup {k}
        /\ b2.level = [b1.level EXCEPT ![k] = IF HasLevel(b1, k) THEN b1.level[k] ELSE EmptyLevel]
    BY <2>1, <2>4, EmplaceFields
  <2> HIDE DEF b2
  <2>6. /\ b3 \in Book
        /\ b3.order = b2.order /\ b3.free = b2.free /\ b3.ids = b2.ids
        /\ b3.nextId = b2.nextId /\ b3.ladder = b2.ladder /\ b3.pending = b2.pending
    <3>1. b2 \in Book /\ k \in Keys /\ o \in Slots
      BY <2>1, <2>5
    <3>2. QED
      BY <3>1, PushBackKeeps
  <2> HIDE DEF b3
  <2>7. c = [b3 EXCEPT !.ids[b.nextId] = o]
    <3>1. b.order \in [Slots -> Order]
      BY <2>1, BookTypes
    <3>2. b3.order[o].id = b.nextId
      BY <2>1, <2>3, <2>4, <2>5, <2>6, <3>1
    <3>3. QED
      BY <3>2 DEF PutId
  <2> HIDE DEF c
  <2>8. /\ c \in Book /\ c.order = b3.order /\ c.free = b3.free
        /\ c.nextId = b3.nextId /\ c.pending = b3.pending /\ c.ladder = b3.ladder
        /\ c.arr = b3.arr /\ c.clock = b3.clock /\ c.next = b3.next /\ c.prev = b3.prev
        /\ c.level = b3.level /\ c.ids = [b3.ids EXCEPT ![b.nextId] = o]
    BY <2>1, <2>2, <2>6, <2>7, IdFields
  <2>9. /\ Live(c) = Live(b) \cup {o} /\ PoolPartitioned(c) /\ FreshIds(c)
    <3>1. /\ c.order = [b.order EXCEPT ![o] = ord] /\ c.nextId = b.nextId + 1
          /\ c.free = SubSeq(b.free, 1, Len(b.free) - 1)
          /\ c.ids = [b.ids EXCEPT ![b.nextId] = o]
      BY <2>4, <2>5, <2>6, <2>8
    <3>2. c.order[o].id = b.nextId /\ \A s \in Slots \ {o} : c.order[s] = b.order[s]
      BY <2>1, <2>3, <3>1, BookTypes
    <3>3. c \in Book /\ Issued(b, c, o)
      BY <1>2, <2>8, <3>1, <3>2 DEF o, Issued
    <3>4. QED
      BY <3>3, IssueSlot
  <2>10. /\ \A j : Resting(c, j) = Resting(b, j) \cup (IF j = k THEN {o} ELSE {})
         /\ Stops(c) = Stops(b)
    <3>1. c.order = [b.order EXCEPT ![o] = ord] /\ c \in Book /\ ord \in Order
      BY <2>3, <2>4, <2>5, <2>6, <2>8
    <3>2. o \in Slots \ Live(b) /\ Live(c) = Live(b) \cup {o}
      BY <2>1, <2>9
    <3>3. /\ \A j : Resting(c, j) = Resting(b, j) \cup
                      (IF ord.stype = NoStop /\ j = <<ord.side, ord.price>> THEN {o} ELSE {})
          /\ Stops(c) = Stops(b) \cup (IF ord.stype # NoStop THEN {o} ELSE {})
      BY <3>1, <3>2, IssuedSets
    <3>4. QED
      BY <2>3, <3>3 DEF k
  <2>11. Queues(R, b1) /\ \A j \in Keys : o \notin R[j]
    BY <2>1, <2>4, AllocateQueues
  <2>12. Queues(R, b2)
    <3>1. CASE HasLevel(b1, k)
      BY <2>11, <3>1 DEF b2, FindOrEmplace
    <3>2. CASE ~HasLevel(b1, k)
      <4>1. R[k] = {}
        BY <2>1, <2>4, <3>2, LadderPlace DEF BookInv, ExactLevels, RestingMap
      <4>2. b2.level = [b1.level EXCEPT ![k] = EmptyLevel]
        BY <2>5, <3>2
      <4>3. QED
        BY <2>1, <2>4, <2>5, <2>11, <4>1, <4>2, EmptyLevelQueues
    <3>3. QED
      BY <3>1, <3>2
  <2>13. ClockAhead(b2)
    BY <2>4, <2>5 DEF BookInv, ClockAhead
  <2>14. Queues(S, b3) /\ ClockAhead(b3)
    BY <2>1, <2>5, <2>11, <2>12, <2>13, PushBackQueues DEF b3
  <2>15. Queues(S, c) /\ ClockAhead(c)
    <3> HIDE DEF S
    <3> QED
      BY <2>8, <2>14, QueuesFrame DEF ClockAhead
  <2>16. \A j \in Keys : S[j] = Resting(c, j) /\ (j \in LevelKeys(c.ladder) <=> S[j] # {})
    <3> SUFFICES ASSUME NEW j \in Keys
                 PROVE  S[j] = Resting(c, j) /\ (j \in LevelKeys(c.ladder) <=> S[j] # {})
      OBVIOUS
    <3>1. S[j] = IF j = k THEN Resting(b, k) \cup {o} ELSE Resting(b, j)
      BY <2>1 DEF RestingMap
    <3>2. j \in LevelKeys(c.ladder) <=> j \in LevelKeys(b.ladder) \/ j = k
      BY <2>4, <2>5, <2>6, <2>8
    <3>3. j \in LevelKeys(b.ladder) <=> Resting(b, j) # {}
      BY DEF BookInv, ExactLevels
    <3>4. QED
      BY <2>10, <3>1, <3>2, <3>3
  <2>17. NoDangling(c)
    BY <2>4, <2>5, <2>6, <2>8, <2>10 DEF BookInv, NoDangling
  <2>18. BookInv(c)
    <3> HIDE DEF S
    <3> QED
      BY <2>8, <2>9, <2>15, <2>16, <2>17, InvOfQueues
  <2>19. LimitAdded(b, c, k, o, ord)
    <3>1. /\ \A j \in Keys : j # k => b2.level[j] = b.level[j]
          /\ b2.level[k].agg = IF HasLevel(b, k) THEN b.level[k].agg ELSE 0
      <4>1. /\ b1.level = b.level /\ b1.ladder = b.ladder /\ b.level \in [Keys -> Level]
            /\ b2.level = [b1.level EXCEPT ![k] = IF HasLevel(b1, k) THEN b1.level[k] ELSE EmptyLevel]
        BY <2>1, <2>4, <2>5, BookTypes
      <4>2. HasLevel(b1, k) <=> HasLevel(b, k)
        BY <4>1 DEF HasLevel, PlaceOf
      <4>3. QED
        BY <2>1, <4>1, <4>2 DEF EmptyLevel
    <3>2. b2.order[o] = ord /\ b2 \in Book /\ k \in Keys /\ o \in Slots
      BY <2>1, <2>4, <2>5, BookTypes
    <3>3. /\ \A j \in Keys : j # k => b3.level[j] = b2.level[j]
          /\ b3.level[k].agg = (b2.level[k].agg + ord.rem) % QtyMod
          /\ b3.arr = [b2.arr EXCEPT ![o] = b2.clock] /\ b3.clock = b2.clock + 1
      BY <3>2, PushBackLevel DEF b3
    <3>4. /\ \A j \in Keys : j # k => c.level[j] = b.level[j]
          /\ c.level[k].agg = ((IF HasLevel(b, k) THEN b.level[k].agg ELSE 0) + ord.rem) % QtyMod
      BY <2>1, <2>8, <3>1, <3>3
    <3>5. /\ c.order = [b.order EXCEPT ![o] = ord] /\ c.nextId = b.nextId + 1
          /\ c.pending = b.pending
          /\ c.arr = [b.arr EXCEPT ![o] = b.clock] /\ c.clock = b.clock + 1
      BY <2>4, <2>5, <2>6, <2>8, <3>3
    <3>6. QED
      BY <2>1, <2>3, <2>9, <2>10, <3>4, <3>5 DEF LimitAdded
  <2>20. QED
    BY <1>2, <2>0, <2>18, <2>19 DEF o, k, ord
<1>3. QED
  BY <1>1, <1>2

LEMMA AddPendingInv ==
  ASSUME NEW b, BookInv(b), b.nextId <= MaxId, NEW side \in Sides, NEW qty \in Qty,
         NEW stop \in Prices,
         NEW stype \in StopTypes \ {NoStop}, NEW price \in Prices \cup {NoPrice},
         NEW display \in Qty
  PROVE  LET c == AddPendingStop(b, side, stop, qty, stype, price, display) IN
         /\ BookInv(c)
         /\ b.free = <<>> => c = b
         /\ b.free # <<>> => StopAdded(b, c, FreshSlot(b),
                                      StopOrder(b, side, stop, qty, stype, price, display))
<1>1. CASE b.free = <<>>
  BY <1>1 DEF AddPendingStop
<1>2. CASE b.free # <<>>
  <2> DEFINE o == FreshSlot(b)
             hid == IF display > 0 /\ qty > display THEN qty - display ELSE 0
             ord == StopOrder(b, side, stop, qty, stype, price, display)
             b1 == [Allocate(b) EXCEPT !.order[o] = ord, !.nextId = @ + 1]
             b2 == [b1 EXCEPT !.pending = Append(b.pending, o)]
             c == PutId(b2, o)
             R == RestingMap(b)
  <2>1. b \in Book /\ o \in Slots /\ o \notin Live(b)
    BY <1>2, FreshFacts DEF BookInv
  <2>2. b.nextId \in Ids /\ b.nextId \in Nat /\ b.pending \in Seq(Slots)
    BY <2>1, BookTypes, MaxIdAssumption DEF Ids
  <2>3. ord \in Order /\ ord.id = b.nextId /\ ord.stype # NoStop
    <3>1. hid \in Qty
      BY QtyModAssumption DEF Qty
    <3>2. ord = [BlankOrder EXCEPT !.id = b.nextId, !.side = side, !.stop = stop, !.stype = stype,
                                   !.price = price, !.qty = qty, !.rem = qty,
                                   !.disp = display, !.hid = hid]
      BY Zenon DEF StopOrder
    <3> HIDE DEF hid, ord
    <3>3. QED
      BY <2>2, <3>1, <3>2, BlankType DEF Order
  <2> HIDE DEF ord, o
  <2>4. /\ b1 \in Book
        /\ b1.ids = b.ids /\ b1.pending = b.pending /\ b1.ladder = b.ladder
        /\ b1.arr = b.arr /\ b1.clock = b.clock /\ b1.level = b.level
        /\ b1.order = [b.order EXCEPT ![o] = ord]
        /\ b1.next = [b.next EXCEPT ![o] = Null]
        /\ b1.prev = [b.prev EXCEPT ![o] = Null]
        /\ b1.nextId = b.nextId + 1
        /\ b1.free = SubSeq(b.free, 1, Len(b.free) - 1)
    BY <1>2, <2>1, <2>3, AllocateFields DEF o
  <2>5. AddPendingStop(b, side, stop, qty, stype, price, display) = c
    BY <1>2, <2>4 DEF AddPendingStop, o, ord, StopOrder
  <2> HIDE DEF b1
  <2>6. /\ b2 \in Book
        /\ b2.order = b1.order /\ b2.free = b1.free /\ b2.ids = b1.ids
        /\ b2.nextId = b1.nextId /\ b2.ladder = b1.ladder /\ b2.level = b1.level
        /\ b2.arr = b1.arr /\ b2.clock = b1.clock /\ b2.next = b1.next /\ b2.prev = b1.prev
        /\ b2.pending = Append(b.pending, o)
    <3>1. Append(b.pending, o) \in Seq(Slots)
      BY <2>1, <2>2
    <3>2. QED
      BY <2>4, <3>1 DEF Book
  <2> HIDE DEF b2
  <2>7. c = [b2 EXCEPT !.ids[b.nextId] = o]
    <3>1. b2.order[o].id = b.nextId
      BY <2>1, <2>3, <2>4, <2>6, BookTypes
    <3>2. QED
      BY <3>1 DEF PutId
  <2> HIDE DEF c
  <2>8. /\ c \in Book /\ c.order = b2.order /\ c.free = b2.free
        /\ c.nextId = b2.nextId /\ c.pending = b2.pending /\ c.ladder = b2.ladder
        /\ c.arr = b2.arr /\ c.clock = b2.clock /\ c.next = b2.next /\ c.prev = b2.prev
        /\ c.level = b2.level /\ c.ids = [b2.ids EXCEPT ![b.nextId] = o]
    BY <2>1, <2>2, <2>6, <2>7, IdFields
  <2>9. Live(c) = Live(b) \cup {o} /\ PoolPartitioned(c) /\ FreshIds(c)
    <3>1. /\ c.order = [b.order EXCEPT ![o] = ord] /\ c.nextId = b.nextId + 1
          /\ c.free = SubSeq(b.free, 1, Len(b.free) - 1)
          /\ c.ids = [b.ids EXCEPT ![b.nextId] = o]
      BY <2>4, <2>6, <2>8
    <3>2. c.order[o].id = b.nextId /\ \A s \in Slots \ {o} : c.order[s] = b.order[s]
      BY <2>1, <2>3, <3>1, BookTypes
    <3>3. c \in Book /\ Issued(b, c, o)
      BY <1>2, <2>8, <3>1, <3>2 DEF o, Issued
    <3>4. QED
      BY <3>3, IssueSlot
  <2>10. (\A j : Resting(c, j) = Resting(b, j)) /\ Stops(c) = Stops(b) \cup {o}
    <3>1. c.order = [b.order EXCEPT ![o] = ord] /\ c \in Book /\ ord \in Order
      BY <2>3, <2>4, <2>6, <2>8
    <3>2. o \in Slots \ Live(b) /\ Live(c) = Live(b) \cup {o}
      BY <2>1, <2>9
    <3>3. /\ \A j : Resting(c, j) = Resting(b, j) \cup
                      (IF ord.stype = NoStop /\ j = <<ord.side, ord.price>> THEN {o} ELSE {})
          /\ Stops(c) = Stops(b) \cup (IF ord.stype # NoStop THEN {o} ELSE {})
      BY <3>1, <3>2, IssuedSets
    <3>4. QED
      BY <2>3, <3>3
  <2>11. Queues(R, c)
    <3>1. /\ c.level = b.level /\ c.arr = b.arr
          /\ c.next = [b.next EXCEPT ![o] = Null] /\ c.prev = [b.prev EXCEPT ![o] = Null]
      BY <2>4, <2>6, <2>8
    <3>2. QED
      BY <2>1, <3>1, AllocateQueues
  <2>12. ClockAhead(c)
    BY <2>4, <2>6, <2>8 DEF BookInv, ClockAhead
  <2>13. NoDangling(c)
    <3>1. c.pending = Append(b.pending, o)
      BY <2>6, <2>8
    <3>2. \A i \in 1..Len(b.pending) : b.pending[i] \in Stops(b) /\ b.pending[i] # o
      BY <2>1 DEF BookInv, NoDangling, Stops
    <3>3. Len(b.pending) \in Nat /\ Len(c.pending) = Len(b.pending) + 1
      BY <2>2, <3>1
    <3>4. /\ c.pending[Len(b.pending) + 1] = o
          /\ \A i \in 1..Len(b.pending) : c.pending[i] = b.pending[i]
      BY <2>1, <2>2, <3>1, <3>3
    <3>5. \A i \in 1..Len(c.pending) : i \in 1..Len(b.pending) \/ i = Len(b.pending) + 1
      BY <3>3
    <3>6. \A i, j \in 1..Len(b.pending) : b.pending[i] = b.pending[j] => i = j
      BY DEF BookInv, NoDangling
    <3>7. QED
      BY <2>10, <3>2, <3>4, <3>5, <3>6 DEF NoDangling
  <2>14. \A j \in Keys : R[j] = Resting(c, j) /\ (j \in LevelKeys(c.ladder) <=> R[j] # {})
    BY <2>4, <2>6, <2>8, <2>10 DEF RestingMap, BookInv, ExactLevels
  <2>15. BookInv(c)
    <3> HIDE DEF R
    <3> QED
      BY <2>8, <2>9, <2>11, <2>12, <2>13, <2>14, InvOfQueues
  <2>16. StopAdded(b, c, o, ord)
    <3>1. /\ c.order = [b.order EXCEPT ![o] = ord] /\ c.nextId = b.nextId + 1
          /\ c.pending = Append(b.pending, o) /\ c.level = b.level
          /\ c.arr = b.arr /\ c.clock = b.clock
      BY <2>4, <2>6, <2>8
    <3>2. QED
      BY <2>1, <2>3, <2>9, <2>10, <3>1 DEF StopAdded
  <2>17. QED
    BY <1>2, <2>5, <2>15, <2>16 DEF o, ord
<1>3. QED
  BY <1>1, <1>2

-----------------------------------------------------------------------------
(***************************************************************************)
(* The operations that remove an order.                                    *)
(***************************************************************************)
LEMMA ReturnedSets ==
  ASSUME NEW b, NEW c, NEW o, c.order = b.order, Live(c) = Live(b) \ {o}
  PROVE  /\ \A j : Resting(c, j) = Resting(b, j) \ {o}
         /\ Stops(c) = Stops(b) \ {o}
BY DEF Resting, Stops, KeyOf

LEMMA RetireInv ==
  ASSUME NEW b, BookInv(b), NEW k \in Keys, NEW o \in Resting(b, k)
  PROVE  /\ BookInv(Retire(b, k, o)) /\ Retire(b, k, o).nextId = b.nextId
         /\ LevelKeys(Retire(b, k, o).ladder) \subseteq LevelKeys(b.ladder)
         /\ Retired(b, Retire(b, k, o), k, o)
<1> DEFINE b1 == Remove(b, k, o)
           b2 == IF b1.level[k].cnt = 0 THEN EraseLevel(b1, k) ELSE b1
           b3 == DropId(b2, b2.order[o].id)
           c == Deallocate(b3, o)
           R == RestingMap(b)
           S == [R EXCEPT ![k] = @ \ {o}]
<1>0. Retire(b, k, o) = c
  BY Zenon DEF Retire
<1>1. b \in Book /\ o \in Live(b) /\ o \in Slots /\ b.order[o].id \in Ids /\ o \in R[k] /\ o \notin Stops(b)
  BY LiveFacts DEF BookInv, Resting, RestingMap, Stops
<1>2. Queues(S, b1) /\ b.level[k].cnt > 0
  BY <1>1, QueuesOfInv, RemoveQueues
<1>3. /\ b1 \in Book
      /\ b1.order = b.order /\ b1.free = b.free /\ b1.ids = b.ids
      /\ b1.nextId = b.nextId /\ b1.ladder = b.ladder /\ b1.pending = b.pending
      /\ b1.arr = b.arr /\ b1.clock = b.clock
  BY <1>1, <1>2, RemoveKeeps
<1>4. \A j \in Keys : S[j] = Resting(b, j) \ {o}
  BY <1>1 DEF RestingMap, Resting
<1>4a. /\ \A j \in Keys : j # k => b1.level[j] = b.level[j]
       /\ b1.level[k].agg = (b.level[k].agg - b.order[o].rem) % QtyMod
  BY <1>1, <1>2, RemoveLevel
<1> HIDE DEF S, b1
<1>5. /\ b2 \in Book
      /\ b2.order = b1.order /\ b2.free = b1.free /\ b2.ids = b1.ids
      /\ b2.nextId = b1.nextId /\ b2.pending = b1.pending
      /\ b2.arr = b1.arr /\ b2.clock = b1.clock
      /\ LevelKeys(b2.ladder) = IF S[k] = {} THEN LevelKeys(b1.ladder) \ {k} ELSE LevelKeys(b1.ladder)
      /\ Queues(S, b2)
      /\ \A j \in Keys : j # k => b2.level[j] = b1.level[j]
      /\ b2.level[k].agg = IF S[k] = {} THEN 0 ELSE b1.level[k].agg
  <2>1. b1.level[k].cnt = 0 <=> S[k] = {}
    BY <1>2, QueueFacts
  <2>2. CASE S[k] = {}
    <3> DEFINE d == EraseLevel(b1, k)
    <3>1. /\ d \in Book
          /\ d.order = b1.order /\ d.free = b1.free /\ d.ids = b1.ids
          /\ d.nextId = b1.nextId /\ d.pending = b1.pending
          /\ d.arr = b1.arr /\ d.clock = b1.clock /\ d.next = b1.next /\ d.prev = b1.prev
          /\ LevelKeys(d.ladder) = LevelKeys(b1.ladder) \ {k}
          /\ d.level = [b1.level EXCEPT ![k] = EmptyLevel]
      <4>1. k \in LevelKeys(b1.ladder) /\ k \in Keys
        BY <1>1, <1>3 DEF BookInv, ExactLevels, RestingMap
      <4> HIDE DEF d
      <4>2. QED
        BY <1>3, <4>1, EraseFields DEF d
    <3>2. b2 = d
      BY <2>1, <2>2
    <3> HIDE DEF d, b2
    <3>3. Queues(S, d)
      BY <1>2, <1>3, <2>2, <3>1, EmptyLevelQueues
    <3>4. /\ d.level[k].agg = 0
          /\ \A j \in Keys : j # k => d.level[j] = b1.level[j]
      BY <1>3, <3>1, BookTypes DEF EmptyLevel
    <3>5. QED
      BY <2>2, <3>1, <3>2, <3>3, <3>4
  <2>3. CASE S[k] # {}
    BY <1>2, <1>3, <2>1, <2>3
  <2>4. QED
    BY <2>2, <2>3
<1> HIDE DEF b2
<1>6. /\ b3 \in Book /\ b3.order = b2.order /\ b3.free = b2.free
      /\ b3.nextId = b2.nextId /\ b3.pending = b2.pending /\ b3.ladder = b2.ladder
      /\ b3.arr = b2.arr /\ b3.clock = b2.clock /\ b3.next = b2.next /\ b3.prev = b2.prev
      /\ b3.level = b2.level /\ b3.ids = [b2.ids EXCEPT ![b.order[o].id] = Null]
  <2> DEFINE id == b.order[o].id
  <2>1. b3 = [b2 EXCEPT !.ids[id] = Null]
    BY <1>3, <1>5 DEF DropId
  <2>2. id \in Ids /\ b2 \in Book /\ Null \in Slots \cup {Null}
    BY <1>1, <1>5
  <2> HIDE DEF b3, id
  <2>3. /\ b3 \in Book /\ b3.order = b2.order /\ b3.free = b2.free
        /\ b3.nextId = b2.nextId /\ b3.pending = b2.pending /\ b3.ladder = b2.ladder
        /\ b3.arr = b2.arr /\ b3.clock = b2.clock /\ b3.next = b2.next /\ b3.prev = b2.prev
        /\ b3.level = b2.level /\ b3.ids = [b2.ids EXCEPT ![id] = Null]
    BY <2>1, <2>2, IdFields
  <2>4. QED
    BY <2>3 DEF id
<1> HIDE DEF b3
<1>7. /\ c \in Book /\ c.order = b3.order /\ c.ids = b3.ids
      /\ c.nextId = b3.nextId /\ c.pending = b3.pending /\ c.ladder = b3.ladder
      /\ c.arr = b3.arr /\ c.clock = b3.clock /\ c.next = b3.next /\ c.prev = b3.prev
      /\ c.level = b3.level /\ c.free = Append(b3.free, o)
  BY <1>1, <1>6, DeallocateFields
<1> HIDE DEF c
<1>8. SlotReturned(b, c, o)
  BY <1>3, <1>5, <1>6, <1>7 DEF SlotReturned
<1>9. Live(c) = Live(b) \ {o} /\ PoolPartitioned(c) /\ FreshIds(c)
  BY <1>1, <1>7, <1>8, ReturnSlot
<1>10. (\A j : Resting(c, j) = Resting(b, j) \ {o}) /\ Stops(c) = Stops(b)
  <2>1. (\A j : Resting(c, j) = Resting(b, j) \ {o}) /\ Stops(c) = Stops(b) \ {o}
    <3>1. c.order = b.order
      BY <1>8 DEF SlotReturned
    <3>2. QED
      BY <1>9, <3>1, ReturnedSets
  <2>2. QED
    BY <1>1, <2>1
<1>11. Queues(S, c) /\ ClockAhead(c) /\ NoDangling(c)
  <2>1. Queues(S, c)
    BY <1>5, <1>6, <1>7, QueuesFrame
  <2>2. ClockAhead(c)
    BY <1>3, <1>5, <1>6, <1>7 DEF BookInv, ClockAhead
  <2>3. NoDangling(c)
    BY <1>3, <1>5, <1>6, <1>7, <1>10 DEF BookInv, NoDangling
  <2>4. QED
    BY <2>1, <2>2, <2>3
<1>12. \A j \in Keys : Resting(c, j) = S[j] /\ (j \in LevelKeys(c.ladder) <=> S[j] # {})
  <2> SUFFICES ASSUME NEW j \in Keys
               PROVE  Resting(c, j) = S[j] /\ (j \in LevelKeys(c.ladder) <=> S[j] # {})
    OBVIOUS
  <2>1. j \in LevelKeys(b.ladder) <=> Resting(b, j) # {}
    BY DEF BookInv, ExactLevels
  <2>2. LevelKeys(c.ladder) = IF S[k] = {} THEN LevelKeys(b.ladder) \ {k} ELSE LevelKeys(b.ladder)
    BY <1>3, <1>5, <1>6, <1>7
  <2>3. j # k => S[j] = Resting(b, j)
    BY <1>1, <1>4 DEF Resting
  <2>4. j = k => j \in LevelKeys(b.ladder)
    BY <2>1
  <2>5. QED
    BY <1>4, <1>10, <2>1, <2>2, <2>3, <2>4
<1>13. BookInv(c)
  BY <1>7, <1>9, <1>11, <1>12, InvOfQueues
<1>14. Retired(b, c, k, o)
  <2>1. S[k] = {} <=> Resting(b, k) = {o}
    BY <1>4
  <2>2. /\ \A j \in Keys : j # k => c.level[j] = b.level[j]
        /\ c.level[k].agg = IF Resting(b, k) = {o} THEN 0
                            ELSE (b.level[k].agg - b.order[o].rem) % QtyMod
    BY <1>4a, <1>5, <1>6, <1>7, <2>1
  <2>3. c.free = Append(b.free, o) /\ b.free \in Seq(Slots)
    BY <1>1, <1>8, BookTypes DEF SlotReturned
  <2>4. c.free # <<>>
    BY <1>1, <2>3
  <2>5. /\ c.order = b.order /\ c.arr = b.arr /\ c.clock = b.clock
        /\ c.nextId = b.nextId /\ c.pending = b.pending
    BY <1>3, <1>5, <1>6, <1>7
  <2>6. QED
    BY <1>9, <1>10, <2>2, <2>4, <2>5 DEF Retired
<1>15. QED
  BY <1>0, <1>3, <1>5, <1>6, <1>7, <1>13, <1>14

\* The order found by id, when it is not a pending stop, rests in its level.
LEMMA FoundFacts ==
  ASSUME NEW b, BookInv(b), NEW id \in Ids, NEW o, o = FindId(b, id),
         o # Null, o \notin Stops(b)
  PROVE  /\ o \in Slots /\ b.order[o].id = id
         /\ KeyOf(b, o) \in Keys /\ o \in Resting(b, KeyOf(b, o)) /\ HasLevel(b, KeyOf(b, o))
<1>1. b \in Book /\ o \in Slots /\ b.ids[id] = o
  BY BookTypes DEF BookInv, FindId
<1>2. b.order[o].id = id
  BY <1>1 DEF BookInv, PoolPartitioned
<1>3. o \in Live(b)
  BY <1>1, <1>2 DEF Live
<1>4. KeyOf(b, o) \in Keys
  BY <1>1, KeyType
<1>5. o \in Resting(b, KeyOf(b, o))
  BY <1>3 DEF Resting, Stops
<1>6. QED
  BY <1>1, <1>2, <1>4, <1>5, LadderPlace DEF BookInv, ExactLevels

LEMMA CancelInv ==
  ASSUME NEW b, BookInv(b), NEW id \in Ids, FindId(b, id) \notin Stops(b)
  PROVE  LET c == CancelOrder(b, id)
             o == FindId(b, id) IN
         /\ BookInv(c) /\ c.nextId = b.nextId
         /\ o = Null => c = b
         /\ o # Null => o \in Resting(b, KeyOf(b, o)) /\ Retired(b, c, KeyOf(b, o), o)
<1> DEFINE o == FindId(b, id)
           k == KeyOf(b, o)
<1>1. CASE o = Null
  BY <1>1 DEF CancelOrder
<1>2. CASE o # Null
  <2>1. k \in Keys /\ o \in Resting(b, k) /\ HasLevel(b, k)
    BY <1>2, FoundFacts
  <2>2. CancelOrder(b, id) = Retire(b, k, o)
    BY <1>2, <2>1 DEF CancelOrder
  <2> HIDE DEF o, k
  <2>3. /\ BookInv(CancelOrder(b, id)) /\ CancelOrder(b, id).nextId = b.nextId
        /\ Retired(b, CancelOrder(b, id), k, o)
    BY <2>1, <2>2, RetireInv
  <2>4. QED
    BY <1>2, <2>1, <2>3 DEF o, k
<1>3. QED
  BY <1>1, <1>2

-----------------------------------------------------------------------------
(***************************************************************************)
(* The operations that change the quantities of an order in place.         *)
(***************************************************************************)
\* Only the order in slot o changes, to ord, and not in what places it.
Stored(b, c, o, ord) ==
  /\ BookInv(c) /\ c.order[o] = ord /\ c.ladder = b.ladder /\ c.level = b.level
  /\ \A k : Resting(c, k) = Resting(b, k)
  /\ SameShape(b, c) /\ c.order = [b.order EXCEPT ![o] = ord]

LEMMA StoreInv ==
  ASSUME NEW b, BookInv(b), NEW o \in Slots, NEW ord \in Order, NEW c,
         ord.id = b.order[o].id, ord.side = b.order[o].side,
         ord.price = b.order[o].price, ord.stype = b.order[o].stype,
         c = [b EXCEPT !.order[o] = ord]
  PROVE  Stored(b, c, o, ord)
<1> DEFINE or == [b.order EXCEPT ![o] = ord]
<1>1. b \in Book /\ b.order \in [Slots -> Order]
  BY BookTypes DEF BookInv
<1>2. or \in [Slots -> Order] /\ or[o] = ord /\ \A s \in Slots : s # o => or[s] = b.order[s]
  BY <1>1
<1>3. c = [b EXCEPT !.order = or]
  BY Zenon
<1> HIDE DEF or
<1>4. c \in Book
  BY <1>1, <1>2, <1>3 DEF Book
<1>5. /\ c.order = or /\ c.prev = b.prev /\ c.next = b.next /\ c.free = b.free
      /\ c.ids = b.ids /\ c.nextId = b.nextId /\ c.ladder = b.ladder
      /\ c.pending = b.pending /\ c.arr = b.arr /\ c.clock = b.clock /\ c.level = b.level
  BY <1>1, <1>3 DEF Book
<1>6. SameShape(b, c)
  BY <1>2, <1>5 DEF SameShape
<1>7. QED
  BY <1>2, <1>4, <1>5, <1>6, ShapeKeepsInv, ShapeSets DEF or, Stored

\* Only the aggregate of level k changes, to x.
LevelCounted(b, c, k, x) ==
  /\ BookInv(c) /\ c.order = b.order /\ c.ladder = b.ladder
  /\ \A j : Resting(c, j) = Resting(b, j)
  /\ SameShape(b, c) /\ c.level[k].agg = x
  /\ \A j \in Keys : j # k => c.level[j] = b.level[j]

LEMMA AggregateInv ==
  ASSUME NEW b, BookInv(b), NEW k \in Keys, NEW x \in Qty, NEW c,
         c = [b EXCEPT !.level[k].agg = x]
  PROVE  LevelCounted(b, c, k, x)
<1> DEFINE M == [b.level[k] EXCEPT !.agg = x]
           lv == [b.level EXCEPT ![k] = M]
<1>1. b \in Book /\ b.level \in [Keys -> Level] /\ b.level[k] \in Level
  BY BookTypes DEF BookInv
<1>2. /\ M \in Level /\ M.head = b.level[k].head /\ M.tail = b.level[k].tail
      /\ M.cnt = b.level[k].cnt /\ M.agg = x
  BY <1>1 DEF Level
<1> HIDE DEF M
<1>3. lv \in [Keys -> Level] /\ lv[k] = M /\ \A j \in Keys : j # k => lv[j] = b.level[j]
  BY <1>1, <1>2
<1>4. c = [b EXCEPT !.level = lv]
  BY Zenon DEF M
<1> HIDE DEF lv
<1>5. c \in Book
  BY <1>1, <1>3, <1>4 DEF Book
<1>6. /\ c.order = b.order /\ c.prev = b.prev /\ c.next = b.next /\ c.free = b.free
      /\ c.ids = b.ids /\ c.nextId = b.nextId /\ c.ladder = b.ladder
      /\ c.pending = b.pending /\ c.arr = b.arr /\ c.clock = b.clock /\ c.level = lv
  BY <1>1, <1>4 DEF Book
<1>7. SameShape(b, c)
  BY <1>2, <1>3, <1>6 DEF SameShape
<1>8. QED
  BY <1>2, <1>3, <1>5, <1>6, <1>7, ShapeKeepsInv, ShapeSets DEF LevelCounted

\* What adjust_aggregate(delta) and decrease_aggregate(amt) make of a.
Adjusted(a, delta) ==
  IF delta >= 0 THEN (a + delta) % QtyMod ELSE IF -delta > a THEN 0 ELSE a + delta
Decreased(a, amt) == IF amt > a THEN 0 ELSE a - amt

LEMMA AdjustInv ==
  ASSUME NEW b, BookInv(b), NEW k \in Keys, NEW delta \in Int
  PROVE  LevelCounted(b, AdjustAggregate(b, k, delta), k, Adjusted(b.level[k].agg, delta))
<1> DEFINE x == Adjusted(b.level[k].agg, delta)
<1>1. b.level[k].agg \in Qty
  BY BookTypes DEF BookInv, Level
<1>2. x \in Qty
  BY <1>1, QtyFacts, QtyModAssumption DEF Qty, Adjusted
<1>3. AdjustAggregate(b, k, delta) = [b EXCEPT !.level[k].agg = x]
  BY Zenon DEF AdjustAggregate, Adjusted
<1> HIDE DEF x
<1>4. LevelCounted(b, AdjustAggregate(b, k, delta), k, x)
  BY <1>2, <1>3, AggregateInv
<1>5. QED
  BY <1>4 DEF x

LEMMA DecreaseInv ==
  ASSUME NEW b, BookInv(b), NEW k \in Keys, NEW amt \in Nat
  PROVE  LevelCounted(b, DecreaseAggregate(b, k, amt), k, Decreased(b.level[k].agg, amt))
<1> DEFINE x == Decreased(b.level[k].agg, amt)
<1>1. b.level[k].agg \in Qty
  BY BookTypes DEF BookInv, Level
<1>2. x \in Qty
  BY <1>1, QtyModAssumption DEF Qty, Decreased
<1>3. DecreaseAggregate(b, k, amt) = [b EXCEPT !.level[k].agg = x]
  BY Zenon DEF DecreaseAggregate, Decreased
<1> HIDE DEF x
<1>4. LevelCounted(b, DecreaseAggregate(b, k, amt), k, x)
  BY <1>2, <1>3, AggregateInv
<1>5. QED
  BY <1>4 DEF x

\* A store into the order in slot o followed by the aggregate of level k.
LEMMA ResizeInv ==
  ASSUME NEW b, BookInv(b), NEW o \in Slots, NEW ord \in Order, NEW k \in Keys, NEW b1,
         ord.id = b.order[o].id, ord.side = b.order[o].side,
         ord.price = b.order[o].price, ord.stype = b.order[o].stype,
         b1 = [b EXCEPT !.order[o] = ord],
         NEW c, NEW x, BookInv(b1) => LevelCounted(b1, c, k, x)
  PROVE  BookInv(c) /\ Resized(b, c, k, o, ord, x)
<1>0. Stored(b, b1, o, ord)
  BY StoreInv, Zenon
<1>1. /\ BookInv(b1) /\ b1.order[o] = ord /\ b1.ladder = b.ladder /\ b1.level = b.level
      /\ \A j : Resting(b1, j) = Resting(b, j)
      /\ SameShape(b, b1) /\ b1.order = [b.order EXCEPT ![o] = ord]
  BY <1>0 DEF Stored
<1>2. /\ BookInv(c) /\ c.order = b1.order /\ c.ladder = b1.ladder
      /\ \A j : Resting(c, j) = Resting(b1, j)
      /\ SameShape(b1, c) /\ c.level[k].agg = x
      /\ \A j \in Keys : j # k => c.level[j] = b1.level[j]
  BY <1>1 DEF LevelCounted
<1>3. SameShape(b, c)
  BY <1>1, <1>2 DEF SameShape
<1>4. QED
  BY <1>1, <1>2, <1>3 DEF Resized

\* try_replenish_iceberg takes the order out of its level and queues it again.
LEMMA ReplenishInv ==
  ASSUME NEW b, BookInv(b), NEW k \in Keys, NEW o \in Resting(b, k)
  PROVE  /\ BookInv(Replenish(b, k, o)) /\ Replenish(b, k, o).ladder = b.ladder
         /\ Requeued(b, Replenish(b, k, o), k, o)
<1> DEFINE slice == MinOf(b.order[o].disp, b.order[o].hid)
           ord == [b.order[o] EXCEPT !.hid = @ - slice, !.rem = slice]
           b1 == Remove(b, k, o)
           b2 == [b1 EXCEPT !.order[o] = ord]
           c == PushBack(b2, k, o)
           R == RestingMap(b)
           S == [R EXCEPT ![k] = @ \ {o}]
           T == [S EXCEPT ![k] = @ \cup {o}]
<1>1. /\ b \in Book /\ o \in Live(b) /\ o \in Slots /\ o \in R[k]
      /\ b.order[o] \in Order /\ R \in [Keys -> SUBSET Slots]
  BY LiveFacts, BookTypes, QueuesOfInv DEF BookInv, Resting, RestingMap, Queues
<1>2. Queues(S, b1) /\ b.level[k].cnt > 0
  BY <1>1, QueuesOfInv, RemoveQueues
<1>3. /\ b1 \in Book
      /\ b1.order = b.order /\ b1.free = b.free /\ b1.ids = b.ids
      /\ b1.nextId = b.nextId /\ b1.ladder = b.ladder /\ b1.pending = b.pending
      /\ b1.arr = b.arr /\ b1.clock = b.clock
  BY <1>1, <1>2, RemoveKeeps
<1>3a. /\ b1.level[k].agg = (b.level[k].agg - b.order[o].rem) % QtyMod
       /\ \A j \in Keys : j # k => b1.level[j] = b.level[j]
  BY <1>1, <1>2, RemoveLevel
<1> HIDE DEF b1
<1>4. /\ ord \in Order /\ ord.id = b.order[o].id /\ ord.side = b.order[o].side
      /\ ord.price = b.order[o].price /\ ord.stype = b.order[o].stype
      /\ ord.rem = slice
  <2>1. slice \in Qty /\ b.order[o].hid - slice \in Qty
    BY <1>1, QtyModAssumption DEF MinOf, Order, Qty
  <2> HIDE DEF slice
  <2>2. QED
    BY <1>1, <2>1 DEF Order
<1>5. Replenish(b, k, o) = c
  BY <1>3, Zenon DEF Replenish, b1
<1> HIDE DEF ord
<1>6. /\ b2 \in Book /\ b2.order = [b.order EXCEPT ![o] = ord]
      /\ b2.free = b.free /\ b2.ids = b.ids
      /\ b2.nextId = b.nextId /\ b2.ladder = b.ladder /\ b2.pending = b.pending
      /\ b2.arr = b.arr /\ b2.clock = b.clock
      /\ b2.level = b1.level /\ b2.next = b1.next /\ b2.prev = b1.prev
  <2> DEFINE or == [b.order EXCEPT ![o] = ord]
  <2>1. or \in [Slots -> Order]
    BY <1>1, <1>4, BookTypes
  <2>2. b2 = [b1 EXCEPT !.order = or]
    BY <1>3, Zenon
  <2> HIDE DEF or, b2
  <2>3. b2.order = or
    BY <1>3, <2>2 DEF Book
  <2>4. QED
    BY <1>3, <2>1, <2>2, <2>3 DEF Book, or
<1> HIDE DEF b2
<1>7. Queues(S, b2) /\ ClockAhead(b2)
  <2> HIDE DEF S
  <2>1. Queues(S, b2)
    <3>1. b2.level = b1.level /\ b2.next = b1.next /\ b2.prev = b1.prev /\ b2.arr = b1.arr
      BY <1>3, <1>6
    <3>2. QED
      BY <1>2, <3>1, QueuesFrame
  <2>2. QED
    BY <1>6, <2>1 DEF BookInv, ClockAhead
<1>8. \A j \in Keys : S[j] = Resting(b, j) \ {o} /\ T[j] = Resting(b, j)
  BY <1>1 DEF RestingMap, Resting
<1>9. Queues(T, c) /\ ClockAhead(c)
  <2>1. \A j \in Keys : o \notin S[j]
    BY <1>8
  <2> HIDE DEF S
  <2>2. QED
    BY <1>1, <1>6, <1>7, <2>1, PushBackQueues
<1>10. /\ c \in Book /\ c.order = b2.order /\ c.free = b2.free /\ c.ids = b2.ids
       /\ c.nextId = b2.nextId /\ c.ladder = b2.ladder /\ c.pending = b2.pending
  <2>1. b2 \in Book /\ k \in Keys /\ o \in Slots
    BY <1>1, <1>6
  <2>2. QED
    BY <2>1, PushBackKeeps
<1>10a. /\ c.arr = [b.arr EXCEPT ![o] = b.clock] /\ c.clock = b.clock + 1
        /\ c.level[k].agg = (((b.level[k].agg - b.order[o].rem) % QtyMod) + slice) % QtyMod
        /\ \A j \in Keys : j # k => c.level[j] = b.level[j]
  <2>1. b2 \in Book /\ k \in Keys /\ o \in Slots /\ b2.order[o].rem = slice
    BY <1>1, <1>4, <1>6, BookTypes
  <2> HIDE DEF slice
  <2>2. /\ c.arr = [b2.arr EXCEPT ![o] = b2.clock] /\ c.clock = b2.clock + 1
        /\ c.level[k].agg = (b2.level[k].agg + slice) % QtyMod
        /\ \A j \in Keys : j # k => c.level[j] = b2.level[j]
    BY <2>1, PushBackLevel
  <2> HIDE DEF c
  <2>3. QED
    BY <1>3a, <1>6, <2>2
<1> HIDE DEF c, T
<1>11. \A s \in Slots : /\ c.order[s].id = b.order[s].id /\ c.order[s].side = b.order[s].side
                        /\ c.order[s].price = b.order[s].price
                        /\ c.order[s].stype = b.order[s].stype
  <2>1. b.order \in [Slots -> Order]
    BY <1>1, BookTypes
  <2>2. QED
    BY <1>4, <1>6, <1>10, <2>1
<1>12. c.ids = b.ids /\ c.free = b.free /\ c.nextId = b.nextId /\ c.pending = b.pending /\ c.ladder = b.ladder
  BY <1>6, <1>10
<1>13. Live(c) = Live(b) /\ FreeSlots(c) = FreeSlots(b)
  BY <1>11, <1>12 DEF Live, FreeSlots
<1>14. (\A j : Resting(c, j) = Resting(b, j)) /\ Stops(c) = Stops(b)
  <2>1. Live(b) \subseteq Slots
    BY DEF Live
  <2>2. QED
    BY <1>11, <1>13, <2>1 DEF Resting, Stops, KeyOf
<1>15. PoolPartitioned(c) /\ FreshIds(c) /\ NoDangling(c)
  <2>1. \A id \in Ids : b.ids[id] # Null => b.ids[id] \in Slots
    BY <1>1, BookTypes
  <2>2. PoolPartitioned(c)
    BY <1>11, <1>12, <1>13, <2>1 DEF BookInv, PoolPartitioned
  <2>3. QED
    BY <1>12, <1>14, <2>2 DEF BookInv, FreshIds, NoDangling
<1>16. \A j \in Keys : Resting(c, j) = T[j] /\ (j \in LevelKeys(c.ladder) <=> T[j] # {})
  BY <1>8, <1>12, <1>14 DEF BookInv, ExactLevels
<1>17. BookInv(c)
  BY <1>9, <1>10, <1>15, <1>16, InvOfQueues
<1>18. Requeued(b, c, k, o)
  BY <1>6, <1>10, <1>10a, <1>12, <1>13, <1>14, Zenon DEF Requeued, ord
<1>19. QED
  BY <1>5, <1>12, <1>17, <1>18

LEMMA ExhaustedInv ==
  ASSUME NEW b, BookInv(b), NEW k \in Keys, NEW o \in Resting(b, k)
  PROVE  LET c == Exhausted(b, k, o) IN
         /\ BookInv(c) /\ LevelKeys(c.ladder) \subseteq LevelKeys(b.ladder)
         /\ Replenishable(b, o) => Requeued(b, c, k, o)
         /\ ~Replenishable(b, o) => Retired(b, c, k, o)
BY RetireInv, ReplenishInv DEF Exhausted

LEMMA ModifyInv ==
  ASSUME NEW b, BookInv(b), b.nextId <= MaxId, NEW id \in Ids, FindId(b, id) \notin Stops(b),
         NEW newPrice \in Prices, NEW newQty \in Qty
  PROVE  LET c == ModifyOrder(b, id, newPrice, newQty)
             o == FindId(b, id)
             rem == ResizedRem(b.order[o], newQty) IN
         /\ BookInv(c)
         /\ o = Null => c = b
         /\ o # Null => o \in Resting(b, KeyOf(b, o)) /\ KeyOf(b, o) \in Keys
         /\ o # Null /\ newPrice # b.order[o].price =>
              \E d : /\ BookInv(d) /\ Retired(b, d, KeyOf(b, o), o)
                     /\ LimitAdded(d, c, <<b.order[o].side, newPrice>>, FreshSlot(d),
                                   LimitOrder(d, b.order[o].side, newPrice, newQty))
         /\ o # Null /\ newPrice = b.order[o].price =>
              Resized(b, c, KeyOf(b, o), o, [b.order[o] EXCEPT !.qty = newQty, !.rem = rem],
                      Adjusted(b.level[KeyOf(b, o)].agg, rem - b.order[o].rem))
<1> DEFINE o == FindId(b, id)
           k == KeyOf(b, o)
           c == ModifyOrder(b, id, newPrice, newQty)
<1>1. CASE o = Null
  BY <1>1 DEF ModifyOrder
<1>2. CASE o # Null
  <2>1. /\ k \in Keys /\ o \in Resting(b, k) /\ HasLevel(b, k) /\ o \in Slots
        /\ b.order[o] \in Order
    BY <1>2, FoundFacts, BookTypes DEF BookInv
  <2>2. CASE newPrice # b.order[o].price
    <3> DEFINE d == CancelOrder(b, id)
               side == b.order[o].side
    <3>1. BookInv(d) /\ d.nextId <= MaxId /\ Retired(b, d, k, o)
      BY <1>2, CancelInv
    <3>2. side \in Sides
      BY <2>1 DEF Order
    <3>3. c = AddLimitOrder(d, side, newPrice, newQty)
      BY <1>2, <2>2 DEF ModifyOrder
    <3>4. d.free # <<>>
      BY <3>1 DEF Retired
    <3> HIDE DEF d, o, k, c, side
    <3>5. /\ BookInv(c)
          /\ LimitAdded(d, c, <<side, newPrice>>, FreshSlot(d), LimitOrder(d, side, newPrice, newQty))
      BY <3>1, <3>2, <3>3, <3>4, AddLimitInv
    <3>6. QED
      BY <1>2, <2>1, <2>2, <3>1, <3>5, Zenon DEF o, k, c, side
  <2>3. CASE newPrice = b.order[o].price
    <3> DEFINE rem == ResizedRem(b.order[o], newQty)
               ord == [b.order[o] EXCEPT !.qty = newQty, !.rem = rem]
               b1 == [b EXCEPT !.order[o] = ord]
               x == Adjusted(b.level[k].agg, rem - b.order[o].rem)
    <3>1. rem \in Qty /\ b.order[o].rem \in Qty
      <4>1. b.order[o].rem \in Qty /\ b.order[o].qty \in Qty
        BY <2>1 DEF Order
      <4>2. b.order[o].rem + (newQty - b.order[o].qty) \in Int
        BY <4>1, QtyModAssumption DEF Qty
      <4>3. QED
        BY <4>1, <4>2, QtyFacts DEF ResizedRem, MinOf
    <3>2. c = AdjustAggregate(b1, k, rem - b.order[o].rem)
      BY <1>2, <2>1, <2>3, Zenon DEF ModifyOrder, ModifyInPlace
    <3> HIDE DEF rem, c
    <3>3. /\ ord \in Order /\ ord.id = b.order[o].id /\ ord.side = b.order[o].side
          /\ ord.price = b.order[o].price /\ ord.stype = b.order[o].stype
      BY <2>1, <3>1 DEF Order
    <3>4. b1.level = b.level
      BY DEF BookInv, Book
    <3>5. rem - b.order[o].rem \in Int
      BY <3>1, QtyModAssumption DEF Qty
    <3> HIDE DEF ord, o, k, b1
    <3>6. BookInv(b1) => LevelCounted(b1, c, k, x)
      BY <2>1, <3>2, <3>4, <3>5, AdjustInv
    <3> HIDE DEF x
    <3>7. BookInv(c) /\ Resized(b, c, k, o, ord, x)
      BY <2>1, <3>3, <3>6, ResizeInv, Zenon DEF b1
    <3>8. QED
      BY <1>2, <2>1, <2>3, <3>7, Zenon DEF o, k, c, ord, rem, x
  <2>4. QED
    BY <2>2, <2>3
<1>3. QED
  BY <1>1, <1>2

LEMMA ConfigureInv ==
  ASSUME NEW b, BookInv(b), NEW id \in Ids, FindId(b, id) \notin Stops(b), NEW display \in Qty
  PROVE  LET c == ConfigureIceberg(b, id, display)
             o == FindId(b, id)
             q == b.order[o].qty
             rem == MinOf(display, q) IN
         /\ BookInv(c)
         /\ o = Null \/ display = 0 => c = b
         /\ o # Null /\ display # 0 =>
              /\ o \in Resting(b, KeyOf(b, o)) /\ KeyOf(b, o) \in Keys
              /\ Resized(b, c, KeyOf(b, o), o,
                         [b.order[o] EXCEPT !.disp = display,
                                            !.hid = IF q > display THEN q - display ELSE 0,
                                            !.rem = rem],
                         Adjusted(b.level[KeyOf(b, o)].agg, rem - b.order[o].rem))
<1> DEFINE o == FindId(b, id)
           k == KeyOf(b, o)
           c == ConfigureIceberg(b, id, display)
<1>1. CASE o = Null \/ display = 0
  BY <1>1 DEF ConfigureIceberg
<1>2. CASE ~(o = Null \/ display = 0)
  <2> DEFINE q == b.order[o].qty
             hid == IF q > display THEN q - display ELSE 0
             rem == MinOf(display, q)
             ord == [b.order[o] EXCEPT !.disp = display, !.hid = hid, !.rem = rem]
             b1 == [b EXCEPT !.order[o] = ord]
             x == Adjusted(b.level[k].agg, rem - b.order[o].rem)
  <2>1. /\ k \in Keys /\ o \in Resting(b, k) /\ HasLevel(b, k) /\ o \in Slots
        /\ b.order[o] \in Order
    BY <1>2, FoundFacts, BookTypes DEF BookInv
  <2>2. rem \in Qty /\ hid \in Qty /\ b.order[o].rem \in Qty
    BY <2>1, QtyModAssumption DEF Order, Qty, MinOf
  <2>3. c = AdjustAggregate(b1, k, rem - b.order[o].rem)
    BY <1>2, <2>1, Zenon DEF ConfigureIceberg
  <2> HIDE DEF rem, hid, c
  <2>4. /\ ord \in Order /\ ord.id = b.order[o].id /\ ord.side = b.order[o].side
        /\ ord.price = b.order[o].price /\ ord.stype = b.order[o].stype
    BY <2>1, <2>2 DEF Order
  <2>5. b1.level = b.level
    BY DEF BookInv, Book
  <2>6. rem - b.order[o].rem \in Int
    BY <2>2, QtyModAssumption DEF Qty
  <2> HIDE DEF ord, o, k, b1, q
  <2>7. BookInv(b1) => LevelCounted(b1, c, k, x)
    BY <2>1, <2>3, <2>5, <2>6, AdjustInv
  <2> HIDE DEF x
  <2>8. BookInv(c) /\ Resized(b, c, k, o, ord, x)
    BY <2>1, <2>4, <2>7, ResizeInv DEF b1
  <2>9. QED
    BY <1>2, <2>1, <2>8, Zenon DEF o, k, c, q, ord, rem, hid, x
<1>3. QED
  BY <1>1, <1>2

\* A fill of the order in slot o of level k that takes amt from its visible
\* quantity (b to d, which leaves x as the aggregate) and, when nothing is left
\* of that, replenishes or retires the order (d to c).
Filled(b, c, k, o, amt, x) ==
  \E d : /\ BookInv(d)
         /\ Resized(b, d, k, o, [b.order[o] EXCEPT !.rem = @ - amt], x)
         /\ b.order[o].rem # amt => c = d
         /\ b.order[o].rem = amt /\ Replenishable(d, o) => Requeued(d, c, k, o)
         /\ b.order[o].rem = amt /\ ~Replenishable(d, o) => Retired(d, c, k, o)

\* The store that takes amt from the order in slot o, and what follows it.
Reduced(b, o, amt) == [b EXCEPT !.order[o] = [b.order[o] EXCEPT !.rem = @ - amt]]
Settled(d, k, o) == IF d.order[o].rem = 0 THEN Exhausted(d, k, o) ELSE d

LEMMA FilledInv ==
  ASSUME NEW b, BookInv(b), NEW k \in Keys, NEW o \in Resting(b, k),
         NEW amt \in Nat, amt <= b.order[o].rem, NEW x,
         NEW d, BookInv(Reduced(b, o, amt)) => LevelCounted(Reduced(b, o, amt), d, k, x)
  PROVE  LET c == Settled(d, k, o) IN
         BookInv(c) /\ LevelKeys(c.ladder) \subseteq LevelKeys(b.ladder) /\ Filled(b, c, k, o, amt, x)
<1> DEFINE ord == [b.order[o] EXCEPT !.rem = @ - amt]
           b1 == Reduced(b, o, amt)
           c == Settled(d, k, o)
<1>1. o \in Slots /\ b.order[o] \in Order
  BY BookTypes DEF BookInv, Resting, Live
<1>2. b.order[o].rem \in Nat /\ b.order[o].rem - amt \in Qty
  BY <1>1, QtyModAssumption DEF Order, Qty
<1>3. /\ ord \in Order /\ ord.id = b.order[o].id /\ ord.side = b.order[o].side
      /\ ord.price = b.order[o].price /\ ord.stype = b.order[o].stype
      /\ ord.rem = b.order[o].rem - amt
  BY <1>1, <1>2 DEF Order
<1>3a. b1 = [b EXCEPT !.order[o] = ord]
  BY DEF Reduced
<1> HIDE DEF ord, b1
<1>4. BookInv(d) /\ Resized(b, d, k, o, ord, x)
  BY <1>1, <1>3, <1>3a, ResizeInv, Zenon DEF b1
<1>4a. d.ladder = b.ladder /\ d.order[o] = ord /\ Resting(d, k) = Resting(b, k)
  <2>1. SameShape(b, d) /\ d.order = [b.order EXCEPT ![o] = ord]
    BY <1>4 DEF Resized
  <2>2. b.order \in [Slots -> Order]
    BY BookTypes DEF BookInv
  <2>3. d.order[o] = ord
    BY ONLY <1>1, <2>1, <2>2
  <2>4. d.ladder = b.ladder
    BY ONLY <2>1 DEF SameShape
  <2>5. Resting(d, k) = Resting(b, k)
    BY ONLY <2>1, ShapeSets
  <2>6. QED
    BY <2>3, <2>4, <2>5
<1>5. d.order[o].rem = 0 <=> b.order[o].rem = amt
  BY <1>2, <1>3, <1>4a
<1>6. LET e == Exhausted(d, k, o) IN
      /\ BookInv(e) /\ LevelKeys(e.ladder) \subseteq LevelKeys(d.ladder)
      /\ Replenishable(d, o) => Requeued(d, e, k, o)
      /\ ~Replenishable(d, o) => Retired(d, e, k, o)
  BY <1>4, <1>4a, ExhaustedInv
<1>7. Filled(b, c, k, o, amt, x)
  BY <1>4, <1>5, <1>6, Zenon DEF Filled, Settled, ord
<1>8. QED
  BY <1>4, <1>4a, <1>6, <1>7 DEF Settled

LEMMA FillInv ==
  ASSUME NEW b, BookInv(b), NEW id \in Ids, FindId(b, id) \notin Stops(b), NEW qty \in Qty
  PROVE  LET c == ApplyFill(b, id, qty)
             o == FindId(b, id)
             amt == MinOf(qty, b.order[o].rem) IN
         /\ BookInv(c)
         /\ o = Null => c = b
         /\ o # Null => /\ o \in Resting(b, KeyOf(b, o)) /\ KeyOf(b, o) \in Keys
                        /\ amt \in Nat /\ amt <= b.order[o].rem
                        /\ Filled(b, c, KeyOf(b, o), o, amt,
                                  Adjusted(b.level[KeyOf(b, o)].agg, -amt))
<1> DEFINE o == FindId(b, id)
           k == KeyOf(b, o)
           c == ApplyFill(b, id, qty)
<1>1. CASE o = Null
  BY <1>1 DEF ApplyFill
<1>2. CASE o # Null
  <2> DEFINE amt == MinOf(qty, b.order[o].rem)
             b1 == Reduced(b, o, amt)
             d == AdjustAggregate(b1, k, -amt)
             x == Adjusted(b.level[k].agg, -amt)
  <2>1. /\ k \in Keys /\ o \in Resting(b, k) /\ HasLevel(b, k) /\ o \in Slots
        /\ b.order[o] \in Order
    BY <1>2, FoundFacts, BookTypes DEF BookInv
  <2>2. amt \in Nat /\ amt <= b.order[o].rem /\ -amt \in Int
    BY <2>1, QtyModAssumption DEF Order, Qty, MinOf
  <2>3. c = Settled(d, k, o)
    BY <1>2, <2>1, Zenon DEF ApplyFill, Settled, Reduced
  <2> HIDE DEF amt, c
  <2>4. b1.level = b.level
    BY DEF BookInv, Book, Reduced
  <2> HIDE DEF o, k, b1
  <2>5. BookInv(b1) => LevelCounted(b1, d, k, x)
    BY <2>1, <2>2, <2>4, AdjustInv
  <2> HIDE DEF d, x
  <2>6. BookInv(c) /\ Filled(b, c, k, o, amt, x)
    BY <2>1, <2>2, <2>3, <2>5, FilledInv, Zenon DEF b1
  <2>7. QED
    BY <1>2, <2>1, <2>2, <2>6, Zenon DEF o, k, c, amt, x
<1>3. QED
  BY <1>1, <1>2

\* One iteration of market_order on a level of the ladder.
LEMMA MarketInv ==
  ASSUME NEW b, BookInv(b), NEW k \in LevelKeys(b.ladder), NEW left \in Qty
  PROVE  LET c == MarketIteration(b, k, left)
             o == b.level[k].head
             amt == MarketTake(b, k, left) IN
         /\ BookInv(c) /\ amt \in 0..left /\ LevelKeys(c.ladder) \subseteq LevelKeys(b.ladder)
         /\ k \in Keys /\ o \in Resting(b, k) /\ o # Null /\ amt <= b.order[o].rem
         /\ Filled(b, c, k, o, amt, Decreased(b.level[k].agg, amt))
<1> DEFINE o == b.level[k].head
           amt == MarketTake(b, k, left)
           b1 == Reduced(b, o, amt)
           d == DecreaseAggregate(b1, k, amt)
           c == MarketIteration(b, k, left)
           x == Decreased(b.level[k].agg, amt)
<1>1. b \in Book /\ k \in Keys /\ left \in Nat
  BY QtyModAssumption DEF BookInv, Qty, LevelKeys
<1>2. o \in Resting(b, k) /\ o \in Slots /\ o # Null
  <2>1. Resting(b, k) # {} /\ IsFifo(Resting(b, k), b.level[k], b.next, b.prev, b.arr)
    BY <1>1 DEF BookInv, ExactLevels, FifoLevels
  <2>2. QED
    BY <2>1, SlotFacts DEF IsFifo, Resting, Live
<1>3. b.order[o] \in Order
  BY <1>1, <1>2, BookTypes, SMTT(30)
<1>4. amt \in 0..left /\ amt \in Nat /\ amt <= b.order[o].rem
  BY <1>1, <1>2, <1>3, QtyModAssumption DEF MarketTake, Order, Qty, MinOf
<1>5. c = Settled(d, k, o)
  BY <1>2, Zenon DEF MarketIteration, Settled, Reduced
<1> HIDE DEF amt, c
<1>6. b1.level = b.level
  BY <1>1 DEF Book, Reduced
<1> HIDE DEF o, b1
<1>7. BookInv(b1) => LevelCounted(b1, d, k, x)
  BY <1>1, <1>4, <1>6, DecreaseInv
<1> HIDE DEF d, x
<1>8. BookInv(c) /\ LevelKeys(c.ladder) \subseteq LevelKeys(b.ladder) /\ Filled(b, c, k, o, amt, x)
  BY <1>1, <1>2, <1>4, <1>5, <1>7, FilledInv, Zenon DEF b1
<1>9. QED
  BY <1>1, <1>2, <1>4, <1>8, Zenon DEF o, amt, c, x

-----------------------------------------------------------------------------
(***************************************************************************)
(* The best level of a side is the first of its vector.                    *)
(***************************************************************************)
LEMMA BestExists ==
  ASSUME NEW b, BookInv(b), NEW side \in Sides, ~SideEmpty(b, side)
  PROVE  LET k == BestKey(b, side) IN
         /\ k \in LevelKeys(b.ladder) /\ k[1] = side
         /\ \A j \in LevelKeys(b.ladder) : j[1] = side => ~Better(side, j[2], k[2])
<1> DEFINE v == b.ladder[side]
           k == BestKey(b, side)
<1>1. v \in Seq(Px) /\ BestToWorst(side, v) /\ v # <<>>
  BY DEF BookInv, Book, Ladders, Px, SideEmpty
<1>2. k[1] = side /\ k[2] = v[1] /\ k = <<side, v[1]>>
  BY DEF BestKey
<1>3. \A j \in LevelKeys(b.ladder) : j[1] = side => \E i \in 1..Len(v) : v[i] = j[2]
  BY DEF LevelKeys
<1> HIDE DEF v, k
<1>4. 1 \in 1..Len(v) /\ v[1] \in Px /\ \A i \in 1..Len(v) : v[i] \in Int
  BY <1>1, VectorInt
<1>5. k \in LevelKeys(b.ladder)
  <2>1. k \in Keys
    BY <1>2, <1>4 DEF Keys, Px
  <2>2. b.ladder[k[1]] = v
    BY <1>2 DEF v
  <2>3. QED
    BY <1>2, <1>4, <2>1, <2>2 DEF LevelKeys
<1>6. ASSUME NEW j \in LevelKeys(b.ladder), j[1] = side PROVE ~Better(side, j[2], k[2])
  <2>1. PICK i \in 1..Len(v) : v[i] = j[2]
    BY <1>3, <1>6
  <2>2. CASE i = 1
    BY <1>2, <1>4, <2>1, <2>2, BetterOrder
  <2>3. CASE i # 1
    <3>1. 1 < i
      BY <2>3
    <3>2. Better(side, v[1], v[i])
      BY <1>1, <1>4, <3>1 DEF BestToWorst
    <3>3. QED
      BY <1>2, <1>4, <2>1, <3>2, BetterOrder
  <2>4. QED
    BY <2>2, <2>3
<1>7. QED
  BY <1>2, <1>5, <1>6 DEF k

-----------------------------------------------------------------------------
(***************************************************************************)
(* The engine takes a pending stop out of the book.                        *)
(***************************************************************************)
LEMMA JoinAt ==
  ASSUME NEW q \in Seq(Slots), NEW f \in 1..Len(q),
         NEW u \in Seq(Slots), Len(u) = f - 1, \A i \in 1..(f - 1) : u[i] = q[i],
         NEW v \in Seq(Slots), Len(v) = Len(q) - f,
         \A i \in 1..(Len(q) - f) : v[i] = q[i + f]
  PROVE  /\ u \o v \in Seq(Slots) /\ Len(u \o v) = Len(q) - 1
         /\ \A i \in 1..Len(u \o v) : (u \o v)[i] = IF i < f THEN q[i] ELSE q[i + 1]
<1> DEFINE p == u \o v
<1>1. /\ p \in Seq(Slots) /\ Len(p) = Len(u) + Len(v)
      /\ \A i \in 1..(Len(u) + Len(v)) : p[i] = IF i <= Len(u) THEN u[i] ELSE v[i - Len(u)]
  BY ConcatProperties, Zenon
<1> HIDE DEF p
<1>2. Len(q) \in Nat /\ f \in Nat /\ f <= Len(q) /\ Len(p) = Len(q) - 1
  BY <1>1
<1>3. ASSUME NEW i \in 1..Len(p) PROVE p[i] = IF i < f THEN q[i] ELSE q[i + 1]
  <2>1. CASE i < f
    <3>1. i <= Len(u) /\ i \in 1..(f - 1) /\ i \in 1..(Len(u) + Len(v))
      BY <1>1, <1>2, <2>1
    <3>2. QED
      BY <1>1, <2>1, <3>1, Zenon
  <2>2. CASE ~(i < f)
    <3>1. i - (f - 1) \in 1..(Len(q) - f) /\ ~(i <= f - 1)
      BY <1>2, <2>2
    <3>2. p[i] = v[i - (f - 1)]
      BY <1>1, <1>2, <3>1
    <3>3. (i - (f - 1)) + f = i + 1
      BY <1>2
    <3>4. QED
      BY <2>2, <3>1, <3>2, <3>3
  <2>3. QED
    BY <2>1, <2>2
<1>4. QED
  BY <1>1, <1>2, <1>3 DEF p

LEMMA DropAt ==
  ASSUME NEW q \in Seq(Slots), NEW f \in 1..Len(q), NEW p,
         p = SubSeq(q, 1, f - 1) \o SubSeq(q, f + 1, Len(q))
  PROVE  /\ p \in Seq(Slots) /\ Len(p) = Len(q) - 1
         /\ \A i \in 1..Len(p) : p[i] = IF i < f THEN q[i] ELSE q[i + 1]
<1> DEFINE u == SubSeq(q, 1, f - 1)
           v == SubSeq(q, f + 1, Len(q))
<1>1. u \in Seq(Slots) /\ Len(u) = f - 1 /\ \A i \in 1..(f - 1) : u[i] = q[i]
  OBVIOUS
<1>2. v \in Seq(Slots) /\ Len(v) = Len(q) - f /\ \A i \in 1..(Len(q) - f) : v[i] = q[i + f]
  OBVIOUS
<1>3. p = u \o v
  OBVIOUS
<1> HIDE DEF u, v
<1>4. /\ u \o v \in Seq(Slots) /\ Len(u \o v) = Len(q) - 1
      /\ \A i \in 1..Len(u \o v) : (u \o v)[i] = IF i < f THEN q[i] ELSE q[i + 1]
  BY ONLY <1>1, <1>2, f \in 1..Len(q), q \in Seq(Slots), JoinAt, ZenonT(40)
<1>5. QED
  BY <1>3, <1>4, Zenon

LEMMA ReleaseInv ==
  ASSUME NEW b, BookInv(b), NEW id \in Ids, FindId(b, id) \in Stops(b)
  PROVE  /\ BookInv(FreeOrder(DetachPending(b, id), Detached(b, id)))
         /\ StopsLeft(b, FreeOrder(DetachPending(b, id), Detached(b, id)), {FindId(b, id)})
         /\ Detached(b, id) = FindId(b, id)
         /\ LET p == FreeOrder(DetachPending(b, id), Detached(b, id)).pending IN
            \A i \in 1..Len(b.pending) :
              b.pending[i] # FindId(b, id) => \E j \in 1..Len(p) : p[j] = b.pending[i]
<1> DEFINE o == FindId(b, id)
           q == b.pending
           f == FirstPending(b, id)
           p == IF PendingAt(b, id) = {} THEN q ELSE SubSeq(q, 1, f - 1) \o SubSeq(q, f + 1, Len(q))
           b1 == [b EXCEPT !.pending = p]
           b2 == DropId(b1, id)
           c == Deallocate(b2, o)
<1>1. b \in Book /\ o \in Live(b) /\ o \in Slots /\ b.ids[id] = o /\ o # Null
  BY SlotFacts DEF BookInv, Stops, Live, FindId
<1>2. b.order[o].id = id /\ q \in Seq(Slots) /\ Len(q) \in Nat
  BY <1>1, BookTypes DEF BookInv, PoolPartitioned
<1>3. /\ \A i \in 1..Len(q) : q[i] \in Stops(b)
      /\ \A i, j \in 1..Len(q) : q[i] = q[j] => i = j
  BY DEF BookInv, NoDangling
<1>4. \A i \in 1..Len(q) : b.order[q[i]].id = id <=> q[i] = o
  BY <1>1, <1>2, <1>3 DEF Stops, Live
<1>5. PendingAt(b, id) = {i \in 1..Len(q) : q[i] = o}
  BY <1>4 DEF PendingAt
<1>6. PendingAt(b, id) # {} => f \in 1..Len(q) /\ q[f] = o
  <2> SUFFICES ASSUME PendingAt(b, id) # {} PROVE f \in PendingAt(b, id)
    BY <1>5
  <2>1. PICK i \in PendingAt(b, id) : TRUE
    OBVIOUS
  <2>2. \A j \in PendingAt(b, id) : i <= j
    BY <1>2, <1>3, <1>5, <2>1
  <2>3. QED
    BY <2>1, <2>2 DEF FirstPending
<1>7. Detached(b, id) = o
  BY <1>6 DEF Detached
<1>8. FreeOrder(DetachPending(b, id), Detached(b, id)) = c
  <2>1. [b EXCEPT !.pending = b.pending] = b
    BY <1>1 DEF Book
  <2>2. DetachPending(b, id) = b2
    <3>1. CASE PendingAt(b, id) = {}
      BY <2>1, <3>1 DEF DetachPending
    <3>2. CASE PendingAt(b, id) # {}
      BY <3>2, Zenon DEF DetachPending
    <3>3. QED
      BY <3>1, <3>2
  <2> HIDE DEF b2
  <2>3. QED
    BY <1>1, <1>7, <2>2 DEF FreeOrder
<1>9. /\ p \in Seq(Slots) /\ Len(p) \in Nat
      /\ \A i \in 1..Len(p) : p[i] \in Stops(b) \ {o}
      /\ \A i, j \in 1..Len(p) : p[i] = p[j] => i = j
      /\ \A i \in 1..Len(q) : q[i] # o => \E j \in 1..Len(p) : p[j] = q[i]
  <2>1. CASE PendingAt(b, id) = {}
    BY <1>2, <1>3, <1>5, <2>1
  <2>2. CASE PendingAt(b, id) # {}
    <3>0. f \in 1..Len(q) /\ q[f] = o
      BY <1>6, <2>2
    <3>1. /\ p \in Seq(Slots) /\ Len(p) = Len(q) - 1
          /\ \A i \in 1..Len(p) : p[i] = IF i < f THEN q[i] ELSE q[i + 1]
      <4>1. p = SubSeq(q, 1, f - 1) \o SubSeq(q, f + 1, Len(q))
        BY <2>2
      <4> HIDE DEF p, f, q
      <4>2. QED
        BY <1>2, <3>0, <4>1, DropAt
    <3> HIDE DEF p, f, q
    <3> DEFINE at(i) == IF i < f THEN i ELSE i + 1
    <3>2. \A i \in 1..Len(p) : at(i) \in 1..Len(q) /\ at(i) # f /\ p[i] = q[at(i)]
      BY <1>2, <3>0, <3>1
    <3>3. \A i, j \in 1..Len(p) : at(i) = at(j) => i = j
      BY <1>2, <3>0, <3>1
    <3>4. Len(p) \in Nat
      BY <1>2, <3>0, <3>1
    <3> HIDE DEF at
    <3>5. \A i \in 1..Len(p) : p[i] \in Stops(b) /\ p[i] # o
      BY <1>3, <3>0, <3>2
    <3>6. \A i, j \in 1..Len(p) : p[i] = p[j] => i = j
      BY <1>3, <3>2, <3>3
    <3>7. \A i \in 1..Len(q) : i # f => \E j \in 1..Len(p) : at(j) = i
      <4> SUFFICES ASSUME NEW i \in 1..Len(q), i # f PROVE \E j \in 1..Len(p) : at(j) = i
        OBVIOUS
      <4>1. CASE i < f
        <5>1. i \in 1..Len(p) /\ at(i) = i
          BY <1>2, <3>0, <3>1, <4>1 DEF at
        <5>2. QED
          BY <5>1
      <4>2. CASE i > f
        <5>1. i - 1 \in 1..Len(p) /\ at(i - 1) = i
          BY <1>2, <3>0, <3>1, <4>2 DEF at
        <5>2. QED
          BY <5>1
      <4>3. QED
        BY <1>2, <3>0, <4>1, <4>2
    <3>8. \A i \in 1..Len(q) : q[i] # o => \E j \in 1..Len(p) : p[j] = q[i]
      BY <3>0, <3>2, <3>7
    <3>9. QED
      BY <3>1, <3>4, <3>5, <3>6, <3>8
  <2>3. QED
    BY <2>1, <2>2
<1> HIDE DEF p
<1>10. /\ b1 \in Book /\ b1.order = b.order /\ b1.free = b.free /\ b1.ids = b.ids
       /\ b1.nextId = b.nextId /\ b1.ladder = b.ladder /\ b1.level = b.level
       /\ b1.arr = b.arr /\ b1.clock = b.clock /\ b1.next = b.next /\ b1.prev = b.prev
       /\ b1.pending = p
  BY <1>1, <1>9 DEF Book
<1> HIDE DEF b1, o
<1>11. /\ b2 \in Book /\ b2.order = b1.order /\ b2.free = b1.free
       /\ b2.nextId = b1.nextId /\ b2.pending = b1.pending /\ b2.ladder = b1.ladder
       /\ b2.arr = b1.arr /\ b2.clock = b1.clock /\ b2.next = b1.next /\ b2.prev = b1.prev
       /\ b2.level = b1.level /\ b2.ids = [b1.ids EXCEPT ![id] = Null]
  <2>1. b2 = [b1 EXCEPT !.ids[id] = Null] /\ b1 \in Book /\ Null \in Slots \cup {Null}
    BY <1>10 DEF DropId
  <2> HIDE DEF b2
  <2>2. QED
    BY <2>1, IdFields
<1> HIDE DEF b2
<1>12. /\ c \in Book /\ c.order = b2.order /\ c.ids = b2.ids
       /\ c.nextId = b2.nextId /\ c.pending = b2.pending /\ c.ladder = b2.ladder
       /\ c.arr = b2.arr /\ c.clock = b2.clock /\ c.next = b2.next /\ c.prev = b2.prev
       /\ c.level = b2.level /\ c.free = Append(b2.free, o)
  BY <1>1, <1>11, DeallocateFields
<1> HIDE DEF c
<1>13. SlotReturned(b, c, o)
  BY <1>2, <1>10, <1>11, <1>12 DEF SlotReturned
<1>14. Live(c) = Live(b) \ {o} /\ PoolPartitioned(c) /\ FreshIds(c)
  <2>1. o \in Live(b) /\ c \in Book
    BY <1>1, <1>12
  <2>2. QED
    BY <1>13, <2>1, ReturnSlot
<1>15. (\A j : Resting(c, j) = Resting(b, j)) /\ Stops(c) = Stops(b) \ {o}
  <2>1. c.order = b.order
    BY <1>13 DEF SlotReturned
  <2>2. (\A j : Resting(c, j) = Resting(b, j) \ {o}) /\ Stops(c) = Stops(b) \ {o}
    BY <1>14, <2>1, ReturnedSets, SMTT(30)
  <2>3. \A j : o \notin Resting(b, j)
    BY DEF Resting, Stops, o
  <2>4. QED
    BY <2>2, <2>3
<1>16. Queues(RestingMap(b), c) /\ ClockAhead(c)
  <2> DEFINE R == RestingMap(b)
  <2>1. Queues(R, b)
    BY QueuesOfInv
  <2>2. c.level = b.level /\ c.next = b.next /\ c.prev = b.prev /\ c.arr = b.arr /\ c.clock = b.clock
    BY <1>10, <1>11, <1>12
  <2> HIDE DEF R
  <2>3. Queues(R, c)
    BY <2>1, <2>2, QueuesFrame
  <2>4. QED
    BY <2>2, <2>3 DEF R, BookInv, ClockAhead
<1>17. NoDangling(c)
  <2>1. c.pending = p
    BY <1>10, <1>11, <1>12
  <2>2. QED
    BY <1>9, <1>15, <2>1 DEF NoDangling
<1>18. \A j \in Keys : /\ Resting(c, j) = RestingMap(b)[j]
                       /\ j \in LevelKeys(c.ladder) <=> RestingMap(b)[j] # {}
  BY <1>10, <1>11, <1>12, <1>15 DEF RestingMap, BookInv, ExactLevels
<1>19. BookInv(c)
  BY <1>12, <1>14, <1>16, <1>17, <1>18, InvOfQueues
<1>20. StopsLeft(b, c, {o})
  <2>1. c.order = b.order /\ c.level = b.level /\ c.arr = b.arr /\ c.clock = b.clock /\ c.nextId = b.nextId
    BY <1>10, <1>11, <1>12
  <2>2. QED
    BY <1>14, <1>15, <2>1 DEF StopsLeft
<1>21. c.pending = p
  BY <1>10, <1>11, <1>12
<1>22. QED
  BY <1>7, <1>8, <1>9, <1>19, <1>20, <1>21 DEF o

LEMMA TakeInv ==
  ASSUME NEW b, BookInv(b)
  PROVE  BookInv(TakePendingStops(b)) /\ StopsLeft(b, TakePendingStops(b), {})
<1> DEFINE c == [b EXCEPT !.pending = <<>>]
<1>1. b \in Book /\ <<>> \in Seq(Slots)
  BY DEF BookInv
<1>2. /\ c \in Book /\ c.order = b.order /\ c.free = b.free /\ c.ids = b.ids
      /\ c.nextId = b.nextId /\ c.ladder = b.ladder /\ c.level = b.level
      /\ c.arr = b.arr /\ c.clock = b.clock /\ c.next = b.next /\ c.prev = b.prev
      /\ c.pending = <<>>
  BY <1>1 DEF Book
<1> HIDE DEF c
<1>3. Live(c) = Live(b) /\ FreeSlots(c) = FreeSlots(b)
  BY <1>2 DEF Live, FreeSlots
<1>4. \A j : Resting(c, j) = Resting(b, j)
  BY <1>2, <1>3 DEF Resting, KeyOf
<1>5. NoDangling(c)
  BY <1>2 DEF NoDangling
<1>6. PoolPartitioned(c) /\ FreshIds(c) /\ ClockAhead(c)
  BY <1>2, <1>3 DEF BookInv, PoolPartitioned, FreshIds, ClockAhead
<1>7. FifoLevels(c) /\ ExactLevels(c)
  BY <1>2, <1>4 DEF BookInv, FifoLevels, ExactLevels
<1>8. StopsLeft(b, c, {})
  BY <1>2, <1>3, <1>4 DEF StopsLeft, Stops
<1>9. QED
  BY <1>2, <1>5, <1>6, <1>7, <1>8 DEF BookInv, TakePendingStops, c

-----------------------------------------------------------------------------
(***************************************************************************)
(* The orders of a side against its levels: what holds of the prices of    *)
(* the levels holds of the prices of the orders.                           *)
(***************************************************************************)
LEMMA RestingHasLevel ==
  ASSUME NEW b, BookInv(b), NEW side, NEW s \in RestingOn(b, side)
  PROVE  /\ KeyOf(b, s) \in LevelKeys(b.ladder)
         /\ KeyOf(b, s)[1] = side /\ KeyOf(b, s)[2] = b.order[s].price
<1>1. b \in Book /\ s \in Slots /\ s \in Live(b) /\ b.order[s].stype = NoStop /\ b.order[s].side = side
  BY DEF BookInv, RestingOn, Live
<1>2. KeyOf(b, s) \in Keys
  BY <1>1, KeyType
<1>3. s \in Resting(b, KeyOf(b, s))
  BY <1>1 DEF Resting
<1>4. KeyOf(b, s) \in LevelKeys(b.ladder)
  BY <1>2, <1>3 DEF BookInv, ExactLevels
<1>5. QED
  BY <1>1, <1>4 DEF KeyOf

LEMMA RestingBound ==
  ASSUME NEW b, BookInv(b), NEW side, NEW p,
         \A j \in LevelKeys(b.ladder) : j[1] = side => ~Better(side, j[2], p)
  PROVE  \A s \in RestingOn(b, side) : ~Better(side, b.order[s].price, p)
<1> SUFFICES ASSUME NEW s \in RestingOn(b, side)
             PROVE  ~Better(side, b.order[s].price, p)
  OBVIOUS
<1>1. /\ KeyOf(b, s) \in LevelKeys(b.ladder)
      /\ KeyOf(b, s)[1] = side /\ KeyOf(b, s)[2] = b.order[s].price
  BY RestingHasLevel
<1>2. ~Better(side, KeyOf(b, s)[2], p)
  BY <1>1
<1>3. QED
  BY <1>1, <1>2

LEMMA InsideBest ==
  ASSUME NEW b, BookInv(b)
  PROVE  InsideExact(b)
<1> SUFFICES ASSUME NEW side \in Sides
             PROVE  IF SideEmpty(b, side) THEN RestingOn(b, side) = {}
                    ELSE /\ Resting(b, BestKey(b, side)) # {}
                         /\ \A s \in RestingOn(b, side) :
                              ~Better(side, b.order[s].price, BestKey(b, side)[2])
  BY DEF InsideExact
<1>1. CASE SideEmpty(b, side)
  <2>1. Len(b.ladder[side]) = 0
    BY <1>1 DEF SideEmpty
  <2>2. \A j \in LevelKeys(b.ladder) : j[1] # side
    BY <2>1 DEF LevelKeys
  <2>3. QED
    BY <1>1, <2>2, RestingHasLevel
<1>2. CASE ~SideEmpty(b, side)
  <2> DEFINE k == BestKey(b, side)
  <2>1. /\ k \in LevelKeys(b.ladder) /\ k[1] = side
        /\ \A j \in LevelKeys(b.ladder) : j[1] = side => ~Better(side, j[2], k[2])
    BY <1>2, BestExists
  <2> HIDE DEF k
  <2>2. k \in Keys
    BY <2>1 DEF LevelKeys
  <2>3. Resting(b, k) # {}
    BY <2>1, <2>2 DEF BookInv, ExactLevels
  <2>4. \A s \in RestingOn(b, side) : ~Better(side, b.order[s].price, k[2])
    BY <2>1, RestingBound
  <2>5. QED
    BY <1>2, <2>3, <2>4 DEF k
<1>3. QED
  BY <1>1, <1>2

-----------------------------------------------------------------------------
(***************************************************************************)
(* The theorems.                                                           *)
(***************************************************************************)
Inv == BookInv(book) /\ TypeOK /\ MarketBestFirst

LEMMA SizeFacts ==
  /\ Qtys \subseteq Qty /\ TakeQtys \subseteq Qty /\ StopQtys \subseteq Qty
  /\ Displays \subseteq Qty /\ 0 \in Qty
<1>1. (QtyMod - 1) \div 4 \in Nat /\ (QtyMod - 1) \div 4 <= QtyMod - 1
  BY QtyModAssumption
<1>2. 0..((QtyMod - 1) \div 4) \subseteq Qty
  BY <1>1, QtyModAssumption DEF Qty
<1>3. QED
  BY <1>2, QtysAssumption, QtyModAssumption DEF Qty

LEMMA NewBookInv == BookInv(NewBook)
<1> DEFINE b == NewBook
<1>1. /\ b.order = [s \in Slots |-> BlankOrder] /\ b.prev = [s \in Slots |-> Null]
      /\ b.next = [s \in Slots |-> Null] /\ b.free = [i \in 1..Capacity |-> i]
      /\ b.ids = [i \in Ids |-> Null] /\ b.nextId = 1
      /\ b.ladder = [side \in Sides |-> <<>>]
      /\ b.level = [k \in Keys |-> EmptyLevel] /\ b.pending = <<>>
      /\ b.arr = [s \in Slots |-> 0] /\ b.clock = 1
  BY DEF NewBook
<1>1a. [side \in Sides |-> <<>>] \in Ladders
  <2>1. \A side : BestToWorst(side, <<>>)
    BY DEF BestToWorst
  <2>2. QED
    BY <2>1 DEF Ladders
<1>1b. LevelKeys(b.ladder) = {}
  BY <1>1 DEF LevelKeys, Keys
<1>2. b \in Book
  <2>1. EmptyLevel \in Level
    BY QtyModAssumption DEF EmptyLevel, Level, Qty
  <2>2. [i \in 1..Capacity |-> i] \in Seq(Slots)
    BY CapacityAssumption DEF Slots
  <2>3. 1 \in 1..(MaxId + 1)
    BY MaxIdAssumption
  <2>4. QED
    BY <2>1, <2>2, <2>3, <1>1a, BlankType DEF NewBook, Book
<1>3. Live(b) = {} /\ \A k : Resting(b, k) = {}
  <2>1. \A s \in Slots : b.order[s].id = 0 /\ 0 \in Ids
    BY <1>1, MaxIdAssumption DEF BlankOrder, Ids
  <2>2. Live(b) = {}
    BY <1>1, <2>1, SlotFacts DEF Live
  <2>3. QED
    BY <2>2 DEF Resting
<1>4. PoolPartitioned(b)
  <2>1. Len(b.free) = Capacity /\ \A i \in 1..Capacity : b.free[i] = i
    BY <1>1, CapacityAssumption
  <2>2. FreeSlots(b) = Slots
    BY <2>1 DEF FreeSlots, Slots
  <2>3. QED
    BY <1>1, <1>3, <2>1, <2>2 DEF PoolPartitioned
<1>5. NoDangling(b) /\ FreshIds(b) /\ ClockAhead(b)
  BY <1>1 DEF NoDangling, FreshIds, ClockAhead
<1>6. FifoLevels(b)
  BY <1>1, <1>3 DEF FifoLevels, IsFifo, EmptyLevel
<1>7. ExactLevels(b)
  <2>1. Cardinality({}) = 0
    BY FS_EmptySet
  <2>2. \A k \in Keys : b.level[k].cnt = 0
    BY <1>1 DEF EmptyLevel
  <2>3. QED
    BY <1>1b, <1>3, <2>1, <2>2 DEF ExactLevels
<1>8. QED
  BY <1>2, <1>4, <1>5, <1>6, <1>7 DEF BookInv

LEMMA InitInv == Init => Inv
<1> SUFFICES ASSUME Init PROVE Inv
  OBVIOUS
<1>1. BookInv(book)
  BY NewBookInv DEF Init
<1>2. TypeOK
  BY <1>1, SizeFacts DEF BookInv, TypeOK, Init, NoCall, MarketCall, Sides
<1>3. MarketBestFirst
  BY <1>1, InsideBest DEF Init, NoCall, MarketBestFirst
<1>4. QED
  BY <1>1, <1>2, <1>3 DEF Inv

LEMMA NextInv ==
  ASSUME TouchStops = FALSE, Inv, [Next]_vars
  PROVE  Inv'
<1>1. BookInv(book) /\ TypeOK /\ MarketBestFirst /\ call \in MarketCall
  BY DEF Inv, TypeOK
<1>2. \A id \in Ids : MayTouch(id) => FindId(book, id) \notin Stops(book)
  BY DEF MayTouch
<1>3. ASSUME BookInv(book'), Idle PROVE Inv'
  <2>1. MarketBestFirst'
    BY <1>3, InsideBest DEF Idle, MarketBestFirst
  <2>2. TypeOK'
    BY <1>1, <1>3 DEF Idle, TypeOK, BookInv
  <2>3. QED
    BY <1>3, <2>1, <2>2 DEF Inv
<1>4. ASSUME NEW side \in QuoteSides, NEW price \in Prices, NEW qty \in Qtys, Add(side, price, qty)
      PROVE  Inv'
  <2>1. side \in Sides /\ qty \in Qty
    BY QuoteSidesAssumption, SizeFacts
  <2>2. QED
    BY <1>1, <1>3, <1>4, <2>1, AddLimitInv DEF Add, CanIssue
<1>5. ASSUME NEW id \in Ids, Cancel(id)
      PROVE  Inv'
  BY <1>1, <1>2, <1>3, <1>5, CancelInv DEF Cancel
<1>6. ASSUME NEW id \in Ids, NEW price \in Prices, NEW qty \in Qtys, Modify(id, price, qty)
      PROVE  Inv'
  BY <1>1, <1>2, <1>3, <1>6, SizeFacts, ModifyInv DEF Modify, CanIssue
<1>7. ASSUME NEW id \in Ids, NEW display \in Displays, Configure(id, display)
      PROVE  Inv'
  BY <1>1, <1>2, <1>3, <1>7, SizeFacts, ConfigureInv DEF Configure
<1>8. ASSUME NEW id \in Ids, NEW qty \in TakeQtys, Fill(id, qty)
      PROVE  Inv'
  BY <1>1, <1>2, <1>3, <1>8, SizeFacts, FillInv DEF Fill
<1>9. ASSUME NEW side \in Sides, NEW stop \in StopPrices, NEW qty \in StopQtys,
             NEW stype \in StopTypes \ {NoStop},
             NEW price \in Prices \cup {NoPrice}, NEW display \in Displays \cup {0},
             AddStop(side, stop, qty, stype, price, display)
      PROVE  Inv'
  <2>1. qty \in Qty /\ display \in Qty /\ stop \in Prices
    BY SizeFacts, StopPricesAssumption
  <2>2. QED
    BY <1>1, <1>3, <1>9, <2>1, AddPendingInv DEF AddStop, CanIssue
<1>10. CASE TakeStops
  BY <1>1, <1>3, <1>10, TakeInv DEF TakeStops
<1>11. ASSUME NEW id \in Ids, ReleaseStop(id)
       PROVE  Inv'
  BY <1>1, <1>3, <1>11, ReleaseInv DEF ReleaseStop
<1>12. ASSUME NEW side \in Sides, NEW qty \in TakeQtys, MarketBegin(side, qty)
       PROVE  Inv'
  <2>1. qty \in Qty
    BY SizeFacts
  <2>2. call' \in MarketCall /\ ~call'.traded /\ book' = book
    BY <1>12, <2>1 DEF MarketBegin, NoCall, MarketCall
  <2>3. QED
    BY <1>1, <2>2 DEF Inv, TypeOK, MarketBestFirst
<1>13. CASE MarketStep
  <2> DEFINE side == Opposite(call.side)
             k == BestKey(book, side)
             take == MarketTake(book, k, call.left)
  <2>1. call.left \in Qty /\ side \in Sides /\ ~SideEmpty(book, side)
    BY <1>1, <1>13 DEF MarketStep, MarketCall, Opposite, Sides
  <2>2. /\ k \in LevelKeys(book.ladder) /\ k[1] = side
        /\ \A j \in LevelKeys(book.ladder) : j[1] = side => ~Better(side, j[2], k[2])
    BY <1>1, <2>1, BestExists
  <2>3. /\ book' = MarketIteration(book, k, call.left)
        /\ call' = IF book.level[k].head = Null THEN call
                   ELSE [call EXCEPT !.left = @ - take, !.traded = TRUE, !.last = k[2]]
    BY <1>13, Zenon DEF MarketStep
  <2>4. k[2] \in Prices \cup {NoPrice}
    BY <2>2 DEF LevelKeys, Keys
  <2> HIDE DEF k
  <2>5. /\ BookInv(book') /\ take \in 0..call.left /\ book.level[k].head # Null
        /\ LevelKeys(book'.ladder) \subseteq LevelKeys(book.ladder)
    BY <1>1, <2>1, <2>2, <2>3, MarketInv
  <2>6. call.left - take \in Qty
    BY <2>1, <2>5, QtyModAssumption DEF Qty
  <2> HIDE DEF take
  <2>7. call' = [call EXCEPT !.left = call.left - take, !.traded = TRUE, !.last = k[2]]
    BY <2>3, <2>5
  <2>8. call' \in MarketCall /\ call'.side = call.side /\ call'.last = k[2]
    BY <1>1, <2>4, <2>6, <2>7 DEF MarketCall
  <2>9. \A j \in LevelKeys(book'.ladder) : j[1] = side => ~Better(side, j[2], k[2])
    BY <2>2, <2>5
  <2>10. \A s \in RestingOn(book', side) : ~Better(side, book'.order[s].price, k[2])
    <3> HIDE DEF side
    <3>1. QED
      BY <2>5, <2>9, RestingBound
  <2>11. MarketBestFirst'
    BY <2>5, <2>8, <2>10, InsideBest DEF MarketBestFirst
  <2>12. QED
    BY <2>5, <2>8, <2>11 DEF Inv, TypeOK, BookInv
<1>14. CASE MarketReturn
  <2>1. call' \in MarketCall /\ ~call'.traded /\ book' = book
    BY <1>14, SizeFacts DEF MarketReturn, NoCall, MarketCall, Sides
  <2>2. QED
    BY <1>1, <2>1 DEF Inv, TypeOK, MarketBestFirst
<1>15. CASE UNCHANGED vars
  BY <1>15 DEF vars, Inv, TypeOK, MarketBestFirst
<1>16. StopMarket \in StopTypes \ {NoStop} /\ StopLimit \in StopTypes \ {NoStop}
  BY DEF StopMarket, StopLimit, NoStop, StopTypes
<1>17. QED
  BY <1>4, <1>5, <1>6, <1>7, <1>8, <1>9, <1>10, <1>11, <1>12, <1>13, <1>14, <1>15, <1>16,
     StopPricesAssumption DEF Next

LEMMA Invariance ==
  ASSUME TouchStops = FALSE
  PROVE  SafetySpec => []Inv
<1>1. Inv /\ [Next]_vars => Inv'
  BY NextInv
<1>2. QED
  BY InitInv, <1>1, PTL DEF SafetySpec

\* Type correctness of the whole state: every pointer the book follows (links,
\* heads, tails, id table, freelist, pending stops) is a slot or nullptr.
THEOREM TypeCorrect ==
  ASSUME TouchStops = FALSE
  PROVE  SafetySpec => []TypeOK
BY Invariance, PTL DEF Inv

\* OrderPool with the id table: no slot leaks, is freed twice or has two owners.
THEOREM PoolSafety ==
  ASSUME TouchStops = FALSE
  PROVE  SafetySpec => []PoolPartition
<1>1. Inv => PoolPartition
  BY DEF Inv, BookInv, PoolPartition
<1>2. QED
  BY Invariance, <1>1, PTL

\* PriceLevel: the intrusive list of every price holds exactly the orders that
\* rest there, doubly linked in order of arrival.
THEOREM PriceTimePriority ==
  ASSUME TouchStops = FALSE
  PROVE  SafetySpec => []TimePriority
<1>1. Inv => TimePriority
  BY DEF Inv, BookInv, TimePriority
<1>2. QED
  BY Invariance, <1>1, PTL

\* PriceLadder: a level exists exactly while orders rest at its price, and its
\* counter is their number.
THEOREM LevelsAreExact ==
  ASSUME TouchStops = FALSE
  PROVE  SafetySpec => []LevelsExact
<1>1. Inv => LevelsExact
  BY DEF Inv, BookInv, LevelsExact
<1>2. QED
  BY Invariance, <1>1, PTL

\* pending_stop_storage_ never holds a pointer to a freed or reused order.
THEOREM StopsStayLive ==
  ASSUME TouchStops = FALSE
  PROVE  SafetySpec => []PendingStopsLive
<1>1. Inv => PendingStopsLive
  BY DEF Inv, BookInv, PendingStopsLive
<1>2. QED
  BY Invariance, <1>1, PTL

\* PriceLadder and market_order: the first element of each vector is the best
\* price at which an order rests, so nothing better is left behind by a trade.
THEOREM BestPriceFirst ==
  ASSUME TouchStops = FALSE
  PROVE  SafetySpec => []MarketBestFirst
<1>1. Inv => MarketBestFirst
  BY DEF Inv
<1>2. QED
  BY Invariance, <1>1, PTL

-----------------------------------------------------------------------------
(***************************************************************************)
(* Priority over a step.  An order that joins a queue in a step does so at *)
(* the current time, and it is new or an iceberg with a new slice.         *)
(***************************************************************************)
Arrivals(b, c) ==
  \A s \in Slots :
    \/ c.arr[s] = b.arr[s]
    \/ /\ c.arr[s] = b.clock
       /\ c.order[s].id = b.nextId \/ c.order[s].hid < b.order[s].hid

LEMMA ArrivalsAdd ==
  ASSUME NEW b, BookInv(b), NEW c, NEW k, NEW o, NEW ord, LimitAdded(b, c, k, o, ord)
  PROVE  Arrivals(b, c)
<1>1. /\ o \in Slots /\ ord.id = b.nextId /\ c.order = [b.order EXCEPT ![o] = ord]
      /\ c.arr = [b.arr EXCEPT ![o] = b.clock]
  BY DEF LimitAdded
<1>2. b.arr \in [Slots -> Nat] /\ b.order \in [Slots -> Order]
  BY BookTypes DEF BookInv
<1>3. QED
  BY <1>1, <1>2 DEF Arrivals

LEMMA ArrivalsFill ==
  ASSUME NEW b, BookInv(b), NEW c, NEW k \in Keys, NEW o \in Resting(b, k),
         NEW amt, NEW x, Filled(b, c, k, o, amt, x)
  PROVE  Arrivals(b, c)
<1> DEFINE ord == [b.order[o] EXCEPT !.rem = @ - amt]
<1>1. PICK d : /\ BookInv(d) /\ Resized(b, d, k, o, ord, x)
               /\ b.order[o].rem # amt => c = d
               /\ b.order[o].rem = amt /\ Replenishable(d, o) => Requeued(d, c, k, o)
               /\ b.order[o].rem = amt /\ ~Replenishable(d, o) => Retired(d, c, k, o)
  BY DEF Filled
<1>2. /\ o \in Slots /\ b.order \in [Slots -> Order] /\ d.order \in [Slots -> Order]
      /\ b.arr \in [Slots -> Nat]
  BY <1>1, BookTypes DEF BookInv, Resting, Live
<1>3. ord.hid = b.order[o].hid
  BY <1>2 DEF Order
<1> HIDE DEF ord
<1>4. d.arr = b.arr /\ d.clock = b.clock /\ d.order = [b.order EXCEPT ![o] = ord]
  BY <1>1 DEF Resized, SameShape
<1>5. CASE c = d \/ Retired(d, c, k, o)
  BY <1>4, <1>5 DEF Arrivals, Retired
<1>6. CASE Replenishable(d, o) /\ Requeued(d, c, k, o)
  <2> DEFINE slice == MinOf(d.order[o].disp, d.order[o].hid)
             new == [d.order[o] EXCEPT !.hid = @ - slice, !.rem = slice]
  <2>1. c.arr = [d.arr EXCEPT ![o] = d.clock] /\ c.order = [d.order EXCEPT ![o] = new]
    BY <1>6, Zenon DEF Requeued
  <2>2. d.order[o].disp \in Nat /\ d.order[o].hid \in Nat /\ d.order[o] \in Order
    BY <1>1, <1>2, BookTypes DEF BookInv
  <2>3. slice \in Nat /\ slice > 0
    BY <1>6, <2>2 DEF Replenishable, MinOf
  <2> HIDE DEF slice
  <2>4. new.hid = d.order[o].hid - slice
    BY <2>2 DEF Order
  <2> HIDE DEF new
  <2>5. c.order[o].hid < b.order[o].hid
    BY <1>2, <1>3, <1>4, <2>1, <2>2, <2>3, <2>4
  <2>6. QED
    BY <1>2, <1>4, <2>1, <2>5 DEF Arrivals
<1>7. QED
  BY <1>1, <1>5, <1>6

\* What the property says of a step, for book values.
KeepsPriority(b, c) ==
  \A k \in Keys :
    \A s, t \in Resting(b, k) \cap Resting(c, k) :
      /\ b.order[s].id = c.order[s].id
      /\ b.order[t].id = c.order[t].id
      /\ b.arr[s] < b.arr[t]
      => \/ c.arr[s] < c.arr[t]
         \/ c.order[s].hid < b.order[s].hid

LEMMA ArrivalsKeepPriority ==
  ASSUME NEW b, BookInv(b), NEW c, Arrivals(b, c)
  PROVE  KeepsPriority(b, c)
<1> SUFFICES ASSUME NEW k \in Keys, NEW s \in Resting(b, k), NEW t \in Resting(b, k),
                    b.order[s].id = c.order[s].id, b.order[t].id = c.order[t].id,
                    b.arr[s] < b.arr[t]
             PROVE  c.arr[s] < c.arr[t] \/ c.order[s].hid < b.order[s].hid
  BY DEF KeepsPriority
<1>1. s \in Live(b) /\ t \in Live(b) /\ s \in Slots /\ t \in Slots
  BY DEF Resting, Live
<1>2. b.order[s].id # b.nextId /\ b.order[t].id # b.nextId
  BY <1>1, LiveFacts, BookTypes, MaxIdAssumption DEF BookInv, Ids
<1>3. /\ b.arr[s] \in Nat /\ b.arr[t] \in Nat /\ b.clock \in Nat
      /\ b.arr[s] < b.clock /\ b.arr[t] < b.clock
  BY <1>1, BookTypes DEF BookInv, ClockAhead
<1>4. c.arr[s] = b.arr[s] \/ c.order[s].hid < b.order[s].hid
  BY <1>1, <1>2 DEF Arrivals
<1>5. c.arr[t] = b.arr[t] \/ c.arr[t] = b.clock
  BY <1>1 DEF Arrivals
<1>6. QED
  BY <1>3, <1>4, <1>5

LEMMA ArrivalsModify ==
  ASSUME NEW b, BookInv(b), b.nextId <= MaxId, NEW id \in Ids, FindId(b, id) \notin Stops(b),
         NEW price \in Prices, NEW qty \in Qty
  PROVE  LET c == ModifyOrder(b, id, price, qty) IN
         Arrivals(b, c) /\ Cardinality(Live(c)) = Cardinality(Live(b))
<1> DEFINE c == ModifyOrder(b, id, price, qty)
           o == FindId(b, id)
           k == KeyOf(b, o)
<1>1. CASE o = Null
  <2>1. c = b
    BY <1>1, ModifyInv
  <2> HIDE DEF c
  <2>2. QED
    BY <2>1 DEF Arrivals, c
<1>2. CASE o # Null /\ price # b.order[o].price
  <2> DEFINE ord(d) == LimitOrder(d, b.order[o].side, price, qty)
             key == <<b.order[o].side, price>>
  <2>1. o \in Resting(b, k)
    BY <1>2, ModifyInv
  <2>2. PICK d : /\ BookInv(d) /\ Retired(b, d, k, o)
                 /\ LimitAdded(d, c, key, FreshSlot(d), ord(d))
    BY <1>2, ModifyInv, Zenon
  <2> DEFINE new == ord(d)
             f == FreshSlot(d)
  <2> HIDE DEF c, new, f, key, o, k
  <2>3. LimitAdded(d, c, key, f, new)
    BY <2>2, Zenon DEF f, new
  <2>4. Arrivals(d, c)
    BY <2>2, <2>3, ArrivalsAdd
  <2>5. d.arr = b.arr /\ d.clock = b.clock /\ d.nextId = b.nextId /\ d.order = b.order
    BY <2>2 DEF Retired
  <2>6. Arrivals(b, c)
    BY <2>4, <2>5 DEF Arrivals
  <2>7. /\ Live(d) = Live(b) \ {o} /\ Live(c) = Live(d) \cup {f} /\ f \notin Live(d)
        /\ o \in Live(b)
    BY <2>1, <2>2, <2>3 DEF Retired, LimitAdded, Resting
  <2>8. IsFiniteSet(Live(b)) /\ IsFiniteSet(Live(d))
    <3>1. Live(b) \subseteq Slots /\ Live(d) \subseteq Slots
      BY DEF Live
    <3>2. QED
      BY <3>1, SlotFacts, FS_Subset
  <2>9. Cardinality(Live(d)) = Cardinality(Live(b)) - 1 /\ Cardinality(Live(b)) \in Nat
    BY <2>7, <2>8, FS_RemoveElement, FS_CardinalityType
  <2>10. Cardinality(Live(c)) = Cardinality(Live(d)) + 1
    BY <2>7, <2>8, FS_AddElement
  <2>11. QED
    BY <2>6, <2>9, <2>10 DEF c
<1>3. CASE o # Null /\ price = b.order[o].price
  <2> DEFINE rem == ResizedRem(b.order[o], qty)
             ord == [b.order[o] EXCEPT !.qty = qty, !.rem = rem]
             x == Adjusted(b.level[k].agg, rem - b.order[o].rem)
  <2>1. Resized(b, c, k, o, ord, x)
    BY <1>3, ModifyInv, Zenon
  <2> HIDE DEF ord, x, c
  <2>2. SameShape(b, c)
    BY <2>1 DEF Resized
  <2>3. Arrivals(b, c)
    BY <2>2 DEF SameShape, Arrivals
  <2>4. Live(c) = Live(b)
    BY <2>2, ShapeSets
  <2>5. QED
    BY <2>3, <2>4 DEF c
<1>4. QED
  BY <1>1, <1>2, <1>3

LEMMA NextArrivals ==
  ASSUME TouchStops = FALSE, Inv, [Next]_vars
  PROVE  Arrivals(book, book')
<1>1. BookInv(book) /\ call \in MarketCall
  BY DEF Inv, TypeOK
<1>2. \A id \in Ids : MayTouch(id) => FindId(book, id) \notin Stops(book)
  BY DEF MayTouch
<1>3. ASSUME book'.arr = book.arr PROVE Arrivals(book, book')
  BY <1>3 DEF Arrivals
<1>4. ASSUME NEW side \in QuoteSides, NEW price \in Prices, NEW qty \in Qtys, Add(side, price, qty)
      PROVE  Arrivals(book, book')
  <2> DEFINE k == <<side, price>>
             o == FreshSlot(book)
             ord == LimitOrder(book, side, price, qty)
  <2>1. side \in Sides /\ qty \in Qty
    BY QuoteSidesAssumption, SizeFacts
  <2>2. \/ book' = book
        \/ LimitAdded(book, book', k, o, ord)
    BY <1>1, <1>4, <2>1, AddLimitInv, Zenon DEF Add, CanIssue
  <2> HIDE DEF k, o, ord
  <2>3. QED
    BY <1>1, <1>3, <2>2, ArrivalsAdd
<1>5. ASSUME NEW id \in Ids, Cancel(id) PROVE Arrivals(book, book')
  <2>1. book' = book \/ Retired(book, book', KeyOf(book, FindId(book, id)), FindId(book, id))
    BY <1>1, <1>2, <1>5, CancelInv, Zenon DEF Cancel
  <2>2. QED
    BY <1>3, <2>1 DEF Retired
<1>6. ASSUME NEW id \in Ids, NEW price \in Prices, NEW qty \in Qtys, Modify(id, price, qty)
      PROVE  Arrivals(book, book')
  BY <1>1, <1>2, <1>6, SizeFacts, ArrivalsModify DEF Modify, CanIssue
<1>7. ASSUME NEW id \in Ids, NEW display \in Displays, Configure(id, display)
      PROVE  Arrivals(book, book')
  <2>1. display \in Qty
    BY SizeFacts
  <2>2. book' = book \/ \E k, o, ord, x : Resized(book, book', k, o, ord, x)
    BY <1>1, <1>2, <1>7, <2>1, ConfigureInv, Zenon DEF Configure
  <2>3. QED
    BY <1>3, <2>2 DEF Resized, SameShape
<1>8. ASSUME NEW id \in Ids, NEW qty \in TakeQtys, Fill(id, qty)
      PROVE  Arrivals(book, book')
  <2> DEFINE o == FindId(book, id)
             k == KeyOf(book, o)
  <2>1. qty \in Qty
    BY SizeFacts
  <2>2. \/ book' = book
        \/ /\ k \in Keys /\ o \in Resting(book, k)
           /\ \E amt, x : Filled(book, book', k, o, amt, x)
    BY <1>1, <1>2, <1>8, <2>1, FillInv, Zenon DEF Fill
  <2> HIDE DEF o, k
  <2>3. QED
    BY <1>1, <1>3, <2>2, ArrivalsFill
<1>9. ASSUME NEW side \in Sides, NEW stop \in StopPrices, NEW qty \in StopQtys,
             NEW stype \in StopTypes \ {NoStop},
             NEW price \in Prices \cup {NoPrice}, NEW display \in Displays \cup {0},
             AddStop(side, stop, qty, stype, price, display)
      PROVE  Arrivals(book, book')
  <2>1. qty \in Qty /\ display \in Qty /\ stop \in Prices
    BY SizeFacts, StopPricesAssumption
  <2>2. book' = book \/ \E o, ord : StopAdded(book, book', o, ord)
    BY <1>1, <1>9, <2>1, AddPendingInv, Zenon DEF AddStop, CanIssue
  <2>3. QED
    BY <1>3, <2>2 DEF StopAdded
<1>10. CASE TakeStops
  BY <1>1, <1>3, <1>10, TakeInv DEF TakeStops, StopsLeft
<1>11. ASSUME NEW id \in Ids, ReleaseStop(id) PROVE Arrivals(book, book')
  BY <1>1, <1>3, <1>11, ReleaseInv DEF ReleaseStop, StopsLeft
<1>12. ASSUME NEW side \in Sides, NEW qty \in TakeQtys, MarketBegin(side, qty)
       PROVE  Arrivals(book, book')
  BY <1>3, <1>12 DEF MarketBegin
<1>13. CASE MarketStep
  <2> DEFINE side == Opposite(call.side)
             k == BestKey(book, side)
             o == book.level[k].head
  <2>1. call.left \in Qty /\ side \in Sides /\ ~SideEmpty(book, side)
    BY <1>1, <1>13 DEF MarketStep, MarketCall, Opposite, Sides
  <2>2. k \in LevelKeys(book.ladder)
    BY <1>1, <2>1, BestExists
  <2>3. book' = MarketIteration(book, k, call.left)
    BY <1>13, Zenon DEF MarketStep
  <2> HIDE DEF k
  <2>4. /\ k \in Keys /\ o \in Resting(book, k)
        /\ \E amt, x : Filled(book, book', k, o, amt, x)
    BY <1>1, <2>1, <2>2, <2>3, MarketInv, Zenon
  <2> HIDE DEF o
  <2>5. QED
    BY <1>1, <2>4, ArrivalsFill
<1>14. CASE MarketReturn
  BY <1>3, <1>14 DEF MarketReturn
<1>15. CASE UNCHANGED vars
  BY <1>3, <1>15 DEF vars
<1>16. StopMarket \in StopTypes \ {NoStop} /\ StopLimit \in StopTypes \ {NoStop}
  BY DEF StopMarket, StopLimit, NoStop, StopTypes
<1>17. QED
  BY <1>4, <1>5, <1>6, <1>7, <1>8, <1>9, <1>10, <1>11, <1>12, <1>13, <1>14, <1>15, <1>16,
     StopPricesAssumption DEF Next

\* Time priority over a step: an order that rests before and after it stays
\* ahead of every order it was ahead of, whatever operation runs (push_back is
\* called for new orders and for icebergs with a new slice only).
THEOREM PriorityIsKept ==
  ASSUME TouchStops = FALSE
  PROVE  SafetySpec => OnlyReplenishmentLosesPriority
<1>1. Inv /\ [Next]_vars => [KeepsPriority(book, book')]_vars
  BY NextArrivals, ArrivalsKeepPriority DEF Inv
<1>2. SafetySpec => [][KeepsPriority(book, book')]_vars
  BY Invariance, <1>1, PTL DEF SafetySpec
<1>3. QED
  BY <1>2 DEF KeepsPriority, OnlyReplenishmentLosesPriority

\* modify_order as cancel and add: the number of live orders does not change,
\* because the add half finds at least the slot that the cancel half freed.
THEOREM ModifyReplacesOrder ==
  ASSUME TouchStops = FALSE
  PROVE  SafetySpec => ModifyKeepsOrder
<1> DEFINE Same == \/ Cardinality(Live(book')) = Cardinality(Live(book))
                   \/ \A id \in Ids, price \in Prices, qty \in Qtys : ~Modify(id, price, qty)
<1>1. Inv => Same
  <2> SUFFICES ASSUME Inv, NEW id \in Ids, NEW price \in Prices, NEW qty \in Qtys,
                      Modify(id, price, qty)
               PROVE  Cardinality(Live(book')) = Cardinality(Live(book))
    OBVIOUS
  <2>1. BookInv(book) /\ FindId(book, id) \notin Stops(book) /\ qty \in Qty
    BY SizeFacts DEF Inv, Modify, MayTouch
  <2>2. QED
    BY <2>1, ArrivalsModify DEF Modify, CanIssue
<1>2. SafetySpec => [][Same]_vars
  <2> HIDE DEF Same
  <2>1. Inv /\ [Next]_vars => [Same]_vars
    BY <1>1
  <2>2. QED
    BY Invariance, <2>1, PTL DEF SafetySpec
<1>3. QED
  BY <1>2 DEF ModifyKeepsOrder
-----------------------------------------------------------------------------
(***************************************************************************)
(* The quantities of a book: the aggregate of every level is the visible   *)
(* quantity that rests there, and matching takes from the resting orders   *)
(* exactly what it reports as filled.  Both are about sums over sets of    *)
(* orders (SumProofs).                                                     *)
(***************************************************************************)
-----------------------------------------------------------------------------
(***************************************************************************)
(* How large the parts of an order can get when no size exceeds M.  The    *)
(* in-place modify adds the growth of the total to what is visible, also   *)
(* for an iceberg whose total was reduced below its hidden part: the       *)
(* visible part may exceed the total, but never by more than M.  An order  *)
(* hides something only if it has a display size, and it has a limit price *)
(* unless it is a stop-market; id 0 is a slot that was never used.         *)
(***************************************************************************)
WellFormed(ord, M) ==
  /\ ord \in Order
  /\ ord.qty <= M /\ ord.hid <= M /\ ord.rem <= ord.qty + M
  /\ ord.disp = 0 => ord.hid = 0
  /\ ord.id # 0 /\ ord.stype # StopMarket => ord.price \in Prices

Bounded(b, M) == \A s \in Slots : WellFormed(b.order[s], M)

SizesUpTo(M) == Qtys \cup TakeQtys \cup Displays \cup StopQtys \subseteq 0..M

LEMMA QtyInNat == Qty \subseteq Nat /\ 0 \in Qty
BY QtyModAssumption DEF Qty

LEMMA OrderNat ==
  ASSUME NEW ord \in Order
  PROVE  /\ ord.qty \in Nat /\ ord.rem \in Nat /\ ord.hid \in Nat /\ ord.disp \in Nat
         /\ ord.qty \in Qty /\ ord.rem \in Qty /\ ord.hid \in Qty /\ ord.disp \in Qty
BY QtyInNat DEF Order

LEMMA SizedLimit ==
  ASSUME NEW M \in Nat, NEW b \in Book, b.nextId <= MaxId, NEW side \in Sides,
         NEW price \in Prices, NEW qty \in Qty, qty <= M
  PROVE  WellFormed(LimitOrder(b, side, price, qty), M)
<1> DEFINE ord == LimitOrder(b, side, price, qty)
<1>1. b.nextId \in Ids
  BY BookTypes, MaxIdAssumption DEF Ids
<1>2. /\ ord \in Order /\ ord.qty = qty /\ ord.rem = qty /\ ord.hid = 0
      /\ ord.price = price
  BY <1>1, BlankType, QtyInNat DEF LimitOrder, Order, BlankOrder
<1> HIDE DEF ord
<1>3. qty \in Nat
  BY QtyInNat
<1>4. WellFormed(ord, M)
  BY <1>2, <1>3 DEF WellFormed
<1>5. QED
  BY <1>4 DEF ord

LEMMA SizedStop ==
  ASSUME NEW M \in Nat, NEW b \in Book, b.nextId <= MaxId, NEW side \in Sides,
         NEW stop \in Prices, NEW qty \in Qty, qty <= M, NEW stype \in StopTypes,
         NEW price \in Prices \cup {NoPrice}, stype # StopMarket => price \in Prices,
         NEW display \in Qty
  PROVE  WellFormed(StopOrder(b, side, stop, qty, stype, price, display), M)
<1> DEFINE h == IF display > 0 /\ qty > display THEN qty - display ELSE 0
           ord == StopOrder(b, side, stop, qty, stype, price, display)
<1>1. b.nextId \in Ids
  BY BookTypes, MaxIdAssumption DEF Ids
<1>2. qty \in Nat /\ display \in Nat /\ h \in Qty /\ h \in Nat /\ h <= qty /\ (display = 0 => h = 0)
  BY QtyModAssumption DEF Qty
<1>3. ord = [BlankOrder EXCEPT !.id = b.nextId, !.side = side, !.stop = stop, !.stype = stype,
                               !.price = price, !.qty = qty, !.rem = qty,
                               !.disp = display, !.hid = h]
  BY Zenon DEF StopOrder
<1> HIDE DEF h, ord
<1>4. /\ ord \in Order /\ ord.qty = qty /\ ord.rem = qty /\ ord.hid = h /\ ord.disp = display
      /\ ord.price = price /\ ord.stype = stype
  BY <1>1, <1>2, <1>3, BlankType DEF Order, BlankOrder
<1>5. WellFormed(ord, M)
  BY <1>2, <1>4 DEF WellFormed
<1>6. QED
  BY <1>5 DEF ord

LEMMA SizedModify ==
  ASSUME NEW M \in Nat, 2 * M < QtyMod, NEW old, WellFormed(old, M), NEW qty \in Qty, qty <= M
  PROVE  /\ WellFormed([old EXCEPT !.qty = qty, !.rem = ResizedRem(old, qty)], M)
         /\ [old EXCEPT !.qty = qty, !.rem = ResizedRem(old, qty)].rem = ResizedRem(old, qty)
<1> DEFINE rem == ResizedRem(old, qty)
           ord == [old EXCEPT !.qty = qty, !.rem = rem]
<1>1. /\ old \in Order /\ old.qty \in Nat /\ old.rem \in Nat /\ old.hid \in Nat
      /\ old.qty <= M /\ old.rem <= old.qty + M /\ old.rem \in Qty /\ qty \in Nat
  BY OrderNat, QtyInNat DEF WellFormed
<1>2. rem \in Qty /\ rem \in Nat /\ rem <= qty + M
  <2>1. CASE qty >= old.qty
    <3>1. old.rem + (qty - old.qty) \in Nat /\ old.rem + (qty - old.qty) < QtyMod
      BY <1>1, <2>1, QtyModAssumption
    <3>2. rem = old.rem + (qty - old.qty)
      BY <2>1, <3>1, QtyModAssumption DEF ResizedRem
    <3>3. QED
      BY <1>1, <2>1, <3>1, <3>2, QtyModAssumption DEF Qty
  <2>2. CASE ~(qty >= old.qty)
    BY <1>1, <2>2 DEF ResizedRem, MinOf
  <2>3. QED
    BY <2>1, <2>2
<1> HIDE DEF rem
<1>3. /\ ord \in Order /\ ord.qty = qty /\ ord.rem = rem /\ ord.hid = old.hid /\ ord.disp = old.disp
      /\ ord.id = old.id /\ ord.stype = old.stype /\ ord.price = old.price
  BY <1>1, <1>2 DEF Order
<1> HIDE DEF ord
<1>4. WellFormed(ord, M)
  BY <1>1, <1>2, <1>3 DEF WellFormed
<1>5. QED
  BY <1>3, <1>4 DEF ord, rem

LEMMA SizedConfigure ==
  ASSUME NEW M \in Nat, NEW old, WellFormed(old, M), NEW display \in Qty, display # 0
  PROVE  LET ord == [old EXCEPT !.disp = display,
                                !.hid = IF old.qty > display THEN old.qty - display ELSE 0,
                                !.rem = MinOf(display, old.qty)] IN
         WellFormed(ord, M) /\ ord.rem = MinOf(display, old.qty)
<1> DEFINE h == IF old.qty > display THEN old.qty - display ELSE 0
           rem == MinOf(display, old.qty)
           ord == [old EXCEPT !.disp = display, !.hid = h, !.rem = rem]
<1>1. /\ old \in Order /\ old.qty \in Nat /\ old.qty \in Qty /\ old.qty <= M /\ display \in Nat
  BY OrderNat, QtyInNat DEF WellFormed
<1>2. /\ h \in Qty /\ h \in Nat /\ h <= old.qty
      /\ rem \in Qty /\ rem \in Nat /\ rem <= old.qty
  BY <1>1, QtyModAssumption DEF Qty, MinOf
<1> HIDE DEF h, rem
<1>3. /\ ord \in Order /\ ord.qty = old.qty /\ ord.rem = rem /\ ord.hid = h /\ ord.disp = display
      /\ ord.id = old.id /\ ord.stype = old.stype /\ ord.price = old.price
  BY <1>1, <1>2 DEF Order
<1> HIDE DEF ord
<1>4. WellFormed(ord, M)
  BY <1>1, <1>2, <1>3 DEF WellFormed
<1>5. QED
  BY <1>3, <1>4 DEF ord, rem, h

-----------------------------------------------------------------------------
(***************************************************************************)
(* The sums of the properties as sums of weights.                          *)
(***************************************************************************)
RemOf(b) == [s \in Slots |-> b.order[s].rem]
OpenOf(b) == [s \in Slots |-> b.order[s].rem + b.order[s].hid]

LEMMA SumRemIs ==
  ASSUME NEW b, NEW T \in SUBSET Slots
  PROVE  SumRem(b, T) = Sum(RemOf(b), T)
<1> DEFINE w == RemOf(b)
<1>1. IsFiniteSet(T)
  BY SlotFacts, FS_Subset
<1>2. \A s \in SUBSET T : s # {} => w[Pick(s)] = b.order[Pick(s)].rem
  BY PickIn DEF RemOf
<1>3. ASSUME NEW g
      PROVE  [s \in SUBSET T |-> IF s = {} THEN 0 ELSE b.order[Pick(s)].rem + g[s \ {Pick(s)}]]
             = [s \in SUBSET T |-> IF s = {} THEN 0 ELSE w[Pick(s)] + g[s \ {Pick(s)}]]
  BY <1>2
<1>4. SumRem(b, T) = (CHOOSE g : g = [s \in SUBSET T |->
            IF s = {} THEN 0 ELSE b.order[Pick(s)].rem + g[s \ {Pick(s)}]])[T]
  BY DEF SumRem, MapThenSumSet, MapThenFoldSet, Pick
<1> DEFINE h == CHOOSE g : g = [s \in SUBSET T |->
            IF s = {} THEN 0 ELSE b.order[Pick(s)].rem + g[s \ {Pick(s)}]]
<1> HIDE DEF w
<1>5. SumFcn(w, T) = [s \in SUBSET T |->
            IF s = {} THEN 0 ELSE b.order[Pick(s)].rem + SumFcn(w, T)[s \ {Pick(s)}]]
  <2> DEFINE f == SumFcn(w, T)
  <2>1. Sums(f, w, T)
    BY <1>1, SumsExist
  <2> HIDE DEF f
  <2>2. f = [s \in SUBSET T |-> IF s = {} THEN 0 ELSE w[Pick(s)] + f[s \ {Pick(s)}]]
    BY <2>1 DEF Sums
  <2>3. f = [s \in SUBSET T |->
              IF s = {} THEN 0 ELSE b.order[Pick(s)].rem + f[s \ {Pick(s)}]]
    BY <1>3, <2>2, Zenon
  <2>4. QED
    BY <2>3 DEF f
<1>6. h = [s \in SUBSET T |-> IF s = {} THEN 0 ELSE b.order[Pick(s)].rem + h[s \ {Pick(s)}]]
  BY <1>5, Zenon
<1> HIDE DEF h
<1>7. Sums(h, w, T)
  BY <1>3, <1>6 DEF Sums
<1>8. Sums(SumFcn(w, T), w, T) /\ T \in SUBSET T
  BY <1>1, SumsExist
<1>9. h[T] = SumFcn(w, T)[T]
  BY <1>1, <1>7, <1>8, SumsAgree
<1>10. QED
  BY <1>4, <1>9 DEF h, w, Sum

LEMMA OpenQtyIs ==
  ASSUME NEW b
  PROVE  OpenQty(b) = Sum(OpenOf(b), Live(b) \ Stops(b))
<1> DEFINE w == OpenOf(b)
           T == Live(b) \ Stops(b)
<1>1. IsFiniteSet(T)
  BY SlotFacts, FS_Subset DEF Live
<1>2. \A s \in SUBSET T : s # {} => w[Pick(s)] = b.order[Pick(s)].rem + b.order[Pick(s)].hid
  BY PickIn DEF OpenOf, Live
<1>3. ASSUME NEW g
      PROVE  [s \in SUBSET T |-> IF s = {} THEN 0 ELSE (b.order[Pick(s)].rem + b.order[Pick(s)].hid) + g[s \ {Pick(s)}]]
             = [s \in SUBSET T |-> IF s = {} THEN 0 ELSE w[Pick(s)] + g[s \ {Pick(s)}]]
  BY <1>2
<1>4. OpenQty(b) = (CHOOSE g : g = [s \in SUBSET T |->
            IF s = {} THEN 0 ELSE (b.order[Pick(s)].rem + b.order[Pick(s)].hid) + g[s \ {Pick(s)}]])[T]
  BY DEF OpenQty, MapThenSumSet, MapThenFoldSet, Pick
<1> DEFINE h == CHOOSE g : g = [s \in SUBSET T |->
            IF s = {} THEN 0 ELSE (b.order[Pick(s)].rem + b.order[Pick(s)].hid) + g[s \ {Pick(s)}]]
<1> HIDE DEF w, T
<1>5. SumFcn(w, T) = [s \in SUBSET T |->
            IF s = {} THEN 0 ELSE (b.order[Pick(s)].rem + b.order[Pick(s)].hid) + SumFcn(w, T)[s \ {Pick(s)}]]
  <2> DEFINE f == SumFcn(w, T)
  <2>1. Sums(f, w, T)
    BY <1>1, SumsExist
  <2> HIDE DEF f
  <2>2. f = [s \in SUBSET T |-> IF s = {} THEN 0 ELSE w[Pick(s)] + f[s \ {Pick(s)}]]
    BY <2>1 DEF Sums
  <2>3. f = [s \in SUBSET T |->
              IF s = {} THEN 0 ELSE (b.order[Pick(s)].rem + b.order[Pick(s)].hid) + f[s \ {Pick(s)}]]
    BY <1>3, <2>2, Zenon
  <2>4. QED
    BY <2>3 DEF f
<1>6. h = [s \in SUBSET T |-> IF s = {} THEN 0 ELSE (b.order[Pick(s)].rem + b.order[Pick(s)].hid) + h[s \ {Pick(s)}]]
  BY <1>5, Zenon
<1> HIDE DEF h
<1>7. Sums(h, w, T)
  BY <1>3, <1>6 DEF Sums
<1>8. Sums(SumFcn(w, T), w, T) /\ T \in SUBSET T
  BY <1>1, SumsExist
<1>9. h[T] = SumFcn(w, T)[T]
  BY <1>1, <1>7, <1>8, SumsAgree
<1>10. QED
  BY <1>4, <1>9 DEF h, w, T, Sum

LEMMA WeightTypes ==
  ASSUME NEW b, BookInv(b)
  PROVE  RemOf(b) \in [Slots -> Nat] /\ OpenOf(b) \in [Slots -> Nat]
<1>1. \A s \in Slots : b.order[s].rem \in Nat /\ b.order[s].hid \in Nat
  BY BookTypes, OrderNat DEF BookInv
<1>2. QED
  BY <1>1 DEF RemOf, OpenOf

\* A sum over slots that keep their orders keeps its value.
LEMMA SumFrame ==
  ASSUME NEW b, NEW c, NEW T \in SUBSET Slots, \A s \in T : c.order[s] = b.order[s]
  PROVE  Sum(RemOf(c), T) = Sum(RemOf(b), T) /\ Sum(OpenOf(c), T) = Sum(OpenOf(b), T)
<1>1. IsFiniteSet(T)
  BY SlotFacts, FS_Subset
<1>2. /\ \A s \in T : RemOf(c)[s] = RemOf(b)[s]
      /\ \A s \in T : OpenOf(c)[s] = OpenOf(b)[s]
  BY DEF RemOf, OpenOf
<1>3. QED
  BY <1>1, <1>2, SumSame

\* What a set of slots holds, with and without the order in slot o.
LEMMA SumSplit ==
  ASSUME NEW b, BookInv(b), NEW T \in SUBSET Slots, NEW o \in T
  PROVE  /\ Sum(RemOf(b), T) = b.order[o].rem + Sum(RemOf(b), T \ {o})
         /\ Sum(RemOf(b), T) \in Nat /\ Sum(RemOf(b), T \ {o}) \in Nat
         /\ Sum(OpenOf(b), T) = b.order[o].rem + b.order[o].hid + Sum(OpenOf(b), T \ {o})
         /\ Sum(OpenOf(b), T) \in Nat /\ Sum(OpenOf(b), T \ {o}) \in Nat
<1>1. RemOf(b) \in [Slots -> Nat] /\ OpenOf(b) \in [Slots -> Nat] /\ IsFiniteSet(Slots)
  BY WeightTypes, SlotFacts
<1>2. T \ {o} \in SUBSET Slots
  OBVIOUS
<1>3. RemOf(b)[o] = b.order[o].rem /\ OpenOf(b)[o] = b.order[o].rem + b.order[o].hid
  BY DEF RemOf, OpenOf
<1>4. /\ Sum(RemOf(b), T) \in Nat /\ Sum(RemOf(b), T \ {o}) \in Nat
      /\ Sum(OpenOf(b), T) \in Nat /\ Sum(OpenOf(b), T \ {o}) \in Nat
  BY <1>1, <1>2, SumNat
<1>5. /\ Sum(RemOf(b), T) = RemOf(b)[o] + Sum(RemOf(b), T \ {o})
      /\ Sum(OpenOf(b), T) = OpenOf(b)[o] + Sum(OpenOf(b), T \ {o})
  BY <1>1, SumTake
<1>6. QED
  BY <1>3, <1>4, <1>5

\* What rests anywhere fits a quantity.
Fits(M) == 2 * M * Capacity < QtyMod

LEMMA SumFits ==
  ASSUME NEW M \in Nat, Fits(M), NEW b, BookInv(b), Bounded(b, M), NEW T \in SUBSET Slots
  PROVE  Sum(RemOf(b), T) \in Nat /\ Sum(RemOf(b), T) < QtyMod
<1>1. RemOf(b) \in [Slots -> Nat] /\ IsFiniteSet(Slots) /\ Cardinality(Slots) = Capacity
  <2>1. Cardinality(1..Capacity) = Capacity
    <3>1. Capacity \in Int /\ 1 \in Int /\ Capacity >= 0
      BY CapacityAssumption
    <3>2. Cardinality(1..Capacity) = IF 1 > Capacity THEN 0 ELSE Capacity - 1 + 1
      BY <3>1, FS_Interval
    <3>3. QED
      BY <3>1, <3>2
  <2>2. QED
    BY <2>1, WeightTypes, SlotFacts DEF Slots
<1>2. \A s \in Slots : RemOf(b)[s] <= 2 * M
  <2> SUFFICES ASSUME NEW s \in Slots PROVE RemOf(b)[s] <= 2 * M
    OBVIOUS
  <2>1. WellFormed(b.order[s], M) /\ b.order[s].rem \in Nat /\ b.order[s].qty \in Nat
    BY OrderNat DEF Bounded, WellFormed
  <2>2. b.order[s].rem <= 2 * M
    BY <2>1 DEF WellFormed
  <2>3. QED
    BY <2>2 DEF RemOf
<1>3. 2 * M \in Nat
  OBVIOUS
<1>4. Sum(RemOf(b), T) <= 2 * M * Cardinality(T)
  BY <1>1, <1>2, <1>3, SumBound
<1>5. Cardinality(T) \in Nat /\ Cardinality(T) <= Capacity
  BY <1>1, FS_Subset, FS_CardinalityType
<1>6. 2 * M * Cardinality(T) <= 2 * M * Capacity
  <2> DEFINE m == 2 * M
             n == Capacity - Cardinality(T)
  <2>1. n \in Nat /\ m \in Nat /\ Capacity = Cardinality(T) + n
    BY <1>5, CapacityAssumption
  <2> HIDE DEF m, n
  <2>2. m * Capacity = m * Cardinality(T) + m * n /\ m * n \in Nat /\ m * Cardinality(T) \in Nat
    BY <1>5, <2>1
  <2>3. m * Cardinality(T) <= m * Capacity
    BY <2>2
  <2>4. QED
    BY <2>3 DEF m
<1>7. Sum(RemOf(b), T) \in Nat
  BY <1>1, SumNat
<1>8. 2 * M * Capacity \in Nat /\ 2 * M * Cardinality(T) \in Nat
  BY <1>5, CapacityAssumption
<1>9. QED
  BY <1>4, <1>6, <1>7, <1>8, QtyModAssumption DEF Fits

-----------------------------------------------------------------------------
(***************************************************************************)
(* The steps an operation is made of, with orders of at most size M.       *)
(***************************************************************************)
DepthInv(b) == \A k \in Keys : b.level[k].agg = Sum(RemOf(b), Resting(b, k))

\* The orders of one level move or change, and none is added.
Moved(b, c, M) ==
  \/ c = b
  \/ \E k \in Keys : \E o \in Resting(b, k) :
       \/ Retired(b, c, k, o)
       \/ Requeued(b, c, k, o) /\ Replenishable(b, o)
       \/ \E ord : /\ Resized(b, c, k, o, ord, Adjusted(b.level[k].agg, ord.rem - b.order[o].rem))
                   /\ WellFormed(ord, M)

Moves(b, c, M) == \E d : BookInv(d) /\ Moved(b, d, M) /\ Moved(d, c, M)

Elementary(b, c, M) ==
  \/ Moved(b, c, M)
  \/ \E k \in Keys : \E o, ord : LimitAdded(b, c, k, o, ord) /\ WellFormed(ord, M)
  \/ \E o, ord : StopAdded(b, c, o, ord) /\ WellFormed(ord, M)

Changes(b, c, M) ==
  \E d : BookInv(d) /\ Elementary(b, d, M) /\ Elementary(d, c, M)

BookSteps(b, c, M) == Changes(b, c, M) \/ \E O : StopsLeft(b, c, O)

\* The orders outside slot o and the levels other than k stay.
LEMMA DepthFrame ==
  ASSUME NEW b, BookInv(b), DepthInv(b), NEW c, NEW k \in Keys, NEW o,
         \A s \in Slots : s # o => c.order[s] = b.order[s],
         \A j \in Keys : j # k => /\ c.level[j] = b.level[j]
                                  /\ Resting(c, j) = Resting(b, j) /\ o \notin Resting(b, j),
         c.level[k].agg = Sum(RemOf(c), Resting(c, k))
  PROVE  DepthInv(c)
<1> SUFFICES ASSUME NEW j \in Keys, j # k
             PROVE  c.level[j].agg = Sum(RemOf(c), Resting(c, j))
  BY DEF DepthInv
<1> DEFINE T == Resting(b, j)
<1>1. T \in SUBSET Slots /\ o \notin T /\ Resting(c, j) = T
  BY DEF Resting, Live
<1>2. b.level[j].agg = Sum(RemOf(b), T)
  BY DEF DepthInv
<1> HIDE DEF T
<1>3. \A s \in T : c.order[s] = b.order[s]
  BY <1>1
<1>4. Sum(RemOf(c), T) = Sum(RemOf(b), T)
  BY <1>1, <1>3, SumFrame
<1>5. QED
  BY <1>1, <1>2, <1>4

LEMMA DepthAdded ==
  ASSUME NEW M \in Nat, Fits(M), NEW b, BookInv(b), DepthInv(b), Bounded(b, M),
         NEW c, BookInv(c), NEW k \in Keys, NEW o, NEW ord, LimitAdded(b, c, k, o, ord),
         WellFormed(ord, M)
  PROVE  DepthInv(c) /\ Bounded(c, M)
<1> DEFINE R == Resting(b, k)
           S == Resting(c, k)
<1>1. /\ o \in Slots \ Live(b) /\ c.order = [b.order EXCEPT ![o] = ord]
      /\ \A j : Resting(c, j) = Resting(b, j) \cup (IF j = k THEN {o} ELSE {})
      /\ \A j \in Keys : j # k => c.level[j] = b.level[j]
      /\ c.level[k].agg = ((IF HasLevel(b, k) THEN b.level[k].agg ELSE 0) + ord.rem) % QtyMod
  BY DEF LimitAdded
<1>2. b.order \in [Slots -> Order]
  BY BookTypes DEF BookInv
<1>3. c.order[o] = ord /\ \A s \in Slots : s # o => c.order[s] = b.order[s]
  BY <1>1, <1>2
<1>4. Bounded(c, M)
  BY <1>3 DEF Bounded
<1>5. \A j : Resting(b, j) \subseteq Live(b)
  BY DEF Resting
<1>6. S \in SUBSET Slots /\ o \in S /\ S \ {o} = R
  BY <1>1, <1>5 DEF Live
<1>6a. R \in SUBSET Slots /\ \A s \in R : c.order[s] = b.order[s]
  BY <1>3, <1>6
<1>6b. \/ HasLevel(b, k) /\ b.level[k].agg = Sum(RemOf(b), R)
       \/ ~HasLevel(b, k) /\ R = {}
  BY LadderPlace DEF BookInv, ExactLevels, DepthInv
<1> HIDE DEF R, S
<1>7. /\ Sum(RemOf(c), S) = ord.rem + Sum(RemOf(c), R)
      /\ Sum(RemOf(c), S) \in Nat /\ Sum(RemOf(c), R) \in Nat
  BY <1>3, <1>6, SumSplit
<1>8. Sum(RemOf(c), R) = Sum(RemOf(b), R)
  BY <1>6a, SumFrame
<1>9. Sum(RemOf(c), S) < QtyMod
  BY <1>4, <1>6, SumFits
<1>10. (IF HasLevel(b, k) THEN b.level[k].agg ELSE 0) = Sum(RemOf(b), R)
  <2>1. Sum(RemOf(b), {}) = 0
    BY SumUnfold, FS_EmptySet
  <2>2. QED
    BY <1>6b, <2>1
<1>11. ord.rem \in Nat
  BY OrderNat DEF WellFormed
<1>12. c.level[k].agg = Sum(RemOf(c), S)
  BY <1>1, <1>7, <1>8, <1>9, <1>10, <1>11, QtyModAssumption
<1>13. \A j \in Keys : j # k => Resting(c, j) = Resting(b, j) /\ o \notin Resting(b, j)
  BY <1>1, <1>5
<1>14. DepthInv(c)
  BY <1>1, <1>3, <1>12, <1>13, DepthFrame DEF S
<1>15. QED
  BY <1>4, <1>14

LEMMA DepthStop ==
  ASSUME NEW M \in Nat, NEW b, BookInv(b), DepthInv(b), Bounded(b, M),
         NEW c, NEW o, NEW ord, StopAdded(b, c, o, ord), WellFormed(ord, M)
  PROVE  DepthInv(c) /\ Bounded(c, M)
<1>1. /\ o \in Slots \ Live(b) /\ c.order = [b.order EXCEPT ![o] = ord]
      /\ \A j : Resting(c, j) = Resting(b, j)
      /\ c.level = b.level
  BY DEF StopAdded
<1>2. b.order \in [Slots -> Order]
  BY BookTypes DEF BookInv
<1>3. c.order[o] = ord /\ \A s \in Slots : s # o => c.order[s] = b.order[s]
  BY <1>1, <1>2
<1>4. Bounded(c, M)
  BY <1>3 DEF Bounded
<1>5. ASSUME NEW k \in Keys PROVE c.level[k].agg = Sum(RemOf(c), Resting(c, k))
  <2> DEFINE T == Resting(b, k)
  <2>1. T \in SUBSET Slots /\ o \notin T /\ Resting(c, k) = T /\ b.level[k].agg = Sum(RemOf(b), T)
    BY <1>1 DEF Resting, Live, DepthInv
  <2> HIDE DEF T
  <2>2. Sum(RemOf(c), T) = Sum(RemOf(b), T)
    BY <1>3, <2>1, SumFrame
  <2>3. QED
    BY <1>1, <2>1, <2>2
<1>6. QED
  BY <1>4, <1>5 DEF DepthInv

LEMMA DepthStopsLeft ==
  ASSUME NEW M, NEW b, DepthInv(b), Bounded(b, M), NEW c, NEW O, StopsLeft(b, c, O)
  PROVE  DepthInv(c) /\ Bounded(c, M)
BY DEF StopsLeft, DepthInv, Bounded, RemOf

\* A slot is in the list of one level only.
LEMMA OneLevel ==
  ASSUME NEW b, NEW k, NEW o \in Resting(b, k)
  PROVE  o \in Slots /\ Resting(b, k) \in SUBSET Slots /\ \A j : j # k => o \notin Resting(b, j)
BY DEF Resting, Live

LEMMA DepthRetired ==
  ASSUME NEW M \in Nat, Fits(M), NEW b, BookInv(b), DepthInv(b), Bounded(b, M),
         NEW c, BookInv(c), NEW k \in Keys, NEW o \in Resting(b, k), Retired(b, c, k, o)
  PROVE  DepthInv(c) /\ Bounded(c, M)
<1> DEFINE R == Resting(b, k)
           T == R \ {o}
<1>1. /\ c.order = b.order
      /\ \A j : Resting(c, j) = Resting(b, j) \ {o}
      /\ \A j \in Keys : j # k => c.level[j] = b.level[j]
      /\ c.level[k].agg = IF Resting(b, k) = {o} THEN 0
                          ELSE (b.level[k].agg - b.order[o].rem) % QtyMod
  BY DEF Retired
<1>2. Bounded(c, M)
  BY <1>1 DEF Bounded
<1>3. /\ R \in SUBSET Slots /\ o \in R /\ Resting(c, k) = T /\ T \in SUBSET Slots
      /\ b.level[k].agg = Sum(RemOf(b), R)
  BY <1>1, OneLevel DEF DepthInv
<1>4. RemOf(c) = RemOf(b)
  BY <1>1 DEF RemOf
<1>4a. R = {o} => T = {}
  OBVIOUS
<1> HIDE DEF T
<1>5. Sum(RemOf(b), R) = b.order[o].rem + Sum(RemOf(b), T) /\ Sum(RemOf(b), T) \in Nat
  BY <1>3, SumSplit DEF T
<1>6. Sum(RemOf(b), T) < QtyMod /\ Sum(RemOf(b), {}) = 0
  BY <1>3, SumFits, SumUnfold, FS_EmptySet
<1>7. b.order[o].rem \in Nat
  BY <1>3, BookTypes, OrderNat DEF BookInv
<1>8. (b.level[k].agg - b.order[o].rem) % QtyMod = Sum(RemOf(b), T)
  <2>1. b.level[k].agg - b.order[o].rem = Sum(RemOf(b), T)
    BY <1>3, <1>5, <1>7
  <2>2. QED
    BY <1>5, <1>6, <2>1, QtyModAssumption
<1>9. c.level[k].agg = Sum(RemOf(c), Resting(c, k))
  BY <1>1, <1>3, <1>4, <1>4a, <1>6, <1>8
<1>10. \A j \in Keys : j # k => Resting(c, j) = Resting(b, j) /\ o \notin Resting(b, j)
  BY <1>1, OneLevel
<1>11. DepthInv(c)
  BY <1>1, <1>9, <1>10, DepthFrame
<1>12. QED
  BY <1>2, <1>11

LEMMA DepthResized ==
  ASSUME NEW M \in Nat, Fits(M), NEW b, BookInv(b), DepthInv(b), Bounded(b, M),
         NEW c, BookInv(c), NEW k \in Keys, NEW o \in Resting(b, k), NEW ord, WellFormed(ord, M),
         Resized(b, c, k, o, ord, Adjusted(b.level[k].agg, ord.rem - b.order[o].rem))
  PROVE  DepthInv(c) /\ Bounded(c, M)
<1> DEFINE R == Resting(b, k)
           T == R \ {o}
<1>1. /\ c.order = [b.order EXCEPT ![o] = ord]
      /\ \A j : Resting(c, j) = Resting(b, j)
      /\ \A j \in Keys : j # k => c.level[j] = b.level[j]
      /\ c.level[k].agg = Adjusted(b.level[k].agg, ord.rem - b.order[o].rem)
  BY ShapeSets DEF Resized
<1>2. b.order \in [Slots -> Order]
  BY BookTypes DEF BookInv
<1>3. /\ R \in SUBSET Slots /\ o \in R /\ o \in Slots /\ Resting(c, k) = R /\ T \in SUBSET Slots
      /\ b.level[k].agg = Sum(RemOf(b), R) /\ o \notin T
  BY <1>1, OneLevel DEF DepthInv
<1>4. c.order[o] = ord /\ \A s \in Slots : s # o => c.order[s] = b.order[s]
  BY <1>1, <1>2, <1>3
<1>5. Bounded(c, M)
  BY <1>4 DEF Bounded
<1> HIDE DEF R
<1>6. /\ Sum(RemOf(b), R) = b.order[o].rem + Sum(RemOf(b), T) /\ Sum(RemOf(b), T) \in Nat
      /\ Sum(RemOf(c), R) = ord.rem + Sum(RemOf(c), T)
  BY <1>3, <1>4, SumSplit
<1> HIDE DEF T
<1>7. Sum(RemOf(c), T) = Sum(RemOf(b), T)
  BY <1>3, <1>4, SumFrame
<1>8. Sum(RemOf(c), R) < QtyMod
  BY <1>3, <1>5, SumFits
<1>9. b.order[o].rem \in Nat /\ ord.rem \in Nat
  BY <1>2, <1>3, OrderNat DEF WellFormed
<1>10. c.level[k].agg = Sum(RemOf(c), R)
  BY <1>1, <1>3, <1>6, <1>7, <1>8, <1>9, QtyModAssumption DEF Adjusted
<1>11. \A j \in Keys : j # k => Resting(c, j) = Resting(b, j) /\ o \notin Resting(b, j)
  BY <1>1, OneLevel
<1>12. DepthInv(c)
  BY <1>1, <1>3, <1>4, <1>10, <1>11, DepthFrame
<1>13. QED
  BY <1>5, <1>12

\* A new slice: what the order shows next comes out of what it hides.
Sliced(old) ==
  LET slice == MinOf(old.disp, old.hid) IN [old EXCEPT !.hid = @ - slice, !.rem = slice]

LEMMA SizedSlice ==
  ASSUME NEW M \in Nat, NEW old, WellFormed(old, M), old.disp # 0
  PROVE  /\ WellFormed(Sliced(old), M) /\ Sliced(old).rem = MinOf(old.disp, old.hid)
         /\ Sliced(old).rem \in Nat /\ Sliced(old).rem + Sliced(old).hid = old.hid
<1> DEFINE slice == MinOf(old.disp, old.hid)
           new == Sliced(old)
<1>1. old \in Order /\ old.disp \in Nat /\ old.hid \in Nat /\ old.hid <= M /\ old.qty \in Nat
  BY OrderNat DEF WellFormed
<1>2. slice \in Nat /\ slice <= old.hid /\ slice \in Qty /\ old.hid - slice \in Qty
  BY <1>1, OrderNat, QtyModAssumption DEF MinOf, Qty
<1>2a. new = [old EXCEPT !.hid = @ - slice, !.rem = slice]
  BY Zenon DEF Sliced
<1> HIDE DEF slice, new
<1>3. /\ new \in Order /\ new.rem = slice /\ new.hid = old.hid - slice /\ new.qty = old.qty
      /\ new.disp = old.disp
      /\ new.id = old.id /\ new.stype = old.stype /\ new.price = old.price
  BY <1>1, <1>2, <1>2a DEF Order
<1>4. WellFormed(new, M)
  BY <1>1, <1>2, <1>3 DEF WellFormed
<1>5. QED
  BY <1>1, <1>2, <1>3, <1>4 DEF new, slice

LEMMA DepthRequeued ==
  ASSUME NEW M \in Nat, Fits(M), NEW b, BookInv(b), DepthInv(b), Bounded(b, M),
         NEW c, BookInv(c), NEW k \in Keys, NEW o \in Resting(b, k), Requeued(b, c, k, o),
         Replenishable(b, o)
  PROVE  DepthInv(c) /\ Bounded(c, M)
<1> DEFINE R == Resting(b, k)
           T == R \ {o}
           slice == MinOf(b.order[o].disp, b.order[o].hid)
           ord == Sliced(b.order[o])
<1>1. /\ c.order = [b.order EXCEPT ![o] = ord]
      /\ \A j : Resting(c, j) = Resting(b, j)
      /\ \A j \in Keys : j # k => c.level[j] = b.level[j]
      /\ c.level[k].agg = (((b.level[k].agg - b.order[o].rem) % QtyMod) + slice) % QtyMod
  BY Zenon DEF Requeued, Sliced
<1>2. b.order \in [Slots -> Order]
  BY BookTypes DEF BookInv
<1>3. /\ R \in SUBSET Slots /\ o \in R /\ o \in Slots /\ Resting(c, k) = R /\ T \in SUBSET Slots
      /\ b.level[k].agg = Sum(RemOf(b), R) /\ o \notin T
  BY <1>1, OneLevel DEF DepthInv
<1>3a. WellFormed(b.order[o], M)
  BY <1>3 DEF Bounded
<1>3b. b.order[o].disp # 0
  BY DEF Replenishable
<1> HIDE DEF ord, slice, R
<1>3c. WellFormed(ord, M) /\ ord.rem = slice /\ slice \in Nat
  BY <1>3a, <1>3b, SizedSlice DEF ord, slice
<1>4. c.order[o] = ord /\ \A s \in Slots : s # o => c.order[s] = b.order[s]
  BY <1>1, <1>2, <1>3
<1>5. Bounded(c, M)
  BY <1>3c, <1>4 DEF Bounded
<1>6. /\ Sum(RemOf(b), R) = b.order[o].rem + Sum(RemOf(b), T) /\ Sum(RemOf(b), T) \in Nat
      /\ Sum(RemOf(c), R) = ord.rem + Sum(RemOf(c), T)
  <2>1. Sum(RemOf(b), R) = b.order[o].rem + Sum(RemOf(b), T) /\ Sum(RemOf(b), T) \in Nat
    BY <1>3, SumSplit
  <2>2. Sum(RemOf(c), R) = c.order[o].rem + Sum(RemOf(c), T)
    BY <1>3, SumSplit
  <2>3. QED
    BY <1>4, <2>1, <2>2
<1> HIDE DEF T
<1>7. Sum(RemOf(c), T) = Sum(RemOf(b), T)
  BY <1>3, <1>4, SumFrame
<1>8. Sum(RemOf(c), R) < QtyMod /\ Sum(RemOf(b), T) < QtyMod
  BY <1>3, <1>5, SumFits
<1>9. b.order[o].rem \in Nat
  BY <1>2, <1>3, OrderNat
<1>10. (b.level[k].agg - b.order[o].rem) % QtyMod = Sum(RemOf(b), T)
  BY <1>3, <1>6, <1>8, <1>9, QtyModAssumption
<1>11. c.level[k].agg = Sum(RemOf(c), R)
  BY <1>1, <1>3c, <1>6, <1>7, <1>8, <1>10, QtyModAssumption
<1>12. \A j \in Keys : j # k => Resting(c, j) = Resting(b, j) /\ o \notin Resting(b, j)
  BY <1>1, OneLevel
<1>13. DepthInv(c)
  BY <1>1, <1>3, <1>4, <1>11, <1>12, DepthFrame
<1>14. QED
  BY <1>5, <1>13

LEMMA DepthElementary ==
  ASSUME NEW M \in Nat, Fits(M), NEW b, BookInv(b), DepthInv(b), Bounded(b, M),
         NEW c, BookInv(c), Elementary(b, c, M)
  PROVE  DepthInv(c) /\ Bounded(c, M)
<1>1. ASSUME NEW k \in Keys, NEW o \in Resting(b, k),
             \/ Retired(b, c, k, o)
             \/ Requeued(b, c, k, o) /\ Replenishable(b, o)
             \/ \E ord : /\ Resized(b, c, k, o, ord,
                                    Adjusted(b.level[k].agg, ord.rem - b.order[o].rem))
                         /\ WellFormed(ord, M)
      PROVE  DepthInv(c) /\ Bounded(c, M)
  <2>1. CASE Retired(b, c, k, o)
    BY <2>1, DepthRetired
  <2>2. CASE Requeued(b, c, k, o) /\ Replenishable(b, o)
    BY <2>2, DepthRequeued
  <2>3. ASSUME NEW ord, WellFormed(ord, M),
               Resized(b, c, k, o, ord, Adjusted(b.level[k].agg, ord.rem - b.order[o].rem))
        PROVE  DepthInv(c) /\ Bounded(c, M)
    BY <2>3, DepthResized
  <2>4. QED
    BY <1>1, <2>1, <2>2, <2>3
<1>2. ASSUME NEW k \in Keys, NEW o, NEW ord, LimitAdded(b, c, k, o, ord), WellFormed(ord, M)
      PROVE  DepthInv(c) /\ Bounded(c, M)
  BY <1>2, DepthAdded
<1>3. ASSUME NEW o, NEW ord, StopAdded(b, c, o, ord), WellFormed(ord, M)
      PROVE  DepthInv(c) /\ Bounded(c, M)
  BY <1>3, DepthStop
<1>4. QED
  BY <1>1, <1>2, <1>3 DEF Elementary, Moved

LEMMA DepthSteps ==
  ASSUME NEW M \in Nat, Fits(M), NEW b, BookInv(b), DepthInv(b), Bounded(b, M),
         NEW c, BookInv(c), BookSteps(b, c, M)
  PROVE  DepthInv(c) /\ Bounded(c, M)
<1>1. CASE Changes(b, c, M)
  <2>1. PICK d : BookInv(d) /\ Elementary(b, d, M) /\ Elementary(d, c, M)
    BY <1>1 DEF Changes
  <2>2. DepthInv(d) /\ Bounded(d, M)
    BY <2>1, DepthElementary
  <2>3. QED
    BY <2>1, <2>2, DepthElementary
<1>2. QED
  BY <1>1, DepthStopsLeft DEF BookSteps

-----------------------------------------------------------------------------
(***************************************************************************)
(* Every step of the specification is made of such steps.                  *)
(***************************************************************************)
\* An order of which amt was taken.
Lessened(old, amt) == [old EXCEPT !.rem = @ - amt]

LEMMA SizedLess ==
  ASSUME NEW M \in Nat, NEW old, WellFormed(old, M), NEW amt \in Nat, amt <= old.rem
  PROVE  /\ WellFormed(Lessened(old, amt), M) /\ Lessened(old, amt).rem = old.rem - amt
         /\ Lessened(old, amt).hid = old.hid /\ Lessened(old, amt).disp = old.disp
<1> DEFINE new == Lessened(old, amt)
<1>1. old \in Order /\ old.rem \in Nat /\ old.rem \in Qty /\ old.qty \in Nat
  BY OrderNat DEF WellFormed
<1>2. old.rem - amt \in Qty
  BY <1>1, QtyModAssumption DEF Qty
<1>3. /\ new \in Order /\ new.rem = old.rem - amt /\ new.hid = old.hid /\ new.qty = old.qty
      /\ new.disp = old.disp
      /\ new.id = old.id /\ new.stype = old.stype /\ new.price = old.price
  BY <1>1, <1>2 DEF Order, Lessened
<1> HIDE DEF new
<1>4. WellFormed(new, M)
  BY <1>1, <1>3 DEF WellFormed
<1>5. QED
  BY <1>3, <1>4 DEF new

LEMMA AdjustIsDecrease ==
  ASSUME NEW a \in Nat, NEW amt \in Nat, a < QtyMod
  PROVE  Adjusted(a, -amt) = Decreased(a, amt)
BY QtyModAssumption DEF Adjusted, Decreased

LEMMA MovesFilled ==
  ASSUME NEW M \in Nat, NEW b, BookInv(b), Bounded(b, M), NEW c, NEW k \in Keys,
         NEW o \in Resting(b, k), NEW amt \in Nat, amt <= b.order[o].rem,
         Filled(b, c, k, o, amt, Adjusted(b.level[k].agg, -amt))
  PROVE  Moves(b, c, M)
<1> DEFINE ord == Lessened(b.order[o], amt)
           x == Adjusted(b.level[k].agg, -amt)
<1>1. PICK d : /\ BookInv(d) /\ Resized(b, d, k, o, ord, x)
               /\ b.order[o].rem # amt => c = d
               /\ b.order[o].rem = amt /\ Replenishable(d, o) => Requeued(d, c, k, o)
               /\ b.order[o].rem = amt /\ ~Replenishable(d, o) => Retired(d, c, k, o)
  BY Zenon DEF Filled, Lessened
<1>2. o \in Slots /\ WellFormed(b.order[o], M) /\ b.order[o].rem \in Nat
  BY OneLevel, OrderNat DEF Bounded, WellFormed
<1> HIDE DEF ord
<1>3. WellFormed(ord, M) /\ ord.rem = b.order[o].rem - amt
  <2>1. PICK old : old = b.order[o]
    OBVIOUS
  <2>2. WellFormed(old, M) /\ amt <= old.rem
    BY <1>2, <2>1
  <2>3. WellFormed(Lessened(old, amt), M) /\ Lessened(old, amt).rem = old.rem - amt
    BY ONLY <2>2, SizedLess, M \in Nat, amt \in Nat
  <2>4. QED
    BY ONLY <2>1, <2>3 DEF ord
<1>4. x = Adjusted(b.level[k].agg, ord.rem - b.order[o].rem)
  <2>1. ord.rem - b.order[o].rem = -amt
    BY <1>2, <1>3
  <2>2. QED
    BY <2>1
<1> HIDE DEF x
<1>5. Moved(b, d, M)
  BY <1>1, <1>3, <1>4 DEF Moved
<1>6. Resting(d, k) = Resting(b, k)
  BY <1>1, ShapeSets DEF Resized
<1>7. Moved(d, c, M)
  BY <1>1, <1>6 DEF Moved
<1>8. QED
  BY <1>1, <1>5, <1>7 DEF Moves

LEMMA ChangesOne ==
  ASSUME NEW M, NEW b, BookInv(b), NEW c, Elementary(b, c, M)
  PROVE  Changes(b, c, M)
BY DEF Changes, Elementary, Moved

LEMMA ChangesModify ==
  ASSUME NEW M \in Nat, Slots # {} => 2 * M < QtyMod, NEW b, BookInv(b), Bounded(b, M),
         b.nextId <= MaxId, NEW id \in Ids, FindId(b, id) \notin Stops(b),
         NEW price \in Prices, NEW qty \in Qty, qty <= M, NEW c, c = ModifyOrder(b, id, price, qty)
  PROVE  Changes(b, c, M)
<1> DEFINE o == FindId(b, id)
           k == KeyOf(b, o)
<1>1. CASE o = Null
  <2>1. c = b
    BY <1>1, ModifyInv
  <2>2. QED
    BY <2>1, ChangesOne DEF Elementary, Moved
<1>2. CASE o # Null /\ price # b.order[o].price
  <2> DEFINE ord(d) == LimitOrder(d, b.order[o].side, price, qty)
             key == <<b.order[o].side, price>>
  <2>1. o \in Resting(b, k) /\ k \in Keys
    BY <1>2, ModifyInv
  <2>2. PICK d : /\ BookInv(d) /\ Retired(b, d, k, o)
                 /\ LimitAdded(d, c, key, FreshSlot(d), ord(d))
    BY <1>2, ModifyInv, Zenon
  <2>3. o \in Slots /\ b.order[o].side \in Sides
    BY <2>1, OneLevel, BookTypes DEF BookInv, Order
  <2>4. d.nextId <= MaxId /\ d \in Book
    BY <2>2 DEF Retired, BookInv
  <2>5. WellFormed(ord(d), M)
    BY <2>3, <2>4, SizedLimit
  <2>6. key \in Keys
    BY <2>3 DEF Keys
  <2> DEFINE new == ord(d)
             f == FreshSlot(d)
  <2> HIDE DEF new, f, key, o, k
  <2>7. LimitAdded(d, c, key, f, new) /\ WellFormed(new, M)
    BY <2>2, <2>5, Zenon DEF f, new
  <2>8. Elementary(d, c, M)
    BY <2>6, <2>7 DEF Elementary, Moved
  <2>9. Elementary(b, d, M)
    BY <2>1, <2>2 DEF Elementary, Moved
  <2>10. QED
    BY <2>2, <2>8, <2>9 DEF Changes
<1>3. CASE o # Null /\ price = b.order[o].price
  <2> DEFINE rem == ResizedRem(b.order[o], qty)
             ord == [b.order[o] EXCEPT !.qty = qty, !.rem = rem]
             x == Adjusted(b.level[k].agg, rem - b.order[o].rem)
  <2>1. Resized(b, c, k, o, ord, x)
    BY <1>3, ModifyInv, Zenon
  <2>2. o \in Resting(b, k) /\ k \in Keys
    BY <1>3, ModifyInv
  <2>3. o \in Slots /\ 2 * M < QtyMod
    BY <2>2, OneLevel
  <2>4. WellFormed(b.order[o], M)
    BY <2>3 DEF Bounded
  <2>5. WellFormed(ord, M) /\ ord.rem = rem
    BY <2>3, <2>4, SizedModify
  <2> HIDE DEF ord, rem, o, k
  <2>6. x = Adjusted(b.level[k].agg, ord.rem - b.order[o].rem)
    BY <2>5
  <2> HIDE DEF x
  <2>7. Elementary(b, c, M)
    BY <2>1, <2>2, <2>5, <2>6 DEF Elementary, Moved
  <2>8. QED
    BY <2>7, ChangesOne
<1>4. QED
  BY <1>1, <1>2, <1>3

LEMMA ConfigureMoved ==
  ASSUME NEW M \in Nat, NEW b, BookInv(b), Bounded(b, M), NEW id \in Ids,
         FindId(b, id) \notin Stops(b), NEW display \in Qty,
         NEW c, c = ConfigureIceberg(b, id, display)
  PROVE  Moved(b, c, M)
<1> DEFINE o == FindId(b, id)
           k == KeyOf(b, o)
<1>1. CASE o = Null \/ display = 0
  <2>1. c = b
    BY <1>1, ConfigureInv
  <2>2. QED
    BY <2>1 DEF Moved
<1>2. CASE o # Null /\ display # 0
  <2> DEFINE q == b.order[o].qty
             rem == MinOf(display, q)
             ord == [b.order[o] EXCEPT !.disp = display,
                                       !.hid = IF q > display THEN q - display ELSE 0,
                                       !.rem = rem]
             x == Adjusted(b.level[k].agg, rem - b.order[o].rem)
  <2>1. /\ Resized(b, c, k, o, ord, x)
        /\ o \in Resting(b, k) /\ k \in Keys
    BY <1>2, ConfigureInv, Zenon
  <2>2. o \in Slots
    BY <2>1, OneLevel
  <2>3. WellFormed(b.order[o], M)
    BY <2>2 DEF Bounded
  <2>4. WellFormed(ord, M) /\ ord.rem = rem
    BY <1>2, <2>3, SizedConfigure, Zenon
  <2> HIDE DEF ord, rem, o, k
  <2>5. x = Adjusted(b.level[k].agg, ord.rem - b.order[o].rem)
    BY <2>4
  <2> HIDE DEF x
  <2>6. QED
    BY <2>1, <2>4, <2>5 DEF Moved
<1>3. QED
  BY <1>1, <1>2

LEMMA NextSteps ==
  ASSUME TouchStops = FALSE, NEW M \in Nat, SizesUpTo(M), Slots # {} => 2 * M < QtyMod,
         Inv, Bounded(book, M), [Next]_vars
  PROVE  BookSteps(book, book', M)
<1>1. BookInv(book) /\ call \in MarketCall /\ book \in Book
  BY DEF Inv, TypeOK
<1>2. \A id \in Ids : MayTouch(id) => FindId(book, id) \notin Stops(book)
  BY DEF MayTouch
<1>3. ASSUME book' = book PROVE BookSteps(book, book', M)
  BY <1>1, <1>3, ChangesOne DEF BookSteps, Elementary, Moved
<1>3a. /\ \A qty \in Qtys : qty \in Qty /\ qty <= M
       /\ \A qty \in StopQtys : qty \in Qty /\ qty <= M
       /\ \A qty \in TakeQtys : qty \in Qty
  BY SizeFacts DEF SizesUpTo
<1>4. ASSUME NEW side \in QuoteSides, NEW price \in Prices, NEW qty \in Qtys, Add(side, price, qty)
      PROVE  BookSteps(book, book', M)
  <2> DEFINE k == <<side, price>>
             o == FreshSlot(book)
             ord == LimitOrder(book, side, price, qty)
  <2>1. side \in Sides /\ qty \in Qty /\ k \in Keys
    BY QuoteSidesAssumption, SizeFacts DEF Keys
  <2>2. \/ book' = book
        \/ LimitAdded(book, book', k, o, ord)
    BY <1>1, <1>4, <2>1, AddLimitInv, Zenon DEF Add, CanIssue
  <2>3. WellFormed(ord, M)
    BY <1>1, <1>3a, <1>4, <2>1, SizedLimit DEF Add, CanIssue
  <2> HIDE DEF k, o, ord
  <2>4. Elementary(book, book', M)
    BY <2>1, <2>2, <2>3 DEF Elementary, Moved
  <2>5. QED
    BY <1>1, <2>4, ChangesOne DEF BookSteps
<1>5. ASSUME NEW id \in Ids, Cancel(id) PROVE BookSteps(book, book', M)
  <2> DEFINE o == FindId(book, id)
             k == KeyOf(book, o)
  <2>1. book' = book \/ (Retired(book, book', k, o) /\ o \in Resting(book, k))
    BY <1>1, <1>2, <1>5, CancelInv, Zenon DEF Cancel
  <2>2. o \in Resting(book, k) => k \in Keys
    BY <1>1, OneLevel, KeyType
  <2> HIDE DEF k, o
  <2>3. Elementary(book, book', M)
    BY <2>1, <2>2 DEF Elementary, Moved
  <2>4. QED
    BY <1>1, <2>3, ChangesOne DEF BookSteps
<1>6. ASSUME NEW id \in Ids, NEW price \in Prices, NEW qty \in Qtys, Modify(id, price, qty)
      PROVE  BookSteps(book, book', M)
  BY <1>1, <1>2, <1>3a, <1>6, ChangesModify DEF BookSteps, Modify, CanIssue
<1>7. ASSUME NEW id \in Ids, NEW display \in Displays, Configure(id, display)
      PROVE  BookSteps(book, book', M)
  <2>1. display \in Qty
    BY SizeFacts
  <2>2. QED
    BY <1>1, <1>2, <1>7, <2>1, ConfigureMoved, ChangesOne DEF BookSteps, Configure, Elementary
<1>8. ASSUME NEW id \in Ids, NEW qty \in TakeQtys, Fill(id, qty)
      PROVE  BookSteps(book, book', M)
  <2> DEFINE o == FindId(book, id)
             k == KeyOf(book, o)
             amt == MinOf(qty, book.order[o].rem)
  <2>1. \/ book' = book
        \/ /\ k \in Keys /\ o \in Resting(book, k) /\ amt \in Nat /\ amt <= book.order[o].rem
           /\ Filled(book, book', k, o, amt, Adjusted(book.level[k].agg, -amt))
    BY <1>1, <1>2, <1>3a, <1>8, FillInv, Zenon DEF Fill
  <2> HIDE DEF o, k, amt
  <2>2. QED
    BY <1>1, <1>3, <2>1, MovesFilled DEF BookSteps, Changes, Moves, Elementary
<1>9. ASSUME NEW side \in Sides, NEW stop \in StopPrices, NEW qty \in StopQtys,
             NEW stype \in StopTypes \ {NoStop},
             NEW price \in Prices \cup {NoPrice}, stype # StopMarket => price \in Prices,
             NEW display \in Displays \cup {0},
             AddStop(side, stop, qty, stype, price, display)
      PROVE  BookSteps(book, book', M)
  <2> DEFINE ord == StopOrder(book, side, stop, qty, stype, price, display)
  <2>1. qty \in Qty /\ display \in Qty /\ stop \in Prices
    BY SizeFacts, StopPricesAssumption
  <2>2. book' = book \/ StopAdded(book, book', FreshSlot(book), ord)
    BY <1>1, <1>9, <2>1, AddPendingInv, Zenon DEF AddStop, CanIssue
  <2>3. WellFormed(ord, M)
    BY <1>1, <1>3a, <1>9, <2>1, SizedStop DEF AddStop, CanIssue
  <2> HIDE DEF ord
  <2>4. Elementary(book, book', M)
    BY <2>2, <2>3 DEF Elementary, Moved
  <2>5. QED
    BY <1>1, <2>4, ChangesOne DEF BookSteps
<1>10. CASE TakeStops
  <2>1. StopsLeft(book, book', {})
    BY <1>1, <1>10, TakeInv DEF TakeStops
  <2>2. QED
    BY <2>1 DEF BookSteps
<1>11. ASSUME NEW id \in Ids, ReleaseStop(id) PROVE BookSteps(book, book', M)
  <2>1. StopsLeft(book, book', {FindId(book, id)})
    BY <1>1, <1>11, ReleaseInv DEF ReleaseStop
  <2>2. QED
    BY <2>1 DEF BookSteps
<1>12. ASSUME NEW side \in Sides, NEW qty \in TakeQtys, MarketBegin(side, qty)
       PROVE  BookSteps(book, book', M)
  BY <1>3, <1>12 DEF MarketBegin
<1>13. CASE MarketStep
  <2> DEFINE side == Opposite(call.side)
             k == BestKey(book, side)
             o == book.level[k].head
             amt == MarketTake(book, k, call.left)
  <2>1. call.left \in Qty /\ side \in Sides /\ ~SideEmpty(book, side)
    BY <1>1, <1>13 DEF MarketStep, MarketCall, Opposite, Sides
  <2>2. k \in LevelKeys(book.ladder)
    BY <1>1, <2>1, BestExists
  <2>3. book' = MarketIteration(book, k, call.left)
    BY <1>13, Zenon DEF MarketStep
  <2> HIDE DEF k
  <2>4. /\ k \in Keys /\ o \in Resting(book, k) /\ amt \in 0..call.left /\ amt <= book.order[o].rem
        /\ Filled(book, book', k, o, amt, Decreased(book.level[k].agg, amt))
    BY <1>1, <2>1, <2>2, <2>3, MarketInv, Zenon
  <2>5. amt \in Nat
    BY <2>1, <2>4, QtyInNat
  <2>6. book.level[k].agg \in Nat /\ book.level[k].agg < QtyMod
    BY <1>1, <2>4, BookTypes, QtyModAssumption DEF Level, Qty
  <2> HIDE DEF o, amt
  <2>7. Decreased(book.level[k].agg, amt) = Adjusted(book.level[k].agg, -amt)
    BY <2>5, <2>6, AdjustIsDecrease
  <2>8. QED
    BY <1>1, <2>4, <2>5, <2>7, MovesFilled DEF BookSteps, Changes, Moves, Elementary
<1>14. CASE MarketReturn
  BY <1>3, <1>14 DEF MarketReturn
<1>15. CASE UNCHANGED vars
  BY <1>3, <1>15 DEF vars
<1>16. StopMarket \in StopTypes \ {NoStop} /\ StopLimit \in StopTypes \ {NoStop}
  BY DEF StopMarket, StopLimit, NoStop, StopTypes
<1>17. QED
  BY <1>4, <1>5, <1>6, <1>7, <1>8, <1>9, <1>10, <1>11, <1>12, <1>13, <1>14, <1>15, <1>16,
     StopPricesAssumption DEF Next

LEMMA InitBounded ==
  ASSUME NEW M \in Nat, Init
  PROVE  Bounded(book, M) /\ DepthInv(book)
<1>1. /\ book.order = [s \in Slots |-> BlankOrder] /\ book.ids = [i \in Ids |-> Null]
      /\ book.level = [k \in Keys |-> EmptyLevel]
  BY DEF Init, NewBook
<1>2. WellFormed(BlankOrder, M)
  <2>1. /\ BlankOrder \in Order /\ BlankOrder.qty = 0 /\ BlankOrder.hid = 0 /\ BlankOrder.rem = 0
          /\ BlankOrder.id = 0
    BY BlankType DEF BlankOrder
  <2>2. QED
    BY <2>1 DEF WellFormed
<1>3. Bounded(book, M)
  BY <1>1, <1>2 DEF Bounded
<1>4. Live(book) = {}
  BY <1>1, SlotFacts, MaxIdAssumption DEF Live, BlankOrder, Ids
<1>5. Sum(RemOf(book), {}) = 0
  BY SumUnfold, FS_EmptySet
<1>6. \A k \in Keys : book.level[k].agg = 0 /\ Resting(book, k) = {}
  BY <1>1, <1>4 DEF EmptyLevel, Resting
<1>7. QED
  BY <1>3, <1>5, <1>6 DEF DepthInv

LEMMA BoundedElementary ==
  ASSUME NEW M \in Nat, NEW b, BookInv(b), Bounded(b, M), NEW c, Elementary(b, c, M)
  PROVE  Bounded(c, M)
<1>1. b.order \in [Slots -> Order]
  BY BookTypes DEF BookInv
<1>2. ASSUME NEW o, NEW ord, c.order = [b.order EXCEPT ![o] = ord], WellFormed(ord, M)
      PROVE  Bounded(c, M)
  BY <1>1, <1>2 DEF Bounded
<1>3. ASSUME c.order = b.order PROVE Bounded(c, M)
  BY <1>3 DEF Bounded
<1>4. ASSUME NEW k, NEW o \in Resting(b, k), Requeued(b, c, k, o), Replenishable(b, o)
      PROVE  Bounded(c, M)
  <2>1. c.order = [b.order EXCEPT ![o] = Sliced(b.order[o])]
    BY <1>4, Zenon DEF Requeued, Sliced
  <2>2. o \in Slots /\ b.order[o].disp # 0
    BY <1>4, OneLevel DEF Replenishable
  <2>3. WellFormed(Sliced(b.order[o]), M)
    BY <2>2, SizedSlice DEF Bounded
  <2>4. QED
    BY <1>2, <2>1, <2>3
<1>5. QED
  BY <1>2, <1>3, <1>4 DEF Elementary, Moved, LimitAdded, StopAdded, Retired, Resized

LEMMA BoundedSteps ==
  ASSUME NEW M \in Nat, NEW b, BookInv(b), Bounded(b, M), NEW c, BookSteps(b, c, M)
  PROVE  Bounded(c, M)
<1>1. CASE Changes(b, c, M)
  BY <1>1, BoundedElementary DEF Changes
<1>2. CASE \E O : StopsLeft(b, c, O)
  BY <1>2 DEF StopsLeft, Bounded
<1>3. QED
  BY <1>1, <1>2 DEF BookSteps

LEMMA OpenSplit ==
  ASSUME NEW b, BookInv(b), NEW T \in SUBSET Slots, NEW o \in T, NEW U, U = T \ {o}
  PROVE  /\ Sum(OpenOf(b), T) = b.order[o].rem + b.order[o].hid + Sum(OpenOf(b), U)
         /\ Sum(OpenOf(b), U) \in Nat
BY SumSplit

\* Of the order in slot o, amt leaves the book, and nothing of any other.
LEMMA OpenFilled ==
  ASSUME NEW M \in Nat, NEW b, BookInv(b), Bounded(b, M), NEW c, BookInv(c), NEW k \in Keys,
         NEW o \in Resting(b, k), NEW amt \in Nat, amt <= b.order[o].rem, NEW x,
         Filled(b, c, k, o, amt, x)
  PROVE  OpenQty(b) - OpenQty(c) = amt
<1> DEFINE ord == Lessened(b.order[o], amt)
           T == Live(b) \ Stops(b)
           U == T \ {o}
<1>1. PICK d : /\ BookInv(d) /\ Resized(b, d, k, o, ord, x)
               /\ b.order[o].rem # amt => c = d
               /\ b.order[o].rem = amt /\ Replenishable(d, o) => Requeued(d, c, k, o)
               /\ b.order[o].rem = amt /\ ~Replenishable(d, o) => Retired(d, c, k, o)
  BY Zenon DEF Filled, Lessened
<1>2. o \in Slots /\ WellFormed(b.order[o], M) /\ b.order[o].rem \in Nat /\ b.order[o].hid \in Nat
  BY OneLevel, OrderNat DEF Bounded, WellFormed
<1> HIDE DEF ord
<1>3. /\ WellFormed(ord, M) /\ ord.rem = b.order[o].rem - amt /\ ord.hid = b.order[o].hid
      /\ ord.disp = b.order[o].disp
  <2>1. PICK old : old = b.order[o]
    OBVIOUS
  <2>2. WellFormed(old, M) /\ amt <= old.rem
    BY <1>2, <2>1
  <2>3. LET less == Lessened(old, amt)
        IN  /\ WellFormed(less, M) /\ less.rem = old.rem - amt /\ less.hid = old.hid
            /\ less.disp = old.disp
    BY ONLY <2>2, SizedLess, M \in Nat, amt \in Nat
  <2>4. QED
    BY ONLY <2>1, <2>3 DEF ord
<1>4. /\ d.order = [b.order EXCEPT ![o] = ord] /\ b.order \in [Slots -> Order]
      /\ Live(d) = Live(b) /\ Stops(d) = Stops(b)
  BY <1>1, ShapeSets, BookTypes DEF Resized, BookInv
<1>5. d.order[o] = ord /\ \A s \in Slots : s # o => d.order[s] = b.order[s]
  BY <1>2, <1>4
<1>6. o \in T /\ T \in SUBSET Slots /\ U \in SUBSET Slots /\ o \notin U
  BY DEF Resting, Live, Stops
<1>7. /\ Sum(OpenOf(b), T) = b.order[o].rem + b.order[o].hid + Sum(OpenOf(b), U)
      /\ Sum(OpenOf(b), U) \in Nat /\ OpenQty(b) = Sum(OpenOf(b), T)
  <2>1. OpenQty(b) = Sum(OpenOf(b), T)
    BY OpenQtyIs
  <2> HIDE DEF T, U
  <2>2. /\ Sum(OpenOf(b), T) = b.order[o].rem + b.order[o].hid + Sum(OpenOf(b), U)
        /\ Sum(OpenOf(b), U) \in Nat
    BY <1>6, OpenSplit DEF U
  <2>3. QED
    BY <2>1, <2>2
<1>8. CASE c = d
  <2>1. OpenQty(c) = Sum(OpenOf(c), T)
    BY <1>4, <1>8, OpenQtyIs
  <2> HIDE DEF T
  <2>2. Sum(OpenOf(c), T) = c.order[o].rem + c.order[o].hid + Sum(OpenOf(c), U)
    BY <1>6, OpenSplit
  <2> HIDE DEF U
  <2>3. Sum(OpenOf(c), U) = Sum(OpenOf(b), U)
    BY <1>5, <1>6, <1>8, SumFrame
  <2>4. QED
    BY <1>2, <1>3, <1>5, <1>7, <1>8, <2>1, <2>2, <2>3
<1>9. CASE b.order[o].rem = amt /\ Replenishable(d, o) /\ Requeued(d, c, k, o)
  <2> DEFINE new == Sliced(ord)
  <2>1. /\ c.order = [d.order EXCEPT ![o] = Sliced(d.order[o])]
        /\ Live(c) = Live(d) /\ Stops(c) = Stops(d)
    BY <1>9, Zenon DEF Requeued, Sliced
  <2>2. ord.disp # 0
    BY <1>5, <1>9 DEF Replenishable
  <2>3. new.rem + new.hid = ord.hid
    BY <1>3, <2>2, SizedSlice
  <2>4. d.order \in [Slots -> Order]
    BY <1>1, BookTypes DEF BookInv
  <2> HIDE DEF new
  <2>5. c.order[o] = new /\ \A s \in Slots : s # o => c.order[s] = b.order[s]
    BY <1>2, <1>5, <2>1, <2>4 DEF new
  <2>6. OpenQty(c) = Sum(OpenOf(c), T)
    BY <1>4, <2>1, OpenQtyIs
  <2> HIDE DEF T
  <2>7. Sum(OpenOf(c), T) = new.rem + new.hid + Sum(OpenOf(c), U)
    BY <1>6, <2>5, OpenSplit
  <2> HIDE DEF U
  <2>8. Sum(OpenOf(c), U) = Sum(OpenOf(b), U)
    BY <1>6, <2>5, SumFrame
  <2>9. QED
    BY <1>2, <1>3, <1>7, <1>9, <2>3, <2>6, <2>7, <2>8
<1>10. CASE b.order[o].rem = amt /\ ~Replenishable(d, o) /\ Retired(d, c, k, o)
  <2>1. c.order = d.order /\ Live(c) = Live(d) \ {o} /\ Stops(c) = Stops(d)
    BY <1>10 DEF Retired
  <2>2. ord.hid = 0
    BY <1>3, <1>5, <1>10 DEF Replenishable, WellFormed
  <2>3. OpenQty(c) = Sum(OpenOf(c), U)
    <3>1. Live(c) \ Stops(c) = U
      BY <1>4, <2>1
    <3>2. QED
      BY <3>1, OpenQtyIs
  <2> HIDE DEF U, T
  <2>4. Sum(OpenOf(c), U) = Sum(OpenOf(b), U)
    BY <1>5, <1>6, <2>1, SumFrame
  <2>5. QED
    BY <1>2, <1>3, <1>7, <1>10, <2>2, <2>3, <2>4
<1>11. QED
  BY <1>1, <1>8, <1>9, <1>10

-----------------------------------------------------------------------------
(***************************************************************************)
(* The theorems.                                                           *)
(***************************************************************************)
\* Depth: the aggregate that push_back, remove, decrease_aggregate and
\* adjust_aggregate keep incrementally is the sum of the visible quantities of
\* the level, in every reachable book, as long as the sizes in use are small
\* enough for a full pool not to overflow qty_t.
THEOREM DepthIsExact ==
  ASSUME TouchStops = FALSE, NEW M \in Nat, SizesUpTo(M), Fits(M)
  PROVE  SafetySpec => []DepthExact
<1> DEFINE IInv == Inv /\ Bounded(book, M) /\ DepthInv(book)
<1>1. Slots # {} => 2 * M < QtyMod
  <2> SUFFICES ASSUME Slots # {} PROVE 2 * M < QtyMod
    OBVIOUS
  <2>1. Capacity \in Nat /\ Capacity >= 1
    BY CapacityAssumption DEF Slots
  <2> DEFINE n == Capacity - 1
             m == 2 * M
  <2>2. n \in Nat /\ Capacity = n + 1 /\ m \in Nat
    BY <2>1
  <2>3. m * Capacity < QtyMod
    BY DEF Fits
  <2> HIDE DEF n, m
  <2>4. m * Capacity = m * n + m /\ m * n \in Nat
    BY <2>2
  <2>5. m < QtyMod
    BY <2>2, <2>3, <2>4, QtyModAssumption
  <2>6. QED
    BY <2>5 DEF m
<1>2. Init => IInv
  BY InitInv, InitBounded
<1>3. IInv /\ [Next]_vars => IInv'
  <2> SUFFICES ASSUME IInv, [Next]_vars PROVE IInv'
    OBVIOUS
  <2>1. Inv'
    BY NextInv
  <2>2. BookInv(book) /\ BookInv(book')
    BY <2>1 DEF Inv
  <2>3. BookSteps(book, book', M)
    BY <1>1, NextSteps
  <2>4. DepthInv(book') /\ Bounded(book', M)
    BY <2>2, <2>3, DepthSteps
  <2>5. QED
    BY <2>1, <2>4
<1>4. IInv => DepthExact
  <2> SUFFICES ASSUME IInv, NEW k \in Keys
               PROVE  book.level[k].agg = SumRem(book, Resting(book, k))
    BY DEF DepthExact
  <2>1. Resting(book, k) \in SUBSET Slots
    BY DEF Resting, Live
  <2>2. QED
    BY <2>1, SumRemIs DEF DepthInv
<1>5. QED
  <2> HIDE DEF IInv
  <2>1. QED
    BY <1>2, <1>3, <1>4, PTL DEF SafetySpec

\* What the property says of a step.
Conserves ==
  /\ MarketStep => OpenQty(book) - OpenQty(book') = call.left - call'.left
  /\ \A id \in Ids, qty \in TakeQtys :
       Fill(id, qty) =>
         OpenQty(book) - OpenQty(book') =
           IF FindId(book, id) = Null THEN 0
           ELSE MinOf(qty, book.order[FindId(book, id)].rem)

LEMMA FillConserves ==
  ASSUME TouchStops = FALSE, NEW M \in Nat, Inv, Bounded(book, M),
         NEW id \in Ids, NEW qty \in TakeQtys, Fill(id, qty)
  PROVE  OpenQty(book) - OpenQty(book') =
           IF FindId(book, id) = Null THEN 0
           ELSE MinOf(qty, book.order[FindId(book, id)].rem)
<1> DEFINE o == FindId(book, id)
           k == KeyOf(book, o)
           amt == MinOf(qty, book.order[o].rem)
           x == Adjusted(book.level[k].agg, -amt)
<1>1. BookInv(book) /\ FindId(book, id) \notin Stops(book) /\ qty \in Qty
      /\ book' = ApplyFill(book, id, qty)
  BY SizeFacts DEF Inv, Fill, MayTouch
<1>2. /\ BookInv(book')
      /\ o = Null => book' = book
      /\ o # Null => /\ o \in Resting(book, k) /\ k \in Keys
                     /\ amt \in Nat /\ amt <= book.order[o].rem
                     /\ Filled(book, book', k, o, amt, x)
  BY <1>1, FillInv, Zenon
<1>3. CASE o = Null
  <2>1. OpenQty(book') = OpenQty(book)
    BY <1>2, <1>3
  <2>2. OpenQty(book) \in Nat
    <3>1. Live(book) \ Stops(book) \in SUBSET Slots
      BY DEF Live
    <3>2. QED
      BY <1>1, <3>1, OpenQtyIs, WeightTypes, SumNat, SlotFacts
  <2>3. QED
    BY <1>3, <2>1, <2>2
<1>4. CASE o # Null
  <2> HIDE DEF k, amt, x
  <2>1. OpenQty(book) - OpenQty(book') = amt
    <3> HIDE DEF o
    <3>1. QED
      BY <1>1, <1>2, <1>4, OpenFilled
  <2>2. QED
    BY <1>4, <2>1 DEF amt
<1>5. QED
  BY <1>3, <1>4

LEMMA MarketConserves ==
  ASSUME NEW M \in Nat, Inv, Bounded(book, M), MarketStep
  PROVE  OpenQty(book) - OpenQty(book') = call.left - call'.left
<1> DEFINE side == Opposite(call.side)
           k == BestKey(book, side)
           o == book.level[k].head
           amt == MarketTake(book, k, call.left)
           x == Decreased(book.level[k].agg, amt)
<1>1. BookInv(book) /\ call \in MarketCall
  BY DEF Inv, TypeOK
<1>2. call.left \in Qty /\ side \in Sides /\ ~SideEmpty(book, side)
  BY <1>1 DEF MarketStep, MarketCall, Opposite, Sides
<1>3. k \in LevelKeys(book.ladder)
  BY <1>1, <1>2, BestExists
<1>4. /\ book' = MarketIteration(book, k, call.left)
      /\ call' = IF o = Null THEN call
                 ELSE [call EXCEPT !.left = @ - amt, !.traded = TRUE, !.last = k[2]]
  BY Zenon DEF MarketStep
<1> HIDE DEF k
<1>5. /\ BookInv(book') /\ k \in Keys /\ o \in Resting(book, k) /\ o # Null
      /\ amt \in 0..call.left /\ amt <= book.order[o].rem
      /\ Filled(book, book', k, o, amt, x)
  BY <1>1, <1>2, <1>3, <1>4, MarketInv, Zenon
<1> HIDE DEF o, amt, x
<1>6. amt \in Nat /\ call.left \in Nat
  BY <1>2, <1>5, QtyModAssumption DEF Qty
<1>7. call'.left = call.left - amt
  BY <1>1, <1>4, <1>5 DEF MarketCall
<1>8. OpenQty(book) - OpenQty(book') = amt
  BY <1>1, <1>5, <1>6, OpenFilled
<1>9. QED
  BY <1>6, <1>7, <1>8

\* Conservation: every iteration of market_order, and every apply_fill, takes
\* from the visible and hidden quantities of the book what it reports as filled;
\* try_replenish_iceberg only moves quantity, and no order that is retired
\* still hides any.
THEOREM FillsAreConserved ==
  ASSUME TouchStops = FALSE
  PROVE  SafetySpec => FillsConserve
<1> DEFINE M == (QtyMod - 1) \div 4
           IInv == Inv /\ Bounded(book, M)
<1>1. M \in Nat /\ 2 * M < QtyMod
  BY QtyModAssumption
<1>2. SizesUpTo(M)
  BY QtysAssumption DEF SizesUpTo
<1> HIDE DEF M
<1>3. Init => IInv
  BY <1>1, InitInv, InitBounded
<1>4. IInv /\ [Next]_vars => IInv'
  <2> SUFFICES ASSUME IInv, [Next]_vars PROVE IInv'
    OBVIOUS
  <2>1. Inv' /\ BookInv(book)
    BY NextInv DEF Inv
  <2>2. BookSteps(book, book', M)
    BY <1>1, <1>2, NextSteps
  <2>3. Bounded(book', M)
    BY <1>1, <2>1, <2>2, BoundedSteps
  <2>4. QED
    BY <2>1, <2>3
<1>5. IInv /\ [Next]_vars => [Conserves]_vars
  BY <1>1, FillConserves, MarketConserves DEF Conserves
<1>6. SafetySpec => [][Conserves]_vars
  <2> HIDE DEF IInv
  <2>1. QED
    BY <1>3, <1>4, <1>5, PTL DEF SafetySpec
<1>7. QED
  BY <1>6 DEF Conserves, FillsConserve
-----------------------------------------------------------------------------
(***************************************************************************)
(* Books without stops and icebergs, which the benchmark drivers, the      *)
(* simulator and the profiling driver keep: limits, markets and cancels    *)
(* leave them so, and market_order ends within Capacity + 1 iterations.    *)
(***************************************************************************)
Plain(b) ==
  BookInv(b) /\ \A s \in Slots : b.order[s].stype = NoStop /\ b.order[s].disp = 0

LEMMA PlainNew == Plain(NewBook) /\ NewBook.nextId = 1
<1>1. BookInv(NewBook) /\ NewBook.nextId = 1 /\ NewBook.order = [s \in Slots |-> BlankOrder]
  BY NewBookInv DEF NewBook
<1>2. BlankOrder.stype = NoStop /\ BlankOrder.disp = 0
  BY DEF BlankOrder
<1>3. QED
  BY <1>1, <1>2 DEF Plain

LEMMA PlainId == ASSUME NEW b, Plain(b) PROVE b.nextId \in Int
BY MaxIdAssumption DEF Plain, BookInv, Book

LEMMA PlainAdd ==
  ASSUME NEW b, Plain(b), b.nextId <= MaxId,
         NEW side \in Sides, NEW price \in Prices, NEW qty \in Qty
  PROVE  LET c == AddLimitOrder(b, side, price, qty) IN
         Plain(c) /\ c.nextId <= b.nextId + 1
<1> DEFINE c == AddLimitOrder(b, side, price, qty)
           ord == LimitOrder(b, side, price, qty)
           o == FreshSlot(b)
           k == <<side, price>>
<1>1. BookInv(b) /\ b.nextId \in Int /\ b.order \in [Slots -> Order]
  BY MaxIdAssumption DEF Plain, BookInv, Book
<1>2. /\ BookInv(c) /\ (b.free = <<>> => c = b)
      /\ b.free # <<>> => LimitAdded(b, c, k, o, ord)
  BY <1>1, AddLimitInv
<1>3. ord.stype = NoStop /\ ord.disp = 0
  BY DEF LimitOrder, BlankOrder
<1> HIDE DEF c, ord, o, k
<1>4. CASE b.free = <<>>
  <2>1. c = b /\ b.nextId <= b.nextId + 1
    BY <1>1, <1>2, <1>4
  <2>2. QED
    BY <2>1 DEF c
<1>5. CASE b.free # <<>>
  <2>1. c.order = [b.order EXCEPT ![o] = ord] /\ c.nextId = b.nextId + 1
    BY <1>2, <1>5 DEF LimitAdded
  <2>2. \A s \in Slots : c.order[s] = b.order[s] \/ c.order[s] = ord
    BY <1>1, <2>1
  <2>3. Plain(c)
    BY <1>2, <1>3, <2>2 DEF Plain
  <2>4. QED
    BY <1>1, <2>1, <2>3 DEF c
<1>6. QED
  BY <1>4, <1>5

LEMMA PlainCancel ==
  ASSUME NEW b, Plain(b), NEW id \in Ids
  PROVE  LET c == CancelOrder(b, id) IN Plain(c) /\ c.nextId = b.nextId
<1> DEFINE c == CancelOrder(b, id)
           o == FindId(b, id)
<1>1. BookInv(b) /\ o \notin Stops(b)
  BY DEF Plain, Stops, Live
<1>2. /\ BookInv(c) /\ c.nextId = b.nextId /\ (o = Null => c = b)
      /\ o # Null => Retired(b, c, KeyOf(b, o), o)
  BY <1>1, CancelInv
<1>3. c.order = b.order
  BY <1>2 DEF Retired
<1> HIDE DEF c
<1>4. Plain(c)
  BY <1>2, <1>3 DEF Plain
<1>5. QED
  BY <1>2, <1>4 DEF c

\* One iteration of market_order fills all that is left or retires an order.
LEMMA PlainMarket ==
  ASSUME NEW b, Plain(b), NEW left \in Qty, NEW side \in Sides, ~SideEmpty(b, side)
  PROVE  LET k == BestKey(b, side)
             c == MarketIteration(b, k, left)
             l == left - MarketTake(b, k, left) IN
         /\ Plain(c) /\ c.nextId = b.nextId /\ l \in Qty
         /\ l = 0 \/ \E o \in Live(b) : Live(c) = Live(b) \ {o}
<1> DEFINE k == BestKey(b, side)
           c == MarketIteration(b, k, left)
           amt == MarketTake(b, k, left)
           o == b.level[k].head
           x == Decreased(b.level[k].agg, amt)
           ord == [b.order[o] EXCEPT !.rem = @ - amt]
<1>1. BookInv(b) /\ k \in LevelKeys(b.ladder)
  BY BestExists DEF Plain
<1>2. /\ BookInv(c) /\ amt \in 0..left /\ o \in Resting(b, k) /\ o # Null
      /\ amt <= b.order[o].rem /\ Filled(b, c, k, o, amt, x)
  BY <1>1, MarketInv
<1>3. o \in Slots /\ o \in Live(b) /\ b.order \in [Slots -> Order]
  BY <1>1, <1>2 DEF Resting, Live, BookInv, Book
<1>4. left \in Nat /\ amt \in Nat /\ left - amt \in Qty
  BY <1>2, QtyModAssumption DEF Qty
<1>5. amt = left \/ amt = b.order[o].rem
  BY <1>2, Zenon DEF MarketTake, MinOf
<1> HIDE DEF k, c, amt, o, x
<1>6. PICK d : /\ BookInv(d) /\ Resized(b, d, k, o, ord, x)
               /\ b.order[o].rem # amt => c = d
               /\ b.order[o].rem = amt /\ ~Replenishable(d, o) => Retired(d, c, k, o)
  BY <1>2 DEF Filled
<1>7. SameShape(b, d) /\ d.order = [b.order EXCEPT ![o] = ord]
  BY <1>6 DEF Resized
<1>8. d.nextId = b.nextId /\ Live(d) = Live(b)
  BY <1>7, ShapeSets DEF SameShape
<1>9. b.order[o] \in Order /\ b.order[o].stype = NoStop /\ b.order[o].disp = 0
  BY <1>3 DEF Plain
<1>10. ord.stype = NoStop /\ ord.disp = 0
  BY <1>9 DEF Order
<1> HIDE DEF ord
<1>11. \A s \in Slots : d.order[s] = b.order[s] \/ d.order[s] = ord
  BY <1>3, <1>7
<1>12. Plain(d)
  BY <1>6, <1>10, <1>11 DEF Plain
<1>13. CASE b.order[o].rem # amt
  <2>1. c = d /\ amt = left /\ left - amt = 0
    BY <1>4, <1>5, <1>6, <1>13
  <2>2. QED
    BY <1>4, <1>8, <1>12, <2>1 DEF c, amt, k
<1>14. CASE b.order[o].rem = amt
  <2>1. d.order[o].disp = 0
    BY <1>3, <1>12 DEF Plain
  <2>2. Retired(d, c, k, o)
    BY <1>6, <1>14, <2>1 DEF Replenishable
  <2>3. c.order = d.order /\ Live(c) = Live(d) \ {o} /\ c.nextId = d.nextId
    BY <2>2 DEF Retired
  <2>4. Plain(c)
    BY <1>2, <1>12, <2>3 DEF Plain
  <2>5. QED
    BY <1>3, <1>4, <1>8, <2>3, <2>4 DEF c, amt, k
<1>15. QED
  BY <1>13, <1>14

-----------------------------------------------------------------------------
(***************************************************************************)
(* market_order in one step is what its iterations make of the book.       *)
(***************************************************************************)
MarketDone(st, side) == st.left = 0 \/ SideEmpty(st.b, Opposite(side))
MarketNext(st, side) ==
  LET k == BestKey(st.b, Opposite(side)) IN
  IF MarketDone(st, side) THEN st
  ELSE [b |-> MarketIteration(st.b, k, st.left), left |-> st.left - MarketTake(st.b, k, st.left)]

\* The states of the loop, from st on, in the first N iterations.
Runs(g, st, side, N) ==
  g = [n \in 0..N |-> IF n = 0 THEN st ELSE MarketNext(g[n - 1], side)]
RunFcn(st, side, N) == CHOOSE g : Runs(g, st, side, N)

LEMMA RunsExist ==
  ASSUME NEW st, NEW side, NEW M \in Nat
  PROVE  Runs(RunFcn(st, side, M), st, side, M)
<1> DEFINE Bad == {N \in Nat : ~ \E g : Runs(g, st, side, N)}
<1>1. Bad = {}
  <2> SUFFICES ASSUME Bad # {} PROVE FALSE
    OBVIOUS
  <2>1. PICK N \in Bad : \A k \in Bad : N <= k
    <3>1. Bad \in SUBSET Nat
      OBVIOUS
    <3> HIDE DEF Bad
    <3>2. QED
      BY <3>1, SmallestNat
  <2>2. N \in Nat /\ ~ \E g : Runs(g, st, side, N)
    BY <2>1
  <2>3. CASE N = 0
    <3> DEFINE g == [n \in 0..0 |-> st]
    <3>1. [n \in 0..0 |-> st] = [n \in 0..0 |-> IF n = 0 THEN st ELSE MarketNext(g[n - 1], side)]
      OBVIOUS
    <3>2. g = [n \in 0..0 |-> IF n = 0 THEN st ELSE MarketNext(g[n - 1], side)]
      BY <3>1
    <3> HIDE DEF g
    <3>3. Runs(g, st, side, 0)
      BY <3>2 DEF Runs
    <3>4. QED
      BY <2>2, <2>3, <3>3
  <2>4. CASE N # 0
    <3>1. N - 1 \in Nat /\ N - 1 \notin Bad
      BY <2>1, <2>2, <2>4
    <3>2. PICK h : Runs(h, st, side, N - 1)
      BY <3>1
    <3> DEFINE g == [n \in 0..N |-> IF n = 0 THEN st ELSE MarketNext(h[n - 1], side)]
    <3>3. ASSUME NEW n \in 0..N, n # 0 PROVE g[n - 1] = h[n - 1]
      <4>1. n - 1 \in 0..N /\ n - 1 \in 0..(N - 1)
        BY <2>2, <3>3
      <4>2. h[n - 1] = IF n - 1 = 0 THEN st ELSE MarketNext(h[(n - 1) - 1], side)
        BY <3>2, <4>1 DEF Runs
      <4>3. g[n - 1] = IF n - 1 = 0 THEN st ELSE MarketNext(h[(n - 1) - 1], side)
        BY <4>1
      <4>4. QED
        BY <4>2, <4>3
    <3>4. g = [n \in 0..N |-> IF n = 0 THEN st ELSE MarketNext(g[n - 1], side)]
      BY <3>3
    <3> HIDE DEF g
    <3>5. Runs(g, st, side, N)
      BY <3>4 DEF Runs
    <3>6. QED
      BY <2>2, <3>5
  <2>5. QED
    BY <2>3, <2>4
<1>2. \E g : Runs(g, st, side, M)
  BY <1>1
<1>3. QED
  BY <1>2 DEF RunFcn

LEMMA MarketOrderRuns ==
  ASSUME NEW b, NEW side, NEW qty
  PROVE  MarketOrder(b, side, qty)
         = RunFcn([b |-> b, left |-> qty], side, Capacity + 1)[Capacity + 1].b
<1> DEFINE st0 == [b |-> b, left |-> qty]
<1>1. MarketOrder(b, side, qty) =
        (CHOOSE g : g = [n \in 0..(Capacity + 1) |->
           IF n = 0 THEN st0 ELSE MarketNext(g[n - 1], side)])[Capacity + 1].b
  BY DEF MarketOrder, MarketNext, MarketDone
<1> HIDE DEF st0
<1>2. QED
  BY <1>1 DEF RunFcn, Runs, st0

LEMMA RunsAt ==
  ASSUME NEW st, NEW side, NEW N \in Nat, NEW g, Runs(g, st, side, N)
  PROVE  g[0] = st /\ \A n \in 0..(N - 1) : g[n + 1] = MarketNext(g[n], side)
<1>1. 0 \in 0..N
  OBVIOUS
<1>2. g[0] = st
  BY <1>1 DEF Runs
<1>3. ASSUME NEW n \in 0..(N - 1) PROVE g[n + 1] = MarketNext(g[n], side)
  <2>1. n + 1 \in 0..N /\ n + 1 # 0 /\ (n + 1) - 1 = n
    OBVIOUS
  <2>2. g[n + 1] = IF n + 1 = 0 THEN st ELSE MarketNext(g[(n + 1) - 1], side)
    BY <2>1 DEF Runs
  <2>3. QED
    BY <2>1, <2>2
<1>4. QED
  BY <1>2, <1>3

LEMMA LiveCount ==
  ASSUME NEW b
  PROVE  IsFiniteSet(Live(b)) /\ Cardinality(Live(b)) \in 0..Capacity
<1>1. 1 \in Int /\ Capacity \in Int
  BY CapacityAssumption
<1>2. IsFiniteSet(Slots) /\ Cardinality(Slots) = Capacity
  BY <1>1, CapacityAssumption, FS_Interval DEF Slots
<1>3. Live(b) \subseteq Slots
  BY DEF Live
<1>4. IsFiniteSet(Live(b)) /\ Cardinality(Live(b)) <= Capacity
  BY <1>2, <1>3, FS_Subset
<1>5. QED
  BY <1>4, FS_CardinalityType, CapacityAssumption

\* A state of the loop that is not its last has retired one order per iteration.
GoodState(st, side, n, M) ==
  /\ Plain(st.b) /\ st.left \in Qty
  /\ MarketDone(st, side) \/ Cardinality(Live(st.b)) + n <= M

LEMMA GoodNext ==
  ASSUME NEW st, NEW side \in Sides, NEW n \in Nat, NEW M \in Nat, GoodState(st, side, n, M)
  PROVE  GoodState(MarketNext(st, side), side, n + 1, M)
<1> DEFINE os == Opposite(side)
           k == BestKey(st.b, os)
           c == MarketIteration(st.b, k, st.left)
           l == st.left - MarketTake(st.b, k, st.left)
<1>1. CASE MarketDone(st, side)
  BY <1>1 DEF GoodState, MarketNext
<1>2. CASE ~MarketDone(st, side)
  <2>1. os \in Sides /\ ~SideEmpty(st.b, os) /\ Plain(st.b) /\ st.left \in Qty
    BY <1>2 DEF MarketDone, GoodState, Opposite, Sides
  <2>2. /\ Plain(c) /\ l \in Qty
        /\ l = 0 \/ \E o \in Live(st.b) : Live(c) = Live(st.b) \ {o}
    BY <2>1, PlainMarket
  <2>3. MarketNext(st, side) = [b |-> c, left |-> l]
    BY <1>2 DEF MarketNext
  <2> HIDE DEF c, l, k
  <2>4. ASSUME l # 0 PROVE Cardinality(Live(c)) + (n + 1) <= M
    <3>1. PICK o \in Live(st.b) : Live(c) = Live(st.b) \ {o}
      BY <2>2, <2>4
    <3>2. IsFiniteSet(Live(st.b)) /\ Cardinality(Live(st.b)) \in Nat
      BY LiveCount, CapacityAssumption
    <3>3. Cardinality(Live(c)) = Cardinality(Live(st.b)) - 1
      BY <3>1, <3>2, FS_RemoveElement
    <3>4. Cardinality(Live(st.b)) + n <= M
      BY <1>2 DEF GoodState
    <3>5. QED
      BY <3>2, <3>3, <3>4
  <2>5. [b |-> c, left |-> l].b = c /\ [b |-> c, left |-> l].left = l
    OBVIOUS
  <2>6. GoodState([b |-> c, left |-> l], side, n + 1, M)
    BY <2>2, <2>4, <2>5 DEF GoodState, MarketDone
  <2>7. QED
    BY <2>3, <2>6
<1>3. QED
  BY <1>1, <1>2

LEMMA GoodRun ==
  ASSUME NEW st, NEW side \in Sides, NEW N \in Nat, NEW g, Runs(g, st, side, N),
         NEW m \in Nat, NEW M \in Nat, GoodState(st, side, m, M)
  PROVE  \A n \in 0..N : GoodState(g[n], side, m + n, M)
<1> DEFINE Bad == {n \in 0..N : ~GoodState(g[n], side, m + n, M)}
<1> SUFFICES ASSUME Bad # {} PROVE FALSE
  OBVIOUS
<1>1. PICK n \in Bad : \A k \in Bad : n <= k
  <2>1. Bad \in SUBSET Nat
    OBVIOUS
  <2> HIDE DEF Bad
  <2>2. QED
    BY <2>1, SmallestNat
<1>2. n \in 0..N /\ ~GoodState(g[n], side, m + n, M)
  BY <1>1
<1>3. g[0] = st /\ \A k \in 0..(N - 1) : g[k + 1] = MarketNext(g[k], side)
  BY RunsAt
<1>4. n # 0
  <2>1. m + 0 = m
    OBVIOUS
  <2>2. QED
    BY <1>2, <1>3, <2>1
<1> DEFINE j == n - 1
<1>5. j \in 0..(N - 1) /\ j \in 0..N /\ j + 1 = n /\ j \notin Bad /\ m + j \in Nat
      /\ (m + j) + 1 = m + n
  BY <1>1, <1>2, <1>4
<1>6. GoodState(g[j], side, m + j, M)
  BY <1>5
<1>7. g[n] = MarketNext(g[j], side)
  BY <1>3, <1>5
<1> HIDE DEF j, Bad
<1>8. GoodState(MarketNext(g[j], side), side, (m + j) + 1, M)
  BY <1>5, <1>6, GoodNext
<1>9. QED
  BY <1>2, <1>5, <1>7, <1>8

\* The loop ends where it stands once nothing is left to fill or to take.
LEMMA MarketEnds ==
  ASSUME NEW b, NEW side, NEW left, left = 0 \/ SideEmpty(b, Opposite(side))
  PROVE  MarketOrder(b, side, left) = b
<1> DEFINE st == [b |-> b, left |-> left]
           N == Capacity + 1
           g == RunFcn(st, side, N)
           Bad == {n \in 0..N : g[n] # st}
<1>1. N \in Nat /\ MarketDone(st, side) /\ st.b = b
  BY CapacityAssumption DEF MarketDone
<1>2. Runs(g, st, side, N)
  BY <1>1, RunsExist
<1>3. MarketOrder(b, side, left) = g[N].b
  BY MarketOrderRuns
<1> HIDE DEF st, g, N
<1>4. g[0] = st /\ \A k \in 0..(N - 1) : g[k + 1] = MarketNext(g[k], side)
  <2>1. N \in Nat
    BY <1>1
  <2>2. QED
    BY ONLY <2>1, <1>2, RunsAt
<1>5. MarketNext(st, side) = st
  BY <1>1 DEF MarketNext
<1>6. Bad = {}
  <2> SUFFICES ASSUME Bad # {} PROVE FALSE
    OBVIOUS
  <2>1. PICK n \in Bad : \A k \in Bad : n <= k
    <3>1. Bad \in SUBSET Nat
      BY <1>1
    <3> HIDE DEF Bad
    <3>2. QED
      BY <3>1, SmallestNat
  <2>2. n \in 0..N /\ g[n] # st /\ n # 0
    BY <1>4, <2>1
  <2>3. n - 1 \in 0..(N - 1) /\ n - 1 \in 0..N /\ (n - 1) + 1 = n /\ n - 1 \notin Bad
    BY <1>1, <2>1, <2>2
  <2>4. g[n - 1] = st /\ g[n] = MarketNext(g[n - 1], side)
    BY <1>4, <2>3
  <2>5. QED
    BY <1>5, <2>2, <2>4
<1>7. N \in 0..N
  BY <1>1
<1>8. g[N] = st
  BY <1>6, <1>7
<1>9. QED
  BY <1>1, <1>3, <1>8

\* An iteration leaves the rest of the loop as it was.
LEMMA MarketContinues ==
  ASSUME NEW b, Plain(b), NEW side \in Sides, NEW left \in Qty, left > 0,
         ~SideEmpty(b, Opposite(side))
  PROVE  LET k == BestKey(b, Opposite(side)) IN
         MarketOrder(MarketIteration(b, k, left), side, left - MarketTake(b, k, left))
         = MarketOrder(b, side, left)
<1> DEFINE k == BestKey(b, Opposite(side))
           c == MarketIteration(b, k, left)
           l == left - MarketTake(b, k, left)
           st == [b |-> b, left |-> left]
           nd == [b |-> c, left |-> l]
           N == Capacity + 1
           M == Cardinality(Live(b))
           g == RunFcn(st, side, N)
           h == RunFcn(nd, side, N)
<1>1. N \in Nat /\ Capacity \in Nat /\ M \in 0..Capacity
  BY CapacityAssumption, LiveCount
<1>2. Runs(g, st, side, N) /\ Runs(h, nd, side, N)
  BY <1>1, RunsExist
<1>3. MarketOrder(b, side, left) = g[N].b /\ MarketOrder(c, side, l) = h[N].b
  BY MarketOrderRuns
<1>4. MarketNext(st, side) = nd
  <2>1. left # 0
    BY QtyModAssumption DEF Qty
  <2>2. st.b = b /\ st.left = left
    OBVIOUS
  <2>3. ~MarketDone(st, side)
    BY <2>1, <2>2 DEF MarketDone
  <2> HIDE DEF st
  <2>4. QED
    BY <2>2, <2>3 DEF MarketNext
<1>5. GoodState(st, side, 0, M)
  <2>1. M + 0 <= M
    BY <1>1
  <2>2. st.b = b /\ st.left = left
    OBVIOUS
  <2> HIDE DEF st
  <2>3. QED
    BY <2>1, <2>2 DEF GoodState
<1> HIDE DEF k, c, l, st, nd, g, h, M, N
<1>6. M \in Nat /\ 0 + 1 = 1 /\ 0 \in Nat /\ 1 \in Nat
  BY <1>1
<1>7. GoodState(nd, side, 1, M)
  BY <1>4, <1>5, <1>6, GoodNext
<1>8. \A n \in 0..N : GoodState(h[n], side, 1 + n, M)
  BY <1>1, <1>2, <1>6, <1>7, GoodRun
<1>9. /\ g[0] = st /\ \A i \in 0..(N - 1) : g[i + 1] = MarketNext(g[i], side)
      /\ h[0] = nd /\ \A i \in 0..(N - 1) : h[i + 1] = MarketNext(h[i], side)
  <2>1. N \in Nat
    BY <1>1
  <2>2. g[0] = st /\ \A i \in 0..(N - 1) : g[i + 1] = MarketNext(g[i], side)
    BY ONLY <2>1, <1>2, RunsAt
  <2>3. h[0] = nd /\ \A i \in 0..(N - 1) : h[i + 1] = MarketNext(h[i], side)
    BY ONLY <2>1, <1>2, RunsAt
  <2>4. QED
    BY <2>2, <2>3
<1> DEFINE Bad == {n \in 0..Capacity : g[n + 1] # h[n]}
<1>10. N = Capacity + 1 /\ N - 1 = Capacity
  BY <1>1 DEF N
<1>11. Bad = {}
  <2> SUFFICES ASSUME Bad # {} PROVE FALSE
    OBVIOUS
  <2>1. PICK n \in Bad : \A i \in Bad : n <= i
    <3>1. Bad \in SUBSET Nat
      BY <1>1
    <3> HIDE DEF Bad
    <3>2. QED
      BY <3>1, SmallestNat
  <2>2. n \in 0..Capacity /\ g[n + 1] # h[n]
    BY <2>1
  <2>3. n # 0
    <3>1. 0 \in 0..(N - 1) /\ 0 + 1 = 1
      BY <1>1, <1>10
    <3>2. g[0 + 1] = MarketNext(g[0], side)
      BY <1>9, <3>1
    <3>3. QED
      BY <1>4, <1>9, <2>2, <3>1, <3>2
  <2> DEFINE i == n - 1
  <2>4. i \in 0..(N - 1) /\ i + 1 = n /\ i \in 0..Capacity /\ i \notin Bad /\ n \in 0..(N - 1)
    BY <1>1, <1>10, <2>1, <2>2, <2>3
  <2>5. g[n] = h[i]
    BY <2>4
  <2>6. h[n] = MarketNext(h[i], side) /\ g[n + 1] = MarketNext(g[n], side)
    BY <1>9, <2>4
  <2>7. QED
    BY <2>2, <2>5, <2>6
<1>12. Capacity \in 0..Capacity /\ Capacity \in 0..N /\ Capacity \in 0..(N - 1)
  BY <1>1, <1>10
<1>13. g[N] = h[Capacity]
  BY <1>10, <1>11, <1>12
<1>14. MarketDone(h[Capacity], side)
  <2>1. GoodState(h[Capacity], side, 1 + Capacity, M)
    BY <1>8, <1>12
  <2>2. Cardinality(Live(h[Capacity].b)) \in Nat
    BY LiveCount, CapacityAssumption
  <2>3. QED
    BY <1>1, <2>1, <2>2 DEF GoodState
<1>15. h[N] = h[Capacity]
  <2>1. h[Capacity + 1] = MarketNext(h[Capacity], side)
    BY <1>9, <1>12
  <2>2. QED
    BY <1>10, <1>14, <2>1 DEF MarketNext
<1>16. MarketOrder(c, side, l) = MarketOrder(b, side, left)
  BY <1>3, <1>13, <1>15
<1>17. QED
  BY <1>16 DEF k, c, l

=============================================================================
