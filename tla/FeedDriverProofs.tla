-------------------------- MODULE FeedDriverProofs --------------------------
(***************************************************************************)
(* For any pool, any prices and sizes, any cap, number of attempts and     *)
(* interval of compaction: the lists of ids that the simulator and the     *)
(* profiling driver draw their cancels from know every order of the book,  *)
(* and a listener that missed no event of an order knows what rests of it. *)
(***************************************************************************)
EXTENDS FeedDriver, OrderBookProofs

-----------------------------------------------------------------------------
(***************************************************************************)
(* What the operations do to one id of the book.                           *)
(***************************************************************************)
LEMMA Mapped ==
  ASSUME NEW b, BookInv(b), NEW id \in Ids
  PROVE  /\ InBook(b, id) => FindId(b, id) \in Live(b) /\ b.order[FindId(b, id)].id = id
         /\ \A s \in Live(b) : b.order[s].id = id => InBook(b, id) /\ FindId(b, id) = s
<1>1. b.ids \in [Ids -> Slots \cup {Null}] /\ PoolPartitioned(b)
  BY DEF BookInv, Book
<1>2. ASSUME InBook(b, id) PROVE FindId(b, id) \in Live(b) /\ b.order[FindId(b, id)].id = id
  BY <1>1, <1>2 DEF InBook, FindId, PoolPartitioned, Live
<1>3. ASSUME NEW s \in Live(b), b.order[s].id = id PROVE InBook(b, id) /\ FindId(b, id) = s
  BY <1>3, SlotFacts DEF InBook, FindId, Live
<1>4. QED
  BY <1>2, <1>3

\* An id whose order is not in slot o, before or after a change to that slot.
LEMMA SameElsewhere ==
  ASSUME NEW b, NEW c, BookInv(b), BookInv(c), NEW o, NEW id \in Ids,
         \A s \in Slots : s # o => c.order[s] = b.order[s],
         \A s \in Slots : s # o => (s \in Live(c) <=> s \in Live(b)),
         o \in Live(b) => b.order[o].id # id,
         o \in Live(c) => c.order[o].id # id
  PROVE  (InBook(c, id) <=> InBook(b, id)) /\ Remaining(c, id) = Remaining(b, id)
<1>1. ASSUME InBook(b, id)
      PROVE  InBook(c, id) /\ Remaining(c, id) = Remaining(b, id)
  <2> DEFINE s == FindId(b, id)
  <2>1. s \in Live(b) /\ b.order[s].id = id /\ s \in Slots
    BY <1>1, Mapped DEF Live
  <2> HIDE DEF s
  <2>2. s # o /\ s \in Live(c) /\ c.order[s] = b.order[s]
    BY <2>1
  <2>3. InBook(c, id) /\ FindId(c, id) = s
    BY <2>1, <2>2, Mapped
  <2>4. QED
    BY <1>1, <2>2, <2>3 DEF Remaining, s
<1>2. ASSUME InBook(c, id) PROVE InBook(b, id)
  <2> DEFINE s == FindId(c, id)
  <2>1. s \in Live(c) /\ c.order[s].id = id /\ s \in Slots
    BY <1>2, Mapped DEF Live
  <2> HIDE DEF s
  <2>2. s # o /\ s \in Live(b) /\ c.order[s] = b.order[s]
    BY <2>1
  <2>3. QED
    BY <2>1, <2>2, Mapped
<1>3. QED
  BY <1>1, <1>2 DEF Remaining

LEMMA RemainingNat ==
  ASSUME NEW b, Plain(b), NEW id \in Ids
  PROVE  Remaining(b, id) \in Nat
<1>1. BookInv(b) /\ b.order \in [Slots -> Order]
  BY DEF Plain, BookInv, Book
<1>2. CASE InBook(b, id)
  <2> DEFINE s == FindId(b, id)
  <2>1. s \in Slots
    BY <1>1, <1>2, Mapped DEF Live
  <2> HIDE DEF s
  <2>2. b.order[s].rem \in Nat
    BY <1>1, <2>1, OrderNat
  <2>3. QED
    BY <1>2, <2>2 DEF Remaining, s
<1>3. QED
  BY <1>2 DEF Remaining

\* No order joins the book.
Shrinks(b, c) == c.nextId = b.nextId /\ \A id \in Ids : InBook(c, id) => InBook(b, id)

\* All of the book but one id.
Others(b, c, i) ==
  \A id \in Ids : id # i =>
    (InBook(c, id) <=> InBook(b, id)) /\ Remaining(c, id) = Remaining(b, id)

LEMMA AddEffect ==
  ASSUME NEW b, Plain(b), b.nextId <= MaxId, b.free # <<>>,
         NEW side \in Sides, NEW price \in Prices, NEW qty \in Qty
  PROVE  LET c == AddLimitOrder(b, side, price, qty) IN
         /\ Plain(c) /\ c.nextId = b.nextId + 1
         /\ b.nextId \in Ids \ {0} /\ InBook(c, b.nextId) /\ Remaining(c, b.nextId) = qty
         /\ ~InBook(b, b.nextId) /\ Others(b, c, b.nextId)
<1> DEFINE c == AddLimitOrder(b, side, price, qty)
           ord == LimitOrder(b, side, price, qty)
           o == FreshSlot(b)
           k == <<side, price>>
           i == b.nextId
<1>1. BookInv(b) /\ b.order \in [Slots -> Order] /\ i \in Ids \ {0}
  BY MaxIdAssumption DEF Plain, BookInv, Book, Ids
<1>2. Plain(c)
  BY PlainAdd
<1>3. LimitAdded(b, c, k, o, ord)
  BY <1>1, AddLimitInv
<1>4. ord.id = i /\ ord.rem = qty
  BY DEF LimitOrder, BlankOrder
<1> HIDE DEF c, ord, o, k
<1>5. /\ o \in Slots \ Live(b) /\ c.order = [b.order EXCEPT ![o] = ord]
      /\ Live(c) = Live(b) \cup {o} /\ c.nextId = i + 1
  BY <1>3 DEF LimitAdded
<1>6. BookInv(c)
  BY <1>2 DEF Plain
<1>7. o \in Live(c) /\ c.order[o] = ord
  BY <1>1, <1>5
<1>8. InBook(c, i) /\ FindId(c, i) = o
  BY <1>1, <1>4, <1>6, <1>7, Mapped
<1>9. Remaining(c, i) = qty
  BY <1>4, <1>7, <1>8 DEF Remaining
<1>10. ~InBook(b, i)
  <2>1. i >= b.nextId
    BY <1>1 DEF Ids
  <2>2. QED
    BY <1>1, <2>1 DEF BookInv, FreshIds, InBook, FindId
<1>11. ASSUME NEW id \in Ids, id # i
       PROVE  (InBook(c, id) <=> InBook(b, id)) /\ Remaining(c, id) = Remaining(b, id)
  <2>1. \A s \in Slots : s # o => c.order[s] = b.order[s] /\ (s \in Live(c) <=> s \in Live(b))
    BY <1>1, <1>5
  <2>2. o \notin Live(b) /\ c.order[o].id # id
    BY <1>4, <1>5, <1>7, <1>11
  <2>3. QED
    BY <1>1, <1>6, <1>11, <2>1, <2>2, SameElsewhere
<1>12. QED
  BY <1>1, <1>2, <1>5, <1>8, <1>9, <1>10, <1>11 DEF Others, c

\* An order leaves the book.
LEMMA RetireEffect ==
  ASSUME NEW b, NEW c, BookInv(b), BookInv(c), NEW o \in Live(b),
         c.order = b.order, Live(c) = Live(b) \ {o}, NEW i, i = b.order[o].id
  PROVE  i \in Ids \ {0} /\ InBook(b, i) /\ ~InBook(c, i) /\ Others(b, c, i)
<1>1. o \in Slots /\ i \in Ids /\ i # 0
  BY LiveFacts
<1>2. InBook(b, i) /\ FindId(b, i) = o
  BY <1>1, Mapped
<1>3. ~InBook(c, i)
  <2> SUFFICES ASSUME InBook(c, i) PROVE FALSE
    OBVIOUS
  <2> DEFINE s == FindId(c, i)
  <2>1. s \in Live(c) /\ c.order[s].id = i
    BY <1>1, Mapped
  <2> HIDE DEF s
  <2>2. s \in Live(b) /\ s # o /\ b.order[s].id = i
    BY <2>1
  <2>3. QED
    BY <1>1, <1>2, <2>2, Mapped
<1>4. ASSUME NEW id \in Ids, id # i
      PROVE  (InBook(c, id) <=> InBook(b, id)) /\ Remaining(c, id) = Remaining(b, id)
  <2>1. \A s \in Slots : s # o => c.order[s] = b.order[s] /\ (s \in Live(c) <=> s \in Live(b))
    OBVIOUS
  <2>2. o \notin Live(c) /\ b.order[o].id # id
    BY <1>4
  <2>3. QED
    BY <1>4, <2>1, <2>2, SameElsewhere
<1>5. QED
  BY <1>1, <1>2, <1>3, <1>4 DEF Others

LEMMA CancelEffect ==
  ASSUME NEW b, Plain(b), NEW id \in Ids
  PROVE  LET c == CancelOrder(b, id) IN
         /\ Plain(c) /\ c.nextId = b.nextId
         /\ ~InBook(b, id) => c = b
         /\ InBook(b, id) => ~InBook(c, id) /\ Others(b, c, id)
         /\ Shrinks(b, c)
<1> DEFINE c == CancelOrder(b, id)
           o == FindId(b, id)
<1>1. BookInv(b) /\ o \notin Stops(b) /\ Plain(c) /\ c.nextId = b.nextId
  BY PlainCancel DEF Plain, Stops, Live
<1>2. /\ o = Null => c = b
      /\ o # Null => Retired(b, c, KeyOf(b, o), o)
  BY <1>1, CancelInv
<1>3. InBook(b, id) <=> o # Null
  BY DEF InBook
<1>4. InBook(b, id) => o \in Live(b) /\ b.order[o].id = id
  BY <1>1, Mapped
<1>5. BookInv(c)
  BY <1>1 DEF Plain
<1> HIDE DEF c, o
<1>6. CASE ~InBook(b, id)
  BY <1>1, <1>2, <1>3, <1>6 DEF Shrinks, c
<1>7. CASE InBook(b, id)
  <2>1. c.order = b.order /\ Live(c) = Live(b) \ {o}
    BY <1>2, <1>3, <1>7 DEF Retired
  <2>2. ~InBook(c, id) /\ Others(b, c, id)
    BY <1>1, <1>4, <1>5, <1>7, <2>1, RetireEffect
  <2>3. Shrinks(b, c)
    BY <1>1, <1>7, <2>2 DEF Shrinks, Others
  <2>4. QED
    BY <1>1, <1>7, <2>2, <2>3 DEF c
<1>8. QED
  BY <1>6, <1>7

\* An iteration of market_order fills the order at the head of the best level.
LEMMA MatchEffect ==
  ASSUME NEW b, Plain(b), NEW left \in Qty, NEW side \in Sides, ~SideEmpty(b, side)
  PROVE  LET k == BestKey(b, side)
             c == MarketIteration(b, k, left)
             amt == MarketTake(b, k, left)
             o == b.level[k].head
             i == b.order[o].id IN
         /\ Plain(c) /\ Shrinks(b, c) /\ left - amt \in Qty /\ amt \in Nat
         /\ o # Null /\ i \in Ids \ {0}
         /\ Remaining(b, i) = Remaining(c, i) + amt /\ Remaining(c, i) \in Nat
         /\ Others(b, c, i)
<1> DEFINE k == BestKey(b, side)
           c == MarketIteration(b, k, left)
           amt == MarketTake(b, k, left)
           o == b.level[k].head
           i == b.order[o].id
           x == Decreased(b.level[k].agg, amt)
           ord == [b.order[o] EXCEPT !.rem = @ - amt]
<1>1. BookInv(b) /\ k \in LevelKeys(b.ladder) /\ b.order \in [Slots -> Order]
  BY BestExists DEF Plain, BookInv, Book
<1>2. /\ BookInv(c) /\ amt \in 0..left /\ o \in Resting(b, k) /\ o # Null
      /\ amt <= b.order[o].rem /\ Filled(b, c, k, o, amt, x)
  BY <1>1, MarketInv
<1>3. Plain(c) /\ c.nextId = b.nextId /\ left - amt \in Qty
  BY PlainMarket
<1>4. o \in Slots /\ o \in Live(b) /\ i \in Ids \ {0} /\ b.order[o] \in Order
  BY <1>1, <1>2, LiveFacts DEF Resting, Live
<1>5. left \in Nat /\ amt \in Nat /\ b.order[o].rem \in Nat
  <2>1. left \in Nat
    BY QtyInNat
  <2>2. b.order[o].rem \in Nat
    BY <1>4, OrderNat
  <2>3. QED
    BY <1>2, <2>1, <2>2
<1> HIDE DEF k, c, amt, o, x
<1>6. PICK d : /\ BookInv(d) /\ Resized(b, d, k, o, ord, x)
               /\ b.order[o].rem # amt => c = d
               /\ b.order[o].rem = amt /\ ~Replenishable(d, o) => Retired(d, c, k, o)
  BY <1>2 DEF Filled
<1>7. /\ d.order = [b.order EXCEPT ![o] = ord] /\ Live(d) = Live(b)
  BY <1>6, ShapeSets DEF Resized
<1>8. d.order[o] = ord /\ \A s \in Slots : s # o => d.order[s] = b.order[s]
  BY <1>1, <1>4, <1>7
<1>9. ord.id = i /\ ord.rem = b.order[o].rem - amt /\ ord.disp = b.order[o].disp
  BY <1>4 DEF Order
<1> HIDE DEF ord, i
<1>10. /\ InBook(b, i) /\ FindId(b, i) = o /\ InBook(d, i) /\ FindId(d, i) = o
  <2>1. o \in Live(b) /\ o \in Live(d) /\ b.order[o].id = i /\ d.order[o].id = i
    BY <1>4, <1>7, <1>8, <1>9 DEF i
  <2>2. QED
    BY <1>1, <1>4, <1>6, <2>1, Mapped
<1>11. Remaining(b, i) = b.order[o].rem /\ Remaining(d, i) = b.order[o].rem - amt
  BY <1>8, <1>9, <1>10 DEF Remaining
<1>12. Others(b, d, i)
  <2> SUFFICES ASSUME NEW id \in Ids, id # i
      PROVE  (InBook(d, id) <=> InBook(b, id)) /\ Remaining(d, id) = Remaining(b, id)
    BY DEF Others
  <2>1. \A s \in Slots : s # o => (s \in Live(d) <=> s \in Live(b))
    BY <1>7
  <2>2. b.order[o].id # id /\ d.order[o].id # id
    BY <1>8, <1>9 DEF i
  <2>3. QED
    BY <1>1, <1>6, <1>8, <2>1, <2>2, SameElsewhere
<1>13. /\ Remaining(c, i) = b.order[o].rem - amt
       /\ Others(b, c, i)
  <2>1. CASE b.order[o].rem # amt
    BY <1>6, <1>11, <1>12, <2>1
  <2>2. CASE b.order[o].rem = amt
    <3>1. d.order[o].disp = 0
      BY <1>4, <1>8, <1>9 DEF Plain
    <3>2. Retired(d, c, k, o)
      BY <1>6, <2>2, <3>1 DEF Replenishable
    <3>3. c.order = d.order /\ Live(c) = Live(d) \ {o} /\ o \in Live(d) /\ i = d.order[o].id
      BY <1>4, <1>7, <1>8, <1>9, <3>2 DEF Retired
    <3>4. ~InBook(c, i) /\ Others(d, c, i)
      BY <1>2, <1>6, <3>3, RetireEffect
    <3>5. Remaining(c, i) = 0
      BY <3>4 DEF Remaining
    <3>6. QED
      BY <1>5, <1>12, <2>2, <3>4, <3>5 DEF Others
  <2>3. QED
    BY <2>1, <2>2
<1>14. Shrinks(b, c)
  BY <1>3, <1>10, <1>13 DEF Shrinks, Others
<1>15. b.order[o].rem = (b.order[o].rem - amt) + amt /\ b.order[o].rem - amt \in Nat
  BY <1>2, <1>5
<1>16. QED
  BY <1>2, <1>3, <1>4, <1>5, <1>11, <1>13, <1>14, <1>15 DEF c, k, amt, o, i

\* market_order adds nothing to the book.
LEMMA MarketShrinks ==
  ASSUME NEW b, Plain(b), NEW side \in Sides, NEW qty \in Qty
  PROVE  Plain(MarketOrder(b, side, qty)) /\ Shrinks(b, MarketOrder(b, side, qty))
<1> DEFINE st == [b |-> b, left |-> qty]
           N == Capacity + 1
           g == RunFcn(st, side, N)
           Good(n) == Plain(g[n].b) /\ g[n].left \in Qty /\ Shrinks(b, g[n].b)
           Bad == {n \in 0..N : ~Good(n)}
<1>1. N \in Nat /\ st.b = b /\ st.left = qty
  BY CapacityAssumption
<1>2. Runs(g, st, side, N)
  BY <1>1, RunsExist
<1>3. MarketOrder(b, side, qty) = g[N].b
  BY MarketOrderRuns
<1> HIDE DEF st, g, N
<1>4. g[0] = st /\ \A n \in 0..(N - 1) : g[n + 1] = MarketNext(g[n], side)
  <2>1. N \in Nat
    BY <1>1
  <2>2. QED
    BY ONLY <1>2, <2>1, RunsAt
<1>5. Good(0)
  BY <1>1, <1>4 DEF Shrinks
<1>6. ASSUME NEW n \in 0..(N - 1), Good(n) PROVE Good(n + 1)
  <2> DEFINE s == g[n]
             k == BestKey(s.b, Opposite(side))
             c == MarketIteration(s.b, k, s.left)
             l == s.left - MarketTake(s.b, k, s.left)
  <2>1. g[n + 1] = MarketNext(s, side)
    BY <1>4
  <2>2. CASE MarketDone(s, side)
    BY <1>6, <2>1, <2>2 DEF MarketNext
  <2>3. CASE ~MarketDone(s, side)
    <3>1. Opposite(side) \in Sides /\ ~SideEmpty(s.b, Opposite(side))
      BY <2>3 DEF MarketDone, Opposite, Sides
    <3>2. Plain(c) /\ Shrinks(s.b, c) /\ l \in Qty
      BY <1>6, <3>1, MatchEffect
    <3>3. g[n + 1] = [b |-> c, left |-> l]
      BY <2>1, <2>3 DEF MarketNext
    <3> HIDE DEF c, l, k
    <3>4. Shrinks(b, c)
      BY <1>6, <3>2 DEF Shrinks
    <3>5. QED
      BY <3>2, <3>3, <3>4
  <2>4. QED
    BY <2>2, <2>3
<1>7. Bad = {}
  <2> SUFFICES ASSUME Bad # {} PROVE FALSE
    OBVIOUS
  <2>1. PICK n \in Bad : \A m \in Bad : n <= m
    <3>1. Bad \in SUBSET Nat
      BY <1>1
    <3> HIDE DEF Bad
    <3>2. QED
      BY <3>1, SmallestNat
  <2>2. n \in 0..N /\ ~Good(n) /\ n # 0
    BY <1>5, <2>1
  <2>3. n - 1 \in 0..(N - 1) /\ (n - 1) + 1 = n /\ n - 1 \in 0..N /\ n - 1 \notin Bad
    BY <1>1, <2>1, <2>2
  <2>4. Good(n - 1)
    BY <2>3
  <2> HIDE DEF Good
  <2>5. Good((n - 1) + 1)
    BY <1>6, <2>3, <2>4
  <2>6. QED
    BY <2>2, <2>3, <2>5
<1>8. N \in 0..N
  BY <1>1
<1>9. Good(N)
  BY <1>7, <1>8
<1>10. QED
  BY <1>3, <1>9
-----------------------------------------------------------------------------
(***************************************************************************)
(* The lists of ids.  All ids of the book from lo on are in the list, once *)
(* each; and everything in it was issued.                                  *)
(***************************************************************************)
Issues(ids, b, lo) == \A i \in 1..Len(ids) : ids[i] >= lo /\ ids[i] < b.nextId
Once(ids) == \A i, j \in 1..Len(ids) : ids[i] = ids[j] => i = j
Knows(ids, b, lo) ==
  \A id \in Ids : id >= lo /\ InBook(b, id) => \E i \in 1..Len(ids) : ids[i] = id
Tracks(ids, b, lo) ==
  ids \in Seq(Ids) /\ Issues(ids, b, lo) /\ Once(ids) /\ Knows(ids, b, lo)

LEMMA TracksCovers ==
  ASSUME NEW ids, NEW lo, Tracks(ids, book, lo)
  PROVE  Covers(ids, lo)
<1> SUFFICES ASSUME NEW id \in Ids \ {0}
             PROVE  LET n == Cardinality({i \in 1..Len(ids) : ids[i] = id}) IN
                    n <= 1 /\ (id >= lo /\ InBook(book, id) => n = 1)
  BY DEF Covers
<1> DEFINE S == {i \in 1..Len(ids) : ids[i] = id}
<1>1. CASE S = {}
  <2>1. Cardinality(S) = 0
    BY <1>1, FS_EmptySet
  <2>2. ~(id >= lo /\ InBook(book, id))
    BY <1>1 DEF Tracks, Knows
  <2>3. QED
    BY <2>1, <2>2
<1>2. CASE S # {}
  <2>1. PICK i \in S : TRUE
    BY <1>2
  <2>2. S = {i}
    BY <2>1 DEF Tracks, Once
  <2>3. Cardinality(S) = 1
    BY <2>2, FS_Singleton
  <2>4. QED
    BY <2>3
<1>3. QED
  BY <1>1, <1>2

LEMMA DrawFacts ==
  ASSUME NEW ids \in Seq(Ids), NEW i \in 1..Len(ids)
  PROVE  /\ DrawId(ids, i) \in Seq(Ids) /\ Len(DrawId(ids, i)) = Len(ids) - 1
         /\ \A j \in 1..(Len(ids) - 1) :
              DrawId(ids, i)[j] = IF j = i THEN ids[Len(ids)] ELSE ids[j]
<1> DEFINE e == [ids EXCEPT ![i] = ids[Len(ids)]]
           n == Len(ids) - 1
<1>1. Len(ids) \in Nat /\ n \in Nat /\ n <= Len(ids) /\ Len(ids) \in 1..Len(ids)
  OBVIOUS
<1>2. e \in Seq(Ids) /\ Len(e) = Len(ids)
      /\ \A j \in 1..Len(ids) : e[j] = IF j = i THEN ids[Len(ids)] ELSE ids[j]
  <2>1. ids \in [1..Len(ids) -> Ids] /\ ids[Len(ids)] \in Ids
    BY <1>1
  <2>2. e \in [1..Len(ids) -> Ids]
    BY <2>1
  <2>3. e \in Seq(Ids) /\ Len(e) = Len(ids)
    BY <1>1, <2>2
  <2>4. QED
    BY <2>1, <2>3
<1> HIDE DEF e
<1>3. /\ SubSeq(e, 1, n) \in Seq(Ids) /\ Len(SubSeq(e, 1, n)) = n
      /\ \A j \in 1..n : SubSeq(e, 1, n)[j] = e[j]
  BY <1>1, <1>2
<1>4. QED
  BY <1>1, <1>2, <1>3 DEF DrawId, e

LEMMA TracksShrink ==
  ASSUME NEW ids, NEW b, NEW c, NEW lo, Tracks(ids, b, lo), Shrinks(b, c)
  PROVE  Tracks(ids, c, lo)
BY DEF Tracks, Shrinks, Issues, Knows

\* An order that is added is appended.
LEMMA TracksAdd ==
  ASSUME NEW ids, NEW b, NEW c, NEW lo \in Nat, Tracks(ids, b, lo),
         b.nextId \in Ids, lo <= b.nextId, c.nextId = b.nextId + 1,
         Others(b, c, b.nextId)
  PROVE  Tracks(Append(ids, b.nextId), c, lo)
<1> DEFINE new == b.nextId
           n == Len(ids)
           t == Append(ids, new)
<1>1. ids \in Seq(Ids) /\ n \in Nat /\ new \in Nat
  BY MaxIdAssumption DEF Tracks, Ids
<1>2. /\ t \in Seq(Ids) /\ Len(t) = n + 1 /\ t[n + 1] = new
      /\ \A i \in 1..n : t[i] = ids[i]
  BY <1>1
<1>3. \A i \in 1..(n + 1) : i \in 1..n \/ i = n + 1
  BY <1>1
<1>4. \A i \in 1..n : ids[i] >= lo /\ ids[i] < new /\ ids[i] \in Int
  BY <1>1, MaxIdAssumption DEF Tracks, Issues, Ids
<1> HIDE DEF t, n, new
<1>5. Issues(t, c, lo)
  <2> SUFFICES ASSUME NEW i \in 1..(n + 1) PROVE t[i] >= lo /\ t[i] < c.nextId
    BY <1>2 DEF Issues
  <2>1. c.nextId = new + 1 /\ lo <= new
    BY DEF new
  <2>2. QED
    BY <1>1, <1>2, <1>3, <1>4, <2>1
<1>6. Once(t)
  <2> SUFFICES ASSUME NEW i \in 1..(n + 1), NEW j \in 1..(n + 1), t[i] = t[j] PROVE i = j
    BY <1>2 DEF Once
  <2>1. CASE i \in 1..n /\ j \in 1..n
    BY <1>2, <2>1 DEF Tracks, Once, n
  <2>2. CASE i \in 1..n /\ j = n + 1
    BY <1>1, <1>2, <1>4, <2>2
  <2>3. CASE i = n + 1 /\ j \in 1..n
    BY <1>1, <1>2, <1>4, <2>3
  <2>4. QED
    BY <1>3, <2>1, <2>2, <2>3
<1>7. Knows(t, c, lo)
  <2> SUFFICES ASSUME NEW id \in Ids, id >= lo, InBook(c, id)
               PROVE  \E i \in 1..(n + 1) : t[i] = id
    BY <1>2 DEF Knows
  <2>1. CASE id = new
    BY <1>1, <1>2, <2>1
  <2>2. CASE id # new
    <3>1. InBook(b, id)
      BY <2>2 DEF Others, new
    <3>2. PICK i \in 1..n : ids[i] = id
      BY <3>1 DEF Tracks, Knows, n
    <3>3. i \in 1..(n + 1) /\ t[i] = id
      BY <1>1, <1>2, <3>2
    <3>4. QED
      BY <3>3
  <2>3. QED
    BY <2>1, <2>2
<1>8. QED
  BY <1>2, <1>5, <1>6, <1>7 DEF Tracks, t, new

\* An id that is drawn leaves the list when it is not, or no longer, in the book.
LEMMA TracksDraw ==
  ASSUME NEW ids, NEW b, NEW c, NEW lo, Tracks(ids, b, lo), Shrinks(b, c),
         NEW i \in 1..Len(ids), ~InBook(c, ids[i])
  PROVE  Tracks(DrawId(ids, i), c, lo)
<1> DEFINE t == DrawId(ids, i)
           n == Len(ids)
           at(j) == IF j = i THEN n ELSE j
<1>1. ids \in Seq(Ids) /\ n \in Nat /\ i \in 1..n
  BY DEF Tracks
<1>2. t \in Seq(Ids) /\ Len(t) = n - 1 /\ \A j \in 1..(n - 1) : t[j] = ids[at(j)]
  BY <1>1, DrawFacts
<1>3. \A j \in 1..(n - 1) : at(j) \in 1..n
  BY <1>1
<1>4. \A j, k \in 1..(n - 1) : at(j) = at(k) => j = k
  BY <1>1
<1> HIDE DEF t
<1>5. Issues(t, c, lo)
  <2> SUFFICES ASSUME NEW j \in 1..(n - 1) PROVE t[j] >= lo /\ t[j] < c.nextId
    BY <1>2 DEF Issues
  <2> HIDE DEF at
  <2>1. at(j) \in 1..n /\ t[j] = ids[at(j)]
    BY <1>2, <1>3
  <2>2. ids[at(j)] >= lo /\ ids[at(j)] < b.nextId /\ c.nextId = b.nextId
    BY <2>1 DEF Tracks, Issues, Shrinks
  <2>3. QED
    BY <2>1, <2>2
<1>6. Once(t)
  <2> SUFFICES ASSUME NEW j \in 1..(n - 1), NEW k \in 1..(n - 1), t[j] = t[k] PROVE j = k
    BY <1>2 DEF Once
  <2> HIDE DEF at
  <2>1. ids[at(j)] = ids[at(k)] /\ at(j) \in 1..n /\ at(k) \in 1..n
    BY <1>2, <1>3
  <2>2. at(j) = at(k)
    BY <2>1 DEF Tracks, Once
  <2>3. QED
    BY <1>4, <2>2
<1>7. Knows(t, c, lo)
  <2> SUFFICES ASSUME NEW id \in Ids, id >= lo, InBook(c, id)
               PROVE  \E j \in 1..(n - 1) : t[j] = id
    BY <1>2 DEF Knows
  <2>1. PICK j \in 1..n : ids[j] = id
    BY DEF Shrinks, Tracks, Knows
  <2>2. j # i
    BY <2>1
  <2>3. CASE j = n
    <3>1. i \in 1..(n - 1) /\ at(i) = n
      BY <1>1, <2>2, <2>3
    <3>2. t[i] = id
      BY <1>2, <2>1, <2>3, <3>1
    <3>3. QED
      BY <3>1, <3>2
  <2>4. CASE j # n
    <3>1. j \in 1..(n - 1) /\ at(j) = j
      BY <1>1, <2>2, <2>4
    <3>2. t[j] = id
      BY <1>2, <2>1, <3>1
    <3>3. QED
      BY <3>1, <3>2
  <2>5. QED
    BY <2>3, <2>4
<1>8. QED
  BY <1>2, <1>5, <1>6, <1>7 DEF Tracks, t
-----------------------------------------------------------------------------
(***************************************************************************)
(* compact_live: its loop as a function of the ids looked at.              *)
(***************************************************************************)
Keep(g, b, ids, n) ==
  IF InBook(b, ids[n]) THEN Append(g[n - 1], ids[n]) ELSE g[n - 1]
Keeps(g, b, ids, N) == g = [n \in 0..N |-> IF n = 0 THEN <<>> ELSE Keep(g, b, ids, n)]
KeepFcn(b, ids, N) == CHOOSE g : Keeps(g, b, ids, N)

LEMMA KeepsExist ==
  ASSUME NEW b, NEW ids, NEW M \in Nat
  PROVE  Keeps(KeepFcn(b, ids, M), b, ids, M)
<1> DEFINE Bad == {N \in Nat : ~ \E g : Keeps(g, b, ids, N)}
<1>1. Bad = {}
  <2> SUFFICES ASSUME Bad # {} PROVE FALSE
    OBVIOUS
  <2>1. PICK N \in Bad : \A k \in Bad : N <= k
    <3>1. Bad \in SUBSET Nat
      OBVIOUS
    <3> HIDE DEF Bad
    <3>2. QED
      BY <3>1, SmallestNat
  <2>2. N \in Nat /\ ~ \E g : Keeps(g, b, ids, N)
    BY <2>1
  <2>3. CASE N = 0
    <3> DEFINE g == [n \in 0..0 |-> <<>>]
    <3>1. [n \in 0..0 |-> <<>>] = [n \in 0..0 |-> IF n = 0 THEN <<>> ELSE Keep(g, b, ids, n)]
      OBVIOUS
    <3>2. g = [n \in 0..0 |-> IF n = 0 THEN <<>> ELSE Keep(g, b, ids, n)]
      BY <3>1
    <3> HIDE DEF g
    <3>3. Keeps(g, b, ids, 0)
      BY <3>2 DEF Keeps
    <3>4. QED
      BY <2>2, <2>3, <3>3
  <2>4. CASE N # 0
    <3>1. N - 1 \in Nat /\ N - 1 \notin Bad
      BY <2>1, <2>2, <2>4
    <3>2. PICK h : Keeps(h, b, ids, N - 1)
      BY <3>1
    <3> DEFINE g == [n \in 0..N |-> IF n = 0 THEN <<>> ELSE Keep(h, b, ids, n)]
    <3>3. ASSUME NEW n \in 0..N, n # 0 PROVE g[n - 1] = h[n - 1]
      <4>1. n - 1 \in 0..N /\ n - 1 \in 0..(N - 1)
        BY <2>2, <3>3
      <4>2. h[n - 1] = IF n - 1 = 0 THEN <<>> ELSE Keep(h, b, ids, n - 1)
        BY <3>2, <4>1 DEF Keeps
      <4>3. g[n - 1] = IF n - 1 = 0 THEN <<>> ELSE Keep(h, b, ids, n - 1)
        BY <4>1
      <4>4. QED
        BY <4>2, <4>3
    <3>4. \A n \in 0..N : n # 0 => Keep(h, b, ids, n) = Keep(g, b, ids, n)
      BY <3>3 DEF Keep
    <3>5. g = [n \in 0..N |-> IF n = 0 THEN <<>> ELSE Keep(g, b, ids, n)]
      BY <3>4
    <3> HIDE DEF g
    <3>6. Keeps(g, b, ids, N)
      BY <3>5 DEF Keeps
    <3>7. QED
      BY <2>2, <3>6
  <2>5. QED
    BY <2>3, <2>4
<1>2. \E g : Keeps(g, b, ids, M)
  BY <1>1
<1>3. QED
  BY <1>2 DEF KeepFcn

LEMMA CompactedIs ==
  ASSUME NEW b, NEW ids
  PROVE  Compacted(b, ids) = KeepFcn(b, ids, Len(ids))[Len(ids)]
<1>1. Compacted(b, ids) =
        (CHOOSE g : g = [n \in 0..Len(ids) |-> IF n = 0 THEN <<>> ELSE Keep(g, b, ids, n)])[Len(ids)]
  BY DEF Compacted, Keep
<1>2. QED
  BY <1>1 DEF KeepFcn, Keeps

\* What the first n ids have left in t.
KeptOf(t, b, ids, n) ==
  /\ t \in Seq(Ids) /\ Len(t) <= n /\ Once(t)
  /\ \A i \in 1..Len(t) : InBook(b, t[i]) /\ \E j \in 1..n : ids[j] = t[i]
  /\ \A j \in 1..n : InBook(b, ids[j]) => \E i \in 1..Len(t) : t[i] = ids[j]

LEMMA KeepStep ==
  ASSUME NEW b, NEW ids \in Seq(Ids), Once(ids), NEW n \in Nat, n + 1 \in 1..Len(ids),
         NEW t, KeptOf(t, b, ids, n),
         NEW u, u = IF InBook(b, ids[n + 1]) THEN Append(t, ids[n + 1]) ELSE t
  PROVE  KeptOf(u, b, ids, n + 1)
<1>1. t \in Seq(Ids) /\ Len(t) \in Nat /\ Len(t) <= n /\ ids[n + 1] \in Ids
  BY DEF KeptOf
<1>2. \A j \in 1..(n + 1) : j \in 1..n \/ j = n + 1
  OBVIOUS
<1>3. \A j \in 1..n : j \in 1..(n + 1)
  OBVIOUS
<1>4. CASE ~InBook(b, ids[n + 1])
  <2>1. u = t /\ Len(t) <= n + 1
    BY <1>1, <1>4
  <2>2. \A i \in 1..Len(t) : InBook(b, t[i]) /\ \E j \in 1..(n + 1) : ids[j] = t[i]
    BY <1>3 DEF KeptOf
  <2>3. \A j \in 1..(n + 1) : InBook(b, ids[j]) => \E i \in 1..Len(t) : t[i] = ids[j]
    BY <1>2, <1>4 DEF KeptOf
  <2>4. QED
    BY <2>1, <2>2, <2>3 DEF KeptOf
<1>5. CASE InBook(b, ids[n + 1])
  <2> DEFINE L == Len(t)
             x == ids[n + 1]
  <2>1. /\ u \in Seq(Ids) /\ Len(u) = L + 1 /\ u[L + 1] = x
        /\ \A i \in 1..L : u[i] = t[i]
    BY <1>1, <1>5
  <2>2. /\ \A i \in 1..(L + 1) : i \in 1..L \/ i = L + 1
        /\ \A i \in 1..L : i \in 1..(L + 1)
        /\ L + 1 \in 1..(L + 1) /\ L + 1 <= n + 1 /\ n + 1 \in 1..(n + 1)
    BY <1>1
  <2>3. \A i \in 1..L : t[i] # x
    <3> SUFFICES ASSUME NEW i \in 1..L, t[i] = x PROVE FALSE
      OBVIOUS
    <3>1. PICK j \in 1..n : ids[j] = t[i]
      BY DEF KeptOf
    <3>2. j \in 1..Len(ids) /\ j # n + 1
      OBVIOUS
    <3>3. QED
      BY <3>1, <3>2 DEF Once
  <2> HIDE DEF L, x
  <2>4. Once(u)
    <3> SUFFICES ASSUME NEW i \in 1..(L + 1), NEW j \in 1..(L + 1), u[i] = u[j] PROVE i = j
      BY <2>1 DEF Once
    <3>1. CASE i \in 1..L /\ j \in 1..L
      BY <2>1, <3>1 DEF KeptOf, Once, L
    <3>2. CASE i \in 1..L /\ j = L + 1
      BY <2>1, <2>3, <3>2
    <3>3. CASE i = L + 1 /\ j \in 1..L
      BY <2>1, <2>3, <3>3
    <3>4. QED
      BY <2>2, <3>1, <3>2, <3>3
  <2>5. ASSUME NEW i \in 1..(L + 1)
        PROVE  InBook(b, u[i]) /\ \E j \in 1..(n + 1) : ids[j] = u[i]
    <3>1. CASE i \in 1..L
      <4>1. InBook(b, t[i]) /\ \E j \in 1..n : ids[j] = t[i]
        BY <3>1 DEF KeptOf, L
      <4>2. QED
        BY <1>3, <2>1, <3>1, <4>1
    <3>2. CASE i = L + 1
      BY <1>5, <2>1, <2>2, <3>2 DEF x
    <3>3. QED
      BY <2>2, <3>1, <3>2
  <2>6. ASSUME NEW j \in 1..(n + 1), InBook(b, ids[j]) PROVE \E i \in 1..(L + 1) : u[i] = ids[j]
    <3>1. CASE j \in 1..n
      <4>1. PICK i \in 1..L : t[i] = ids[j]
        BY <2>6, <3>1 DEF KeptOf, L
      <4>2. QED
        BY <2>1, <2>2, <4>1
    <3>2. CASE j = n + 1
      BY <2>1, <2>2, <3>2 DEF x
    <3>3. QED
      BY <1>2, <3>1, <3>2
  <2>7. QED
    BY <2>1, <2>2, <2>4, <2>5, <2>6 DEF KeptOf
<1>6. QED
  BY <1>4, <1>5

LEMMA TracksCompact ==
  ASSUME NEW ids, NEW b, NEW lo, Tracks(ids, b, lo)
  PROVE  /\ Tracks(Compacted(b, ids), b, lo) /\ Len(Compacted(b, ids)) <= Len(ids)
         /\ \A i \in 1..Len(Compacted(b, ids)) : InBook(b, Compacted(b, ids)[i])
<1> DEFINE N == Len(ids)
           g == KeepFcn(b, ids, N)
           t == Compacted(b, ids)
           Bad == {n \in 0..N : ~KeptOf(g[n], b, ids, n)}
<1>1. ids \in Seq(Ids) /\ N \in Nat /\ Once(ids)
  BY DEF Tracks
<1>2. Keeps(g, b, ids, N) /\ t = g[N]
  BY <1>1, KeepsExist, CompactedIs
<1> HIDE DEF g, t
<1>3. Bad = {}
  <2> SUFFICES ASSUME Bad # {} PROVE FALSE
    OBVIOUS
  <2>1. PICK n \in Bad : \A m \in Bad : n <= m
    <3>1. Bad \in SUBSET Nat
      BY <1>1
    <3> HIDE DEF Bad
    <3>2. QED
      BY <3>1, SmallestNat
  <2>2. n \in 0..N /\ ~KeptOf(g[n], b, ids, n)
    BY <2>1
  <2>3. g[n] = IF n = 0 THEN <<>> ELSE Keep(g, b, ids, n)
    BY <1>2, <2>2 DEF Keeps
  <2>4. n # 0
    <3>1. <<>> \in Seq(Ids) /\ Len(<<>>) = 0 /\ 1..0 = {}
      OBVIOUS
    <3>2. KeptOf(<<>>, b, ids, 0)
      BY <3>1 DEF KeptOf, Once
    <3>3. QED
      BY <2>2, <2>3, <3>2
  <2> DEFINE m == n - 1
  <2>5. m \in Nat /\ m + 1 = n /\ m \in 0..N /\ m \notin Bad /\ m + 1 \in 1..N
    BY <1>1, <2>1, <2>2, <2>4
  <2>6. KeptOf(g[m], b, ids, m)
    BY <2>5
  <2>7. g[n] = IF InBook(b, ids[m + 1]) THEN Append(g[m], ids[m + 1]) ELSE g[m]
    BY <2>3, <2>4, <2>5 DEF Keep
  <2> HIDE DEF m, Bad
  <2>8. KeptOf(g[n], b, ids, m + 1)
    BY <1>1, <2>5, <2>6, <2>7, KeepStep
  <2>9. QED
    BY <2>2, <2>5, <2>8
<1>4. KeptOf(t, b, ids, N)
  <2>1. N \in 0..N
    BY <1>1
  <2>2. QED
    BY <1>2, <1>3, <2>1
<1>5. Issues(t, b, lo)
  BY <1>4 DEF KeptOf, Issues, Tracks
<1>6. Knows(t, b, lo)
  <2> SUFFICES ASSUME NEW id \in Ids, id >= lo, InBook(b, id)
               PROVE  \E i \in 1..Len(t) : t[i] = id
    BY DEF Knows
  <2>1. PICK j \in 1..N : ids[j] = id
    BY DEF Tracks, Knows
  <2>2. QED
    BY <1>4, <2>1 DEF KeptOf
<1>7. QED
  BY <1>4, <1>5, <1>6 DEF Tracks, KeptOf, t
-----------------------------------------------------------------------------
(***************************************************************************)
(* The fills that have still to be published.                              *)
(***************************************************************************)
Fills == [id : Ids, qty : Nat]
Owed(fs, id) == [i \in 1..Len(fs) |-> IF fs[i].id = id THEN fs[i].qty ELSE 0]
DueOf(fs, id) == Sum(Owed(fs, id), 1..Len(fs))

\* The model's fold is Sum.
DueSummed(id) == Due(id) = DueOf(fills, id)

LEMMA DueIs ==
  ASSUME fills \in Seq(Fills), NEW id
  PROVE  DueSummed(id)
<1> DEFINE T == 1..Len(fills)
           w == Owed(fills, id)
           o(i) == IF fills[i].id = id THEN fills[i].qty ELSE 0
<1>1. IsFiniteSet(T)
  <2>1. 1 \in Int /\ Len(fills) \in Int
    OBVIOUS
  <2>2. QED
    BY <2>1, FS_Interval
<1>2. \A s \in SUBSET T : s # {} => w[Pick(s)] = o(Pick(s))
  BY PickIn DEF Owed
<1>3. Due(id) = (CHOOSE g : g = [s \in SUBSET T |-> IF s = {} THEN 0
                   ELSE o(Pick(s)) + g[s \ {Pick(s)}]])[T]
  BY DEF Due, MapThenSumSet, MapThenFoldSet, Pick
<1> DEFINE h == CHOOSE g : g = [s \in SUBSET T |-> IF s = {} THEN 0
                  ELSE o(Pick(s)) + g[s \ {Pick(s)}]]
<1> HIDE DEF w, T, o
<1>4. ASSUME NEW g
      PROVE  [s \in SUBSET T |-> IF s = {} THEN 0 ELSE o(Pick(s)) + g[s \ {Pick(s)}]]
             = [s \in SUBSET T |-> IF s = {} THEN 0 ELSE w[Pick(s)] + g[s \ {Pick(s)}]]
  BY <1>2
<1>5. SumFcn(w, T) = [s \in SUBSET T |-> IF s = {} THEN 0
                        ELSE o(Pick(s)) + SumFcn(w, T)[s \ {Pick(s)}]]
  <2> DEFINE f == SumFcn(w, T)
  <2>1. Sums(f, w, T)
    BY <1>1, SumsExist
  <2> HIDE DEF f
  <2>2. f = [s \in SUBSET T |-> IF s = {} THEN 0 ELSE w[Pick(s)] + f[s \ {Pick(s)}]]
    BY <2>1 DEF Sums
  <2>3. QED
    BY <1>4, <2>2 DEF f
<1>6. h = [s \in SUBSET T |-> IF s = {} THEN 0 ELSE o(Pick(s)) + h[s \ {Pick(s)}]]
  BY <1>5
<1> HIDE DEF h
<1>7. Sums(h, w, T)
  BY <1>4, <1>6 DEF Sums
<1>8. Sums(SumFcn(w, T), w, T)
  BY <1>1, SumsExist
<1>9. h[T] = SumFcn(w, T)[T]
  BY <1>1, <1>7, <1>8, SumsAgree
<1>10. QED
  BY <1>3, <1>9 DEF h, w, T, DueOf, Sum, DueSummed

LEMMA OwedType ==
  ASSUME NEW fs \in Seq(Fills), NEW id
  PROVE  Owed(fs, id) \in [1..Len(fs) -> Nat]
<1>1. \A i \in 1..Len(fs) : fs[i] \in Fills
  OBVIOUS
<1>2. QED
  BY <1>1 DEF Fills, Owed

LEMMA DueNone == \A id : DueOf(<<>>, id) = 0
<1>1. Len(<<>>) = 0 /\ 1..0 = {}
  OBVIOUS
<1>2. \A w : Sum(w, {}) = 0
  BY FS_EmptySet, SumUnfold
<1>3. QED
  BY <1>1, <1>2 DEF DueOf

LEMMA DueNat ==
  ASSUME NEW fs \in Seq(Fills), NEW id
  PROVE  DueOf(fs, id) \in Nat
<1> DEFINE n == Len(fs)
           w == Owed(fs, id)
<1>1. n \in Nat /\ w \in [1..n -> Nat]
  BY OwedType
<1> HIDE DEF w, n
<1>2. IsFiniteSet(1..n)
  <2>1. 1 \in Int /\ n \in Int
    BY <1>1
  <2>2. QED
    BY <2>1, FS_Interval
<1>3. 1..n \in SUBSET (1..n)
  OBVIOUS
<1>4. Sum(w, 1..n) \in Nat
  BY <1>1, <1>2, <1>3, SumNat
<1>5. QED
  BY <1>4 DEF DueOf, w, n

LEMMA DueAppend ==
  ASSUME NEW fs \in Seq(Fills), NEW f \in Fills, NEW id
  PROVE  DueOf(Append(fs, f), id) = DueOf(fs, id) + (IF f.id = id THEN f.qty ELSE 0)
<1> DEFINE n == Len(fs)
           t == Append(fs, f)
           w == Owed(fs, id)
           v == Owed(t, id)
           m == n + 1
<1>1. n \in Nat /\ m \in Nat /\ m - 1 = n /\ m \in 1..m /\ \A i \in 1..n : i \in 1..m
  OBVIOUS
<1>2. t \in Seq(Fills) /\ Len(t) = m /\ t[m] = f /\ \A i \in 1..n : t[i] = fs[i]
  BY <1>1
<1>3. w \in [1..n -> Nat] /\ v \in [1..m -> Nat]
  BY <1>2, OwedType
<1>4. v[m] = (IF f.id = id THEN f.qty ELSE 0) /\ \A i \in 1..n : v[i] = w[i]
  BY <1>1, <1>2 DEF Owed
<1>5. DueOf(t, id) = Sum(v, 1..m) /\ DueOf(fs, id) = Sum(w, 1..n)
  BY <1>2 DEF DueOf
<1> HIDE DEF n, m, t, v, w
<1>6. Sum(v, 1..m) = v[m] + Sum(v, 1..(m - 1)) /\ Sum(v, 1..(m - 1)) \in Nat
  BY <1>1, <1>3, SumUpTo
<1>7. Sum(v, 1..n) = Sum(w, 1..n)
  <2>1. 1 \in Int /\ n \in Int
    BY <1>1
  <2>2. IsFiniteSet(1..n)
    BY <2>1, FS_Interval
  <2>3. QED
    BY <1>4, <2>2, SumSame
<1>8. v[m] \in Nat
  BY <1>1, <1>3
<1>9. DueOf(t, id) = DueOf(fs, id) + v[m]
  BY <1>1, <1>5, <1>6, <1>7, <1>8
<1>10. QED
  BY <1>4, <1>9 DEF t

LEMMA DueTail ==
  ASSUME NEW fs \in Seq(Fills), fs # <<>>, NEW id
  PROVE  /\ Head(fs) \in Fills /\ Tail(fs) \in Seq(Fills)
         /\ DueOf(fs, id) = DueOf(Tail(fs), id)
                              + (IF Head(fs).id = id THEN Head(fs).qty ELSE 0)
<1> DEFINE n == Len(fs) - 1
           t == Tail(fs)
           w == Owed(fs, id)
           v == Owed(t, id)
<1>1. n \in Nat /\ Len(fs) = n + 1 /\ 1 \in 1..(n + 1) /\ \A i \in 1..n : i + 1 \in 1..(n + 1)
  OBVIOUS
<1>2. t \in Seq(Fills) /\ Len(t) = n /\ \A i \in 1..n : t[i] = fs[i + 1]
  BY <1>1
<1>3. Head(fs) = fs[1] /\ Head(fs) \in Fills
  BY <1>1
<1>4. w \in [1..(n + 1) -> Nat] /\ v \in [1..n -> Nat]
  BY <1>1, <1>2, OwedType
<1>5. w[1] = (IF Head(fs).id = id THEN Head(fs).qty ELSE 0) /\ \A i \in 1..n : v[i] = w[i + 1]
  BY <1>1, <1>2, <1>3 DEF Owed
<1>6. DueOf(fs, id) = Sum(w, 1..(n + 1)) /\ DueOf(t, id) = Sum(v, 1..n)
  BY <1>1, <1>2 DEF DueOf
<1>7. DueOf(t, id) \in Nat
  BY <1>2, DueNat
<1> HIDE DEF n, t, v, w
<1>8. Sum(w, 1..(n + 1)) = w[1] + Sum(v, 1..n)
  BY <1>1, <1>4, <1>5, SumShift
<1>9. w[1] \in Nat
  BY <1>1, <1>4
<1>10. DueOf(fs, id) = DueOf(t, id) + w[1]
  BY <1>6, <1>7, <1>8, <1>9
<1>11. QED
  BY <1>2, <1>3, <1>5, <1>10 DEF t
-----------------------------------------------------------------------------
(***************************************************************************)
(* The invariant.  Before the driver takes over, the simulator's list      *)
(* tracks the whole book; afterwards the driver's list tracks the orders   *)
(* from first on.  What a listener believes is behind the book by the      *)
(* fills that are still to be published, and nothing is believed of an id  *)
(* that was not issued yet: an order may be placed without being announced.*)
(***************************************************************************)
BookOK == Plain(book) /\ call \in MarketCall

SimList ==
  /\ ours = <<>> /\ Tracks(live, book, 1) /\ Len(live) <= Cap
  /\ (since = 0 => \A i \in 1..Len(live) : InBook(book, live[i]))
DriverList == first <= book.nextId /\ Tracks(ours, book, first)

ListsOK ==
  /\ first \in Nat /\ since \in Nat
  /\ (pc = "warmup" => SimList)
  /\ (pc # "warmup" => DriverList)

Told(m, b, fs) ==
  \A id \in Ids \ {0} : m[id] # Unknown => m[id] = Remaining(b, id) + DueOf(fs, id)

FeedOK ==
  /\ pc \in {"warmup", "idle", "matching", "publishing"}
  /\ (pc \in {"warmup", "idle"} => fills = <<>>)
  /\ fills \in Seq(Fills) /\ mirror \in [Ids -> Int]
  /\ (pc = "warmup" => \A id \in Ids : mirror[id] = Unknown)
  /\ (\A id \in Ids : id >= book.nextId => mirror[id] = Unknown)
  /\ Told(mirror, book, fills)

DriverInv == BookOK /\ ListsOK /\ FeedOK

LEMMA ListEmpty ==
  ASSUME NEW b, Plain(b), NEW lo \in Int, lo >= b.nextId
  PROVE  Tracks(<<>>, b, lo)
<1>1. BookInv(b) /\ b.nextId \in Int
  BY PlainId DEF Plain
<1>2. <<>> \in Seq(Ids) /\ Len(<<>>) = 0 /\ 1..0 = {}
  OBVIOUS
<1>3. Issues(<<>>, b, lo) /\ Once(<<>>)
  BY <1>2 DEF Issues, Once
<1>4. Knows(<<>>, b, lo)
  <2> SUFFICES ASSUME NEW id \in Ids, id >= lo, InBook(b, id) PROVE FALSE
    BY DEF Knows
  <2>1. id >= b.nextId
    BY <1>1, MaxIdAssumption DEF Ids
  <2>2. QED
    BY <1>1, <2>1 DEF BookInv, FreshIds, InBook, FindId
<1>5. QED
  BY <1>2, <1>3, <1>4 DEF Tracks

LEMMA PricesUsed ==
  /\ \A side \in Sides, mag \in 1..Span :
       (IF side = Buy THEN Mid - mag ELSE Mid + mag) \in Prices
  /\ Mid - 1 \in Prices
  /\ DefaultQty \in Qty /\ 1 \in Qty /\ 1..MaxTake \subseteq Qty
<1>1. Mid \in Int /\ Span \in Nat /\ Span > 0
  BY SpanAssumption
<1>2. \A mag \in 1..Span : /\ Mid - mag \in (Mid - Span)..(Mid + Span)
                           /\ Mid + mag \in (Mid - Span)..(Mid + Span)
  BY <1>1
<1>3. 1 \in 1..Span
  BY <1>1
<1>4. QED
  BY <1>2, <1>3, SimAssumption, SimQtyAssumption

LEMMA InitOK == DriverInit => DriverInv
<1> SUFFICES ASSUME DriverInit PROVE DriverInv
  OBVIOUS
<1>1. /\ book = NewBook /\ call = NoCall /\ live = <<>> /\ since = 0
      /\ pc = "warmup" /\ ours = <<>> /\ first = 0 /\ fills = <<>>
      /\ mirror = [id \in Ids |-> Unknown]
  BY DEF DriverInit, SimInit, Init
<1>2. Plain(book) /\ book.nextId = 1
  BY <1>1, PlainNew
<1>3. call \in MarketCall
  BY <1>1, QtyInNat DEF NoCall, MarketCall, Sides
<1>4. Tracks(live, book, 1) /\ Len(live) = 0
  BY <1>1, <1>2, ListEmpty
<1>5. ListsOK
  <2>1. Cap \in Nat
    BY SimAssumption
  <2>2. QED
    BY <1>1, <1>4, <2>1 DEF ListsOK, SimList
<1>6. FeedOK
  BY <1>1 DEF FeedOK, Told, Unknown
<1>7. QED
  BY <1>2, <1>3, <1>5, <1>6 DEF DriverInv, BookOK

-----------------------------------------------------------------------------
(***************************************************************************)
(* The warm-up.                                                            *)
(***************************************************************************)
\* The end of a step of the simulator, which may compact its list.
LEMMA StepEndOK ==
  ASSUME DriverInv, pc = "warmup", UNCHANGED driverVars,
         NEW c, Plain(c), NEW ids, Tracks(ids, c, 1), Len(ids) <= Cap,
         NEW ok, StepEnd(ok, c, ids)
  PROVE  DriverInv'
<1> DEFINE t == Compacted(c, ids)
<1>1. /\ pc' = "warmup" /\ ours' = ours /\ first' = first /\ fills' = fills
      /\ mirror' = mirror /\ book' = c /\ call' = call
  BY DEF driverVars, StepEnd
<1>2. \/ live' = t /\ since' = 0
      \/ live' = ids /\ since' = since + 1
  BY DEF StepEnd
<1>3. ours = <<>> /\ first \in Nat /\ since \in Nat
  BY DEF DriverInv, ListsOK, SimList
<1>4. /\ Tracks(t, c, 1) /\ Len(t) <= Len(ids)
      /\ \A i \in 1..Len(t) : InBook(c, t[i])
  BY TracksCompact
<1>5. Len(t) \in Nat /\ Len(ids) \in Nat /\ Cap \in Nat
  BY <1>4, SimAssumption DEF Tracks
<1> HIDE DEF t
<1>6. SimList' /\ since' \in Nat
  <2>1. CASE live' = t /\ since' = 0
    BY <1>1, <1>3, <1>4, <1>5, <2>1 DEF SimList
  <2>2. CASE live' = ids /\ since' = since + 1
    BY <1>1, <1>3, <2>2 DEF SimList
  <2>3. QED
    BY <1>2, <2>1, <2>2
<1>7. ListsOK'
  BY <1>1, <1>3, <1>6 DEF ListsOK
<1>8. FeedOK'
  BY <1>1 DEF DriverInv, FeedOK, Told
<1>9. QED
  BY <1>1, <1>7, <1>8 DEF DriverInv, BookOK

LEMMA StepLimitOK ==
  ASSUME DriverInv, pc = "warmup", UNCHANGED driverVars,
         NEW side \in Sides, NEW mag \in 1..Span, StepLimit(side, mag)
  PROVE  DriverInv'
<1> DEFINE price == IF side = Buy THEN Mid - mag ELSE Mid + mag
           c == AddLimitOrder(book, side, price, DefaultQty)
<1>1. Plain(book) /\ Tracks(live, book, 1) /\ price \in Prices /\ DefaultQty \in Qty
  BY PricesUsed DEF DriverInv, BookOK, ListsOK, SimList
<1>2. book.nextId <= MaxId /\ Len(live) < Cap /\ Len(live) \in Nat /\ Cap \in Nat
  BY <1>1, SimAssumption DEF StepLimit, CanIssue, Tracks
<1>3. CASE book.free = <<>>
  <2>1. c = book /\ StepEnd(FALSE, c, live)
    BY <1>3 DEF StepLimit, PlaceLimit, AddLimitOrder
  <2> HIDE DEF c
  <2>2. Len(live) <= Cap
    BY <1>2
  <2>3. QED
    BY <1>1, <2>1, <2>2, StepEndOK
<1>4. CASE book.free # <<>>
  <2> DEFINE ids == Append(live, book.nextId)
  <2>1. StepEnd(TRUE, c, ids)
    BY <1>4 DEF StepLimit, PlaceLimit
  <2> HIDE DEF price
  <2>2. /\ Plain(c) /\ c.nextId = book.nextId + 1 /\ book.nextId \in Ids \ {0}
        /\ Others(book, c, book.nextId)
    BY <1>1, <1>2, <1>4, AddEffect
  <2> HIDE DEF c
  <2>3. 1 <= book.nextId
    BY <2>2 DEF Ids
  <2>4. Tracks(ids, c, 1)
    BY <1>1, <2>2, <2>3, TracksAdd
  <2>5. Len(ids) <= Cap
    BY <1>1, <1>2 DEF Tracks
  <2> HIDE DEF ids
  <2>6. QED
    BY <2>1, <2>2, <2>4, <2>5, StepEndOK
<1>5. QED
  BY <1>3, <1>4

LEMMA StepMarketOK ==
  ASSUME DriverInv, pc = "warmup", UNCHANGED driverVars,
         NEW side \in Sides, NEW qty \in 1..MaxTake, StepMarket(side, qty)
  PROVE  DriverInv'
<1> DEFINE c == MarketOrder(book, side, qty)
<1>1. Plain(book) /\ Tracks(live, book, 1) /\ Len(live) <= Cap /\ qty \in Qty
  BY PricesUsed DEF DriverInv, BookOK, ListsOK, SimList
<1>2. StepEnd(TRUE, c, live)
  BY DEF StepMarket
<1>3. Plain(c) /\ Shrinks(book, c)
  BY <1>1, MarketShrinks
<1> HIDE DEF c
<1>4. Tracks(live, c, 1)
  BY <1>1, <1>3, TracksShrink
<1>5. QED
  BY <1>1, <1>2, <1>3, <1>4, StepEndOK

\* Nothing that the invariant speaks of changes.
LEMMA ListsSame ==
  ASSUME DriverInv,
         UNCHANGED <<book, call, live, since, pc, ours, first, fills, mirror>>
  PROVE  DriverInv'
<1>1. BookOK'
  BY DEF DriverInv, BookOK
<1>2. ListsOK'
  BY DEF DriverInv, ListsOK, SimList, DriverList
<1>3. FeedOK'
  BY DEF DriverInv, FeedOK, Told
<1>4. QED
  BY <1>1, <1>2, <1>3 DEF DriverInv

LEMMA CancelDrawOK ==
  ASSUME DriverInv, pc = "warmup", UNCHANGED driverVars,
         NEW i \in 1..Len(live), CancelDraw(i)
  PROVE  DriverInv'
<1> DEFINE id == live[i]
           ids == DrawId(live, i)
           c == CancelOrder(book, id)
<1>1. Plain(book) /\ Tracks(live, book, 1) /\ Len(live) <= Cap /\ id \in Ids
  BY DEF DriverInv, BookOK, ListsOK, SimList, Tracks
<1>2. /\ Plain(c) /\ c.nextId = book.nextId /\ Shrinks(book, c)
      /\ (InBook(book, id) => ~InBook(c, id))
  BY <1>1, CancelEffect
<1>3. Len(ids) <= Cap
  <2>1. Len(ids) = Len(live) - 1 /\ Len(live) \in Nat /\ Cap \in Nat
    BY <1>1, DrawFacts, SimAssumption DEF Tracks
  <2>2. QED
    BY <1>1, <2>1
<1>4. CASE InBook(book, id)
  <2>1. StepEnd(TRUE, c, ids)
    BY <1>4 DEF CancelDraw
  <2> HIDE DEF c
  <2>2. Tracks(ids, c, 1)
    BY <1>1, <1>2, <1>4, TracksDraw
  <2> HIDE DEF ids
  <2>3. QED
    BY <1>2, <1>3, <2>1, <2>2, StepEndOK
<1>5. CASE ~InBook(book, id)
  <2>1. Shrinks(book, book)
    BY DEF Shrinks
  <2>2. Tracks(ids, book, 1)
    BY <1>1, <1>5, <2>1, TracksDraw
  <2>3. CASE StepEnd(FALSE, book, ids)
    <3> HIDE DEF ids
    <3>1. QED
      BY <1>1, <1>3, <2>2, <2>3, StepEndOK
  <2>4. CASE live' = ids /\ UNCHANGED <<book, call, since>>
    <3>1. since # 0
      BY <1>5 DEF DriverInv, ListsOK, SimList
    <3>2. /\ pc' = pc /\ ours' = ours /\ first' = first /\ fills' = fills
          /\ mirror' = mirror /\ book' = book /\ call' = call /\ since' = since
      BY <2>4 DEF driverVars
    <3> HIDE DEF ids, id, c
    <3>3. SimList'
      BY <1>3, <2>2, <2>4, <3>1, <3>2 DEF DriverInv, ListsOK, SimList
    <3>4. ListsOK'
      BY <3>2, <3>3 DEF DriverInv, ListsOK
    <3>5. FeedOK' /\ BookOK'
      BY <3>2 DEF DriverInv, FeedOK, Told, BookOK
    <3>6. QED
      BY <3>4, <3>5 DEF DriverInv
  <2>5. StepEnd(FALSE, book, ids) \/ (live' = ids /\ UNCHANGED <<book, call, since>>)
    BY <1>5 DEF CancelDraw
  <2>6. QED
    BY <2>3, <2>4, <2>5
<1>6. QED
  BY <1>4, <1>5

LEMMA WarmupOK == ASSUME DriverInv, Warmup PROVE DriverInv'
<1>1. pc = "warmup" /\ SimNext /\ UNCHANGED driverVars
  BY DEF Warmup
<1>2. CASE \E side \in Sides, mag \in 1..Span : StepLimit(side, mag)
  BY <1>1, <1>2, StepLimitOK
<1>3. CASE \E side \in Sides, qty \in 1..MaxTake : StepMarket(side, qty)
  BY <1>1, <1>3, StepMarketOK
<1>4. CASE StepCancel
  BY <1>1, <1>4, ListsSame DEF StepCancel, driverVars
<1>5. CASE \E i \in 1..Len(live) : CancelDraw(i)
  BY <1>1, <1>5, CancelDrawOK
<1>6. CASE DivideByZero
  BY <1>1, <1>6, ListsSame DEF DivideByZero, driverVars
<1>7. QED
  BY <1>1, <1>2, <1>3, <1>4, <1>5, <1>6 DEF SimNext

LEMMA WarmupEndOK == ASSUME DriverInv, WarmupEnd PROVE DriverInv'
<1>1. /\ pc' = "idle" /\ first' = book.nextId /\ since' = 0 /\ ours' = ours
      /\ book' = book /\ call' = call /\ fills' = fills /\ mirror' = mirror /\ pc = "warmup"
  BY DEF WarmupEnd
<1>2. Plain(book) /\ ours = <<>> /\ book.nextId \in Nat
  BY <1>1, MaxIdAssumption DEF DriverInv, BookOK, ListsOK, SimList, Plain, BookInv, Book
<1>3. book.nextId <= book.nextId /\ book.nextId >= book.nextId
  BY <1>2
<1>4. Tracks(<<>>, book, book.nextId)
  BY <1>2, <1>3, ListEmpty
<1>5. ListsOK'
  BY <1>1, <1>2, <1>3, <1>4 DEF ListsOK, DriverList
<1>6. FeedOK' /\ BookOK'
  BY <1>1 DEF DriverInv, FeedOK, Told, BookOK
<1>7. QED
  BY <1>5, <1>6 DEF DriverInv
-----------------------------------------------------------------------------
(***************************************************************************)
(* The driver.                                                             *)
(***************************************************************************)
\* What an id other than i is owed and believed to hold is what it was.
LEMMA ToldElsewhere ==
  ASSUME NEW m, NEW w, NEW b, NEW c, NEW fs, NEW i,
         Told(m, b, fs), Others(b, c, i), \A id \in Ids : id # i => w[id] = m[id],
         i \in Ids \ {0} /\ w[i] # Unknown => w[i] = Remaining(c, i) + DueOf(fs, i)
  PROVE  Told(w, c, fs)
BY DEF Told, Others

LEMMA HeardIs ==
  ASSUME mirror \in [Ids -> Int], NEW id \in Ids, NEW ok, NEW qty \in Int
  PROVE  /\ Heard(ok, id, qty) \in [Ids -> Int]
         /\ \A x \in Ids : x # id => Heard(ok, id, qty)[x] = mirror[x]
         /\ Heard(ok, id, qty)[id] \in {qty, Unknown}
BY DEF Heard, Unknown

\* submit_limit by the driver: at most one order joins the book and the list.
LEMMA SubmitOK ==
  ASSUME DriverInv, pc = "idle", CanPlace,
         NEW side \in Sides, NEW price \in Prices, NEW qty \in Qty, Submit(side, price, qty),
         UNCHANGED <<call, live, since, pc, first, fills>>
  PROVE  /\ BookOK' /\ ListsOK'
         /\ book.free = <<>> => book' = book
         /\ book.free # <<>> =>
              /\ book'.nextId = book.nextId + 1 /\ book.nextId \in Ids \ {0}
              /\ Remaining(book', book.nextId) = qty
              /\ Remaining(book, book.nextId) = 0
              /\ Others(book, book', book.nextId)
<1> DEFINE c == AddLimitOrder(book, side, price, qty)
<1>1. /\ book' = c /\ call' = call /\ since' = since /\ pc' = "idle" /\ first' = first
      /\ ours' = IF book.free = <<>> THEN ours ELSE Append(ours, book.nextId)
  BY DEF Submit
<1>2. /\ Plain(book) /\ call \in MarketCall /\ first \in Nat /\ since \in Nat
      /\ first <= book.nextId /\ Tracks(ours, book, first)
  BY DEF DriverInv, BookOK, ListsOK, DriverList
<1>3. book.nextId <= MaxId
  BY DEF CanPlace, CanIssue
<1>4. CASE book.free = <<>>
  <2>1. c = book
    BY <1>4 DEF AddLimitOrder
  <2> HIDE DEF c
  <2>2. book' = book /\ ours' = ours
    BY <1>1, <1>4, <2>1
  <2>3. BookOK' /\ ListsOK'
    BY <1>1, <1>2, <2>2 DEF BookOK, ListsOK, DriverList
  <2>4. QED
    BY <1>4, <2>2, <2>3
<1>5. CASE book.free # <<>>
  <2> DEFINE t == Append(ours, book.nextId)
  <2>1. /\ Plain(c) /\ c.nextId = book.nextId + 1 /\ book.nextId \in Ids \ {0}
        /\ Remaining(c, book.nextId) = qty /\ ~InBook(book, book.nextId)
        /\ Others(book, c, book.nextId)
    BY <1>2, <1>3, <1>5, AddEffect
  <2> HIDE DEF c
  <2>2. Tracks(t, c, first) /\ first <= c.nextId
    <3>1. book.nextId \in Int
      BY <2>1, MaxIdAssumption DEF Ids
    <3>2. first <= c.nextId
      BY <1>2, <2>1, <3>1
    <3>3. QED
      BY <1>2, <2>1, <3>2, TracksAdd
  <2>3. ours' = t
    BY <1>1, <1>5
  <2> HIDE DEF t
  <2>4. BookOK' /\ ListsOK'
    BY <1>1, <1>2, <2>1, <2>2, <2>3 DEF BookOK, ListsOK, DriverList
  <2>5. QED
    BY <1>1, <1>5, <2>1, <2>4 DEF Remaining
<1>6. QED
  BY <1>4, <1>5

LEMMA DriverLimitOK ==
  ASSUME DriverInv, NEW side \in Sides, NEW mag \in 1..Span, NEW ok \in BOOLEAN,
         DriverLimit(side, mag, ok)
  PROVE  DriverInv'
<1> DEFINE price == IF side = Buy THEN Mid - mag ELSE Mid + mag
           i == book.nextId
           w == Heard(ok, i, DefaultQty)
<1>1. /\ pc = "idle" /\ CanPlace /\ Submit(side, price, DefaultQty)
      /\ UNCHANGED <<call, live, since, pc, first, fills>>
      /\ mirror' = IF book.free = <<>> THEN mirror ELSE w
  BY DEF DriverLimit
<1>2. price \in Prices /\ DefaultQty \in Qty /\ DefaultQty \in Nat
  BY PricesUsed, QtyInNat
<1> HIDE DEF price
<1>3. /\ BookOK' /\ ListsOK'
      /\ book.free = <<>> => book' = book
      /\ book.free # <<>> =>
           /\ book'.nextId = i + 1 /\ i \in Ids \ {0}
           /\ Remaining(book', i) = DefaultQty
           /\ Others(book, book', i)
  BY <1>1, <1>2, SubmitOK
<1>4. FeedOK /\ fills = <<>>
  BY <1>1 DEF DriverInv, FeedOK
<1>5. CASE book.free = <<>>
  BY <1>1, <1>3, <1>4, <1>5 DEF FeedOK, DriverInv
<1>6. CASE book.free # <<>>
  <2>1. mirror' = w /\ i \in Ids /\ i \in Int
    BY <1>1, <1>3, <1>6, MaxIdAssumption DEF Ids
  <2>2. /\ w \in [Ids -> Int] /\ \A x \in Ids : x # i => w[x] = mirror[x]
        /\ w[i] \in {DefaultQty, Unknown}
    BY <1>2, <1>4, <2>1, HeardIs DEF FeedOK
  <2> HIDE DEF w
  <2>3. w[i] # Unknown => w[i] = Remaining(book', i) + DueOf(fills, i)
    BY <1>2, <1>3, <1>4, <1>6, <2>2, DueNone
  <2>4. Told(w, book', fills)
    BY <1>3, <1>4, <1>6, <2>2, <2>3, ToldElsewhere DEF FeedOK
  <2>5. \A x \in Ids : x >= book'.nextId => x # i /\ x >= i
    BY <1>3, <1>6, <2>1, MaxIdAssumption DEF Ids
  <2>6. \A x \in Ids : x >= book'.nextId => w[x] = Unknown
    BY <1>4, <2>2, <2>5 DEF FeedOK, i
  <2>7. FeedOK'
    BY <1>1, <1>4, <2>1, <2>2, <2>4, <2>6 DEF FeedOK
  <2>8. QED
    BY <1>3, <2>7 DEF DriverInv
<1>7. QED
  BY <1>5, <1>6

LEMMA CancelPlacesOK == ASSUME DriverInv, CancelPlacesLimit PROVE DriverInv'
<1> DEFINE i == book.nextId
<1>1. /\ pc = "idle" /\ CanPlace /\ Submit(Buy, Mid - 1, 1)
      /\ UNCHANGED <<call, live, since, pc, first, fills>> /\ mirror' = mirror
  BY DEF CancelPlacesLimit
<1>2. Mid - 1 \in Prices /\ 1 \in Qty /\ Buy \in Sides
  BY PricesUsed DEF Sides
<1>3. /\ BookOK' /\ ListsOK'
      /\ book.free = <<>> => book' = book
      /\ book.free # <<>> =>
           /\ book'.nextId = i + 1 /\ i \in Ids \ {0}
           /\ Others(book, book', i)
  BY <1>1, <1>2, SubmitOK
<1>4. FeedOK /\ fills = <<>>
  BY <1>1 DEF DriverInv, FeedOK
<1>5. CASE book.free = <<>>
  BY <1>1, <1>3, <1>4, <1>5 DEF FeedOK, DriverInv
<1>6. CASE book.free # <<>>
  <2>1. i \in Ids /\ i \in Int /\ i >= i
    BY <1>3, <1>6, MaxIdAssumption DEF Ids
  <2>2. mirror[i] = Unknown
    BY <1>4, <2>1 DEF FeedOK
  <2>3. Told(mirror, book', fills)
    BY <1>3, <1>4, <1>6, <2>2, ToldElsewhere DEF FeedOK
  <2>4. \A x \in Ids : x >= book'.nextId => x >= i
    BY <1>3, <1>6, <2>1, MaxIdAssumption DEF Ids
  <2>5. \A x \in Ids : x >= book'.nextId => mirror[x] = Unknown
    BY <1>4, <2>4 DEF FeedOK
  <2>6. FeedOK'
    BY <1>1, <1>4, <2>3, <2>5 DEF FeedOK
  <2>7. QED
    BY <1>3, <2>6 DEF DriverInv
<1>7. QED
  BY <1>5, <1>6

LEMMA DriverCancelOK ==
  ASSUME DriverInv, NEW i \in 1..Len(ours), NEW ok \in BOOLEAN, DriverCancel(i, ok)
  PROVE  DriverInv'
<1> DEFINE id == ours[i]
           c == CancelOrder(book, id)
           t == DrawId(ours, i)
           w == Heard(ok, id, 0)
<1>1. /\ pc = "idle" /\ ours' = t /\ book' = c
      /\ mirror' = IF InBook(book, id) THEN w ELSE mirror
      /\ call' = call /\ since' = since /\ pc' = "idle" /\ first' = first /\ fills' = fills
  BY DEF DriverCancel
<1>2. /\ Plain(book) /\ call \in MarketCall /\ first \in Nat /\ since \in Nat
      /\ first <= book.nextId /\ Tracks(ours, book, first)
  BY <1>1 DEF DriverInv, BookOK, ListsOK, DriverList
<1>3. id \in Ids /\ id \in Int /\ id < book.nextId /\ book.nextId \in Int
  BY <1>2, PlainId, MaxIdAssumption DEF Tracks, Issues, Ids
<1>4. FeedOK /\ fills = <<>>
  BY <1>1 DEF DriverInv, FeedOK
<1>5. /\ Plain(c) /\ c.nextId = book.nextId /\ Shrinks(book, c)
      /\ (~InBook(book, id) => c = book)
      /\ (InBook(book, id) => ~InBook(c, id) /\ Others(book, c, id))
  BY <1>2, <1>3, CancelEffect
<1> HIDE DEF c
<1>6. Tracks(t, c, first)
  BY <1>2, <1>5, TracksDraw
<1> HIDE DEF t
<1>7. BookOK' /\ ListsOK'
  BY <1>1, <1>2, <1>5, <1>6 DEF BookOK, ListsOK, DriverList
<1>8. FeedOK'
  <2>1. CASE ~InBook(book, id)
    BY <1>1, <1>4, <1>5, <2>1 DEF FeedOK
  <2>2. CASE InBook(book, id)
    <3>1. /\ w \in [Ids -> Int] /\ \A x \in Ids : x # id => w[x] = mirror[x]
          /\ w[id] \in {0, Unknown}
      BY <1>3, <1>4, HeardIs DEF FeedOK
    <3>2. mirror' = w
      BY <1>1, <2>2
    <3> HIDE DEF w
    <3>3. Remaining(c, id) = 0
      BY <1>5, <2>2 DEF Remaining
    <3> HIDE DEF id
    <3>4. w[id] # Unknown => w[id] = Remaining(c, id) + DueOf(fills, id)
      BY <1>4, <3>1, <3>3, DueNone
    <3>5. Told(w, c, fills)
      BY <1>4, <1>5, <2>2, <3>1, <3>4, ToldElsewhere DEF FeedOK
    <3>6. \A x \in Ids : x >= c.nextId => x # id
      BY <1>3, <1>5, MaxIdAssumption DEF Ids
    <3>7. \A x \in Ids : x >= c.nextId => w[x] = Unknown
      BY <1>4, <1>5, <3>1, <3>6 DEF FeedOK
    <3>8. QED
      BY <1>1, <1>4, <3>1, <3>2, <3>5, <3>7 DEF FeedOK
  <2>3. QED
    BY <2>1, <2>2
<1>9. QED
  BY <1>7, <1>8 DEF DriverInv
-----------------------------------------------------------------------------
(***************************************************************************)
(* A market order and its fills.                                           *)
(***************************************************************************)
LEMMA DriverMarketOK ==
  ASSUME DriverInv, NEW side \in Sides, NEW qty \in 1..MaxTake, DriverMarket(side, qty)
  PROVE  DriverInv'
<1>1. /\ pc = "idle" /\ pc' = "matching" /\ fills' = <<>> /\ book' = book
      /\ call' = [NoCall EXCEPT !.active = TRUE, !.side = side, !.left = qty]
      /\ since' = since /\ ours' = ours /\ first' = first /\ mirror' = mirror
  BY DEF DriverMarket, MarketBegin
<1>2. qty \in Qty
  BY PricesUsed
<1>3. call' \in MarketCall
  BY <1>1, <1>2 DEF MarketCall, NoCall
<1>4. BookOK'
  BY <1>1, <1>3 DEF DriverInv, BookOK
<1>5. ListsOK'
  BY <1>1 DEF DriverInv, ListsOK, DriverList
<1>6. FeedOK'
  <2>1. FeedOK /\ fills = <<>>
    BY <1>1 DEF DriverInv, FeedOK
  <2>2. QED
    BY <1>1, <2>1 DEF FeedOK
<1>7. QED
  BY <1>4, <1>5, <1>6 DEF DriverInv

\* The fill that is taken down is what leaves the book.
LEMMA ToldFilled ==
  ASSUME NEW m \in [Ids -> Int], NEW b, NEW c, NEW fs \in Seq(Fills), NEW f \in Fills,
         f.id # 0, Told(m, b, fs), Others(b, c, f.id),
         Remaining(b, f.id) = Remaining(c, f.id) + f.qty, Remaining(c, f.id) \in Nat
  PROVE  Told(m, c, Append(fs, f))
<1> SUFFICES ASSUME NEW id \in Ids \ {0}, m[id] # Unknown
             PROVE  m[id] = Remaining(c, id) + DueOf(Append(fs, f), id)
  BY DEF Told
<1>1. m[id] = Remaining(b, id) + DueOf(fs, id)
  BY DEF Told
<1>2. /\ DueOf(Append(fs, f), id) = DueOf(fs, id) + (IF f.id = id THEN f.qty ELSE 0)
      /\ DueOf(fs, id) \in Nat /\ f.qty \in Nat
  BY DueAppend, DueNat DEF Fills
<1>3. CASE id = f.id
  BY <1>1, <1>2, <1>3
<1>4. CASE id # f.id
  <2>1. Remaining(c, id) = Remaining(b, id)
    BY <1>4 DEF Others
  <2>2. DueOf(Append(fs, f), id) = DueOf(fs, id)
    BY <1>2, <1>4
  <2>3. QED
    BY <1>1, <2>1, <2>2
<1>5. QED
  BY <1>3, <1>4

LEMMA DriverMatchOK == ASSUME DriverInv, DriverMatch PROVE DriverInv'
<1> DEFINE side == Opposite(call.side)
           k == BestKey(book, side)
           c == MarketIteration(book, k, call.left)
           amt == MarketTake(book, k, call.left)
           o == book.level[k].head
           i == book.order[o].id
           f == [id |-> i, qty |-> amt]
<1>1. /\ pc = "matching" /\ pc' = "matching" /\ ~SideEmpty(book, side) /\ book' = c
      /\ call' = IF o = Null THEN call
                 ELSE [call EXCEPT !.left = @ - amt, !.traded = TRUE, !.last = k[2]]
      /\ fills' = Append(fills, f)
      /\ since' = since /\ ours' = ours /\ first' = first /\ mirror' = mirror
  BY DEF DriverMatch, MarketStep, FillOf
<1>2. Plain(book) /\ call \in MarketCall /\ BookInv(book)
  BY DEF DriverInv, BookOK, Plain
<1>3. side \in Sides /\ call.left \in Qty
  BY <1>2 DEF MarketCall, Opposite, Sides
<1>4. /\ Plain(c) /\ Shrinks(book, c) /\ call.left - amt \in Qty /\ amt \in Nat
      /\ o # Null /\ i \in Ids \ {0}
      /\ Remaining(book, i) = Remaining(c, i) + amt /\ Remaining(c, i) \in Nat
      /\ Others(book, c, i)
  BY <1>1, <1>2, <1>3, MatchEffect
<1>5. k[2] \in Prices \cup {NoPrice}
  <2>1. k \in LevelKeys(book.ladder)
    BY <1>1, <1>2, <1>3, BestExists
  <2>2. QED
    BY <2>1 DEF LevelKeys, Keys
<1>6. c.nextId = book.nextId
  BY <1>4 DEF Shrinks
<1>7. f \in Fills /\ f.id = i /\ f.qty = amt
  BY <1>4 DEF Fills
<1> HIDE DEF side, c, amt, o, i, k, f
<1>8. BookOK'
  <2>1. call' \in MarketCall
    BY <1>1, <1>2, <1>4, <1>5 DEF MarketCall
  <2>2. QED
    BY <1>1, <1>4, <2>1 DEF BookOK
<1>9. ListsOK'
  <2>1. first \in Nat /\ since \in Nat /\ first <= book.nextId /\ Tracks(ours, book, first)
    BY <1>1 DEF DriverInv, ListsOK, DriverList
  <2>2. Tracks(ours, c, first)
    BY <1>4, <2>1, TracksShrink
  <2>3. QED
    BY <1>1, <1>6, <2>1, <2>2 DEF ListsOK, DriverList
<1>10. FeedOK'
  <2>1. FeedOK
    BY DEF DriverInv
  <2>2. Told(mirror, c, fills')
    BY <1>1, <1>4, <1>7, <2>1, ToldFilled DEF FeedOK
  <2>3. fills' \in Seq(Fills)
    BY <1>1, <1>7, <2>1 DEF FeedOK
  <2>4. QED
    BY <1>1, <1>6, <2>1, <2>2, <2>3 DEF FeedOK
<1>11. QED
  BY <1>8, <1>9, <1>10 DEF DriverInv

LEMMA DriverMatchedOK == ASSUME DriverInv, DriverMatched PROVE DriverInv'
<1>1. /\ pc = "matching" /\ pc' = "publishing" /\ book' = book /\ call' = NoCall
      /\ since' = since /\ ours' = ours /\ first' = first /\ mirror' = mirror /\ fills' = fills
  BY DEF DriverMatched, MarketReturn
<1>2. call' \in MarketCall
  BY <1>1, QtyInNat DEF NoCall, MarketCall, Sides
<1>3. BookOK'
  BY <1>1, <1>2 DEF DriverInv, BookOK
<1>4. ListsOK'
  BY <1>1 DEF DriverInv, ListsOK, DriverList
<1>5. FeedOK'
  BY <1>1 DEF DriverInv, FeedOK
<1>6. QED
  BY <1>3, <1>4, <1>5 DEF DriverInv

\* Publishing a fill takes it from what is due and, unless the listener is or
\* becomes ignorant of the order, from what it believes.
LEMMA PublishFillOK ==
  ASSUME DriverInv, NEW ok \in BOOLEAN, PublishFill(ok)
  PROVE  DriverInv'
<1> DEFINE f == Head(fills)
           t == Tail(fills)
           w == Heard(ok, f.id, mirror[f.id] - f.qty)
<1>1. /\ pc = "publishing" /\ fills # <<>> /\ fills' = t /\ book' = book /\ call' = call
      /\ since' = since /\ pc' = "publishing" /\ ours' = ours /\ first' = first
      /\ mirror' = IF mirror[f.id] = Unknown THEN mirror ELSE w
  BY DEF PublishFill, simVars
<1>2. FeedOK
  BY DEF DriverInv
<1>3. /\ f \in Fills /\ t \in Seq(Fills)
      /\ \A id : DueOf(fills, id) = DueOf(t, id) + (IF f.id = id THEN f.qty ELSE 0)
      /\ \A id : DueOf(t, id) \in Nat
  BY <1>1, <1>2, DueTail, DueNat DEF FeedOK
<1>4. f.id \in Ids /\ f.qty \in Nat /\ mirror[f.id] \in Int /\ mirror \in [Ids -> Int]
  BY <1>2, <1>3 DEF Fills, FeedOK
<1> HIDE DEF f, t
<1>5. BookOK' /\ ListsOK'
  BY <1>1 DEF DriverInv, BookOK, ListsOK, DriverList
<1>6. \A id \in Ids \ {0} : id # f.id /\ mirror[id] # Unknown =>
        mirror[id] = Remaining(book, id) + DueOf(t, id)
  BY <1>2, <1>3 DEF FeedOK, Told
<1>7. CASE mirror[f.id] = Unknown
  <2>1. Told(mirror, book, t)
    BY <1>6, <1>7 DEF Told
  <2>2. FeedOK'
    BY <1>1, <1>2, <1>3, <1>7, <2>1 DEF FeedOK
  <2>3. QED
    BY <1>5, <2>2 DEF DriverInv
<1>8. CASE mirror[f.id] # Unknown
  <2> DEFINE left == mirror[f.id] - f.qty
  <2>1. left \in Int
    BY <1>4
  <2> HIDE DEF left
  <2>2. /\ w \in [Ids -> Int] /\ \A x \in Ids : x # f.id => w[x] = mirror[x]
        /\ w[f.id] \in {left, Unknown}
    BY <1>4, <2>1, HeardIs DEF left
  <2>3. mirror' = w
    BY <1>1, <1>8
  <2> HIDE DEF w
  <2>4. ASSUME f.id # 0, w[f.id] # Unknown
        PROVE  w[f.id] = Remaining(book, f.id) + DueOf(t, f.id)
    <3>1. mirror[f.id] = Remaining(book, f.id) + DueOf(fills, f.id)
      BY <1>2, <1>4, <1>8, <2>4 DEF FeedOK, Told
    <3>2. DueOf(fills, f.id) = DueOf(t, f.id) + f.qty /\ DueOf(t, f.id) \in Nat
      BY <1>3
    <3>3. Remaining(book, f.id) \in Nat
      <4>1. Plain(book)
        BY DEF DriverInv, BookOK
      <4>2. QED
        BY <1>4, <4>1, RemainingNat
    <3>4. left = Remaining(book, f.id) + DueOf(t, f.id)
      BY <1>4, <3>1, <3>2, <3>3 DEF left
    <3>5. QED
      BY <2>2, <2>4, <3>4
  <2>5. Told(w, book, t)
    BY <1>6, <2>2, <2>4 DEF Told
  <2>6. \A x \in Ids : x >= book.nextId => w[x] = Unknown
    BY <1>2, <1>8, <2>2 DEF FeedOK
  <2>7. FeedOK'
    BY <1>1, <1>2, <1>3, <2>2, <2>3, <2>5, <2>6 DEF FeedOK
  <2>8. QED
    BY <1>5, <2>7 DEF DriverInv
<1>9. QED
  BY <1>7, <1>8

LEMMA PublishInsideOK == ASSUME DriverInv, PublishInside PROVE DriverInv'
<1>1. /\ pc = "publishing" /\ fills = <<>> /\ pc' = "idle" /\ book' = book /\ call' = call
      /\ since' = since /\ ours' = ours /\ first' = first /\ mirror' = mirror /\ fills' = fills
  BY DEF PublishInside, simVars
<1>2. BookOK'
  BY <1>1 DEF DriverInv, BookOK
<1>3. ListsOK'
  BY <1>1 DEF DriverInv, ListsOK, DriverList
<1>4. FeedOK'
  BY <1>1 DEF DriverInv, FeedOK
<1>5. QED
  BY <1>2, <1>3, <1>4 DEF DriverInv

LEMMA DriverPreserved == DriverInv /\ [DriverNext]_runVars => DriverInv'
<1> SUFFICES ASSUME DriverInv, [DriverNext]_runVars PROVE DriverInv'
  OBVIOUS
<1>1. CASE Warmup
  BY <1>1, WarmupOK
<1>2. CASE WarmupEnd
  BY <1>2, WarmupEndOK
<1>3. CASE \E side \in Sides, mag \in 1..Span, ok \in BOOLEAN : DriverLimit(side, mag, ok)
  BY <1>3, DriverLimitOK
<1>4. CASE CancelPlacesLimit
  BY <1>4, CancelPlacesOK
<1>5. CASE \E i \in 1..Len(ours), ok \in BOOLEAN : DriverCancel(i, ok)
  BY <1>5, DriverCancelOK
<1>6. CASE \E side \in Sides, qty \in 1..MaxTake : DriverMarket(side, qty)
  BY <1>6, DriverMarketOK
<1>7. CASE DriverMatch
  BY <1>7, DriverMatchOK
<1>8. CASE DriverMatched
  BY <1>8, DriverMatchedOK
<1>9. CASE \E ok \in BOOLEAN : PublishFill(ok)
  BY <1>9, PublishFillOK
<1>10. CASE PublishInside
  BY <1>10, PublishInsideOK
<1>11. CASE UNCHANGED runVars
  BY <1>11, ListsSame DEF runVars, simVars, driverVars
<1>12. QED
  BY <1>1, <1>2, <1>3, <1>4, <1>5, <1>6, <1>7, <1>8, <1>9, <1>10, <1>11 DEF DriverNext

LEMMA DriverInvariant == DriverSpec => []DriverInv
<1>1. DriverInit => DriverInv
  BY InitOK
<1>2. QED
  BY <1>1, DriverPreserved, PTL DEF DriverSpec

-----------------------------------------------------------------------------
\* The simulator's list (live_) names every order of the book exactly once, stays
\* within its cap and is free of stale ids after a compaction; run_pipeline's list
\* (live) names every order the driver placed exactly once.
THEOREM ListsCoverBook == DriverSpec => []LiveCoversBook
<1>1. DriverInv => LiveCoversBook
  <2> SUFFICES ASSUME DriverInv PROVE LiveCoversBook
    OBVIOUS
  <2>1. CASE pc = "warmup"
    <3>1. SimList
      BY <2>1 DEF DriverInv, ListsOK
    <3>2. Covers(live, 1)
      BY <3>1, TracksCovers DEF SimList
    <3>3. QED
      BY <2>1, <3>1, <3>2 DEF LiveCoversBook, SimList
  <2>2. CASE pc # "warmup"
    <3>1. DriverList
      BY <2>2 DEF DriverInv, ListsOK
    <3>2. Covers(ours, first)
      BY <3>1, TracksCovers DEF DriverList
    <3>3. QED
      BY <2>2, <3>2 DEF LiveCoversBook
  <2>3. QED
    BY <2>1, <2>2
<1>2. QED
  BY <1>1, DriverInvariant, PTL

\* What a listener of try_publish_* made of an order's events, as long as it missed
\* none of them, is the quantity that rests in the book and the fills that are
\* still to be published.
THEOREM ListenerKnows == DriverSpec => []ListenerAgrees
<1>1. DriverInv => ListenerAgrees
  <2> SUFFICES ASSUME DriverInv, NEW id \in Ids \ {0}, mirror[id] # Unknown
               PROVE  mirror[id] = Remaining(book, id) + Due(id)
    BY DEF ListenerAgrees
  <2>1. FeedOK
    BY DEF DriverInv
  <2>2. Due(id) = DueOf(fills, id)
    BY <2>1, DueIs DEF FeedOK, DueSummed
  <2>3. mirror[id] = Remaining(book, id) + DueOf(fills, id)
    BY <2>1 DEF FeedOK, Told
  <2>4. QED
    BY <2>2, <2>3
<1>2. QED
  BY <1>1, DriverInvariant, PTL
=============================================================================
