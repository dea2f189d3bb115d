------------------------------ MODULE BookData ------------------------------
(***************************************************************************)
(* The data structures under lob::OrderBook, as a value `b' and the        *)
(* operators that return the updated value:                                *)
(*   - the OrderPool: a slab of Capacity slots and a LIFO freelist;        *)
(*   - the dense id table id_slots_ and next_order_id_;                    *)
(*   - the PriceLevels: intrusive doubly linked lists threaded through the *)
(*     prev/next fields of the pool's slots, with a counter and a visible  *)
(*     aggregate each;                                                     *)
(*   - the two PriceLadders: a sorted vector of prices for each side, with *)
(*     the level of each price kept apart, under the key <<side, price>>;  *)
(*   - pending_stop_storage_.                                              *)
(* A pointer Order* is a slot number; Null is nullptr.  The links of an    *)
(* order are kept in the functions prev and next, its other fields in      *)
(* order.                                                                  *)
(*                                                                         *)
(* The fields arr and clock are auxiliary: clock counts push_backs and     *)
(* arr[s] is the count at which slot s last joined a level.  No operator's *)
(* other fields depend on them; they let the properties speak of time      *)
(* priority.                                                               *)
(***************************************************************************)
EXTENDS Integers, Sequences, FiniteSets

Seqs == INSTANCE SequencesExt

CONSTANTS
  Capacity,  \* OrderPool capacity_ (AllocMode::Pool)
  MaxId,     \* bound: ids 1..MaxId are handed out, then clients stop adding
  Prices,    \* the limit prices clients use, in ticks (price_t)
  QtyMod     \* qty_t arithmetic is modulo QtyMod (2^64 in the code)

ASSUME CapacityAssumption == Capacity \in Nat
ASSUME MaxIdAssumption == MaxId \in Nat
ASSUME PricesAssumption == Prices \subseteq Int
ASSUME QtyModAssumption == QtyMod \in Nat \ {0}

Buy == "Buy"
Sell == "Sell"
Sides == {Buy, Sell}
Opposite(side) == IF side = Buy THEN Sell ELSE Buy

NoStop == "None"
StopMarket == "StopMarket"
StopLimit == "StopLimit"
StopTypes == {NoStop, StopMarket, StopLimit}

Slots == 1..Capacity
Null == 0
Ids == 0..MaxId     \* 0 is what a failed add returns; it is never issued
NoPrice == 0        \* the zero of a price_t field that is not used
Keys == Sides \X (Prices \cup {NoPrice})
Qty == 0..(QtyMod - 1)

\* The fields of struct Order that the book reads or writes.
Order == [id : Ids, side : Sides, price : Prices \cup {NoPrice}, qty : Qty,
          rem : Qty, disp : Qty, hid : Qty, stype : StopTypes,
          stop : Prices \cup {NoPrice}]

\* What memset(o, 0, sizeof(Order)) leaves.
BlankOrder == [id |-> 0, side |-> Buy, price |-> NoPrice, qty |-> 0,
               rem |-> 0, disp |-> 0, hid |-> 0, stype |-> NoStop, stop |-> NoPrice]

Level == [head : Slots \cup {Null}, tail : Slots \cup {Null},
          cnt : Nat, agg : Qty]

\* PriceLevel{}
EmptyLevel == [head |-> Null, tail |-> Null, cnt |-> 0, agg |-> 0]

\* OrderBook(Capacity, AllocMode::Pool)
NewBook ==
  [order   |-> [s \in Slots |-> BlankOrder],
   prev    |-> [s \in Slots |-> Null],
   next    |-> [s \in Slots |-> Null],
   free    |-> [i \in 1..Capacity |-> i],
   ids     |-> [i \in Ids |-> Null],
   nextId  |-> 1,
   ladder  |-> [side \in Sides |-> <<>>],
   level   |-> [k \in Keys |-> EmptyLevel],
   pending |-> <<>>,
   arr     |-> [s \in Slots |-> 0],
   clock   |-> 1]

-----------------------------------------------------------------------------
(***************************************************************************)
(* OrderPool.  allocate pops the most recently freed slot and zeroes it;   *)
(* deallocate pushes the slot back without looking at it.                  *)
(***************************************************************************)
FreshSlot(b) == b.free[Len(b.free)]

Allocate(b) ==
  LET o == FreshSlot(b) IN
  [b EXCEPT !.free = SubSeq(@, 1, Len(@) - 1),
            !.order[o] = BlankOrder,
            !.prev[o] = Null,
            !.next[o] = Null]

Deallocate(b, o) == [b EXCEPT !.free = Append(@, o)]

\* The id table.
FindId(b, id) == b.ids[id]
PutId(b, o) == [b EXCEPT !.ids[b.order[o].id] = o]
DropIdMut_Keep(b, id) == b
DropId(b, id) == [b EXCEPT !.ids[id] = Null]

-----------------------------------------------------------------------------
(***************************************************************************)
(* PriceLevel: the methods of the level at key k on the order in slot o.   *)
(***************************************************************************)
PushBack(b, k, o) ==
  LET L == b.level[k] IN
  [b EXCEPT
     !.next = [s \in Slots |-> IF s = L.tail THEN o
                               ELSE IF s = o THEN Null ELSE @[s]],
     !.prev[o] = L.tail,
     !.level[k] = [head |-> IF L.head = Null THEN o ELSE L.head,
                   tail |-> o,
                   cnt  |-> L.cnt + 1,
                   agg  |-> (L.agg + b.order[o].rem) % QtyMod],
     !.arr[o] = b.clock,
     !.clock = @ + 1]

RemoveMut_NoPrev(b, k, o) ==
  LET L == b.level[k]
      p == b.prev[o]
      n == b.next[o]
  IN [b EXCEPT
        !.next = [s \in Slots |-> IF s = o THEN Null
                                  ELSE IF s = p THEN n ELSE @[s]],
        !.prev[o] = Null,
        !.level[k] = [head |-> IF p = Null THEN n ELSE L.head,
                      tail |-> IF n = Null THEN p ELSE L.tail,
                      cnt  |-> L.cnt - 1,
                      agg  |-> (L.agg - b.order[o].rem) % QtyMod]]

Remove(b, k, o) ==
  LET L == b.level[k]
      p == b.prev[o]
      n == b.next[o]
  IN [b EXCEPT
        !.next = [s \in Slots |-> IF s = o THEN Null
                                  ELSE IF s = p THEN n ELSE @[s]],
        !.prev = [s \in Slots |-> IF s = o THEN Null
                                  ELSE IF s = n THEN p ELSE @[s]],
        !.level[k] = [head |-> IF p = Null THEN n ELSE L.head,
                      tail |-> IF n = Null THEN p ELSE L.tail,
                      cnt  |-> L.cnt - 1,
                      agg  |-> (L.agg - b.order[o].rem) % QtyMod]]

DecreaseAggregate(b, k, amt) ==
  [b EXCEPT !.level[k].agg = IF amt > @ THEN 0 ELSE @ - amt]

AdjustAggregate(b, k, delta) ==
  [b EXCEPT !.level[k].agg = IF delta >= 0 THEN (@ + delta) % QtyMod
                             ELSE IF -delta > @ THEN 0 ELSE @ + delta]

-----------------------------------------------------------------------------
(***************************************************************************)
(* PriceLadder: b.ladder[side] is the vector v_ of the prices that have a  *)
(* level.  Every look-up starts from std::lower_bound: the first position  *)
(* whose price does not come before px in the order cmp_ of the side.  The *)
(* level of an absent price is EmptyLevel.                                 *)
(***************************************************************************)
Better(side, p, q) == IF side = Buy THEN p > q ELSE p < q

LowerBound(side, v, px) ==
  CHOOSE i \in 1..(Len(v) + 1) :
    /\ i <= Len(v) => ~Better(side, v[i], px)
    /\ \A j \in 1..(i - 1) : Better(side, v[j], px)

PlaceOf(b, k) == LowerBound(k[1], b.ladder[k[1]], k[2])

\* find(px) # end(): px is at the position that lower_bound gives.
HasLevel(b, k) ==
  \E i \in 1..Len(b.ladder[k[1]]) : b.ladder[k[1]][i] = k[2] /\ i = PlaceOf(b, k)

FindOrEmplaceMut_PushBack(b, k) ==
  IF HasLevel(b, k) THEN b
  ELSE [b EXCEPT !.ladder[k[1]] = Append(@, k[2]), !.level[k] = EmptyLevel]

FindOrEmplace(b, k) ==
  IF HasLevel(b, k) THEN b
  ELSE [b EXCEPT !.ladder[k[1]] = Seqs!InsertAt(@, LowerBound(k[1], @, k[2]), k[2]),
                 !.level[k] = EmptyLevel]

EraseLevel(b, k) ==
  IF ~HasLevel(b, k) THEN b
  ELSE [b EXCEPT !.ladder[k[1]] = Seqs!RemoveAt(@, LowerBound(k[1], @, k[2])),
                 !.level[k] = EmptyLevel]

\* The key of *begin().
BestKey(b, side) == <<side, b.ladder[side][1]>>
SideEmpty(b, side) == b.ladder[side] = <<>>

-----------------------------------------------------------------------------
(***************************************************************************)
(* What the pointers of a book value denote.                               *)
(***************************************************************************)
KeyOf(b, s) == <<b.order[s].side, b.order[s].price>>
LevelKeys(ladder) ==
  {k \in Keys : \E i \in 1..Len(ladder[k[1]]) : ladder[k[1]][i] = k[2]}
Live(b) == {s \in Slots : b.ids[b.order[s].id] = s}
FreeSlots(b) == {b.free[i] : i \in 1..Len(b.free)}

\* The orders that should be in the list of level k, those that should be on
\* a side of the book, and the pending stops.
Resting(b, k) == {s \in Live(b) : b.order[s].stype = NoStop /\ KeyOf(b, s) = k}
RestingOn(b, side) ==
  {s \in Live(b) : b.order[s].stype = NoStop /\ b.order[s].side = side}
Stops(b) == {s \in Live(b) : b.order[s].stype # NoStop}
=============================================================================
