------------------------------ MODULE ProRata -------------------------------
(***************************************************************************)
(* lob::ProRataPolicy: a market order is shared among the orders of the    *)
(* best opposite level in proportion to their visible sizes.  The units    *)
(* that rounding down leaves over go one each to the orders with the       *)
(* largest remainders; an allocation below min_fill is dropped.  A list of *)
(* orders is a sequence of slots, as get_level_orders returns it, and an   *)
(* allocation assigns a size to each position of the list.                 *)
(***************************************************************************)
EXTENDS OrderBook

Positions(list) == 1..Len(list)
SumOver(f, S) == MapThenSumSet(LAMBDA i : f[i], S)

\* total, a sum of uint64_t sizes.
Available(b, list) ==
  SumOver([i \in Positions(list) |-> b.order[list[i]].rem], Positions(list)) % QtyMod

\* osz * qty, a product of two uint64_t values.
Product(b, list, i, qty) == (b.order[list[i]].rem * qty) % QtyMod

Floors(b, list, qty) ==
  [i \in Positions(list) |-> Product(b, list, i, qty) \div Available(b, list)]
Remainders(b, list, qty) ==
  [i \in Positions(list) |-> Product(b, list, i, qty) % Available(b, list)]

Leftover(b, list, qty) ==
  LET sum == SumOver(Floors(b, list, qty), Positions(list)) IN
  IF qty > sum THEN qty - sum ELSE 0

\* The place of position i, from 0, in idx: larger remainders first, smaller
\* ids first among equal ones.
PlaceMut_Fifo(b, list, qty, i) == i - 1

Place(b, list, qty, i) ==
  LET rem   == Remainders(b, list, qty)
      id(j) == b.order[list[j]].id
  IN Cardinality({j \in Positions(list) :
                    \/ rem[j] > rem[i]
                    \/ rem[j] = rem[i] /\ id(j) < id(i)})

AllocationMut_NoLeftover(b, list, qty, minFill) ==
  [i \in Positions(list) |->
     LET a == Floors(b, list, qty)[i] IN IF a < minFill THEN 0 ELSE a]

Allocation(b, list, qty, minFill) ==
  [i \in Positions(list) |->
     LET a == Floors(b, list, qty)[i]
              + (IF Place(b, list, qty, i) < Leftover(b, list, qty) THEN 1 ELSE 0)
     IN IF a < minFill THEN 0 ELSE a]

\* The fills, in the order of the list.  The pointers of the list are still good
\* when they are used: a fill frees its own order only.
Distribute(b, list, alloc) ==
  LET after[n \in 0..Len(list)] ==
        IF n = 0 THEN b
        ELSE LET c == after[n - 1] IN
             IF alloc[n] = 0 THEN c ELSE ApplyFill(c, c.order[list[n]].id, alloc[n])
  IN after[Len(list)]

\* match: the book it leaves, whether there were fills, and their price.
ProRataMatch(b, side, qty, minFill) ==
  LET k       == BestKey(b, Opposite(side))
      list    == GetLevelOrders(b, k)
      alloc   == Allocation(b, list, qty, minFill)
      noFills == [book |-> b, traded |-> FALSE, last |-> NoPrice]
  IN IF SideEmpty(b, Opposite(side)) THEN noFills
     ELSE IF list = <<>> \/ Available(b, list) = 0 THEN noFills
     ELSE [book   |-> Distribute(b, list, alloc),
           traded |-> \E i \in Positions(list) : MinOf(alloc[i], b.order[list[i]].rem) > 0,
           last   |-> k[2]]

-----------------------------------------------------------------------------
(***************************************************************************)
(* What a match owes to the orders of the level, from the book before it   *)
(* to the book after it.                                                   *)
(***************************************************************************)

\* What order s of book b has sold when the book is c.
Sold(b, c, s) ==
  b.order[s].rem + b.order[s].hid
    - IF s \in Live(c) /\ c.order[s].id = b.order[s].id
      THEN c.order[s].rem + c.order[s].hid ELSE 0

Visible(b, S) == SumRem(b, S)

\* No product of the proportional split passes the width of uint64_t.
NoOverflow(b, S, qty) == \A s \in S : b.order[s].rem * qty < QtyMod

\* The fills never exceed the market order, whatever overflows.  Without an
\* overflow they fall short of the smaller of the order and the level by less
\* than min_fill for each resting order: by nothing when min_fill is 1.
SplitConserves(b, c, S, qty, minFill) ==
  LET sold == MapThenSumSet(LAMBDA s : Sold(b, c, s), S) IN
  /\ sold <= qty
  /\ NoOverflow(b, S, qty) =>
       sold >= MinOf(qty, Visible(b, S)) - Cardinality(S) * (minFill - 1)

\* Nobody gets a whole unit more than the exact share, nor a whole unit less
\* unless the share is below min_fill, and a larger order never gets less than
\* a smaller one.
SplitFair(b, c, S, qty, minFill) ==
  LET share(s) == b.order[s].rem * MinOf(qty, Visible(b, S))
      sold(s)  == Sold(b, c, s)
  IN \A s \in S :
       /\ sold(s) > 0 => sold(s) * Visible(b, S) < share(s) + Visible(b, S)
       /\ \/ sold(s) * Visible(b, S) > share(s) - Visible(b, S)
          \/ sold(s) = 0 /\ share(s) < minFill * Visible(b, S)
       /\ \A t \in S : b.order[s].rem > b.order[t].rem => sold(s) >= sold(t)
=============================================================================
