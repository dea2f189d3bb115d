----------------------------- MODULE Simulator ------------------------------
(***************************************************************************)
(* lob::OrderFlowSimulator: step() draws a limit order, a market order or  *)
(* a cancel and applies it to the book, which nobody else changes.  live_  *)
(* holds the ids it believes to be in the book: market orders leave stale  *)
(* ids behind, which cancels run into and compact_live removes.            *)
(***************************************************************************)
EXTENDS OrderBook

CONSTANTS
  Mid, Span,     \* cfg_.mid and tick_span
  DefaultQty,    \* cfg_.default_qty
  MaxTake,       \* the largest market order (4 in the code)
  Cap,           \* target_depth_per_side * 2 + 64
  Attempts,      \* the draws of a cancel (8 in the code)
  CompactEvery   \* the steps between two compactions (4096 in the code)

ASSUME SimAssumption ==
  /\ (Mid - Span)..(Mid + Span) \subseteq Prices
  /\ Cap \in Nat \ {0} /\ Attempts \in Nat \ {0} /\ CompactEvery \in Nat \ {0}
\* do_limit takes a span of at least one tick.
ASSUME SpanAssumption == Mid \in Int /\ Span \in Nat \ {0}
ASSUME SimQtyAssumption == {1, DefaultQty} \cup 1..MaxTake \subseteq Qty

VARIABLES
  live,   \* live_
  since,  \* steps_since_compact_
  sim     \* step(): its pc, do_cancel's attempt, and what the last step returned

simVars == <<book, call, live, since, sim>>

SimInit ==
  /\ Init
  /\ live = <<>> /\ since = 0
  /\ sim = [pc |-> "idle", attempt |-> 0, ok |-> TRUE]

-----------------------------------------------------------------------------
InBook(b, id) == FindId(b, id) # Null

\* compact_live
Compacted(b, ids) ==
  LET kept[n \in 0..Len(ids)] ==
        IF n = 0 THEN <<>>
        ELSE IF InBook(b, ids[n]) THEN Append(kept[n - 1], ids[n]) ELSE kept[n - 1]
  IN kept[Len(ids)]

\* The end of step() with result ok, and ids the new content of live_.
\* applied_, which counts the steps that return true and is only reported, is
\* left out.
StepEnd(ok, b, ids) ==
  /\ sim' = [pc |-> "idle", attempt |-> 0, ok |-> ok]
  /\ book' = b
  /\ IF since + 1 >= CompactEvery
     THEN /\ live' = Compacted(b, ids)
          /\ since' = 0
     ELSE live' = ids /\ since' = since + 1
  /\ UNCHANGED call

\* do_limit below the cap; a failed add returns id 0.
PlaceLimit(side, mag) ==
  LET price == IF side = Buy THEN Mid - mag ELSE Mid + mag
      b     == AddLimitOrder(book, side, price, DefaultQty)
  IN IF book.free = <<>> THEN StepEnd(FALSE, b, live)
     ELSE StepEnd(TRUE, b, Append(live, book.nextId))

\* do_limit, drawn or because a cancel found live_ empty.
StepLimit(side, mag) ==
  /\ sim.pc = "idle" /\ CanIssue
  /\ Len(live) < Cap
  /\ PlaceLimit(side, mag)

StepMarket(side, qty) ==
  /\ sim.pc = "idle"
  /\ StepEnd(TRUE, MarketOrder(book, side, qty), live)

\* do_cancel, drawn or because a limit found live_ at the cap.
StepCancel ==
  /\ sim.pc = "idle" /\ live # <<>>
  /\ sim' = [sim EXCEPT !.pc = "cancel"]
  /\ UNCHANGED <<book, call, live, since>>

\* One draw: the id at i leaves the list, the last one takes its place.
DrawIdMut_PopOnly(ids, i) == SubSeq(ids, 1, Len(ids) - 1)
DrawId(ids, i) == SubSeq([ids EXCEPT ![i] = ids[Len(ids)]], 1, Len(ids) - 1)

CancelDraw(i) ==
  /\ sim.pc = "cancel" /\ live # <<>>
  /\ IF InBook(book, live[i])
     THEN StepEnd(TRUE, CancelOrder(book, live[i]), DrawId(live, i))
     ELSE IF sim.attempt + 1 = Attempts THEN StepEnd(FALSE, book, DrawId(live, i))
     ELSE /\ sim' = [sim EXCEPT !.attempt = @ + 1]
          /\ live' = DrawId(live, i)
          /\ UNCHANGED <<book, call, since>>

\* The loop goes on with live_ empty: rng_() % live_.size() divides by zero, and
\* the process dies.
DivideByZero ==
  /\ sim.pc = "cancel" /\ live = <<>>
  /\ sim' = [sim EXCEPT !.pc = "dead"]
  /\ UNCHANGED <<book, call, live, since>>

SimNext ==
  \/ \E side \in Sides, mag \in 1..Span : StepLimit(side, mag)
  \/ \E side \in Sides, qty \in 1..MaxTake : StepMarket(side, qty)
  \/ StepCancel
  \/ \E i \in 1..Len(live) : CancelDraw(i)
  \/ DivideByZero

SimSpec == SimInit /\ [][SimNext]_simVars

-----------------------------------------------------------------------------
\* Every order of the book from id first on is in ids, and nothing is there twice.
Covers(ids, first) ==
  \A id \in Ids \ {0} :
    LET n == Cardinality({i \in 1..Len(ids) : ids[i] = id}) IN
    n <= 1 /\ (id >= first /\ InBook(book, id) => n = 1)

\* simulator.hpp, step: "Draw one event from the intensity mix and apply it.
\* Returns false only if the draw was a no-op".  It always returns.
StepReturns == sim.pc # "dead"
=============================================================================
