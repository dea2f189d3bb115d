---------------------------- MODULE ShardedBooks ----------------------------
(***************************************************************************)
(* lob::ShardedBooks: one book, one mutex and one counter per shard.  A    *)
(* producer that submits a command takes the mutex of the shard of the     *)
(* command's instrument and applies the command; an observer asks for      *)
(* quotes, under the mutex, and for applied(), without it.                 *)
(***************************************************************************)
EXTENDS Pipeline

CONSTANTS
  ShardCount,  \* shards_.size()
  MaxAsks      \* bound: calls of the observer

ASSUME ShardCountAssumption ==
  ShardCount \in Nat \ {0} /\ \A c \in Cmds : c.instrument \in Nat

VARIABLES
  shards,   \* per shard: book, mu (its holder), applied
  workers,  \* per producer: pc, the commands it has submitted, the command under
            \* way and market_order's to_fill
  asker,    \* the observer: pc, shard it is at, result so far, calls made
  log       \* auxiliary: per shard, the commands in the order the mutex was taken

shardVars == <<shards, workers, asker, log>>

ShardIds == 0..(ShardCount - 1)
ShardOf(c) == c.instrument % ShardCount
Nobody == "nobody"
Observer == "observer"
AnyCmd == CHOOSE c \in Cmds : TRUE
NoAnswer == [bid |-> NoTop, ask |-> NoTop]

ASSUME HoldersAssumption == {Nobody, Observer} \cap Producers = {}

ShardInit ==
  /\ shards = [s \in ShardIds |-> [book |-> NewBook, mu |-> Nobody, applied |-> 0]]
  /\ workers = [p \in Producers |-> [pc |-> "call", sent |-> 0, cmd |-> AnyCmd, left |-> 0]]
  /\ asker = [pc |-> "idle", shard |-> 0, quote |-> NoAnswer, of |-> 0, from |-> 0, sum |-> 0, low |-> 0, asks |-> 0]
  /\ log = [s \in ShardIds |-> <<>>]

-----------------------------------------------------------------------------
(***************************************************************************)
(* submit.                                                                 *)
(***************************************************************************)
ShardLockMut_NoWait(p, c) ==
  /\ workers[p].pc = "call" /\ workers[p].sent < OpsEach
  /\ shards' = [shards EXCEPT ![ShardOf(c)].mu = p]
  /\ workers' = [workers EXCEPT ![p].pc = "apply", ![p].cmd = c, ![p].left = c.qty]
  /\ log' = [log EXCEPT ![ShardOf(c)] = Append(@, c)]
  /\ UNCHANGED asker

ShardLock(p, c) ==
  /\ workers[p].pc = "call" /\ workers[p].sent < OpsEach
  /\ shards[ShardOf(c)].mu = Nobody
  /\ shards' = [shards EXCEPT ![ShardOf(c)].mu = p]
  /\ workers' = [workers EXCEPT ![p].pc = "apply", ![p].cmd = c, ![p].left = c.qty]
  /\ log' = [log EXCEPT ![ShardOf(c)] = Append(@, c)]
  /\ UNCHANGED asker

\* apply: a limit or a cancel in one step, a market order level by level.
ShardApplyOnce(p) ==
  LET c == workers[p].cmd
      s == ShardOf(c)
      b == shards[s].book
  IN /\ workers[p].pc = "apply" /\ c.type # "Market"
     /\ shards' = [shards EXCEPT ![s].book =
          IF c.type = "Limit" THEN AddLimitOrder(b, c.side, c.price, c.qty)
          ELSE CancelOrder(b, c.cancel_id)]
     /\ workers' = [workers EXCEPT ![p].pc = "unlock"]
     /\ UNCHANGED <<asker, log>>

ShardApplyMarket(p) ==
  LET c == workers[p].cmd
      s == ShardOf(c)
      b == shards[s].book
      more == workers[p].left > 0 /\ ~SideEmpty(b, Opposite(c.side))
      k == BestKey(b, Opposite(c.side))
  IN /\ workers[p].pc = "apply" /\ c.type = "Market"
     /\ IF more
        THEN /\ shards' = [shards EXCEPT ![s].book = MarketIteration(b, k, workers[p].left)]
             /\ workers' = [workers EXCEPT ![p].left = @ - MarketTake(b, k, @)]
        ELSE /\ workers' = [workers EXCEPT ![p].pc = "unlock"]
             /\ UNCHANGED shards
     /\ UNCHANGED <<asker, log>>

\* The counter is raised before the lock guard releases the mutex.
ShardUnlockMut_LostUpdate(p) ==
  LET s == ShardOf(workers[p].cmd) IN
  /\ workers[p].pc = "unlock"
  /\ shards' = [shards EXCEPT ![s].mu = Nobody, ![s].applied = workers[p].sent + 1]
  /\ workers' = [workers EXCEPT ![p].pc = "call", ![p].sent = @ + 1]
  /\ UNCHANGED <<asker, log>>

ShardUnlock(p) ==
  LET s == ShardOf(workers[p].cmd) IN
  /\ workers[p].pc = "unlock"
  /\ shards' = [shards EXCEPT ![s].mu = Nobody, ![s].applied = @ + 1]
  /\ workers' = [workers EXCEPT ![p].pc = "call", ![p].sent = @ + 1]
  /\ UNCHANGED <<asker, log>>

-----------------------------------------------------------------------------
(***************************************************************************)
(* quote(instrument): the two sides are read one after the other.          *)
(***************************************************************************)
MayAsk == asker.pc = "idle" /\ asker.asks < MaxAsks

Completed(s) == Len(log[s]) - IF shards[s].mu \in Producers THEN 1 ELSE 0

AskQuoteMut_NoLock(s) ==
  /\ MayAsk
  /\ asker' = [asker EXCEPT !.pc = "bid", !.of = s, !.from = Completed(s), !.asks = @ + 1]
  /\ UNCHANGED <<shards, workers, log>>

AskQuote(s) ==
  /\ MayAsk /\ shards[s].mu = Nobody
  /\ shards' = [shards EXCEPT ![s].mu = Observer]
  /\ asker' = [asker EXCEPT !.pc = "bid", !.of = s, !.from = Completed(s), !.asks = @ + 1]
  /\ UNCHANGED <<workers, log>>

QuoteBid ==
  /\ asker.pc = "bid"
  /\ asker' = [asker EXCEPT !.pc = "ask", !.quote.bid = Top(shards[asker.of].book, Buy)]
  /\ UNCHANGED <<shards, workers, log>>

QuoteAsk ==
  /\ asker.pc = "ask"
  /\ asker' = [asker EXCEPT !.pc = "idle", !.quote.ask = Top(shards[asker.of].book, Sell)]
  /\ shards' = [shards EXCEPT ![asker.of].mu =
                  IF shards[asker.of].mu = Observer THEN Nobody ELSE @]
  /\ UNCHANGED <<workers, log>>

\* applied(): one shard's counter after the other.
Total == MapThenSumSet(LAMBDA s : shards[s].applied, ShardIds)

AskApplied ==
  /\ MayAsk
  /\ asker' = [asker EXCEPT !.pc = "sum", !.shard = 0, !.sum = 0, !.low = Total,
                            !.asks = @ + 1]
  /\ UNCHANGED <<shards, workers, log>>

AppliedAdd ==
  /\ asker.pc = "sum" /\ asker.shard < ShardCount
  /\ asker' = [asker EXCEPT !.sum = @ + shards[asker.shard].applied,
                            !.shard = @ + 1,
                            !.pc = IF asker.shard + 1 = ShardCount THEN "idle" ELSE "sum"]
  /\ UNCHANGED <<shards, workers, log>>

WorkerStep(p) ==
  (\E c \in Cmds : ShardLock(p, c)) \/ ShardApplyOnce(p) \/ ShardApplyMarket(p) \/ ShardUnlock(p)

AskerStep == QuoteBid \/ QuoteAsk \/ AppliedAdd

ShardNext ==
  \/ \E p \in Producers : WorkerStep(p)
  \/ \E s \in ShardIds : AskQuote(s)
  \/ AskApplied
  \/ AskerStep

-----------------------------------------------------------------------------
\* apply as a function: the book after the whole command.
ApplyCmd(b, c) ==
  CASE c.type = "Limit"  -> AddLimitOrder(b, c.side, c.price, c.qty)
    [] c.type = "Market" -> MarketOrder(b, c.side, c.qty)
    [] c.type = "Cancel" -> CancelOrder(b, c.cancel_id)

Replay(cmds) == Seqs!FoldLeft(ApplyCmd, NewBook, cmds)

\* Commands on a shard take effect one after the other: whenever no producer
\* holds the mutex, the book is what the commands give in the order in which the
\* mutex was taken.
ShardsSerial ==
  \A s \in ShardIds :
    shards[s].mu \notin Producers => shards[s].book = Replay(log[s])

\* pipeline.hpp: "Snapshot under the shard lock so the caller sees a consistent
\* book".  A quote is the inside of the shard's book after a number of whole
\* commands, all that were complete when quote was called among them; never one
\* from the middle of a market order, or of two sides of different books.
QuoteSettled ==
  asker.pc = "idle" =>
    \E n \in asker.from..Len(log[asker.of]) :
      asker.quote = Inside(Replay(SubSeq(log[asker.of], 1, n)))
=============================================================================
