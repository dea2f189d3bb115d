----------------------------- MODULE Contention -----------------------------
(***************************************************************************)
(* The two ways of sharing books between producers, each in its driver of  *)
(* bench_contention.cpp (run_single_writer, run_sharded): start the        *)
(* threads, let every producer submit its commands, wait until all have    *)
(* been applied, and join.  A behaviour runs one of the two.               *)
(***************************************************************************)
EXTENDS ShardedBooks

VARIABLES
  model,    \* Row::model
  runCons   \* run_single_writer's run_cons

contVars == <<pipeVars, shardVars, model, runCons>>

SingleWriter == model = "single-writer+MPSC"
Sharded == model = "sharded-mutex"

ContInit ==
  /\ PipeInit /\ ShardInit
  /\ model \in {"single-writer+MPSC", "sharded-mutex"}
  /\ runCons = TRUE

AllOps == Cardinality(Producers) * OpsEach

\* Every command may issue an id; MaxId, a bound of the model, leaves enough.
ASSUME IdsAssumption == AllOps <= MaxId

ProducersDone == \A p \in Producers : prods[p].sent = OpsEach

-----------------------------------------------------------------------------
\* The consumer's loop condition: run_cons or commands not applied yet.
ConsumerLoopMut_FlagOnly ==
  /\ cons.pc = "loop"
  /\ cons' = [cons EXCEPT !.pc = IF ~ProducersDone THEN "drain" ELSE "done"]
  /\ UNCHANGED <<book, call, q, ready, taken, prods, applied, quote, runCons>>

ConsumerLoop ==
  /\ cons.pc = "loop"
  /\ cons' = [cons EXCEPT !.pc = IF runCons \/ applied < AllOps THEN "drain" ELSE "done"]
  /\ UNCHANGED <<book, call, q, ready, taken, prods, applied, quote, runCons>>

ConsumerStep ==
  \/ ConsumerLoop
  \/ /\ \/ ApplyLimit \/ ApplyCancel \/ ApplyMarket \/ ApplyMarketStep \/ ApplyMarketReturn
        \/ DrainEnd
     /\ UNCHANGED runCons

ProducerStep(p) ==
  /\ (\E c \in Cmds : SubmitReserve(p, c)) \/ SubmitPublish(p)
  /\ UNCHANGED runCons

\* The producers are joined.  An iteration of the loop that waits until all is
\* applied; then the consumer may end.
AwaitApplied ==
  /\ ProducersDone /\ runCons
  /\ runCons' = (applied < AllOps)
  /\ UNCHANGED pipeVars

SingleWriterStep ==
  /\ SingleWriter
  /\ ConsumerStep \/ AwaitApplied \/ \E p \in Producers : ProducerStep(p)
  /\ UNCHANGED <<shardVars, model>>

Steps(A) == Sharded /\ A /\ UNCHANGED <<pipeVars, model, runCons>>

\* run_single_writer and run_sharded return.
Returned ==
  IF SingleWriter THEN ~runCons /\ cons.pc = "done"
  ELSE /\ \A p \in Producers : workers[p].pc = "call" /\ workers[p].sent = OpsEach
       /\ asker.pc = "idle"

Finished == Returned /\ UNCHANGED contVars

ContNext == SingleWriterStep \/ Steps(ShardNext) \/ Finished

-----------------------------------------------------------------------------
\* Every thread is scheduled again and again.  A producer that finds the queue
\* full or the mutex taken may lose the place to others as long as they have
\* commands left; nothing stronger than weak fairness is assumed of it.
ContFairness ==
  /\ WF_contVars(SingleWriter /\ ConsumerStep /\ UNCHANGED <<shardVars, model>>)
  /\ WF_contVars(SingleWriter /\ AwaitApplied /\ UNCHANGED <<shardVars, model>>)
  /\ \A p \in Producers :
       /\ WF_contVars(SingleWriter /\ ProducerStep(p) /\ UNCHANGED <<shardVars, model>>)
       /\ WF_contVars(Steps(WorkerStep(p)))
  /\ WF_contVars(Steps(AskerStep))

ContSpec == ContInit /\ [][ContNext]_contVars /\ ContFairness

-----------------------------------------------------------------------------
\* bench_contention.cpp, main: "LOST UPDATES" when applied() is not the number
\* of commands in the end.  Nor is a sum that ShardedBooks::applied adds up shard
\* by shard while producers run less than what had been applied when the call
\* began, or more than what has been by now.
NoLostUpdates ==
  /\ Returned => (IF SingleWriter THEN applied ELSE Total) = AllOps
  /\ asker.pc = "idle" => asker.low <= asker.sum /\ asker.sum <= Total

\* Both drivers return: no thread waits for ever for another one.
BothReturn == <>Returned
=============================================================================
