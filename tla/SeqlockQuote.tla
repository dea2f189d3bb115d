---------------------------- MODULE SeqlockQuote ----------------------------
(***************************************************************************)
(* lob::SeqlockQuote: one writer publishes the inside market, readers copy *)
(* it without locks.  A quote is its number: the n-th publish stores n in  *)
(* every payload field, and a returned copy is torn when its fields differ. *)
(*                                                                         *)
(* The fences order the seq accesses with respect to the payload; the      *)
(* relaxed payload stores among themselves, and the loads, may happen in   *)
(* any order, so each is a step of its own in any order.                   *)
(* seq_ is a natural number: a uint64 would wrap after 2^63 publishes.     *)
(***************************************************************************)
EXTENDS Integers, FiniteSets

CONSTANTS
  Readers,
  Fields,       \* bid_, ask_, bid_qty_, ask_qty_, has_bid_, has_ask_
  MaxPublish    \* bound: the number of quotes the writer publishes

ASSUME FieldsAssumption == Fields # {}
ASSUME MaxPublishAssumption == MaxPublish \in Nat

VARIABLES
  seq,      \* seq_
  payload,  \* the payload fields
  todo,     \* the fields publish has still to store; {} outside publish
  writing,  \* is the writer inside publish?
  rpc,      \* per reader: "idle", "start" (load s1), "load" (the
            \* payload) or "done" (a copy was returned)
  s1,       \* per reader: its local s1
  copy,     \* per reader: its local q
  left,     \* per reader: the fields read has still to load
  since     \* auxiliary: the last quote published when the read was called

vars == <<seq, payload, todo, writing, rpc, s1, copy, left, since>>
writerVars == <<seq, payload, todo, writing>>
readerVars == <<rpc, s1, copy, left, since>>

\* The number of publishes that have returned.
Published == seq \div 2

Init ==
  /\ seq = 0 /\ payload = [f \in Fields |-> 0]
  /\ todo = {} /\ writing = FALSE
  /\ rpc = [r \in Readers |-> "idle"]
  /\ s1 = [r \in Readers |-> 0]
  /\ copy = [r \in Readers |-> [f \in Fields |-> 0]]
  /\ left = [r \in Readers |-> {}]
  /\ since = [r \in Readers |-> 0]

-----------------------------------------------------------------------------
\* publish: the first fetch_add makes seq_ odd.
PublishBegin ==
  /\ ~writing /\ Published < MaxPublish
  /\ seq' = seq + 1
  /\ writing' = TRUE
  /\ todo' = Fields
  /\ UNCHANGED <<payload, readerVars>>

PublishStore(f) ==
  /\ writing /\ f \in todo
  /\ payload' = [payload EXCEPT ![f] = Published + 1]
  /\ todo' = todo \ {f}
  /\ UNCHANGED <<seq, writing, readerVars>>

PublishEndMut_Early ==
  /\ writing
  /\ seq' = seq + 1
  /\ writing' = FALSE
  /\ UNCHANGED <<payload, todo, readerVars>>

PublishEndMut_StayOdd ==
  /\ writing /\ todo = {}
  /\ writing' = FALSE
  /\ UNCHANGED <<seq, payload, todo, readerVars>>

PublishEnd ==
  /\ writing /\ todo = {}
  /\ seq' = seq + 1
  /\ writing' = FALSE
  /\ UNCHANGED <<payload, todo, readerVars>>

-----------------------------------------------------------------------------
\* read is called.
ReadCall(r) ==
  /\ rpc[r] \in {"idle", "done"}
  /\ rpc' = [rpc EXCEPT ![r] = "start"]
  /\ since' = [since EXCEPT ![r] = Published]
  /\ UNCHANGED <<s1, copy, left, writerVars>>

\* Load s1; the loop starts over while it is odd.
ReadStart(r) ==
  /\ rpc[r] = "start" /\ seq % 2 = 0
  /\ s1' = [s1 EXCEPT ![r] = seq]
  /\ left' = [left EXCEPT ![r] = Fields]
  /\ rpc' = [rpc EXCEPT ![r] = "load"]
  /\ UNCHANGED <<copy, since, writerVars>>

ReadLoad(r, f) ==
  /\ rpc[r] = "load" /\ f \in left[r]
  /\ copy' = [copy EXCEPT ![r][f] = payload[f]]
  /\ left' = [left EXCEPT ![r] = @ \ {f}]
  /\ UNCHANGED <<rpc, s1, since, writerVars>>

ReadCheckMut_NoCheck(r) ==
  /\ rpc[r] = "load" /\ left[r] = {}
  /\ rpc' = [rpc EXCEPT ![r] = "done"]
  /\ UNCHANGED <<s1, copy, left, since, writerVars>>

\* Load s2 and compare.
ReadCheck(r) ==
  /\ rpc[r] = "load" /\ left[r] = {}
  /\ rpc' = [rpc EXCEPT ![r] = IF seq = s1[r] THEN "done" ELSE "start"]
  /\ UNCHANGED <<s1, copy, left, since, writerVars>>

-----------------------------------------------------------------------------
WriterStep == PublishBegin \/ (\E f \in Fields : PublishStore(f)) \/ PublishEnd
ReaderStep(r) ==
  ReadStart(r) \/ (\E f \in Fields : ReadLoad(r, f)) \/ ReadCheck(r)

Next == WriterStep \/ (\E r \in Readers : ReadCall(r) \/ ReaderStep(r))

SafetySpec == Init /\ [][Next]_vars

\* A thread inside publish or read keeps running.  The writer may also publish
\* no more: MaxPublish bounds how often it interrupts the readers.
Fairness ==
  /\ WF_vars((\E f \in Fields : PublishStore(f)) \/ PublishEnd)
  /\ \A r \in Readers : WF_vars(ReaderStep(r))

Spec == SafetySpec /\ Fairness

-----------------------------------------------------------------------------
\* Each atomic and each local has its type.
TypeOK ==
  /\ seq \in Nat
  /\ payload \in [Fields -> Nat]
  /\ todo \in SUBSET Fields /\ writing \in BOOLEAN
  /\ rpc \in [Readers -> {"idle", "start", "load", "done"}]
  /\ s1 \in [Readers -> Nat]
  /\ copy \in [Readers -> [Fields -> Nat]]
  /\ left \in [Readers -> SUBSET Fields]
  /\ since \in [Readers -> Nat]

\* read never returns a torn quote: "Torn combinations are discarded by the seq
\* check".  All fields of a returned copy come from one publish.
NoTornRead ==
  \A r \in Readers : rpc[r] = "done" => \A f, g \in Fields : copy[r][f] = copy[r][g]

\* read is linearizable: the quote it returns was current at some moment of the
\* call, neither older than the last one published before the call nor one
\* whose publish has not returned.  So successive reads of a reader never go
\* back to an older quote.
ReadIsFresh ==
  \A r \in Readers : rpc[r] = "done" =>
    \A f \in Fields : since[r] <= copy[r][f] /\ copy[r][f] <= Published

\* Once the writer pauses every read returns.
ReadReturns == \A r \in Readers : rpc[r] = "start" ~> rpc[r] = "done"
=============================================================================
