---------------------------- MODULE MdPublisher -----------------------------
(***************************************************************************)
(* md::Publisher: the matching thread, which owns the publisher, starts    *)
(* and stops it and enqueues events on the SPSC ring; the publisher thread *)
(* packs them into datagrams and sends them.                               *)
(***************************************************************************)
EXTENDS SpscRing, SequencesExt, ItchProtocol

CONSTANTS
  MaxCount,    \* most messages of a datagram (64 in the code)
  Orders,      \* the orders that are published: [id, side, price, qty]
  Tops,        \* the insides of the book that snapshots read: [bid, ask]
  MaxEvents,   \* bound: calls of try_publish_*
  MaxStarts    \* bound: calls of start

\* The fields of an event are words, the clock that stamps it included.
ASSUME PublisherAssumption ==
  /\ MaxCount \in Nat \ {0} /\ MaxEvents \in Word /\ MaxStarts \in Nat
  /\ Orders \subseteq [id : Word, side : 0..1, price : Word, qty : Word]
  /\ Tops \subseteq [bid : Word \X Word, ask : Word \X Word]

VARIABLES
  owner,    \* the owner: "free", or waiting in stop's join
  run,      \* run_
  sock,     \* fd_ >= 0
  groupOK,  \* does cfg_.group parse?
  pub,      \* the publisher thread: its pc, the batch and its bytes (off)
  pktSeq,   \* pkt_seq_
  stats,    \* stats_
  sends,    \* auxiliary: the datagrams given to sendto, in order, and the outcome
  calls     \* auxiliary: how often try_publish_* and start were called

pubVars == <<owner, run, sock, groupOK, pub, pktSeq, stats, sends, calls>>
feedVars == <<ringVars, pubVars>>

NewThread == [pc |-> "boot", batch |-> <<>>, off |-> 0]
NoCalls == [publish |-> 0, start |-> 0]
NoThread == [NewThread EXCEPT !.pc = "none"]

\* Stats{}; the latency samples are left out.
NewStats == [enqueued |-> 0, dropped |-> 0, packets |-> 0, messages |-> 0, send_fail |-> 0]

PubInit ==
  /\ RingInit
  /\ owner = "free" /\ run = FALSE /\ sock = FALSE
  /\ groupOK \in BOOLEAN
  /\ pub = NoThread /\ pktSeq = 0
  /\ stats = NewStats
  /\ sends = <<>> /\ calls = NoCalls

-----------------------------------------------------------------------------
(***************************************************************************)
(* The owner.                                                              *)
(***************************************************************************)
OwnerFree == owner = "free" /\ prod.pc = "idle"

\* socket() may fail; start on a running publisher does nothing.
Start(socketOK) ==
  /\ OwnerFree /\ calls.start < MaxStarts
  /\ calls' = [calls EXCEPT !.start = @ + 1]
  /\ IF run \/ ~socketOK THEN UNCHANGED <<run, sock, pub>>
     ELSE run' = TRUE /\ sock' = TRUE /\ pub' = NewThread
  /\ UNCHANGED <<ringVars, owner, groupOK, pktSeq, stats, sends>>

\* stop: run_.exchange(false), then join and close when it was true.
Stop ==
  /\ OwnerFree
  /\ run' = FALSE
  /\ IF run THEN owner' = "join" /\ sock' = sock
     ELSE owner' = owner /\ sock' = FALSE
  /\ UNCHANGED <<ringVars, groupOK, pub, pktSeq, stats, sends, calls>>

StopJoinedMut_NoJoin ==
  /\ owner = "join"
  /\ owner' = "free" /\ sock' = FALSE
  /\ UNCHANGED <<ringVars, run, groupOK, pub, pktSeq, stats, sends, calls>>

StopJoined ==
  /\ owner = "join" /\ pub.pc = "exited"
  /\ owner' = "free" /\ sock' = FALSE /\ pub' = NoThread
  /\ UNCHANGED <<ringVars, run, groupOK, pktSeq, stats, sends, calls>>

\* enqueue(e): the ring's try_push and the counter of its outcome.
Enqueue(e) ==
  /\ OwnerFree /\ calls.publish < MaxEvents
  /\ calls' = [calls EXCEPT !.publish = @ + 1]
  /\ IF Full
     THEN stats' = [stats EXCEPT !.dropped = @ + 1] /\ UNCHANGED ringVars
     ELSE PushCheck(e) /\ UNCHANGED stats
  /\ UNCHANGED <<owner, run, sock, groupOK, pub, pktSeq, sends>>

EnqueueWrite == PushWrite /\ UNCHANGED pubVars

EnqueueStore ==
  /\ PushStore
  /\ stats' = [stats EXCEPT !.enqueued = @ + 1]
  /\ UNCHANGED <<owner, run, sock, groupOK, pub, pktSeq, sends, calls>>

Now == calls.publish + 1   \* event_ns: a clock that grows with every call

AddEvent(o, t) ==
  [BlankEvent EXCEPT !.side = o.side, !.order_id = o.id, !.price = o.price,
                     !.qty = o.qty, !.event_ns = t]
CancelEvent(o, t) ==
  [BlankEvent EXCEPT !.type = "Cancel", !.order_id = o.id, !.event_ns = t]
ExecuteEvent(o, t) ==
  [BlankEvent EXCEPT !.type = "Execute", !.order_id = o.id, !.price = o.price,
                     !.qty = o.qty, !.event_ns = t]
\* A side of the book that is empty is NoTop: its flag and fields stay zero.
NoTop == <<0, 0>>
SnapshotEvent(bid, ask, t) ==
  [BlankEvent EXCEPT
     !.type = "Snapshot", !.event_ns = t,
     !.snap_flags = (IF bid # NoTop THEN 1 ELSE 0) + (IF ask # NoTop THEN 2 ELSE 0),
     !.bid = bid[1], !.bid_qty = bid[2], !.ask = ask[1], !.ask_qty = ask[2]]

PublishAdd(o) == Enqueue(AddEvent(o, Now))
PublishCancel(o) == Enqueue(CancelEvent(o, Now))
PublishExecute(o) == Enqueue(ExecuteEvent(o, Now))
PublishSnapshot(bid, ask) == Enqueue(SnapshotEvent(bid, ask, Now))

-----------------------------------------------------------------------------
(***************************************************************************)
(* thread_main.                                                            *)
(***************************************************************************)
Boot ==
  /\ pub.pc = "boot"
  /\ pub' = [pub EXCEPT !.pc = IF groupOK THEN "top" ELSE "exited"]
  /\ UNCHANGED <<ringVars, owner, run, sock, groupOK, pktSeq, stats, sends, calls>>

LoopTopMut_NoCheck ==
  /\ pub.pc = "top"
  /\ pub' = [pc |-> "fill", batch |-> <<>>, off |-> HdrBytes]
  /\ UNCHANGED <<ringVars, owner, run, sock, groupOK, pktSeq, stats, sends, calls>>

LoopTop ==
  /\ pub.pc = "top"
  /\ pub' = IF run THEN [pc |-> "fill", batch |-> <<>>, off |-> HdrBytes]
            ELSE [pub EXCEPT !.pc = "exited"]
  /\ UNCHANGED <<ringVars, owner, run, sock, groupOK, pktSeq, stats, sends, calls>>

HasRoom == Len(pub.batch) < MaxCount /\ pub.off + MaxMsgBytes <= Payload

\* Only with room left is try_pop called.
FillPop == pub.pc = "fill" /\ HasRoom /\ PopCheck /\ UNCHANGED pubVars
FillRead == PopRead /\ UNCHANGED pubVars

FillPack ==
  /\ PopStore
  /\ pub' = [pub EXCEPT !.batch = Append(@, PackMsg(cons.val)),
                        !.off = @ + MsgBytes(cons.val.type)]
  /\ UNCHANGED <<owner, run, sock, groupOK, pktSeq, stats, sends, calls>>

FillEndMut_Discard ==
  /\ pub.pc = "fill" /\ cons.pc = "idle" /\ (~HasRoom \/ Empty)
  /\ pub' = [pub EXCEPT !.pc = IF run /\ pub.batch # <<>> THEN "send" ELSE "top"]
  /\ UNCHANGED <<ringVars, owner, run, sock, groupOK, pktSeq, stats, sends, calls>>

FillEndMut_WaitFull ==
  /\ pub.pc = "fill" /\ cons.pc = "idle" /\ (~HasRoom \/ Empty)
  /\ pub' = [pub EXCEPT !.pc = IF pub.batch = <<>> THEN "top"
                               ELSE IF HasRoom THEN "fill" ELSE "send"]
  /\ UNCHANGED <<ringVars, owner, run, sock, groupOK, pktSeq, stats, sends, calls>>

FillEnd ==
  /\ pub.pc = "fill" /\ cons.pc = "idle" /\ (~HasRoom \/ Empty)
  /\ pub' = [pub EXCEPT !.pc = IF pub.batch = <<>> THEN "top" ELSE "send"]
  /\ UNCHANGED <<ringVars, owner, run, sock, groupOK, pktSeq, stats, sends, calls>>

\* sendto may fail; the datagram's sequence number is used all the same.
Send(ok) ==
  /\ pub.pc = "send"
  /\ sends' = Append(sends, [pkt |-> Datagram(pktSeq, pub.batch, pub.off), ok |-> ok])
  /\ pktSeq' = pktSeq + 1
  /\ stats' = IF ok THEN [stats EXCEPT !.packets = @ + 1, !.messages = @ + Len(pub.batch)]
              ELSE [stats EXCEPT !.send_fail = @ + 1]
  /\ pub' = [pub EXCEPT !.pc = "top", !.batch = <<>>]
  /\ UNCHANGED <<ringVars, owner, run, sock, groupOK, calls>>

-----------------------------------------------------------------------------
OwnerStep == EnqueueWrite \/ EnqueueStore \/ StopJoined
PubStep == Boot \/ LoopTop \/ FillPop \/ FillRead \/ FillPack \/ FillEnd
             \/ \E ok \in BOOLEAN : Send(ok)

PubNext ==
  \/ \E ok \in BOOLEAN : Start(ok)
  \/ Stop
  \/ \E o \in Orders : PublishAdd(o) \/ PublishCancel(o) \/ PublishExecute(o)
  \/ \E top \in Tops : PublishSnapshot(top.bid, top.ask)
  \/ OwnerStep
  \/ PubStep

-----------------------------------------------------------------------------
(***************************************************************************)
(* Properties.                                                             *)
(***************************************************************************)
Unpacked(msgs) == [i \in 1..Len(msgs) |-> UnpackMsg(msgs[i])]
Sent == [i \in 1..Len(sends) |-> Unpacked(sends[i].pkt.msgs)]
Attempted == FoldLeft(LAMBDA acc, s : acc \o s, <<>>, Sent)
InRing == [i \in 1..Waiting |-> buf[(tail + i - 1) % Size]]
CountOf(S(_)) == MapThenSumSet(LAMBDA i : IF S(i) THEN Len(sends[i].pkt.msgs) ELSE 0,
                               1..Len(sends))

\* Every event that enqueue accepted is in exactly one place and in order: in a
\* datagram given to sendto, in the batch, or still in the ring.  So stop leaves
\* events in the ring but loses none, and a batch under way is sent before the
\* thread exits.  The counters tell the same story: messages counts the events
\* of the datagrams that went out, and sequence numbers are used up by those and
\* by the ones whose sendto failed, and by nothing else.
EventsAccounted ==
  /\ pushed = Attempted \o Unpacked(pub.batch) \o InRing
  /\ stats.enqueued = Len(pushed)
  /\ stats.messages = CountOf(LAMBDA i : sends[i].ok)
  /\ pktSeq = stats.packets + stats.send_fail
  /\ \A i \in 1..Len(sends) : Swap(sends[i].pkt.seq) = i - 1

\* The publisher thread never uses a closed socket, as stop closes it after
\* join, and a datagram never grows past kUdpPayload, the size of its buffer.
ThreadStaysInBounds ==
  /\ pub.pc \in {"boot", "top", "fill", "send"} => sock
  /\ pub.off <= Payload

EventsAt(t) ==
  {AddEvent(o, t) : o \in Orders} \cup {CancelEvent(o, t) : o \in Orders}
    \cup {ExecuteEvent(o, t) : o \in Orders}
    \cup {SnapshotEvent(top.bid, top.ask, t) : top \in Tops}
Events == UNION {EventsAt(t) : t \in 1..MaxEvents}

Fifo == INSTANCE BoundedFifo WITH
  Values    <- Events,
  queue     <- Contents,
  ready     <- [i \in 1..Claimed |-> i <= Waiting],
  delivered <- popped

\* The ring between the two threads implements the bounded FIFO.
RingImplementsFifo == Fifo!FifoSpec

\* Every accepted event is handed to sendto, or the publisher is stopped first
\* (or its group does not parse and the thread has exited).
AcceptedIsSent ==
  \A i \in 1..MaxEvents :
    Len(pushed) >= i /\ run /\ groupOK ~> Len(Attempted) >= i \/ ~run

\* stop returns: the publisher thread notices run_ and exits.
StopReturns == owner = "join" ~> owner = "free"
=============================================================================
