---------------------------- MODULE ItchProtocol ----------------------------
(***************************************************************************)
(* net/itch_protocol.hpp: the host-side Event, its wire form and the       *)
(* datagram.  A word is two bytes wide here (eight in the code); on the    *)
(* wire its bytes are swapped.  A packed message carries only the fields   *)
(* of its type and takes as many bytes as the packed struct does.          *)
(***************************************************************************)
EXTENDS Integers, Sequences, FiniteSetsExt

CONSTANT Payload  \* kUdpPayload: the most bytes of a datagram

MsgTypes == {"Add", "Cancel", "Execute", "Snapshot"}
Magic == 18772    \* the first two bytes of kMagic
Version == 1

Byte == 256
Word == 0..(Byte * Byte - 1)
Swap(w) == (w % Byte) * Byte + (w \div Byte)

EventFields == {"side", "order_id", "price", "qty", "bid", "bid_qty", "ask", "ask_qty",
                "snap_flags", "event_ns"}
ByteFields == {"side", "snap_flags"}

\* Event{} and Decoded{}: type Add, every other field zero.
BlankEvent == [type |-> "Add", side |-> 0, order_id |-> 0, price |-> 0, qty |-> 0,
               bid |-> 0, bid_qty |-> 0, ask |-> 0, ask_qty |-> 0,
               snap_flags |-> 0, event_ns |-> 0]

\* AddBody, CancelBody, ExecuteBody and SnapshotBody.
Body(type) ==
  CASE type = "Add"      -> {"order_id", "side", "price", "qty", "event_ns"}
    [] type = "Cancel"   -> {"order_id", "event_ns"}
    [] type = "Execute"  -> {"order_id", "price", "qty", "event_ns"}
    [] type = "Snapshot" -> {"snap_flags", "bid", "bid_qty", "ask", "ask_qty", "event_ns"}

MsgBytes(type) ==
  1 + MapThenSumSet(LAMBDA f : IF f \in ByteFields THEN 1 ELSE 8, Body(type))
MaxMsgBytes == MsgBytes("Snapshot")
HdrBytes == 24

\* Every datagram has a header.
ASSUME PayloadAssumption == Payload \in Nat /\ Payload >= HdrBytes

OnWire(f, w) == IF f \in ByteFields THEN w ELSE Swap(w)

PackMsg(e) ==
  [type |-> e.type, body |-> [f \in Body(e.type) |-> OnWire(f, e[f])]]

DecodesMut_Strict(m, avail) == m.type \in MsgTypes /\ avail > MsgBytes(m.type)

\* A message decodes if its type is known and all its bytes are there.
Decodes(m, avail) == m.type \in MsgTypes /\ avail >= MsgBytes(m.type)

UnpackMsg(m) ==
  [f \in EventFields \cup {"type"} |->
     IF f = "type" THEN m.type
     ELSE IF f \in Body(m.type) THEN OnWire(f, m.body[f]) ELSE BlankEvent[f]]

\* A datagram of len bytes: the header (nbytes and the send time are written
\* and never read) and the messages.
Datagram(seq, msgs, len) ==
  [magic |-> Swap(Magic), version |-> Version, count |-> Len(msgs),
   seq |-> Swap(seq), msgs |-> msgs, len |-> len]

HeaderOK(p) == p.len >= HdrBytes /\ Swap(p.magic) = Magic /\ p.version = Version

\* How many messages the receiver's loop decodes: it reads at most hdr.count
\* messages and stops at the first that does not decode in the bytes received.
DecodedCount(p) ==
  LET at[i \in 1..(Len(p.msgs) + 1)] ==   \* the offset of message i
        IF i = 1 THEN HdrBytes
        ELSE at[i - 1] + (IF p.msgs[i - 1].type \in MsgTypes
                          THEN MsgBytes(p.msgs[i - 1].type) ELSE 0)
      good(i) == i <= Len(p.msgs) /\ Decodes(p.msgs[i], p.len - at[i])
  IN Max({n \in 0..p.count : \A i \in 1..n : good(i)})
=============================================================================
