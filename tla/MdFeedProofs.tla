---------------------------- MODULE MdFeedProofs ----------------------------
(***************************************************************************)
(* The market data feed: for any Size >= 2 that divides the range of the   *)
(* counters, any datagram size, and any orders and insides of the book,    *)
(* the ring between the matching thread and the publisher thread is free   *)
(* of data races and implements BoundedFifo, no accepted event is lost or  *)
(* reordered on its way to sendto, and the publisher thread uses neither a *)
(* closed socket nor more bytes than a datagram has.                       *)
(***************************************************************************)
EXTENDS MdFeed, SumProofs, SequenceTheorems

-----------------------------------------------------------------------------
(***************************************************************************)
(* Counters modulo CtrMod and slots modulo Size.  Size divides CtrMod, so  *)
(* a counter that wraps around keeps its slot.                             *)
(***************************************************************************)
Ctr == 0..(CtrMod - 1)
Cells == 0..(Size - 1)
Cell(i) == i % Size

LEMMA CellType == ASSUME NEW i \in Nat PROVE Cell(i) \in Cells
BY SizeAssumption DEF Cell, Cells

LEMMA CellDivision ==
  ASSUME NEW i \in Nat
  PROVE  i \div Size \in Int /\ i = Size * (i \div Size) + Cell(i)
BY SizeAssumption DEF Cell

LEMMA MultipleOfSize ==
  ASSUME NEW a \in Int, NEW b \in Int, a < b
  PROVE  Size * b >= Size * a + Size
<1>1. b >= a + 1
  OBVIOUS
<1>2. Size * b >= Size * (a + 1)
  BY <1>1, SizeAssumption
<1>3. QED
  BY <1>2, SizeAssumption

\* The quotient and the remainder are unique.
LEMMA CellUnique ==
  ASSUME NEW a \in Int, NEW b \in Int, NEW r \in Cells, NEW t \in Cells,
         Size * a + r = Size * b + t
  PROVE  r = t
<1>1. Size * a \in Int /\ Size * b \in Int /\ r \in Int /\ t \in Int
      /\ 0 <= r /\ r < Size /\ 0 <= t /\ t < Size
  BY SizeAssumption DEF Cells
<1>2. CASE a < b
  BY <1>1, <1>2, MultipleOfSize, SizeAssumption
<1>3. CASE b < a
  BY <1>1, <1>3, MultipleOfSize, SizeAssumption
<1>4. CASE a = b
  BY <1>1, <1>4
<1>5. QED
  BY <1>2, <1>3, <1>4

LEMMA CellDistinct ==
  ASSUME NEW i \in Nat, NEW j \in Nat, i < j, j < i + Size
  PROVE  Cell(i) # Cell(j)
<1> SUFFICES ASSUME Cell(i) = Cell(j) PROVE FALSE
  OBVIOUS
<1> DEFINE a == i \div Size
           b == j \div Size
           r == Cell(i)
<1>1. a \in Int /\ b \in Int /\ r \in Int /\ i = Size * a + r /\ j = Size * b + r
  BY CellDivision, CellType DEF Cells
<1> HIDE DEF a, b, r
<1>2. CASE a < b
  BY <1>1, <1>2, MultipleOfSize, SizeAssumption
<1>3. CASE b <= a
  <2>1. Size * b <= Size * a
    BY <1>1, <1>3, SizeAssumption
  <2>2. QED
    BY <1>1, <2>1, SizeAssumption
<1>4. QED
  BY <1>1, <1>2, <1>3

\* CtrMod is a multiple of Size, and a larger one.
LEMMA CtrModMultiple ==
  /\ CtrMod \div Size \in Int /\ CtrMod = Size * (CtrMod \div Size)
  /\ CtrMod >= Size + 2
<1>1. CtrMod \div Size \in Int /\ CtrMod = Size * (CtrMod \div Size)
  <2>1. CtrMod \in Nat /\ Cell(CtrMod) = 0
    BY SizeAssumption DEF Cell
  <2>2. QED
    BY <2>1, CellDivision, SizeAssumption
<1> DEFINE k == CtrMod \div Size
<1>2. k \in Int /\ CtrMod = Size * k
  BY <1>1
<1> HIDE DEF k
<1>3. k > 1
  <2> SUFFICES ASSUME k <= 1 PROVE FALSE
    BY <1>2
  <2>1. Size * k <= Size * 1
    BY <1>2, SizeAssumption
  <2>2. QED
    BY <1>2, <2>1, SizeAssumption
<1>4. Size * k >= Size * 1 + Size
  BY <1>2, <1>3, MultipleOfSize
<1>5. QED
  BY <1>1, <1>2, <1>4, SizeAssumption

LEMMA CellWraps == ASSUME NEW i \in Nat PROVE Cell(i + CtrMod) = Cell(i)
<1> DEFINE a == i \div Size
           b == (i + CtrMod) \div Size
           k == CtrMod \div Size
           r == Cell(i)
           t == Cell(i + CtrMod)
<1>1. a \in Int /\ r \in Cells /\ i = Size * a + r
  BY CellDivision, CellType
<1>2. b \in Int /\ t \in Cells /\ i + CtrMod = Size * b + t
  <2>1. i + CtrMod \in Nat
    BY SizeAssumption
  <2>2. QED
    BY <2>1, CellDivision, CellType
<1>3. k \in Int /\ CtrMod = Size * k
  BY CtrModMultiple
<1> HIDE DEF a, b, k, r, t
<1>4. Size * (a + k) = Size * a + Size * k
  BY <1>1, <1>3, SizeAssumption
<1>5. r \in Int /\ Size * a \in Int /\ Size * k \in Int /\ Size * b \in Int
  BY <1>1, <1>2, <1>3, SizeAssumption DEF Cells
<1>6. Size * (a + k) + r = Size * b + t
  BY <1>1, <1>2, <1>3, <1>4, <1>5
<1>7. a + k \in Int
  BY <1>1, <1>3
<1>8. r = t
  BY <1>1, <1>2, <1>6, <1>7, CellUnique
<1>9. QED
  BY <1>8 DEF r, t

\* A difference of counters.
LEMMA CtrDiff ==
  ASSUME NEW h \in Ctr, NEW t \in Ctr
  PROVE  /\ (h - t) % CtrMod = IF t <= h THEN h - t ELSE h - t + CtrMod
         /\ (h - t) % CtrMod \in Ctr
BY SizeAssumption DEF Ctr

LEMMA CtrNext ==
  ASSUME NEW h \in Ctr
  PROVE  (h + 1) % CtrMod = (IF h + 1 = CtrMod THEN 0 ELSE h + 1) /\ (h + 1) % CtrMod \in Ctr
BY SizeAssumption DEF Ctr

-----------------------------------------------------------------------------
(***************************************************************************)
(* The wire.  Swapping the bytes of a word twice gives the word back, and  *)
(* a packed event carries every field that its type does not leave zero.   *)
(***************************************************************************)
LEMMA WordIs == ASSUME NEW w \in Word PROVE w \in Int /\ 0 <= w /\ w <= 65535
BY DEF Word, Byte

LEMMA IsWord == ASSUME NEW w \in Int, 0 <= w, w <= 65535 PROVE w \in Word
<1>1. Byte * Byte - 1 = 65535
  BY DEF Byte
<1>2. QED
  BY <1>1 DEF Word

LEMMA SwapTwice == ASSUME NEW w \in Word PROVE Swap(Swap(w)) = w /\ Swap(w) \in Word
<1> DEFINE a == w % 256
           b == w \div 256
<1>1. a \in Int /\ b \in Int /\ 0 <= a /\ a <= 255 /\ 0 <= b /\ b <= 255 /\ w = b * 256 + a
  <2>1. w \in Int /\ 0 <= w /\ w <= 65535
    BY WordIs
  <2>2. QED
    BY <2>1
<1>2. Swap(w) = a * 256 + b
  BY DEF Swap, Byte
<1> HIDE DEF a, b
<1>3. (a * 256 + b) % 256 = b /\ (a * 256 + b) \div 256 = a
  BY <1>1
<1>4. Swap(a * 256 + b) = b * 256 + a
  BY <1>3 DEF Swap, Byte
<1>5. a * 256 + b \in Word
  BY <1>1, IsWord
<1>6. QED
  BY <1>1, <1>2, <1>4, <1>5

\* What publish_* fills in: words, and zeros in the fields its type lacks.
Clean(e) ==
  /\ e.type \in MsgTypes
  /\ e = [f \in EventFields \cup {"type"} |-> e[f]]
  /\ \A f \in EventFields : e[f] \in Word
  /\ \A f \in EventFields : f \notin Body(e.type) => e[f] = 0

LEMMA BodyFields ==
  ASSUME NEW type \in MsgTypes
  PROVE  Body(type) \in SUBSET EventFields
BY DEF MsgTypes, Body, EventFields

\* One field after the other.
LEMMA AllFields ==
  ASSUME NEW e, NEW P,
         /\ e["side"] \in P /\ e["order_id"] \in P /\ e["price"] \in P /\ e["qty"] \in P
         /\ e["bid"] \in P /\ e["bid_qty"] \in P /\ e["ask"] \in P /\ e["ask_qty"] \in P
         /\ e["snap_flags"] \in P /\ e["event_ns"] \in P
  PROVE  \A f \in EventFields : e[f] \in P
BY DEF EventFields

LEMMA BlankFields == \A f \in EventFields : BlankEvent[f] = 0
BY DEF BlankEvent, EventFields

LEMMA PackUnpack ==
  ASSUME NEW e, Clean(e)
  PROVE  UnpackMsg(PackMsg(e)) = e
<1> DEFINE m == PackMsg(e)
<1>1. m.type = e.type /\ e.type \in MsgTypes
  BY DEF PackMsg, Clean
<1>2. ASSUME NEW f \in Body(e.type) PROVE OnWire(f, m.body[f]) = e[f]
  <2>1. m.body[f] = OnWire(f, e[f]) /\ e[f] \in Word
    BY <1>1, <1>2, BodyFields DEF PackMsg, Clean
  <2>2. QED
    BY <2>1, SwapTwice DEF OnWire
<1>3. ASSUME NEW f \in EventFields \cup {"type"}
      PROVE  (IF f = "type" THEN m.type
              ELSE IF f \in Body(m.type) THEN OnWire(f, m.body[f]) ELSE BlankEvent[f]) = e[f]
  <2>1. CASE f = "type"
    BY <1>1, <2>1
  <2>2. CASE f # "type" /\ f \in Body(m.type)
    BY <1>1, <1>2, <2>2
  <2>3. CASE f # "type" /\ f \notin Body(m.type)
    BY <1>1, <2>3, BlankFields DEF Clean
  <2>4. QED
    BY <2>1, <2>2, <2>3
<1> HIDE DEF m
<1>4. UnpackMsg(m) = [f \in EventFields \cup {"type"} |-> e[f]]
  BY <1>3, Zenon DEF UnpackMsg
<1>5. QED
  BY <1>4 DEF Clean, m

\* Every event that is published is clean.
LEMMA EventsClean == ASSUME NEW e \in Events PROVE Clean(e)
<1>1. \A t \in 1..MaxEvents : t \in Word
  <2>1. MaxEvents \in Word
    BY PublisherAssumption
  <2>2. QED
    BY <2>1, WordIs, IsWord
<1>2. 0 \in Word /\ 1 \in Word
  BY IsWord
<1>3. ASSUME NEW o \in Orders, NEW t \in 1..MaxEvents, e = AddEvent(o, t)
      PROVE  Clean(e)
  <2>1. o.id \in Word /\ o.side \in Word /\ o.price \in Word /\ o.qty \in Word /\ t \in Word
    BY <1>1, <1>2, PublisherAssumption
  <2>2. e = [f \in EventFields \cup {"type"} |-> e[f]]
    BY <1>3 DEF AddEvent, BlankEvent, EventFields
  <2>3. /\ e.type = "Add"
        /\ e["side"] = o.side /\ e["order_id"] = o.id /\ e["price"] = o.price /\ e["qty"] = o.qty
        /\ e["bid"] = 0 /\ e["bid_qty"] = 0 /\ e["ask"] = 0 /\ e["ask_qty"] = 0
        /\ e["snap_flags"] = 0 /\ e["event_ns"] = t
    BY <1>3 DEF AddEvent, BlankEvent
  <2>4. Body(e.type) = {"order_id", "side", "price", "qty", "event_ns"} /\ e.type \in MsgTypes
    BY <2>3 DEF Body, MsgTypes
  <2>5. \A f \in EventFields : e[f] \in Word
    BY <1>2, <2>1, <2>3, AllFields
  <2>6. \A f \in EventFields : f \notin Body(e.type) => e[f] = 0
    BY <2>3, <2>4 DEF EventFields
  <2>7. QED
    BY <2>2, <2>4, <2>5, <2>6 DEF Clean
<1>4. ASSUME NEW o \in Orders, NEW t \in 1..MaxEvents, e = CancelEvent(o, t)
      PROVE  Clean(e)
  <2>1. o.id \in Word /\ t \in Word
    BY <1>1, <1>2, PublisherAssumption
  <2>2. e = [f \in EventFields \cup {"type"} |-> e[f]]
    BY <1>4 DEF CancelEvent, BlankEvent, EventFields
  <2>3. /\ e.type = "Cancel"
        /\ e["side"] = 0 /\ e["order_id"] = o.id /\ e["price"] = 0 /\ e["qty"] = 0
        /\ e["bid"] = 0 /\ e["bid_qty"] = 0 /\ e["ask"] = 0 /\ e["ask_qty"] = 0
        /\ e["snap_flags"] = 0 /\ e["event_ns"] = t
    BY <1>4 DEF CancelEvent, BlankEvent
  <2>4. Body(e.type) = {"order_id", "event_ns"} /\ e.type \in MsgTypes
    BY <2>3 DEF Body, MsgTypes
  <2>5. \A f \in EventFields : e[f] \in Word
    BY <1>2, <2>1, <2>3, AllFields
  <2>6. \A f \in EventFields : f \notin Body(e.type) => e[f] = 0
    BY <2>3, <2>4 DEF EventFields
  <2>7. QED
    BY <2>2, <2>4, <2>5, <2>6 DEF Clean
<1>5. ASSUME NEW o \in Orders, NEW t \in 1..MaxEvents, e = ExecuteEvent(o, t)
      PROVE  Clean(e)
  <2>1. o.id \in Word /\ o.price \in Word /\ o.qty \in Word /\ t \in Word
    BY <1>1, <1>2, PublisherAssumption
  <2>2. e = [f \in EventFields \cup {"type"} |-> e[f]]
    BY <1>5 DEF ExecuteEvent, BlankEvent, EventFields
  <2>3. /\ e.type = "Execute"
        /\ e["side"] = 0 /\ e["order_id"] = o.id /\ e["price"] = o.price /\ e["qty"] = o.qty
        /\ e["bid"] = 0 /\ e["bid_qty"] = 0 /\ e["ask"] = 0 /\ e["ask_qty"] = 0
        /\ e["snap_flags"] = 0 /\ e["event_ns"] = t
    BY <1>5 DEF ExecuteEvent, BlankEvent
  <2>4. Body(e.type) = {"order_id", "price", "qty", "event_ns"} /\ e.type \in MsgTypes
    BY <2>3 DEF Body, MsgTypes
  <2>5. \A f \in EventFields : e[f] \in Word
    BY <1>2, <2>1, <2>3, AllFields
  <2>6. \A f \in EventFields : f \notin Body(e.type) => e[f] = 0
    BY <2>3, <2>4 DEF EventFields
  <2>7. QED
    BY <2>2, <2>4, <2>5, <2>6 DEF Clean
<1>6. ASSUME NEW top \in Tops, NEW t \in 1..MaxEvents, e = SnapshotEvent(top.bid, top.ask, t)
      PROVE  Clean(e)
  <2>1. /\ top.bid[1] \in Word /\ top.bid[2] \in Word /\ top.ask[1] \in Word
        /\ top.ask[2] \in Word /\ t \in Word
    BY <1>1, PublisherAssumption
  <2> DEFINE flags == (IF top.bid # NoTop THEN 1 ELSE 0) + (IF top.ask # NoTop THEN 2 ELSE 0)
  <2>2. flags \in Word
    BY IsWord
  <2>3. e = [BlankEvent EXCEPT
               !.type = "Snapshot", !.event_ns = t, !.snap_flags = flags,
               !.bid = top.bid[1], !.bid_qty = top.bid[2],
               !.ask = top.ask[1], !.ask_qty = top.ask[2]]
    BY <1>6 DEF SnapshotEvent
  <2> HIDE DEF flags
  <2>4. e = [f \in EventFields \cup {"type"} |-> e[f]]
    BY <2>3 DEF BlankEvent, EventFields
  <2>5. /\ e.type = "Snapshot"
        /\ e["side"] = 0 /\ e["order_id"] = 0 /\ e["price"] = 0 /\ e["qty"] = 0
        /\ e["bid"] = top.bid[1] /\ e["bid_qty"] = top.bid[2] /\ e["ask"] = top.ask[1] /\ e["ask_qty"] = top.ask[2]
        /\ e["snap_flags"] = flags /\ e["event_ns"] = t
    BY <2>3 DEF BlankEvent
  <2>6. Body(e.type) = {"snap_flags", "bid", "bid_qty", "ask", "ask_qty", "event_ns"} /\ e.type \in MsgTypes
    BY <2>5 DEF Body, MsgTypes
  <2>7. \A f \in EventFields : e[f] \in Word
    BY <1>2, <2>1, <2>2, <2>5, AllFields
  <2>8. \A f \in EventFields : f \notin Body(e.type) => e[f] = 0
    BY <2>5, <2>6 DEF EventFields
  <2>9. QED
    BY <2>4, <2>6, <2>7, <2>8 DEF Clean
<1>7. PICK t \in 1..MaxEvents : e \in EventsAt(t)
  BY DEF Events
<1>8. \/ \E o \in Orders : e = AddEvent(o, t) \/ e = CancelEvent(o, t) \/ e = ExecuteEvent(o, t)
      \/ \E top \in Tops : e = SnapshotEvent(top.bid, top.ask, t)
  BY <1>7, Zenon DEF EventsAt
<1>9. QED
  BY <1>3, <1>4, <1>5, <1>6, <1>8

-----------------------------------------------------------------------------
(***************************************************************************)
(* How many elements wait between two counters, and in which cells.        *)
(***************************************************************************)
Diff(h, t) == (h - t) % CtrMod

LEMMA DiffType ==
  ASSUME NEW h \in Ctr, NEW t \in Ctr
  PROVE  Diff(h, t) \in Ctr /\ (Diff(h, t) = 0 <=> h = t)
BY CtrDiff, SizeAssumption DEF Diff, Ctr

LEMMA HeadCell ==
  ASSUME NEW h \in Ctr, NEW t \in Ctr
  PROVE  Cell(h) = Cell(t + Diff(h, t))
<1>1. CASE t <= h
  BY <1>1, CtrDiff, SizeAssumption DEF Diff, Ctr
<1>2. CASE ~(t <= h)
  <2>1. t + Diff(h, t) = h + CtrMod
    BY <1>2, CtrDiff, SizeAssumption DEF Diff, Ctr
  <2>2. h \in Nat
    BY DEF Ctr
  <2>3. QED
    BY <2>1, <2>2, CellWraps
<1>3. QED
  BY <1>1, <1>2

LEMMA HeadStep ==
  ASSUME NEW h \in Ctr, NEW t \in Ctr, Diff(h, t) + 1 < CtrMod
  PROVE  Diff((h + 1) % CtrMod, t) = Diff(h, t) + 1
<1> DEFINE g == (h + 1) % CtrMod
<1>1. g = (IF h + 1 = CtrMod THEN 0 ELSE h + 1) /\ g \in Ctr
  BY CtrNext
<1> HIDE DEF g
<1>2. /\ Diff(h, t) = IF t <= h THEN h - t ELSE h - t + CtrMod
      /\ Diff(g, t) = IF t <= g THEN g - t ELSE g - t + CtrMod
  BY <1>1, CtrDiff DEF Diff
<1>3. QED
  <2>1. Diff(g, t) = Diff(h, t) + 1
    BY <1>1, <1>2, SizeAssumption DEF Ctr
  <2>2. QED
    BY <2>1 DEF g

LEMMA TailStep ==
  ASSUME NEW h \in Ctr, NEW t \in Ctr, Diff(h, t) >= 1
  PROVE  /\ Diff(h, (t + 1) % CtrMod) = Diff(h, t) - 1
         /\ \A i \in Nat : Cell(((t + 1) % CtrMod) + i) = Cell(t + (i + 1))
<1> DEFINE u == (t + 1) % CtrMod
<1>1. u = (IF t + 1 = CtrMod THEN 0 ELSE t + 1) /\ u \in Ctr
  BY CtrNext
<1> HIDE DEF u
<1>2. /\ Diff(h, t) = IF t <= h THEN h - t ELSE h - t + CtrMod
      /\ Diff(h, u) = IF u <= h THEN h - u ELSE h - u + CtrMod
  BY <1>1, CtrDiff DEF Diff
<1>3. Diff(h, u) = Diff(h, t) - 1
  BY <1>1, <1>2, SizeAssumption DEF Ctr
<1>4. ASSUME NEW i \in Nat PROVE Cell(u + i) = Cell(t + (i + 1))
  <2>1. CASE t + 1 = CtrMod
    <3>1. u + i = i /\ t + (i + 1) = i + CtrMod
      BY <1>1, <2>1, SizeAssumption DEF Ctr
    <3>2. QED
      BY <3>1, CellWraps
  <2>2. CASE t + 1 # CtrMod
    <3>1. u + i = t + (i + 1)
      BY <1>1, <2>2, SizeAssumption DEF Ctr
    <3>2. QED
      BY <3>1
  <2>3. QED
    BY <2>1, <2>2
<1>5. QED
  BY <1>3, <1>4 DEF u

\* The test of try_push says what it is meant to say.
LEMMA FullIs ==
  ASSUME head \in Ctr, tail \in Ctr, Waiting <= Size
  PROVE  Full <=> Waiting = Size
<1>1. Waiting = Diff(head, tail) /\ Waiting \in Ctr
  BY DiffType DEF Waiting, Diff
<1>2. Waiting = IF tail <= head THEN head - tail ELSE head - tail + CtrMod
  BY CtrDiff DEF Waiting
<1>3. (head + 1 - tail) % CtrMod = Waiting + 1
  <2>1. Waiting + 1 < CtrMod
    BY <1>1, CtrModMultiple, SizeAssumption DEF Ctr
  <2>2. CASE head + 1 < CtrMod
    <3>1. head + 1 \in Ctr
      BY <2>2, SizeAssumption DEF Ctr
    <3>2. (head + 1 - tail) % CtrMod = IF tail <= head + 1 THEN head + 1 - tail
                                       ELSE head + 1 - tail + CtrMod
      <4> DEFINE g == head + 1
      <4>1. g \in Ctr
        BY <3>1
      <4> HIDE DEF g
      <4>2. (g - tail) % CtrMod = IF tail <= g THEN g - tail ELSE g - tail + CtrMod
        BY <4>1, CtrDiff
      <4>3. head + 1 - tail = g - tail /\ head + 1 - tail + CtrMod = g - tail + CtrMod
        BY SizeAssumption DEF g, Ctr
      <4>4. QED
        BY <4>2, <4>3 DEF g
    <3>3. QED
      BY <1>2, <2>1, <3>2, SizeAssumption DEF Ctr
  <2>3. CASE head + 1 = CtrMod
    <3>1. head + 1 - tail = Waiting + 1 /\ Waiting + 1 \in Nat
      BY <1>1, <1>2, <2>3, SizeAssumption DEF Ctr
    <3>2. (Waiting + 1) % CtrMod = Waiting + 1
      BY <2>1, <3>1, SizeAssumption
    <3>3. QED
      BY <3>1, <3>2
  <2>4. QED
    BY <2>2, <2>3, SizeAssumption DEF Ctr
<1>4. QED
  BY <1>1, <1>3, SizeAssumption DEF Full, Ctr

-----------------------------------------------------------------------------
(***************************************************************************)
(* The bytes of a message are the sum of the bytes of its fields.          *)
(***************************************************************************)
FieldBytes == [f \in EventFields |-> IF f \in ByteFields THEN 1 ELSE 8]

LEMMA EventFieldsFinite == IsFiniteSet(EventFields)
<1>1. \A a, b : IsFiniteSet({a} \cup {b})
  BY FS_Singleton, FS_Union
<1>2. \A a, b, c, d : IsFiniteSet(({a} \cup {b}) \cup ({c} \cup {d}))
  BY <1>1, FS_Union
<1>3. IsFiniteSet((({"side"} \cup {"order_id"}) \cup ({"price"} \cup {"qty"}))
        \cup (({"bid"} \cup {"bid_qty"}) \cup ({"ask"} \cup {"ask_qty"})))
  BY <1>2, FS_Union
<1> DEFINE S == (({"side"} \cup {"order_id"}) \cup ({"price"} \cup {"qty"}))
                  \cup (({"bid"} \cup {"bid_qty"}) \cup ({"ask"} \cup {"ask_qty"}))
           T == {"snap_flags"} \cup {"event_ns"}
<1>4. IsFiniteSet(S) /\ IsFiniteSet(T) /\ EventFields = S \cup T
  BY <1>1, <1>3 DEF EventFields
<1> HIDE DEF S, T
<1>5. QED
  BY <1>4, FS_Union

LEMMA MsgBytesIs ==
  ASSUME NEW type \in MsgTypes
  PROVE  MsgBytes(type) = 1 + Sum(FieldBytes, Body(type))
<1> DEFINE w == FieldBytes
           T == Body(type)
<1>1. IsFiniteSet(T)
  BY EventFieldsFinite, BodyFields, FS_Subset
<1>2. \A s \in SUBSET T : s # {} => w[Pick(s)] = IF Pick(s) \in ByteFields THEN 1 ELSE 8
  BY PickIn, BodyFields DEF FieldBytes
<1>3. ASSUME NEW g
      PROVE  [s \in SUBSET T |-> IF s = {} THEN 0
                ELSE (IF Pick(s) \in ByteFields THEN 1 ELSE 8) + g[s \ {Pick(s)}]]
             = [s \in SUBSET T |-> IF s = {} THEN 0 ELSE w[Pick(s)] + g[s \ {Pick(s)}]]
  BY <1>2
<1>4. MsgBytes(type) = 1 + (CHOOSE g : g = [s \in SUBSET T |-> IF s = {} THEN 0
            ELSE (IF Pick(s) \in ByteFields THEN 1 ELSE 8) + g[s \ {Pick(s)}]])[T]
  BY DEF MsgBytes, MapThenSumSet, MapThenFoldSet, Pick
<1> DEFINE h == CHOOSE g : g = [s \in SUBSET T |-> IF s = {} THEN 0
                  ELSE (IF Pick(s) \in ByteFields THEN 1 ELSE 8) + g[s \ {Pick(s)}]]
<1> HIDE DEF w, T
<1>5. SumFcn(w, T) = [s \in SUBSET T |-> IF s = {} THEN 0
            ELSE (IF Pick(s) \in ByteFields THEN 1 ELSE 8) + SumFcn(w, T)[s \ {Pick(s)}]]
  <2> DEFINE f == SumFcn(w, T)
  <2>1. Sums(f, w, T)
    BY <1>1, SumsExist
  <2> HIDE DEF f
  <2>2. f = [s \in SUBSET T |-> IF s = {} THEN 0 ELSE w[Pick(s)] + f[s \ {Pick(s)}]]
    BY <2>1 DEF Sums
  <2>3. f = [s \in SUBSET T |-> IF s = {} THEN 0
              ELSE (IF Pick(s) \in ByteFields THEN 1 ELSE 8) + f[s \ {Pick(s)}]]
    BY <1>3, <2>2, Zenon
  <2>4. QED
    BY <2>3 DEF f
<1>6. h = [s \in SUBSET T |-> IF s = {} THEN 0
             ELSE (IF Pick(s) \in ByteFields THEN 1 ELSE 8) + h[s \ {Pick(s)}]]
  BY <1>5, Zenon
<1> HIDE DEF h
<1>7. Sums(h, w, T)
  BY <1>3, <1>6 DEF Sums
<1>8. Sums(SumFcn(w, T), w, T) /\ T \in SUBSET T
  BY <1>1, SumsExist
<1>9. h[T] = SumFcn(w, T)[T]
  BY <1>1, <1>7, <1>8, SumsAgree
<1>10. QED
  BY <1>4, <1>9 DEF h, w, T, Sum

\* The sizes of the packed structs and the type byte.
LEMMA MsgSizes ==
  /\ MsgBytes("Add") = 34 /\ MsgBytes("Cancel") = 17
  /\ MsgBytes("Execute") = 33 /\ MsgBytes("Snapshot") = 42
<1> DEFINE w == FieldBytes
<1>1. IsFiniteSet(EventFields) /\ w \in [EventFields -> Nat]
  BY EventFieldsFinite DEF FieldBytes
<1>2. /\ w["side"] = 1 /\ w["snap_flags"] = 1 /\ w["order_id"] = 8 /\ w["price"] = 8
      /\ w["qty"] = 8 /\ w["bid"] = 8 /\ w["bid_qty"] = 8 /\ w["ask"] = 8 /\ w["ask_qty"] = 8
      /\ w["event_ns"] = 8
  BY DEF FieldBytes, EventFields, ByteFields
<1>3. Sum(w, {}) = 0
  BY <1>1, SumUnfold
<1> HIDE DEF w
<1>4. Sum(w, {} \cup {"event_ns"}) = 8
  BY <1>1, <1>2, <1>3, SumAdd DEF EventFields
<1> DEFINE N == {} \cup {"event_ns"}
           NI == N \cup {"order_id"}
           NIP == NI \cup {"price"}
           NIPQ == NIP \cup {"qty"}
<1>5. Sum(w, NI) = 16
  BY <1>1, <1>2, <1>4, SumAdd DEF EventFields
<1>6. Sum(w, NIP) = 24
  BY <1>1, <1>2, <1>5, SumAdd DEF EventFields
<1>7. Sum(w, NIPQ) = 32
  BY <1>1, <1>2, <1>6, SumAdd DEF EventFields
<1>8. Sum(w, NIPQ \cup {"side"}) = 33
  BY <1>1, <1>2, <1>7, SumAdd DEF EventFields
<1>9. Sum(w, N \cup {"bid"}) = 16
  BY <1>1, <1>2, <1>4, SumAdd DEF EventFields
<1> DEFINE B == N \cup {"bid"}
           BQ == B \cup {"bid_qty"}
           BQA == BQ \cup {"ask"}
           BQAQ == BQA \cup {"ask_qty"}
<1>10. Sum(w, BQ) = 24
  BY <1>1, <1>2, <1>9, SumAdd DEF EventFields
<1>11. Sum(w, BQA) = 32
  BY <1>1, <1>2, <1>10, SumAdd DEF EventFields
<1>12. Sum(w, BQAQ) = 40
  BY <1>1, <1>2, <1>11, SumAdd DEF EventFields
<1>13. Sum(w, BQAQ \cup {"snap_flags"}) = 41
  BY <1>1, <1>2, <1>12, SumAdd DEF EventFields
<1>14. /\ Body("Add") = NIPQ \cup {"side"} /\ Body("Cancel") = NI /\ Body("Execute") = NIPQ
       /\ Body("Snapshot") = BQAQ \cup {"snap_flags"}
  BY DEF Body
<1>15. \A type \in MsgTypes : MsgBytes(type) = 1 + Sum(w, Body(type))
  BY MsgBytesIs DEF w
<1> HIDE DEF BQAQ, NIPQ, NI
<1>16. QED
  BY <1>5, <1>7, <1>8, <1>13, <1>14, <1>15 DEF MsgTypes

LEMMA MsgBytesBound ==
  ASSUME NEW type \in MsgTypes
  PROVE  MsgBytes(type) \in 1..MaxMsgBytes /\ MaxMsgBytes = 42
BY MsgSizes DEF MsgTypes, MaxMsgBytes

-----------------------------------------------------------------------------
(***************************************************************************)
(* The invariant of the ring: never more than Size elements wait, a        *)
(* producer in the middle of try_push has a free cell, which it has filled *)
(* before it stores head_, and a consumer in the middle of try_pop has an  *)
(* element.                                                                *)
(***************************************************************************)
Vals == Events \cup {NoValue}

RingOK ==
  /\ head \in Ctr /\ tail \in Ctr /\ Waiting <= Size
  /\ buf \in [Cells -> Vals]
  /\ prod \in [pc : {"idle", "write", "store"}, val : Vals]
  /\ cons \in [pc : {"idle", "read", "store"}, val : Vals]
  /\ prod.pc # "idle" => Waiting < Size /\ prod.val \in Events
  /\ prod.pc = "store" => buf[Cell(head)] = prod.val
  /\ cons.pc # "idle" => Waiting >= 1
  /\ cons.pc = "store" => cons.val = buf[Cell(tail)]
  /\ \A i \in Nat : i < Waiting => buf[Cell(tail + i)] \in Events

LEMMA RingFacts ==
  ASSUME RingOK
  PROVE  /\ head \in Nat /\ tail \in Nat /\ Waiting \in Nat /\ Waiting + 1 < CtrMod
         /\ Waiting = Diff(head, tail) /\ Cell(head) = Cell(tail + Waiting)
         /\ Cell(head) \in Cells /\ Cell(tail) \in Cells
<1>1. head \in Ctr /\ tail \in Ctr /\ Waiting <= Size /\ Waiting = Diff(head, tail)
  BY DEF RingOK, Waiting, Diff
<1>2. Waiting \in Ctr /\ head \in Nat /\ tail \in Nat
  BY <1>1, DiffType DEF Ctr
<1>3. QED
  BY <1>1, <1>2, HeadCell, CellType, CtrModMultiple, SizeAssumption DEF Ctr

LEMMA PushCheckRing ==
  ASSUME RingOK, NEW v \in Events, PushCheck(v)
  PROVE  RingOK'
<1>1. UNCHANGED <<buf, head, tail, cons>> /\ Waiting' = Waiting
      /\ prod' = [pc |-> "write", val |-> v]
  BY DEF PushCheck, Waiting
<1>2. Waiting < Size
  BY FullIs, RingFacts, SizeAssumption DEF RingOK, PushCheck
<1> HIDE DEF Waiting
<1>3. QED
  BY <1>1, <1>2 DEF RingOK, Vals

LEMMA PushWriteRing ==
  ASSUME RingOK, PushWrite
  PROVE  RingOK'
<1>1. /\ UNCHANGED <<head, tail, cons>> /\ Waiting' = Waiting
      /\ prod' = [prod EXCEPT !.pc = "store"] /\ buf' = [buf EXCEPT ![Cell(head)] = prod.val]
      /\ prod.pc = "write"
  BY DEF PushWrite, Waiting, Cell
<1>2. Waiting < Size /\ prod.val \in Events
  BY <1>1 DEF RingOK
<1>3. \A i \in Nat : i < Waiting => buf'[Cell(tail + i)] = buf[Cell(tail + i)]
  <2> SUFFICES ASSUME NEW i \in Nat, i < Waiting
               PROVE  Cell(tail + i) # Cell(head) /\ Cell(tail + i) \in Cells
    BY <1>1, RingFacts DEF RingOK
  <2>1. /\ tail + i \in Nat /\ tail + Waiting \in Nat
        /\ tail + i < tail + Waiting /\ tail + Waiting < (tail + i) + Size
    BY <1>2, RingFacts, SizeAssumption
  <2>2. QED
    BY <2>1, CellDistinct, CellType, RingFacts
<1>4. buf'[Cell(head)] = prod.val /\ buf' \in [Cells -> Vals]
  BY <1>1, <1>2, RingFacts DEF RingOK, Vals
<1>5. prod' \in [pc : {"idle", "write", "store"}, val : Vals] /\ prod'.val = prod.val
  BY <1>1 DEF RingOK
<1>6. cons.pc # "idle" => buf'[Cell(tail)] = buf[Cell(tail)]
  <2>1. tail + 0 = tail
    BY RingFacts
  <2>2. QED
    BY <1>3, <2>1, RingFacts DEF RingOK
<1> HIDE DEF Waiting
<1>7. QED
  BY <1>1, <1>2, <1>3, <1>4, <1>5, <1>6 DEF RingOK

LEMMA PushStoreRing ==
  ASSUME RingOK, PushStore
  PROVE  RingOK' /\ Waiting' = Waiting + 1
<1>1. /\ UNCHANGED <<buf, tail, cons>> /\ prod' = IdleSide /\ head' = (head + 1) % CtrMod
      /\ prod.pc = "store"
  BY DEF PushStore
<1>2. Waiting < Size /\ prod.val \in Events /\ buf[Cell(head)] = prod.val
  BY <1>1 DEF RingOK
<1>3. Waiting' = Waiting + 1 /\ head' \in Ctr
  <2>1. Waiting' = Diff(head', tail')
    BY DEF Waiting, Diff
  <2>2. QED
    BY <1>1, <2>1, HeadStep, CtrNext, RingFacts DEF RingOK
<1>4. ASSUME NEW i \in Nat, i < Waiting + 1 PROVE buf[Cell(tail + i)] \in Events
  <2>1. CASE i < Waiting
    BY <2>1 DEF RingOK
  <2>2. CASE i = Waiting
    BY <1>2, <2>2, RingFacts
  <2>3. QED
    BY <2>1, <2>2, <1>4, RingFacts
<1>5. prod' \in [pc : {"idle", "write", "store"}, val : Vals] /\ prod'.pc = "idle"
  BY <1>1 DEF IdleSide, Vals
<1> HIDE DEF Waiting
<1>6. Waiting' <= Size /\ Waiting' >= 1
  BY <1>2, <1>3, RingFacts, SizeAssumption
<1>7. QED
  BY <1>1, <1>3, <1>4, <1>5, <1>6 DEF RingOK

LEMMA PopCheckRing ==
  ASSUME RingOK, PopCheck
  PROVE  RingOK'
<1>1. /\ UNCHANGED <<buf, head, tail, prod>> /\ Waiting' = Waiting
      /\ cons' = [cons EXCEPT !.pc = "read"] /\ head # tail
  BY DEF PopCheck, Waiting, Empty
<1>2. Waiting >= 1
  BY <1>1, RingFacts, DiffType DEF RingOK
<1> HIDE DEF Waiting
<1>3. QED
  BY <1>1, <1>2 DEF RingOK

LEMMA PopReadRing ==
  ASSUME RingOK, PopRead
  PROVE  RingOK'
<1>1. /\ UNCHANGED <<buf, head, tail, prod>> /\ Waiting' = Waiting
      /\ cons' = [pc |-> "store", val |-> buf[Cell(tail)]] /\ cons.pc = "read"
  BY DEF PopRead, Waiting, Cell
<1>2. buf[Cell(tail)] \in Vals
  BY RingFacts DEF RingOK
<1> HIDE DEF Waiting
<1>3. QED
  BY <1>1, <1>2 DEF RingOK

LEMMA PopStoreRing ==
  ASSUME RingOK, PopStore
  PROVE  RingOK' /\ Waiting' = Waiting - 1 /\ cons.val = buf[Cell(tail)] /\ cons.val \in Events
<1>1. /\ UNCHANGED <<buf, head, prod>> /\ cons' = IdleSide /\ tail' = (tail + 1) % CtrMod
      /\ cons.pc = "store"
  BY DEF PopStore
<1>2. Waiting >= 1 /\ cons.val = buf[Cell(tail)]
  BY <1>1 DEF RingOK
<1>3. cons.val \in Events
  <2>1. tail + 0 = tail /\ 0 < Waiting
    BY <1>2, RingFacts
  <2>2. QED
    BY <1>2, <2>1 DEF RingOK
<1>4. /\ Waiting' = Waiting - 1 /\ tail' \in Ctr
      /\ \A i \in Nat : Cell(tail' + i) = Cell(tail + (i + 1))
  <2>1. Waiting' = Diff(head', tail')
    BY DEF Waiting, Diff
  <2>2. QED
    BY <1>1, <1>2, <2>1, TailStep, CtrNext, RingFacts DEF RingOK
<1>5. \A i \in Nat : i < Waiting - 1 => buf[Cell(tail' + i)] \in Events
  BY <1>4, RingFacts DEF RingOK
<1>6. cons' \in [pc : {"idle", "read", "store"}, val : Vals] /\ cons'.pc = "idle"
  BY <1>1 DEF IdleSide, Vals
<1> HIDE DEF Waiting
<1>7. Waiting' <= Size /\ (Waiting < Size => Waiting' < Size)
  BY <1>4, RingFacts, SizeAssumption DEF RingOK
<1>8. QED
  BY <1>1, <1>2, <1>3, <1>4, <1>5, <1>6, <1>7 DEF RingOK

-----------------------------------------------------------------------------
(***************************************************************************)
(* The invariant of the two threads: there is a publisher thread exactly   *)
(* when run_ is set or stop is waiting for it, the socket is open as long  *)
(* as there is one, and it is in try_pop only with room for one message.   *)
(***************************************************************************)
Batches == {PackMsg(e) : e \in Events}
PubPcs == {"none", "boot", "top", "fill", "send", "exited"}

ThreadOK ==
  /\ owner \in {"free", "join"} /\ run \in BOOLEAN /\ sock \in BOOLEAN
  /\ pub \in [pc : PubPcs, batch : Seq(Batches), off : Nat]
  /\ owner = "join" => ~run /\ pub.pc # "none"
  /\ owner = "free" /\ ~run => pub.pc = "none"
  /\ run => pub.pc # "none"
  /\ pub.pc # "none" => sock
  /\ cons.pc # "idle" => pub.pc = "fill" /\ HasRoom
  /\ pub.off <= Payload
  /\ pub.pc = "send" => pub.batch # <<>>

CallsOK ==
  /\ calls \in [publish : Nat, start : Nat]
  /\ calls.publish <= MaxEvents

FeedOK == RingOK /\ ThreadOK /\ CallsOK

LEMMA InitFeed == Init => FeedOK
<1> SUFFICES ASSUME Init PROVE FeedOK
  OBVIOUS
<1>1. RingOK
  <2>1. head = CtrStart /\ tail = CtrStart /\ CtrStart \in Ctr /\ prod = IdleSide /\ cons = IdleSide
        /\ buf = [i \in Cells |-> NoValue]
    BY SizeAssumption DEF Init, PubInit, RingInit, Ctr, Cells
  <2>2. Waiting = 0
    BY <2>1, DiffType DEF Waiting, Diff
  <2>3. buf \in [Cells -> Vals] /\ IdleSide.pc = "idle"
        /\ IdleSide \in [pc : {"idle", "write", "store"}, val : Vals]
        /\ IdleSide \in [pc : {"idle", "read", "store"}, val : Vals]
    BY <2>1 DEF Vals, IdleSide
  <2>4. QED
    BY <2>1, <2>2, <2>3, SizeAssumption DEF RingOK
<1>2. ThreadOK
  <2>1. pub \in [pc : PubPcs, batch : Seq(Batches), off : Nat] /\ pub.pc = "none" /\ pub.off = 0
    <3>1. pub = [pc |-> "none", batch |-> <<>>, off |-> 0]
      BY DEF Init, PubInit, NoThread, NewThread
    <3>2. <<>> \in Seq(Batches)
      BY EmptySeq
    <3>3. QED
      BY <3>1, <3>2 DEF PubPcs
  <2>2. owner = "free" /\ run = FALSE /\ sock = FALSE /\ cons.pc = "idle"
    BY DEF Init, PubInit, RingInit, IdleSide
  <2>3. pub.off <= Payload
    BY <2>1, PayloadAssumption
  <2>4. QED
    BY <2>1, <2>2, <2>3, Zenon DEF ThreadOK
<1>3. CallsOK
  BY PublisherAssumption, WordIs DEF CallsOK, Init, PubInit, NoCalls
<1>4. QED
  BY <1>1, <1>2, <1>3 DEF FeedOK

\* An event that is published is one of Events.
Publishes(e) == Enqueue(e) /\ e \in Events

LEMMA PublishedEvent ==
  ASSUME CallsOK,
         \/ \E o \in Orders : PublishAdd(o) \/ PublishCancel(o) \/ PublishExecute(o)
         \/ \E top \in Tops : PublishSnapshot(top.bid, top.ask)
  PROVE  \E e : Publishes(e)
<1>1. ASSUME NEW e, Enqueue(e), e \in EventsAt(Now) PROVE Publishes(e)
  <2>1. Now \in 1..MaxEvents
    BY <1>1, PublisherAssumption, WordIs DEF Enqueue, Now, CallsOK
  <2>2. QED
    BY <1>1, <2>1 DEF Events, Publishes
<1>2. ASSUME NEW o \in Orders, PublishAdd(o) \/ PublishCancel(o) \/ PublishExecute(o)
      PROVE  \E e : Publishes(e)
  BY <1>1, <1>2 DEF PublishAdd, PublishCancel, PublishExecute, EventsAt
<1>3. ASSUME NEW top \in Tops, PublishSnapshot(top.bid, top.ask)
      PROVE  \E e : Publishes(e)
  BY <1>1, <1>3 DEF PublishSnapshot, EventsAt
<1>4. QED
  BY <1>2, <1>3

\* The publisher's actions, with what they are about.
PubCases ==
  \/ \E ok \in BOOLEAN : Start(ok)
  \/ Stop
  \/ \E e : Publishes(e)
  \/ EnqueueWrite \/ EnqueueStore \/ StopJoined
  \/ Boot \/ LoopTop \/ FillPop \/ FillRead \/ FillPack \/ FillEnd
  \/ \E ok \in BOOLEAN : Send(ok)
  \/ UNCHANGED feedVars

LEMMA NextCases == CallsOK /\ [Next]_allVars => PubCases
<1>1. ASSUME CallsOK, PubNext PROVE PubCases
  <2>1. ASSUME \/ \E o \in Orders : PublishAdd(o) \/ PublishCancel(o) \/ PublishExecute(o)
               \/ \E top \in Tops : PublishSnapshot(top.bid, top.ask)
        PROVE  PubCases
    BY <1>1, <2>1, PublishedEvent DEF PubCases
  <2>2. QED
    BY <1>1, <2>1 DEF PubNext, OwnerStep, PubStep, PubCases
<1>2. ASSUME Next, ~PubNext PROVE UNCHANGED feedVars
  BY <1>2
  DEF Next, RxStart, RxStop, RxExit, RxClose, Poll, PollError, PollOwn, PollForeign
<1>3. ASSUME UNCHANGED allVars PROVE UNCHANGED feedVars
  BY <1>3 DEF allVars
<1>4. QED
  BY <1>1, <1>2, <1>3 DEF PubCases

LEMMA RingStutter == ASSUME RingOK, UNCHANGED ringVars PROVE RingOK' /\ Waiting' = Waiting
<1>1. UNCHANGED <<buf, head, tail, prod, cons>> /\ Waiting' = Waiting
  BY DEF ringVars, Waiting
<1> HIDE DEF Waiting
<1>2. QED
  BY <1>1 DEF RingOK

LEMMA RingPreserved == RingOK /\ PubCases => RingOK'
<1>1. ASSUME RingOK, NEW e, Publishes(e) PROVE RingOK'
  BY <1>1, PushCheckRing, RingStutter DEF Publishes, Enqueue
<1>2. ASSUME RingOK, UNCHANGED ringVars PROVE RingOK'
  BY <1>2, RingStutter
<1>3. QED
  BY <1>1, <1>2, PushWriteRing, PushStoreRing, PopCheckRing, PopReadRing, PopStoreRing
  DEF PubCases, Start, Stop, StopJoined, EnqueueWrite, EnqueueStore, Boot, LoopTop, FillPop,
      FillRead, FillPack, FillEnd, Send, feedVars

LEMMA CallsPreserved == CallsOK /\ PubCases => CallsOK'
<1> SUFFICES ASSUME CallsOK, PubCases PROVE CallsOK'
  OBVIOUS
<1>1. ASSUME NEW ok, Start(ok) PROVE CallsOK'
  BY <1>1 DEF Start, CallsOK
<1>2. ASSUME NEW e, Publishes(e) PROVE CallsOK'
  BY <1>2, PublisherAssumption, WordIs DEF Publishes, Enqueue, CallsOK
<1>3. ASSUME UNCHANGED calls PROVE CallsOK'
  BY <1>3 DEF CallsOK
<1>4. QED
  BY <1>1, <1>2, <1>3
  DEF PubCases, Stop, StopJoined, EnqueueWrite, EnqueueStore, Boot, LoopTop, FillPop,
      FillRead, FillPack, FillEnd, Send, feedVars, pubVars

LEMMA ThreadPreserved == FeedOK /\ PubCases => ThreadOK'
<1> SUFFICES ASSUME FeedOK, PubCases PROVE ThreadOK'
  OBVIOUS
<1> USE DEF FeedOK
<1>1. ASSUME NEW ok \in BOOLEAN, Start(ok) PROVE ThreadOK'
  <2>1. CASE run \/ ~ok
    <3>1. UNCHANGED <<owner, run, sock, pub, cons>>
      BY <1>1, <2>1 DEF Start, ringVars
    <3>2. QED
      BY <3>1 DEF ThreadOK, HasRoom
  <2>2. CASE ~(run \/ ~ok)
    <3>1. /\ owner' = "free" /\ run' = TRUE /\ sock' = TRUE /\ cons' = cons
          /\ pub' = [pc |-> "boot", batch |-> <<>>, off |-> 0] /\ pub.pc = "none"
      BY <1>1, <2>2, Zenon DEF Start, ringVars, OwnerFree, NewThread, ThreadOK
    <3>2. cons'.pc = "idle"
      BY <3>1 DEF ThreadOK
    <3>3. <<>> \in Seq(Batches)
      BY EmptySeq
    <3>4. pub' \in [pc : PubPcs, batch : Seq(Batches), off : Nat] /\ pub'.pc = "boot" /\ pub'.off = 0
      BY <3>1, <3>3 DEF PubPcs
    <3>5. pub'.off <= Payload
      BY <3>4, PayloadAssumption
    <3>6. QED
      BY <3>1, <3>2, <3>4, <3>5 DEF ThreadOK
  <2>3. QED
    BY <2>1, <2>2
<1>2. ASSUME Stop PROVE ThreadOK'
  <2>1. UNCHANGED <<pub, cons>> /\ run' = FALSE /\ owner = "free"
    BY <1>2 DEF Stop, ringVars, OwnerFree
  <2>2. UNCHANGED HasRoom
    BY <2>1 DEF HasRoom
  <2>3. CASE run
    <3>1. owner' = "join" /\ sock' = sock
      BY <1>2, <2>3 DEF Stop
    <3>2. pub.pc # "none"
      BY <2>3 DEF ThreadOK
    <3>3. QED
      BY <2>1, <2>2, <2>3, <3>1, <3>2 DEF ThreadOK
  <2>4. CASE ~run
    BY <1>2, <2>1, <2>2, <2>4 DEF Stop, ThreadOK
  <2>5. QED
    BY <2>3, <2>4
<1>3. ASSUME StopJoined PROVE ThreadOK'
  <2>1. /\ owner' = "free" /\ sock' = FALSE /\ pub' = [pc |-> "none", batch |-> <<>>, off |-> 0]
        /\ run' = run /\ cons' = cons /\ owner = "join" /\ pub.pc = "exited"
    BY <1>3 DEF StopJoined, ringVars, NoThread, NewThread
  <2>2. ~run /\ cons.pc = "idle"
    BY <2>1 DEF ThreadOK
  <2>3. <<>> \in Seq(Batches)
    BY EmptySeq
  <2>4. pub' \in [pc : PubPcs, batch : Seq(Batches), off : Nat] /\ pub'.pc = "none" /\ pub'.off = 0
    BY <2>1, <2>3 DEF PubPcs
  <2>5. pub'.off <= Payload
    BY <2>4, PayloadAssumption
  <2>6. QED
    BY <2>1, <2>2, <2>4, <2>5 DEF ThreadOK
<1>4. ASSUME UNCHANGED <<owner, run, sock, pub, cons>> PROVE ThreadOK'
  BY <1>4 DEF ThreadOK, HasRoom
<1>5. ASSUME NEW e, Publishes(e) PROVE UNCHANGED <<owner, run, sock, pub, cons>>
  BY <1>5 DEF Publishes, Enqueue, PushCheck, ringVars
<1>6. ASSUME EnqueueWrite \/ EnqueueStore PROVE UNCHANGED <<owner, run, sock, pub, cons>>
  BY <1>6 DEF EnqueueWrite, EnqueueStore, PushWrite, PushStore, pubVars
\* A step of the publisher thread that leaves the owner, run_ and the socket alone.
<1>7. ASSUME UNCHANGED <<owner, run, sock>>, pub.pc # "none", pub'.pc # "none",
             pub' \in [pc : PubPcs, batch : Seq(Batches), off : Nat], pub'.off <= Payload,
             cons'.pc # "idle" => pub'.pc = "fill" /\ HasRoom',
             pub'.pc = "send" => pub'.batch # <<>>
      PROVE  ThreadOK'
  BY <1>7 DEF ThreadOK
<1>8. ASSUME Boot PROVE ThreadOK'
  <2>1. /\ pub.pc = "boot" /\ UNCHANGED <<owner, run, sock, cons>>
        /\ \E c \in {"top", "exited"} : pub' = [pub EXCEPT !.pc = c]
    BY <1>8 DEF Boot, ringVars
  <2>2. QED
    BY <1>7, <2>1 DEF ThreadOK, PubPcs
<1>9. ASSUME LoopTop PROVE ThreadOK'
  <2>1. /\ pub.pc = "top" /\ UNCHANGED <<owner, run, sock, cons>>
        /\ \/ pub' = [pc |-> "fill", batch |-> <<>>, off |-> HdrBytes]
           \/ pub' = [pub EXCEPT !.pc = "exited"]
    BY <1>9 DEF LoopTop, ringVars
  <2>2. <<>> \in Seq(Batches) /\ HdrBytes \in Nat /\ HdrBytes <= Payload /\ cons.pc = "idle"
    BY <2>1, PayloadAssumption, EmptySeq DEF HdrBytes, ThreadOK
  <2> HIDE DEF HdrBytes
  <2>3. CASE pub' = [pc |-> "fill", batch |-> <<>>, off |-> HdrBytes]
    <3>1. pub' \in [pc : PubPcs, batch : Seq(Batches), off : Nat] /\ pub'.off = HdrBytes
          /\ pub'.pc = "fill"
      BY <2>2, <2>3 DEF PubPcs
    <3>2. QED
      BY <1>7, <2>1, <2>2, <3>1
  <2>4. CASE pub' = [pub EXCEPT !.pc = "exited"]
    <3>1. pub' \in [pc : PubPcs, batch : Seq(Batches), off : Nat] /\ pub'.off = pub.off
          /\ pub'.pc = "exited"
      BY <2>4 DEF ThreadOK, PubPcs
    <3>2. QED
      BY <1>7, <2>1, <2>2, <3>1 DEF ThreadOK
  <2>5. QED
    BY <2>1, <2>3, <2>4
<1>10. ASSUME FillPop PROVE ThreadOK'
  <2>1. /\ pub.pc = "fill" /\ HasRoom /\ UNCHANGED <<owner, run, sock, pub>>
    BY <1>10 DEF FillPop, pubVars
  <2>2. HasRoom'
    BY <2>1 DEF HasRoom
  <2>3. QED
    BY <1>7, <2>1, <2>2 DEF ThreadOK
<1>11. ASSUME FillRead PROVE ThreadOK'
  <2>1. /\ cons.pc = "read" /\ UNCHANGED <<owner, run, sock, pub>>
    BY <1>11 DEF FillRead, PopRead, pubVars
  <2>2. pub.pc = "fill" /\ HasRoom
    BY <2>1 DEF ThreadOK
  <2>3. HasRoom'
    BY <2>1, <2>2 DEF HasRoom
  <2>4. QED
    BY <1>7, <2>1, <2>2, <2>3 DEF ThreadOK
<1>12. ASSUME FillPack PROVE ThreadOK'
  <2>1. /\ UNCHANGED <<owner, run, sock>> /\ cons'.pc = "idle" /\ cons.pc = "store"
        /\ pub' = [pub EXCEPT !.batch = Append(@, PackMsg(cons.val)),
                              !.off = @ + MsgBytes(cons.val.type)]
    BY <1>12 DEF FillPack, PopStore, IdleSide
  <2>2. pub.pc = "fill" /\ HasRoom
    BY <2>1 DEF ThreadOK
  <2>3. cons.val \in Events
    BY <1>12, PopStoreRing DEF FillPack
  <2>4. PackMsg(cons.val) \in Batches /\ cons.val.type \in MsgTypes
    BY <2>3, EventsClean DEF Batches, Clean
  <2>5. MsgBytes(cons.val.type) \in Nat /\ MsgBytes(cons.val.type) <= MaxMsgBytes
        /\ MaxMsgBytes \in Nat
    BY <2>4, MsgBytesBound
  <2> DEFINE m == PackMsg(cons.val)
             n == MsgBytes(cons.val.type)
  <2>6. /\ m \in Batches /\ n \in Nat /\ n <= MaxMsgBytes /\ MaxMsgBytes \in Nat
        /\ pub' = [pub EXCEPT !.batch = Append(@, m), !.off = @ + n]
    BY <2>1, <2>4, <2>5
  <2> HIDE DEF m, n
  <2>7. pub' \in [pc : PubPcs, batch : Seq(Batches), off : Nat] /\ pub'.pc = "fill"
        /\ pub'.off = pub.off + n
    <3>1. Append(pub.batch, m) \in Seq(Batches)
      BY <2>6, AppendProperties DEF ThreadOK
    <3> DEFINE b == Append(pub.batch, m)
               k == pub.off + n
    <3>2. b \in Seq(Batches) /\ k \in Nat /\ pub' = [pub EXCEPT !.batch = b, !.off = k]
      BY <2>6, <3>1 DEF ThreadOK
    <3> HIDE DEF b, k
    <3>3. pub' \in [pc : PubPcs, batch : Seq(Batches), off : Nat] /\ pub'.pc = pub.pc
          /\ pub'.off = k
      BY <3>2 DEF ThreadOK
    <3>4. QED
      BY <2>2, <3>3 DEF k
  <2>8. pub'.off <= Payload
    BY <2>2, <2>6, <2>7, PayloadAssumption DEF HasRoom, ThreadOK
  <2>9. QED
    BY <1>7, <2>1, <2>2, <2>7, <2>8
<1>13. ASSUME FillEnd PROVE ThreadOK'
  <2>1. /\ pub.pc = "fill" /\ cons.pc = "idle" /\ UNCHANGED <<owner, run, sock, cons>>
        /\ \/ pub' = [pub EXCEPT !.pc = "top"]
           \/ pub.batch # <<>> /\ pub' = [pub EXCEPT !.pc = "send"]
    BY <1>13 DEF FillEnd, ringVars
  <2>2. QED
    BY <1>7, <2>1 DEF ThreadOK, PubPcs
<1>14. ASSUME NEW ok, Send(ok) PROVE ThreadOK'
  <2>1. /\ pub.pc = "send" /\ UNCHANGED <<owner, run, sock, cons>>
        /\ pub' = [pub EXCEPT !.pc = "top", !.batch = <<>>]
    BY <1>14 DEF Send, ringVars
  <2>2. <<>> \in Seq(Batches) /\ cons.pc = "idle"
    BY <2>1, EmptySeq DEF ThreadOK
  <2>3. QED
    BY <1>7, <2>1, <2>2 DEF ThreadOK, PubPcs
<1>15. ASSUME UNCHANGED feedVars PROVE UNCHANGED <<owner, run, sock, pub, cons>>
  BY <1>15 DEF feedVars, pubVars, ringVars
<1>16. QED
  BY <1>1, <1>2, <1>3, <1>4, <1>5, <1>6, <1>8, <1>9, <1>10, <1>11, <1>12, <1>13, <1>14, <1>15
  DEF PubCases

LEMMA FeedPreserved == FeedOK /\ [Next]_allVars => FeedOK'
BY NextCases, RingPreserved, ThreadPreserved, CallsPreserved DEF FeedOK

LEMMA FeedInvariance == Spec => []FeedOK
BY InitFeed, FeedPreserved, PTL DEF Spec

\* The producer never writes the cell that the consumer is reading.
THEOREM SpscRaceFreedom == Spec => []NoSlotRace
<1>1. FeedOK => NoSlotRace
  <2> SUFFICES ASSUME RingOK, prod.pc = "write", cons.pc = "read", Cell(head) = Cell(tail)
               PROVE  FALSE
    BY DEF FeedOK, NoSlotRace, Cell
  <2>1. Waiting >= 1 /\ Waiting < Size
    BY DEF RingOK
  <2>2. /\ tail + Waiting \in Nat /\ tail < tail + Waiting /\ tail + Waiting < tail + Size
        /\ Cell(head) = Cell(tail + Waiting) /\ tail \in Nat
    BY <2>1, RingFacts, SizeAssumption
  <2>3. QED
    BY <2>2, CellDistinct
<1>2. QED
  BY <1>1, FeedInvariance, PTL

\* The publisher thread never uses a closed socket, and no datagram grows past
\* kUdpPayload.
THEOREM PublisherStaysInBounds == Spec => []ThreadStaysInBounds
<1>1. FeedOK => ThreadStaysInBounds
  BY DEF FeedOK, ThreadOK, ThreadStaysInBounds
<1>2. QED
  BY <1>1, FeedInvariance, PTL

-----------------------------------------------------------------------------
(***************************************************************************)
(* The ring implements BoundedFifo.  Its queue is the window of Claimed    *)
(* cells from tail on, of which the first Waiting are ready.               *)
(***************************************************************************)
Window(b, t, n) == [i \in 1..n |-> b[(t + i - 1) % Size]]
Flags(n, w) == [i \in 1..n |-> i <= w]

LEMMA WindowSeq ==
  ASSUME NEW b \in [Cells -> Vals], NEW t \in Nat, NEW n \in Nat
  PROVE  /\ Window(b, t, n) \in Seq(Vals) /\ Len(Window(b, t, n)) = n
         /\ \A i \in 1..n : Window(b, t, n)[i] = b[Cell(t + (i - 1))]
<1>1. \A i \in 1..n : t + (i - 1) \in Nat /\ (t + i - 1) % Size = Cell(t + (i - 1))
  BY DEF Cell
<1>2. \A i \in 1..n : Window(b, t, n)[i] = b[Cell(t + (i - 1))]
  BY <1>1 DEF Window
<1>3. \A i \in 1..n : b[Cell(t + (i - 1))] \in Vals
  BY <1>1, CellType
<1>4. Window(b, t, n) \in [1..n -> Vals]
  BY <1>2, <1>3 DEF Window
<1>5. QED
  BY <1>2, <1>4, SeqDef, LenProperties

LEMMA FlagSeq ==
  ASSUME NEW n \in Nat, NEW w \in Nat
  PROVE  /\ Flags(n, w) \in Seq(BOOLEAN) /\ Len(Flags(n, w)) = n
         /\ \A i \in 1..n : Flags(n, w)[i] = (i <= w)
<1>1. Flags(n, w) \in [1..n -> BOOLEAN] /\ \A i \in 1..n : Flags(n, w)[i] = (i <= w)
  <2>1. \A i \in 1..n : (i <= w) \in BOOLEAN
    OBVIOUS
  <2>2. QED
    BY <2>1, Zenon DEF Flags
<1>2. QED
  BY <1>1, SeqDef, LenProperties

\* Reserving, making ready and delivering, on the flags.
LEMMA FlagsReserve ==
  ASSUME NEW n \in Nat
  PROVE  Flags(n + 1, n) = Append(Flags(n, n), FALSE)
<1> DEFINE s == Flags(n, n)
           t == Append(s, FALSE)
           u == Flags(n + 1, n)
<1>1. s \in Seq(BOOLEAN) /\ Len(s) = n /\ \A i \in 1..n : s[i] = (i <= n)
  BY FlagSeq
<1>2. u \in Seq(BOOLEAN) /\ Len(u) = n + 1 /\ \A i \in 1..(n + 1) : u[i] = (i <= n)
  BY FlagSeq
<1> HIDE DEF s, u
<1>3. t \in Seq(BOOLEAN) /\ Len(t) = n + 1 /\ t[n + 1] = FALSE /\ \A i \in 1..n : t[i] = s[i]
  <2>1. s \in Seq(BOOLEAN) /\ FALSE \in BOOLEAN
    BY <1>1
  <2>2. t \in Seq(BOOLEAN) /\ Len(t) = Len(s) + 1
    BY <2>1, AppendProperties
  <2>3. t[Len(s) + 1] = FALSE
    BY <2>1, AppendProperties, Zenon
  <2>4. \A i \in 1..Len(s) : t[i] = s[i]
    BY <2>1, AppendProperties
  <2> HIDE DEF t
  <2>5. QED
    BY <1>1, <2>2, <2>3, <2>4, Zenon
<1> HIDE DEF t
<1>4. ASSUME NEW i \in 1..(n + 1) PROVE u[i] = t[i]
  <2>1. CASE i \in 1..n
    BY <1>1, <1>2, <1>3, <2>1, Zenon
  <2>2. CASE i = n + 1
    <3>1. (n + 1 <= n) = FALSE
      OBVIOUS
    <3>2. u[n + 1] = (n + 1 <= n)
      BY <1>2, <2>2, Zenon
    <3>3. QED
      BY <1>3, <2>2, <3>1, <3>2, Zenon
  <2>3. QED
    BY <2>1, <2>2
<1>5. u = t
  BY <1>2, <1>3, <1>4, SeqEqual
<1>6. QED
  BY <1>5 DEF s, t, u

LEMMA FlagsReady ==
  ASSUME NEW n \in Nat
  PROVE  Flags(n + 1, n + 1) = [Flags(n + 1, n) EXCEPT ![n + 1] = TRUE] /\ ~Flags(n + 1, n)[n + 1]
<1> DEFINE s == Flags(n + 1, n)
           t == [s EXCEPT ![n + 1] = TRUE]
           u == Flags(n + 1, n + 1)
<1>1. s \in Seq(BOOLEAN) /\ Len(s) = n + 1 /\ \A i \in 1..(n + 1) : s[i] = (i <= n)
  BY FlagSeq
<1>2. u \in Seq(BOOLEAN) /\ Len(u) = n + 1 /\ \A i \in 1..(n + 1) : u[i] = (i <= n + 1)
  BY FlagSeq
<1> HIDE DEF s, u
<1>3. t \in Seq(BOOLEAN) /\ Len(t) = n + 1
      /\ \A i \in 1..(n + 1) : t[i] = IF i = n + 1 THEN TRUE ELSE s[i]
  BY <1>1, ExceptSeq
<1> HIDE DEF t
<1>4. ASSUME NEW i \in 1..(n + 1) PROVE u[i] = t[i]
  <2>1. CASE i # n + 1
    <3>1. i <= n /\ i <= n + 1
      BY <2>1
    <3>2. QED
      BY <1>1, <1>2, <1>3, <2>1, <3>1, Zenon
  <2>2. CASE i = n + 1
    <3>1. n + 1 <= n + 1
      OBVIOUS
    <3>2. QED
      BY <1>2, <1>3, <2>2, <3>1, Zenon
  <2>3. QED
    BY <2>1, <2>2
<1>5. u = t
  BY <1>2, <1>3, <1>4, SeqEqual
<1>6. ~s[n + 1]
  <2>1. ~(n + 1 <= n) /\ n + 1 \in 1..(n + 1)
    OBVIOUS
  <2>2. QED
    BY <1>1, <2>1, Zenon
<1>7. QED
  BY <1>5, <1>6 DEF s, t, u

LEMMA FlagsDeliver ==
  ASSUME NEW n \in Nat, NEW w \in Nat, n >= 1, w >= 1
  PROVE  Flags(n - 1, w - 1) = Tail(Flags(n, w)) /\ Flags(n, w)[1]
<1> DEFINE s == Flags(n, w)
           t == Tail(s)
           u == Flags(n - 1, w - 1)
<1>1. s \in Seq(BOOLEAN) /\ Len(s) = n /\ \A i \in 1..n : s[i] = (i <= w)
  BY FlagSeq
<1>2. u \in Seq(BOOLEAN) /\ Len(u) = n - 1 /\ \A i \in 1..(n - 1) : u[i] = (i <= w - 1)
  <2>1. n - 1 \in Nat /\ w - 1 \in Nat
    OBVIOUS
  <2>2. QED
    BY <2>1, FlagSeq
<1> HIDE DEF s, u
<1>3. t \in Seq(BOOLEAN) /\ Len(t) = n - 1 /\ \A i \in 1..(n - 1) : t[i] = s[i + 1]
  BY <1>1, HeadTailProperties, EmptySeq
<1> HIDE DEF t
<1>4. ASSUME NEW i \in 1..(n - 1) PROVE u[i] = t[i]
  <2>1. i + 1 \in 1..n /\ (i + 1 <= w) = (i <= w - 1)
    OBVIOUS
  <2>2. QED
    BY <1>1, <1>2, <1>3, <2>1, Zenon
<1>5. u = t
  BY <1>2, <1>3, <1>4, SeqEqual
<1>6. s[1]
  <2>1. 1 \in 1..n /\ 1 <= w
    OBVIOUS
  <2>2. QED
    BY <1>1, <2>1, Zenon
<1>7. QED
  BY <1>5, <1>6 DEF s, t, u

\* The same on the window.
Extends(c, b, t, n, v) == Window(c, t, n + 1) = Append(Window(b, t, n), v)

LEMMA WindowReserve ==
  ASSUME NEW b \in [Cells -> Vals], NEW t \in Nat, NEW n \in Nat, n < Size, NEW v \in Events,
         NEW c \in [Cells -> Vals], c[Cell(t + n)] = v,
         \A x \in Cells : x # Cell(t + n) => c[x] = b[x]
  PROVE  Extends(c, b, t, n, v)
<1> DEFINE s == Window(b, t, n)
           a == Append(s, v)
           u == Window(c, t, n + 1)
<1>1. s \in Seq(Vals) /\ Len(s) = n /\ \A i \in 1..n : s[i] = b[Cell(t + (i - 1))]
  <2>1. b \in [Cells -> Vals] /\ t \in Nat /\ n \in Nat
    OBVIOUS
  <2>2. QED
    BY ONLY <2>1, WindowSeq
<1>2. u \in Seq(Vals) /\ Len(u) = n + 1 /\ \A i \in 1..(n + 1) : u[i] = c[Cell(t + (i - 1))]
  <2>1. n + 1 \in Nat
    OBVIOUS
  <2>2. QED
    BY <2>1, WindowSeq, Zenon
<1> HIDE DEF s, u
<1>3. a \in Seq(Vals) /\ Len(a) = n + 1 /\ a[n + 1] = v /\ \A i \in 1..n : a[i] = s[i]
  BY <1>1, AppendProperties DEF Vals
<1> HIDE DEF a
<1>4. ASSUME NEW i \in 1..(n + 1) PROVE u[i] = a[i]
  <2>1. CASE i \in 1..n
    <3>1. /\ t + (i - 1) \in Nat /\ t + n \in Nat
          /\ t + (i - 1) < t + n /\ t + n < (t + (i - 1)) + Size
      BY <2>1, SizeAssumption
    <3>2. Cell(t + (i - 1)) # Cell(t + n) /\ Cell(t + (i - 1)) \in Cells
      BY <3>1, CellDistinct, CellType
    <3>3. c[Cell(t + (i - 1))] = b[Cell(t + (i - 1))]
      BY <3>2
    <3>4. QED
      BY <1>1, <1>2, <1>3, <2>1, <3>3
  <2>2. CASE i = n + 1
    <3>1. t + (i - 1) = t + n /\ Cell(t + n) \in Cells
      BY <2>2, CellType
    <3>2. c[Cell(t + (i - 1))] = v
      BY <3>1
    <3>3. QED
      BY <1>2, <1>3, <2>2, <3>2
  <2>3. QED
    BY <2>1, <2>2
<1>5. u = a
  BY <1>2, <1>3, <1>4, SeqEqual
<1>6. QED
  BY <1>5 DEF s, a, u, Extends

LEMMA WindowDeliver ==
  ASSUME NEW b \in [Cells -> Vals], NEW t \in Nat, NEW r \in Nat, NEW n \in Nat, n >= 1,
         \A i \in Nat : Cell(r + i) = Cell(t + (i + 1))
  PROVE  /\ Window(b, r, n - 1) = Tail(Window(b, t, n))
         /\ Window(b, t, n)[1] = b[Cell(t)] /\ Window(b, t, n) # <<>>
<1> DEFINE s == Window(b, t, n)
           a == Tail(s)
           u == Window(b, r, n - 1)
<1>1. s \in Seq(Vals) /\ Len(s) = n /\ \A i \in 1..n : s[i] = b[Cell(t + (i - 1))]
  BY WindowSeq
<1>2. u \in Seq(Vals) /\ Len(u) = n - 1 /\ \A i \in 1..(n - 1) : u[i] = b[Cell(r + (i - 1))]
  <2>1. n - 1 \in Nat
    OBVIOUS
  <2>2. QED
    BY <2>1, WindowSeq
<1> HIDE DEF s, u
<1>3. s # <<>> /\ a \in Seq(Vals) /\ Len(a) = n - 1 /\ \A i \in 1..(n - 1) : a[i] = s[i + 1]
  BY <1>1, HeadTailProperties, EmptySeq
<1> HIDE DEF a
<1>4. ASSUME NEW i \in 1..(n - 1) PROVE u[i] = a[i]
  <2>1. i - 1 \in Nat /\ i + 1 \in 1..n /\ (i - 1) + 1 = (i + 1) - 1
    OBVIOUS
  <2>2. u[i] = b[Cell(t + ((i - 1) + 1))]
    BY <1>2, <2>1
  <2>3. s[i + 1] = b[Cell(t + ((i + 1) - 1))]
    BY <1>1, <2>1
  <2>4. QED
    BY <1>3, <2>1, <2>2, <2>3
<1>5. u = a
  BY <1>2, <1>3, <1>4, SeqEqual
<1>6. s[1] = b[Cell(t)]
  <2>1. 1 \in 1..n /\ t + (1 - 1) = t
    OBVIOUS
  <2>2. QED
    BY <1>1, <2>1
<1>7. QED
  BY <1>3, <1>5, <1>6 DEF s, a, u

\* The shape of the abstract queue.
AbsShape ==
  /\ Claimed = IF prod.pc = "store" THEN Waiting + 1 ELSE Waiting
  /\ Contents = Window(buf, tail, Claimed)
  /\ [i \in 1..Claimed |-> i <= Waiting] = Flags(Claimed, Waiting)

LEMMA ShapeHolds == RingOK => AbsShape
<1> SUFFICES ASSUME RingOK PROVE AbsShape
  OBVIOUS
<1>1. Claimed = IF prod.pc = "store" THEN Waiting + 1 ELSE Waiting
  BY RingFacts DEF Claimed
<1>2. QED
  BY <1>1 DEF AbsShape, Contents, Window, Flags

LEMMA ShapeHoldsNext == RingOK' => AbsShape'
BY ShapeHolds, PTL

\* Filling a cell reserves the place behind the elements that wait.
LEMMA WriteReserves ==
  ASSUME RingOK, RingOK', PushWrite
  PROVE  Fifo!Reserve
<1>1. /\ prod.pc = "write" /\ prod'.pc = "store" /\ UNCHANGED <<head, tail, popped>>
      /\ Waiting' = Waiting /\ buf' = [buf EXCEPT ![Cell(head)] = prod.val]
  BY DEF PushWrite, RingOK, Cell, Waiting
<1>2. /\ Waiting \in Nat /\ tail \in Nat /\ Cell(head) = Cell(tail + Waiting)
      /\ Waiting < Size /\ prod.val \in Events
      /\ buf \in [Cells -> Vals] /\ buf' \in [Cells -> Vals]
  BY <1>1, RingFacts DEF RingOK
<1>3. Claimed = Waiting /\ Claimed' = Waiting + 1
  BY <1>1, ShapeHolds, ShapeHoldsNext DEF AbsShape
<1>4. Contents' = Append(Contents, prod.val)
  <2>1. Window(buf', tail, Waiting + 1) = Append(Window(buf, tail, Waiting), prod.val)
    <3> DEFINE k == Cell(head)
               v == prod.val
               w == Waiting
    <3>1. /\ buf' = [buf EXCEPT ![k] = v] /\ k = Cell(tail + w) /\ v \in Events /\ k \in Cells
          /\ w \in Nat /\ w < Size /\ tail \in Nat
          /\ buf \in [Cells -> Vals] /\ buf' \in [Cells -> Vals]
      BY <1>1, <1>2, RingFacts
    <3> HIDE DEF k, v, w
    <3>2. buf'[Cell(tail + w)] = v /\ \A x \in Cells : x # Cell(tail + w) => buf'[x] = buf[x]
      BY <3>1
    <3>3. Extends(buf', buf, tail, w, v)
      BY <3>1, <3>2, WindowReserve
    <3>4. QED
      BY <3>3 DEF v, w, Extends
  <2>2. Contents = Window(buf, tail, Waiting) /\ Contents' = Window(buf', tail, Waiting + 1)
    BY <1>1, <1>3, ShapeHolds, ShapeHoldsNext DEF AbsShape
  <2>3. QED
    BY <2>1, <2>2
<1>5. [i \in 1..Claimed |-> i <= Waiting]' = Append([i \in 1..Claimed |-> i <= Waiting], FALSE)
  <2>1. Flags(Waiting + 1, Waiting) = Append(Flags(Waiting, Waiting), FALSE)
    BY <1>2, FlagsReserve
  <2>2. /\ [i \in 1..Claimed |-> i <= Waiting] = Flags(Waiting, Waiting)
        /\ [i \in 1..Claimed |-> i <= Waiting]' = Flags(Waiting + 1, Waiting)
    BY <1>1, <1>3, ShapeHolds, ShapeHoldsNext DEF AbsShape
  <2>3. QED
    BY <2>1, <2>2
<1>6. Len(Contents) < Size
  <2>1. Contents = Window(buf, tail, Waiting)
    BY <1>3, ShapeHolds DEF AbsShape
  <2>2. QED
    BY <1>2, <2>1, WindowSeq
<1>7. QED
  BY <1>1, <1>2, <1>4, <1>5, <1>6 DEF Fifo!Reserve

\* The store of head_ makes the element ready.
LEMMA StoreMakesReady ==
  ASSUME RingOK, RingOK', PushStore
  PROVE  Fifo!MakeReady
<1>1. prod.pc = "store" /\ prod'.pc = "idle" /\ UNCHANGED <<buf, tail, popped>>
      /\ Waiting' = Waiting + 1
  BY PushStoreRing DEF PushStore, IdleSide
<1>2. Waiting \in Nat /\ tail \in Nat /\ buf \in [Cells -> Vals]
  BY RingFacts DEF RingOK
<1>3. Claimed = Waiting + 1 /\ Claimed' = Waiting + 1
  BY <1>1, ShapeHolds, ShapeHoldsNext DEF AbsShape
<1>4. Contents' = Contents /\ Len(Contents) = Waiting + 1
  BY <1>1, <1>2, <1>3, ShapeHolds, ShapeHoldsNext, WindowSeq DEF AbsShape
<1> DEFINE f == [i \in 1..Claimed |-> i <= Waiting]
           k == Waiting + 1
<1>5. f = Flags(k, Waiting) /\ f' = Flags(k, k)
  BY <1>1, <1>3, ShapeHolds, ShapeHoldsNext DEF AbsShape
<1>6. ~f[k] /\ f' = [f EXCEPT ![k] = TRUE]
  <2>1. /\ Flags(k, k) = [Flags(k, Waiting) EXCEPT ![k] = TRUE]
        /\ ~Flags(k, Waiting)[k]
    BY <1>2, FlagsReady
  <2> HIDE DEF f, k
  <2>2. QED
    BY <1>5, <2>1, Zenon
<1>7. k \in 1..Len(Contents)
  BY <1>2, <1>4
<1> HIDE DEF k
<1>8. \E i \in 1..Len(Contents) : ~f[i] /\ f' = [f EXCEPT ![i] = TRUE]
  BY <1>6, <1>7, Zenon
<1>9. QED
  BY <1>1, <1>4, <1>8, Zenon DEF Fifo!MakeReady

\* The store of tail_ delivers the oldest element.
LEMMA StoreDelivers ==
  ASSUME RingOK, RingOK', PopStore
  PROVE  Fifo!Deliver
<1>1. /\ UNCHANGED <<buf, head, prod>> /\ popped' = Append(popped, cons.val)
      /\ tail' = (tail + 1) % CtrMod /\ Waiting' = Waiting - 1 /\ cons.val = buf[Cell(tail)]
      /\ Waiting >= 1
  BY PopStoreRing DEF PopStore, RingOK
<1>2. /\ Waiting \in Nat /\ tail \in Nat /\ tail' \in Nat /\ buf \in [Cells -> Vals]
      /\ \A i \in Nat : Cell(tail' + i) = Cell(tail + (i + 1))
  <2>1. tail' \in Nat
    BY DEF RingOK, Ctr
  <2>2. head \in Ctr /\ tail \in Ctr /\ Diff(head, tail) >= 1
    BY <1>1, RingFacts DEF RingOK
  <2>3. \A i \in Nat : Cell(tail' + i) = Cell(tail + (i + 1))
    BY <1>1, <2>2, TailStep
  <2>4. QED
    BY <2>1, <2>3, RingFacts DEF RingOK
<1> DEFINE n == Claimed
           w == Waiting
<1>3. n \in Nat /\ n >= 1 /\ Claimed' = n - 1
  <2>1. /\ Claimed = IF prod.pc = "store" THEN Waiting + 1 ELSE Waiting
        /\ Claimed' = IF prod.pc = "store" THEN Waiting' + 1 ELSE Waiting'
    BY <1>1, ShapeHolds, ShapeHoldsNext DEF AbsShape
  <2> HIDE DEF Claimed, Waiting
  <2>2. QED
    BY <1>1, <1>2, <2>1
<1>4. /\ Contents = Window(buf, tail, n) /\ Contents' = Window(buf, tail', n - 1)
      /\ [i \in 1..Claimed |-> i <= Waiting] = Flags(n, w)
      /\ [i \in 1..Claimed |-> i <= Waiting]' = Flags(n - 1, w - 1)
  BY <1>1, <1>3, ShapeHolds, ShapeHoldsNext DEF AbsShape
<1>5. w \in Nat /\ w >= 1
  BY <1>1, <1>2
<1>6. Flags(n - 1, w - 1) = Tail(Flags(n, w)) /\ Flags(n, w)[1]
  <2> HIDE DEF n, w
  <2>1. QED
    BY <1>3, <1>5, FlagsDeliver
<1>7. /\ Window(buf, tail', n - 1) = Tail(Window(buf, tail, n))
      /\ Window(buf, tail, n)[1] = buf[Cell(tail)] /\ Window(buf, tail, n) # <<>>
  <2> HIDE DEF n
  <2>1. QED
    BY <1>2, <1>3, WindowDeliver
<1> HIDE DEF n, w
<1>8. Contents # <<>> /\ Contents' = Tail(Contents) /\ popped' = Append(popped, Contents[1])
  BY <1>1, <1>4, <1>7
<1>9. /\ [i \in 1..Claimed |-> i <= Waiting][1]
      /\ [i \in 1..Claimed |-> i <= Waiting]' = Tail([i \in 1..Claimed |-> i <= Waiting])
  BY <1>4, <1>6, Zenon
<1>10. QED
  BY <1>8, <1>9, Zenon DEF Fifo!Deliver

\* The ring between the matching thread and the publisher thread implements the
\* bounded FIFO: filling a cell reserves, the store of head_ makes ready, the
\* store of tail_ delivers, and every other step of the feed is a stutter.
THEOREM SpscRefinesFifo == Spec => RingImplementsFifo
<1>1. ASSUME Init PROVE Fifo!AbsInit
  <2>1. RingOK /\ prod.pc = "idle" /\ popped = <<>> /\ head = tail
    BY <1>1, InitFeed DEF FeedOK, Init, PubInit, RingInit, IdleSide
  <2>2. Claimed = 0 /\ tail \in Nat /\ buf \in [Cells -> Vals] /\ Waiting = 0
    BY <2>1, ShapeHolds, RingFacts, DiffType DEF AbsShape, RingOK
  <2>3. /\ Window(buf, tail, 0) \in Seq(Vals) /\ Len(Window(buf, tail, 0)) = 0
        /\ Flags(0, 0) \in Seq(BOOLEAN) /\ Len(Flags(0, 0)) = 0
    BY <2>2, WindowSeq, FlagSeq
  <2>4. Window(buf, tail, 0) = <<>> /\ Flags(0, 0) = <<>>
    BY <2>3, EmptySeq
  <2>5. Contents = <<>> /\ [i \in 1..Claimed |-> i <= Waiting] = <<>>
    BY <2>1, <2>2, <2>4, ShapeHolds DEF AbsShape
  <2>6. QED
    BY <2>1, <2>5 DEF Fifo!AbsInit
<1>2. ASSUME FeedOK, FeedOK', [Next]_allVars PROVE [Fifo!AbsNext]_(Fifo!absVars)
  <2>1. PubCases
    BY <1>2, NextCases DEF FeedOK
  <2>2. RingOK /\ RingOK'
    BY <1>2 DEF FeedOK
  <2>3. ASSUME UNCHANGED <<buf, head, tail, popped>>, Claimed' = Claimed
        PROVE  UNCHANGED Fifo!absVars
    BY <2>3 DEF Fifo!absVars, Contents, Waiting
  <2>4. ASSUME UNCHANGED <<buf, head, tail, popped>>,
               prod.pc = "store" <=> prod'.pc = "store"
        PROVE  UNCHANGED Fifo!absVars
    <3>1. Claimed' = Claimed
      BY <2>4 DEF Claimed, Waiting
    <3>2. QED
      BY <2>3, <2>4, <3>1
  <2>5. ASSUME NEW e, Publishes(e) PROVE UNCHANGED Fifo!absVars
    <3>1. UNCHANGED <<buf, head, tail, popped>> /\ (prod.pc = "store" <=> prod'.pc = "store")
      BY <2>5 DEF Publishes, Enqueue, PushCheck, ringVars, OwnerFree
    <3>2. QED
      BY <2>4, <3>1
  <2>6. ASSUME EnqueueWrite PROVE Fifo!AbsNext
    BY <2>2, <2>6, WriteReserves DEF EnqueueWrite, Fifo!AbsNext
  <2>7. ASSUME EnqueueStore PROVE Fifo!AbsNext
    BY <2>2, <2>7, StoreMakesReady DEF EnqueueStore, Fifo!AbsNext
  <2>8. ASSUME FillPop \/ FillRead PROVE UNCHANGED Fifo!absVars
    <3>1. UNCHANGED <<buf, head, tail, popped, prod>>
      BY <2>8 DEF FillPop, FillRead, PopCheck, PopRead
    <3>2. QED
      BY <2>4, <3>1
  <2>9. ASSUME FillPack PROVE Fifo!AbsNext
    BY <2>2, <2>9, StoreDelivers DEF FillPack, Fifo!AbsNext
  <2>10. ASSUME UNCHANGED ringVars PROVE UNCHANGED Fifo!absVars
    <3>1. UNCHANGED <<buf, head, tail, popped, prod>>
      BY <2>10 DEF ringVars
    <3>2. QED
      BY <2>4, <3>1
  <2>11. QED
    BY <2>1, <2>5, <2>6, <2>7, <2>8, <2>9, <2>10
    DEF PubCases, Start, Stop, StopJoined, Boot, LoopTop, FillEnd, Send, feedVars
<1>3. QED
  BY FeedInvariance, <1>1, <1>2, PTL DEF Spec, RingImplementsFifo, Fifo!FifoSpec

-----------------------------------------------------------------------------
(***************************************************************************)
(* Attempted, the events of all datagrams given to sendto: what a fold of  *)
(* concatenation from the left computes.                                   *)
(***************************************************************************)
LEMMA MaxIn ==
  ASSUME NEW n \in Nat, NEW s \in SUBSET (1..n), s # {}
  PROVE  Max(s) \in s /\ \A y \in s : Max(s) >= y
BY GreatestIn DEF Max, Greatest

\* g maps every set of indices to the concatenation of their sequences.
Joins(g, w, T) ==
  g = [s \in SUBSET T |-> IF s = {} THEN <<>> ELSE g[s \ {Max(s)}] \o w[Max(s)]]

JoinFcn(w, n) == CHOOSE g : Joins(g, w, 1..n)
Joined(w, n) == JoinFcn(w, n)[1..n]

LEMMA JoinsAgree ==
  ASSUME NEW w, NEW n \in Nat, NEW m \in Nat, NEW g, NEW h,
         Joins(g, w, 1..n), Joins(h, w, 1..m), m <= n
  PROVE  \A u \in SUBSET (1..m) : h[u] = g[u]
<1> DEFINE Bad == {u \in SUBSET (1..m) : h[u] # g[u]}
<1> SUFFICES ASSUME Bad # {} PROVE FALSE
  OBVIOUS
<1>1. PICK u \in Bad : \A v \in SUBSET u : v # u => v \notin Bad
  <2>1. Bad \in SUBSET (SUBSET (1..m)) /\ IsFiniteSet(1..m)
    BY FS_Interval
  <2> HIDE DEF Bad
  <2>2. QED
    BY <2>1, SmallestSet
<1>2. u \in SUBSET (1..m) /\ u \in SUBSET (1..n)
  OBVIOUS
<1>3. /\ h[u] = IF u = {} THEN <<>> ELSE h[u \ {Max(u)}] \o w[Max(u)]
      /\ g[u] = IF u = {} THEN <<>> ELSE g[u \ {Max(u)}] \o w[Max(u)]
  BY <1>2 DEF Joins
<1>4. u # {}
  BY <1>3
<1>5. h[u \ {Max(u)}] = g[u \ {Max(u)}]
  BY <1>1, <1>2, <1>4, MaxIn
<1>6. QED
  BY <1>3, <1>5

LEMMA MaxRange ==
  ASSUME NEW n \in Nat
  PROVE  Max(1..(n + 1)) = n + 1 /\ (1..(n + 1)) \ {n + 1} = 1..n
BY GreatestRange DEF Max, Greatest

LEMMA JoinsExist ==
  ASSUME NEW w, NEW N \in Nat
  PROVE  \A n \in 0..N : Joins(JoinFcn(w, n), w, 1..n)
<1> DEFINE Good(n) == Joins(JoinFcn(w, n), w, 1..n)
           Bad == {1..n : n \in {k \in 0..N : ~Good(k)}}
<1> SUFFICES ASSUME NEW z \in 0..N, ~Good(z) PROVE FALSE
  OBVIOUS
<1>1. Bad \in SUBSET (SUBSET (1..N)) /\ Bad # {} /\ IsFiniteSet(1..N)
  <2>1. \A k \in 0..N : 1..k \in SUBSET (1..N)
    OBVIOUS
  <2>2. 1..z \in Bad
    OBVIOUS
  <2>3. Bad \in SUBSET (SUBSET (1..N))
    BY <2>1
  <2>4. IsFiniteSet(1..N)
    BY FS_Interval
  <2> HIDE DEF Bad
  <2>5. QED
    BY <2>2, <2>3, <2>4
<1>2. PICK u \in Bad : \A v \in SUBSET u : v # u => v \notin Bad
  <2> HIDE DEF Bad
  <2>1. QED
    BY <1>1, SmallestSet
<1>3. PICK n \in 0..N : u = 1..n /\ ~Good(n)
  BY <1>2
<1>4. \A k \in 0..(n - 1) : Good(k)
  <2> SUFFICES ASSUME NEW k \in 0..(n - 1), ~Good(k) PROVE FALSE
    OBVIOUS
  <2>1. 1..k \in Bad /\ 1..k \in SUBSET u
    BY <1>3
  <2>2. 1..k # u
    <3>1. n \in 1..n /\ n \notin 1..k
      OBVIOUS
    <3>2. QED
      BY <1>3, <3>1
  <2>3. QED
    BY <1>2, <2>1, <2>2
<1> HIDE DEF Bad
<1>5. CASE n = 0
  <2> DEFINE g == [s \in SUBSET (1..0) |-> <<>>]
  <2>1. \A s \in SUBSET (1..0) : s = {}
    OBVIOUS
  <2>2. Joins(g, w, 1..0)
    <3>1. [s \in SUBSET (1..0) |-> <<>>]
          = [s \in SUBSET (1..0) |-> IF s = {} THEN <<>> ELSE g[s \ {Max(s)}] \o w[Max(s)]]
      BY <2>1
    <3>2. g = [s \in SUBSET (1..0) |-> IF s = {} THEN <<>> ELSE g[s \ {Max(s)}] \o w[Max(s)]]
      BY <3>1
    <3> HIDE DEF g
    <3>3. QED
      BY <3>2 DEF Joins
  <2> HIDE DEF g
  <2>3. QED
    BY <1>3, <1>5, <2>2 DEF JoinFcn
<1>6. CASE n > 0
  <2> DEFINE f == JoinFcn(w, n - 1)
             g == [s \in SUBSET (1..n) |-> IF s = {} THEN <<>>
                                           ELSE f[s \ {Max(s)}] \o w[Max(s)]]
  <2>1. Joins(f, w, 1..(n - 1)) /\ n - 1 \in Nat
    BY <1>4, <1>6
  <2> HIDE DEF f
  <2>2. ASSUME NEW s \in SUBSET (1..n), s # {} PROVE g[s \ {Max(s)}] = f[s \ {Max(s)}]
    <3> DEFINE v == s \ {Max(s)}
    <3>1. v \in SUBSET (1..(n - 1)) /\ v \in SUBSET (1..n)
      <4>1. Max(s) \in s /\ \A y \in s : Max(s) >= y
        <5>1. n \in Nat
          OBVIOUS
        <5>2. QED
          BY <2>2, <5>1, MaxIn
      <4>2. ASSUME NEW y \in v PROVE y \in 1..(n - 1)
        <5> DEFINE m == Max(s)
        <5>1. m \in 1..n /\ y \in 1..n /\ m >= y /\ y # m
          BY <4>1
        <5> HIDE DEF m
        <5>2. QED
          BY <5>1
      <4>3. QED
        BY <4>2
    <3> HIDE DEF v
    <3>2. f[v] = IF v = {} THEN <<>> ELSE f[v \ {Max(v)}] \o w[Max(v)]
      BY <2>1, <3>1 DEF Joins
    <3>3. g[v] = IF v = {} THEN <<>> ELSE f[v \ {Max(v)}] \o w[Max(v)]
      BY <3>1
    <3>4. QED
      BY <3>2, <3>3 DEF v
  <2>3. g = [s \in SUBSET (1..n) |-> IF s = {} THEN <<>> ELSE g[s \ {Max(s)}] \o w[Max(s)]]
    BY <2>2
  <2> HIDE DEF g
  <2>4. Joins(g, w, 1..n)
    BY <2>3 DEF Joins
  <2>5. QED
    BY <1>3, <2>4 DEF JoinFcn
<1>7. QED
  BY <1>5, <1>6

LEMMA JoinEmpty == \A w : Joined(w, 0) = <<>>
<1> SUFFICES ASSUME NEW w PROVE Joined(w, 0) = <<>>
  OBVIOUS
<1>1. Joins(JoinFcn(w, 0), w, 1..0) /\ 1..0 = {}
  <2>1. 0 \in 0..0 /\ 0 \in Nat /\ 1..0 = {}
    OBVIOUS
  <2>2. QED
    BY <2>1, JoinsExist
<1>2. QED
  BY <1>1 DEF Joins, Joined

LEMMA JoinStep ==
  ASSUME NEW w, NEW n \in Nat
  PROVE  Joined(w, n + 1) = Joined(w, n) \o w[n + 1]
<1> DEFINE g == JoinFcn(w, n + 1)
           h == JoinFcn(w, n)
<1>1. Joins(g, w, 1..(n + 1)) /\ Joins(h, w, 1..n)
  <2>1. n + 1 \in Nat /\ n + 1 \in 0..(n + 1) /\ n \in 0..(n + 1)
    OBVIOUS
  <2>2. QED
    BY <2>1, JoinsExist
<1> HIDE DEF g, h
<1>2. g[1..(n + 1)] = g[1..n] \o w[n + 1]
  <2>1. 1..(n + 1) \in SUBSET (1..(n + 1)) /\ 1..(n + 1) # {}
    OBVIOUS
  <2>2. g[1..(n + 1)] = g[(1..(n + 1)) \ {Max(1..(n + 1))}] \o w[Max(1..(n + 1))]
    BY <1>1, <2>1 DEF Joins
  <2>3. QED
    BY <2>2, MaxRange
<1>3. h[1..n] = g[1..n]
  <2>1. n + 1 \in Nat /\ n <= n + 1 /\ 1..n \in SUBSET (1..n)
    OBVIOUS
  <2>2. QED
    BY <1>1, <2>1, JoinsAgree
<1>4. QED
  BY <1>2, <1>3 DEF g, h, Joined

LEMMA JoinSame ==
  ASSUME NEW w, NEW v, NEW n \in Nat, \A i \in 1..n : w[i] = v[i]
  PROVE  Joined(w, n) = Joined(v, n)
<1> DEFINE g == JoinFcn(w, n)
           h == JoinFcn(v, n)
<1>1. Joins(g, w, 1..n) /\ Joins(h, v, 1..n)
  <2>1. n \in 0..n
    OBVIOUS
  <2>2. QED
    BY <2>1, JoinsExist
<1> HIDE DEF g, h
<1>2. \A s \in SUBSET (1..n) : s # {} => w[Max(s)] = v[Max(s)]
  BY MaxIn
<1>3. Joins(g, v, 1..n)
  <2>1. g = [s \in SUBSET (1..n) |-> IF s = {} THEN <<>> ELSE g[s \ {Max(s)}] \o w[Max(s)]]
    BY <1>1 DEF Joins
  <2>2. [s \in SUBSET (1..n) |-> IF s = {} THEN <<>> ELSE g[s \ {Max(s)}] \o w[Max(s)]]
        = [s \in SUBSET (1..n) |-> IF s = {} THEN <<>> ELSE g[s \ {Max(s)}] \o v[Max(s)]]
    BY <1>2
  <2>3. g = [s \in SUBSET (1..n) |-> IF s = {} THEN <<>> ELSE g[s \ {Max(s)}] \o v[Max(s)]]
    BY <2>1, <2>2, Zenon
  <2>4. QED
    BY <2>3 DEF Joins
<1>4. h[1..n] = g[1..n]
  BY <1>1, <1>3, JoinsAgree
<1>5. QED
  BY <1>4 DEF g, h, Joined

\* The model's fold is Joined.
AttemptedJoined == Attempted = Joined(Sent, Len(sends))

LEMMA AttemptedIs == Len(sends) \in Nat => AttemptedJoined
<1> SUFFICES ASSUME Len(sends) \in Nat PROVE AttemptedJoined
  OBVIOUS
<1> DEFINE n == Len(sends)
           w == Sent
<1>1. DOMAIN w = 1..n
  BY DEF Sent
<1>2. Attempted = (CHOOSE g : g = [s \in SUBSET (DOMAIN w) |->
          IF s = {} THEN <<>> ELSE g[s \ {Max(s)}] \o w[Max(s)]])[DOMAIN w]
  BY DEF Attempted, FoldLeft, MapThenFoldSet
<1> HIDE DEF n, w
<1>3. Attempted = (CHOOSE g : g = [s \in SUBSET (1..n) |->
          IF s = {} THEN <<>> ELSE g[s \ {Max(s)}] \o w[Max(s)]])[1..n]
  BY <1>1, <1>2
<1>4. QED
  BY <1>3 DEF n, w, Joined, JoinFcn, Joins, AttemptedJoined

-----------------------------------------------------------------------------
(***************************************************************************)
(* The invariant behind EventsAccounted.  Beyond the property itself it    *)
(* says what the sequences consist of, that a batch is empty outside of    *)
(* the loop that fills and sends it, and that there are no more datagrams  *)
(* than events and no more events than calls: a sequence number is a word. *)
(***************************************************************************)
Packets ==
  [magic : Nat, version : Nat, count : Nat, seq : Nat, msgs : Seq(Batches), len : Nat]
SendRecs == [pkt : Packets, ok : BOOLEAN]
StatsType == [enqueued : Nat, dropped : Nat, packets : Nat, messages : Nat, send_fail : Nat]

SentCount == CountOf(LAMBDA i : sends[i].ok)

LogOK ==
  /\ pushed \in Seq(Events) /\ sends \in Seq(SendRecs) /\ Attempted \in Seq(Events)
  /\ Len(pushed) + (IF prod.pc = "idle" THEN 0 ELSE 1) <= calls.publish
  /\ Len(sends) <= Len(Attempted)
  /\ pushed = Attempted \o Unpacked(pub.batch) \o InRing
  /\ pub.pc \notin {"fill", "send"} => pub.batch = <<>>

CountsOK ==
  /\ stats \in StatsType
  /\ stats.enqueued = Len(pushed)
  /\ stats.messages = SentCount
  /\ pktSeq = Len(sends) /\ pktSeq = stats.packets + stats.send_fail
  /\ \A i \in 1..Len(sends) : Swap(sends[i].pkt.seq) = i - 1

AccountOK == LogOK /\ CountsOK

\* Unpacking a batch gives back the events it was packed from.
LEMMA UnpackedSeq ==
  ASSUME NEW b \in Seq(Batches)
  PROVE  /\ Unpacked(b) \in Seq(Events) /\ Len(Unpacked(b)) = Len(b)
         /\ \A i \in 1..Len(b) : Unpacked(b)[i] = UnpackMsg(b[i])
<1>1. Len(b) \in Nat /\ \A i \in 1..Len(b) : b[i] \in Batches
  BY LenProperties, ElementOfSeq
<1>2. \A m \in Batches : UnpackMsg(m) \in Events
  BY EventsClean, PackUnpack DEF Batches
<1>3. Unpacked(b) \in [1..Len(b) -> Events]
      /\ \A i \in 1..Len(b) : Unpacked(b)[i] = UnpackMsg(b[i])
  BY <1>1, <1>2 DEF Unpacked
<1>4. QED
  BY <1>1, <1>3, SeqDef, LenProperties

LEMMA UnpackedAppend ==
  ASSUME NEW b \in Seq(Batches), NEW e \in Events
  PROVE  Unpacked(Append(b, PackMsg(e))) = Append(Unpacked(b), e)
<1> DEFINE m == PackMsg(e)
           c == Append(b, m)
           s == Unpacked(b)
           t == Unpacked(c)
           a == Append(s, e)
<1>1. m \in Batches /\ UnpackMsg(m) = e
  BY EventsClean, PackUnpack DEF Batches
<1> HIDE DEF m
<1>2. c \in Seq(Batches) /\ Len(c) = Len(b) + 1 /\ c[Len(b) + 1] = m
      /\ \A i \in 1..Len(b) : c[i] = b[i]
  BY <1>1, AppendProperties
<1> HIDE DEF c
<1>3. /\ s \in Seq(Events) /\ Len(s) = Len(b) /\ \A i \in 1..Len(b) : s[i] = UnpackMsg(b[i])
      /\ t \in Seq(Events) /\ Len(t) = Len(c) /\ \A i \in 1..Len(c) : t[i] = UnpackMsg(c[i])
  BY <1>2, UnpackedSeq
<1> HIDE DEF s, t
<1>4. a \in Seq(Events) /\ Len(a) = Len(s) + 1 /\ a[Len(s) + 1] = e
      /\ \A i \in 1..Len(s) : a[i] = s[i]
  BY <1>3, AppendProperties
<1> HIDE DEF a
<1>5. Len(b) \in Nat
  BY LenProperties
<1>6. ASSUME NEW i \in 1..Len(t) PROVE t[i] = a[i]
  <2>1. CASE i \in 1..Len(b)
    BY <1>2, <1>3, <1>4, <2>1
  <2>2. CASE i = Len(b) + 1
    BY <1>1, <1>2, <1>3, <1>4, <2>2
  <2>3. QED
    BY <1>2, <1>3, <1>5, <2>1, <2>2
<1>7. t = a
  BY <1>2, <1>3, <1>4, <1>6, SeqEqual
<1>8. QED
  BY <1>7 DEF t, c, m, a, s

LEMMA UnpackedEmpty == Unpacked(<<>>) = <<>>
<1>1. <<>> \in Seq(Batches) /\ Len(<<>>) = 0
  BY EmptySeq
<1>2. Unpacked(<<>>) \in Seq(Events) /\ Len(Unpacked(<<>>)) = 0
  BY <1>1, UnpackedSeq
<1>3. QED
  BY <1>2, EmptySeq

\* The elements that wait in the ring.
RingShape == InRing \in Seq(Events) /\ Len(InRing) = Waiting /\ InRing = Window(buf, tail, Waiting)

LEMMA RingShapeHolds == RingOK => RingShape
<1> SUFFICES ASSUME RingOK PROVE RingShape
  OBVIOUS
<1>1. Waiting \in Nat /\ tail \in Nat /\ buf \in [Cells -> Vals]
  BY RingFacts DEF RingOK
<1>2. InRing = Window(buf, tail, Waiting)
  BY DEF InRing, Window
<1> DEFINE s == Window(buf, tail, Waiting)
<1>3. s \in Seq(Vals) /\ Len(s) = Waiting /\ \A i \in 1..Waiting : s[i] = buf[Cell(tail + (i - 1))]
  BY <1>1, WindowSeq
<1>4. \A i \in 1..Waiting : buf[Cell(tail + (i - 1))] \in Events
  BY <1>1 DEF RingOK
<1> HIDE DEF s
<1>5. s \in [1..Waiting -> Events]
  <2>1. s \in [1..Len(s) -> Vals]
    BY <1>3, LenProperties
  <2>2. QED
    BY <1>3, <1>4, <2>1
<1>6. s \in Seq(Events)
  BY <1>1, <1>5, SeqDef
<1>7. QED
  BY <1>2, <1>3, <1>6 DEF RingShape, s

LEMMA RingShapeNext == RingOK' => RingShape'
BY RingShapeHolds, PTL

\* Adding a datagram joins its events to the ones before.
LEMMA SentStep ==
  ASSUME sends \in Seq(SendRecs), NEW r \in SendRecs, sends' = Append(sends, r),
         Attempted \in Seq(Events)
  PROVE  Attempted' = Attempted \o Unpacked(r.pkt.msgs)
<1> DEFINE n == Len(sends)
           w == Sent
           v == Sent'
<1>1. n \in Nat /\ Len(sends') = n + 1 /\ n + 1 \in Nat /\ sends'[n + 1] = r
      /\ \A i \in 1..n : sends'[i] = sends[i]
  BY AppendProperties, LenProperties
<1>2. v[n + 1] = Unpacked(r.pkt.msgs)
  <2>1. v = [i \in 1..(n + 1) |-> Unpacked(sends'[i].pkt.msgs)] /\ n + 1 \in 1..(n + 1)
    BY <1>1 DEF Sent, Unpacked
  <2>2. QED
    BY <1>1, <2>1
<1>3. \A i \in 1..n : w[i] = v[i]
  <2>1. v = [i \in 1..(n + 1) |-> Unpacked(sends'[i].pkt.msgs)]
    BY <1>1 DEF Sent, Unpacked
  <2>2. w = [i \in 1..n |-> Unpacked(sends[i].pkt.msgs)]
    BY DEF Sent
  <2>3. \A i \in 1..n : i \in 1..(n + 1)
    BY <1>1
  <2>4. QED
    BY <1>1, <2>1, <2>2, <2>3
<1>4. Attempted = Joined(w, n)
  BY <1>1, AttemptedIs DEF AttemptedJoined
<1>5. Attempted' = Joined(v, n + 1)
  <2>1. (Len(sends) \in Nat)' => AttemptedJoined'
    BY AttemptedIs, PTL
  <2>2. QED
    BY <1>1, <2>1 DEF AttemptedJoined
<1> HIDE DEF n, w, v
<1>6. Joined(w, n) = Joined(v, n)
  BY <1>1, <1>3, JoinSame
<1>7. Joined(v, n + 1) = Joined(v, n) \o v[n + 1]
  BY <1>1, JoinStep
<1>8. QED
  BY <1>2, <1>4, <1>5, <1>6, <1>7

\* The messages of the datagrams that went out.
SentWeights == [i \in 1..Len(sends) |-> IF sends[i].ok THEN Len(sends[i].pkt.msgs) ELSE 0]
SentCounted == SentCount = Sum(SentWeights, 1..Len(sends))

LEMMA SentCountIs == Len(sends) \in Nat => SentCounted
<1> SUFFICES ASSUME Len(sends) \in Nat PROVE SentCounted
  OBVIOUS
<1> DEFINE w == SentWeights
           T == 1..Len(sends)
           o(i) == IF sends[i].ok THEN Len(sends[i].pkt.msgs) ELSE 0
<1>1. IsFiniteSet(T)
  BY FS_Interval
<1>2. \A s \in SUBSET T : s # {} => w[Pick(s)] = o(Pick(s))
  BY PickIn DEF SentWeights
<1>3. ASSUME NEW g
      PROVE  [s \in SUBSET T |-> IF s = {} THEN 0 ELSE o(Pick(s)) + g[s \ {Pick(s)}]]
             = [s \in SUBSET T |-> IF s = {} THEN 0 ELSE w[Pick(s)] + g[s \ {Pick(s)}]]
  BY <1>2
<1>4. SentCount = (CHOOSE g : g = [s \in SUBSET T |-> IF s = {} THEN 0
                     ELSE o(Pick(s)) + g[s \ {Pick(s)}]])[T]
  BY DEF SentCount, CountOf, MapThenSumSet, MapThenFoldSet, Pick
<1> DEFINE h == CHOOSE g : g = [s \in SUBSET T |-> IF s = {} THEN 0
                  ELSE o(Pick(s)) + g[s \ {Pick(s)}]]
<1> HIDE DEF w, T, o
<1>5. SumFcn(w, T) = [s \in SUBSET T |-> IF s = {} THEN 0
                        ELSE o(Pick(s)) + SumFcn(w, T)[s \ {Pick(s)}]]
  <2> DEFINE f == SumFcn(w, T)
  <2>1. Sums(f, w, T)
    BY <1>1, SumsExist
  <2> HIDE DEF f
  <2>2. f = [s \in SUBSET T |-> IF s = {} THEN 0 ELSE w[Pick(s)] + f[s \ {Pick(s)}]]
    BY <2>1 DEF Sums
  <2>3. f = [s \in SUBSET T |-> IF s = {} THEN 0 ELSE o(Pick(s)) + f[s \ {Pick(s)}]]
    BY <1>3, <2>2, Zenon
  <2>4. QED
    BY <2>3 DEF f
<1>6. h = [s \in SUBSET T |-> IF s = {} THEN 0 ELSE o(Pick(s)) + h[s \ {Pick(s)}]]
  BY <1>5, Zenon
<1> HIDE DEF h
<1>7. Sums(h, w, T)
  BY <1>3, <1>6 DEF Sums
<1>8. Sums(SumFcn(w, T), w, T) /\ T \in SUBSET T
  BY <1>1, SumsExist
<1>9. h[T] = SumFcn(w, T)[T]
  BY <1>1, <1>7, <1>8, SumsAgree
<1>10. QED
  BY <1>4, <1>9 DEF h, w, T, Sum, SentCounted

LEMMA SentCountStep ==
  ASSUME sends \in Seq(SendRecs), NEW r \in SendRecs, sends' = Append(sends, r)
  PROVE  SentCount' = SentCount + (IF r.ok THEN Len(r.pkt.msgs) ELSE 0)
<1> DEFINE n == Len(sends)
           w == SentWeights
           v == SentWeights'
<1>1. /\ n \in Nat /\ Len(sends') = n + 1 /\ n + 1 \in Nat /\ sends'[n + 1] = r
      /\ \A i \in 1..n : sends'[i] = sends[i]
      /\ sends' \in Seq(SendRecs) /\ \A i \in 1..(n + 1) : sends'[i] \in SendRecs
  BY AppendProperties, LenProperties, ElementOfSeq
<1>2. \A x \in SendRecs : (IF x.ok THEN Len(x.pkt.msgs) ELSE 0) \in Nat
  BY LenProperties DEF SendRecs, Packets
<1>3. v = [i \in 1..(n + 1) |-> IF sends'[i].ok THEN Len(sends'[i].pkt.msgs) ELSE 0]
  BY <1>1 DEF SentWeights
<1>4. w = [i \in 1..n |-> IF sends[i].ok THEN Len(sends[i].pkt.msgs) ELSE 0]
  BY DEF SentWeights
<1> HIDE DEF v, w
<1>5. v \in [1..(n + 1) -> Nat]
  BY <1>1, <1>2, <1>3
<1>6. \A i \in 1..n : w[i] = v[i]
  BY <1>1, <1>3, <1>4
<1>7. v[n + 1] = IF r.ok THEN Len(r.pkt.msgs) ELSE 0
  BY <1>1, <1>3
<1>8. SentCount = Sum(w, 1..n)
  BY <1>1, SentCountIs DEF SentCounted, w
<1>9. SentCount' = Sum(v, 1..(n + 1))
  <2>1. (Len(sends) \in Nat)' => SentCounted'
    BY SentCountIs, PTL
  <2>2. QED
    BY <1>1, <2>1 DEF SentCounted, v
<1> HIDE DEF n
<1>10. IsFiniteSet(1..n) /\ IsFiniteSet(1..(n + 1)) /\ 1..n \in SUBSET (1..(n + 1))
       /\ n + 1 \in (1..(n + 1)) \ (1..n) /\ (1..n) \cup {n + 1} = 1..(n + 1)
  <2>1. 1 \in Int /\ n \in Int /\ n + 1 \in Int /\ n \in Nat
    BY <1>1
  <2>2. IsFiniteSet(1..n) /\ IsFiniteSet(1..(n + 1))
    BY ONLY <2>1, FS_Interval
  <2>3. QED
    BY ONLY <2>1, <2>2
<1>11. Sum(v, 1..(n + 1)) = v[n + 1] + Sum(v, 1..n)
  <2> DEFINE m == n + 1
             A == 1..n
             B == 1..m
  <2>1. IsFiniteSet(B) /\ A \in SUBSET B /\ m \in B \ A /\ A \cup {m} = B /\ v \in [B -> Nat]
    BY ONLY <1>5, <1>10
  <2> HIDE DEF m, A, B
  <2>2. Sum(v, A \cup {m}) = v[m] + Sum(v, A)
    BY ONLY <2>1, SumAdd
  <2>3. Sum(v, B) = v[m] + Sum(v, A)
    BY ONLY <2>1, <2>2
  <2>4. QED
    BY ONLY <2>3 DEF m, A, B
<1>12. Sum(w, 1..n) = Sum(v, 1..n) /\ Sum(v, 1..n) \in Nat
  <2>1. Sum(w, 1..n) = Sum(v, 1..n)
    BY <1>6, <1>10, SumSame
  <2>2. QED
    BY <1>5, <1>10, <2>1, SumNat
<1>13. v[n + 1] \in Nat
  BY <1>1, <1>2, <1>7
<1>14. QED
  BY ONLY <1>7, <1>8, <1>9, <1>11, <1>12, <1>13

-----------------------------------------------------------------------------
(***************************************************************************)
(* What the steps of the ring do to the elements that wait in it.          *)
(***************************************************************************)
LEMMA InRingSame == UNCHANGED <<buf, head, tail>> => UNCHANGED InRing
BY DEF InRing, Waiting

\* The cell that the producer fills is not one of those that wait.
LEMMA WriteKeepsWaiting ==
  ASSUME RingOK, RingOK', PushWrite
  PROVE  UNCHANGED InRing
<1>1. /\ prod.pc = "write" /\ UNCHANGED <<head, tail>>
      /\ Waiting' = Waiting /\ buf' = [buf EXCEPT ![Cell(head)] = prod.val]
  BY DEF PushWrite, RingOK, Cell, Waiting
<1> DEFINE w == Waiting
           k == Cell(head)
           s == Window(buf, tail, w)
           u == Window(buf', tail, w)
<1>2. /\ w \in Nat /\ w < Size /\ tail \in Nat /\ k = Cell(tail + w)
      /\ buf \in [Cells -> Vals] /\ buf' \in [Cells -> Vals]
  BY <1>1, RingFacts DEF RingOK
<1>3. InRing = s /\ InRing' = u
  BY <1>1, RingShapeHolds, RingShapeNext DEF RingShape
<1> HIDE DEF w
<1>4. s \in Seq(Vals) /\ Len(s) = w /\ \A i \in 1..w : s[i] = buf[Cell(tail + (i - 1))]
  BY <1>2, WindowSeq
<1>5. u \in Seq(Vals) /\ Len(u) = w /\ \A i \in 1..w : u[i] = buf'[Cell(tail + (i - 1))]
  BY <1>2, WindowSeq
<1> HIDE DEF s, u, k
<1>6. ASSUME NEW i \in 1..w PROVE u[i] = s[i]
  <2>1. /\ tail + (i - 1) \in Nat /\ tail + w \in Nat
        /\ tail + (i - 1) < tail + w /\ tail + w < (tail + (i - 1)) + Size
    BY <1>2, SizeAssumption
  <2>2. Cell(tail + (i - 1)) # Cell(tail + w) /\ Cell(tail + (i - 1)) \in Cells
    BY <2>1, CellDistinct, CellType
  <2>3. buf'[Cell(tail + (i - 1))] = buf[Cell(tail + (i - 1))]
    BY <1>1, <1>2, <2>2 DEF k
  <2>4. QED
    BY <1>4, <1>5, <2>3
<1>7. u = s
  BY <1>4, <1>5, <1>6, SeqEqual
<1>8. QED
  BY <1>3, <1>7

LEMMA StoreAppends ==
  ASSUME RingOK, RingOK', PushStore
  PROVE  InRing' = Append(InRing, prod.val) /\ prod.val \in Events
<1>1. /\ prod.pc = "store" /\ UNCHANGED <<buf, tail>> /\ Waiting' = Waiting + 1
  BY PushStoreRing DEF PushStore
<1> DEFINE w == Waiting
           v == prod.val
<1>2. /\ w \in Nat /\ w < Size /\ tail \in Nat /\ v \in Events
      /\ buf \in [Cells -> Vals] /\ buf[Cell(tail + w)] = v
  BY <1>1, RingFacts DEF RingOK
<1>3. InRing = Window(buf, tail, w) /\ InRing' = Window(buf, tail, w + 1)
  BY <1>1, RingShapeHolds, RingShapeNext DEF RingShape
<1> HIDE DEF w, v
<1>4. Extends(buf, buf, tail, w, v)
  BY <1>2, WindowReserve
<1>5. QED
  BY <1>2, <1>3, <1>4 DEF Extends, v

LEMMA PopTakes ==
  ASSUME RingOK, RingOK', PopStore
  PROVE  InRing # <<>> /\ InRing' = Tail(InRing) /\ cons.val = InRing[1]
<1>1. /\ UNCHANGED <<buf, head>> /\ tail' = (tail + 1) % CtrMod /\ Waiting' = Waiting - 1
      /\ cons.val = buf[Cell(tail)] /\ Waiting >= 1
  BY PopStoreRing DEF PopStore, RingOK
<1>2. /\ Waiting \in Nat /\ tail \in Nat /\ tail' \in Nat /\ buf \in [Cells -> Vals]
      /\ \A i \in Nat : Cell(tail' + i) = Cell(tail + (i + 1))
  <2>1. tail' \in Nat
    BY DEF RingOK, Ctr
  <2>2. head \in Ctr /\ tail \in Ctr /\ Diff(head, tail) >= 1
    BY <1>1, RingFacts DEF RingOK
  <2>3. \A i \in Nat : Cell(tail' + i) = Cell(tail + (i + 1))
    BY <1>1, <2>2, TailStep
  <2>4. QED
    BY <2>1, <2>3, RingFacts DEF RingOK
<1> DEFINE n == Waiting
<1>3. n \in Nat /\ n >= 1 /\ InRing = Window(buf, tail, n) /\ InRing' = Window(buf, tail', n - 1)
  BY <1>1, <1>2, RingShapeHolds, RingShapeNext DEF RingShape
<1> HIDE DEF n
<1>4. /\ Window(buf, tail', n - 1) = Tail(Window(buf, tail, n))
      /\ Window(buf, tail, n)[1] = buf[Cell(tail)] /\ Window(buf, tail, n) # <<>>
  BY <1>2, <1>3, WindowDeliver
<1>5. QED
  BY <1>1, <1>3, <1>4

-----------------------------------------------------------------------------
(***************************************************************************)
(* The account is kept by every step.                                      *)
(***************************************************************************)
LEMMA InitAccount == Init => AccountOK
<1> SUFFICES ASSUME Init PROVE AccountOK
  OBVIOUS
<1>1. /\ sends = <<>> /\ pushed = <<>> /\ pub.batch = <<>> /\ head = tail /\ prod.pc = "idle"
      /\ pktSeq = 0 /\ calls.publish = 0 /\ stats = NewStats
  BY DEF Init, PubInit, RingInit, NoThread, NewThread, NoCalls, IdleSide
<1>2. /\ sends \in Seq(SendRecs) /\ pushed \in Seq(Events) /\ Len(sends) = 0 /\ Len(pushed) = 0
  BY <1>1, EmptySeq
<1>3. Attempted = <<>> /\ Attempted \in Seq(Events)
  <2>1. Attempted = Joined(Sent, Len(sends)) /\ Len(sends) = 0
    BY <1>2, AttemptedIs DEF AttemptedJoined
  <2>2. Joined(Sent, 0) = <<>>
    BY JoinEmpty
  <2>3. QED
    BY <2>1, <2>2, EmptySeq
<1>4. InRing = <<>>
  <2>1. RingOK /\ Waiting = 0
    BY <1>1, InitFeed, DiffType DEF FeedOK, RingOK, Waiting, Diff
  <2>2. QED
    BY <2>1, RingShapeHolds, EmptySeq DEF RingShape
<1>5. Unpacked(pub.batch) = <<>>
  BY <1>1, UnpackedEmpty
<1>6. <<>> \o <<>> \o <<>> = <<>>
  BY ConcatEmptySeq, EmptySeq
<1>7. LogOK
  <2>1. pushed = Attempted \o Unpacked(pub.batch) \o InRing
    BY <1>1, <1>3, <1>4, <1>5, <1>6, Zenon
  <2>2. Len(Attempted) = 0
    BY <1>3, EmptySeq
  <2>3. QED
    BY <1>1, <1>2, <1>3, <2>1, <2>2 DEF LogOK
<1>8. SentCount = 0
  <2>1. SentCount = Sum(SentWeights, 1..0)
    BY <1>2, SentCountIs DEF SentCounted
  <2>2. 1..0 = {}
    OBVIOUS
  <2>3. QED
    BY <2>1, <2>2, SumUnfold, FS_EmptySet
<1>9. CountsOK
  BY <1>1, <1>2, <1>8 DEF CountsOK, NewStats, StatsType
<1>10. QED
  BY <1>7, <1>9 DEF AccountOK

LEMMA SendsSame ==
  ASSUME sends \in Seq(SendRecs), UNCHANGED sends
  PROVE  UNCHANGED <<Attempted, SentCount>>
<1>1. Len(sends) \in Nat /\ (Len(sends) \in Nat)'
  BY LenProperties
<1>2. AttemptedJoined /\ SentCounted
  BY <1>1, AttemptedIs, SentCountIs
<1>3. (Len(sends) \in Nat)' => AttemptedJoined' /\ SentCounted'
  BY AttemptedIs, SentCountIs, PTL
<1>4. Sent' = Sent /\ SentWeights' = SentWeights
  BY DEF Sent, Unpacked, SentWeights
<1>5. QED
  BY <1>1, <1>2, <1>3, <1>4 DEF AttemptedJoined, SentCounted

\* A step that touches neither the events nor the counters of the account.
LEMMA LogKept ==
  ASSUME LogOK, UNCHANGED <<pushed, sends, InRing>>, pub'.batch = pub.batch,
         pub'.pc \notin {"fill", "send"} => pub'.batch = <<>>,
         Len(pushed) + (IF prod'.pc = "idle" THEN 0 ELSE 1) <= calls'.publish
  PROVE  LogOK'
<1>1. UNCHANGED Attempted
  BY SendsSame DEF LogOK
<1>2. Unpacked(pub.batch)' = Unpacked(pub.batch)
  BY DEF Unpacked
<1> HIDE DEF Attempted, InRing
<1>3. QED
  BY <1>1, <1>2 DEF LogOK

LEMMA CountsKept ==
  ASSUME CountsOK, sends \in Seq(SendRecs), UNCHANGED <<pushed, sends, pktSeq>>,
         stats' = stats \/ stats' = [stats EXCEPT !.dropped = @ + 1]
  PROVE  CountsOK'
<1>1. UNCHANGED SentCount
  BY SendsSame
<1>2. /\ stats' \in StatsType /\ stats'.enqueued = stats.enqueued /\ stats'.messages = stats.messages
      /\ stats'.packets = stats.packets /\ stats'.send_fail = stats.send_fail
  BY DEF CountsOK, StatsType
<1> HIDE DEF SentCount
<1>3. QED
  BY <1>1, <1>2 DEF CountsOK

LEMMA StoreAccount ==
  ASSUME FeedOK, FeedOK', AccountOK, EnqueueStore
  PROVE  AccountOK'
<1> DEFINE v == prod.val
<1>1. /\ InRing' = Append(InRing, v) /\ v \in Events
      /\ InRing \in Seq(Events)
  BY StoreAppends, RingShapeHolds DEF EnqueueStore, FeedOK, RingShape
<1>2. /\ pushed' = Append(pushed, v) /\ prod.pc = "store" /\ prod'.pc = "idle"
      /\ UNCHANGED <<sends, pub, pktSeq, calls>> /\ stats' = [stats EXCEPT !.enqueued = @ + 1]
  BY DEF EnqueueStore, PushStore, IdleSide
<1>3. sends \in Seq(SendRecs) /\ pushed \in Seq(Events) /\ Attempted \in Seq(Events)
      /\ pub.batch \in Seq(Batches)
  BY DEF AccountOK, LogOK, FeedOK, ThreadOK
<1>4. UNCHANGED <<Attempted, SentCount>>
  BY <1>2, <1>3, SendsSame
<1> DEFINE U == Unpacked(pub.batch)
<1>5. U \in Seq(Events) /\ U' = U
  BY <1>2, <1>3, UnpackedSeq DEF Unpacked
<1> HIDE DEF v, U
<1>6. pushed' \in Seq(Events) /\ Len(pushed') = Len(pushed) + 1 /\ Len(pushed) \in Nat
  BY <1>1, <1>2, <1>3, AppendProperties, LenProperties
<1>7. pushed' = Attempted \o U \o InRing'
  <2> DEFINE X == Attempted \o U
             R == InRing
  <2>1. X \in Seq(Events) /\ R \in Seq(Events) /\ v \in Events
    BY <1>1, <1>3, <1>5, ConcatProperties
  <2>2. pushed = X \o R
    BY DEF AccountOK, LogOK, U
  <2> HIDE DEF X, R
  <2>3. X \o Append(R, v) = Append(X \o R, v)
    BY ONLY <2>1, ConcatAppend
  <2>4. pushed' = X \o Append(R, v)
    BY <1>2, <2>2, <2>3
  <2>5. QED
    BY <1>1, <2>4 DEF X, R
<1> HIDE DEF Attempted, InRing, SentCount
<1>8. LogOK'
  <2>1. Len(pushed) + 1 <= calls.publish /\ calls.publish \in Nat
    BY <1>2 DEF AccountOK, LogOK, FeedOK, CallsOK
  <2>2. Len(pushed') + 0 <= calls'.publish
    BY <1>2, <1>6, <2>1
  <2>3. QED
    BY <1>2, <1>3, <1>4, <1>5, <1>6, <1>7, <2>2 DEF AccountOK, LogOK, U
<1>9. CountsOK'
  <2>1. /\ stats' \in StatsType /\ stats'.enqueued = stats.enqueued + 1
        /\ stats'.messages = stats.messages
        /\ stats'.packets = stats.packets /\ stats'.send_fail = stats.send_fail
    <3>1. stats \in StatsType
      BY DEF AccountOK, CountsOK
    <3>2. QED
      BY ONLY <1>2, <3>1 DEF StatsType
  <2>2. QED
    BY <1>2, <1>4, <1>6, <2>1 DEF AccountOK, CountsOK
<1>10. QED
  BY <1>8, <1>9 DEF AccountOK

LEMMA PackAccount ==
  ASSUME FeedOK, FeedOK', AccountOK, FillPack
  PROVE  AccountOK'
<1> DEFINE v == cons.val
<1>1. /\ InRing # <<>> /\ InRing' = Tail(InRing) /\ v = InRing[1] /\ v \in Events
      /\ InRing \in Seq(Events)
  BY PopTakes, PopStoreRing, RingShapeHolds DEF FillPack, FeedOK, RingShape
<1>2. /\ UNCHANGED <<sends, pktSeq, calls, pushed, prod, stats>> /\ cons.pc = "store"
      /\ pub' = [pub EXCEPT !.batch = Append(@, PackMsg(v)), !.off = @ + MsgBytes(v.type)]
  BY DEF FillPack, PopStore
<1>3. /\ sends \in Seq(SendRecs) /\ pushed \in Seq(Events) /\ Attempted \in Seq(Events)
      /\ pub \in [pc : PubPcs, batch : Seq(Batches), off : Nat] /\ pub.pc = "fill"
  BY <1>2 DEF AccountOK, LogOK, FeedOK, ThreadOK
<1>4. UNCHANGED Attempted
  BY <1>2, <1>3, SendsSame
<1>5. pub'.pc = "fill" /\ pub'.batch = Append(pub.batch, PackMsg(v))
  BY <1>2, <1>3
<1> DEFINE U == Unpacked(pub.batch)
           b == pub.batch
<1>6. U \in Seq(Events) /\ Unpacked(Append(b, PackMsg(v))) = Append(U, v)
  BY <1>1, <1>3, UnpackedSeq, UnpackedAppend
<1>7. Unpacked(pub.batch)' = Append(U, v)
  <2>1. Unpacked(pub.batch)' = Unpacked(pub'.batch)
    BY DEF Unpacked
  <2>2. QED
    BY <1>5, <1>6, <2>1
<1> HIDE DEF v, U
<1>8. pushed = Attempted \o Append(U, v) \o InRing'
  <2> DEFINE X == Attempted
             R == InRing
  <2>1. X \in Seq(Events) /\ R \in Seq(Events) /\ U \in Seq(Events) /\ R # <<>>
    BY <1>1, <1>3, <1>6
  <2>2. pushed = X \o U \o R
    BY DEF AccountOK, LogOK, U
  <2> HIDE DEF X, R
  <2>3. X \o Append(U, R[1]) \o Tail(R) = X \o U \o R
    <3>1. HeadMoves(X, U, R)
      BY ONLY <2>1, ConcatMove
    <3>2. QED
      BY <3>1 DEF HeadMoves
  <2>4. pushed = X \o Append(U, R[1]) \o Tail(R)
    BY <2>2, <2>3
  <2>5. QED
    BY <1>1, <2>4 DEF X, R
<1> HIDE DEF Attempted, InRing
<1>9. LogOK'
  BY <1>2, <1>3, <1>4, <1>5, <1>7, <1>8 DEF AccountOK, LogOK
<1>10. CountsOK'
  BY <1>2, <1>3, CountsKept DEF AccountOK
<1>11. QED
  BY <1>9, <1>10 DEF AccountOK

\* The datagram's sequence number is the number of the datagrams before it, and
\* there is no datagram without an event.
LEMMA SendAccount ==
  ASSUME FeedOK, FeedOK', AccountOK, NEW ok \in BOOLEAN, Send(ok)
  PROVE  AccountOK'
<1> DEFINE b == pub.batch
           r == [pkt |-> Datagram(pktSeq, b, pub.off), ok |-> ok]
           U == Unpacked(b)
<1>1. /\ sends' = Append(sends, r) /\ pktSeq' = pktSeq + 1
      /\ UNCHANGED <<calls, pushed, prod, buf, head, tail>>
      /\ stats' = IF ok THEN [stats EXCEPT !.packets = @ + 1, !.messages = @ + Len(b)]
                  ELSE [stats EXCEPT !.send_fail = @ + 1]
      /\ pub' = [pub EXCEPT !.pc = "top", !.batch = <<>>] /\ pub.pc = "send"
  BY DEF Send, ringVars
<1>2. /\ sends \in Seq(SendRecs) /\ pushed \in Seq(Events) /\ Attempted \in Seq(Events)
      /\ b \in Seq(Batches) /\ b # <<>> /\ pub.off \in Nat
      /\ pub \in [pc : PubPcs, batch : Seq(Batches), off : Nat]
  BY <1>1 DEF AccountOK, LogOK, FeedOK, ThreadOK
<1>3. /\ U \in Seq(Events) /\ Len(U) = Len(b) /\ Len(b) \in Nat /\ Len(b) >= 1
  BY <1>2, UnpackedSeq, LenProperties, EmptySeq
<1>4. InRing \in Seq(Events) /\ UNCHANGED InRing
  BY <1>1, InRingSame, RingShapeHolds DEF FeedOK, RingShape
<1> DEFINE X == Attempted
           R == InRing
<1>5. pushed = X \o U \o R /\ X \in Seq(Events) /\ R \in Seq(Events)
  BY <1>2, <1>4 DEF AccountOK, LogOK
<1> HIDE DEF X, R, U
<1>6. X \o U \in Seq(Events) /\ Len(X \o U) = Len(X) + Len(U) /\ Len(X) \in Nat
      /\ Len(pushed) = Len(X \o U) + Len(R) /\ Len(R) \in Nat
  <2> DEFINE Y == X \o U
  <2>1. Y \in Seq(Events) /\ Len(Y) = Len(X) + Len(U)
    BY <1>3, <1>5, ConcatProperties
  <2>2. pushed = Y \o R
    BY <1>5
  <2> HIDE DEF Y
  <2>3. Len(Y \o R) = Len(Y) + Len(R)
    BY <1>5, <2>1, ConcatProperties
  <2>4. Len(X) \in Nat /\ Len(R) \in Nat
    BY <1>5, LenProperties
  <2>5. QED
    BY <2>1, <2>2, <2>3, <2>4 DEF Y
<1>7. pktSeq \in Word /\ pktSeq = Len(sends) /\ pktSeq \in Nat /\ Len(sends) <= Len(X)
  <2>1. pktSeq = Len(sends) /\ Len(sends) <= Len(X) /\ Len(sends) \in Nat
    BY <1>2, LenProperties DEF AccountOK, LogOK, CountsOK, X
  <2>2. Len(pushed) + 0 <= calls.publish \/ Len(pushed) + 1 <= calls.publish
    BY DEF AccountOK, LogOK
  <2>3. calls.publish \in Nat /\ calls.publish <= MaxEvents /\ MaxEvents \in Word
        /\ MaxEvents <= 65535 /\ MaxEvents \in Int
    BY PublisherAssumption, WordIs DEF FeedOK, CallsOK
  <2>4. Len(sends) <= 65535
    BY <1>3, <1>6, <2>1, <2>2, <2>3
  <2>5. QED
    BY <2>1, <2>4, IsWord
<1>8. Swap(pktSeq) \in Nat /\ Swap(Swap(pktSeq)) = pktSeq /\ Swap(Magic) \in Nat
  <2>1. Magic \in Word
    BY IsWord DEF Magic
  <2>2. Swap(pktSeq) \in Word /\ Swap(Magic) \in Word /\ Swap(Swap(pktSeq)) = pktSeq
    BY <1>7, <2>1, SwapTwice
  <2>3. QED
    BY <2>2, WordIs
<1>9. r \in SendRecs /\ r.pkt.msgs = b /\ r.ok = ok /\ Swap(r.pkt.seq) = pktSeq
  <2> DEFINE p == Datagram(pktSeq, b, pub.off)
             q == Swap(pktSeq)
             m == Swap(Magic)
             k == Len(b)
             o == pub.off
  <2>1. p = [magic |-> m, version |-> 1, count |-> k, seq |-> q, msgs |-> b, len |-> o]
    BY DEF Datagram, Version
  <2>2. m \in Nat /\ k \in Nat /\ q \in Nat /\ b \in Seq(Batches) /\ o \in Nat /\ Swap(q) = pktSeq
    BY <1>2, <1>3, <1>8
  <2> HIDE DEF p, q, m, k, o, b
  <2>3. p \in Packets /\ p.msgs = b /\ p.seq = q
    BY ONLY <2>1, <2>2 DEF Packets
  <2>4. r = [pkt |-> p, ok |-> ok]
    BY DEF p
  <2>5. r \in SendRecs /\ r.pkt = p /\ r.ok = ok
    BY <2>3, <2>4 DEF SendRecs
  <2>6. QED
    BY <2>2, <2>3, <2>5
<1> HIDE DEF r
<1>10. /\ sends' \in Seq(SendRecs) /\ Len(sends') = Len(sends) + 1 /\ sends'[Len(sends) + 1] = r
       /\ \A i \in 1..Len(sends) : sends'[i] = sends[i]
  BY <1>1, <1>2, <1>9, AppendProperties
<1>11. Attempted' = X \o U
  BY <1>1, <1>2, <1>9, SentStep DEF X, U
<1>12. Unpacked(pub.batch)' = <<>> /\ pub'.batch = <<>> /\ pub'.pc = "top"
  <2>1. pub'.batch = <<>> /\ pub'.pc = "top"
    BY <1>1, <1>2
  <2>2. Unpacked(pub.batch)' = Unpacked(pub'.batch)
    BY DEF Unpacked
  <2>3. QED
    BY <2>1, <2>2, UnpackedEmpty
<1>13. LogOK'
  <2>1. pushed = (X \o U) \o <<>> \o R
    <3>1. (X \o U) \o <<>> = X \o U
      BY <1>6, ConcatEmptySeq
    <3>2. QED
      BY <1>5, <3>1
  <2>2. Len(sends') <= Len(X \o U)
    BY <1>3, <1>6, <1>7, <1>10
  <2>3. pushed' = Attempted' \o Unpacked(pub.batch)' \o InRing'
    BY <1>1, <1>4, <1>11, <1>12, <2>1 DEF R
  <2>4. Len(pushed') + (IF prod'.pc = "idle" THEN 0 ELSE 1) <= calls'.publish
    BY <1>1 DEF AccountOK, LogOK
  <2> HIDE DEF Attempted, InRing
  <2>5. QED
    BY <1>1, <1>2, <1>6, <1>10, <1>11, <1>12, <2>2, <2>3, <2>4 DEF LogOK
<1>14. CountsOK'
  <2>1. SentCount' = SentCount + (IF ok THEN Len(b) ELSE 0)
    BY <1>1, <1>2, <1>9, SentCountStep
  <2> HIDE DEF SentCount, b
  <2>2. stats \in StatsType /\ stats.messages = SentCount /\ stats.enqueued = Len(pushed)
        /\ pktSeq = stats.packets + stats.send_fail
    BY DEF AccountOK, CountsOK
  <2>3. /\ stats' \in StatsType /\ stats'.enqueued = stats.enqueued
        /\ stats'.messages = stats.messages + (IF ok THEN Len(b) ELSE 0)
        /\ stats'.packets + stats'.send_fail = stats.packets + stats.send_fail + 1
    <3>1. CASE ok
      <4> DEFINE k == Len(b)
      <4>1. k \in Nat /\ stats' = [stats EXCEPT !.packets = @ + 1, !.messages = @ + k]
        BY <1>1, <1>3, <3>1 DEF b
      <4> HIDE DEF k
      <4>2. /\ stats' \in StatsType /\ stats'.enqueued = stats.enqueued
            /\ stats'.messages = stats.messages + k
            /\ stats'.packets + stats'.send_fail = stats.packets + stats.send_fail + 1
        <5>1. /\ stats.packets \in Nat /\ stats.messages \in Nat /\ stats.enqueued \in Nat
              /\ stats.dropped \in Nat /\ stats.send_fail \in Nat
          BY ONLY <2>2 DEF StatsType
        <5> DEFINE x == stats.packets + 1
                   y == stats.messages + k
        <5>2. x \in Nat /\ y \in Nat /\ x = stats.packets + 1 /\ y = stats.messages + k
              /\ stats' = [stats EXCEPT !.packets = x, !.messages = y]
          BY <4>1, <5>1
        <5> HIDE DEF x, y
        <5>3. /\ stats' \in StatsType /\ stats'.enqueued = stats.enqueued
              /\ stats'.messages = y /\ stats'.packets = x /\ stats'.send_fail = stats.send_fail
          BY ONLY <2>2, <5>2 DEF StatsType
        <5>4. QED
          BY ONLY <5>1, <5>2, <5>3
      <4>3. QED
        BY <3>1, <4>2 DEF k
    <3>2. CASE ~ok
      <4>1. stats' = [stats EXCEPT !.send_fail = @ + 1]
        BY <1>1, <3>2
      <4>2. QED
        BY <2>2, <3>2, <4>1 DEF StatsType
    <3>3. QED
      BY <3>1, <3>2
  <2>4. ASSUME NEW i \in 1..Len(sends') PROVE Swap(sends'[i].pkt.seq) = i - 1
    <3>1. CASE i \in 1..Len(sends)
      <4>1. Swap(sends[i].pkt.seq) = i - 1 /\ sends'[i] = sends[i]
        BY <1>10, <3>1 DEF AccountOK, CountsOK
      <4>2. QED
        BY <4>1
    <3>2. CASE i = Len(sends) + 1
      BY <1>7, <1>9, <1>10, <3>2
    <3>3. QED
      BY <1>7, <1>10, <3>1, <3>2
  <2>5. pktSeq' = Len(sends') /\ pktSeq' = stats'.packets + stats'.send_fail
    <3>1. stats.packets \in Nat /\ stats.send_fail \in Nat
      BY <2>2 DEF StatsType
    <3>2. QED
      BY <1>1, <1>7, <1>10, <2>2, <2>3, <3>1
  <2>6. stats'.messages = SentCount' /\ stats'.enqueued = Len(pushed')
    BY <1>1, <2>1, <2>2, <2>3
  <2>7. QED
    BY <2>3, <2>4, <2>5, <2>6 DEF CountsOK
<1>15. QED
  BY <1>13, <1>14 DEF AccountOK

LEMMA AccountPreserved == FeedOK /\ FeedOK' /\ AccountOK /\ PubCases => AccountOK'
<1> SUFFICES ASSUME FeedOK, FeedOK', AccountOK, PubCases PROVE AccountOK'
  OBVIOUS
<1>1. /\ LogOK /\ CountsOK /\ sends \in Seq(SendRecs)
      /\ Len(pushed) + (IF prod.pc = "idle" THEN 0 ELSE 1) <= calls.publish
      /\ pub.pc \notin {"fill", "send"} => pub.batch = <<>>
      /\ calls \in [publish : Nat, start : Nat] /\ Len(pushed) \in Nat
      /\ pub \in [pc : PubPcs, batch : Seq(Batches), off : Nat]
  <2>1. pushed \in Seq(Events)
    BY DEF AccountOK, LogOK
  <2>2. QED
    BY <2>1, LenProperties DEF AccountOK, LogOK, FeedOK, CallsOK, ThreadOK
\* The owner's and the thread's steps outside of the ring.
<1>2. ASSUME UNCHANGED <<ringVars, sends, pktSeq, stats>>, pub'.batch = pub.batch,
             pub'.pc \notin {"fill", "send"} => pub'.batch = <<>>,
             calls'.publish = calls.publish
      PROVE  AccountOK'
  <2>1. UNCHANGED <<pushed, prod, buf, head, tail>>
    BY <1>2 DEF ringVars
  <2>2. UNCHANGED InRing
    BY <2>1, InRingSame
  <2> HIDE DEF InRing
  <2>3. LogOK'
    BY <1>1, <1>2, <2>1, <2>2, LogKept
  <2>4. CountsOK'
    BY <1>1, <1>2, <2>1, CountsKept
  <2>5. QED
    BY <2>3, <2>4 DEF AccountOK
<1>3. ASSUME NEW ok \in BOOLEAN, Start(ok) PROVE AccountOK'
  <2>1. UNCHANGED <<ringVars, sends, pktSeq, stats>> /\ calls' = [calls EXCEPT !.start = @ + 1]
    BY <1>3 DEF Start
  <2>2. calls'.publish = calls.publish
    BY <1>1, <2>1
  <2>3. CASE run \/ ~ok
    <3>1. pub' = pub
      BY <1>3, <2>3 DEF Start
    <3>2. QED
      BY <1>1, <1>2, <2>1, <2>2, <3>1
  <2>4. CASE ~(run \/ ~ok)
    <3>1. pub' = [pc |-> "boot", batch |-> <<>>, off |-> 0] /\ owner = "free"
      BY <1>3, <2>4 DEF Start, NewThread, OwnerFree
    <3>2. pub.pc = "none" /\ pub'.batch = <<>>
      BY <2>4, <3>1 DEF FeedOK, ThreadOK
    <3>3. QED
      BY <1>1, <1>2, <2>1, <2>2, <3>2
  <2>5. QED
    BY <2>3, <2>4
<1>4. ASSUME Stop PROVE AccountOK'
  BY <1>1, <1>2, <1>4 DEF Stop
<1>5. ASSUME StopJoined PROVE AccountOK'
  <2>1. /\ UNCHANGED <<ringVars, sends, pktSeq, stats, calls>> /\ pub.pc = "exited"
        /\ pub' = [pc |-> "none", batch |-> <<>>, off |-> 0]
    BY <1>5 DEF StopJoined, NoThread, NewThread
  <2>2. pub'.batch = <<>> /\ pub.batch = <<>>
    BY <1>1, <2>1
  <2>3. QED
    BY <1>2, <2>1, <2>2
<1>6. ASSUME NEW e, Publishes(e) PROVE AccountOK'
  <2>1. /\ UNCHANGED <<pushed, buf, head, tail, sends, pktSeq, pub>> /\ prod.pc = "idle"
        /\ calls' = [calls EXCEPT !.publish = @ + 1]
        /\ stats' = stats \/ stats' = [stats EXCEPT !.dropped = @ + 1]
    BY <1>6 DEF Publishes, Enqueue, PushCheck, ringVars, OwnerFree
  <2>2. UNCHANGED InRing
    BY <2>1, InRingSame
  <2> HIDE DEF InRing
  <2>3. Len(pushed) + (IF prod'.pc = "idle" THEN 0 ELSE 1) <= calls'.publish
    <3>1. calls'.publish = calls.publish + 1 /\ calls.publish \in Nat /\ Len(pushed) + 0 <= calls.publish
      BY <1>1, <2>1
    <3>2. QED
      BY <1>1, <3>1
  <2>4. LogOK'
    BY <1>1, <2>1, <2>2, <2>3, LogKept
  <2>5. CountsOK'
    BY <1>1, <2>1, CountsKept
  <2>6. QED
    BY <2>4, <2>5 DEF AccountOK
<1>7. ASSUME EnqueueWrite PROVE AccountOK'
  <2>1. /\ UNCHANGED <<pushed, sends, pktSeq, pub, stats, calls>> /\ prod.pc = "write"
    BY <1>7 DEF EnqueueWrite, PushWrite, pubVars
  <2>2. UNCHANGED InRing
    BY <1>7, WriteKeepsWaiting DEF EnqueueWrite, FeedOK
  <2> HIDE DEF InRing
  <2>3. Len(pushed) + (IF prod'.pc = "idle" THEN 0 ELSE 1) <= calls'.publish
    BY <1>1, <2>1
  <2>4. LogOK'
    BY <1>1, <2>1, <2>2, <2>3, LogKept
  <2>5. CountsOK'
    BY <1>1, <2>1, CountsKept
  <2>6. QED
    BY <2>4, <2>5 DEF AccountOK
<1>8. ASSUME FillPop \/ FillRead PROVE AccountOK'
  <2>1. /\ UNCHANGED <<buf, head, tail, prod, pushed, sends, pktSeq, pub, stats, calls>>
    BY <1>8 DEF FillPop, FillRead, PopCheck, PopRead, pubVars
  <2>2. UNCHANGED InRing
    BY <2>1, InRingSame
  <2> HIDE DEF InRing
  <2>3. LogOK'
    BY <1>1, <2>1, <2>2, LogKept
  <2>4. CountsOK'
    BY <1>1, <2>1, CountsKept
  <2>5. QED
    BY <2>3, <2>4 DEF AccountOK
<1>9. ASSUME Boot PROVE AccountOK'
  <2>1. /\ UNCHANGED <<ringVars, sends, pktSeq, stats, calls>> /\ pub.pc = "boot"
        /\ \E c \in {"top", "exited"} : pub' = [pub EXCEPT !.pc = c]
    BY <1>9 DEF Boot
  <2>2. pub'.batch = pub.batch /\ pub.batch = <<>>
    BY <1>1, <2>1
  <2>3. QED
    BY <1>2, <2>1, <2>2
<1>10. ASSUME LoopTop PROVE AccountOK'
  <2>1. /\ UNCHANGED <<ringVars, sends, pktSeq, stats, calls>> /\ pub.pc = "top"
        /\ \/ pub' = [pc |-> "fill", batch |-> <<>>, off |-> HdrBytes]
           \/ pub' = [pub EXCEPT !.pc = "exited"]
    BY <1>10 DEF LoopTop
  <2>2. pub'.batch = pub.batch /\ pub.batch = <<>>
    BY <1>1, <2>1
  <2>3. QED
    BY <1>2, <2>1, <2>2
<1>11. ASSUME FillEnd PROVE AccountOK'
  <2>1. /\ UNCHANGED <<ringVars, sends, pktSeq, stats, calls>> /\ pub.pc = "fill"
        /\ \/ pub.batch = <<>> /\ pub' = [pub EXCEPT !.pc = "top"]
           \/ pub.batch # <<>> /\ pub' = [pub EXCEPT !.pc = "send"]
    BY <1>11 DEF FillEnd
  <2>2. pub'.batch = pub.batch /\ (pub.batch = <<>> \/ pub'.pc = "send")
    BY <1>1, <2>1
  <2>3. QED
    BY <1>2, <2>1, <2>2
<1>12. ASSUME UNCHANGED feedVars PROVE AccountOK'
  BY <1>1, <1>2, <1>12 DEF feedVars, pubVars
<1>13. QED
  BY <1>3, <1>4, <1>5, <1>6, <1>7, <1>8, <1>9, <1>10, <1>11, <1>12,
     StoreAccount, PackAccount, SendAccount
  DEF PubCases

LEMMA AccountInvariance == Spec => []AccountOK
<1>1. FeedOK /\ FeedOK' /\ AccountOK /\ [Next]_allVars => AccountOK'
  BY NextCases, AccountPreserved DEF FeedOK
<1>2. QED
  BY <1>1, InitAccount, FeedInvariance, PTL DEF Spec

\* Every accepted event is in exactly one place, in the order of acceptance: in a
\* datagram given to sendto, in the batch, or in the ring; and the counters of
\* enqueue and of the publisher thread agree with it.
THEOREM PublisherLosesNothing == Spec => []EventsAccounted
<1>1. AccountOK => EventsAccounted
  <2> SUFFICES ASSUME AccountOK PROVE EventsAccounted
    OBVIOUS
  <2>1. stats.messages = CountOf(LAMBDA i : sends[i].ok)
    BY DEF AccountOK, CountsOK, SentCount, CountOf
  <2>2. QED
    BY <2>1 DEF AccountOK, LogOK, CountsOK, EventsAccounted, CountOf
<1>2. QED
  BY <1>1, AccountInvariance, PTL

-----------------------------------------------------------------------------
(***************************************************************************)
(* The receiver decodes every message of the publisher's datagrams: the    *)
(* offset of message i is the header and the bytes of the messages before  *)
(* it, and the datagram is as long as all of them.                         *)
(***************************************************************************)
Weights(b) == [i \in 1..Len(b) |-> MsgBytes(b[i].type)]
Bytes(b) == Sum(Weights(b), 1..Len(b))
Offset(w, i) == HdrBytes + Sum(w, 1..(i - 1))

Offsets(g, w, n) == g = [i \in 1..(n + 1) |-> IF i = 1 THEN HdrBytes ELSE g[i - 1] + w[i - 1]]

LEMMA OffsetStep ==
  ASSUME NEW n \in Nat, NEW w, w \in [1..n -> Nat], NEW i \in 1..(n + 1)
  PROVE  Offset(w, i) = (IF i = 1 THEN HdrBytes ELSE Offset(w, i - 1) + w[i - 1])
<1>1. CASE i = 1
  <2>1. Sum(w, 1..0) = 0
    <3>1. 1..0 = {}
      OBVIOUS
    <3>2. Sum(w, {}) = 0
      BY FS_EmptySet, SumUnfold
    <3>3. QED
      BY <3>1, <3>2
  <2>2. QED
    BY <1>1, <2>1 DEF Offset, HdrBytes
<1>2. CASE i # 1
  <2> DEFINE j == i - 1
  <2>1. j \in 1..n /\ w[j] \in Nat
    BY <1>2
  <2> HIDE DEF j
  <2>2. Sum(w, 1..j) = w[j] + Sum(w, 1..(j - 1)) /\ Sum(w, 1..(j - 1)) \in Nat
    BY <2>1, SumUpTo
  <2>3. QED
    BY <1>2, <2>1, <2>2 DEF Offset, HdrBytes, j
<1>3. QED
  BY <1>1, <1>2

LEMMA OffsetsExist ==
  ASSUME NEW n \in Nat, NEW w, w \in [1..n -> Nat]
  PROVE  \E g : Offsets(g, w, n)
<1> DEFINE g == [i \in 1..(n + 1) |-> Offset(w, i)]
<1>1. ASSUME NEW i \in 1..(n + 1)
      PROVE  Offset(w, i) = (IF i = 1 THEN HdrBytes ELSE g[i - 1] + w[i - 1])
  <2>1. i # 1 => i - 1 \in 1..(n + 1)
    OBVIOUS
  <2>2. QED
    BY <2>1, OffsetStep
<1>2. Offsets(g, w, n)
  BY <1>1 DEF Offsets
<1>3. QED
  BY <1>2

LEMMA OffsetsAre ==
  ASSUME NEW n \in Nat, NEW w, w \in [1..n -> Nat], NEW g, Offsets(g, w, n)
  PROVE  \A i \in 1..(n + 1) : g[i] = Offset(w, i)
<1> DEFINE Bad == {i \in 1..(n + 1) : g[i] # Offset(w, i)}
<1> SUFFICES ASSUME Bad # {} PROVE FALSE
  OBVIOUS
<1>1. Bad \in SUBSET Nat
  OBVIOUS
<1>2. PICK m \in Bad : \A k \in Bad : m <= k
  <2> HIDE DEF Bad
  <2>1. QED
    BY <1>1, SmallestNat
<1>3. m \in 1..(n + 1) /\ g[m] = (IF m = 1 THEN HdrBytes ELSE g[m - 1] + w[m - 1])
  BY <1>2 DEF Offsets
<1>4. m # 1 => g[m - 1] = Offset(w, m - 1)
  BY <1>2, <1>3
<1>5. g[m] = Offset(w, m)
  BY <1>3, <1>4, OffsetStep
<1>6. QED
  BY <1>2, <1>5

OwnPacket(p) ==
  /\ p \in Packets /\ p.msgs # <<>>
  /\ p.magic = Swap(Magic) /\ p.version = Version /\ p.count = Len(p.msgs)
  /\ p.len = HdrBytes + Bytes(p.msgs) /\ p.len <= Payload

LEMMA WeightsType ==
  ASSUME NEW b \in Seq(Batches)
  PROVE  /\ Weights(b) \in [1..Len(b) -> Nat] /\ Len(b) \in Nat
         /\ \A i \in 1..Len(b) : b[i].type \in MsgTypes /\ Weights(b)[i] = MsgBytes(b[i].type)
<1>1. Len(b) \in Nat /\ \A i \in 1..Len(b) : b[i] \in Batches
  BY LenProperties, ElementOfSeq
<1>2. \A m \in Batches : m.type \in MsgTypes
  BY EventsClean DEF Batches, PackMsg, Clean
<1>3. \A t \in MsgTypes : MsgBytes(t) \in Nat
  BY MsgBytesBound
<1>4. QED
  BY <1>1, <1>2, <1>3 DEF Weights

LEMMA MaxIs ==
  ASSUME NEW n \in Nat
  PROVE  Max(0..n) = n
<1>1. n \in 0..n /\ \A y \in 0..n : n >= y
  OBVIOUS
<1>2. Max(0..n) \in 0..n /\ \A y \in 0..n : Max(0..n) >= y
  BY <1>1 DEF Max
<1>3. QED
  BY <1>1, <1>2

\* The receiver's loop on such a datagram reads all of its messages.
LEMMA OwnDecodes ==
  ASSUME NEW p, OwnPacket(p)
  PROVE  DecodedCount(p) = Len(p.msgs)
<1> DEFINE b == p.msgs
           n == Len(b)
           w == Weights(b)
           inc(i) == IF b[i].type \in MsgTypes THEN MsgBytes(b[i].type) ELSE 0
           h == CHOOSE g : g = [i \in 1..(n + 1) |-> IF i = 1 THEN HdrBytes
                                                    ELSE g[i - 1] + inc(i - 1)]
           good(i) == i <= n /\ Decodes(b[i], p.len - h[i])
<1>1. /\ b \in Seq(Batches) /\ n \in Nat /\ w \in [1..n -> Nat]
      /\ \A i \in 1..n : b[i].type \in MsgTypes /\ w[i] = MsgBytes(b[i].type)
      /\ p.count = n /\ p.len = HdrBytes + Sum(w, 1..n)
  <2>1. b \in Seq(Batches) /\ p.count = n /\ p.len = HdrBytes + Sum(w, 1..n)
    BY DEF OwnPacket, Packets, Bytes
  <2>2. QED
    BY <2>1, WeightsType
<1>2. DecodedCount(p) = Max({k \in 0..p.count : \A i \in 1..k : good(i)})
  BY DEF DecodedCount
<1>3. \A i \in 1..n : inc(i) = w[i]
  BY <1>1
<1> HIDE DEF w, n, b, inc
<1>4. ASSUME NEW g
      PROVE  (g = [i \in 1..(n + 1) |-> IF i = 1 THEN HdrBytes ELSE g[i - 1] + inc(i - 1)])
             <=> Offsets(g, w, n)
  <2>1. \A i \in 1..(n + 1) : i # 1 => inc(i - 1) = w[i - 1]
    BY <1>1, <1>3
  <2>2. [i \in 1..(n + 1) |-> IF i = 1 THEN HdrBytes ELSE g[i - 1] + inc(i - 1)]
        = [i \in 1..(n + 1) |-> IF i = 1 THEN HdrBytes ELSE g[i - 1] + w[i - 1]]
    BY <2>1
  <2>3. QED
    BY <2>2, Zenon DEF Offsets
<1>5. Offsets(h, w, n)
  <2>1. PICK g : Offsets(g, w, n)
    BY <1>1, OffsetsExist
  <2>2. g = [i \in 1..(n + 1) |-> IF i = 1 THEN HdrBytes ELSE g[i - 1] + inc(i - 1)]
    BY <1>4, <2>1, Zenon
  <2>3. h = [i \in 1..(n + 1) |-> IF i = 1 THEN HdrBytes ELSE h[i - 1] + inc(i - 1)]
    BY <2>2, Zenon
  <2>4. QED
    BY <1>4, <2>3, Zenon
<1> HIDE DEF h
<1>6. \A i \in 1..(n + 1) : h[i] = Offset(w, i)
  BY <1>1, <1>5, OffsetsAre
<1>7. ASSUME NEW i \in 1..n PROVE good(i)
  <2>1. /\ Sum(w, 1..i) = w[i] + Sum(w, 1..(i - 1)) /\ Sum(w, 1..(i - 1)) \in Nat
        /\ Sum(w, 1..i) <= Sum(w, 1..n) /\ Sum(w, 1..i) \in Nat
    BY <1>1, SumUpTo
  <2>2. n \in 1..n
    BY <1>1
  <2>3. Sum(w, 1..n) \in Nat
    BY <1>1, <2>2, SumUpTo
  <2>4. h[i] = 24 + Sum(w, 1..(i - 1)) /\ p.len = 24 + Sum(w, 1..n) /\ w[i] \in Nat
    BY <1>1, <1>6 DEF Offset, HdrBytes
  <2>5. p.len - h[i] >= w[i]
    BY <2>1, <2>3, <2>4
  <2>6. QED
    BY <1>1, <2>5 DEF Decodes
<1>8. {k \in 0..p.count : \A i \in 1..k : good(i)} = 0..n
  <2>1. p.count = n /\ n \in Nat
    BY <1>1
  <2>2. \A k \in 0..n : \A i \in 1..k : i \in 1..n
    BY <2>1
  <2> HIDE DEF good
  <2>3. QED
    BY <1>7, <2>1, <2>2
<1>9. QED
  BY <1>1, <1>2, <1>8, MaxIs DEF n, b

-----------------------------------------------------------------------------
(***************************************************************************)
(* The bytes of a batch, and the events of the datagrams among those that  *)
(* enqueue accepted.                                                       *)
(***************************************************************************)
LEMMA BytesEmpty == Bytes(<<>>) = 0
<1>1. Len(<<>>) = 0 /\ 1..0 = {}
  BY EmptySeq
<1> DEFINE w == Weights(<<>>)
<1>2. Bytes(<<>>) = Sum(w, {})
  BY <1>1 DEF Bytes
<1> HIDE DEF w
<1>3. Sum(w, {}) = 0
  BY FS_EmptySet, SumUnfold
<1>4. QED
  BY <1>2, <1>3

LEMMA BytesAppend ==
  ASSUME NEW b \in Seq(Batches), NEW e \in Events
  PROVE  /\ Append(b, PackMsg(e)) \in Seq(Batches) /\ Bytes(b) \in Nat
         /\ Bytes(Append(b, PackMsg(e))) = Bytes(b) + MsgBytes(e.type)
<1> DEFINE m == PackMsg(e)
           c == Append(b, m)
           n == Len(b)
           v == Weights(b)
           w == Weights(c)
<1>1. m \in Batches /\ m.type = e.type
  BY DEF Batches, PackMsg
<1> HIDE DEF m
<1>2. /\ n \in Nat /\ c \in Seq(Batches) /\ Len(c) = n + 1 /\ c[n + 1] = m
      /\ \A i \in 1..n : c[i] = b[i]
  BY <1>1, AppendProperties, LenProperties
<1> HIDE DEF c
<1>3. /\ v \in [1..n -> Nat] /\ \A i \in 1..n : v[i] = MsgBytes(b[i].type)
      /\ w \in [1..(n + 1) -> Nat] /\ \A i \in 1..(n + 1) : w[i] = MsgBytes(c[i].type)
  <2>1. /\ v \in [1..n -> Nat] /\ \A i \in 1..n : v[i] = MsgBytes(b[i].type)
    BY WeightsType
  <2>2. /\ w \in [1..Len(c) -> Nat] /\ \A i \in 1..Len(c) : w[i] = MsgBytes(c[i].type)
    BY <1>2, WeightsType
  <2>3. QED
    BY <1>2, <2>1, <2>2
<1>4. Bytes(b) = Sum(v, 1..n) /\ Bytes(c) = Sum(w, 1..(n + 1))
  BY <1>2 DEF Bytes
<1> HIDE DEF n, v, w
<1>5. \A i \in 1..n : v[i] = w[i]
  <2>1. \A i \in 1..n : i \in 1..(n + 1)
    BY <1>2
  <2>2. QED
    BY <1>2, <1>3, <2>1
<1>6. IsFiniteSet(1..n)
  <2>1. 1 \in Int /\ n \in Int
    BY <1>2
  <2>2. QED
    BY ONLY <2>1, FS_Interval
<1>7. Sum(v, 1..n) = Sum(w, 1..n) /\ Sum(v, 1..n) \in Nat
  <2> DEFINE I == 1..n
  <2>1. IsFiniteSet(I) /\ v \in [I -> Nat] /\ I \in SUBSET I /\ \A i \in I : v[i] = w[i]
    BY <1>3, <1>5, <1>6
  <2> HIDE DEF I
  <2>2. Sum(v, I) = Sum(w, I)
    BY ONLY <2>1, SumSame
  <2>3. Sum(v, I) \in Nat
    BY ONLY <2>1, SumNat
  <2>4. QED
    BY <2>2, <2>3 DEF I
<1>8. Sum(w, 1..(n + 1)) = w[n + 1] + Sum(w, 1..n)
  <2> DEFINE k == n + 1
  <2>1. k \in Nat /\ k \in 1..k /\ w \in [1..k -> Nat] /\ k - 1 = n
    BY <1>2, <1>3
  <2> HIDE DEF k
  <2>2. Sum(w, 1..k) = w[k] + Sum(w, 1..(k - 1))
    BY ONLY <2>1, SumUpTo
  <2>3. QED
    BY <2>1, <2>2 DEF k
<1>9. w[n + 1] = MsgBytes(e.type) /\ w[n + 1] \in Nat
  BY <1>1, <1>2, <1>3
<1>10. QED
  BY <1>2, <1>4, <1>7, <1>8, <1>9 DEF c, m

WireOK ==
  /\ pub.pc \in {"fill", "send"} => pub.off = HdrBytes + Bytes(pub.batch)
  /\ \A i \in 1..Len(sends) : OwnPacket(sends[i].pkt)
  /\ \A i \in 1..Len(sends) :
       \A j \in 1..Len(sends[i].pkt.msgs) : InSeq(UnpackMsg(sends[i].pkt.msgs[j]), pushed)

\* The logs of accepted events and of datagrams only grow.
Grows(s, t) == Len(s) <= Len(t) /\ \A i \in 1..Len(s) : t[i] = s[i]

LEMMA InGrown ==
  ASSUME NEW V, NEW s \in Seq(V), NEW t \in Seq(V), Grows(s, t), NEW x, InSeq(x, s)
  PROVE  InSeq(x, t)
<1>1. Len(s) \in Nat /\ Len(t) \in Nat
  BY LenProperties
<1>2. PICK i \in 1..Len(s) : s[i] = x
  BY DEF InSeq
<1>3. i \in 1..Len(t) /\ t[i] = x
  BY <1>1, <1>2 DEF Grows
<1>4. QED
  BY <1>3 DEF InSeq

LEMMA GrowsBy ==
  ASSUME NEW V, NEW s \in Seq(V), NEW x \in V
  PROVE  Grows(s, s) /\ Grows(s, Append(s, x))
<1>1. /\ Len(s) \in Nat /\ Len(Append(s, x)) = Len(s) + 1
      /\ \A i \in 1..Len(s) : Append(s, x)[i] = s[i]
  BY LenProperties, AppendProperties
<1>2. QED
  BY <1>1 DEF Grows

\* The datagram that Send adds.
SendsOne(ok) ==
  LET r == [pkt |-> Datagram(pktSeq, pub.batch, pub.off), ok |-> ok] IN
  sends' = Append(sends, r) /\ r \in SendRecs

LEMMA SendAdds ==
  ASSUME FeedOK, AccountOK, NEW ok \in BOOLEAN, Send(ok)
  PROVE  SendsOne(ok)
<1> DEFINE b == pub.batch
           p == Datagram(pktSeq, b, pub.off)
           q == Swap(pktSeq)
           m == Swap(Magic)
           k == Len(b)
           o == pub.off
<1>1. sends \in Seq(SendRecs) /\ b \in Seq(Batches) /\ o \in Nat /\ k \in Nat /\ pktSeq \in Nat
  <2>1. sends \in Seq(SendRecs) /\ b \in Seq(Batches) /\ o \in Nat /\ pktSeq = Len(sends)
    BY DEF AccountOK, LogOK, CountsOK, FeedOK, ThreadOK
  <2>2. QED
    BY <2>1, LenProperties
<1>2. q \in Nat /\ m \in Nat
  BY <1>1 DEF Swap, Byte, Magic
<1>3. p = [magic |-> m, version |-> 1, count |-> k, seq |-> q, msgs |-> b, len |-> o]
  BY DEF Datagram, Version
<1> HIDE DEF p, q, m, k, o, b
<1>4. p \in Packets
  BY ONLY <1>1, <1>2, <1>3 DEF Packets
<1>5. [pkt |-> p, ok |-> ok] \in SendRecs
  BY ONLY <1>4, ok \in BOOLEAN DEF SendRecs
<1>6. QED
  BY <1>5 DEF SendsOne, Send, p, b

LEMMA LogsGrow ==
  FeedOK /\ AccountOK /\ PubCases => Grows(pushed, pushed') /\ Grows(sends, sends')
<1> SUFFICES ASSUME FeedOK, AccountOK, PubCases
             PROVE  Grows(pushed, pushed') /\ Grows(sends, sends')
  OBVIOUS
<1>1. pushed \in Seq(Events) /\ sends \in Seq(SendRecs)
  BY DEF AccountOK, LogOK
<1>2. Len(pushed) \in Nat /\ Len(sends) \in Nat
  BY <1>1, LenProperties
<1>3. ASSUME NEW s, Len(s) \in Nat PROVE Grows(s, s)
  BY <1>3 DEF Grows
<1>4. ASSUME UNCHANGED <<pushed, sends>> PROVE Grows(pushed, pushed') /\ Grows(sends, sends')
  BY <1>2, <1>3, <1>4
<1>5. ASSUME EnqueueStore PROVE Grows(pushed, pushed') /\ Grows(sends, sends')
  <2>1. pushed' = Append(pushed, prod.val) /\ UNCHANGED sends /\ prod.pc = "store"
    BY <1>5 DEF EnqueueStore, PushStore
  <2>2. prod.val \in Events
    BY <2>1 DEF FeedOK, RingOK
  <2>3. QED
    BY <1>1, <1>2, <1>3, <2>1, <2>2, GrowsBy
<1>6. ASSUME NEW ok \in BOOLEAN, Send(ok) PROVE Grows(pushed, pushed') /\ Grows(sends, sends')
  <2>1. SendsOne(ok) /\ UNCHANGED pushed
    BY <1>6, SendAdds DEF Send, ringVars
  <2>2. PICK r \in SendRecs : sends' = Append(sends, r)
    BY <2>1 DEF SendsOne
  <2>3. QED
    BY <1>1, <1>2, <1>3, <2>1, <2>2, GrowsBy
<1>7. ASSUME NEW e, Publishes(e) PROVE UNCHANGED <<pushed, sends>>
  BY <1>7 DEF Publishes, Enqueue, PushCheck, ringVars
<1>8. QED
  BY <1>4, <1>5, <1>6, <1>7
  DEF PubCases, Start, Stop, StopJoined, EnqueueWrite, PushWrite, Boot, LoopTop, FillPop, PopCheck,
      FillRead, PopRead, FillPack, PopStore, FillEnd, ringVars, pubVars, feedVars

LEMMA InitWire == Init => WireOK
<1> SUFFICES ASSUME Init PROVE WireOK
  OBVIOUS
<1>1. sends = <<>> /\ pub.pc = "none"
  BY DEF Init, PubInit, NoThread, NewThread
<1>2. Len(sends) = 0
  BY <1>1, EmptySeq
<1>3. QED
  BY <1>1, <1>2 DEF WireOK

\* A step that leaves the datagrams alone keeps WireOK if it keeps the batch's bytes.
LEMMA WireKept ==
  ASSUME AccountOK, AccountOK', WireOK, Grows(pushed, pushed'), UNCHANGED sends,
         pub'.pc \in {"fill", "send"} => pub'.off = HdrBytes + Bytes(pub'.batch)
  PROVE  WireOK'
<1>1. pushed \in Seq(Events) /\ pushed' \in Seq(Events)
  BY DEF AccountOK, LogOK
<1>2. \A i \in 1..Len(sends) :
        \A j \in 1..Len(sends[i].pkt.msgs) : InSeq(UnpackMsg(sends[i].pkt.msgs[j]), pushed')
  BY <1>1, InGrown DEF WireOK
<1>3. (Bytes(pub.batch))' = Bytes(pub'.batch)
  BY DEF Bytes, Weights
<1>4. \A i \in 1..Len(sends) : OwnPacket(sends[i].pkt)
  BY DEF WireOK
<1> HIDE DEF InSeq, Bytes, OwnPacket
<1>5. QED
  BY <1>2, <1>3, <1>4 DEF WireOK

LEMMA PackWire ==
  ASSUME FeedOK, AccountOK, AccountOK', WireOK, Grows(pushed, pushed'), FillPack
  PROVE  WireOK'
<1> DEFINE b == Append(pub.batch, PackMsg(cons.val))
           k == pub.off + MsgBytes(cons.val.type)
<1>1. /\ UNCHANGED sends /\ cons.pc = "store"
      /\ pub' = [pub EXCEPT !.batch = b, !.off = k]
  BY DEF FillPack, PopStore
<1>2. pub \in [pc : PubPcs, batch : Seq(Batches), off : Nat] /\ pub.pc = "fill"
  BY <1>1 DEF FeedOK, ThreadOK
<1>3. cons.val \in Events
  <2>1. cons.val = buf[Cell(tail)] /\ Waiting >= 1 /\ Waiting \in Nat /\ tail \in Nat
    BY <1>1, RingFacts DEF FeedOK, RingOK
  <2>2. buf[Cell(tail + 0)] \in Events
    BY <2>1 DEF FeedOK, RingOK
  <2>3. QED
    BY <2>1, <2>2
<1>4. Bytes(b) = Bytes(pub.batch) + MsgBytes(cons.val.type) /\ Bytes(pub.batch) \in Nat
  BY <1>2, <1>3, BytesAppend
<1>5. MsgBytes(cons.val.type) \in Nat
  BY <1>3, EventsClean, MsgBytesBound DEF Clean
<1>6. pub.off = HdrBytes + Bytes(pub.batch)
  BY <1>2 DEF WireOK
<1>7. k = HdrBytes + Bytes(b)
  BY <1>4, <1>5, <1>6 DEF HdrBytes
<1> HIDE DEF b, k
<1>8. pub'.off = k /\ pub'.batch = b
  BY <1>1, <1>2
<1>9. QED
  BY <1>1, <1>7, <1>8, WireKept

LEMMA SendWire ==
  ASSUME FeedOK, AccountOK, AccountOK', WireOK, NEW ok \in BOOLEAN, Send(ok)
  PROVE  WireOK'
<1> DEFINE b == pub.batch
           p == Datagram(pktSeq, b, pub.off)
           r == [pkt |-> p, ok |-> ok]
           n == Len(sends)
<1>1. /\ sends' = Append(sends, r) /\ r \in SendRecs /\ UNCHANGED pushed /\ pub.pc = "send"
      /\ pub' = [pub EXCEPT !.pc = "top", !.batch = <<>>]
  BY SendAdds DEF SendsOne, Send, ringVars
<1>2. /\ sends \in Seq(SendRecs) /\ b \in Seq(Batches) /\ b # <<>> /\ pub.off <= Payload
      /\ pub.off = HdrBytes + Bytes(b) /\ pub'.pc = "top"
      /\ pushed = Attempted \o Unpacked(b) \o InRing
      /\ Attempted \in Seq(Events) /\ InRing \in Seq(Events) /\ pushed \in Seq(Events)
  <2>1. /\ sends \in Seq(SendRecs) /\ b \in Seq(Batches) /\ b # <<>> /\ pub.off <= Payload
        /\ pub.off = HdrBytes + Bytes(b)
    BY <1>1 DEF FeedOK, ThreadOK, AccountOK, LogOK, WireOK
  <2>2. pub'.pc = "top"
    BY <1>1 DEF FeedOK, ThreadOK
  <2>3. RingShape
    BY RingShapeHolds DEF FeedOK
  <2>4. pushed = Attempted \o Unpacked(b) \o InRing /\ Attempted \in Seq(Events) /\ pushed \in Seq(Events)
    BY DEF AccountOK, LogOK
  <2>5. QED
    BY <2>1, <2>2, <2>3, <2>4 DEF RingShape
<1>3. /\ p.msgs = b /\ p.magic = Swap(Magic) /\ p.version = Version /\ p.count = Len(b)
      /\ p.len = pub.off /\ p \in Packets /\ r.pkt = p
  <2>1. /\ p.msgs = b /\ p.magic = Swap(Magic) /\ p.version = Version /\ p.count = Len(b)
        /\ p.len = pub.off
    BY DEF Datagram
  <2> HIDE DEF p
  <2>2. r.pkt = p
    OBVIOUS
  <2>3. r.pkt \in Packets
    BY <1>1 DEF SendRecs
  <2>4. QED
    BY <2>1, <2>2, <2>3
<1> HIDE DEF p, r, b
<1>4. OwnPacket(r.pkt)
  BY <1>2, <1>3 DEF OwnPacket
<1>5. ASSUME NEW j \in 1..Len(b) PROVE InSeq(UnpackMsg(b[j]), pushed)
  <2> DEFINE X == Attempted
             U == Unpacked(b)
             R == InRing
             Y == X \o U
             x == UnpackMsg(b[j])
  <2>1. U \in Seq(Events) /\ Len(U) = Len(b) /\ U[j] = x
    BY <1>2, UnpackedSeq
  <2>2. X \in Seq(Events) /\ R \in Seq(Events) /\ pushed = Y \o R
    BY <1>2
  <2> HIDE DEF X, U, R, x
  <2>3. Y \in Seq(Events) /\ Len(Y) = Len(X) + Len(U) /\ Len(X) \in Nat /\ Len(U) \in Nat
    BY <2>1, <2>2, ConcatProperties, LenProperties
  <2>4. Len(X) + j \in 1..Len(Y) /\ Y[Len(X) + j] = x
    <3>1. /\ \A i \in 1..(Len(X) + Len(U)) : Y[i] = IF i <= Len(X) THEN X[i] ELSE U[i - Len(X)]
      BY <2>1, <2>2, ConcatProperties
    <3>2. Len(X) + j \in 1..(Len(X) + Len(U)) /\ ~(Len(X) + j <= Len(X)) /\ (Len(X) + j) - Len(X) = j
      BY <2>1, <2>3
    <3> HIDE DEF Y
    <3>3. QED
      BY <2>1, <2>3, <3>1, <3>2
  <2> HIDE DEF Y
  <2>5. /\ Len(Y \o R) = Len(Y) + Len(R) /\ Len(Y) \in Nat /\ Len(R) \in Nat
        /\ \A i \in 1..(Len(Y) + Len(R)) : (Y \o R)[i] = IF i <= Len(Y) THEN Y[i] ELSE R[i - Len(Y)]
    BY <2>2, <2>3, ConcatProperties, LenProperties
  <2> DEFINE i == Len(X) + j
  <2>6. i \in 1..Len(Y) /\ Y[i] = x
    BY <2>4
  <2> HIDE DEF i
  <2>7. i \in 1..Len(pushed) /\ pushed[i] = x
    BY <2>2, <2>5, <2>6
  <2>8. QED
    BY <2>7 DEF InSeq, x
<1>6. /\ n \in Nat /\ Len(sends') = n + 1 /\ sends'[n + 1] = r
      /\ \A i \in 1..n : sends'[i] = sends[i]
  BY <1>1, <1>2, AppendProperties, LenProperties
<1> DEFINE Goods(s) == OwnPacket(s.pkt)
                       /\ \A j \in 1..Len(s.pkt.msgs) : InSeq(UnpackMsg(s.pkt.msgs[j]), pushed)
<1>7. ASSUME NEW i \in 1..Len(sends') PROVE Goods(sends'[i])
  <2>1. \A k \in 1..n : Goods(sends[k])
    BY DEF WireOK
  <2>2. Goods(r)
    BY <1>3, <1>4, <1>5
  <2> HIDE DEF Goods
  <2>3. i \in 1..n \/ i = n + 1
    BY <1>6
  <2>4. QED
    BY <1>6, <2>1, <2>2, <2>3
<1>8. QED
  BY <1>1, <1>2, <1>7 DEF WireOK

LEMMA WirePreserved == FeedOK /\ AccountOK /\ AccountOK' /\ WireOK /\ PubCases => WireOK'
<1> SUFFICES ASSUME FeedOK, AccountOK, AccountOK', WireOK, PubCases PROVE WireOK'
  OBVIOUS
<1>1. Grows(pushed, pushed') /\ pub \in [pc : PubPcs, batch : Seq(Batches), off : Nat]
  BY LogsGrow DEF FeedOK, ThreadOK
<1>2. ASSUME UNCHANGED <<sends, pub>> PROVE WireOK'
  BY <1>1, <1>2, WireKept DEF WireOK
<1>3. ASSUME UNCHANGED sends, pub'.pc \notin {"fill", "send"} PROVE WireOK'
  BY <1>1, <1>3, WireKept
<1>4. ASSUME LoopTop PROVE WireOK'
  <2>1. UNCHANGED sends /\ \/ pub' = [pc |-> "fill", batch |-> <<>>, off |-> HdrBytes]
                           \/ pub' = [pub EXCEPT !.pc = "exited"]
    BY <1>4 DEF LoopTop
  <2>2. CASE pub' = [pc |-> "fill", batch |-> <<>>, off |-> HdrBytes]
    <3>1. pub'.off = HdrBytes + Bytes(pub'.batch)
      BY <2>2, BytesEmpty DEF HdrBytes
    <3>2. QED
      BY <1>1, <2>1, <3>1, WireKept
  <2>3. CASE pub' = [pub EXCEPT !.pc = "exited"]
    BY <1>1, <1>3, <2>1, <2>3
  <2>4. QED
    BY <2>1, <2>2, <2>3
<1>5. ASSUME FillEnd PROVE WireOK'
  <2>1. UNCHANGED sends /\ pub.pc = "fill" /\ \E c : pub' = [pub EXCEPT !.pc = c]
    BY <1>5 DEF FillEnd
  <2>2. pub'.off = pub.off /\ pub'.batch = pub.batch /\ pub.off = HdrBytes + Bytes(pub.batch)
    BY <1>1, <2>1 DEF WireOK
  <2>3. pub'.off = HdrBytes + Bytes(pub'.batch)
    BY <2>2
  <2>4. QED
    BY <1>1, <2>1, <2>3, WireKept
<1>6. ASSUME Boot PROVE WireOK'
  <2>1. UNCHANGED sends /\ \E c \in {"top", "exited"} : pub' = [pub EXCEPT !.pc = c]
    BY <1>6 DEF Boot
  <2>2. QED
    BY <1>1, <1>3, <2>1
<1>7. ASSUME StopJoined PROVE WireOK'
  <2>1. UNCHANGED sends /\ pub'.pc = "none"
    BY <1>7 DEF StopJoined, NoThread, NewThread
  <2>2. QED
    BY <1>3, <2>1
<1>8. ASSUME NEW ok \in BOOLEAN, Start(ok) PROVE WireOK'
  <2>1. UNCHANGED sends /\ (pub' = pub \/ pub'.pc = "boot")
    BY <1>8 DEF Start, NewThread
  <2>2. QED
    BY <1>2, <1>3, <2>1
<1>9. ASSUME NEW e, Publishes(e) PROVE WireOK'
  BY <1>2, <1>9 DEF Publishes, Enqueue
<1>10. ASSUME \/ Stop \/ EnqueueWrite \/ EnqueueStore \/ FillPop \/ FillRead \/ UNCHANGED feedVars
       PROVE  UNCHANGED <<sends, pub>>
  BY <1>10 DEF Stop, EnqueueWrite, EnqueueStore, FillPop, FillRead, feedVars, pubVars
<1>11. QED
  BY <1>1, <1>2, <1>4, <1>5, <1>6, <1>7, <1>8, <1>9, <1>10, PackWire, SendWire DEF PubCases

LEMMA WireInvariance == Spec => []WireOK
<1>1. FeedOK /\ AccountOK /\ AccountOK' /\ WireOK /\ [Next]_allVars => WireOK'
  BY NextCases, WirePreserved DEF FeedOK
<1>2. QED
  BY <1>1, InitWire, FeedInvariance, AccountInvariance, PTL DEF Spec

-----------------------------------------------------------------------------
(***************************************************************************)
(* The receiver.  Nothing it reads of the publisher changes once it is     *)
(* there, so the message it shows stays one that was sent.                 *)
(***************************************************************************)
RxStats == [packets : Nat, messages : Nat, bad : Nat, last : Events \cup {BlankEvent}]
SeenType == [own : Nat, ownMsgs : Nat, other : Nat]

WasSent(x) == \E i \in 1..Len(sends) : sends[i].ok /\ InSeq(x, Unpacked(sends[i].pkt.msgs))
Shown(x) == InSeq(x, pushed) /\ WasSent(x)

RxOK ==
  /\ rstats \in RxStats /\ seen \in SeenType
  /\ rstats.messages = seen.ownMsgs /\ rstats.bad = seen.other
  /\ rstats.last # BlankEvent => Shown(rstats.last)

LEMMA InitRx == Init => RxOK
BY DEF Init, NewRxStats, RxOK, RxStats, SeenType

LEMMA ShownKept ==
  ASSUME AccountOK, AccountOK', Grows(pushed, pushed'), Grows(sends, sends'), NEW x, Shown(x)
  PROVE  InSeq(x, pushed')
         /\ \E i \in 1..Len(sends') : sends'[i].ok /\ InSeq(x, Unpacked(sends'[i].pkt.msgs))
<1>1. /\ pushed \in Seq(Events) /\ pushed' \in Seq(Events)
      /\ sends \in Seq(SendRecs) /\ sends' \in Seq(SendRecs)
  BY DEF AccountOK, LogOK
<1>2. InSeq(x, pushed')
  BY <1>1, InGrown DEF Shown
<1>3. PICK i \in 1..Len(sends) : sends[i].ok /\ InSeq(x, Unpacked(sends[i].pkt.msgs))
  BY DEF Shown, WasSent
<1>4. i \in 1..Len(sends') /\ sends'[i] = sends[i]
  BY <1>1, LenProperties DEF Grows
<1> HIDE DEF InSeq, Unpacked
<1>5. QED
  BY <1>2, <1>3, <1>4

\* The receiver's part of a step.
RxCases ==
  \/ UNCHANGED <<rstats, seen>>
  \/ PollError
  \/ \E p \in OnNetwork : PollOwn(p)
  \/ \E p \in Foreign : PollForeign(p)

LEMMA RxStep == [Next]_allVars => RxCases
BY DEF Next, Poll, RxStart, RxStop, RxExit, RxClose, RxCases, allVars, rxVars

LEMMA CutOwn == ASSUME NEW p, OwnPacket(p) PROVE Cut(p) = p /\ HeaderOK(p)
<1>1. p \in Packets /\ p.len \in Nat /\ p.len <= Payload /\ Payload \in Nat
  BY PayloadAssumption DEF OwnPacket, Packets
<1>2. Cut(p) = [p EXCEPT !.len = p.len]
  BY <1>1 DEF Cut
<1>3. Cut(p) = p
  BY <1>1, <1>2 DEF Packets
<1>4. Magic \in Word
  BY IsWord DEF Magic
<1>5. Swap(p.magic) = Magic /\ p.version = Version
  BY <1>4, SwapTwice DEF OwnPacket
<1>6. p.len >= HdrBytes
  <2>1. p.msgs \in Seq(Batches) /\ p.len = HdrBytes + Bytes(p.msgs) /\ p.msgs # <<>>
    BY DEF OwnPacket, Packets
  <2> DEFINE b == p.msgs
             n == Len(b)
             w == Weights(b)
  <2>2. n \in Nat /\ w \in [1..n -> Nat] /\ n # 0
    BY <2>1, WeightsType, EmptySeq
  <2>3. Bytes(b) = Sum(w, 1..n)
    BY DEF Bytes
  <2> HIDE DEF b, n, w
  <2>4. n \in 1..n
    BY <2>2
  <2>5. Sum(w, 1..n) \in Nat
    BY <2>2, <2>4, SumUpTo
  <2>6. QED
    BY <2>1, <2>3, <2>5 DEF HdrBytes, b
<1>7. QED
  BY <1>3, <1>5, <1>6 DEF HeaderOK

\* A datagram of the publisher: all of its messages count, none is bad, and the
\* last of them is shown.
LEMMA OwnReceived ==
  ASSUME AccountOK, WireOK, RxOK, NEW p \in OnNetwork, PollOwn(p)
  PROVE  /\ rstats' \in RxStats /\ seen' \in SeenType
         /\ rstats'.messages = seen'.ownMsgs /\ rstats'.bad = seen'.other
         /\ Shown(rstats'.last)
<1>1. PICK i \in 1..Len(sends) : sends[i].ok /\ sends[i].pkt = p
  BY DEF OnNetwork
<1> DEFINE b == p.msgs
           n == Len(b)
           x == UnpackMsg(b[n])
<1>2. OwnPacket(p) /\ \A j \in 1..n : InSeq(UnpackMsg(b[j]), pushed)
  BY <1>1 DEF WireOK
<1>3. Cut(p) = p /\ HeaderOK(p) /\ DecodedCount(p) = n
  BY <1>2, CutOwn, OwnDecodes
<1>4. b \in Seq(Batches) /\ b # <<>> /\ p.count = n /\ n \in Nat /\ n # 0 /\ n \in 1..n
  <2>1. b \in Seq(Batches) /\ b # <<>> /\ p.count = n
    BY <1>2 DEF OwnPacket, Packets
  <2>2. QED
    BY <2>1, LenProperties, EmptySeq
<1>5. /\ rstats' = Digest(p)
      /\ seen' = [seen EXCEPT !.own = @ + 1, !.ownMsgs = @ + n]
  BY DEF PollOwn
<1> DEFINE U == Unpacked(b)
<1>6. U \in Seq(Events) /\ Len(U) = n /\ U[n] = x /\ x \in Events
  <2>1. U \in Seq(Events) /\ Len(U) = n /\ U[n] = x
    BY <1>4, UnpackedSeq
  <2>2. QED
    BY <1>4, <2>1, ElementOfSeq
<1>7. Digest(p) = [packets |-> rstats.packets + 1, messages |-> rstats.messages + n,
                   bad |-> rstats.bad + 0, last |-> x]
  <2>1. ~(n < p.count) /\ n > 0
    BY <1>4
  <2>2. QED
    BY <1>3, <2>1 DEF Digest
<1> HIDE DEF U, n, x, b
<1>8. Shown(x)
  <2>1. InSeq(x, pushed)
    BY <1>2, <1>4 DEF x
  <2>2. InSeq(x, U)
    BY <1>4, <1>6 DEF InSeq
  <2>3. QED
    BY <1>1, <2>1, <2>2 DEF Shown, WasSent, U, b
<1>9. /\ rstats.packets \in Nat /\ rstats.messages \in Nat /\ rstats.bad \in Nat
      /\ rstats.messages = seen.ownMsgs /\ rstats.bad = seen.other /\ seen \in SeenType
      /\ seen.own \in Nat /\ seen.ownMsgs \in Nat /\ seen.other \in Nat
  BY DEF RxOK, RxStats, SeenType
<1>10. /\ seen' \in SeenType /\ seen'.ownMsgs = seen.ownMsgs + n /\ seen'.other = seen.other
  <2> DEFINE u == seen.own + 1
             v == seen.ownMsgs + n
  <2>1. u \in Nat /\ v \in Nat /\ seen' = [seen EXCEPT !.own = u, !.ownMsgs = v]
    BY <1>4, <1>5, <1>9
  <2> HIDE DEF u, v
  <2>2. seen' \in SeenType /\ seen'.ownMsgs = v /\ seen'.other = seen.other
    BY ONLY <1>9, <2>1 DEF SeenType
  <2>3. QED
    BY <2>2 DEF v
<1>11. /\ rstats' \in RxStats /\ rstats'.messages = rstats.messages + n
       /\ rstats'.bad = rstats.bad /\ rstats'.last = x
  BY <1>4, <1>5, <1>6, <1>7, <1>9 DEF RxStats
<1>12. QED
  BY <1>8, <1>9, <1>10, <1>11

\* Other traffic: counted as bad, and nothing else of what is claimed changes.
OtherCounted ==
  /\ rstats' \in RxStats /\ seen' \in SeenType
  /\ rstats'.messages = seen'.ownMsgs /\ rstats'.bad = seen'.other
  /\ rstats'.last = rstats.last

LEMMA ErrorReceived == ASSUME RxOK, PollError PROVE OtherCounted
BY DEF RxOK, RxStats, SeenType, PollError, OtherCounted

LEMMA ForeignReceived ==
  ASSUME RxOK, NEW p \in Foreign, PollForeign(p)
  PROVE  OtherCounted
<1>1. rstats' = Digest(p) /\ seen' = [seen EXCEPT !.other = @ + 1]
  BY DEF PollForeign
<1>2. /\ rstats.packets \in Nat /\ rstats.messages \in Nat /\ rstats.bad \in Nat
      /\ rstats.messages = seen.ownMsgs /\ rstats.bad = seen.other /\ seen \in SeenType
      /\ seen.other \in Nat /\ rstats \in RxStats /\ rstats.last \in Events \cup {BlankEvent}
  BY DEF RxOK, RxStats, SeenType
<1>3. seen' \in SeenType /\ seen'.ownMsgs = seen.ownMsgs /\ seen'.other = seen.other + 1
  BY <1>1, <1>2 DEF SeenType
<1>4. CASE ~HeaderOK(Cut(p))
  <2>1. rstats' = [rstats EXCEPT !.bad = @ + 1]
    BY <1>1, <1>4 DEF Digest
  <2>2. QED
    BY <1>2, <1>3, <2>1 DEF RxStats, OtherCounted
<1>5. CASE HeaderOK(Cut(p))
  <2>1. p.count > 0 /\ DecodedCount(Cut(p)) = 0
    BY <1>5, ForeignAssumption
  <2>2. rstats' = [packets |-> rstats.packets + 1, messages |-> rstats.messages + 0,
                   bad |-> rstats.bad + 1, last |-> rstats.last]
    <3>1. 0 < p.count /\ ~(0 > 0)
      BY <2>1
    <3>2. QED
      BY <1>1, <1>5, <2>1, <3>1 DEF Digest
  <2>3. QED
    BY <1>2, <1>3, <2>2 DEF RxStats, OtherCounted
<1>6. QED
  BY <1>4, <1>5

LEMMA RxPreserved ==
  ASSUME FeedOK, AccountOK, AccountOK', WireOK, RxOK, PubCases, RxCases
  PROVE  RxOK'
<1>1. Grows(pushed, pushed') /\ Grows(sends, sends')
  BY LogsGrow
<1>2. ASSUME NEW x, Shown(x)
      PROVE  /\ InSeq(x, pushed')
             /\ \E i \in 1..Len(sends') : sends'[i].ok /\ InSeq(x, Unpacked(sends'[i].pkt.msgs))
  BY <1>1, <1>2, ShownKept
<1>3. ASSUME rstats' \in RxStats, seen' \in SeenType, rstats'.messages = seen'.ownMsgs,
             rstats'.bad = seen'.other, rstats'.last # BlankEvent => Shown(rstats'.last)
      PROVE  RxOK'
  <2> DEFINE y == rstats'.last
  <2>1. y # BlankEvent =>
          /\ InSeq(y, pushed')
          /\ \E i \in 1..Len(sends') : sends'[i].ok /\ InSeq(y, Unpacked(sends'[i].pkt.msgs))
    BY <1>2, <1>3
  <2>2. (rstats.last # BlankEvent => Shown(rstats.last))'
    BY <2>1 DEF Shown, WasSent, InSeq, Unpacked
  <2> HIDE DEF Shown
  <2>3. QED
    BY <1>3, <2>2 DEF RxOK
<1>4. CASE UNCHANGED <<rstats, seen>>
  BY <1>3, <1>4 DEF RxOK
<1>5. ASSUME OtherCounted PROVE RxOK'
  BY <1>3, <1>5 DEF RxOK, OtherCounted
<1>6. ASSUME NEW p \in OnNetwork, PollOwn(p) PROVE RxOK'
  BY <1>3, <1>6, OwnReceived
<1>7. QED
  BY <1>4, <1>5, <1>6, ErrorReceived, ForeignReceived DEF RxCases

\* The receiver decodes all that the publisher sent and it received, counts
\* nothing else, and shows a message with the fields of an accepted event that
\* went out in a datagram, whatever the network loses, repeats or reorders.
THEOREM ReceiverDecodesAll == Spec => []OwnTrafficDecodes
<1>1. FeedOK /\ AccountOK /\ AccountOK' /\ WireOK /\ RxOK /\ [Next]_allVars => RxOK'
  BY NextCases, RxStep, RxPreserved DEF FeedOK
<1>2. Spec => []RxOK
  BY <1>1, InitRx, FeedInvariance, AccountInvariance, WireInvariance, PTL DEF Spec
<1>3. RxOK => OwnTrafficDecodes
  <2> SUFFICES ASSUME RxOK PROVE OwnTrafficDecodes
    OBVIOUS
  <2>1. ASSUME NEW x, Shown(x)
        PROVE  InSeq(x, pushed) /\ \E i \in 1..Len(sends) : sends[i].ok /\ InSeq(x, Sent[i])
    <3>1. PICK i \in 1..Len(sends) : sends[i].ok /\ InSeq(x, Unpacked(sends[i].pkt.msgs))
      BY <2>1 DEF Shown, WasSent
    <3>2. Sent[i] = Unpacked(sends[i].pkt.msgs)
      BY DEF Sent
    <3> HIDE DEF InSeq, Unpacked
    <3>3. QED
      BY <2>1, <3>1, <3>2 DEF Shown
  <2>2. QED
    BY <2>1 DEF RxOK, OwnTrafficDecodes
<1>4. QED
  BY <1>2, <1>3, PTL
=============================================================================
