------------------------------- MODULE MdFeed -------------------------------
(***************************************************************************)
(* The market data feed: md::Publisher, a UDP network and md::Receiver.    *)
(* The network may lose, duplicate and reorder datagrams: recvfrom returns *)
(* any datagram that was sent successfully, however often it was returned  *)
(* before, or one of Foreign, the other datagrams that arrive on the port. *)
(***************************************************************************)
EXTENDS MdPublisher

CONSTANTS
  Foreign,   \* datagrams of other senders, none with a complete message
  MaxRecv    \* bound: calls of recvfrom that return a datagram or an error

VARIABLES
  rx,      \* the receiver: run_, fd_ >= 0 and the pc of run_loop's thread
  rstats,  \* its stats_
  seen     \* auxiliary: received datagrams of the publisher, their messages,
           \* and receptions of anything else

rxVars == <<rx, rstats, seen>>
allVars == <<feedVars, rxVars>>

NewRxStats == [packets |-> 0, messages |-> 0, bad |-> 0, last |-> BlankEvent]

Init ==
  /\ PubInit
  /\ rx = [pc |-> "none", run |-> FALSE, sock |-> FALSE]
  /\ rstats = NewRxStats
  /\ seen = [own |-> 0, ownMsgs |-> 0, other |-> 0]

-----------------------------------------------------------------------------
(***************************************************************************)
(* The receiver's steps read, of the publisher's state, only which         *)
(* datagrams were sent; such a datagram stays in OnNetwork, and no step of *)
(* the receiver changes what the publisher's threads read.  So every step  *)
(* of the receiver can be put off past every step of the publisher, and it *)
(* is enough to let the receiver run when the publisher has been stopped   *)
(* and no call is left to its owner.                                       *)
(***************************************************************************)
PublisherDone ==
  /\ OwnerFree /\ pub.pc = "none"
  /\ calls.publish = MaxEvents /\ calls.start = MaxStarts

\* start: socket, bind, the group's address and joining it may each fail, which
\* closes the socket again.  The caller then runs run_loop in a thread.
RxStart(ok) ==
  /\ PublisherDone /\ rx.pc = "none"
  /\ rx' = IF ok THEN [pc |-> "loop", run |-> TRUE, sock |-> TRUE] ELSE rx
  /\ UNCHANGED <<feedVars, rstats, seen>>

RxStop ==
  /\ rx.pc = "loop" /\ rx.run
  /\ rx' = [rx EXCEPT !.run = FALSE]
  /\ UNCHANGED <<feedVars, rstats, seen>>

\* close_fd, after the thread has been joined.
RxClose ==
  /\ rx.pc = "exited" /\ rx.sock
  /\ rx' = [rx EXCEPT !.sock = FALSE]
  /\ UNCHANGED <<feedVars, rstats, seen>>

RxExit ==
  /\ rx.pc = "loop" /\ ~rx.run
  /\ rx' = [rx EXCEPT !.pc = "exited"]
  /\ UNCHANGED <<feedVars, rstats, seen>>

\* An iteration of run_loop: run_ is read and poll_once called.  recvfrom may
\* return a datagram, an error, or nothing (and then nothing changes).
MayReceive == rx.pc = "loop" /\ rx.run /\ seen.own + seen.other < MaxRecv

PollError ==
  /\ MayReceive
  /\ rstats' = [rstats EXCEPT !.bad = @ + 1]
  /\ seen' = [seen EXCEPT !.other = @ + 1]
  /\ UNCHANGED <<feedVars, rx>>

\* The receive buffer holds Payload bytes; recvfrom cuts the rest off.
Cut(p) == [p EXCEPT !.len = IF @ > Payload THEN Payload ELSE @]

ASSUME ForeignAssumption ==
  \A p \in Foreign : HeaderOK(Cut(p)) => p.count > 0 /\ DecodedCount(Cut(p)) = 0

\* poll_once on a datagram: a bad header counts as bad; otherwise messages are
\* decoded up to the first that is incomplete or unknown, which counts as bad.
Digest(p) ==
  LET n == DecodedCount(Cut(p)) IN
  IF ~HeaderOK(Cut(p)) THEN [rstats EXCEPT !.bad = @ + 1]
  ELSE [packets  |-> rstats.packets + 1,
        messages |-> rstats.messages + n,
        bad      |-> rstats.bad + IF n < p.count THEN 1 ELSE 0,
        last     |-> IF n > 0 THEN UnpackMsg(p.msgs[n]) ELSE rstats.last]

OnNetwork == {sends[i].pkt : i \in {j \in 1..Len(sends) : sends[j].ok}}

PollOwn(p) ==
  /\ MayReceive
  /\ p \in OnNetwork
  /\ rstats' = Digest(p)
  /\ seen' = [seen EXCEPT !.own = @ + 1, !.ownMsgs = @ + Len(p.msgs)]
  /\ UNCHANGED <<feedVars, rx>>

PollForeign(p) ==
  /\ MayReceive
  /\ p \in Foreign
  /\ rstats' = Digest(p)
  /\ seen' = [seen EXCEPT !.other = @ + 1]
  /\ UNCHANGED <<feedVars, rx>>

Poll == PollError \/ (\E p \in OnNetwork : PollOwn(p)) \/ (\E p \in Foreign : PollForeign(p))

Next ==
  \/ PubNext /\ UNCHANGED rxVars
  \/ \E ok \in BOOLEAN : RxStart(ok)
  \/ RxStop \/ RxExit \/ RxClose
  \/ Poll

\* Both threads of the publisher are scheduled again and again: a call under way
\* is finished, and the publisher thread, which only spins, runs until it exits.
\* Nothing is assumed of the network: no datagram needs ever to arrive.
Fairness ==
  /\ WF_allVars(OwnerStep /\ UNCHANGED rxVars)
  /\ WF_allVars(PubStep /\ UNCHANGED rxVars)

Spec == Init /\ [][Next]_allVars /\ Fairness

-----------------------------------------------------------------------------
InSeq(x, s) == \E i \in 1..Len(s) : s[i] = x

\* What the publisher sends the receiver decodes, in full and whatever the
\* network does to it: every message of every datagram of the publisher counts,
\* and only other traffic and errors count as bad.  The message the receiver
\* shows is one the matching thread published, with the same fields, and was in
\* a datagram that was sent: the byte order and the fields that a type does not
\* carry survive the round trip.
OwnTrafficDecodes ==
  /\ rstats.messages = seen.ownMsgs
  /\ rstats.bad = seen.other
  /\ rstats.last # BlankEvent =>
       /\ InSeq(rstats.last, pushed)
       /\ \E i \in 1..Len(sends) : sends[i].ok /\ InSeq(rstats.last, Sent[i])
=============================================================================
