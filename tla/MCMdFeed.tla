------------------------------ MODULE MCMdFeed ------------------------------
(***************************************************************************)
(* MdFeed for TLC.                                                         *)
(***************************************************************************)
EXTENDS MdFeed

MCOrders == {[id |-> 3, side |-> 1, price |-> 7, qty |-> 300]}
MCTops == {[bid |-> <<5, 2>>, ask |-> NoTop]}

\* Too short for a header, another magic, an incomplete and an unknown message.
MCForeign ==
  LET full == Datagram(0, <<PackMsg(BlankEvent)>>, HdrBytes + MsgBytes("Add")) IN
  {[full EXCEPT !.len = HdrBytes - 1],
   [full EXCEPT !.magic = 0],
   [full EXCEPT !.len = @ - 1],
   [full EXCEPT !.msgs[1].type = "Unknown"]}
=============================================================================
