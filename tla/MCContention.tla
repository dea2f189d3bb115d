---------------------------- MODULE MCContention ----------------------------
(***************************************************************************)
(* Contention for TLC.                                                     *)
(***************************************************************************)
EXTENDS Contention

CONSTANTS p1, p2
MCProducers == {p1, p2}

\* Instruments 0 and 2 share a shard: the cancel of 2 names an order of 0.
Cmd(type, side, price, qty, id, instrument) ==
  [type |-> type, side |-> side, price |-> price, qty |-> qty, cancel_id |-> id,
   instrument |-> instrument]
MCCmds ==
  {Cmd("Limit", Sell, 1, 1, 0, 0), Cmd("Limit", Sell, 2, 1, 0, 1),
   Cmd("Market", Buy, 0, 2, 0, 0), Cmd("Cancel", Buy, 0, 1, 1, 2)}
MCSides == {Sell}
=============================================================================
