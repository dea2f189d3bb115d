---------------------------- MODULE MCOrderBook -----------------------------
(***************************************************************************)
(* OrderBook for TLC.                                                      *)
(***************************************************************************)
EXTENDS OrderBook

MCAsks == {Sell}
MCBoth == {Buy, Sell}
=============================================================================
