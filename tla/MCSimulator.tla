---------------------------- MODULE MCSimulator -----------------------------
(***************************************************************************)
(* Simulator for TLC.                                                      *)
(***************************************************************************)
EXTENDS Simulator

MCBoth == {Buy, Sell}
=============================================================================
