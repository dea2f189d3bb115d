-------------------------- MODULE MCMatchingEngine --------------------------
(***************************************************************************)
(* MatchingEngine for TLC.                                                 *)
(***************************************************************************)
EXTENDS MatchingEngine

MCAsks == {Sell}
MCBuyStops == {Buy}
MCFifo == {FIFO}
MCProRata == {ProRataWith(1), ProRataWith(3)}
=============================================================================
