----------------------------- MODULE MCMpscRing -----------------------------
(***************************************************************************)
(* MpscRing for TLC.                                                       *)
(***************************************************************************)
EXTENDS MpscRing

CONSTANTS p1, p2, p3
Two == {p1, p2}
Three == {p1, p2, p3}
=============================================================================
