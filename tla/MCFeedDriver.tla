---------------------------- MODULE MCFeedDriver ----------------------------
(***************************************************************************)
(* FeedDriver for TLC.                                                     *)
(***************************************************************************)
EXTENDS FeedDriver

MCBoth == {Buy, Sell}
=============================================================================
