------------------------ MODULE MCDownlinkFreshness ------------------------
(* DownlinkFreshness on small counters: a wire counter of 4 values and three *)
(* epochs, so that the low half wraps twice and the counter then runs out.   *)
EXTENDS DownlinkFreshness
=============================================================================
