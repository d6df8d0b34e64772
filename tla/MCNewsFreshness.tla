--------------------------- MODULE MCNewsFreshness ---------------------------
(***************************************************************************)
(* NewsFreshness for TLC, with sweeps that fit into the interval.          *)
(***************************************************************************)
EXTENDS NewsFreshness

ASSUME SweepFitsAssumption == SweepFits
=============================================================================
