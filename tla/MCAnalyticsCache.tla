-------------------------- MODULE MCAnalyticsCache --------------------------
(***************************************************************************)
(* Model checking of AnalyticsCache: requests are alike.                   *)
(***************************************************************************)
EXTENDS AnalyticsCache, TLC

Symmetry == Permutations(Requests)
=============================================================================
