--------------------------- MODULE MCBacktestJobs ---------------------------
(***************************************************************************)
(* Model checking of BacktestJobs: readings and scores, missing ones among *)
(* them, and the first lengths whose 0.7 comes out below what it should:   *)
(* 90 * 0.7 is 62.99999999999999 in floating point.                        *)
(***************************************************************************)
EXTENDS BacktestJobs

MCReadings == {-1, 0, 1, NoValue}
MCFallsShort == {90, 170, 180}
MCScores == {-1, 0, NoValue}
=============================================================================
