--------------------------- MODULE MCResultSweep ----------------------------
(* Four results and pages of two, so that a deferred prefix fills a page   *)
(* and a round takes two fetches.                                          *)
EXTENDS ResultSweep
=============================================================================
