----------------------------- MODULE MCRingBuf -----------------------------
(* Two callbacks and the service on a ring of five words, on which two      *)
(* frames of different lengths go round more than once; for the             *)
(* counterexample, one callback on a ring of eight.                         *)
EXTENDS RingBuf, TLC

CONSTANTS p1, p2
=============================================================================
