----------------------------- MODULE MCService -----------------------------
(***************************************************************************)
(* A queue of two records, frames of up to three, and three connections:   *)
(* the queue overflows, and the link fails and returns with records in     *)
(* hand, in the queue and on the way.                                      *)
(***************************************************************************)
EXTENDS Service
=============================================================================
