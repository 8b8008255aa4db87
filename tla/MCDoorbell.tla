----------------------------- MODULE MCDoorbell -----------------------------
(* Two callbacks, and frames enough for the service to fall asleep between any two. *)
EXTENDS Doorbell, TLC

CONSTANTS p1, p2
=============================================================================
