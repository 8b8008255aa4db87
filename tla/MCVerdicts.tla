----------------------------- MODULE MCVerdicts -----------------------------
(* Three threads, two slots: the table fills while two threads wait.        *)
EXTENDS Verdicts, TLC

CONSTANTS t1, t2, t3
=============================================================================
