------------------------------ MODULE MCDriver ------------------------------
(***************************************************************************)
(* Two callback threads, two connections' worth of rings, one handle both  *)
(* threads write through, and a first engine of an empty rule set: of the  *)
(* bytes encode_dag makes of it, or of none, as in the code.               *)
(***************************************************************************)
EXTENDS Driver

NoRules == <<"ERD1", 0>>
NoBytes == <<>>

ASSUME NoRulesAreNoPatterns == NoRules = Wire!Encode(<<>>)
=============================================================================
