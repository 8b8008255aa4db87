------------------------------ MODULE Detector ------------------------------
(***************************************************************************)
(* The contract of the trait Detector (detector.rs), the abstract          *)
(* specification every engine implements: a call on_event returns a        *)
(* Verdict, what an actor was disarmed of it is refused for good, and only *)
(* a call that answers Disarm takes anything, from its own actor.  Which   *)
(* verdict a call returns, and why, is for each engine to say.             *)
(***************************************************************************)
EXTENDS Rules

VARIABLES disarmed, \* DISARMED: actor -> the ops it lost; {} when it has no entry
          verdict   \* what the last call of on_event returned

detectorVars == <<disarmed, verdict>>

Init == /\ disarmed = [k \in Keys |-> {}]
        /\ verdict = Ignore

\* An actor that lost this op is answered Block, and nothing else happens.
Deny(e) ==
    /\ e.op \in disarmed[e.actor]
    /\ verdict' = Block
    /\ UNCHANGED disarmed

\* Any other event gets some verdict; only Disarm takes ops, only from the
\* actor, and nothing is ever given back.
Judge(e) ==
    /\ e.op \notin disarmed[e.actor]
    /\ verdict' \in Verdicts
    /\ \E taken \in SUBSET Ops :
         /\ taken # {} => verdict' = Disarm
         /\ disarmed' = [disarmed EXCEPT ![e.actor] = @ \union taken]

Next == \E e \in Event : Deny(e) \/ Judge(e)

Spec == Init /\ [][Next]_detectorVars
=============================================================================
