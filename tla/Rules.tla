-------------------------------- MODULE Rules --------------------------------
(***************************************************************************)
(* The vocabulary every engine of engine_core shares: what an event is,    *)
(* when a rule step matches it, and what the action of an activated step   *)
(* does (event.rs, rules.rs, detector.rs).                                 *)
(*                                                                         *)
(* A Key is an entity identity (u128 in the code), an OpSet the set of its *)
(* ops, the tag list of an event the set of its TTPs.  The timestamp of an *)
(* event only feeds Storyline::last_activity, which no decision reads, and *)
(* is left out with it.                                                    *)
(***************************************************************************)
EXTENDS Integers

CONSTANTS Keys,     \* entity identities: processes, files, ...
          Ops,      \* the operations an event can report
          Ttps      \* the technique tags a tagger can attach

\* Verdict, in its repr(u32) order: a reaction is stronger than those before it.
Ignore  == 0
Inspect == 1
Block   == 2
Disarm  == 3
Verdicts == Ignore .. Disarm

Event == [actor : Keys, object : Keys, op : Ops, ttps : SUBSET Ttps]

\* Option<Action>: "none" is a step that only reports; ops is what "disarm" takes.
Actions == [kind : {"none", "block", "disarm"}, ops : SUBSET Ops]

\* StepMatch::matches: no ops listed accepts every op, every listed TTP is needed.
Matches(step, e) ==
    /\ step.ops = {} \/ e.op \in step.ops
    /\ \A i \in DOMAIN step.ttps : step.ttps[i] \in e.ttps

\* Fault: the verdicts of the activated steps are added up.
StrongestAdds(actions) ==
    (IF \E a \in actions : a.kind = "disarm" THEN Disarm ELSE 0)
      + (IF \E a \in actions : a.kind = "block" THEN Block ELSE 0)
      + (IF \E a \in actions : a.kind = "none" THEN Inspect ELSE 0)

\* The verdict of an event that activated steps with these actions: the maximum
\* that ADVANCE folds out of the verdicts apply() returns.
Strongest(actions) ==
    IF \E a \in actions : a.kind = "disarm" THEN Disarm
    ELSE IF \E a \in actions : a.kind = "block" THEN Block
    ELSE IF actions # {} THEN Inspect
    ELSE Ignore

\* What apply() takes from the actor over those steps.
Deprived(actions) ==
    UNION {a.ops : a \in {b \in actions : b.kind = "disarm"}}
=============================================================================
