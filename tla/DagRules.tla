------------------------------ MODULE DagRules ------------------------------
(***************************************************************************)
(* Patterns that are partial orders of steps, and how one automaton of     *)
(* such a pattern advances on one event (rules.rs, advance of v0_0_2.rs    *)
(* and v0_0_2_bounded.rs).  A u64 mask is the set of its bits.             *)
(***************************************************************************)
EXTENDS Rules, Sequences, FiniteSets

CONSTANT Patterns   \* DagRuleSet: a sequence of patterns, each a sequence of DagStep

Pids == DOMAIN Patterns
Bits == 0 .. 63

DagStep == [ops : SUBSET Ops, ttps : Seq(Ttps), bit : Bits,
            prereq : SUBSET Bits, action : Actions]

\* compile_dag of engine_rules accepts a pattern only if no two of its steps
\* set the same bit.
ASSUME PatternsAssumption ==
    /\ Patterns \in Seq(Seq(DagStep))
    /\ \A p \in Pids : \A i, j \in DOMAIN Patterns[p] :
         Patterns[p][i].bit = Patterns[p][j].bit => i = j
-----------------------------------------------------------------------------
\* Fault: one committed prerequisite is taken for all of them.
CanCommitOnAnyPrereq(step, done, e) ==
    /\ step.bit \notin done
    /\ step.prereq = {} \/ step.prereq \intersect done # {}
    /\ Matches(step, e)

\* An automaton with mask done commits the step when it is tried on e.
CanCommit(step, done, e) ==
    /\ step.bit \notin done
    /\ step.prereq \subseteq done
    /\ Matches(step, e)

\* An automaton with mask d tries the step on e.
Try(step, d, e) == IF CanCommit(step, d, e) THEN d \union {step.bit} ELSE d

\* Tried(p, d, e)[i]: the mask of an automaton of pattern p that held d, once
\* the first i steps were tried on e.  A commit counts at once for the steps
\* declared after it: one event may commit a step and one that it enables.
Tried(p, d, e) ==
    LET mask[i \in 0 .. Len(Patterns[p])] ==
          IF i = 0 THEN d ELSE Try(Patterns[p][i], mask[i-1], e)
    IN  mask

Progress(p, d, e) == Tried(p, d, e)[Len(Patterns[p])]

\* The actions of the steps that automaton commits on e.
Fired(p, d, e) ==
    {Patterns[p][i].action :
        i \in {j \in DOMAIN Patterns[p] :
                 CanCommit(Patterns[p][j], Tried(p, d, e)[j-1], e)}}

\* The root steps of p that e matches: each seeds an automaton with an empty mask.
Roots(p, e) ==
    {i \in DOMAIN Patterns[p] :
        Patterns[p][i].prereq = {} /\ Matches(Patterns[p][i], e)}
=============================================================================
