------------------------------ MODULE EngineDag ------------------------------
(***************************************************************************)
(* The reference engine of user space, engine_core/src/v0_0_2.rs: the      *)
(* storylines of module Storylines, whose automata are done masks.         *)
(* on_event runs to completion before the next call: every host holds the  *)
(* engine exclusively for the length of a call.                            *)
(***************************************************************************)
EXTENDS DagRules

CONSTANTS NoLine,    \* LINE has no entry for a key
          MaxAutos   \* bound: an engine with as many automata seeds no more

VARIABLES line,      \* LINE: key -> its storyline
          members,   \* storyline -> its member keys
          autos,     \* storyline -> pattern id -> the masks of its automata
          disarmed,  \* DISARMED
          verdict    \* what the last on_event returned

vars == <<line, members, autos, disarmed, verdict>>

INSTANCE Storylines
D == INSTANCE Detector

ASSUME NoLineAssumption == NoLine \notin Keys
-----------------------------------------------------------------------------
\* (a) of advance: one new automaton for each root step that matches.
Seeds(p, e) == [i \in 1 .. Cardinality(Roots(p, e)) |-> {}]

\* Fault: part (b) only visits the automata that were there before part (a).
AdvancedBeforeSeeding(seeded, e) ==
    [p \in Pids |-> [i \in DOMAIN seeded[p] |->
        IF seeded[p][i] = {} THEN {} ELSE Progress(p, seeded[p][i], e)]]

\* (b) of advance: every automaton of the storyline, the new ones included.
Advanced(seeded, e) ==
    [p \in Pids |-> [i \in DOMAIN seeded[p] |-> Progress(p, seeded[p][i], e)]]

Activated(seeded, e) ==
    UNION {UNION {Fired(p, seeded[p][i], e) : i \in DOMAIN seeded[p]} : p \in Pids}

\* Fault: the sentence is served on every actor already in DISARMED.
ApplyToAll(actor, actions) ==
    [k \in Keys |-> IF k = actor \/ disarmed[k] # {}
                      THEN disarmed[k] \union Deprived(actions) ELSE disarmed[k]]

\* apply on every activated step: the actor's entry is widened, never replaced.
Apply(actor, actions) ==
    [disarmed EXCEPT ![actor] = @ \union Deprived(actions)]
-----------------------------------------------------------------------------
Init ==
    /\ line = Empty.line
    /\ members = Empty.members
    /\ autos = Empty.autos
    /\ D!Init

\* Bound: an engine with MaxAutos automata is fed no event that seeds another.
RoomForMore(e) ==
    \/ \A p \in Pids : Roots(p, e) = {}
    \/ Cardinality(UNION {{<<s, p>>} \X DOMAIN autos[s][p] : s \in Keys, p \in Pids}) < MaxAutos

\* on_event for an actor disarmed of this op: Block, before any state is touched.
Deny(e) ==
    /\ e.op \in disarmed[e.actor]
    /\ verdict' = Block
    /\ UNCHANGED <<line, members, autos, disarmed>>

\* on_event otherwise: unify_storyline, then advance on the actor's storyline.
Track(e) ==
    /\ e.op \notin disarmed[e.actor]
    /\ RoomForMore(e)
    /\ LET st == Unify([line |-> line, members |-> members, autos |-> autos],
                       e.actor, e.object)
           s == st.line[e.actor]
           seeded == [p \in Pids |-> st.autos[s][p] \o Seeds(p, e)]
           activated == Activated(seeded, e)
       IN  /\ line' = st.line
           /\ members' = st.members
           /\ autos' = [st.autos EXCEPT ![s] = Advanced(seeded, e)]
           /\ verdict' = Strongest(activated)
           /\ disarmed' = Apply(e.actor, activated)

OnEvent(e) == Deny(e) \/ Track(e)

Next == \E e \in Event : OnEvent(e)

Spec == Init /\ [][Next]_vars
-----------------------------------------------------------------------------
TypeOK ==
    /\ line \in [Keys -> Keys \union {NoLine}]
    /\ members \in [Keys -> SUBSET Keys]
    /\ autos \in [Keys -> [Pids -> Seq(SUBSET Bits)]]
    /\ disarmed \in [Keys -> SUBSET Ops]
    /\ verdict \in Verdicts

(***************************************************************************)
(* LINE and the member sets describe the same partition, whatever order    *)
(* the merges came in, and no automaton hangs on a merged-away storyline   *)
(* (unify_storyline, merge).                                               *)
(***************************************************************************)
StorylinesConsistent ==
    Consistent([line |-> line, members |-> members, autos |-> autos])

(***************************************************************************)
(* An automaton never holds a step without everything that step requires,  *)
(* transitively: progress follows the partial order although one event may *)
(* commit several steps in declaration order (advance, part b).            *)
(***************************************************************************)
PrereqClosed ==
    \A s \in Keys, p \in Pids : \A i \in DOMAIN autos[s][p], j \in DOMAIN Patterns[p] :
        Patterns[p][j].bit \in autos[s][p][i] => Patterns[p][j].prereq \subseteq autos[s][p][i]

(***************************************************************************)
(* Seeding with an empty mask is enough: part (b) of the same call commits *)
(* the root step that seeded, so no automaton is at rest with no progress. *)
(***************************************************************************)
NoIdleAutomaton ==
    \A s \in Keys, p \in Pids : \A i \in DOMAIN autos[s][p] : autos[s][p][i] # {}

\* What storyline s holds before a step, storyline t still holds after it.
Keeps(s, t) ==
    /\ members[s] \subseteq members'[t]
    /\ \A p \in Pids : \E shift \in 0 .. Len(autos'[t][p]) :
         \A i \in DOMAIN autos[s][p] :
           /\ i + shift \in DOMAIN autos'[t][p]
           /\ autos[s][p][i] \subseteq autos'[t][p][i + shift]

(***************************************************************************)
(* Merging storylines loses no evidence: a known key keeps its company,    *)
(* and the automata of its storyline reappear, in order and no less        *)
(* advanced, in the storyline it is in after the call (merge, append).     *)
(***************************************************************************)
EvidenceKept ==
    [][\A k \in Keys : line[k] # NoLine => Keeps(line[k], line'[k])]_vars

\* An automaton of k's storyline committed a step that takes op.
Convicts(k, op) ==
    \E p \in Pids : \E j \in DOMAIN Patterns[p], i \in DOMAIN autos[line[k]][p] :
        LET step == Patterns[p][j]
        IN  /\ step.action.kind = "disarm"
            /\ op \in step.action.ops
            /\ {step.bit} \union step.prereq \subseteq autos[line[k]][p][i]

(***************************************************************************)
(* Whoever loses an op loses it on evidence in its own storyline: after    *)
(* the call an automaton there, of that storyline's merged past and this   *)
(* event, has committed a step that disarms it and all its prerequisites.  *)
(***************************************************************************)
DisarmedOnEvidence ==
    [][\A k \in Keys : \A op \in disarmed'[k] \ disarmed[k] :
         verdict' = Disarm /\ Convicts(k, op)']_vars

\* Every behaviour is one the contract of Detector allows.
ImplementsDetector == D!Spec
=============================================================================
