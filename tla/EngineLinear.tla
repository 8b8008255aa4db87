---------------------------- MODULE EngineLinear ----------------------------
(***************************************************************************)
(* engine_core/src/v0_0_1.rs: the storylines of module Storylines, whose   *)
(* patterns are sequences of steps and whose automata are the number of    *)
(* steps matched so far (stage).                                           *)
(***************************************************************************)
EXTENDS Rules, Sequences, FiniteSets

CONSTANTS Patterns,  \* RuleSet: a sequence of patterns, each a sequence of Step
          NoLine,    \* LINE has no entry for a key
          MaxAutos   \* bound: an engine with as many automata seeds no more

VARIABLES line, members, autos, disarmed, verdict    \* as in EngineDag

lineVars == <<line, members, autos, disarmed, verdict>>

Pids == DOMAIN Patterns

INSTANCE Storylines

Step == [ops : SUBSET Ops, ttps : Seq(Ttps), action : Actions]

\* advance indexes steps[0] of every pattern: a pattern has a first step.
ASSUME LinearAssumption ==
    /\ Patterns \in Seq(Seq(Step) \ {<<>>})
    /\ NoLine \notin Keys
-----------------------------------------------------------------------------
\* (a) of advance: a pattern whose first step matches gets an automaton that has
\* already matched it.
Seeds(p, e) == IF Matches(Patterns[p][1], e) THEN <<1>> ELSE <<>>

\* (b) of advance: an automaton advances by its next step only, at most once a
\* call; one that was just seeded is among them.
Advances(p, stage, e) ==
    /\ stage < Len(Patterns[p])
    /\ Matches(Patterns[p][stage + 1], e)

Advanced(seeded, e) ==
    [p \in Pids |-> [i \in DOMAIN seeded[p] |->
        IF Advances(p, seeded[p][i], e) THEN seeded[p][i] + 1 ELSE seeded[p][i]]]

\* The actions applied: those of the steps that seeded and of those advanced over.
Activated(seeded, e) ==
    {Patterns[p][1].action : p \in {q \in Pids : Matches(Patterns[q][1], e)}}
      \union
    UNION {{Patterns[p][seeded[p][i] + 1].action :
              i \in {h \in DOMAIN seeded[p] : Advances(p, seeded[p][h], e)}} : p \in Pids}

\* Fault: the whole storyline of the actor is disarmed.
ApplyToStoryline(actor, actions) ==
    [k \in Keys |-> IF k = actor \/ (line[k] # NoLine /\ line[k] = line[actor])
                      THEN disarmed[k] \union Deprived(actions) ELSE disarmed[k]]

\* apply: only the actor of the event loses ops.
Apply(actor, actions) ==
    [disarmed EXCEPT ![actor] = @ \union Deprived(actions)]
-----------------------------------------------------------------------------
LineInit ==
    /\ line = Empty.line
    /\ members = Empty.members
    /\ autos = Empty.autos
    /\ disarmed = [k \in Keys |-> {}]
    /\ verdict = Ignore

\* Bound: an engine with MaxAutos automata is fed no event that seeds another.
RoomForMore(e) ==
    \/ \A p \in Pids : Seeds(p, e) = <<>>
    \/ Cardinality(UNION {{<<s, p>>} \X DOMAIN autos[s][p] : s \in Keys, p \in Pids}) < MaxAutos

\* on_event for an actor disarmed of this op: nothing else is touched.
Deny(e) ==
    /\ e.op \in disarmed[e.actor]
    /\ verdict' = Block
    /\ UNCHANGED <<line, members, autos, disarmed>>

\* on_event otherwise: unify_storyline, then advance on the actor's storyline.
Track(e) ==
    /\ e.op \notin disarmed[e.actor]
    /\ RoomForMore(e)
    /\ LET st == Unify([line |-> line, members |-> members, autos |-> autos],
                       e.actor, e.object)
           s == st.line[e.actor]
           seeded == [p \in Pids |-> st.autos[s][p] \o Seeds(p, e)]
           activated == Activated(seeded, e)
       IN  /\ line' = st.line
           /\ members' = st.members
           /\ autos' = [st.autos EXCEPT ![s] = Advanced(seeded, e)]
           /\ verdict' = Strongest(activated)
           /\ disarmed' = Apply(e.actor, activated)
=============================================================================
