----------------------------- MODULE EngineBase -----------------------------
(***************************************************************************)
(* engine_core/src/base.rs: the first engine, which keeps the whole        *)
(* provenance graph beside the storylines.  v0_0_1.rs dropped the graph on *)
(* the ground that the storylines are its connected components; this       *)
(* module keeps the graph to say so.                                       *)
(***************************************************************************)
EXTENDS EngineLinear

CONSTANT MaxEdges   \* bound: a graph with as many edges takes no more

VARIABLES nodes,   \* GRAPH.nodes: the keys that were resolved
          edges    \* the endpoints of the edges, one edge per tracked event

baseVars == <<line, members, autos, disarmed, verdict, nodes, edges>>

D == INSTANCE Detector
-----------------------------------------------------------------------------
Init ==
    /\ LineInit
    /\ nodes = {}
    /\ edges = {}

\* Fault: the event of a disarmed actor reaches the graph before it is denied.
OnEventRecordsFirst(e) ==
    /\ Cardinality(edges) < MaxEdges
    /\ Deny(e) \/ Track(e)
    /\ nodes' = nodes \union {e.actor, e.object}
    /\ edges' = edges \union {<<e.actor, e.object>>}

\* on_event: DISARMED stands before resolve_node and edges.push.
OnEvent(e) ==
    \/ /\ Deny(e)
       /\ UNCHANGED <<nodes, edges>>
    \/ /\ Cardinality(edges) < MaxEdges
       /\ Track(e)
       /\ nodes' = nodes \union {e.actor, e.object}
       /\ edges' = edges \union {<<e.actor, e.object>>}

Next == \E e \in Event : OnEvent(e)

Spec == Init /\ [][Next]_baseVars
-----------------------------------------------------------------------------
\* No set that the edges do not leave separates the two keys.
Connected(a, b) ==
    \A S \in SUBSET Keys :
        (a \in S /\ \A x \in edges : x[1] \in S <=> x[2] \in S) => b \in S

(***************************************************************************)
(* The storylines are exactly the connected components of the graph of     *)
(* tracked events, after any sequence of merges and denials: two nodes     *)
(* share a storyline iff the edges connect them, and every node has one    *)
(* (unify_storyline, merge; the claim v0_0_1.rs rests on).                 *)
(***************************************************************************)
StorylinesAreComponents ==
    /\ nodes = {k \in Keys : line[k] # NoLine}
    /\ \A a, b \in nodes : line[a] = line[b] <=> Connected(a, b)

\* Every behaviour is one the contract of Detector allows.
ImplementsDetector == D!Spec
=============================================================================
