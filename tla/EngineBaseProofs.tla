-------------------------- MODULE EngineBaseProofs --------------------------
(***************************************************************************)
(* What module EngineBase promises, for every linear rule set and every    *)
(* number of keys and edges: the graph that base keeps says no more than   *)
(* the storylines, and the engine keeps the contract of Detector.          *)
(***************************************************************************)
EXTENDS EngineBase, SequenceTheorems, TLAPS

\* The stages of the automata of a storyline: a seed has matched its first step.
Stages == [Pids -> Seq(Nat \ {0})]

States == [line    : [Keys -> Keys \union {NoLine}],
           members : [Keys -> SUBSET Keys],
           autos   : [Keys -> Stages]]

\* LINE and the members describe one partition; the slot of a key that was never
\* seen is not in use, so that nobody is in it.
Partition(st) ==
    /\ \A k \in Keys, s \in Keys : k \in st.members[s] <=> st.line[k] = s
    /\ \A s \in Keys : st.line[s] = NoLine => st.members[s] = {}

StorylinesInv(st) == st \in States /\ Partition(st)

LEMMA NoAutosType == NoAutos \in Stages
  BY DEF NoAutos, Stages

LEMMA EmptyInv == StorylinesInv(Empty)
<1>1. Empty \in States
  BY NoAutosType DEF Empty, States
<1>2. Partition(Empty)
  BY LinearAssumption DEF Empty, Partition
<1> QED
  BY <1>1, <1>2 DEF StorylinesInv
-----------------------------------------------------------------------------
(***************************************************************************)
(* resolve_line gives a key that has no storyline one of its own.          *)
(***************************************************************************)
LEMMA ResolveLine ==
    ASSUME NEW st, StorylinesInv(st), NEW k \in Keys
    PROVE  /\ StorylinesInv(Resolve(st, k))
           /\ \A x \in Keys : Resolve(st, k).line[x] =
                 IF x = k /\ st.line[k] = NoLine THEN k ELSE st.line[x]
           /\ Resolve(st, k).line[k] \in Keys
<1>1. CASE st.line[k] # NoLine
  BY <1>1 DEF Resolve, StorylinesInv, States
<1>2. CASE st.line[k] = NoLine
  <2> DEFINE new == Resolve(st, k)
  <2>1. st \in States /\ Partition(st)
    BY DEF StorylinesInv
  <2>2. /\ new.line = [st.line EXCEPT ![k] = k]
        /\ new.members = [st.members EXCEPT ![k] = {k}]
        /\ new.autos = [st.autos EXCEPT ![k] = NoAutos]
        /\ new = [line |-> new.line, members |-> new.members, autos |-> new.autos]
    BY <1>2 DEF Resolve
  <2> HIDE DEF new
  <2>3. new \in States
    BY <2>1, <2>2, NoAutosType DEF States
  <2>4. \A x \in Keys : /\ new.line[x] = IF x = k THEN k ELSE st.line[x]
                        /\ new.members[x] = IF x = k THEN {k} ELSE st.members[x]
    BY <2>1, <2>2 DEF States
  <2>5. \A x \in Keys : st.line[x] # k
    BY <1>2, <2>1 DEF Partition
  <2>6. \A x \in Keys, s \in Keys : x \in new.members[s] <=> new.line[x] = s
    <3> SUFFICES ASSUME NEW x \in Keys, NEW s \in Keys
                 PROVE  x \in new.members[s] <=> new.line[x] = s
      OBVIOUS
    <3>1. x \in st.members[s] <=> st.line[x] = s
      BY <2>1 DEF Partition
    <3>2. CASE s = k
      BY <2>4, <2>5, <3>2
    <3>3. CASE s # k
      BY <1>2, <2>4, <3>1, <3>3, LinearAssumption
    <3> QED
      BY <3>2, <3>3
  <2>7. \A s \in Keys : new.line[s] = NoLine => new.members[s] = {}
    BY <2>1, <2>4, LinearAssumption DEF Partition
  <2> QED
    BY <1>2, <2>3, <2>4, <2>6, <2>7 DEF StorylinesInv, Partition, new
<1> QED
  BY <1>1, <1>2

(***************************************************************************)
(* Folding one storyline into another joins the two and moves nobody else. *)
(***************************************************************************)
LEMMA FoldLine ==
    ASSUME NEW st, StorylinesInv(st), NEW x \in Keys, NEW y \in Keys, x # y
    PROVE  /\ \A k \in Keys : Fold(st, x, y).line[k] = IF st.line[k] = y THEN x ELSE st.line[k]
           /\ st.members[x] # {} => StorylinesInv(Fold(st, x, y))
<1> DEFINE new == Fold(st, x, y)
           joined == [p \in Pids |-> st.autos[x][p] \o st.autos[y][p]]
<1>1. st \in States /\ Partition(st)
  BY DEF StorylinesInv
<1>2. /\ new.line = [k \in Keys |-> IF k \in st.members[y] THEN x ELSE st.line[k]]
      /\ new.members = [st.members EXCEPT ![x] = @ \union st.members[y], ![y] = {}]
      /\ new.autos = [st.autos EXCEPT ![x] = joined, ![y] = NoAutos]
      /\ new = [line |-> new.line, members |-> new.members, autos |-> new.autos]
  BY <1>1 DEF Fold, States
<1> HIDE DEF new
<1>3. joined \in Stages
  <2>1. \A p \in Pids : st.autos[x][p] \in Seq(Nat \ {0}) /\ st.autos[y][p] \in Seq(Nat \ {0})
    BY <1>1 DEF States, Stages
  <2>2. \A p \in Pids : joined[p] \in Seq(Nat \ {0})
    BY <2>1, ConcatProperties
  <2> QED
    BY <2>2 DEF Stages
<1> HIDE DEF joined
<1>4. new \in States
  BY <1>1, <1>2, <1>3, NoAutosType DEF States
<1>5. \A k \in Keys : k \in st.members[y] <=> st.line[k] = y
  BY <1>1 DEF Partition
<1>6. \A k \in Keys : new.line[k] = IF st.line[k] = y THEN x ELSE st.line[k]
  BY <1>2, <1>5
<1>7. \A s \in Keys : new.members[s] = IF s = y THEN {}
                                       ELSE IF s = x THEN st.members[x] \union st.members[y]
                                       ELSE st.members[s]
  BY <1>1, <1>2 DEF States
<1>8. \A k \in Keys, s \in Keys : k \in new.members[s] <=> new.line[k] = s
  <2> SUFFICES ASSUME NEW k \in Keys, NEW s \in Keys
               PROVE  k \in new.members[s] <=> new.line[k] = s
    OBVIOUS
  <2>1. \A z \in Keys : k \in st.members[z] <=> st.line[k] = z
    BY <1>1 DEF Partition
  <2>2. CASE s = y
    BY <1>6, <1>7, <2>2
  <2>3. CASE s = x
    BY <1>6, <1>7, <2>1, <2>3
  <2>4. CASE s # x /\ s # y
    BY <1>6, <1>7, <2>1, <2>4
  <2> QED
    BY <2>2, <2>3, <2>4
<1>9. ASSUME st.members[x] # {}, NEW s \in Keys, new.line[s] = NoLine
      PROVE  new.members[s] = {}
  <2>1. st.line[s] = NoLine
    BY <1>6, <1>9, LinearAssumption
  <2>2. st.members[s] = {}
    BY <1>1, <2>1 DEF Partition
  <2>3. s # x
    BY <1>9, <2>2
  <2> QED
    BY <1>7, <2>2, <2>3
<1> QED
  BY <1>4, <1>6, <1>8, <1>9 DEF StorylinesInv, Partition, new
-----------------------------------------------------------------------------
\* LINE once actor and object are resolved.
Known(st, a, o, k) == IF k \in {a, o} /\ st.line[k] = NoLine THEN k ELSE st.line[k]

(***************************************************************************)
(* unify_storyline joins the storylines of actor and object into one of    *)
(* the two, and leaves every other key where it was.                       *)
(***************************************************************************)
LEMMA UnifyLine ==
    ASSUME NEW st, StorylinesInv(st), NEW a \in Keys, NEW o \in Keys
    PROVE  LET one == {Known(st, a, o, a), Known(st, a, o, o)}
           IN  /\ StorylinesInv(Unify(st, a, o))
               /\ one \subseteq Keys
               /\ \E w \in one : \A k \in Keys :
                    Unify(st, a, o).line[k] =
                      IF Known(st, a, o, k) \in one THEN w ELSE Known(st, a, o, k)
<1> DEFINE first == Resolve(st, a)
           both  == Resolve(first, o)
           x == both.line[a]
           y == both.line[o]
<1>1. /\ StorylinesInv(first) /\ first.line[a] \in Keys
      /\ \A k \in Keys : first.line[k] = IF k = a /\ st.line[a] = NoLine THEN a ELSE st.line[k]
  BY ResolveLine
<1>2. /\ StorylinesInv(both) /\ y \in Keys
      /\ \A k \in Keys : both.line[k] =
            IF k = o /\ first.line[o] = NoLine THEN o ELSE first.line[k]
  BY <1>1, ResolveLine
<1>3. \A k \in Keys : both.line[k] = Known(st, a, o, k)
  BY <1>1, <1>2, LinearAssumption DEF Known
<1>4. x \in Keys
  BY <1>1, <1>2
<1>5. Unify(st, a, o) = IF x = y THEN both ELSE Merge(both, x, y)
  BY DEF Unify
<1>6. a \in both.members[x] /\ o \in both.members[y]
  BY <1>2, <1>4 DEF StorylinesInv, Partition
<1> HIDE DEF both
<1>7. ASSUME x = y, NEW k \in Keys
      PROVE  Unify(st, a, o).line[k] = IF both.line[k] \in {x, y} THEN x ELSE both.line[k]
  BY <1>5, <1>7
<1>8. CASE x = y
  BY <1>2, <1>3, <1>4, <1>5, <1>7, <1>8
<1>9. CASE x # y
  <2>1. Unify(st, a, o) \in {Fold(both, x, y), Fold(both, y, x)}
    BY <1>5, <1>9 DEF Merge
  <2>2. /\ StorylinesInv(Fold(both, x, y))
        /\ \A k \in Keys : Fold(both, x, y).line[k] = IF both.line[k] = y THEN x ELSE both.line[k]
    BY <1>2, <1>4, <1>6, <1>9, FoldLine
  <2>3. /\ StorylinesInv(Fold(both, y, x))
        /\ \A k \in Keys : Fold(both, y, x).line[k] = IF both.line[k] = x THEN y ELSE both.line[k]
    BY <1>2, <1>4, <1>6, <1>9, FoldLine
  <2>4. \E w \in {x, y} : \A k \in Keys :
            Unify(st, a, o).line[k] = IF both.line[k] \in {x, y} THEN w ELSE both.line[k]
    <3>1. CASE Unify(st, a, o) = Fold(both, x, y)
      BY <2>2, <3>1
    <3>2. CASE Unify(st, a, o) = Fold(both, y, x)
      BY <2>3, <3>2
    <3> QED
      BY <2>1, <3>1, <3>2
  <2>5. StorylinesInv(Unify(st, a, o))
    BY <2>1, <2>2, <2>3
  <2> QED
    BY <1>2, <1>3, <1>4, <2>4, <2>5
<1> QED
  BY <1>8, <1>9
-----------------------------------------------------------------------------
\* What the storylines of a state are, and what Track makes of them before it
\* advances.
Now == [line |-> line, members |-> members, autos |-> autos]
Joined(e) == Unify(Now, e.actor, e.object)
Home(e) == Joined(e).line[e.actor]
Seeded(e) == [p \in Pids |-> Joined(e).autos[Home(e)][p] \o Seeds(p, e)]

\* Track, with the names of this module for what it computes.
LEMMA TrackUnfolds ==
    ASSUME NEW e, Track(e)
    PROVE  /\ e.op \notin disarmed[e.actor]
           /\ line' = Joined(e).line
           /\ members' = Joined(e).members
           /\ autos' = [Joined(e).autos EXCEPT ![Home(e)] = Advanced(Seeded(e), e)]
           /\ verdict' = Strongest(Activated(Seeded(e), e))
           /\ disarmed' = Apply(e.actor, Activated(Seeded(e), e))
  BY DEF Track, Seeded, Home, Joined, Now

\* Every edge lies in the graph and in one storyline.
EdgesInside ==
    /\ edges \subseteq nodes \X nodes
    /\ \A x \in edges : line[x[1]] = line[x[2]]

\* The nodes of one storyline are connected.
OneStorylineConnected ==
    \A a, b \in nodes : line[a] = line[b] => Connected(a, b)

(***************************************************************************)
(* The inductive invariant.  That storylines are components is not         *)
(* inductive by itself: it needs that a key not seen yet is in nobody's    *)
(* storyline, or resolving it could join two that no edge connects.        *)
(***************************************************************************)
IInv ==
    /\ StorylinesInv(Now)
    /\ disarmed \in [Keys -> SUBSET Ops]
    /\ verdict \in Verdicts
    /\ nodes = {k \in Keys : line[k] # NoLine}
    /\ EdgesInside
    /\ OneStorylineConnected
-----------------------------------------------------------------------------
LEMMA PatternsType ==
    ASSUME NEW p \in Pids
    PROVE  /\ Len(Patterns[p]) \in Nat \ {0}
           /\ \A i \in 1 .. Len(Patterns[p]) : Patterns[p][i].action \in Actions
<1>1. Patterns[p] \in Seq(Step) \ {<<>>}
  BY LinearAssumption, ElementOfSeq DEF Pids
<1>2. \A i \in 1 .. Len(Patterns[p]) : Patterns[p][i] \in Step
  BY <1>1
<1> QED
  BY <1>1, <1>2 DEF Step

(***************************************************************************)
(* advance leaves every automaton at a stage of one or more, and what it   *)
(* activates are actions of steps that there are.                          *)
(***************************************************************************)
LEMMA AdvancedType ==
    ASSUME IInv, NEW e \in Event
    PROVE  /\ StorylinesInv(Joined(e)) /\ Home(e) \in Keys
           /\ Advanced(Seeded(e), e) \in Stages
           /\ Activated(Seeded(e), e) \subseteq Actions
<1>1. e.actor \in Keys /\ e.object \in Keys
  BY DEF Event
<1>2. StorylinesInv(Joined(e))
  BY <1>1, UnifyLine DEF IInv, Joined
<1>3. Home(e) \in Keys
  BY <1>1, UnifyLine DEF IInv, Joined, Home
<1>4. ASSUME NEW p \in Pids
      PROVE  /\ Seeded(e)[p] \in Seq(Nat \ {0})
             /\ Advanced(Seeded(e), e)[p] \in Seq(Nat \ {0})
  <2> DEFINE old == Joined(e).autos[Home(e)][p]
             s   == Seeded(e)[p]
  <2>1. old \in Seq(Nat \ {0}) /\ Seeds(p, e) \in Seq(Nat \ {0})
    <3>1. Joined(e).autos[Home(e)] \in Stages
      BY <1>2, <1>3 DEF StorylinesInv, States
    <3>2. old \in Seq(Nat \ {0})
      BY <3>1 DEF Stages
    <3>3. <<1>> \in Seq(Nat \ {0}) /\ <<>> \in Seq(Nat \ {0})
      OBVIOUS
    <3> QED
      BY <3>2, <3>3 DEF Seeds
  <2>2. s = old \o Seeds(p, e)
    BY DEF Seeded
  <2>3. s \in Seq(Nat \ {0})
    BY <2>1, <2>2, ConcatProperties
  <2>4. Advanced(Seeded(e), e)[p] =
          [i \in DOMAIN s |-> IF Advances(p, s[i], e) THEN s[i] + 1 ELSE s[i]]
    BY DEF Advanced
  <2> HIDE DEF s
  <2>5. DOMAIN s = 1 .. Len(s) /\ Len(s) \in Nat
    BY <2>3
  <2>6. \A i \in 1 .. Len(s) : s[i] \in Nat \ {0}
    BY <2>3
  <2>7. \A i \in 1 .. Len(s) : (IF Advances(p, s[i], e) THEN s[i] + 1 ELSE s[i]) \in Nat \ {0}
    BY <2>6
  <2> QED
    BY <2>3, <2>4, <2>5, <2>7 DEF s
<1>5. Advanced(Seeded(e), e) \in Stages
  BY <1>4 DEF Advanced, Stages
<1>6. Activated(Seeded(e), e) \subseteq Actions
  <2>1. \A p \in Pids : Patterns[p][1].action \in Actions
    BY PatternsType
  <2>2. ASSUME NEW p \in Pids, NEW i \in DOMAIN Seeded(e)[p], Advances(p, Seeded(e)[p][i], e)
        PROVE  Patterns[p][Seeded(e)[p][i] + 1].action \in Actions
    <3>1. Seeded(e)[p][i] \in Nat
      BY <1>4
    <3>2. Seeded(e)[p][i] + 1 \in 1 .. Len(Patterns[p])
      BY <2>2, <3>1, PatternsType DEF Advances
    <3> QED
      BY <3>2, PatternsType
  <2> QED
    BY <2>1, <2>2 DEF Activated
<1> QED
  BY <1>2, <1>3, <1>5, <1>6

LEMMA ApplyType ==
    ASSUME disarmed \in [Keys -> SUBSET Ops], NEW k \in Keys, NEW acts \in SUBSET Actions
    PROVE  /\ Deprived(acts) \in SUBSET Ops
           /\ Apply(k, acts) \in [Keys -> SUBSET Ops]
           /\ Deprived(acts) # {} => Strongest(acts) = Disarm
           /\ Strongest(acts) \in Verdicts
<1>1. Deprived(acts) \in SUBSET Ops
  BY DEF Deprived, Actions
<1>2. Deprived(acts) # {} => Strongest(acts) = Disarm
  BY DEF Deprived, Strongest
<1>3. Strongest(acts) \in Verdicts
  BY DEF Strongest, Verdicts, Ignore, Inspect, Block, Disarm
<1> QED
  BY <1>1, <1>2, <1>3 DEF Apply

\* Track keeps the storylines a partition, with their automata typed.
LEMMA TrackStorylines ==
    ASSUME IInv, NEW e \in Event, Track(e)
    PROVE  StorylinesInv(Now)'
<1>1. /\ StorylinesInv(Joined(e)) /\ Home(e) \in Keys
      /\ Advanced(Seeded(e), e) \in Stages
  BY AdvancedType
<1>2. /\ line' = Joined(e).line
      /\ members' = Joined(e).members
      /\ autos' = [Joined(e).autos EXCEPT ![Home(e)] = Advanced(Seeded(e), e)]
  BY TrackUnfolds
<1>3. Now' \in States
  BY <1>1, <1>2 DEF Now, StorylinesInv, States
<1>4. Partition(Now')
  BY <1>1, <1>2 DEF Now, StorylinesInv, Partition
<1> QED
  BY <1>3, <1>4 DEF StorylinesInv, States, Partition, Now
-----------------------------------------------------------------------------
\* Connected, for a given set of edges.
Joins(E, a, b) ==
    \A S \in SUBSET Keys : (a \in S /\ \A x \in E : x[1] \in S <=> x[2] \in S) => b \in S

LEMMA ConnectedJoins == \A a, b : Connected(a, b) <=> Joins(edges, a, b)
  BY DEF Connected, Joins

\* Being connected is an equivalence on the keys, and more edges keep it.
LEMMA JoinsEquivalence ==
    ASSUME NEW E, E \subseteq Keys \X Keys
    PROVE  /\ \A a : Joins(E, a, a)
           /\ \A a, b \in Keys : Joins(E, a, b) => Joins(E, b, a)
           /\ \A a, b, c : Joins(E, a, b) /\ Joins(E, b, c) => Joins(E, a, c)
           /\ \A x \in E : Joins(E, x[1], x[2])
<1>1. ASSUME NEW a \in Keys, NEW b \in Keys, Joins(E, a, b)
      PROVE  Joins(E, b, a)
  <2> SUFFICES ASSUME NEW S \in SUBSET Keys, b \in S, a \notin S,
                      \A x \in E : x[1] \in S <=> x[2] \in S
               PROVE  FALSE
    BY DEF Joins
  <2>1. \A x \in E : x[1] \in Keys /\ x[2] \in Keys
    OBVIOUS
  <2>2. \A x \in E : x[1] \in Keys \ S <=> x[2] \in Keys \ S
    BY <2>1
  <2>3. b \in Keys \ S
    BY <1>1, <2>2 DEF Joins
  <2> QED
    BY <2>3
<1> QED
  BY <1>1 DEF Joins

LEMMA JoinsGrows ==
    ASSUME NEW E, NEW F, E \subseteq F, NEW a, NEW b, Joins(E, a, b)
    PROVE  Joins(F, a, b)
  BY DEF Joins

(***************************************************************************)
(* An event that is tracked puts both its keys into the graph.             *)
(***************************************************************************)
LEMMA TrackGraph ==
    ASSUME IInv, NEW e \in Event, Track(e),
           nodes' = nodes \union {e.actor, e.object},
           edges' = edges \union {<<e.actor, e.object>>}
    PROVE  /\ nodes' = {k \in Keys : line'[k] # NoLine}
           /\ EdgesInside'
           /\ OneStorylineConnected'
<1> DEFINE a == e.actor
           o == e.object
           known(k) == Known(Now, a, o, k)
           one == {known(a), known(o)}
<1>1. a \in Keys /\ o \in Keys /\ line' = Joined(e).line
  BY TrackUnfolds DEF Event
<1>2. StorylinesInv(Now)
  BY DEF IInv
<1>3. /\ one \subseteq Keys
      /\ \E w \in one : \A k \in Keys :
           line'[k] = IF known(k) \in one THEN w ELSE known(k)
  BY <1>1, <1>2, UnifyLine DEF Joined
<1>4. PICK w \in one : \A k \in Keys : line'[k] = IF known(k) \in one THEN w ELSE known(k)
  BY <1>3
<1>5. \A k \in Keys : known(k) = IF k \in {a, o} /\ line[k] = NoLine THEN k ELSE line[k]
  BY DEF Known, Now
<1> HIDE DEF known
<1>6. nodes' = {k \in Keys : line'[k] # NoLine}
  <2>1. \A k \in Keys : line'[k] # NoLine <=> known(k) # NoLine
    BY <1>3, <1>4, LinearAssumption
  <2>2. \A k \in Keys : known(k) # NoLine <=> line[k] # NoLine \/ k \in {a, o}
    BY <1>5, LinearAssumption
  <2>3. nodes = {k \in Keys : line[k] # NoLine}
    BY DEF IInv
  <2> QED
    BY <1>1, <2>1, <2>2, <2>3
<1>7. nodes \subseteq Keys /\ nodes' \subseteq Keys
  BY <1>6 DEF IInv
<1>8. \A k \in nodes : known(k) = line[k]
  BY <1>5, <1>7 DEF IInv
<1>9. EdgesInside'
  <2>1. edges' \subseteq nodes' \X nodes'
    BY DEF IInv, EdgesInside
  <2>2. ASSUME NEW x \in edges'
        PROVE  line'[x[1]] = line'[x[2]]
    <3>1. CASE x \in edges
      <4>1. x[1] \in nodes /\ x[2] \in nodes /\ line[x[1]] = line[x[2]]
        BY <3>1 DEF IInv, EdgesInside
      <4>2. known(x[1]) = known(x[2]) /\ x[1] \in Keys /\ x[2] \in Keys
        BY <1>7, <1>8, <4>1
      <4> QED
        BY <1>4, <4>2
    <3>2. CASE x = <<a, o>>
      BY <1>1, <1>4, <3>2
    <3> QED
      BY <3>1, <3>2
  <2> QED
    BY <2>1, <2>2 DEF EdgesInside
<1>10. edges \subseteq edges' /\ edges' \subseteq Keys \X Keys
  BY <1>7, <1>9 DEF EdgesInside
<1>11. ASSUME NEW p \in nodes', NEW q \in nodes', known(p) = known(q)
       PROVE  Joins(edges', p, q)
  <2>1. p \in Keys /\ q \in Keys /\ known(p) # NoLine
    BY <1>1, <1>5, <1>6, <1>7, LinearAssumption DEF IInv
  <2>2. \A k \in Keys, l \in Keys : line[k] = NoLine => line[l] # k
    BY <1>2 DEF StorylinesInv, Partition, Now
  <2>3. CASE p = q
    BY <1>10, <2>3, JoinsEquivalence
  <2>4. CASE p # q /\ line[p] # NoLine /\ line[q] # NoLine
    <3>1. line[p] = line[q] /\ p \in nodes /\ q \in nodes
      BY <1>5, <1>11, <2>1, <2>4 DEF IInv
    <3>2. Joins(edges, p, q)
      BY <3>1, ConnectedJoins DEF IInv, OneStorylineConnected
    <3> QED
      BY <1>10, <3>2, JoinsGrows
  <2>5. CASE p # q /\ line[p] = NoLine
    BY <1>5, <1>11, <2>1, <2>2, <2>5
  <2>6. CASE p # q /\ line[q] = NoLine
    BY <1>5, <1>11, <2>1, <2>2, <2>6
  <2> QED
    BY <2>3, <2>4, <2>5, <2>6
<1>12. Joins(edges', a, o) /\ Joins(edges', o, a)
  <2>1. <<a, o>> \in edges'
    OBVIOUS
  <2>2. Joins(edges', a, o)
    BY <1>10, <2>1, JoinsEquivalence
  <2> QED
    BY <1>1, <1>10, <2>2, JoinsEquivalence
<1>13. ASSUME NEW p \in nodes', NEW q \in nodes', line'[p] = line'[q]
       PROVE  Joins(edges', p, q)
  <2>1. p \in Keys /\ q \in Keys /\ a \in nodes' /\ o \in nodes'
    BY <1>7
  <2>2. \A r \in nodes' : known(r) \in one => Joins(edges', r, a) /\ Joins(edges', a, r)
    <3> SUFFICES ASSUME NEW r \in nodes', known(r) \in one
                 PROVE  Joins(edges', r, a) /\ Joins(edges', a, r)
      OBVIOUS
    <3>1. r \in Keys
      BY <1>7
    <3>2. CASE known(r) = known(a)
      BY <1>11, <2>1, <3>2
    <3>3. CASE known(r) = known(o)
      <4>1. Joins(edges', r, o) /\ Joins(edges', o, r)
        BY <1>11, <2>1, <3>3
      <4> QED
        BY <1>10, <1>12, <4>1, JoinsEquivalence
    <3> QED
      BY <3>2, <3>3
  <2>3. CASE known(p) \in one
    <3>1. known(q) \in one
      BY <1>4, <1>13, <2>1, <2>3
    <3>2. Joins(edges', p, a) /\ Joins(edges', a, q)
      BY <2>2, <2>3, <3>1
    <3> QED
      BY <1>10, <3>2, JoinsEquivalence
  <2>4. CASE known(p) \notin one
    <3>1. known(q) = known(p)
      BY <1>4, <1>13, <2>1, <2>4
    <3> QED
      BY <1>11, <3>1
  <2> QED
    BY <2>3, <2>4
<1>14. OneStorylineConnected'
  BY <1>13 DEF OneStorylineConnected, Connected, Joins
<1> QED
  BY <1>6, <1>9, <1>14
-----------------------------------------------------------------------------
LEMMA InitInv == Init => IInv
<1> SUFFICES ASSUME Init PROVE IInv
  OBVIOUS
<1>1. Now = Empty
  BY DEF Init, LineInit, Now, Empty
<1>2. \A k \in Keys : line[k] = NoLine
  BY DEF Init, LineInit, Empty
<1> QED
  BY <1>1, <1>2, EmptyInv DEF Init, LineInit, IInv, EdgesInside, OneStorylineConnected,
                              Verdicts, Ignore, Disarm

LEMMA NextInv == IInv /\ [Next]_baseVars => IInv'
<1> SUFFICES ASSUME IInv, [Next]_baseVars PROVE IInv'
  OBVIOUS
<1>1. ASSUME NEW e \in Event, Deny(e), UNCHANGED <<nodes, edges>>
      PROVE  IInv'
  BY <1>1 DEF IInv, Deny, Now, StorylinesInv, States, Partition, EdgesInside,
              OneStorylineConnected, Connected, Verdicts, Block, Ignore, Disarm
<1>2. ASSUME NEW e \in Event, Track(e),
             nodes' = nodes \union {e.actor, e.object},
             edges' = edges \union {<<e.actor, e.object>>}
      PROVE  IInv'
  <2>1. disarmed' \in [Keys -> SUBSET Ops] /\ verdict' \in Verdicts
    <3>1. e.actor \in Keys
      BY DEF Event
    <3> QED
      BY <1>2, <3>1, TrackUnfolds, AdvancedType, ApplyType DEF IInv
  <2> QED
    BY <1>2, <2>1, TrackStorylines, TrackGraph DEF IInv
<1>3. CASE UNCHANGED baseVars
  BY <1>3 DEF IInv, baseVars, Now, StorylinesInv, States, Partition, EdgesInside,
              OneStorylineConnected, Connected
<1> QED
  BY <1>1, <1>2, <1>3 DEF Next, OnEvent

\* The invariant above holds of every state of the engine that keeps the graph.
THEOREM Inductive == Spec => []IInv
  BY InitInv, NextInv, PTL DEF Spec

(***************************************************************************)
(* The storylines are the connected components of the graph, for any       *)
(* number of keys and events: v0_0_1.rs loses nothing by dropping it.      *)
(***************************************************************************)
THEOREM ComponentsCorrect == Spec => []StorylinesAreComponents
<1>1. IInv => StorylinesAreComponents
  <2> SUFFICES ASSUME IInv, NEW a \in nodes, NEW b \in nodes, Connected(a, b)
               PROVE  line[a] = line[b]
    BY DEF IInv, OneStorylineConnected, StorylinesAreComponents
  <2> DEFINE S == {k \in Keys : line[k] = line[a]}
  <2>1. a \in S /\ S \in SUBSET Keys
    BY DEF IInv
  <2>2. \A x \in edges : x[1] \in S <=> x[2] \in S
    BY DEF IInv, EdgesInside
  <2> QED
    BY <2>1, <2>2 DEF Connected
<1> QED
  BY <1>1, Inductive, PTL

(***************************************************************************)
(* The linear engine keeps the contract of Detector, step by step.         *)
(***************************************************************************)
THEOREM RefinementCorrect == Spec => ImplementsDetector
<1>1. Init => D!Init
  BY DEF Init, LineInit, D!Init, Ignore, D!Ignore
<1>2. IInv /\ [Next]_baseVars => [D!Next]_(D!detectorVars)
  <2> SUFFICES ASSUME IInv, [Next]_baseVars PROVE [D!Next]_(D!detectorVars)
    OBVIOUS
  <2>1. D!Event = Event
    BY DEF D!Event, Event
  <2>2. ASSUME NEW e \in Event, Deny(e) PROVE D!Deny(e)
    BY <2>2 DEF Deny, D!Deny, Block, D!Block
  <2>3. ASSUME NEW e \in Event, Track(e) PROVE D!Judge(e)
    <3> DEFINE acts == Activated(Seeded(e), e)
    <3>1. e.actor \in Keys
      BY DEF Event
    <3>2. acts \in SUBSET Actions
      BY AdvancedType
    <3>3. /\ e.op \notin disarmed[e.actor]
          /\ verdict' = Strongest(acts) /\ disarmed' = Apply(e.actor, acts)
      BY <2>3, TrackUnfolds
    <3> HIDE DEF acts
    <3>4. /\ Deprived(acts) \in SUBSET Ops
          /\ Deprived(acts) # {} => verdict' = Disarm
          /\ verdict' \in Verdicts
      BY <3>1, <3>2, <3>3, ApplyType DEF IInv
    <3>5. disarmed' = [disarmed EXCEPT ![e.actor] = @ \union Deprived(acts)]
      BY <3>3 DEF Apply
    <3>6. D!Verdicts = Verdicts /\ D!Disarm = Disarm
      BY DEF D!Verdicts, Verdicts, D!Ignore, Ignore, D!Disarm, Disarm
    <3> QED
      BY <3>3, <3>4, <3>5, <3>6 DEF D!Judge
  <2>4. CASE UNCHANGED baseVars
    BY <2>4 DEF baseVars, D!detectorVars
  <2> QED
    BY <2>1, <2>2, <2>3, <2>4 DEF Next, OnEvent, D!Next
<1> QED
  BY <1>1, <1>2, Inductive, PTL DEF Spec, ImplementsDetector, D!Spec
=============================================================================
