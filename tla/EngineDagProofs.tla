--------------------------- MODULE EngineDagProofs ---------------------------
(***************************************************************************)
(* What module EngineDag promises, for every rule set, every set of keys   *)
(* and every bound on the automata.                                        *)
(***************************************************************************)
EXTENDS CompiledEngine, FiniteSetTheorems, SequenceTheorems, WellFoundedInduction, TLAPS

(***************************************************************************)
(* Induction over a set of naturals, so that it can be used with any       *)
(* property by naming the set of the numbers that have it.                 *)
(***************************************************************************)
LEMMA SetInduction ==
    ASSUME NEW S, 0 \in S, \A n \in Nat : n \in S => n + 1 \in S
    PROVE  \A n \in Nat : n \in S
<1> DEFINE Less == OpToRel(<, Nat)
           Missed == Nat \ S
<1>1. ASSUME Missed # {} PROVE FALSE
  <2>1. PICK x \in Missed : \A y \in Missed : <<y, x>> \notin Less
    <3>1. IsWellFoundedOn(Less, Nat)
      BY NatLessThanWellFounded
    <3> QED
      BY <1>1, <3>1, WFMin
  <2>2. x \in Nat /\ x \notin S /\ x # 0
    BY <2>1
  <2>3. x - 1 \in Nat /\ x = (x - 1) + 1
    BY <2>2
  <2>4. <<x - 1, x>> \in Less
    BY <2>2, <2>3 DEF OpToRel
  <2>5. x - 1 \in S
    BY <2>1, <2>3, <2>4
  <2>6. (x - 1) + 1 \in S
    BY <2>3, <2>5
  <2> QED
    BY <2>2, <2>3, <2>6
<1> QED
  BY <1>1
-----------------------------------------------------------------------------
\* g is the function that Tried defines by recursion, over the first n steps.
IsTried(g, n, p, d, e) ==
    g = [i \in 0 .. n |-> IF i = 0 THEN d ELSE Try(Patterns[p][i], g[i-1], e)]

(***************************************************************************)
(* The recursive definition of Tried has a solution, however long the      *)
(* pattern is.                                                             *)
(***************************************************************************)
LEMMA TriedExists ==
    ASSUME NEW p, NEW d, NEW e
    PROVE  \A n \in Nat : \E g : IsTried(g, n, p, d, e)
<1> DEFINE S == {n \in Nat : \E g : IsTried(g, n, p, d, e)}
<1>1. 0 \in S
  <2>1. IsTried([i \in 0 .. 0 |-> d], 0, p, d, e)
    BY DEF IsTried
  <2> QED
    BY <2>1
<1>2. ASSUME NEW n \in Nat, n \in S PROVE n + 1 \in S
  <2>1. PICK g : IsTried(g, n, p, d, e)
    BY <1>2
  <2> DEFINE h == [i \in 0 .. n + 1 |->
                     IF i = n + 1 THEN Try(Patterns[p][n + 1], g[n], e) ELSE g[i]]
  <2>2. ASSUME NEW i \in 0 .. n + 1
        PROVE  h[i] = IF i = 0 THEN d ELSE Try(Patterns[p][i], h[i-1], e)
    <3>1. CASE i = 0
      BY <2>1, <3>1 DEF IsTried
    <3>2. CASE i \in 1 .. n
      <4>1. h[i] = g[i] /\ h[i-1] = g[i-1]
        BY <3>2
      <4>2. g[i] = Try(Patterns[p][i], g[i-1], e)
        BY <2>1, <3>2 DEF IsTried
      <4> QED
        BY <3>2, <4>1, <4>2
    <3>3. CASE i = n + 1
      BY <3>3
    <3> QED
      BY <3>1, <3>2, <3>3
  <2>3. IsTried(h, n + 1, p, d, e)
    <3> HIDE DEF h
    <3>1. h = [i \in 0 .. n + 1 |-> h[i]]
      BY DEF h
    <3> QED
      BY <2>2, <3>1 DEF IsTried
  <2> QED
    BY <2>3
<1>3. \A n \in Nat : n \in S
  BY <1>1, <1>2, SetInduction
<1> QED
  BY <1>3

LEMMA TriedUnfolds ==
    ASSUME NEW p, Len(Patterns[p]) \in Nat, NEW d, NEW e
    PROVE  IsTried(Tried(p, d, e), Len(Patterns[p]), p, d, e)
<1>1. \E g : IsTried(g, Len(Patterns[p]), p, d, e)
  BY TriedExists
<1>2. Tried(p, d, e) = CHOOSE g : IsTried(g, Len(Patterns[p]), p, d, e)
  BY DEF Tried, IsTried, Try
<1> QED
  BY <1>1, <1>2
-----------------------------------------------------------------------------
\* A mask that has a step only with everything the step requires.
Closed(p, d) ==
    \A j \in DOMAIN Patterns[p] :
        Patterns[p][j].bit \in d => Patterns[p][j].prereq \subseteq d

\* The masks an automaton of p may rest with.
Good(p) == {d \in SUBSET Bits : d # {} /\ Closed(p, d)}

LEMMA PatternsType ==
    ASSUME NEW p \in Pids
    PROVE  /\ Patterns[p] \in Seq(DagStep)
           /\ Len(Patterns[p]) \in Nat
           /\ DOMAIN Patterns[p] = 1 .. Len(Patterns[p])
           /\ \A i \in 1 .. Len(Patterns[p]) :
                /\ Patterns[p][i].bit \in Bits
                /\ Patterns[p][i].prereq \in SUBSET Bits
                /\ Patterns[p][i].action \in Actions
<1>1. Patterns[p] \in Seq(DagStep)
  BY PatternsAssumption DEF Pids
<1>2. \A i \in 1 .. Len(Patterns[p]) : Patterns[p][i] \in DagStep
  BY <1>1
<1> QED
  BY <1>1, <1>2 DEF DagStep

(***************************************************************************)
(* Trying a step keeps a mask a closed mask and loses no bit of it.        *)
(***************************************************************************)
LEMMA TryKeepsClosed ==
    ASSUME NEW p \in Pids, NEW i \in DOMAIN Patterns[p],
           NEW d \in SUBSET Bits, Closed(p, d), NEW e
    PROVE  /\ Try(Patterns[p][i], d, e) \in SUBSET Bits
           /\ d \subseteq Try(Patterns[p][i], d, e)
           /\ Closed(p, Try(Patterns[p][i], d, e))
<1> DEFINE step == Patterns[p][i]
<1>1. step.bit \in Bits
  BY PatternsType
<1>2. CASE CanCommit(step, d, e)
  <2>1. Try(step, d, e) = d \union {step.bit}
    BY <1>2 DEF Try
  <2>2. step.prereq \subseteq d
    BY <1>2 DEF CanCommit
  <2>3. \A j \in DOMAIN Patterns[p] : Patterns[p][j].bit = step.bit => j = i
    BY PatternsAssumption
  <2>4. Closed(p, d \union {step.bit})
    BY <2>2, <2>3 DEF Closed
  <2> QED
    BY <1>1, <2>1, <2>4
<1>3. CASE ~CanCommit(step, d, e)
  BY <1>3 DEF Try
<1> QED
  BY <1>2, <1>3

(***************************************************************************)
(* The masks of Tried grow from one step to the next, and stay closed.     *)
(***************************************************************************)
LEMMA TriedGrows ==
    ASSUME NEW p \in Pids, NEW d \in SUBSET Bits, Closed(p, d), NEW e
    PROVE  /\ \A i \in 0 .. Len(Patterns[p]) :
                /\ Tried(p, d, e)[i] \in SUBSET Bits
                /\ Closed(p, Tried(p, d, e)[i])
           /\ \A i \in 0 .. Len(Patterns[p]) : Tried(p, d, e)[i] \subseteq Progress(p, d, e)
           /\ d \subseteq Progress(p, d, e)
<1> DEFINE N == Len(Patterns[p])
           t == Tried(p, d, e)
           Fine == {i \in Nat : i <= N => t[i] \in SUBSET Bits /\ Closed(p, t[i])}
           Above == {j \in Nat : j <= N => \A i \in 0 .. j : t[i] \subseteq t[j]}
<1>1. N \in Nat /\ DOMAIN Patterns[p] = 1 .. N
  BY PatternsType
<1>2. t[0] = d
  BY <1>1, TriedUnfolds DEF IsTried
<1>3. \A i \in 1 .. N : t[i] = Try(Patterns[p][i], t[i-1], e)
  BY <1>1, TriedUnfolds DEF IsTried
<1> HIDE DEF t, N
<1>4. \A i \in Nat : i \in Fine
  <2>1. 0 \in Fine
    BY <1>2
  <2>2. ASSUME NEW i \in Nat, i \in Fine, i + 1 <= N PROVE i + 1 \in Fine
    <3>1. t[i] \in SUBSET Bits /\ Closed(p, t[i])
      BY <1>1, <2>2
    <3>2. t[i + 1] = Try(Patterns[p][i + 1], t[i], e)
      BY <1>1, <1>3, <2>2
    <3>3. i + 1 \in DOMAIN Patterns[p]
      BY <1>1, <2>2
    <3>4. /\ Try(Patterns[p][i + 1], t[i], e) \in SUBSET Bits
          /\ Closed(p, Try(Patterns[p][i + 1], t[i], e))
      BY <3>1, <3>3, TryKeepsClosed
    <3>5. t[i + 1] \in SUBSET Bits /\ Closed(p, t[i + 1])
      BY <3>2, <3>4
    <3> QED
      BY <3>5
  <2>3. \A i \in Nat : i \in Fine => i + 1 \in Fine
    BY <1>1, <2>2
  <2> QED
    BY <2>1, <2>3, SetInduction
<1>5. \A j \in Nat : j \in Above
  <2>1. 0 \in Above
    OBVIOUS
  <2>2. ASSUME NEW j \in Nat, j \in Above, j + 1 <= N PROVE j + 1 \in Above
    <3>1. t[j] \in SUBSET Bits /\ Closed(p, t[j])
      BY <1>1, <1>4, <2>2
    <3>2. t[j + 1] = Try(Patterns[p][j + 1], t[j], e)
      BY <1>1, <1>3, <2>2
    <3>3. j + 1 \in DOMAIN Patterns[p]
      BY <1>1, <2>2
    <3>4. t[j] \subseteq t[j + 1]
      BY <3>1, <3>2, <3>3, TryKeepsClosed
    <3>5. \A i \in 0 .. j : t[i] \subseteq t[j]
      BY <1>1, <2>2
    <3> QED
      BY <3>4, <3>5
  <2>3. \A j \in Nat : j \in Above => j + 1 \in Above
    BY <1>1, <2>2
  <2> QED
    BY <2>1, <2>3, SetInduction
<1>6. Progress(p, d, e) = t[N]
  BY DEF Progress, t, N
<1>7. \A i \in 0 .. N : t[i] \subseteq t[N]
  BY <1>1, <1>5
<1>8. d \subseteq t[N]
  BY <1>1, <1>2, <1>7
<1>9. \A i \in 0 .. N : t[i] \in SUBSET Bits /\ Closed(p, t[i])
  BY <1>1, <1>4
<1> QED
  BY <1>6, <1>7, <1>8, <1>9 DEF t, N

(***************************************************************************)
(* One event takes an automaton from a good mask, or from the empty mask a *)
(* matching root seeds, to a good mask that holds the old one.             *)
(***************************************************************************)
LEMMA ProgressGood ==
    ASSUME NEW p \in Pids, NEW e, NEW d,
           d \in Good(p) \/ (d = {} /\ Roots(p, e) # {})
    PROVE  Progress(p, d, e) \in Good(p) /\ d \subseteq Progress(p, d, e)
<1> DEFINE N == Len(Patterns[p])
           t == Tried(p, d, e)
<1>1. d \in SUBSET Bits /\ Closed(p, d)
  BY DEF Good, Closed
<1>2. N \in Nat /\ DOMAIN Patterns[p] = 1 .. N
  BY PatternsType
<1>3. Progress(p, d, e) = t[N]
  BY DEF Progress
<1>4. t[N] \in SUBSET Bits /\ Closed(p, t[N]) /\ d \subseteq t[N]
  BY <1>1, <1>2, <1>3, TriedGrows
<1>5. t[N] # {}
  <2>1. CASE d \in Good(p)
    BY <1>4, <2>1 DEF Good
  <2>2. CASE Roots(p, e) # {}
    <3>1. PICK i \in 1 .. N : Patterns[p][i].prereq = {} /\ Matches(Patterns[p][i], e)
      BY <1>2, <2>2 DEF Roots
    <3>2. t[i] = Try(Patterns[p][i], t[i-1], e)
      BY <1>2, TriedUnfolds DEF IsTried
    <3>3. Patterns[p][i].bit \in t[i]
      BY <3>1, <3>2 DEF Try, CanCommit
    <3>4. t[i] \subseteq t[N]
      BY <1>1, <1>2, <1>3, TriedGrows
    <3> QED
      BY <3>3, <3>4
  <2> QED
    BY <2>1, <2>2
<1> QED
  BY <1>3, <1>4, <1>5 DEF Good
-----------------------------------------------------------------------------
\* The automata of a storyline, each with a good mask.
AutoLists ==
    {f \in [Pids -> Seq(SUBSET Bits)] : \A p \in Pids : f[p] \in Seq(Good(p))}

States == [line    : [Keys -> Keys \union {NoLine}],
           members : [Keys -> SUBSET Keys],
           autos   : [Keys -> AutoLists]]

\* The slot of a key that was never seen is not in use.
Owned(st) == \A s \in Keys : st.line[s] = NoLine => st.members[s] = {}

\* The inductive invariant of the storylines.
StorylinesInv(st) == st \in States /\ Consistent(st) /\ Owned(st)

LEMMA NoAutosType == NoAutos \in AutoLists
<1>1. \A p \in Pids : <<>> \in Seq(Good(p)) /\ <<>> \in Seq(SUBSET Bits)
  OBVIOUS
<1>2. NoAutos \in [Pids -> Seq(SUBSET Bits)]
  BY <1>1 DEF NoAutos
<1>3. \A p \in Pids : NoAutos[p] \in Seq(Good(p))
  BY <1>1 DEF NoAutos
<1> QED
  BY <1>2, <1>3 DEF AutoLists

LEMMA EmptyInv == StorylinesInv(Empty)
<1>1. Empty \in States
  BY NoAutosType DEF Empty, States
<1>2. Consistent(Empty)
  BY NoLineAssumption DEF Empty, Consistent
<1>3. Owned(Empty)
  BY DEF Empty, Owned
<1> QED
  BY <1>1, <1>2, <1>3 DEF StorylinesInv

(***************************************************************************)
(* resolve_line gives the key a storyline and disturbs no other.           *)
(***************************************************************************)
LEMMA ResolveInv ==
    ASSUME NEW st, StorylinesInv(st), NEW k \in Keys
    PROVE  /\ StorylinesInv(Resolve(st, k))
           /\ Resolve(st, k).line[k] \in Keys
           /\ \A x \in Keys : st.line[x] # NoLine => Resolve(st, k).line[x] = st.line[x]
<1>1. CASE st.line[k] # NoLine
  BY <1>1 DEF Resolve, StorylinesInv, States
<1>2. CASE st.line[k] = NoLine
  <2> DEFINE new == Resolve(st, k)
  <2>1. st \in States /\ Consistent(st) /\ Owned(st)
    BY DEF StorylinesInv
  <2>2. /\ new.line = [st.line EXCEPT ![k] = k]
        /\ new.members = [st.members EXCEPT ![k] = {k}]
        /\ new.autos = [st.autos EXCEPT ![k] = NoAutos]
        /\ new = [line |-> new.line, members |-> new.members, autos |-> new.autos]
    BY <1>2 DEF Resolve
  <2> HIDE DEF new
  <2>3. new \in States
    BY <2>1, <2>2, NoAutosType DEF States
  <2>4. \A x \in Keys : new.line[x] = IF x = k THEN k ELSE st.line[x]
    BY <2>1, <2>2 DEF States
  <2>5. \A s \in Keys : new.members[s] = IF s = k THEN {k} ELSE st.members[s]
    BY <2>1, <2>2 DEF States
  <2>6. \A x \in Keys : st.line[x] # k
    BY <1>2, <2>1 DEF Consistent, Owned
  <2>7. \A x \in Keys, s \in Keys : x \in new.members[s] <=> new.line[x] = s
    <3>1. SUFFICES ASSUME NEW x \in Keys, NEW s \in Keys
                   PROVE  x \in new.members[s] <=> new.line[x] = s
      OBVIOUS
    <3>2. x \in st.members[s] <=> st.line[x] = s
      BY <2>1 DEF Consistent
    <3>3. CASE s = k
      BY <2>4, <2>5, <2>6, <3>3
    <3>4. CASE s # k
      BY <1>2, <2>4, <2>5, <3>2, <3>4, NoLineAssumption
    <3> QED
      BY <3>3, <3>4
  <2>8. \A s \in Keys : new.members[s] = {} => new.autos[s] = NoAutos
    BY <2>1, <2>2, <2>5 DEF Consistent, States
  <2>9. Owned(new)
    BY <2>1, <2>4, <2>5, NoLineAssumption DEF Owned
  <2> QED
    BY <1>2, <2>3, <2>4, <2>7, <2>8, <2>9 DEF StorylinesInv, Consistent, new
<1> QED
  BY <1>1, <1>2

(***************************************************************************)
(* Folding one living storyline into another leaves a partition, and every *)
(* automaton a good mask.                                                  *)
(***************************************************************************)
LEMMA FoldInv ==
    ASSUME NEW st, StorylinesInv(st),
           NEW x \in Keys, NEW y \in Keys, x # y,
           st.members[x] # {}, st.members[y] # {}
    PROVE  /\ StorylinesInv(Fold(st, x, y))
           /\ \A k \in Keys : Fold(st, x, y).line[k] = IF st.line[k] = y THEN x ELSE st.line[k]
<1> DEFINE new == Fold(st, x, y)
           joined == [p \in Pids |-> st.autos[x][p] \o st.autos[y][p]]
<1>1. st \in States /\ Consistent(st) /\ Owned(st)
  BY DEF StorylinesInv
<1>2. /\ new.line = [k \in Keys |-> IF k \in st.members[y] THEN x ELSE st.line[k]]
      /\ new.members = [st.members EXCEPT ![x] = @ \union st.members[y], ![y] = {}]
      /\ new.autos = [st.autos EXCEPT ![x] = joined, ![y] = NoAutos]
      /\ new = [line |-> new.line, members |-> new.members, autos |-> new.autos]
  BY <1>1 DEF Fold, States
<1> HIDE DEF new
<1>3. joined \in AutoLists
  <2>1. st.autos[x] \in AutoLists /\ st.autos[y] \in AutoLists
    BY <1>1 DEF States
  <2>2. ASSUME NEW p \in Pids
        PROVE  /\ joined[p] \in Seq(Good(p))
               /\ joined[p] \in Seq(SUBSET Bits)
    <3>1. st.autos[x][p] \in Seq(Good(p)) /\ st.autos[y][p] \in Seq(Good(p))
      BY <2>1 DEF AutoLists
    <3>2. st.autos[x][p] \in Seq(SUBSET Bits) /\ st.autos[y][p] \in Seq(SUBSET Bits)
      BY <2>1 DEF AutoLists
    <3> QED
      BY <3>1, <3>2, ConcatProperties
  <2> QED
    BY <2>2 DEF AutoLists
<1> HIDE DEF joined
<1>4. new \in States
  <2>1. new.line \in [Keys -> Keys \union {NoLine}]
    BY <1>1, <1>2 DEF States
  <2>2. new.members \in [Keys -> SUBSET Keys]
    BY <1>1, <1>2 DEF States
  <2>3. new.autos \in [Keys -> AutoLists]
    BY <1>1, <1>2, <1>3, NoAutosType DEF States
  <2> QED
    BY <1>2, <2>1, <2>2, <2>3 DEF States
<1>5. \A k \in Keys : new.line[k] = IF st.line[k] = y THEN x ELSE st.line[k]
  <2>1. \A k \in Keys : k \in st.members[y] <=> st.line[k] = y
    BY <1>1 DEF Consistent
  <2>2. \A k \in Keys : new.line[k] = IF k \in st.members[y] THEN x ELSE st.line[k]
    BY <1>2
  <2> QED
    BY <2>1, <2>2
<1>6. \A s \in Keys : new.members[s] = IF s = y THEN {}
                                       ELSE IF s = x THEN st.members[x] \union st.members[y]
                                       ELSE st.members[s]
  BY <1>1, <1>2 DEF States
<1>7. \A k \in Keys, s \in Keys : k \in new.members[s] <=> new.line[k] = s
  <2>1. SUFFICES ASSUME NEW k \in Keys, NEW s \in Keys
                 PROVE  k \in new.members[s] <=> new.line[k] = s
    OBVIOUS
  <2>2. \A z \in Keys : k \in st.members[z] <=> st.line[k] = z
    BY <1>1 DEF Consistent
  <2>3. CASE s = y
    BY <1>5, <1>6, <2>3
  <2>4. CASE s = x
    BY <1>5, <1>6, <2>2, <2>4
  <2>5. CASE s # x /\ s # y
    BY <1>5, <1>6, <2>2, <2>5
  <2> QED
    BY <2>3, <2>4, <2>5
<1>8. \A s \in Keys : new.members[s] = {} => new.autos[s] = NoAutos
  <2>1. SUFFICES ASSUME NEW s \in Keys, new.members[s] = {}
                 PROVE  new.autos[s] = NoAutos
    OBVIOUS
  <2>2. CASE s = y
    BY <1>1, <1>2, <2>2 DEF States
  <2>3. CASE s # y
    <3>1. s # x /\ st.members[s] = {}
      BY <1>6, <2>1, <2>3
    <3> QED
      BY <1>1, <1>2, <2>3, <3>1 DEF States, Consistent
  <2> QED
    BY <2>2, <2>3
<1>9. Owned(new)
  <2>1. SUFFICES ASSUME NEW s \in Keys, new.line[s] = NoLine
                 PROVE  new.members[s] = {}
    BY DEF Owned
  <2>2. st.line[s] = NoLine
    BY <1>5, <2>1, NoLineAssumption
  <2>3. st.members[s] = {}
    BY <1>1, <2>2 DEF Owned
  <2> QED
    BY <1>6, <2>3
<1> QED
  BY <1>1, <1>4, <1>5, <1>7, <1>8, <1>9 DEF StorylinesInv, Consistent, new

(***************************************************************************)
(* After unify_storyline actor and object have one storyline, and the      *)
(* storylines are a partition again.                                       *)
(***************************************************************************)
LEMMA UnifyInv ==
    ASSUME NEW st, StorylinesInv(st), NEW a \in Keys, NEW o \in Keys
    PROVE  /\ StorylinesInv(Unify(st, a, o))
           /\ Unify(st, a, o).line[a] \in Keys
           /\ Unify(st, a, o).line[o] = Unify(st, a, o).line[a]
<1> DEFINE one  == Resolve(st, a)
           both == Resolve(one, o)
           x == both.line[a]
           y == both.line[o]
<1>1. StorylinesInv(one) /\ one.line[a] \in Keys
  BY ResolveInv
<1>2. StorylinesInv(both) /\ y \in Keys /\ x \in Keys
  BY <1>1, ResolveInv, NoLineAssumption
<1>3. Unify(st, a, o) = IF x = y THEN both ELSE Merge(both, x, y)
  BY DEF Unify
<1> HIDE DEF both
<1>4. CASE x = y
  BY <1>2, <1>3, <1>4
<1>5. CASE x # y
  <2>1. both.members[x] # {} /\ both.members[y] # {}
    BY <1>2 DEF StorylinesInv, Consistent
  <2>2. /\ StorylinesInv(Fold(both, x, y))
        /\ Fold(both, x, y).line[a] = x
        /\ Fold(both, x, y).line[o] = x
    BY <1>2, <1>5, <2>1, FoldInv
  <2>3. /\ StorylinesInv(Fold(both, y, x))
        /\ Fold(both, y, x).line[a] = y
        /\ Fold(both, y, x).line[o] = y
    BY <1>2, <1>5, <2>1, FoldInv
  <2>4. Unify(st, a, o) \in {Fold(both, x, y), Fold(both, y, x)}
    BY <1>3, <1>5 DEF Merge
  <2> QED
    BY <1>2, <2>2, <2>3, <2>4
<1> QED
  BY <1>4, <1>5
-----------------------------------------------------------------------------
\* What the storylines of a state are, and what Track makes of them before it
\* advances.
Now == [line |-> line, members |-> members, autos |-> autos]
Joined(e) == Unify(Now, e.actor, e.object)
Home(e) == Joined(e).line[e.actor]
Seeded(e) == [p \in Pids |-> Joined(e).autos[Home(e)][p] \o Seeds(p, e)]

(***************************************************************************)
(* The inductive invariant.  It is stronger than the properties of the     *)
(* runs by Owned: a merge could otherwise revive the slot of a key that    *)
(* resolve_line has not seen yet.                                          *)
(***************************************************************************)
IInv ==
    /\ StorylinesInv(Now)
    /\ disarmed \in [Keys -> SUBSET Ops]
    /\ verdict \in Verdicts

LEMMA SeedsType ==
    ASSUME NEW p \in Pids, NEW e
    PROVE  /\ Seeds(p, e) \in Seq(SUBSET Bits)
           /\ \A i \in DOMAIN Seeds(p, e) : Seeds(p, e)[i] = {} /\ Roots(p, e) # {}
<1>1. IsFiniteSet(DOMAIN Patterns[p])
  <2>1. Len(Patterns[p]) \in Nat /\ DOMAIN Patterns[p] = 1 .. Len(Patterns[p])
    BY PatternsType
  <2>2. 1 \in Int /\ Len(Patterns[p]) \in Int
    BY <2>1
  <2>3. IsFiniteSet(1 .. Len(Patterns[p]))
    BY <2>2, FS_Interval, Zenon
  <2> QED
    BY <2>1, <2>3
<1>2. IsFiniteSet(Roots(p, e))
  BY <1>1, FS_Subset DEF Roots
<1>3. Cardinality(Roots(p, e)) \in Nat
  BY <1>2, FS_CardinalityType
<1>4. Roots(p, e) = {} => Cardinality(Roots(p, e)) = 0
  BY FS_EmptySet
<1> QED
  BY <1>3, <1>4 DEF Seeds

(***************************************************************************)
(* advance: part (a) seeds nothing that part (b) leaves empty.             *)
(***************************************************************************)
LEMMA AdvancedType ==
    ASSUME IInv, NEW e \in Event
    PROVE  /\ StorylinesInv(Joined(e)) /\ Home(e) \in Keys
           /\ Joined(e).members[Home(e)] # {}
           /\ \A p \in Pids : Seeded(e)[p] \in Seq(SUBSET Bits)
           /\ \A p \in Pids : \A i \in DOMAIN Seeded(e)[p] :
                 \/ Seeded(e)[p][i] \in Good(p)
                 \/ Seeded(e)[p][i] = {} /\ Roots(p, e) # {}
           /\ Advanced(Seeded(e), e) \in AutoLists
<1>1. e.actor \in Keys /\ e.object \in Keys
  BY DEF Event
<1>2. StorylinesInv(Joined(e)) /\ Home(e) \in Keys
  BY <1>1, UnifyInv DEF IInv, Joined, Home
<1>3. Joined(e).members[Home(e)] # {}
  BY <1>1, <1>2 DEF StorylinesInv, Consistent, Home
<1>4. ASSUME NEW p \in Pids
      PROVE  /\ Seeded(e)[p] \in Seq(SUBSET Bits)
             /\ \A i \in DOMAIN Seeded(e)[p] :
                  \/ Seeded(e)[p][i] \in Good(p)
                  \/ Seeded(e)[p][i] = {} /\ Roots(p, e) # {}
  <2> DEFINE old == Joined(e).autos[Home(e)][p]
  <2>1. old \in Seq(SUBSET Bits) /\ old \in Seq(Good(p))
    BY <1>2 DEF StorylinesInv, States, AutoLists
  <2>2. Seeded(e)[p] = old \o Seeds(p, e)
    BY DEF Seeded
  <2> HIDE DEF old
  <2>3. /\ Seeded(e)[p] \in Seq(SUBSET Bits)
        /\ Len(Seeded(e)[p]) = Len(old) + Len(Seeds(p, e))
        /\ \A i \in 1 .. Len(old) + Len(Seeds(p, e)) :
             Seeded(e)[p][i] = IF i <= Len(old) THEN old[i] ELSE Seeds(p, e)[i - Len(old)]
    BY <2>1, <2>2, SeedsType, ConcatProperties
  <2>4. ASSUME NEW i \in DOMAIN Seeded(e)[p]
        PROVE  \/ Seeded(e)[p][i] \in Good(p)
               \/ Seeded(e)[p][i] = {} /\ Roots(p, e) # {}
    <3>1. i \in 1 .. Len(old) + Len(Seeds(p, e)) /\ Len(old) \in Nat /\ Len(Seeds(p, e)) \in Nat
      BY <2>1, <2>3, <2>4, SeedsType
    <3>2. CASE i <= Len(old)
      BY <2>1, <2>3, <3>1, <3>2
    <3>3. CASE i > Len(old)
      <4>1. i - Len(old) \in DOMAIN Seeds(p, e)
        BY <3>1, <3>3, SeedsType
      <4> QED
        BY <2>3, <3>1, <3>3, <4>1, SeedsType
    <3> QED
      BY <3>1, <3>2, <3>3
  <2> QED
    BY <2>3, <2>4
<1>5. Advanced(Seeded(e), e) \in AutoLists
  <2> DEFINE adv == Advanced(Seeded(e), e)
  <2>1. ASSUME NEW p \in Pids
        PROVE  adv[p] \in Seq(Good(p)) /\ adv[p] \in Seq(SUBSET Bits)
    <3>1. adv[p] = [i \in 1 .. Len(Seeded(e)[p]) |-> Progress(p, Seeded(e)[p][i], e)]
      BY <1>4 DEF Advanced
    <3>2. \A i \in 1 .. Len(Seeded(e)[p]) : Progress(p, Seeded(e)[p][i], e) \in Good(p)
      BY <1>4, ProgressGood
    <3>3. Len(Seeded(e)[p]) \in Nat
      BY <1>4
    <3>4. \A d \in Good(p) : d \in SUBSET Bits
      BY DEF Good
    <3> QED
      BY <3>1, <3>2, <3>3, <3>4
  <2>2. adv = [p \in Pids |-> adv[p]]
    BY DEF Advanced
  <2> QED
    BY <2>1, <2>2 DEF AutoLists
<1> QED
  BY <1>2, <1>3, <1>4, <1>5
-----------------------------------------------------------------------------
LEMMA ActivatedType ==
    ASSUME NEW e
    PROVE  Activated(Seeded(e), e) \subseteq Actions
<1>1. ASSUME NEW p \in Pids, NEW i \in DOMAIN Patterns[p]
      PROVE  Patterns[p][i].action \in Actions
  BY PatternsType
<1>2. \A p \in Pids : \A d : Fired(p, d, e) \subseteq Actions
  BY <1>1 DEF Fired
<1> QED
  BY <1>2 DEF Activated

LEMMA ApplyType ==
    ASSUME disarmed \in [Keys -> SUBSET Ops], NEW k \in Keys, NEW acts \in SUBSET Actions
    PROVE  /\ Deprived(acts) \in SUBSET Ops
           /\ Apply(k, acts) \in [Keys -> SUBSET Ops]
           /\ \A x \in Keys : disarmed[x] \subseteq Apply(k, acts)[x]
           /\ Deprived(acts) # {} => Strongest(acts) = Disarm
           /\ Strongest(acts) \in Verdicts
<1>1. Deprived(acts) \in SUBSET Ops
  BY DEF Deprived, Actions
<1>2. Deprived(acts) # {} => Strongest(acts) = Disarm
  BY DEF Deprived, Strongest
<1>3. Strongest(acts) \in Verdicts
  BY DEF Strongest, Verdicts, Ignore, Inspect, Block, Disarm
<1> QED
  BY <1>1, <1>2, <1>3 DEF Apply

\* Track, with the names of this module for what it computes.
LEMMA TrackUnfolds ==
    ASSUME NEW e, Track(e)
    PROVE  /\ e.op \notin disarmed[e.actor]
           /\ line' = Joined(e).line
           /\ members' = Joined(e).members
           /\ autos' = [Joined(e).autos EXCEPT ![Home(e)] = Advanced(Seeded(e), e)]
           /\ verdict' = Strongest(Activated(Seeded(e), e))
           /\ disarmed' = Apply(e.actor, Activated(Seeded(e), e))
  BY DEF Track, Seeded, Home, Joined, Now

LEMMA InitInv == Init => IInv
<1> SUFFICES ASSUME Init PROVE IInv
  OBVIOUS
<1>1. Now = Empty
  BY DEF Init, Now, Empty
<1> QED
  BY <1>1, EmptyInv DEF Init, IInv, D!Init, Verdicts, Ignore, D!Ignore, Disarm

LEMMA TrackInv ==
    ASSUME IInv, NEW e \in Event, Track(e)
    PROVE  IInv'
<1>1. /\ StorylinesInv(Joined(e)) /\ Home(e) \in Keys
      /\ Joined(e).members[Home(e)] # {}
      /\ Advanced(Seeded(e), e) \in AutoLists
  BY AdvancedType
<1>2. /\ line' = Joined(e).line
      /\ members' = Joined(e).members
      /\ autos' = [Joined(e).autos EXCEPT ![Home(e)] = Advanced(Seeded(e), e)]
  BY TrackUnfolds
<1>3. Now' \in States
  BY <1>1, <1>2 DEF Now, StorylinesInv, States
<1>4. Consistent(Now')
  <2>1. \A k \in Keys, s \in Keys : k \in members'[s] <=> line'[k] = s
    BY <1>1, <1>2 DEF StorylinesInv, Consistent
  <2>2. ASSUME NEW s \in Keys, members'[s] = {} PROVE autos'[s] = NoAutos
    BY <1>1, <1>2, <2>2 DEF StorylinesInv, Consistent, States
  <2> QED
    BY <2>1, <2>2 DEF Consistent, Now
<1>5. Owned(Now')
  BY <1>1, <1>2 DEF StorylinesInv, Owned, Now
<1>6. disarmed' \in [Keys -> SUBSET Ops] /\ verdict' \in Verdicts
  <2>1. e.actor \in Keys
    BY DEF Event
  <2> QED
    BY <2>1, TrackUnfolds, ActivatedType, ApplyType DEF IInv
<1> QED
  BY <1>3, <1>4, <1>5, <1>6 DEF IInv, StorylinesInv, States, Consistent, Owned, Now

LEMMA NextInv == IInv /\ [Next]_vars => IInv'
<1> SUFFICES ASSUME IInv, [Next]_vars PROVE IInv'
  OBVIOUS
<1>1. ASSUME NEW e \in Event, Deny(e) PROVE IInv'
  BY <1>1 DEF IInv, Deny, Now, StorylinesInv, States, Consistent, Owned, Verdicts, Block, Ignore, Disarm
<1>2. ASSUME NEW e \in Event, Track(e) PROVE IInv'
  BY <1>2, TrackInv
<1>3. CASE UNCHANGED vars
  BY <1>3 DEF IInv, vars, Now, StorylinesInv, States, Consistent, Owned
<1> QED
  BY <1>1, <1>2, <1>3 DEF Next, OnEvent

THEOREM Invariance == Spec => []IInv
  BY InitInv, NextInv, PTL DEF Spec
-----------------------------------------------------------------------------
(***************************************************************************)
(* Every state of the reference engine is well typed.                      *)
(***************************************************************************)
THEOREM TypeCorrect == Spec => []TypeOK
<1>1. IInv => TypeOK
  BY DEF IInv, StorylinesInv, States, Now, AutoLists, TypeOK
<1> QED
  BY <1>1, Invariance, PTL

(***************************************************************************)
(* LINE and the member sets stay one partition, whatever merges come.      *)
(***************************************************************************)
THEOREM ConsistencyCorrect == Spec => []StorylinesConsistent
<1>1. IInv => StorylinesConsistent
  BY DEF IInv, StorylinesInv, Now, StorylinesConsistent
<1> QED
  BY <1>1, Invariance, PTL

(***************************************************************************)
(* No automaton gets ahead of the partial order of its pattern.            *)
(***************************************************************************)
THEOREM PrereqCorrect == Spec => []PrereqClosed
<1>1. IInv => PrereqClosed
  <2> SUFFICES ASSUME IInv, NEW s \in Keys, NEW p \in Pids, NEW i \in DOMAIN autos[s][p]
               PROVE  Closed(p, autos[s][p][i])
    BY DEF PrereqClosed, Closed
  <2>1. autos[s][p] \in Seq(Good(p))
    BY DEF IInv, StorylinesInv, States, Now, AutoLists
  <2>2. autos[s][p][i] \in Good(p)
    BY <2>1
  <2> QED
    BY <2>2 DEF Good
<1> QED
  BY <1>1, Invariance, PTL

(***************************************************************************)
(* No automaton is at rest with no progress, so the seeds are never wasted.*)
(***************************************************************************)
THEOREM NoIdleCorrect == Spec => []NoIdleAutomaton
<1>1. IInv => NoIdleAutomaton
  <2> SUFFICES ASSUME IInv, NEW s \in Keys, NEW p \in Pids, NEW i \in DOMAIN autos[s][p]
               PROVE  autos[s][p][i] # {}
    BY DEF NoIdleAutomaton
  <2>1. autos[s][p] \in Seq(Good(p))
    BY DEF IInv, StorylinesInv, States, Now, AutoLists
  <2>2. autos[s][p][i] \in Good(p)
    BY <2>1
  <2> QED
    BY <2>2 DEF Good
<1> QED
  BY <1>1, Invariance, PTL

(***************************************************************************)
(* The reference engine implements the contract of Detector.               *)
(***************************************************************************)
THEOREM RefinementCorrect == Spec => ImplementsDetector
<1>1. Init => D!Init
  BY DEF Init
<1>2. IInv /\ [Next]_vars => [D!Next]_(D!detectorVars)
  <2> SUFFICES ASSUME IInv, [Next]_vars PROVE [D!Next]_(D!detectorVars)
    OBVIOUS
  <2>1. ASSUME NEW e \in Event, Deny(e) PROVE D!Deny(e)
    BY <2>1 DEF Deny, D!Deny, Block, D!Block
  <2>2. ASSUME NEW e \in Event, Track(e) PROVE D!Judge(e)
    <3> DEFINE taken == Deprived(Activated(Seeded(e), e))
    <3>1. e.actor \in Keys
      BY DEF Event
    <3>2. /\ taken \in SUBSET Ops
          /\ verdict' \in Verdicts
          /\ taken # {} => verdict' = Disarm
      BY <2>2, <3>1, TrackUnfolds, ActivatedType, ApplyType DEF IInv
    <3>3. disarmed' = [disarmed EXCEPT ![e.actor] = @ \union taken]
      BY <2>2, TrackUnfolds DEF Apply
    <3>4. e.op \notin disarmed[e.actor]
      BY <2>2, TrackUnfolds
    <3> QED
      BY <3>2, <3>3, <3>4 DEF D!Judge, D!Verdicts, Verdicts, D!Disarm, Disarm, D!Ignore, Ignore
  <2>3. CASE UNCHANGED vars
    BY <2>3 DEF vars, D!detectorVars
  <2>4. D!Event = Event
    BY DEF D!Event, Event
  <2> QED
    BY <2>1, <2>2, <2>3, <2>4 DEF Next, OnEvent, D!Next
<1> QED
  BY <1>1, <1>2, Invariance, PTL DEF Spec, ImplementsDetector, D!Spec
-----------------------------------------------------------------------------
(***************************************************************************)
(* A step that fires is in the mask afterwards, with all it requires.      *)
(***************************************************************************)
LEMMA FiredIsEvidence ==
    ASSUME NEW p \in Pids, NEW e, NEW d \in SUBSET Bits, Closed(p, d),
           NEW action \in Fired(p, d, e)
    PROVE  \E j \in DOMAIN Patterns[p] :
             /\ Patterns[p][j].action = action
             /\ {Patterns[p][j].bit} \union Patterns[p][j].prereq \subseteq Progress(p, d, e)
<1> DEFINE t == Tried(p, d, e)
           N == Len(Patterns[p])
<1>1. N \in Nat /\ DOMAIN Patterns[p] = 1 .. N
  BY PatternsType
<1>2. PICK j \in 1 .. N : /\ Patterns[p][j].action = action
                          /\ CanCommit(Patterns[p][j], t[j-1], e)
  BY <1>1 DEF Fired
<1>3. t[j] = Try(Patterns[p][j], t[j-1], e)
  BY <1>1, TriedUnfolds DEF IsTried
<1>4. Patterns[p][j].bit \in t[j] /\ Patterns[p][j].prereq \subseteq t[j]
  BY <1>2, <1>3 DEF Try, CanCommit
<1>5. t[j] \subseteq Progress(p, d, e)
  BY <1>1, TriedGrows
<1> QED
  BY <1>1, <1>2, <1>4, <1>5

(***************************************************************************)
(* Whoever loses an op loses it on evidence in its own storyline.          *)
(***************************************************************************)
THEOREM DisarmedOnEvidenceCorrect == Spec => DisarmedOnEvidence
<1>1. ASSUME IInv, Next, NEW k \in Keys, NEW op \in disarmed'[k] \ disarmed[k]
      PROVE  verdict' = Disarm /\ Convicts(k, op)'
  <2>1. PICK e \in Event : Track(e)
    BY <1>1 DEF Next, OnEvent, Deny
  <2> DEFINE acts == Activated(Seeded(e), e)
             adv == Advanced(Seeded(e), e)
  <2>2. e.actor \in Keys /\ acts \in SUBSET Actions
    BY ActivatedType DEF Event
  <2>3. disarmed' = Apply(e.actor, acts) /\ verdict' = Strongest(acts)
    BY <2>1, TrackUnfolds
  <2>4. k = e.actor /\ op \in Deprived(acts)
    BY <1>1, <2>2, <2>3 DEF Apply, IInv
  <2>5. verdict' = Disarm
    BY <1>1, <2>2, <2>3, <2>4, ApplyType DEF IInv
  <2>6. PICK action \in acts : action.kind = "disarm" /\ op \in action.ops
    BY <2>4 DEF Deprived
  <2>12. PICK p \in Pids :
              \E i \in DOMAIN Seeded(e)[p] : action \in Fired(p, Seeded(e)[p][i], e)
    BY <2>6 DEF Activated
  <2>7. PICK i \in DOMAIN Seeded(e)[p] : action \in Fired(p, Seeded(e)[p][i], e)
    BY <2>12
  <2>8. Seeded(e)[p][i] \in SUBSET Bits /\ Closed(p, Seeded(e)[p][i])
    BY <1>1, AdvancedType DEF Good, Closed
  <2>9. PICK j \in DOMAIN Patterns[p] :
             /\ Patterns[p][j].action = action
             /\ {Patterns[p][j].bit} \union Patterns[p][j].prereq
                  \subseteq Progress(p, Seeded(e)[p][i], e)
    BY <2>7, <2>8, FiredIsEvidence
  <2>10. autos'[line'[k]] = adv
    <3>1. line'[k] = Home(e)
      BY <2>1, <2>4, TrackUnfolds DEF Home
    <3>2. Joined(e).autos \in [Keys -> AutoLists] /\ Home(e) \in Keys
      BY <1>1, AdvancedType DEF StorylinesInv, States
    <3> QED
      BY <2>1, <3>1, <3>2, TrackUnfolds
  <2>11. i \in DOMAIN adv[p] /\ adv[p][i] = Progress(p, Seeded(e)[p][i], e)
    BY <2>7 DEF Advanced
  <2> QED
    BY <2>5, <2>6, <2>9, <2>10, <2>11 DEF Convicts
<1>2. IInv /\ [Next]_vars =>
        [\A k \in Keys : \A op \in disarmed'[k] \ disarmed[k] :
            verdict' = Disarm /\ Convicts(k, op)']_vars
  BY <1>1
<1> QED
  BY <1>2, Invariance, PTL DEF Spec, DisarmedOnEvidence
-----------------------------------------------------------------------------
\* a is a run of consecutive entries of b.
Embedded(a, b) ==
    \E shift \in Nat : \A i \in DOMAIN a : i + shift \in DOMAIN b /\ b[i + shift] = a[i]

\* Storyline s of st lives on in storyline t of new.
LivesOn(st, s, new, t) ==
    /\ st.members[s] \subseteq new.members[t]
    /\ \A p \in Pids : Embedded(st.autos[s][p], new.autos[t][p])

LEMMA EmbeddedItself == ASSUME NEW a, NEW S, a \in Seq(S) PROVE Embedded(a, a)
<1>1. \A i \in DOMAIN a : i + 0 \in DOMAIN a /\ a[i + 0] = a[i]
  OBVIOUS
<1> QED
  BY <1>1 DEF Embedded

LEMMA EmbeddedInConcat ==
    ASSUME NEW S, NEW a \in Seq(S), NEW b \in Seq(S)
    PROVE  Embedded(a, a \o b) /\ Embedded(b, a \o b)
<1>1. /\ Len(a) \in Nat /\ Len(b) \in Nat
      /\ DOMAIN a = 1 .. Len(a) /\ DOMAIN b = 1 .. Len(b)
      /\ DOMAIN (a \o b) = 1 .. Len(a) + Len(b)
      /\ \A i \in 1 .. Len(a) + Len(b) :
           (a \o b)[i] = IF i <= Len(a) THEN a[i] ELSE b[i - Len(a)]
  BY ConcatProperties
<1>2. \A i \in DOMAIN a : i + 0 \in DOMAIN (a \o b) /\ (a \o b)[i + 0] = a[i]
  BY <1>1
<1>3. \A i \in DOMAIN b : i + Len(a) \in DOMAIN (a \o b) /\ (a \o b)[i + Len(a)] = b[i]
  BY <1>1
<1> QED
  BY <1>1, <1>2, <1>3 DEF Embedded

LEMMA LivesOnItself ==
    ASSUME NEW st \in States, NEW s \in Keys,
           NEW new, NEW t, new.members[t] = st.members[s], new.autos[t] = st.autos[s]
    PROVE  LivesOn(st, s, new, t)
<1>1. \A p \in Pids : st.autos[s][p] \in Seq(SUBSET Bits)
  BY DEF States, AutoLists
<1> QED
  BY <1>1, EmbeddedItself DEF LivesOn

(***************************************************************************)
(* resolve_line touches no storyline that has a member.                    *)
(***************************************************************************)
LEMMA ResolveKeeps ==
    ASSUME NEW st, StorylinesInv(st), NEW x \in Keys, NEW k \in Keys, st.line[k] # NoLine
    PROVE  /\ Resolve(st, x).line[k] = st.line[k]
           /\ Resolve(st, x).members[st.line[k]] = st.members[st.line[k]]
           /\ Resolve(st, x).autos[st.line[k]] = st.autos[st.line[k]]
<1>1. CASE st.line[x] # NoLine
  BY <1>1 DEF Resolve
<1>2. CASE st.line[x] = NoLine
  <2>1. st.line[k] \in Keys /\ k \in st.members[st.line[k]]
    BY DEF StorylinesInv, States, Consistent
  <2>2. st.line[k] # x
    BY <1>2, <2>1 DEF StorylinesInv, Owned
  <2>3. x # k
    BY <1>2
  <2> QED
    BY <1>2, <2>1, <2>2, <2>3 DEF Resolve, StorylinesInv, States
<1> QED
  BY <1>1, <1>2

(***************************************************************************)
(* Fold carries both storylines over, one after the other.                 *)
(***************************************************************************)
LEMMA FoldKeeps ==
    ASSUME NEW st, StorylinesInv(st), NEW x \in Keys, NEW y \in Keys, x # y,
           NEW s \in Keys
    PROVE  LivesOn(st, s, Fold(st, x, y), IF s = y THEN x ELSE s)
<1> DEFINE new == Fold(st, x, y)
<1>1. st \in States
  BY DEF StorylinesInv
<1>2. /\ new.members = [st.members EXCEPT ![x] = @ \union st.members[y], ![y] = {}]
      /\ new.autos = [st.autos EXCEPT
                        ![x] = [p \in Pids |-> st.autos[x][p] \o st.autos[y][p]], ![y] = NoAutos]
  BY <1>1 DEF Fold, States
<1> HIDE DEF new
<1>3. new.members[x] = st.members[x] \union st.members[y]
  BY <1>1, <1>2 DEF States
<1>4. \A p \in Pids : new.autos[x][p] = st.autos[x][p] \o st.autos[y][p]
  <2>1. new.autos[x] = [p \in Pids |-> st.autos[x][p] \o st.autos[y][p]]
    <3> DEFINE joined == [p \in Pids |-> st.autos[x][p] \o st.autos[y][p]]
    <3> HIDE DEF joined
    <3>1. new.autos = [st.autos EXCEPT ![x] = joined, ![y] = NoAutos]
      BY <1>2 DEF joined
    <3>2. new.autos[x] = joined
      BY <1>1, <3>1 DEF States
    <3> QED
      BY <3>2 DEF joined
  <2> QED
    BY <2>1
<1>5. \A z \in Keys, p \in Pids : st.autos[z][p] \in Seq(SUBSET Bits)
  BY <1>1 DEF States, AutoLists
<1>6. \A p \in Pids : /\ Embedded(st.autos[x][p], new.autos[x][p])
                      /\ Embedded(st.autos[y][p], new.autos[x][p])
  BY <1>4, <1>5, EmbeddedInConcat
<1>7. CASE s \in {x, y}
  BY <1>3, <1>6, <1>7 DEF LivesOn, new
<1>8. CASE s \notin {x, y}
  <2>1. new.members[s] = st.members[s] /\ new.autos[s] = st.autos[s]
    BY <1>1, <1>2, <1>8 DEF States
  <2> QED
    BY <1>1, <1>8, <2>1, LivesOnItself DEF new
<1> QED
  BY <1>7, <1>8

(***************************************************************************)
(* A storyline lives on where unify_storyline says its keys are.           *)
(***************************************************************************)
LEMMA UnifyKeeps ==
    ASSUME NEW st, StorylinesInv(st), NEW a \in Keys, NEW o \in Keys,
           NEW k \in Keys, st.line[k] # NoLine
    PROVE  /\ Unify(st, a, o).line[k] \in Keys
           /\ LivesOn(st, st.line[k], Unify(st, a, o), Unify(st, a, o).line[k])
<1> DEFINE one  == Resolve(st, a)
           both == Resolve(one, o)
           x == both.line[a]
           y == both.line[o]
           s == st.line[k]
<1>1. StorylinesInv(one) /\ one.line[a] \in Keys /\ one.line[k] = s
  BY ResolveInv, ResolveKeeps
<1>2. StorylinesInv(both) /\ y \in Keys /\ x \in Keys
  BY <1>1, ResolveInv, NoLineAssumption
<1>3. both.line[k] = s /\ both.members[s] = st.members[s] /\ both.autos[s] = st.autos[s]
  BY <1>1, ResolveKeeps
<1>4. s \in Keys
  BY DEF StorylinesInv, States
<1>5. Unify(st, a, o) = IF x = y THEN both ELSE Merge(both, x, y)
  BY DEF Unify
<1> HIDE DEF both
<1>6. CASE x = y
  BY <1>3, <1>4, <1>5, <1>6, LivesOnItself DEF StorylinesInv
<1>7. CASE x # y
  <2>1. both.members[x] # {} /\ both.members[y] # {}
    BY <1>2 DEF StorylinesInv, Consistent
  <2>2. /\ Fold(both, x, y).line[k] = IF s = y THEN x ELSE s
        /\ Fold(both, y, x).line[k] = IF s = x THEN y ELSE s
    BY <1>2, <1>3, <1>7, <2>1, FoldInv
  <2>3. /\ LivesOn(both, s, Fold(both, x, y), Fold(both, x, y).line[k])
        /\ LivesOn(both, s, Fold(both, y, x), Fold(both, y, x).line[k])
    BY <1>2, <1>4, <1>7, <2>2, FoldKeeps
  <2>4. Unify(st, a, o) \in {Fold(both, x, y), Fold(both, y, x)}
    BY <1>5, <1>7 DEF Merge
  <2>5. LivesOn(both, s, Unify(st, a, o), Unify(st, a, o).line[k])
    BY <2>3, <2>4
  <2>6. Unify(st, a, o).line[k] \in Keys
    BY <1>2, <1>4, <2>2, <2>4
  <2> QED
    BY <1>3, <2>5, <2>6 DEF LivesOn
<1> QED
  BY <1>6, <1>7

(***************************************************************************)
(* advance keeps every automaton in its place, no less advanced.           *)
(***************************************************************************)
LEMMA AdvancedKeeps ==
    ASSUME IInv, NEW e \in Event, NEW p \in Pids
    PROVE  LET old == Joined(e).autos[Home(e)][p]
               new == Advanced(Seeded(e), e)[p]
           IN  \A i \in DOMAIN old : i \in DOMAIN new /\ old[i] \subseteq new[i]
<1> DEFINE old == Joined(e).autos[Home(e)][p]
           new == Advanced(Seeded(e), e)[p]
<1>1. old \in Seq(SUBSET Bits) /\ Seeds(p, e) \in Seq(SUBSET Bits)
  BY AdvancedType, SeedsType DEF StorylinesInv, States, AutoLists
<1>2. Seeded(e)[p] = old \o Seeds(p, e)
  BY DEF Seeded
<1>3. DOMAIN new = DOMAIN Seeded(e)[p]
  BY DEF Advanced
<1>4. \A i \in DOMAIN new : new[i] = Progress(p, Seeded(e)[p][i], e)
  BY DEF Advanced
<1>5. \A i \in DOMAIN Seeded(e)[p] : Seeded(e)[p][i] \subseteq Progress(p, Seeded(e)[p][i], e)
  BY AdvancedType, ProgressGood
<1> HIDE DEF old, new
<1>6. \A i \in DOMAIN old : i \in DOMAIN Seeded(e)[p] /\ Seeded(e)[p][i] = old[i]
  BY <1>1, <1>2, ConcatProperties
<1>7. \A i \in DOMAIN old : i \in DOMAIN new /\ old[i] \subseteq new[i]
  BY <1>3, <1>4, <1>5, <1>6
<1> QED
  BY <1>7 DEF old, new

(***************************************************************************)
(* Merging storylines loses no evidence.                                   *)
(***************************************************************************)
THEOREM EvidenceKeptCorrect == Spec => EvidenceKept
<1>1. ASSUME IInv, Next, NEW k \in Keys, line[k] # NoLine
      PROVE  Keeps(line[k], line'[k])
  <2> DEFINE s == line[k]
  <2>1. PICK e \in Event : Deny(e) \/ Track(e)
    BY <1>1 DEF Next, OnEvent
  <2>2. s \in Keys /\ \A p \in Pids : autos[s][p] \in Seq(SUBSET Bits)
    BY <1>1 DEF IInv, StorylinesInv, States, Now, AutoLists
  <2>3. CASE Deny(e)
    <3>1. UNCHANGED <<line, members, autos>>
      BY <2>3 DEF Deny
    <3>2. \A p \in Pids : /\ 0 \in 0 .. Len(autos'[s][p])
                          /\ \A i \in DOMAIN autos[s][p] :
                               /\ i + 0 \in DOMAIN autos'[s][p]
                               /\ autos[s][p][i] \subseteq autos'[s][p][i + 0]
      BY <2>2, <3>1
    <3> QED
      BY <3>1, <3>2 DEF Keeps
  <2>4. CASE Track(e)
    <3> DEFINE t == line'[k]
    <3>1. /\ line' = Joined(e).line /\ members' = Joined(e).members
          /\ autos' = [Joined(e).autos EXCEPT ![Home(e)] = Advanced(Seeded(e), e)]
      BY <2>4, TrackUnfolds
    <3>2. LivesOn(Now, s, Joined(e), t)
      <4>1. e.actor \in Keys /\ e.object \in Keys
        BY DEF Event
      <4>2. StorylinesInv(Now) /\ Now.line[k] = s /\ s # NoLine
        BY <1>1 DEF IInv, Now
      <4> QED
        BY <3>1, <4>1, <4>2, UnifyKeeps DEF Joined
    <3>3. members[s] \subseteq members'[t]
      BY <3>1, <3>2 DEF LivesOn, Now
    <3>4. Joined(e) \in States /\ Home(e) \in Keys /\ Advanced(Seeded(e), e) \in AutoLists
      BY <1>1, AdvancedType DEF StorylinesInv
    <3>5. t \in Keys
      BY <2>4, <3>1, UnifyKeeps, <1>1 DEF IInv, Now, Joined, Event
    <3>6. ASSUME NEW p \in Pids
          PROVE  \E shift \in 0 .. Len(autos'[t][p]) : \A i \in DOMAIN autos[s][p] :
                    /\ i + shift \in DOMAIN autos'[t][p]
                    /\ autos[s][p][i] \subseteq autos'[t][p][i + shift]
      <4> DEFINE a == autos[s][p]
                 b == Joined(e).autos[t][p]
                 c == autos'[t][p]
      <4>1. \A i \in DOMAIN b : i \in DOMAIN c /\ b[i] \subseteq c[i]
        <5>1. CASE t = Home(e)
          BY <1>1, <3>1, <3>4, <5>1, AdvancedKeeps DEF States
        <5>2. CASE t # Home(e)
          BY <3>1, <3>4, <3>5, <5>2 DEF States
        <5> QED
          BY <5>1, <5>2
      <4>2. PICK shift \in Nat : \A i \in DOMAIN a : i + shift \in DOMAIN b /\ b[i + shift] = a[i]
        BY <3>2 DEF LivesOn, Embedded, Now
      <4>3. \A i \in DOMAIN a : i + shift \in DOMAIN c /\ a[i] \subseteq c[i + shift]
        BY <4>1, <4>2
      <4>4. c \in Seq(SUBSET Bits)
        BY <3>1, <3>4, <3>5 DEF States, AutoLists
      <4>5. a \in Seq(SUBSET Bits)
        BY <2>2
      <4> HIDE DEF a, c
      <4>6. CASE a = <<>>
        <5>1. 0 \in 0 .. Len(c) /\ \A i \in DOMAIN a : i + 0 \in DOMAIN c /\ a[i] \subseteq c[i + 0]
          BY <4>4, <4>6
        <5> QED
          BY <5>1 DEF a, c
      <4>7. CASE a # <<>>
        <5>1. 1 \in DOMAIN a
          BY <4>5, <4>7
        <5>2. shift \in 0 .. Len(c)
          BY <4>3, <4>4, <5>1
        <5> QED
          BY <4>3, <5>2 DEF a, c
      <4> QED
        BY <4>6, <4>7
    <3> QED
      BY <3>3, <3>6 DEF Keeps
  <2> QED
    BY <2>1, <2>3, <2>4
<1>2. IInv /\ [Next]_vars =>
        [\A k \in Keys : line[k] # NoLine => Keeps(line[k], line'[k])]_vars
  BY <1>1
<1> QED
  BY <1>2, Invariance, PTL DEF Spec, EvidenceKept
-----------------------------------------------------------------------------
(***************************************************************************)
(* An automaton that holds more, and an event that carries more tags, end  *)
(* up with more: no step excludes another.                                 *)
(***************************************************************************)
LEMMA ProgressMonotone ==
    ASSUME NEW p \in Pids, NEW c, NEW d, c \subseteq d,
           NEW f, NEW e, f.op = e.op, f.ttps \subseteq e.ttps
    PROVE  Progress(p, c, f) \subseteq Progress(p, d, e)
<1> DEFINE N == Len(Patterns[p])
           s == Tried(p, c, f)
           t == Tried(p, d, e)
           Below == {i \in Nat : i <= N => s[i] \subseteq t[i]}
<1>1. N \in Nat
  BY PatternsType
<1>2. s[0] = c /\ t[0] = d
  BY <1>1, TriedUnfolds DEF IsTried
<1>3. \A i \in 1 .. N : /\ s[i] = Try(Patterns[p][i], s[i-1], f)
                        /\ t[i] = Try(Patterns[p][i], t[i-1], e)
  BY <1>1, TriedUnfolds DEF IsTried
<1>4. Progress(p, c, f) = s[N] /\ Progress(p, d, e) = t[N]
  BY DEF Progress
<1> HIDE DEF s, t, N
<1>5. 0 \in Below
  BY <1>2
<1>6. ASSUME NEW i \in Nat, i \in Below PROVE i + 1 \in Below
  <2> SUFFICES ASSUME i + 1 <= N PROVE s[i + 1] \subseteq t[i + 1]
    OBVIOUS
  <2> DEFINE step == Patterns[p][i + 1]
  <2>1. s[i] \subseteq t[i]
    BY <1>1, <1>6
  <2>2. s[i + 1] = Try(step, s[i], f) /\ t[i + 1] = Try(step, t[i], e)
    BY <1>1, <1>3
  <2> HIDE DEF step
  <2>3. Matches(step, f) => Matches(step, e)
    BY DEF Matches
  <2>4. Try(step, s[i], f) \subseteq Try(step, t[i], e)
    BY <2>1, <2>3 DEF Try, CanCommit
  <2> QED
    BY <2>2, <2>4
<1>7. \A i \in Nat : i \in Below
  BY <1>5, <1>6, SetInduction
<1> QED
  BY <1>1, <1>4, <1>7

\* Both events match the same steps of pattern p.
MatchAlike(p, f, e) ==
    \A j \in DOMAIN Patterns[p] : Matches(Patterns[p][j], f) <=> Matches(Patterns[p][j], e)

(***************************************************************************)
(* Two events that match the same steps of a pattern are one to it.        *)
(***************************************************************************)
LEMMA TriedAlike ==
    ASSUME NEW p \in Pids, NEW f, NEW e, MatchAlike(p, f, e)
    PROVE  /\ \A d : Progress(p, d, f) = Progress(p, d, e)
           /\ \A d : Fired(p, d, f) = Fired(p, d, e)
           /\ Roots(p, f) = Roots(p, e)
<1> DEFINE N == Len(Patterns[p])
<1>1. N \in Nat /\ DOMAIN Patterns[p] = 1 .. N
  BY PatternsType
<1>2. ASSUME NEW d PROVE \A i \in 0 .. N : Tried(p, d, f)[i] = Tried(p, d, e)[i]
  <2> DEFINE s == Tried(p, d, f)
             t == Tried(p, d, e)
             Same == {i \in Nat : i <= N => s[i] = t[i]}
  <2>1. s[0] = d /\ t[0] = d
    BY <1>1, TriedUnfolds DEF IsTried
  <2>2. \A i \in 1 .. N : /\ s[i] = Try(Patterns[p][i], s[i-1], f)
                          /\ t[i] = Try(Patterns[p][i], t[i-1], e)
    BY <1>1, TriedUnfolds DEF IsTried
  <2>3. \A i \in 1 .. N : \A m : Try(Patterns[p][i], m, f) = Try(Patterns[p][i], m, e)
    BY <1>1 DEF Try, CanCommit, MatchAlike
  <2> HIDE DEF s, t, N
  <2>4. 0 \in Same
    BY <2>1
  <2>5. ASSUME NEW i \in Nat, i \in Same PROVE i + 1 \in Same
    <3> SUFFICES ASSUME i + 1 <= N PROVE s[i + 1] = t[i + 1]
      OBVIOUS
    <3>1. s[i] = t[i]
      BY <1>1, <2>5
    <3>2. s[i + 1] = Try(Patterns[p][i + 1], s[i], f) /\ t[i + 1] = Try(Patterns[p][i + 1], t[i], e)
      BY <1>1, <2>2
    <3>3. i + 1 \in 1 .. N
      BY <1>1
    <3> QED
      BY <2>3, <3>1, <3>2, <3>3
  <2>6. \A i \in Nat : i \in Same
    BY <2>4, <2>5, SetInduction
  <2> QED
    BY <1>1, <2>6 DEF s, t, N
<1>3. ASSUME NEW d PROVE Progress(p, d, f) = Progress(p, d, e)
  BY <1>1, <1>2 DEF Progress
<1>4. ASSUME NEW d PROVE Fired(p, d, f) = Fired(p, d, e)
  <2>1. \A j \in DOMAIN Patterns[p] :
          CanCommit(Patterns[p][j], Tried(p, d, f)[j-1], f)
            <=> CanCommit(Patterns[p][j], Tried(p, d, e)[j-1], e)
    <3>1. \A j \in 1 .. N : Tried(p, d, f)[j-1] = Tried(p, d, e)[j-1]
      BY <1>1, <1>2
    <3> QED
      BY <1>1, <3>1 DEF CanCommit, MatchAlike
  <2> QED
    BY <2>1 DEF Fired
<1>5. Roots(p, f) = Roots(p, e)
  BY DEF Roots, MatchAlike
<1> QED
  BY <1>3, <1>4, <1>5

\* What a call on e does to what is known, with mid the automata between
\* unify_storyline and advance: company is kept, actor and object are joined, no
\* automaton is lost, and those of the actor's storyline make the progress they can.
Learns(e, mid) ==
    /\ line'[e.actor] \in Keys /\ line'[e.object] = line'[e.actor]
    /\ \A k \in Keys : line[k] # NoLine =>
         /\ line'[k] \in Keys
         /\ \A j \in Keys : line[j] = line[k] => line'[j] = line'[k]
         /\ \A p \in Pids : \A h \in DOMAIN autos[line[k]][p] :
              \E i \in DOMAIN mid[line'[k]][p] : mid[line'[k]][p][i] = autos[line[k]][p][h]
    /\ \A s \in Keys : s # line'[e.actor] => autos'[s] = mid[s]
    /\ LET home == line'[e.actor]
       IN  \A p \in Pids :
             /\ \A h \in DOMAIN mid[home][p] :
                  /\ h \in DOMAIN autos'[home][p]
                  /\ autos'[home][p][h] = Progress(p, mid[home][p][h], e)
                  /\ mid[home][p][h] \subseteq autos'[home][p][h]
             /\ Roots(p, e) # {} =>
                  \E h \in DOMAIN autos'[home][p] : autos'[home][p][h] = Progress(p, {}, e)

LEMMA TrackLearns ==
    ASSUME IInv, NEW e \in Event, Track(e)
    PROVE  Learns(e, Joined(e).autos)
<1> DEFINE mid == Joined(e).autos
           home == line'[e.actor]
<1>1. /\ line' = Joined(e).line /\ home = Home(e)
      /\ autos' = [mid EXCEPT ![Home(e)] = Advanced(Seeded(e), e)]
  BY TrackUnfolds DEF Home
<1>2. e.actor \in Keys /\ e.object \in Keys
  BY DEF Event
<1>3. StorylinesInv(Now) /\ Now.line = line /\ Now.autos = autos /\ Now.members = members
  BY DEF IInv, Now
<1>4. /\ StorylinesInv(Joined(e)) /\ home \in Keys
      /\ line'[e.object] = home
  BY <1>1, <1>2, <1>3, UnifyInv DEF Joined
<1>5. ASSUME NEW k \in Keys, line[k] # NoLine
      PROVE  /\ line'[k] \in Keys
             /\ LivesOn(Now, line[k], Joined(e), line'[k])
  BY <1>1, <1>2, <1>3, <1>5, UnifyKeeps DEF Joined
<1>6. ASSUME NEW k \in Keys, line[k] # NoLine, NEW j \in Keys, line[j] = line[k]
      PROVE  line'[j] = line'[k]
  <2>1. j \in members[line[k]]
    BY <1>3, <1>6 DEF StorylinesInv, States, Consistent
  <2>2. j \in Joined(e).members[line'[k]] /\ line'[k] \in Keys
    BY <1>3, <1>5, <1>6, <2>1 DEF LivesOn
  <2> QED
    BY <1>1, <1>4, <2>2 DEF StorylinesInv, Consistent
<1>7. ASSUME NEW k \in Keys, line[k] # NoLine, NEW p \in Pids, NEW h \in DOMAIN autos[line[k]][p]
      PROVE  \E i \in DOMAIN mid[line'[k]][p] : mid[line'[k]][p][i] = autos[line[k]][p][h]
  <2>1. Embedded(autos[line[k]][p], mid[line'[k]][p])
    BY <1>3, <1>5, <1>7 DEF LivesOn
  <2> QED
    BY <2>1 DEF Embedded
<1>8. \A s \in Keys : autos'[s] = IF s = home THEN Advanced(Seeded(e), e) ELSE mid[s]
  BY <1>1, <1>4 DEF StorylinesInv, States
<1>9. ASSUME NEW p \in Pids
      PROVE  /\ \A h \in DOMAIN mid[home][p] :
                  /\ h \in DOMAIN autos'[home][p]
                  /\ autos'[home][p][h] = Progress(p, mid[home][p][h], e)
                  /\ mid[home][p][h] \subseteq autos'[home][p][h]
             /\ Roots(p, e) # {} =>
                  \E h \in DOMAIN autos'[home][p] : autos'[home][p][h] = Progress(p, {}, e)
  <2> DEFINE old == mid[home][p]
             seeds == Seeds(p, e)
             all == Seeded(e)[p]
  <2>1. old \in Seq(SUBSET Bits) /\ seeds \in Seq(SUBSET Bits)
    BY <1>4, SeedsType DEF StorylinesInv, States, AutoLists
  <2>2. all = old \o seeds
    BY <1>1 DEF Seeded
  <2>3. /\ DOMAIN autos'[home][p] = DOMAIN all
        /\ \A h \in DOMAIN all : autos'[home][p][h] = Progress(p, all[h], e)
    <3>1. autos'[home] = Advanced(Seeded(e), e)
      BY <1>4, <1>8
    <3>2. Advanced(Seeded(e), e)[p] = [i \in DOMAIN all |-> Progress(p, all[i], e)]
      BY DEF Advanced
    <3> HIDE DEF all, home
    <3> QED
      BY <3>1, <3>2
  <2>4. Roots(p, e) # {} => 1 \in DOMAIN seeds /\ seeds[1] = {}
    <3>1. CASE Roots(p, e) # {}
      <4>1. IsFiniteSet(Roots(p, e))
        <5>1. Len(Patterns[p]) \in Int /\ 1 \in Int /\ DOMAIN Patterns[p] = 1 .. Len(Patterns[p])
          BY PatternsType
        <5>2. IsFiniteSet(1 .. Len(Patterns[p]))
          BY <5>1, FS_Interval, Zenon
        <5> QED
          BY <5>1, <5>2, FS_Subset DEF Roots
      <4>2. Cardinality(Roots(p, e)) \in Nat /\ Cardinality(Roots(p, e)) # 0
        BY <3>1, <4>1, FS_CardinalityType, FS_EmptySet
      <4>3. Cardinality(Roots(p, e)) >= 1
        BY <4>2
      <4> QED
        BY <4>2, <4>3 DEF Seeds
    <3> QED
      BY <3>1
  <2> HIDE DEF old, seeds, all
  <2>5. /\ Len(old) \in Nat /\ Len(seeds) \in Nat
        /\ DOMAIN old = 1 .. Len(old) /\ DOMAIN seeds = 1 .. Len(seeds)
        /\ DOMAIN all = 1 .. Len(old) + Len(seeds)
        /\ \A i \in 1 .. Len(old) + Len(seeds) :
             all[i] = IF i <= Len(old) THEN old[i] ELSE seeds[i - Len(old)]
    BY <2>1, <2>2, ConcatProperties
  <2>6. \A h \in DOMAIN old : h \in DOMAIN all /\ all[h] = old[h]
    BY <2>5
  <2>7. ASSUME Roots(p, e) # {}
        PROVE  Len(old) + 1 \in DOMAIN all /\ all[Len(old) + 1] = {}
    <3>1. 1 \in 1 .. Len(seeds) /\ seeds[1] = {}
      BY <2>4, <2>5, <2>7
    <3>2. Len(old) + 1 \in 1 .. Len(old) + Len(seeds)
      BY <2>5, <3>1
    <3>3. (Len(old) + 1) - Len(old) = 1 /\ ~ (Len(old) + 1 <= Len(old))
      BY <2>5
    <3>4. all[Len(old) + 1] = seeds[(Len(old) + 1) - Len(old)]
      BY <2>5, <3>2, <3>3
    <3> QED
      BY <2>5, <3>1, <3>2, <3>3, <3>4
  <2>8. \A h \in DOMAIN old : h \in DOMAIN autos'[home][p]
                              /\ autos'[home][p][h] = Progress(p, old[h], e)
    BY <2>3, <2>6
  <2>9. Roots(p, e) # {} =>
          \E h \in DOMAIN autos'[home][p] : autos'[home][p][h] = Progress(p, {}, e)
    BY <2>3, <2>7
  <2>10. \A h \in DOMAIN old : old[h] \subseteq autos'[home][p][h]
    <3>1. /\ old = Joined(e).autos[Home(e)][p]
          /\ autos'[home][p] = Advanced(Seeded(e), e)[p]
      BY <1>1, <1>4, <1>8 DEF old
    <3>2. \A i \in DOMAIN Joined(e).autos[Home(e)][p] :
             Joined(e).autos[Home(e)][p][i] \subseteq Advanced(Seeded(e), e)[p][i]
      BY AdvancedKeeps
    <3> HIDE DEF home
    <3> QED
      BY <3>1, <3>2
  <2> QED
    BY <2>8, <2>9, <2>10 DEF old
<1> QED
  BY <1>4, <1>5, <1>6, <1>7, <1>8, <1>9 DEF Learns
-----------------------------------------------------------------------------
\* A mask that no step can be added to: every step it enables it has.
Saturated(steps, d) ==
    \A i \in DOMAIN steps : steps[i].prereq \subseteq d => steps[i].bit \in d

\* g is the function that Sweep defines by recursion, over the first n steps.
IsSweep(g, n, steps, reached) ==
    g = [i \in 0 .. n |-> IF i = 0 THEN reached ELSE Visit(steps[i], g[i-1])]

LEMMA SweepExists ==
    ASSUME NEW steps, NEW reached
    PROVE  \A n \in Nat : \E g : IsSweep(g, n, steps, reached)
<1> DEFINE S == {n \in Nat : \E g : IsSweep(g, n, steps, reached)}
<1>1. 0 \in S
  <2>1. IsSweep([i \in 0 .. 0 |-> reached], 0, steps, reached)
    BY DEF IsSweep
  <2> QED
    BY <2>1
<1>2. ASSUME NEW n \in Nat, n \in S PROVE n + 1 \in S
  <2>1. PICK g : IsSweep(g, n, steps, reached)
    BY <1>2
  <2> DEFINE h == [i \in 0 .. n + 1 |-> IF i = n + 1 THEN Visit(steps[n + 1], g[n]) ELSE g[i]]
  <2>2. ASSUME NEW i \in 0 .. n + 1
        PROVE  h[i] = IF i = 0 THEN reached ELSE Visit(steps[i], h[i-1])
    <3>1. CASE i = 0
      BY <2>1, <3>1 DEF IsSweep
    <3>2. CASE i \in 1 .. n
      <4>1. h[i] = g[i] /\ h[i-1] = g[i-1]
        BY <3>2
      <4>2. g[i] = Visit(steps[i], g[i-1])
        BY <2>1, <3>2 DEF IsSweep
      <4> QED
        BY <3>2, <4>1, <4>2
    <3>3. CASE i = n + 1
      BY <3>3
    <3> QED
      BY <3>1, <3>2, <3>3
  <2>3. IsSweep(h, n + 1, steps, reached)
    <3> HIDE DEF h
    <3>1. h = [i \in 0 .. n + 1 |-> h[i]]
      BY DEF h
    <3> QED
      BY <2>2, <3>1 DEF IsSweep
  <2> QED
    BY <2>3
<1>3. \A n \in Nat : n \in S
  BY <1>1, <1>2, SetInduction
<1> QED
  BY <1>3

(***************************************************************************)
(* One pass leads nowhere out of a saturated mask.                         *)
(***************************************************************************)
LEMMA SweepStays ==
    ASSUME NEW steps, Len(steps) \in Nat, DOMAIN steps = 1 .. Len(steps),
           NEW d, Saturated(steps, d), NEW reached, reached \subseteq d
    PROVE  Sweep(steps, reached) \subseteq d
<1> DEFINE g == CHOOSE f : IsSweep(f, Len(steps), steps, reached)
           Inside == {i \in Nat : i <= Len(steps) => g[i] \subseteq d}
<1>1. Sweep(steps, reached) = g[Len(steps)]
  BY DEF Sweep, IsSweep, Visit
<1>2. IsSweep(g, Len(steps), steps, reached)
  BY SweepExists
<1> HIDE DEF g
<1>3. 0 \in Inside
  BY <1>2 DEF IsSweep
<1>4. ASSUME NEW i \in Nat, i \in Inside PROVE i + 1 \in Inside
  <2> SUFFICES ASSUME i + 1 <= Len(steps) PROVE g[i + 1] \subseteq d
    OBVIOUS
  <2>1. g[i] \subseteq d
    BY <1>4
  <2>2. g[i + 1] = Visit(steps[i + 1], g[i])
    BY <1>2 DEF IsSweep
  <2>3. i + 1 \in DOMAIN steps
    OBVIOUS
  <2>4. steps[i + 1].prereq \subseteq d => steps[i + 1].bit \in d
    BY <2>3 DEF Saturated
  <2> QED
    BY <2>1, <2>2, <2>4 DEF Visit
<1>5. \A i \in Nat : i \in Inside
  BY <1>3, <1>4, SetInduction
<1> QED
  BY <1>1, <1>5

\* g is the function that Reached defines by recursion, over the first n passes.
IsReach(g, n, steps) ==
    g = [i \in 0 .. n |-> IF i = 0 THEN {} ELSE Sweep(steps, g[i-1])]

LEMMA ReachExists ==
    ASSUME NEW steps
    PROVE  \A n \in Nat : \E g : IsReach(g, n, steps)
<1> DEFINE S == {n \in Nat : \E g : IsReach(g, n, steps)}
<1>1. 0 \in S
  <2>1. IsReach([i \in 0 .. 0 |-> {}], 0, steps)
    BY DEF IsReach
  <2> QED
    BY <2>1
<1>2. ASSUME NEW n \in Nat, n \in S PROVE n + 1 \in S
  <2>1. PICK g : IsReach(g, n, steps)
    BY <1>2
  <2> DEFINE h == [i \in 0 .. n + 1 |-> IF i = n + 1 THEN Sweep(steps, g[n]) ELSE g[i]]
  <2>2. ASSUME NEW i \in 0 .. n + 1
        PROVE  h[i] = IF i = 0 THEN {} ELSE Sweep(steps, h[i-1])
    <3>1. CASE i = 0
      BY <2>1, <3>1 DEF IsReach
    <3>2. CASE i \in 1 .. n
      <4>1. h[i] = g[i] /\ h[i-1] = g[i-1]
        BY <3>2
      <4>2. i \in 0 .. n /\ i # 0
        BY <3>2
      <4>3. g[i] = Sweep(steps, g[i-1])
        BY <2>1, <4>2, Zenon DEF IsReach
      <4> QED
        BY <3>2, <4>1, <4>3
    <3>3. CASE i = n + 1
      BY <3>3
    <3> QED
      BY <3>1, <3>2, <3>3
  <2>3. IsReach(h, n + 1, steps)
    <3> HIDE DEF h
    <3>1. h = [i \in 0 .. n + 1 |-> h[i]]
      BY DEF h
    <3> QED
      BY <2>2, <3>1 DEF IsReach
  <2> QED
    BY <2>3
<1>3. \A n \in Nat : n \in S
  BY <1>1, <1>2, SetInduction
<1> QED
  BY <1>3

(***************************************************************************)
(* A saturated mask has all that the passes of validate_dag reach.         *)
(***************************************************************************)
LEMMA ReachedStays ==
    ASSUME NEW steps, Len(steps) \in Nat, DOMAIN steps = 1 .. Len(steps),
           NEW d, Saturated(steps, d)
    PROVE  Reached(steps) \subseteq d
<1> DEFINE g == CHOOSE f : IsReach(f, Len(steps), steps)
           Inside == {i \in Nat : i <= Len(steps) => g[i] \subseteq d}
<1>1. Reached(steps) = g[Len(steps)]
  BY DEF Reached, IsReach
<1>2. IsReach(g, Len(steps), steps)
  BY ReachExists
<1> HIDE DEF g
<1>3. 0 \in Inside
  BY <1>2 DEF IsReach
<1>4. ASSUME NEW i \in Nat, i \in Inside PROVE i + 1 \in Inside
  <2> SUFFICES ASSUME i + 1 <= Len(steps) PROVE g[i + 1] \subseteq d
    OBVIOUS
  <2>1. g[i] \subseteq d
    BY <1>4
  <2>2. g[i + 1] = Sweep(steps, g[i])
    <3>1. i + 1 \in 0 .. Len(steps) /\ i + 1 # 0 /\ (i + 1) - 1 = i
      OBVIOUS
    <3>2. g[i + 1] = Sweep(steps, g[(i + 1) - 1])
      BY <1>2, <3>1, Zenon DEF IsReach
    <3> QED
      BY <3>1, <3>2, Zenon
  <2> QED
    BY <2>1, <2>2, SweepStays
<1>5. \A i \in Nat : i \in Inside
  BY <1>3, <1>4, SetInduction
<1> QED
  BY <1>1, <1>5
-----------------------------------------------------------------------------
\* g is the function that Compiled defines by recursion, over the first n lines.
IsCompile(g, n, file) ==
    g = [i \in 0 .. n |-> IF i = 0 THEN Start ELSE Read(g[i-1], file[i])]

LEMMA CompileExists ==
    ASSUME NEW file
    PROVE  \A n \in Nat : \E g : IsCompile(g, n, file)
<1> DEFINE S == {n \in Nat : \E g : IsCompile(g, n, file)}
<1>1. 0 \in S
  <2>1. IsCompile([i \in 0 .. 0 |-> Start], 0, file)
    BY DEF IsCompile
  <2> QED
    BY <2>1
<1>2. ASSUME NEW n \in Nat, n \in S PROVE n + 1 \in S
  <2>1. PICK g : IsCompile(g, n, file)
    BY <1>2
  <2> DEFINE h == [i \in 0 .. n + 1 |-> IF i = n + 1 THEN Read(g[n], file[n + 1]) ELSE g[i]]
  <2>2. ASSUME NEW i \in 0 .. n + 1
        PROVE  h[i] = IF i = 0 THEN Start ELSE Read(h[i-1], file[i])
    <3>1. CASE i = 0
      BY <2>1, <3>1 DEF IsCompile
    <3>2. CASE i \in 1 .. n
      <4>1. h[i] = g[i] /\ h[i-1] = g[i-1]
        BY <3>2
      <4>2. i \in 0 .. n /\ i # 0
        BY <3>2
      <4>3. g[i] = Read(g[i-1], file[i])
        BY <2>1, <4>2, Zenon DEF IsCompile
      <4> QED
        BY <3>2, <4>1, <4>3
    <3>3. CASE i = n + 1
      BY <3>3
    <3> QED
      BY <3>1, <3>2, <3>3
  <2>3. IsCompile(h, n + 1, file)
    <3> HIDE DEF h
    <3>1. h = [i \in 0 .. n + 1 |-> h[i]]
      BY DEF h
    <3> QED
      BY <2>2, <3>1 DEF IsCompile
  <2> QED
    BY <2>3
<1>3. \A n \in Nat : n \in S
  BY <1>1, <1>2, SetInduction
<1> QED
  BY <1>3

\* What the compiler holds between two lines: patterns whose steps fit the engine, no
\* two of which set one bit; those that are closed have passed validate_dag.
ParsedPattern == [name : Names, steps : Seq(DagStep)]

CompilerInv(c) ==
    /\ c \in [done : Seq(ParsedPattern), open : Seq(ParsedPattern), ok : BOOLEAN]
    /\ \A i \in DOMAIN c.open : Distinct(c.open[i].steps)
    /\ \A i \in DOMAIN c.done : Distinct(c.done[i].steps) /\ Valid(c.done[i].steps)

LEMMA PatternLineInv ==
    ASSUME NEW c, CompilerInv(c), NEW l \in Line, l.kw = "pattern"
    PROVE  CompilerInv(PatternLine(c, l))
<1> DEFINE new == [name |-> l.name, steps |-> <<>>]
<1>1. CASE PatternLine(c, l) = Refuse(c)
  BY <1>1 DEF CompilerInv, Refuse
<1>2. CASE PatternLine(c, l) = [c EXCEPT !.open = <<new>>]
  <2>1. new \in ParsedPattern
    BY DEF Line, ParsedPattern
  <2>2. <<new>> \in Seq(ParsedPattern) /\ DOMAIN <<new>> = {1} /\ <<new>>[1] = new
    BY <2>1
  <2>3. Distinct(new.steps)
    BY DEF Distinct
  <2> QED
    BY <1>2, <2>2, <2>3 DEF CompilerInv
<1> QED
  BY <1>1, <1>2 DEF PatternLine

LEMMA StepLineInv ==
    ASSUME NEW c, CompilerInv(c), NEW l \in Line, l.kw = "step"
    PROVE  CompilerInv(StepLine(c, l))
<1> DEFINE step  == StepOf(l)
           old   == c.open[1].steps
           steps == Append(old, step)
           d     == [c EXCEPT !.open[1].steps = Append(@, step)]
<1>1. CASE StepLine(c, l) = Refuse(c)
  BY <1>1 DEF CompilerInv, Refuse
<1>2. CASE StepLine(c, l) = d /\ ~ (c.open = <<>> \/ ~ GoodStep(l) \/ l.bit \in Defined(old))
  <2>1. step \in DagStep /\ step.bit = l.bit
    <3>1. l.bit \in 0 .. 63 /\ l.prereq \in SUBSET (0 .. 63)
      BY <1>2 DEF GoodStep
    <3>2. l.ops \in SUBSET Ops /\ l.ttps \in Seq(Ttps) /\ l.action \in Actions
      BY DEF Line
    <3> QED
      BY <3>1, <3>2 DEF StepOf, DagStep, Bits
  <2>2. c.open \in Seq(ParsedPattern) /\ 1 \in DOMAIN c.open
    BY <1>2 DEF CompilerInv
  <2>3. c.open[1] \in ParsedPattern /\ old \in Seq(DagStep) /\ Distinct(old)
    <3>1. c.open[1] \in ParsedPattern
      BY <2>2
    <3> QED
      BY <2>2, <3>1 DEF CompilerInv, ParsedPattern
  <2> HIDE DEF step
  <2>4. steps \in Seq(DagStep)
    BY <2>1, <2>3
  <2>5. /\ DOMAIN steps = 1 .. Len(old) + 1 /\ DOMAIN old = 1 .. Len(old) /\ Len(old) \in Nat
        /\ \A i \in 1 .. Len(old) : steps[i] = old[i]
        /\ steps[Len(old) + 1] = step
    BY <2>1, <2>3
  <2>6. \A i \in 1 .. Len(old) : old[i].bit # step.bit
    BY <1>2, <2>1, <2>5 DEF Defined
  <2>7. Distinct(steps)
    <3> SUFFICES ASSUME NEW i \in 1 .. Len(old) + 1, NEW j \in 1 .. Len(old) + 1,
                        steps[i].bit = steps[j].bit
                 PROVE  i = j
      BY <2>5 DEF Distinct
    <3> HIDE DEF steps, old
    <3>1. CASE i \in 1 .. Len(old) /\ j \in 1 .. Len(old)
      BY <2>3, <2>5, <3>1 DEF Distinct
    <3>2. CASE i = Len(old) + 1 \/ j = Len(old) + 1
      BY <2>5, <2>6, <3>2
    <3> QED
      BY <2>5, <3>1, <3>2
  <2>8. /\ d = [c EXCEPT !.open = [c.open EXCEPT ![1] = [c.open[1] EXCEPT !.steps = steps]]]
        /\ [c.open[1] EXCEPT !.steps = steps] \in ParsedPattern
        /\ [c.open[1] EXCEPT !.steps = steps].steps = steps
    BY <2>3, <2>4 DEF ParsedPattern
  <2> DEFINE new == [c.open[1] EXCEPT !.steps = steps]
             op  == [c.open EXCEPT ![1] = new]
  <2> HIDE DEF new, d, steps
  <2>9. /\ op \in Seq(ParsedPattern) /\ DOMAIN op = DOMAIN c.open
        /\ \A i \in DOMAIN op : op[i] = IF i = 1 THEN new ELSE c.open[i]
    <3>1. new \in ParsedPattern
      BY <2>8 DEF new
    <3> QED
      BY <2>2, <3>1
  <2> HIDE DEF op
  <2>10. /\ d \in [done : Seq(ParsedPattern), open : Seq(ParsedPattern), ok : BOOLEAN]
         /\ d.open = op /\ d.done = c.done
    BY <2>8, <2>9 DEF op, new, CompilerInv
  <2>11. \A i \in DOMAIN op : Distinct(op[i].steps)
    BY <2>7, <2>8, <2>9 DEF new, CompilerInv
  <2> QED
    BY <1>2, <2>10, <2>11 DEF CompilerInv
<1> QED
  BY <1>1, <1>2 DEF StepLine

LEMMA EndLineInv ==
    ASSUME NEW c, CompilerInv(c)
    PROVE  CompilerInv(EndLine(c))
<1> DEFINE done == Append(c.done, c.open[1])
<1>1. CASE EndLine(c) = Refuse(c)
  BY <1>1 DEF CompilerInv, Refuse
<1>2. CASE /\ EndLine(c) = [c EXCEPT !.done = done, !.open = <<>>]
           /\ c.open # <<>> /\ Valid(c.open[1].steps)
  <2>1. c.open[1] \in ParsedPattern /\ Distinct(c.open[1].steps)
    BY <1>2 DEF CompilerInv
  <2>2. /\ done \in Seq(ParsedPattern)
        /\ DOMAIN done = 1 .. Len(c.done) + 1 /\ DOMAIN c.done = 1 .. Len(c.done)
        /\ \A i \in 1 .. Len(c.done) : done[i] = c.done[i]
        /\ done[Len(c.done) + 1] = c.open[1]
        /\ Len(c.done) \in Nat
    BY <2>1 DEF CompilerInv
  <2> HIDE DEF done
  <2>3. \A i \in DOMAIN done : Distinct(done[i].steps) /\ Valid(done[i].steps)
    <3> SUFFICES ASSUME NEW i \in 1 .. Len(c.done) + 1
                 PROVE  Distinct(done[i].steps) /\ Valid(done[i].steps)
      BY <2>2
    <3>1. CASE i \in 1 .. Len(c.done)
      BY <2>2, <3>1 DEF CompilerInv
    <3>2. CASE i = Len(c.done) + 1
      BY <1>2, <2>1, <2>2, <3>2
    <3> QED
      BY <2>2, <3>1, <3>2
  <2>4. <<>> \in Seq(ParsedPattern) /\ DOMAIN <<>> = {}
    OBVIOUS
  <2>5. /\ EndLine(c) \in [done : Seq(ParsedPattern), open : Seq(ParsedPattern), ok : BOOLEAN]
        /\ EndLine(c).open = <<>> /\ EndLine(c).done = done
    BY <1>2, <2>2, <2>4 DEF CompilerInv
  <2> QED
    BY <2>3, <2>4, <2>5 DEF CompilerInv
<1> QED
  BY <1>1, <1>2 DEF EndLine

LEMMA ReadInv ==
    ASSUME NEW c, CompilerInv(c), NEW l \in Line
    PROVE  CompilerInv(Read(c, l))
<1>1. CompilerInv(Refuse(c))
  BY DEF CompilerInv, Refuse
<1>2. /\ l.kw = "pattern" => CompilerInv(PatternLine(c, l))
      /\ l.kw = "step" => CompilerInv(StepLine(c, l))
      /\ CompilerInv(EndLine(c))
  BY PatternLineInv, StepLineInv, EndLineInv
<1> QED
  BY <1>1, <1>2 DEF Read

(***************************************************************************)
(* compile_dag gives the engines, of whatever file of lines, only rules    *)
(* they are made for: steps within the mask, a bit of its own for each     *)
(* step of a pattern, and every step within reach of the others.           *)
(***************************************************************************)
THEOREM RulesAllowed ==
    ASSUME NEW file \in Seq(Line)
    PROVE  /\ RulesOf(file) \in Seq(Seq(DagStep))
           /\ \A p \in DOMAIN RulesOf(file) :
                Distinct(RulesOf(file)[p]) /\ Valid(RulesOf(file)[p])
<1> DEFINE g == CHOOSE f : IsCompile(f, Len(file), file)
           Kept == {i \in Nat : i <= Len(file) => CompilerInv(g[i])}
           c == Compiled(file)
<1>1. c = g[Len(file)]
  BY DEF Compiled, IsCompile
<1>2. IsCompile(g, Len(file), file)
  BY CompileExists
<1>3. Len(file) \in Nat /\ \A i \in 1 .. Len(file) : file[i] \in Line
  OBVIOUS
<1> HIDE DEF g
<1>4. 0 \in Kept
  <2>1. 0 \in 0 .. Len(file)
    BY <1>3
  <2>2. g[0] = Start
    BY <1>2, <2>1, Zenon DEF IsCompile
  <2>3. CompilerInv(Start)
    BY DEF CompilerInv, Start
  <2> QED
    BY <2>2, <2>3
<1>5. ASSUME NEW i \in Nat, i \in Kept PROVE i + 1 \in Kept
  <2> SUFFICES ASSUME i + 1 <= Len(file) PROVE CompilerInv(g[i + 1])
    OBVIOUS
  <2>1. CompilerInv(g[i]) /\ file[i + 1] \in Line
    BY <1>3, <1>5
  <2>2. i + 1 \in 0 .. Len(file) /\ i + 1 # 0 /\ (i + 1) - 1 = i
    BY <1>3
  <2>3. g[i + 1] = Read(g[(i + 1) - 1], file[i + 1])
    BY <1>2, <2>2, Zenon DEF IsCompile
  <2>4. g[i + 1] = Read(g[i], file[i + 1])
    BY <2>2, <2>3, Zenon
  <2> QED
    BY <2>1, <2>4, ReadInv
<1>6. \A i \in Nat : i \in Kept
  BY <1>4, <1>5, SetInduction
<1>7. CompilerInv(c)
  BY <1>1, <1>3, <1>6
<1> HIDE DEF c
<1>8. RulesOf(file) = [p \in DOMAIN c.done |-> c.done[p].steps]
  BY DEF RulesOf, c
<1>9. c.done \in Seq(ParsedPattern) /\ \A p \in DOMAIN c.done : c.done[p].steps \in Seq(DagStep)
  <2>1. c.done \in Seq(ParsedPattern)
    BY <1>7 DEF CompilerInv
  <2>2. \A p \in DOMAIN c.done : c.done[p] \in ParsedPattern
    BY <2>1
  <2> QED
    BY <2>1, <2>2 DEF ParsedPattern
<1>10. RulesOf(file) \in Seq(Seq(DagStep))
  <2>1. Len(c.done) \in Nat /\ DOMAIN c.done = 1 .. Len(c.done)
    BY <1>9
  <2>2. RulesOf(file) \in [1 .. Len(c.done) -> Seq(DagStep)]
    BY <1>8, <1>9, <2>1
  <2> QED
    BY <2>1, <2>2, SeqDef
<1> QED
  BY <1>7, <1>8, <1>10 DEF CompilerInv

(***************************************************************************)
(* No pattern of a compiled file can leave an automaton stuck: whatever it *)
(* has committed, a step that is missing has all it requires, or no step   *)
(* is missing (validate_dag, advance).                                     *)
(***************************************************************************)
THEOREM NeverStuckCorrect ==
    ASSUME NEW file \in Seq(Line), Patterns = RulesOf(file)
    PROVE  Spec => []NeverStuck
<1>1. ASSUME NEW p \in Pids, NEW d, ~ (Defined(Patterns[p]) \subseteq d)
      PROVE  \E j \in DOMAIN Patterns[p] :
               Patterns[p][j].bit \notin d /\ Patterns[p][j].prereq \subseteq d
  <2>1. Reached(Patterns[p]) = Defined(Patterns[p])
    BY RulesAllowed DEF Pids, Valid
  <2>2. ~ Saturated(Patterns[p], d)
    BY <1>1, <2>1, PatternsType, ReachedStays
  <2> QED
    BY <2>2 DEF Saturated
<1>2. NeverStuck
  BY <1>1 DEF NeverStuck
<1> QED
  BY <1>2, PTL
=============================================================================
