--------------------------- MODULE EngineV1Proofs ---------------------------
(***************************************************************************)
(* What module EngineV1 promises, for every rule file, every set of nodes  *)
(* and every run of events in the order of their times.                    *)
(*                                                                         *)
(* The union-find is a forest: there is a root and a depth for every       *)
(* storyline id, such that whoever hangs from another is deeper than that  *)
(* one and has its root.  Path compression keeps roots and depths; a merge *)
(* moves the child's tree deeper, under the other root.                    *)
(***************************************************************************)
EXTENDS EngineV1, SequenceTheorems, WellFoundedInduction, TLAPS

(***************************************************************************)
(* Induction over a set of naturals, so that it can be used with any       *)
(* property by naming the set of the numbers that have it.                 *)
(***************************************************************************)
LEMMA SetInduction ==
    ASSUME NEW S, 0 \in S, \A n \in Nat : n \in S => n + 1 \in S
    PROVE  \A n \in Nat : n \in S
<1> DEFINE Less == OpToRel(<, Nat)
           Missed == Nat \ S
<1>1. ASSUME Missed # {} PROVE FALSE
  <2>1. PICK x \in Missed : \A y \in Missed : <<y, x>> \notin Less
    <3>1. IsWellFoundedOn(Less, Nat)
      BY NatLessThanWellFounded
    <3> QED
      BY <1>1, <3>1, WFMin
  <2>2. x \in Nat /\ x \notin S /\ x # 0
    BY <2>1
  <2>3. x - 1 \in Nat /\ x = (x - 1) + 1
    BY <2>2
  <2>4. <<x - 1, x>> \in Less
    BY <2>2, <2>3 DEF OpToRel
  <2>5. x - 1 \in S
    BY <2>1, <2>3, <2>4
  <2>6. (x - 1) + 1 \in S
    BY <2>3, <2>5
  <2> QED
    BY <2>2, <2>3, <2>6
<1> QED
  BY <1>1
-----------------------------------------------------------------------------
(***************************************************************************)
(* The union-find over storylines.                                         *)
(***************************************************************************)
\* r and d give the root and the depth of every sid of up.
Forest(up, r, d) ==
    /\ up = [k \in DOMAIN up |-> up[k]]
    /\ r \in [DOMAIN up -> DOMAIN up]
    /\ d \in [DOMAIN up -> Nat]
    /\ \A k \in DOMAIN up :
          /\ up[k] \in DOMAIN up
          /\ up[k] = k => r[k] = k
          /\ up[k] # k => r[k] = r[up[k]] /\ d[up[k]] < d[k]

\* What holds of every sid of a forest if it holds of all that are less deep.
LEMMA ForestInduction ==
    ASSUME NEW up, NEW r, NEW d, Forest(up, r, d), NEW T,
           \A k \in DOMAIN up : (up[k] # k => up[k] \in T) => k \in T
    PROVE  DOMAIN up \subseteq T
<1> DEFINE S == {n \in Nat : \A k \in DOMAIN up : d[k] <= n => k \in T}
<1>1. 0 \in S
  BY DEF Forest
<1>2. ASSUME NEW n \in Nat, n \in S PROVE n + 1 \in S
  <2>1. ASSUME NEW k \in DOMAIN up, d[k] <= n + 1 PROVE k \in T
    <3>1. ASSUME up[k] # k PROVE up[k] \in T
      <4>1. up[k] \in DOMAIN up /\ d[up[k]] < d[k] /\ d[up[k]] \in Nat /\ d[k] \in Nat
        BY <3>1 DEF Forest
      <4>2. d[up[k]] <= n
        BY <2>1, <4>1
      <4> QED
        BY <1>2, <4>1, <4>2
    <3> QED
      BY <3>1
  <2> QED
    BY <2>1
<1>3. \A n \in Nat : n \in S
  <2> HIDE DEF S
  <2> QED
    BY <1>1, <1>2, SetInduction
<1>4. ASSUME NEW k \in DOMAIN up PROVE k \in T
  <2>1. d[k] \in Nat
    BY DEF Forest
  <2>2. d[k] \in S
    BY <1>3, <2>1
  <2> QED
    BY <2>1, <2>2
<1> QED
  BY <1>4

\* A root is its own parent.
LEMMA RootsAreRoots ==
    ASSUME NEW up, NEW r, NEW d, Forest(up, r, d)
    PROVE  \A k \in DOMAIN up : r[k] \in DOMAIN up /\ up[r[k]] = r[k]
<1> DEFINE T == {k \in DOMAIN up : up[r[k]] = r[k]}
<1>1. ASSUME NEW k \in DOMAIN up, up[k] # k => up[k] \in T PROVE k \in T
  BY <1>1 DEF Forest
<1>2. DOMAIN up \subseteq T
  <2> HIDE DEF T
  <2> QED
    BY <1>1, ForestInduction
<1> QED
  BY <1>2 DEF Forest

IsRoot(f, up) == f = [k \in DOMAIN up |-> IF up[k] = k THEN k ELSE f[up[k]]]

\* find walks to the root.
LEMMA RootIs ==
    ASSUME NEW up, NEW r, NEW d, Forest(up, r, d), NEW sid \in DOMAIN up
    PROVE  Root(up, sid) = r[sid]
<1> DEFINE f == CHOOSE g : IsRoot(g, up)
<1>1. IsRoot(r, up)
  BY DEF Forest, IsRoot
<1>2. IsRoot(f, up)
  BY <1>1
<1>3. Root(up, sid) = f[sid]
  BY DEF Root, IsRoot
<1> HIDE DEF f
<1> DEFINE T == {k \in DOMAIN up : f[k] = r[k]}
<1>4. ASSUME NEW k \in DOMAIN up, up[k] # k => up[k] \in T PROVE k \in T
  <2>1. f[k] = IF up[k] = k THEN k ELSE f[up[k]]
    BY <1>2 DEF IsRoot
  <2> QED
    BY <1>4, <2>1 DEF Forest
<1>5. DOMAIN up \subseteq T
  <2> HIDE DEF T
  <2> QED
    BY <1>4, ForestInduction
<1> QED
  BY <1>3, <1>5

IsPath(f, up) == f = [k \in DOMAIN up |-> IF up[k] = k THEN {k} ELSE {k} \union f[up[k]]]

\* The recursive definition of Path has a solution: what is in every set that
\* contains k and is closed under up.
Above(up, k) ==
    {x \in DOMAIN up : \A S \in SUBSET DOMAIN up :
        k \in S /\ (\A y \in S : up[y] \in S) => x \in S}

LEMMA AboveIsPath ==
    ASSUME NEW up, \A k \in DOMAIN up : up[k] \in DOMAIN up
    PROVE  IsPath([k \in DOMAIN up |-> Above(up, k)], up)
<1>1. ASSUME NEW k \in DOMAIN up
      PROVE  Above(up, k) = IF up[k] = k THEN {k} ELSE {k} \union Above(up, up[k])
  <2>1. k \in Above(up, k)
    BY DEF Above
  <2>2. Above(up, up[k]) \subseteq Above(up, k)
    BY DEF Above
  <2>3. ASSUME NEW x \in Above(up, k), x # k PROVE up[k] # k /\ x \in Above(up, up[k])
    <3>1. x \in DOMAIN up
      BY DEF Above
    <3>2. ASSUME NEW S \in SUBSET DOMAIN up, up[k] \in S, \A y \in S : up[y] \in S
          PROVE  x \in S
      <4>1. S \union {k} \in SUBSET DOMAIN up /\ k \in S \union {k}
        OBVIOUS
      <4>2. \A y \in S \union {k} : up[y] \in S \union {k}
        BY <3>2
      <4>3. x \in S \union {k}
        BY <4>1, <4>2 DEF Above
      <4> QED
        BY <2>3, <4>3
    <3>3. up[k] # k
      <4> SUFFICES ASSUME up[k] = k PROVE FALSE
        OBVIOUS
      <4>1. x \in {k}
        BY DEF Above
      <4> QED
        BY <2>3, <4>1
    <3> QED
      BY <3>1, <3>2, <3>3 DEF Above
  <2>4. CASE up[k] = k
    BY <2>1, <2>3, <2>4
  <2>5. CASE up[k] # k
    BY <2>1, <2>2, <2>3, <2>5
  <2> QED
    BY <2>4, <2>5
<1> QED
  BY <1>1 DEF IsPath

\* What find passes has the root that it finds.
LEMMA PathKeepsRoot ==
    ASSUME NEW up, NEW r, NEW d, Forest(up, r, d), NEW sid \in DOMAIN up
    PROVE  \A x \in Path(up, sid) : x \in DOMAIN up /\ r[x] = r[sid]
<1> DEFINE f == CHOOSE g : IsPath(g, up)
<1>1. \E g : IsPath(g, up)
  BY AboveIsPath DEF Forest
<1>2. IsPath(f, up)
  BY <1>1
<1>3. Path(up, sid) = f[sid]
  BY DEF Path, IsPath
<1> HIDE DEF f
<1> DEFINE T == {k \in DOMAIN up : \A x \in f[k] : x \in DOMAIN up /\ r[x] = r[k]}
<1>4. ASSUME NEW k \in DOMAIN up, up[k] # k => up[k] \in T PROVE k \in T
  <2>1. f[k] = IF up[k] = k THEN {k} ELSE {k} \union f[up[k]]
    BY <1>2 DEF IsPath
  <2> QED
    BY <1>4, <2>1 DEF Forest
<1>5. DOMAIN up \subseteq T
  <2> HIDE DEF T
  <2> QED
    BY <1>4, ForestInduction
<1> QED
  BY <1>3, <1>5

\* Path compression changes neither roots nor depths.
LEMMA CompressForest ==
    ASSUME NEW up, NEW r, NEW d, Forest(up, r, d), NEW sid \in DOMAIN up
    PROVE  /\ Forest(Compress(up, sid), r, d)
           /\ DOMAIN Compress(up, sid) = DOMAIN up
           /\ \A k \in DOMAIN up : Compress(up, sid)[k] = k <=> up[k] = k
<1> DEFINE c == Compress(up, sid)
           path == Path(up, sid)
<1>1. c = [k \in DOMAIN up |-> IF k \in path THEN r[sid] ELSE up[k]]
  BY RootIs DEF Compress
<1>2. \A k \in path : k \in DOMAIN up /\ r[k] = r[sid]
  BY PathKeepsRoot
<1>3. \A k \in DOMAIN up : r[k] \in DOMAIN up /\ up[r[k]] = r[k]
  BY RootsAreRoots
<1> HIDE DEF c, path
<1>4. \A k \in DOMAIN up : /\ up[k] \in DOMAIN up
                           /\ up[k] = k => r[k] = k
                           /\ up[k] # k => r[k] = r[up[k]] /\ d[up[k]] < d[k]
  BY DEF Forest
<1>5. \A k \in DOMAIN up : c[k] = IF k \in path THEN r[k] ELSE up[k]
  BY <1>1, <1>2
<1>6. \A k \in DOMAIN up : up[k] # k => r[k] # k
  BY <1>3
<1>7. \A k \in DOMAIN up : up[k] # k => d[r[k]] < d[k]
  <2> DEFINE T == {k \in DOMAIN up : up[k] # k => d[r[k]] < d[k]}
  <2>1. ASSUME NEW k \in DOMAIN up, up[k] # k => up[k] \in T PROVE k \in T
    <3>1. CASE up[k] = k
      BY <3>1
    <3>2. CASE up[k] # k
      <4>1. up[k] \in DOMAIN up /\ r[k] = r[up[k]] /\ d[up[k]] < d[k]
        BY <1>4, <3>2
      <4>2. d[k] \in Nat /\ d[up[k]] \in Nat /\ d[r[k]] \in Nat
        BY <1>3, <4>1 DEF Forest
      <4>3. CASE up[up[k]] = up[k]
        BY <1>4, <4>1, <4>3
      <4>4. CASE up[up[k]] # up[k]
        BY <2>1, <3>2, <4>1, <4>2, <4>4
      <4> QED
        BY <4>3, <4>4
    <3> QED
      BY <3>1, <3>2
  <2>2. DOMAIN up \subseteq T
    <3> HIDE DEF T
    <3> QED
      BY <2>1, ForestInduction
  <2> QED
    BY <2>2
<1>8. DOMAIN c = DOMAIN up /\ c = [k \in DOMAIN c |-> c[k]]
  BY <1>1
<1>9. ASSUME NEW k \in DOMAIN up
      PROVE  /\ c[k] \in DOMAIN up
             /\ c[k] = k <=> up[k] = k
             /\ c[k] # k => r[k] = r[c[k]] /\ d[c[k]] < d[k]
  <2>1. CASE k \in path
    <3>1. c[k] = r[k] /\ r[r[k]] = r[k]
      BY <1>3, <1>4, <1>5, <2>1
    <3> QED
      BY <1>3, <1>4, <1>6, <1>7, <3>1
  <2>2. CASE k \notin path
    BY <1>4, <1>5, <2>2
  <2> QED
    BY <2>1, <2>2
<1>10. Forest(c, r, d)
  BY <1>4, <1>8, <1>9 DEF Forest
<1> QED
  BY <1>8, <1>9, <1>10 DEF c
-----------------------------------------------------------------------------
(***************************************************************************)
(* Resolving and unifying keep the forest, and the storylines are those of *)
(* its roots.                                                              *)
(***************************************************************************)
Graph(g, r, d) ==
    /\ Forest(g.parent, r, d)
    /\ DOMAIN g.lines = {k \in DOMAIN g.parent : g.parent[k] = k}

New(e) == {e.actor, e.object, e.image} \ ({NoKey} \union DOMAIN parent)

\* The roots after e's nodes were made.
RootsWith(r, e) == [k \in DOMAIN parent \union New(e) |-> IF k \in DOMAIN parent THEN r[k] ELSE k]
DepthsWith(d, e) == [k \in DOMAIN parent \union New(e) |-> IF k \in DOMAIN parent THEN d[k] ELSE 0]

LEMMA ResolveGraph ==
    ASSUME NEW r, NEW d, Graph([parent |-> parent, lines |-> lines], r, d), NEW e
    PROVE  /\ Graph(Resolve(e), RootsWith(r, e), DepthsWith(d, e))
           /\ DOMAIN Resolve(e).parent = DOMAIN parent \union New(e)
           /\ DOMAIN Resolve(e).lines = DOMAIN lines \union New(e)
           /\ \A k \in DOMAIN lines : Resolve(e).lines[k] = lines[k]
           /\ \A k \in New(e) : Resolve(e).lines[k] = <<>>
<1> DEFINE up == Resolve(e).parent
           ln == Resolve(e).lines
           r2 == RootsWith(r, e)
           d2 == DepthsWith(d, e)
<1>2. /\ up = [k \in DOMAIN parent \union New(e) |-> IF k \in New(e) THEN k ELSE parent[k]]
      /\ ln = [k \in DOMAIN lines \union New(e) |-> IF k \in New(e) THEN <<>> ELSE lines[k]]
  BY DEF Resolve, New
<1>3. /\ Forest(parent, r, d)
      /\ DOMAIN lines = {k \in DOMAIN parent : parent[k] = k}
  BY DEF Graph
<1>4. New(e) \intersect DOMAIN parent = {}
  BY DEF New
<1> HIDE DEF up, ln
<1>5. Forest(up, r2, d2)
  <2>1. DOMAIN up = DOMAIN parent \union New(e) /\ up = [k \in DOMAIN up |-> up[k]]
    BY <1>2
  <2>2. r2 \in [DOMAIN up -> DOMAIN up] /\ d2 \in [DOMAIN up -> Nat]
    BY <1>3, <2>1 DEF Forest, RootsWith, DepthsWith
  <2>3. ASSUME NEW k \in DOMAIN up
        PROVE  /\ up[k] \in DOMAIN up
               /\ up[k] = k => r2[k] = k
               /\ up[k] # k => r2[k] = r2[up[k]] /\ d2[up[k]] < d2[k]
    <3>1. CASE k \in DOMAIN parent
      <4>1. up[k] = parent[k] /\ parent[k] \in DOMAIN parent
        BY <1>2, <1>3, <1>4, <3>1 DEF Forest
      <4> QED
        BY <1>3, <2>1, <3>1, <4>1 DEF Forest, RootsWith, DepthsWith
    <3>2. CASE k \in New(e)
      BY <1>2, <1>4, <2>1, <3>2 DEF RootsWith
    <3> QED
      BY <2>1, <3>1, <3>2
  <2> QED
    BY <2>1, <2>2, <2>3 DEF Forest
<1>6. DOMAIN up = DOMAIN parent \union New(e) /\ DOMAIN ln = DOMAIN lines \union New(e)
  BY <1>2
<1>7. DOMAIN ln = {k \in DOMAIN up : up[k] = k}
  BY <1>2, <1>3, <1>4, <1>6
<1>8. /\ \A k \in DOMAIN lines : ln[k] = lines[k]
      /\ \A k \in New(e) : ln[k] = <<>>
  BY <1>2, <1>3, <1>4
<1> QED
  BY <1>5, <1>6, <1>7, <1>8 DEF Graph, up, ln

\* Merge, once it is decided which of the two stays.
JoinedLines(ln, root, child) ==
    [s \in DOMAIN ln \ {child} |-> IF s = root THEN Joined(ln[root], ln[child]) ELSE ln[s]]

Hung(g, root, child) ==
    [parent |-> [g.parent EXCEPT ![child] = root],
     lines  |-> JoinedLines(g.lines, root, child),
     sid    |-> root]

LEMMA MergeIs ==
    ASSUME NEW g, NEW x, NEW y
    PROVE  Merge(g, x, y) = Hung(g, x, y) \/ Merge(g, x, y) = Hung(g, y, x)
<1>1. CASE Cardinality(DOMAIN g.lines[x]) >= Cardinality(DOMAIN g.lines[y])
  BY <1>1 DEF Merge, Hung, JoinedLines
<1>2. CASE ~ (Cardinality(DOMAIN g.lines[x]) >= Cardinality(DOMAIN g.lines[y]))
  BY <1>2 DEF Merge, Hung, JoinedLines
<1> QED
  BY <1>1, <1>2

\* The child's tree gets the other root.
Rerooted(r, root, child) == [k \in DOMAIN r |-> IF r[k] = child THEN root ELSE r[k]]
Deeper(r, d, root, child) ==
    [k \in DOMAIN r |-> IF r[k] = child THEN d[k] + d[root] + 1 ELSE d[k]]

LEMMA HungGraph ==
    ASSUME NEW g, NEW r, NEW d, Graph(g, r, d),
           NEW root \in DOMAIN g.lines, NEW child \in DOMAIN g.lines, root # child
    PROVE  /\ Forest([g.parent EXCEPT ![child] = root], Rerooted(r, root, child), Deeper(r, d, root, child))
           /\ DOMAIN JoinedLines(g.lines, root, child) =
                {k \in DOMAIN g.parent : [g.parent EXCEPT ![child] = root][k] = k}
<1> DEFINE up == g.parent
           up2 == [up EXCEPT ![child] = root]
           r2 == Rerooted(r, root, child)
           d2 == Deeper(r, d, root, child)
<1>1. /\ Forest(up, r, d)
      /\ root \in DOMAIN up /\ child \in DOMAIN up /\ up[root] = root /\ up[child] = child
      /\ DOMAIN g.lines = {k \in DOMAIN up : up[k] = k}
  BY DEF Graph
<1>2. r[root] = root /\ r[child] = child /\ DOMAIN r = DOMAIN up
  BY <1>1 DEF Forest
<1>3. DOMAIN up2 = DOMAIN up /\ \A k \in DOMAIN up : up2[k] = IF k = child THEN root ELSE up[k]
  OBVIOUS
<1>4. up2 = [k \in DOMAIN up2 |-> up2[k]]
  OBVIOUS
<1> HIDE DEF up, up2
<1>5. r2 \in [DOMAIN up2 -> DOMAIN up2] /\ d2 \in [DOMAIN up2 -> Nat]
  BY <1>1, <1>2, <1>3 DEF Forest, Rerooted, Deeper
<1>6. ASSUME NEW k \in DOMAIN up
      PROVE  /\ up2[k] \in DOMAIN up
             /\ up2[k] = k => r2[k] = k
             /\ up2[k] # k => r2[k] = r2[up2[k]] /\ d2[up2[k]] < d2[k]
  <2>1. CASE k = child
    <3>1. /\ up2[k] = root /\ r2[k] = root /\ r2[root] = root
          /\ d2[k] = d[k] + d[root] + 1 /\ d2[root] = d[root]
      BY <1>1, <1>2, <1>3, <2>1 DEF Rerooted, Deeper
    <3>2. d[root] \in Nat /\ d[child] \in Nat
      BY <1>1 DEF Forest
    <3> QED
      BY <1>1, <2>1, <3>1, <3>2
  <2>2. CASE k # child
    <3>1. up2[k] = up[k] /\ up[k] \in DOMAIN up
      BY <1>1, <1>3, <2>2 DEF Forest
    <3>2. up[k] = k => r[k] = k
      BY <1>1 DEF Forest
    <3>3. /\ up[k] # k => r[k] = r[up[k]] /\ d[up[k]] < d[k]
          /\ d[up[k]] \in Nat /\ d[k] \in Nat /\ d[root] \in Nat
      BY <1>1, <3>1 DEF Forest
    <3>4. up2[k] = k => r2[k] = k
      BY <1>2, <2>2, <3>1, <3>2 DEF Rerooted
    <3>5. ASSUME up2[k] # k PROVE r2[k] = r2[up2[k]] /\ d2[up2[k]] < d2[k]
      BY <1>2, <3>1, <3>3, <3>5 DEF Rerooted, Deeper
    <3> QED
      BY <3>1, <3>4, <3>5
  <2> QED
    BY <2>1, <2>2
<1>7. Forest(up2, r2, d2)
  BY <1>3, <1>4, <1>5, <1>6 DEF Forest
<1>8. DOMAIN JoinedLines(g.lines, root, child) = {k \in DOMAIN up : up2[k] = k}
  BY <1>1, <1>3 DEF JoinedLines
<1> QED
  BY <1>7, <1>8 DEF up, up2
-----------------------------------------------------------------------------
\* What unify leaves: everything in its place, or one storyline in the other.
Unified(g, u, e, r, r2) ==
    \/ /\ e.op \notin Causal \/ r[e.actor] = r[e.object]
       /\ u.lines = g.lines /\ r2 = r /\ u.sid = r[e.actor]
    \/ /\ e.op \in Causal
       /\ \E root, child \in DOMAIN g.lines :
             /\ root # child /\ {root, child} = {r[e.actor], r[e.object]}
             /\ u.lines = JoinedLines(g.lines, root, child)
             /\ r2 = Rerooted(r, root, child) /\ u.sid = root

LEMMA HungUnified ==
    ASSUME NEW g, NEW r, NEW d, Graph(g, r, d), NEW e, e.op \in Causal,
           NEW up, Forest(up, r, d), DOMAIN up = DOMAIN g.parent,
           \A k \in DOMAIN up : up[k] = k <=> g.parent[k] = k,
           NEW root \in DOMAIN g.lines, NEW child \in DOMAIN g.lines,
           root # child, {root, child} = {r[e.actor], r[e.object]},
           NEW u, u = Hung([parent |-> up, lines |-> g.lines], root, child)
    PROVE  \E r2 : \E d2 : /\ Graph(u, r2, d2) /\ Unified(g, u, e, r, r2)
                           /\ DOMAIN u.parent = DOMAIN g.parent
<1> DEFINE h == [parent |-> up, lines |-> g.lines]
           r2 == Rerooted(r, root, child)
           d2 == Deeper(r, d, root, child)
<1>1. h.parent = up /\ h.lines = g.lines
  OBVIOUS
<1> HIDE DEF h
<1>2. Graph(h, r, d)
  BY <1>1 DEF Graph
<1>3. /\ u.parent = [h.parent EXCEPT ![child] = root]
      /\ u.lines = JoinedLines(h.lines, root, child)
      /\ u.sid = root
  BY DEF Hung, h
<1>4. Graph(u, r2, d2)
  <2>1. root \in DOMAIN h.lines /\ child \in DOMAIN h.lines
    BY <1>1
  <2>2. /\ Forest([h.parent EXCEPT ![child] = root], r2, d2)
        /\ DOMAIN JoinedLines(h.lines, root, child) =
             {k \in DOMAIN h.parent : [h.parent EXCEPT ![child] = root][k] = k}
    BY <1>2, <2>1, HungGraph
  <2>3. DOMAIN u.parent = DOMAIN h.parent
    BY <1>3
  <2> QED
    BY <1>3, <2>2, <2>3 DEF Graph
<1>5. Unified(g, u, e, r, r2)
  BY <1>1, <1>3 DEF Unified
<1>6. DOMAIN u.parent = DOMAIN g.parent
  BY <1>1, <1>3
<1> QED
  BY <1>4, <1>5, <1>6

LEMMA UnifyGraph ==
    ASSUME NEW g, NEW r, NEW d, Graph(g, r, d), NEW e,
           e.actor \in DOMAIN g.parent, e.object \in DOMAIN g.parent
    PROVE  \E r2 : \E d2 : /\ Graph(Unify(g, e), r2, d2) /\ Unified(g, Unify(g, e), e, r, r2)
                           /\ DOMAIN Unify(g, e).parent = DOMAIN g.parent
<1> DEFINE up1 == Compress(g.parent, e.actor)
           up2 == Compress(up1, e.object)
           sa  == Root(g.parent, e.actor)
           so  == Root(up1, e.object)
           u   == Unify(g, e)
<1>1. /\ Forest(up1, r, d) /\ DOMAIN up1 = DOMAIN g.parent
      /\ \A k \in DOMAIN up1 : up1[k] = k <=> g.parent[k] = k
  BY CompressForest DEF Graph
<1>2. /\ Forest(up2, r, d) /\ DOMAIN up2 = DOMAIN g.parent
      /\ \A k \in DOMAIN up2 : up2[k] = k <=> g.parent[k] = k
  <2> HIDE DEF up1
  <2> QED
    BY <1>1, CompressForest
<1>3. sa = r[e.actor] /\ so = r[e.object]
  <2>1. sa = r[e.actor]
    BY RootIs DEF Graph
  <2>2. so = r[e.object]
    <3> HIDE DEF up1
    <3> QED
      BY <1>1, RootIs
  <2> QED
    BY <2>1, <2>2
<1>4. sa \in DOMAIN g.lines /\ so \in DOMAIN g.lines
  BY <1>3, RootsAreRoots DEF Graph
<1>5. CASE e.op \notin Causal
  <2>1. u = [parent |-> up1, lines |-> g.lines, sid |-> sa]
    BY <1>5 DEF Unify
  <2> HIDE DEF up1, sa, u
  <2>2. u.parent = up1 /\ u.lines = g.lines /\ u.sid = sa
    BY <2>1
  <2>3. Graph(u, r, d)
    BY <1>1, <2>2 DEF Graph
  <2>4. Unified(g, u, e, r, r)
    BY <1>3, <1>5, <2>2 DEF Unified
  <2> QED
    BY <1>1, <2>2, <2>3, <2>4 DEF u
<1>6. CASE e.op \in Causal /\ sa = so
  <2>1. u = [parent |-> up2, lines |-> g.lines, sid |-> sa]
    BY <1>6 DEF Unify
  <2> HIDE DEF up2, sa, so, u
  <2>2. u.parent = up2 /\ u.lines = g.lines /\ u.sid = sa
    BY <2>1
  <2>3. Graph(u, r, d)
    BY <1>2, <2>2 DEF Graph
  <2>4. Unified(g, u, e, r, r)
    BY <1>3, <1>6, <2>2 DEF Unified
  <2> QED
    BY <1>2, <2>2, <2>3, <2>4 DEF u
<1>7. CASE e.op \in Causal /\ sa # so
  <2> DEFINE h == [parent |-> up2, lines |-> g.lines]
  <2>1. u = Merge(h, sa, so)
    BY <1>7 DEF Unify
  <2>2. u = Hung(h, sa, so) \/ u = Hung(h, so, sa)
    BY <2>1, MergeIs
  <2> HIDE DEF up1, up2, sa, so, u
  <2>3. ASSUME u = Hung(h, sa, so) PROVE \E r2 : \E d2 : /\ Graph(u, r2, d2) /\ Unified(g, u, e, r, r2)
                                                        /\ DOMAIN u.parent = DOMAIN g.parent
    BY <1>2, <1>3, <1>4, <1>7, <2>3, HungUnified
  <2>4. ASSUME u = Hung(h, so, sa) PROVE \E r2 : \E d2 : /\ Graph(u, r2, d2) /\ Unified(g, u, e, r, r2)
                                                        /\ DOMAIN u.parent = DOMAIN g.parent
    BY <1>2, <1>3, <1>4, <1>7, <2>4, HungUnified
  <2> QED
    BY <2>2, <2>3, <2>4 DEF u
<1> QED
  BY <1>5, <1>6, <1>7
-----------------------------------------------------------------------------
(***************************************************************************)
(* The causal components, told from the events, are the trees.             *)
(***************************************************************************)
Components(cs, up, r) ==
    /\ \A c \in cs : \A k \in c : k \in DOMAIN up /\ \A j \in DOMAIN up : j \in c <=> r[j] = r[k]
    /\ \A k \in DOMAIN up : \E c \in cs : k \in c
    /\ \A c \in cs : c # {}

LEMMA CausesStep ==
    ASSUME NEW r, NEW r2, NEW e, NEW up, NEW u,
           Components(causes, parent, r),
           DOMAIN up = DOMAIN parent \union New(e),
           RootsWith(r, e) \in [DOMAIN up -> DOMAIN up],
           e.actor \in DOMAIN up, e.object \in DOMAIN up,
           NEW g, Unified(g, u, e, RootsWith(r, e), r2),
           \A k \in DOMAIN parent : r[k] \in DOMAIN parent
    PROVE  Components(CausesWith(e), up, r2)
<1> DEFINE r1 == RootsWith(r, e)
           known == causes \union {{k} : k \in New(e)}
           joined == {c \in known : e.actor \in c \/ e.object \in c}
<1>1. UNION causes = DOMAIN parent
  BY DEF Components
<1>2. CausesWith(e) = IF e.op \in Causal THEN (known \ joined) \union {UNION joined} ELSE known
  BY <1>1 DEF CausesWith, New
<1>3. \A k \in DOMAIN up : r1[k] = IF k \in DOMAIN parent THEN r[k] ELSE k
  BY DEF RootsWith
<1>4. \A k \in New(e) : k \notin DOMAIN parent /\ k \in DOMAIN up
  BY DEF New
<1>5. Components(known, up, r1)
  <2>1. ASSUME NEW c \in known, NEW k \in c
        PROVE  k \in DOMAIN up /\ \A j \in DOMAIN up : j \in c <=> r1[j] = r1[k]
    <3>1. CASE c \in causes
      <4>1. k \in DOMAIN parent /\ \A j \in DOMAIN parent : j \in c <=> r[j] = r[k]
        BY <3>1 DEF Components
      <4>2. ASSUME NEW j \in New(e) PROVE j \notin c /\ r1[j] # r1[k]
        BY <1>1, <1>3, <1>4, <3>1, <4>1
      <4> QED
        BY <1>3, <4>1, <4>2
    <3>2. CASE c \in {{x} : x \in New(e)}
      <4>1. k \in New(e) /\ c = {k}
        BY <3>2
      <4> QED
        BY <1>3, <1>4, <4>1
    <3> QED
      BY <3>1, <3>2
  <2>2. ASSUME NEW k \in DOMAIN up PROVE \E c \in known : k \in c
    BY <1>4 DEF Components
  <2>3. ASSUME NEW c \in known PROVE c # {}
    <3>1. CASE c \in causes
      BY <3>1 DEF Components
    <3>2. CASE c \in {{x} : x \in New(e)}
      BY <3>2
    <3> QED
      BY <3>1, <3>2
  <2> QED
    BY <2>1, <2>2, <2>3 DEF Components
<1> HIDE DEF known, r1
<1>6. CASE e.op \notin Causal
  <2>1. r2 = r1
    BY <1>6 DEF Unified, r1
  <2> QED
    BY <1>2, <1>5, <1>6, <2>1
<1>7. CASE e.op \in Causal
  <2>1. CausesWith(e) = (known \ joined) \union {UNION joined}
    BY <1>2, <1>7
  <2> DEFINE a == r1[e.actor]
             o == r1[e.object]
  <2>2. \A x \in DOMAIN up : x \in UNION joined <=> r1[x] \in {a, o}
    BY <1>5 DEF Components
  <2>3. \A j, k \in DOMAIN up : r2[j] = r2[k] <=> r1[j] = r1[k] \/ {r1[j], r1[k]} \subseteq {a, o}
    <3>1. CASE r2 = r1 /\ a = o
      BY <3>1
    <3>2. ASSUME NEW root, NEW child, root # child, {root, child} = {a, o},
                 r2 = Rerooted(r1, root, child)
          PROVE  \A j, k \in DOMAIN up : r2[j] = r2[k] <=> r1[j] = r1[k] \/ {r1[j], r1[k]} \subseteq {a, o}
      <4>1. DOMAIN r1 = DOMAIN up
        BY DEF r1
      <4>2. \A k \in DOMAIN up : r2[k] = IF r1[k] = child THEN root ELSE r1[k]
        BY <3>2, <4>1 DEF Rerooted
      <4> HIDE DEF a, o
      <4> QED
        BY <3>2, <4>2
    <3> QED
      BY <1>7, <3>1, <3>2 DEF Unified, r1
  <2>4. ASSUME NEW c \in known \ joined, NEW k \in c
        PROVE  k \in DOMAIN up /\ \A j \in DOMAIN up : j \in c <=> r2[j] = r2[k]
    <3>1. k \in DOMAIN up /\ \A j \in DOMAIN up : j \in c <=> r1[j] = r1[k]
      BY <1>5, <2>4 DEF Components
    <3>2. r1[k] \notin {a, o}
      BY <2>4, <3>1
    <3> QED
      BY <2>3, <3>1, <3>2
  <2>5. ASSUME NEW k \in UNION joined
        PROVE  k \in DOMAIN up /\ \A j \in DOMAIN up : j \in UNION joined <=> r2[j] = r2[k]
    <3>1. k \in DOMAIN up
      BY <1>5 DEF Components
    <3>2. r1[k] \in {a, o}
      BY <2>2, <3>1
    <3> QED
      BY <2>2, <2>3, <3>1, <3>2
  <2>6. ASSUME NEW k \in DOMAIN up PROVE \E c \in CausesWith(e) : k \in c
    <3>1. PICK c \in known : k \in c
      BY <1>5 DEF Components
    <3> QED
      BY <2>1, <3>1
  <2>7. UNION joined # {}
    BY <1>5 DEF Components
  <2>8. \A c \in known \ joined : c # {}
    BY <1>5 DEF Components
  <2> HIDE DEF joined
  <2>9. \A c \in CausesWith(e) : c # {}
    BY <2>1, <2>7, <2>8
  <2>10. ASSUME NEW c \in CausesWith(e), NEW k \in c
         PROVE  k \in DOMAIN up /\ \A j \in DOMAIN up : j \in c <=> r2[j] = r2[k]
    BY <2>1, <2>4, <2>5
  <2> QED
    BY <2>6, <2>9, <2>10 DEF Components
<1> QED
  BY <1>6, <1>7
-----------------------------------------------------------------------------
(***************************************************************************)
(* Patterns and their steps.                                               *)
(***************************************************************************)
Ids == {Patterns[i].id : i \in DOMAIN Patterns}

LEMMA MinOf == ASSUME NEW I \in SUBSET Nat, I # {} PROVE Min(I) \in I
<1> DEFINE Less == OpToRel(<, Nat)
<1>1. PICK x \in I : \A y \in I : <<y, x>> \notin Less
  BY NatLessThanWellFounded, WFMin
<1>2. ASSUME NEW y \in I, y < x PROVE FALSE
  <2>1. y \in Nat /\ x \in Nat
    OBVIOUS
  <2>2. <<y, x>> \in Less
    BY <1>2, <2>1 DEF OpToRel
  <2> QED
    BY <1>1, <2>2
<1>3. \A y \in I : x =< y
  BY <1>2
<1> QED
  BY <1>3 DEF Min

LEMMA PatternOfType == \A id \in Ids : PatternOf(id) \in Pattern /\ PatternOf(id).id = id
<1> SUFFICES ASSUME NEW id \in Ids PROVE PatternOf(id) \in Pattern /\ PatternOf(id).id = id
  OBVIOUS
<1> DEFINE I == {i \in 1 .. Len(Patterns) : Patterns[i].id = id}
<1>1. Len(Patterns) \in Nat /\ DOMAIN Patterns = 1 .. Len(Patterns)
  BY PatternsAssumption, LenProperties
<1>2. I # {} /\ I \in SUBSET Nat
  BY <1>1 DEF Ids
<1>3. PatternOf(id) = Patterns[Min(I)]
  BY <1>2 DEF PatternOf, SelectInSeq
<1>4. Min(I) \in I
  <2> HIDE DEF I
  <2> QED
    BY <1>2, MinOf
<1> QED
  BY <1>1, <1>3, <1>4, PatternsAssumption, ElementOfSeq

\* Pattern::step finds a step with the bit, if there is one.
LEMMA StepAtBit ==
    ASSUME NEW p \in Pattern, NEW i \in 1 .. Len(p.steps)
    PROVE  StepAt(p, p.steps[i].bit).bit = p.steps[i].bit
<1> DEFINE I == {j \in 1 .. Len(p.steps) : p.steps[j].bit = p.steps[i].bit}
<1>1. p.steps \in Seq(Step)
  BY DEF Pattern
<1>2. I # {} /\ I \in SUBSET Nat
  OBVIOUS
<1>3. StepAt(p, p.steps[i].bit) = p.steps[Min(I)]
  BY <1>2 DEF StepAt, SelectInSeq
<1>4. Min(I) \in I
  <2> HIDE DEF I
  <2> QED
    BY <1>2, MinOf
<1> QED
  BY <1>3, <1>4
-----------------------------------------------------------------------------
(***************************************************************************)
(* One automaton.                                                          *)
(***************************************************************************)
\* Steps done have a time, no later than t, and their prerequisites before them.
Sound(id, a, t) ==
    /\ a = [done |-> a.done, ts |-> a.ts, bound |-> a.bound, armed |-> a.armed]
    /\ a.armed \in BOOLEAN
    /\ DOMAIN a.ts = a.done
    /\ \A b \in a.done :
          /\ a.ts[b] \in Nat /\ a.ts[b] <= t
          /\ \A q \in StepAt(PatternOf(id), b).prereq : q \in a.done /\ a.ts[q] <= a.ts[b]

LEMMA NewSound == ASSUME NEW id, NEW t PROVE Sound(id, NewAutomaton, t)
<1>1. NewAutomaton = [done |-> {}, ts |-> <<>>, bound |-> <<>>, armed |-> FALSE]
  BY DEF NewAutomaton
<1>2. DOMAIN <<>> = {}
  OBVIOUS
<1> QED
  BY <1>1, <1>2 DEF Sound

LEMMA SoundLater ==
    ASSUME NEW id, NEW a, NEW t \in Nat, NEW u \in Nat, t <= u, Sound(id, a, t)
    PROVE  Sound(id, a, u)
<1>1. \A b \in a.done : a.ts[b] \in Nat /\ a.ts[b] <= t => a.ts[b] <= u
  OBVIOUS
<1> QED
  BY <1>1 DEF Sound

\* Of two automata of a pattern that become one, every step keeps what it rests on.
LEMMA CombinedSound ==
    ASSUME NEW id, NEW a, NEW b, NEW t \in Nat, Sound(id, a, t), Sound(id, b, t)
    PROVE  /\ Sound(id, Combined(a, b), t)
           /\ Combined(a, b).done = a.done \union b.done
           /\ Combined(a, b).armed = a.armed
<1> DEFINE c == Combined(a, b)
<1>1. /\ c = [done |-> c.done, ts |-> c.ts, bound |-> c.bound, armed |-> c.armed]
      /\ c.done = a.done \union b.done /\ c.armed = a.armed
      /\ DOMAIN c.ts = DOMAIN a.ts \union DOMAIN b.ts
      /\ \A s \in DOMAIN a.ts \union DOMAIN b.ts :
            c.ts[s] = IF s \notin DOMAIN b.ts \/ (s \in DOMAIN a.ts /\ a.ts[s] <= b.ts[s])
                        THEN a.ts[s] ELSE b.ts[s]
  BY DEF Combined
<1> HIDE DEF c
<1>2. DOMAIN a.ts = a.done /\ DOMAIN b.ts = b.done
  BY DEF Sound
<1>3. /\ \A s \in a.done : a.ts[s] \in Nat /\ a.ts[s] <= t
      /\ \A s \in b.done : b.ts[s] \in Nat /\ b.ts[s] <= t
  BY DEF Sound
<1>4. \A s \in c.done : /\ c.ts[s] \in Nat /\ c.ts[s] <= t
                        /\ s \in a.done => c.ts[s] <= a.ts[s]
                        /\ s \in b.done => c.ts[s] <= b.ts[s]
                        /\ \/ s \in a.done /\ c.ts[s] = a.ts[s]
                           \/ s \in b.done /\ c.ts[s] = b.ts[s]
  BY <1>1, <1>2, <1>3
<1>5. ASSUME NEW s \in c.done, NEW q \in StepAt(PatternOf(id), s).prereq
      PROVE  q \in c.done /\ c.ts[q] <= c.ts[s]
  <2>1. CASE s \in a.done /\ c.ts[s] = a.ts[s]
    <3>1. q \in a.done /\ a.ts[q] <= a.ts[s]
      BY <2>1 DEF Sound
    <3>2. q \in c.done /\ c.ts[q] <= a.ts[q] /\ c.ts[q] \in Nat /\ a.ts[q] \in Nat /\ a.ts[s] \in Nat
      BY <1>1, <1>3, <1>4, <2>1, <3>1
    <3> QED
      BY <2>1, <3>1, <3>2
  <2>2. CASE s \in b.done /\ c.ts[s] = b.ts[s]
    <3>1. q \in b.done /\ b.ts[q] <= b.ts[s]
      BY <2>2 DEF Sound
    <3>2. q \in c.done /\ c.ts[q] <= b.ts[q] /\ c.ts[q] \in Nat /\ b.ts[q] \in Nat /\ b.ts[s] \in Nat
      BY <1>1, <1>3, <1>4, <2>2, <3>1
    <3> QED
      BY <2>2, <3>1, <3>2
  <2> QED
    BY <1>4, <2>1, <2>2
<1>6. c.armed \in BOOLEAN
  BY <1>1 DEF Sound
<1>7. Sound(id, c, t)
  BY <1>1, <1>2, <1>4, <1>5, <1>6 DEF Sound
<1> QED
  BY <1>1, <1>7 DEF c

\* A commit finds the prerequisites done, and comes after all that was.
LEMMA CommitSound ==
    ASSUME NEW id, NEW a, NEW e, e.ts \in Nat, Sound(id, a, e.ts), NEW s,
           s = StepAt(PatternOf(id), s.bit), CanCommit(PatternOf(id), a, s, e)
    PROVE  /\ Sound(id, Commit(a, s, e), e.ts)
           /\ a.done \subseteq Commit(a, s, e).done
           /\ Commit(a, s, e).armed = a.armed
<1> DEFINE c == Commit(a, s, e)
<1>1. /\ c = [done |-> c.done, ts |-> c.ts, bound |-> c.bound, armed |-> c.armed]
      /\ c.done = a.done \union {s.bit} /\ c.armed = a.armed
      /\ DOMAIN c.ts = DOMAIN a.ts \union {s.bit}
      /\ \A b \in DOMAIN a.ts \union {s.bit} : c.ts[b] = IF b = s.bit THEN e.ts ELSE a.ts[b]
  BY DEF Commit
<1>2. s.bit \notin a.done /\ s.prereq \subseteq a.done
  BY DEF CanCommit
<1> HIDE DEF c
<1>3. /\ DOMAIN a.ts = a.done /\ a.armed \in BOOLEAN
      /\ \A b \in a.done :
          /\ a.ts[b] \in Nat /\ a.ts[b] <= e.ts
          /\ \A q \in StepAt(PatternOf(id), b).prereq : q \in a.done /\ a.ts[q] <= a.ts[b]
  BY DEF Sound
<1>4. ASSUME NEW b \in c.done
      PROVE  /\ c.ts[b] \in Nat /\ c.ts[b] <= e.ts
             /\ \A q \in StepAt(PatternOf(id), b).prereq : q \in c.done /\ c.ts[q] <= c.ts[b]
  <2>1. CASE b = s.bit
    BY <1>1, <1>2, <1>3, <2>1
  <2>2. CASE b # s.bit
    BY <1>1, <1>2, <1>3, <2>2
  <2> QED
    BY <2>1, <2>2
<1>5. Sound(id, c, e.ts)
  BY <1>1, <1>3, <1>4 DEF Sound
<1> QED
  BY <1>1, <1>5 DEF c

LEMMA EmittedType ==
    ASSUME NEW p, NEW a, NEW b
    PROVE  /\ Emitted(p, a, b) \in None .. Block
           /\ Emitted(p, a, b) = Block => Accepting(p, a)
  BY DEF Emitted, None, Suspect, Alert, Block
-----------------------------------------------------------------------------
(***************************************************************************)
(* ADVANCE on one automaton.                                               *)
(***************************************************************************)
\* What m is after an event of time t was tried on the automaton a.
Tried(id, a, m, t) ==
    /\ m = [a |-> m.a, verdict |-> m.verdict, arm |-> m.arm]
    /\ Sound(id, m.a, t)
    /\ a.done \subseteq m.a.done
    /\ a.armed => m.a.armed
    /\ m.verdict \in None .. Block
    /\ m.verdict = Block => Accepting(PatternOf(id), m.a)
    /\ m.arm # NoArm => m.a.armed

LEMMA TakeTried ==
    ASSUME NEW id, NEW a, NEW e, e.ts \in Nat, NEW m, Tried(id, a, m, e.ts), NEW b,
           StepAt(PatternOf(id), b).bit = b
    PROVE  Tried(id, a, Take(PatternOf(id), e, m, b), e.ts)
<1> DEFINE p    == PatternOf(id)
           s    == StepAt(p, b)
           c    == Commit(m.a, s, e)
           kind == Emitted(p, c, b)
           push == Arms(p, c)
           n    == Take(p, e, m, b)
<1>1. CASE ~ CanCommit(p, m.a, s, e)
  BY <1>1 DEF Take
<1>2. CASE CanCommit(p, m.a, s, e)
  <2>1. /\ Sound(id, c, e.ts) /\ m.a.done \subseteq c.done /\ c.armed = m.a.armed
    BY <1>2, CommitSound DEF Tried
  <2>2. kind \in None .. Block /\ (kind = Block => Accepting(p, c))
    BY EmittedType
  <2>3. push \in BOOLEAN
    BY DEF Arms
  <2>4. n = [a       |-> [c EXCEPT !.armed = @ \/ push],
             verdict |-> IF kind > m.verdict THEN kind ELSE m.verdict,
             arm     |-> IF push THEN EnforceableOp(Pending(p, c)[1]) ELSE m.arm]
    BY <1>2 DEF Take
  <2> HIDE DEF c, kind, push, n
  <2>5. /\ n = [a |-> n.a, verdict |-> n.verdict, arm |-> n.arm]
        /\ n.a = [c EXCEPT !.armed = @ \/ push]
        /\ n.verdict = IF kind > m.verdict THEN kind ELSE m.verdict
        /\ ~ push => n.arm = m.arm
    BY <2>4
  <2>6. /\ n.a = [done |-> c.done, ts |-> c.ts, bound |-> c.bound, armed |-> c.armed \/ push]
    BY <2>1, <2>5 DEF Sound
  <2>7. /\ n.a.done = c.done /\ n.a.ts = c.ts /\ n.a.bound = c.bound
        /\ n.a.armed = (c.armed \/ push)
    BY <2>6
  <2>8. n.a = [done |-> n.a.done, ts |-> n.a.ts, bound |-> n.a.bound, armed |-> n.a.armed]
    BY <2>6, <2>7
  <2>9. n.a.armed \in BOOLEAN
    BY <2>3, <2>7
  <2>10. Sound(id, n.a, e.ts)
    BY <2>1, <2>7, <2>8, <2>9 DEF Sound
  <2>11. Accepting(p, c) => Accepting(p, n.a)
    BY <2>7 DEF Accepting
  <2>12. Accepting(p, m.a) => Accepting(p, n.a)
    BY <2>1, <2>7 DEF Accepting
  <2>13. n.verdict \in None .. Block /\ (n.verdict = Block => Accepting(p, n.a))
    <3>1. m.verdict \in None .. Block /\ (m.verdict = Block => Accepting(p, m.a))
      BY DEF Tried
    <3> QED
      BY <2>2, <2>5, <2>11, <2>12, <3>1
  <2>14. n.arm # NoArm => n.a.armed
    BY <2>1, <2>3, <2>5, <2>7, Zenon DEF Tried
  <2>15. (a.armed => n.a.armed) /\ a.done \subseteq n.a.done
    BY <2>1, <2>7 DEF Tried
  <2> QED
    BY <2>5, <2>10, <2>13, <2>14, <2>15 DEF Tried, n
<1> QED
  BY <1>1, <1>2

\* g is the function that Advance defines by recursion, over the first n steps.
IsAdvance(g, n, id, a, e) ==
    g = [i \in 0 .. n |->
            IF i = 0 THEN [a |-> a, verdict |-> None, arm |-> NoArm]
            ELSE IF SlotMatches(PatternOf(id).steps[i], e)
                   THEN Take(PatternOf(id), e, g[i-1], PatternOf(id).steps[i].bit)
            ELSE g[i-1]]

\* The recursive definition has a solution, however long the pattern is.
LEMMA AdvanceExists ==
    ASSUME NEW id, NEW a, NEW e
    PROVE  \A n \in Nat : \E g : IsAdvance(g, n, id, a, e)
<1> DEFINE S == {n \in Nat : \E g : IsAdvance(g, n, id, a, e)}
           m0 == [a |-> a, verdict |-> None, arm |-> NoArm]
           Step1(m, i) == IF SlotMatches(PatternOf(id).steps[i], e)
                            THEN Take(PatternOf(id), e, m, PatternOf(id).steps[i].bit)
                            ELSE m
<1>0. \A g : \A n : IsAdvance(g, n, id, a, e) <=>
         g = [i \in 0 .. n |-> IF i = 0 THEN m0 ELSE Step1(g[i-1], i)]
  BY DEF IsAdvance
<1> HIDE DEF m0, Step1
<1>1. 0 \in S
  <2> DEFINE z == [i \in 0 .. 0 |-> m0]
  <2>1. z = [i \in 0 .. 0 |-> IF i = 0 THEN m0 ELSE Step1(z[i-1], i)]
    OBVIOUS
  <2>2. IsAdvance(z, 0, id, a, e)
    BY <1>0, <2>1
  <2> QED
    BY <2>2
<1>2. ASSUME NEW n \in Nat, n \in S PROVE n + 1 \in S
  <2>1. PICK g : IsAdvance(g, n, id, a, e)
    BY <1>2
  <2>2. g = [i \in 0 .. n |-> IF i = 0 THEN m0 ELSE Step1(g[i-1], i)]
    BY <1>0, <2>1
  <2> DEFINE h == [i \in 0 .. n + 1 |-> IF i = n + 1 THEN Step1(g[n], n + 1) ELSE g[i]]
  <2>3. ASSUME NEW i \in 0 .. n + 1 PROVE h[i] = IF i = 0 THEN m0 ELSE Step1(h[i-1], i)
    <3>1. CASE i = 0
      BY <2>2, <3>1
    <3>2. CASE i \in 1 .. n
      <4>1. h[i] = g[i] /\ h[i-1] = g[i-1]
        BY <3>2
      <4>2. g[i] = Step1(g[i-1], i)
        BY <2>2, <3>2
      <4> QED
        BY <3>2, <4>1, <4>2
    <3>3. CASE i = n + 1
      BY <3>3
    <3> QED
      BY <3>1, <3>2, <3>3
  <2>4. IsAdvance(h, n + 1, id, a, e)
    <3>1. h = [i \in 0 .. n + 1 |-> h[i]]
      OBVIOUS
    <3> HIDE DEF h
    <3>2. h = [i \in 0 .. n + 1 |-> IF i = 0 THEN m0 ELSE Step1(h[i-1], i)]
      BY <2>3, <3>1
    <3> QED
      BY <1>0, <3>2
  <2> QED
    BY <2>4
<1>3. \A n \in Nat : n \in S
  <2> HIDE DEF S
  <2> QED
    BY <1>1, <1>2, SetInduction
<1> QED
  BY <1>3

LEMMA AdvanceTried ==
    ASSUME NEW id \in Ids, NEW a, NEW e, e.ts \in Nat, Sound(id, a, e.ts)
    PROVE  Tried(id, a, Advance(id, a, e), e.ts)
<1> DEFINE p == PatternOf(id)
           N == Len(p.steps)
           g == CHOOSE f : IsAdvance(f, N, id, a, e)
<1>1. p \in Pattern /\ N \in Nat
  BY PatternOfType, LenProperties DEF Pattern
<1>2. IsAdvance(g, N, id, a, e)
  <2>1. \E f : IsAdvance(f, N, id, a, e)
    BY <1>1, AdvanceExists
  <2> QED
    BY <2>1
<1>3. Advance(id, a, e) = g[N]
  BY DEF Advance, Scan, IsAdvance
<1> HIDE DEF g
<1> DEFINE S == {i \in Nat : i <= N => Tried(id, a, g[i], e.ts)}
<1>4. 0 \in S
  <2>1. g[0] = [a |-> a, verdict |-> None, arm |-> NoArm]
    BY <1>1, <1>2 DEF IsAdvance
  <2>2. None \in None .. Block /\ None # Block
    BY DEF None, Block
  <2>3. Tried(id, a, g[0], e.ts)
    BY <2>1, <2>2 DEF Tried
  <2> QED
    BY <2>3
<1>5. ASSUME NEW n \in Nat, n \in S PROVE n + 1 \in S
  <2>1. ASSUME n + 1 <= N PROVE Tried(id, a, g[n + 1], e.ts)
    <3>1. Tried(id, a, g[n], e.ts)
      BY <1>1, <1>5, <2>1
    <3>2. n + 1 \in 1 .. N /\ (n + 1) - 1 = n
      BY <1>1, <2>1
    <3>3. g[n + 1] = IF SlotMatches(p.steps[n + 1], e)
                       THEN Take(p, e, g[n], p.steps[n + 1].bit) ELSE g[n]
      BY <1>2, <3>2 DEF IsAdvance
    <3>4. StepAt(p, p.steps[n + 1].bit).bit = p.steps[n + 1].bit
      BY <1>1, <3>2, StepAtBit
    <3>5. Tried(id, a, Take(p, e, g[n], p.steps[n + 1].bit), e.ts)
      BY <3>1, <3>4, TakeTried
    <3> QED
      BY <3>1, <3>3, <3>5
  <2> QED
    BY <2>1
<1>6. \A n \in Nat : n \in S
  <2> HIDE DEF S
  <2> QED
    BY <1>4, <1>5, SetInduction
<1> QED
  BY <1>1, <1>3, <1>6
-----------------------------------------------------------------------------
(***************************************************************************)
(* The automata of a storyline.                                            *)
(***************************************************************************)
LineSound(line, t) == \A id \in DOMAIN line : id \in Ids /\ Sound(id, line[id], t)

\* into has all the evidence of line.
Keeps(line, into) ==
    \A id \in DOMAIN line : id \in DOMAIN into /\ line[id].done \subseteq into[id].done

HoldsArmed(line) == \E id \in DOMAIN line : line[id].armed

LEMMA KeepsTransitive ==
    ASSUME NEW a, NEW b, NEW c, Keeps(a, b), Keeps(b, c) PROVE Keeps(a, c)
  BY DEF Keeps

LEMMA JoinedSound ==
    ASSUME NEW a, NEW b, NEW t \in Nat, LineSound(a, t), LineSound(b, t)
    PROVE  /\ LineSound(Joined(a, b), t)
           /\ Keeps(a, Joined(a, b)) /\ Keeps(b, Joined(a, b))
           /\ HoldsArmed(a) => HoldsArmed(Joined(a, b))
<1> DEFINE j == Joined(a, b)
<1>1. /\ DOMAIN j = DOMAIN a \union DOMAIN b
      /\ \A id \in DOMAIN a \union DOMAIN b :
            j[id] = IF id \notin DOMAIN b THEN a[id]
                    ELSE IF id \notin DOMAIN a THEN b[id] ELSE Combined(a[id], b[id])
  BY DEF Joined
<1> HIDE DEF j
<1>2. ASSUME NEW id \in DOMAIN j
      PROVE  /\ id \in Ids /\ Sound(id, j[id], t)
             /\ id \in DOMAIN a => a[id].done \subseteq j[id].done /\ (a[id].armed => j[id].armed)
             /\ id \in DOMAIN b => b[id].done \subseteq j[id].done
  <2>1. CASE id \notin DOMAIN b
    BY <1>1, <2>1 DEF LineSound
  <2>2. CASE id \notin DOMAIN a
    BY <1>1, <2>2 DEF LineSound
  <2>3. CASE id \in DOMAIN a /\ id \in DOMAIN b
    <3>1. j[id] = Combined(a[id], b[id]) /\ id \in Ids /\ Sound(id, a[id], t) /\ Sound(id, b[id], t)
      BY <1>1, <2>3 DEF LineSound
    <3>2. /\ Sound(id, Combined(a[id], b[id]), t)
          /\ Combined(a[id], b[id]).done = a[id].done \union b[id].done
          /\ Combined(a[id], b[id]).armed = a[id].armed
      BY <3>1, CombinedSound
    <3> QED
      BY <3>1, <3>2
  <2> QED
    BY <2>1, <2>2, <2>3
<1>3. LineSound(j, t) /\ Keeps(a, j) /\ Keeps(b, j)
  BY <1>1, <1>2 DEF LineSound, Keeps
<1>4. HoldsArmed(a) => HoldsArmed(j)
  BY <1>1, <1>2 DEF HoldsArmed
<1> QED
  BY <1>3, <1>4 DEF j

LEMMA SeededSound ==
    ASSUME NEW line, NEW t, LineSound(line, t), NEW e
    PROVE  /\ LineSound(Seeded(line, e), t)
           /\ Keeps(line, Seeded(line, e))
           /\ HoldsArmed(line) => HoldsArmed(Seeded(line, e))
<1> DEFINE s == Seeded(line, e)
<1>1. /\ DOMAIN s = DOMAIN line \union Seeds(line, e)
      /\ \A id \in DOMAIN s : s[id] = IF id \in DOMAIN line THEN line[id] ELSE NewAutomaton
  BY DEF Seeded
<1>2. Seeds(line, e) \subseteq Ids
  BY DEF Seeds, Ids, ToSet
<1> HIDE DEF s
<1>3. LineSound(s, t)
  BY <1>1, <1>2, NewSound DEF LineSound
<1>4. Keeps(line, s) /\ (HoldsArmed(line) => HoldsArmed(s))
  BY <1>1 DEF Keeps, HoldsArmed
<1> QED
  BY <1>3, <1>4 DEF s

Automata(moved) == [id \in DOMAIN moved |-> moved[id].a]

LEMMA MovedSound ==
    ASSUME NEW e, e.ts \in Nat, NEW line, LineSound(line, e.ts)
    PROVE  /\ DOMAIN Moved(line, e) = DOMAIN line
           /\ \A id \in DOMAIN line : Tried(id, line[id], Moved(line, e)[id], e.ts)
           /\ LineSound(Automata(Moved(line, e)), e.ts)
           /\ Keeps(line, Automata(Moved(line, e)))
           /\ HoldsArmed(line) => HoldsArmed(Automata(Moved(line, e)))
<1> DEFINE m == Moved(line, e)
<1>1. DOMAIN m = DOMAIN line /\ \A id \in DOMAIN line : m[id] = Advance(id, line[id], e)
  BY DEF Moved
<1> HIDE DEF m
<1>2. \A id \in DOMAIN line : id \in Ids /\ Tried(id, line[id], m[id], e.ts)
  BY <1>1, AdvanceTried DEF LineSound
<1>3. DOMAIN Automata(m) = DOMAIN line /\ \A id \in DOMAIN line : Automata(m)[id] = m[id].a
  BY <1>1 DEF Automata
<1>4. LineSound(Automata(m), e.ts)
  BY <1>2, <1>3 DEF LineSound, Tried
<1>5. Keeps(line, Automata(m)) /\ (HoldsArmed(line) => HoldsArmed(Automata(m)))
  BY <1>2, <1>3 DEF Keeps, HoldsArmed, Tried
<1> QED
  BY <1>1, <1>2, <1>4, <1>5 DEF m

LEMMA BestOf == ASSUME NEW kinds, kinds \subseteq None .. Block PROVE Best(kinds) \in kinds \union {None}
<1>1. \A k \in kinds : k \in 0 .. 3
  BY DEF None, Block
<1>2. \E k \in kinds \union {None} : \A j \in kinds : j <= k
  <2>1. CASE 3 \in kinds
    BY <1>1, <2>1
  <2>2. CASE 3 \notin kinds /\ 2 \in kinds
    BY <1>1, <2>2
  <2>3. CASE 3 \notin kinds /\ 2 \notin kinds /\ 1 \in kinds
    BY <1>1, <2>3
  <2>4. CASE 3 \notin kinds /\ 2 \notin kinds /\ 1 \notin kinds
    BY <1>1, <2>4 DEF None
  <2> QED
    BY <2>1, <2>2, <2>3, <2>4
<1> QED
  BY <1>2 DEF Best

\* Unifying loses no automaton, and no storyline its armed ones.
LEMMA UnifiedLines ==
    ASSUME NEW g, NEW r, NEW d, Graph(g, r, d), NEW t \in Nat,
           \A sid \in DOMAIN g.lines : LineSound(g.lines[sid], t),
           NEW e, e.actor \in DOMAIN g.parent, e.object \in DOMAIN g.parent,
           NEW u, NEW r2, Unified(g, u, e, r, r2)
    PROVE  /\ \A sid \in DOMAIN u.lines : LineSound(u.lines[sid], t)
           /\ u.sid \in DOMAIN u.lines
           /\ \A sid \in DOMAIN g.lines :
                 r2[sid] \in DOMAIN u.lines /\ Keeps(g.lines[sid], u.lines[r2[sid]])
           /\ \A sid \in DOMAIN u.lines :
                 sid \in DOMAIN g.lines /\ (HoldsArmed(g.lines[sid]) => HoldsArmed(u.lines[sid]))
<1>1. \A sid \in DOMAIN g.lines : r[sid] = sid /\ sid \in DOMAIN r
  BY DEF Graph, Forest
<1>2. CASE u.lines = g.lines /\ r2 = r /\ u.sid = r[e.actor]
  <2>1. r[e.actor] \in DOMAIN g.lines
    BY RootsAreRoots DEF Graph
  <2> QED
    BY <1>1, <1>2, <2>1 DEF Keeps
<1>3. ASSUME NEW root \in DOMAIN g.lines, NEW child \in DOMAIN g.lines, root # child,
             u.lines = JoinedLines(g.lines, root, child),
             r2 = Rerooted(r, root, child), u.sid = root
      PROVE  /\ \A sid \in DOMAIN u.lines : LineSound(u.lines[sid], t)
             /\ u.sid \in DOMAIN u.lines
             /\ \A sid \in DOMAIN g.lines :
                   r2[sid] \in DOMAIN u.lines /\ Keeps(g.lines[sid], u.lines[r2[sid]])
             /\ \A sid \in DOMAIN u.lines :
                   sid \in DOMAIN g.lines /\ (HoldsArmed(g.lines[sid]) => HoldsArmed(u.lines[sid]))
  <2> DEFINE j == Joined(g.lines[root], g.lines[child])
  <2>1. /\ LineSound(j, t) /\ Keeps(g.lines[root], j) /\ Keeps(g.lines[child], j)
        /\ HoldsArmed(g.lines[root]) => HoldsArmed(j)
    BY JoinedSound
  <2> HIDE DEF j
  <2>2. /\ DOMAIN u.lines = DOMAIN g.lines \ {child}
        /\ \A sid \in DOMAIN g.lines \ {child} : u.lines[sid] = IF sid = root THEN j ELSE g.lines[sid]
    BY <1>3 DEF JoinedLines, j
  <2>3. \A sid \in DOMAIN g.lines : r2[sid] = IF sid = child THEN root ELSE sid
    BY <1>1, <1>3 DEF Rerooted
  <2>4. \A x : Keeps(x, x)
    BY DEF Keeps
  <2>5. \A sid \in DOMAIN g.lines :
           r2[sid] \in DOMAIN u.lines /\ Keeps(g.lines[sid], u.lines[r2[sid]])
    BY <1>3, <2>1, <2>2, <2>3, <2>4
  <2> QED
    BY <1>3, <2>1, <2>2, <2>5
<1> QED
  BY <1>2, <1>3 DEF Unified
-----------------------------------------------------------------------------
(***************************************************************************)
(* The inductive invariant: the storylines are the trees of a forest whose *)
(* trees are the causal components, every automaton in them is sound, and  *)
(* a root that has an arm holds an automaton that armed.                   *)
(***************************************************************************)
Engine == [parent |-> parent, lines |-> lines]

Trees == \E r : \E d : Graph(Engine, r, d) /\ Components(causes, parent, r)

LinesSound == \A sid \in DOMAIN lines : LineSound(lines[sid], clock)

ArmsFounded ==
    /\ DOMAIN arms \subseteq DOMAIN parent
    /\ \A sid \in DOMAIN arms : sid \in DOMAIN lines => HoldsArmed(lines[sid])

IInv == clock \in Nat /\ Trees /\ LinesSound /\ ArmsFounded /\ DeniedOnEvidence

LEMMA InitInv == Init => IInv
<1> SUFFICES ASSUME Init PROVE IInv
  OBVIOUS
<1>1. /\ parent = <<>> /\ lines = <<>> /\ arms = <<>> /\ clock = 0
      /\ answer.decision = "allow" /\ causes = {} /\ DOMAIN <<>> = {}
  BY DEF Init
<1>2. Graph(Engine, <<>>, <<>>)
  <2>1. Engine.parent = <<>> /\ Engine.lines = <<>>
    BY <1>1 DEF Engine
  <2>2. <<>> \in [{} -> {}] /\ <<>> \in [{} -> Nat] /\ <<>> = [k \in {} |-> <<>>[k]]
    OBVIOUS
  <2> QED
    BY <1>1, <2>1, <2>2 DEF Graph, Forest
<1>3. Components(causes, parent, <<>>)
  BY <1>1 DEF Components
<1>4. LinesSound /\ ArmsFounded /\ DeniedOnEvidence
  BY <1>1 DEF LinesSound, ArmsFounded, DeniedOnEvidence
<1> QED
  BY <1>1, <1>2, <1>3, <1>4 DEF IInv, Trees

\* What happens is one of the inputs, at its time.
LEMMA EventType ==
    ASSUME NEW i \in Inputs, NEW t
    PROVE  /\ At(i, t).ts = t
           /\ At(i, t).actor \in Keys /\ At(i, t).object \in Keys
           /\ At(i, t).actor # NoKey /\ At(i, t).object # NoKey
  BY InputsAssumption DEF At

\* What on_event leaves, with the graph g unified and its automata moved.
Outcome(e, g, moved) ==
    LET best  == Best({moved[id].verdict : id \in DOMAIN moved})
        armed == {moved[id].arm : id \in DOMAIN moved} \ {NoArm}
    IN  /\ parent' = g.parent
        /\ lines' = [g.lines EXCEPT ![g.sid] = Automata(moved)]
        /\ \/ armed = {} /\ arms' = arms
           \/ \E op \in armed :
                arms' = [s \in DOMAIN arms \union {g.sid} |-> IF s = g.sid THEN op ELSE arms[s]]
        /\ clock' = e.ts
        /\ answer' = [decision |-> IF best = Block \/ KernelDenies(g.sid, g.lines[g.sid], e.op)
                                     THEN "deny" ELSE "allow",
                      verdict |-> best, sid |-> g.sid]
        /\ causes' = CausesWith(e)

LEMMA OutcomeOf ==
    ASSUME NEW e, OnEvent(e)
    PROVE  LET g == Unify(Resolve(e), e)
           IN  Outcome(e, g, Moved(Seeded(g.lines[g.sid], e), e))
<1>1. \E g \in {Unify(Resolve(e), e)} : \E moved \in {Moved(Seeded(g.lines[g.sid], e), e)} :
         Outcome(e, g, moved)
  BY Zenon DEF OnEvent, Outcome, Automata
<1> QED
  BY <1>1

(***************************************************************************)
(* An event: the roots r2 after it, and how the storylines of before are   *)
(* found again in those after.                                             *)
(***************************************************************************)
LEMMA EventStep ==
    ASSUME IInv, NEW e, e.ts \in Nat, clock <= e.ts,
           e.actor # NoKey, e.object # NoKey, OnEvent(e)
    PROVE  /\ IInv'
           /\ \A sid \in DOMAIN lines :
                 Root(parent', sid) \in DOMAIN lines' /\ Keeps(lines[sid], lines'[Root(parent', sid)])
<1> DEFINE h == Resolve(e)
           g == Unify(h, e)
           line == Seeded(g.lines[g.sid], e)
           moved == Moved(line, e)
           best == Best({moved[id].verdict : id \in DOMAIN moved})
           armed == {moved[id].arm : id \in DOMAIN moved} \ {NoArm}
<1>1. /\ parent' = g.parent
      /\ lines' = [g.lines EXCEPT ![g.sid] = Automata(moved)]
      /\ \/ armed = {} /\ arms' = arms
         \/ \E op \in armed : arms' = [s \in DOMAIN arms \union {g.sid} |-> IF s = g.sid THEN op ELSE arms[s]]
      /\ clock' = e.ts
      /\ answer' = [decision |-> IF best = Block \/ KernelDenies(g.sid, g.lines[g.sid], e.op)
                                   THEN "deny" ELSE "allow",
                    verdict |-> best, sid |-> g.sid]
      /\ causes' = CausesWith(e)
  BY OutcomeOf DEF Outcome
<1>2. PICK r, d : Graph(Engine, r, d) /\ Components(causes, parent, r)
  BY DEF IInv, Trees
<1> DEFINE r1 == RootsWith(r, e)
           d1 == DepthsWith(d, e)
<1>3. /\ Graph(h, r1, d1)
      /\ DOMAIN h.parent = DOMAIN parent \union New(e)
      /\ DOMAIN h.lines = DOMAIN lines \union New(e)
      /\ \A k \in DOMAIN lines : h.lines[k] = lines[k]
      /\ \A k \in New(e) : h.lines[k] = <<>>
  BY <1>2, ResolveGraph DEF Engine
<1>4. e.actor \in DOMAIN h.parent /\ e.object \in DOMAIN h.parent
  BY <1>3 DEF New
<1> HIDE DEF h, r1, d1
<1>5. PICK r2, d2 : /\ Graph(g, r2, d2) /\ Unified(h, g, e, r1, r2)
                    /\ DOMAIN g.parent = DOMAIN h.parent
  BY <1>3, <1>4, UnifyGraph
<1>6. ASSUME NEW sid \in DOMAIN h.lines PROVE LineSound(h.lines[sid], e.ts)
  <2>1. CASE sid \in DOMAIN lines
    <3>1. LineSound(lines[sid], clock) /\ clock \in Nat
      BY <2>1 DEF IInv, LinesSound
    <3>2. LineSound(lines[sid], e.ts)
      BY <3>1, SoundLater DEF LineSound
    <3> QED
      BY <1>3, <2>1, <3>2
  <2>2. CASE sid \in New(e)
    <3>1. DOMAIN <<>> = {}
      OBVIOUS
    <3> QED
      BY <1>3, <2>2, <3>1 DEF LineSound
  <2> QED
    BY <1>3, <2>1, <2>2
<1>7. /\ \A sid \in DOMAIN g.lines : LineSound(g.lines[sid], e.ts)
      /\ g.sid \in DOMAIN g.lines
      /\ \A sid \in DOMAIN h.lines :
            r2[sid] \in DOMAIN g.lines /\ Keeps(h.lines[sid], g.lines[r2[sid]])
      /\ \A sid \in DOMAIN g.lines :
            sid \in DOMAIN h.lines /\ (HoldsArmed(h.lines[sid]) => HoldsArmed(g.lines[sid]))
  BY <1>3, <1>4, <1>5, <1>6, UnifiedLines
<1> HIDE DEF g
<1>8. /\ LineSound(line, e.ts) /\ Keeps(g.lines[g.sid], line)
      /\ HoldsArmed(g.lines[g.sid]) => HoldsArmed(line)
  BY <1>7, SeededSound
<1> HIDE DEF line
<1>9. /\ DOMAIN moved = DOMAIN line
      /\ \A id \in DOMAIN line : Tried(id, line[id], moved[id], e.ts)
      /\ LineSound(Automata(moved), e.ts)
      /\ Keeps(line, Automata(moved))
      /\ HoldsArmed(line) => HoldsArmed(Automata(moved))
  BY <1>8, MovedSound
<1> HIDE DEF moved
<1>10. /\ DOMAIN lines' = DOMAIN g.lines
       /\ \A sid \in DOMAIN g.lines : lines'[sid] = IF sid = g.sid THEN Automata(moved) ELSE g.lines[sid]
  BY <1>1
<1>11. \A sid \in DOMAIN g.lines : /\ Keeps(g.lines[sid], lines'[sid])
                                   /\ HoldsArmed(g.lines[sid]) => HoldsArmed(lines'[sid])
  BY <1>8, <1>9, <1>10, KeepsTransitive DEF Keeps
<1>12. Trees'
  <2>1. Graph(Engine', r2, d2)
    <3>1. Engine'.parent = g.parent /\ Engine'.lines = lines'
      BY <1>1 DEF Engine
    <3> QED
      BY <1>5, <1>10, <3>1 DEF Graph
  <2>2. Components(causes', parent', r2)
    <3>1. r1 \in [DOMAIN h.parent -> DOMAIN h.parent]
      BY <1>3 DEF Graph, Forest
    <3>2. \A k \in DOMAIN parent : r[k] \in DOMAIN parent
      BY <1>2 DEF Graph, Forest, Engine
    <3>3. Components(CausesWith(e), h.parent, r2)
      BY <1>2, <1>3, <1>4, <1>5, <3>1, <3>2, CausesStep DEF r1
    <3> QED
      BY <1>1, <1>5, <3>3 DEF Components
  <2> QED
    BY <2>1, <2>2 DEF Trees
<1>13. LinesSound'
  BY <1>1, <1>7, <1>9, <1>10 DEF LinesSound
<1>14. ASSUME armed # {} PROVE HoldsArmed(Automata(moved))
  <2>1. PICK id \in DOMAIN moved : moved[id].arm # NoArm
    BY <1>14
  <2>2. moved[id].a.armed
    BY <1>9, <2>1 DEF Tried
  <2> QED
    BY <2>2 DEF HoldsArmed, Automata
<1>15. \A sid \in DOMAIN arms : sid \in DOMAIN g.lines => HoldsArmed(g.lines[sid])
  <2>1. ASSUME NEW sid \in DOMAIN arms, sid \in DOMAIN g.lines PROVE HoldsArmed(g.lines[sid])
    <3>1. sid \in DOMAIN parent /\ sid \in DOMAIN h.lines
      BY <1>7, <2>1 DEF IInv, ArmsFounded
    <3>2. sid \in DOMAIN lines
      BY <1>3, <3>1 DEF New
    <3>3. HoldsArmed(h.lines[sid])
      BY <1>3, <3>2 DEF IInv, ArmsFounded
    <3> QED
      BY <1>7, <2>1, <3>3
  <2> QED
    BY <2>1
<1>16. ArmsFounded'
  <2>1. DOMAIN arms' \subseteq DOMAIN arms \union {g.sid}
    BY <1>1
  <2>2. DOMAIN parent \subseteq DOMAIN parent' /\ g.sid \in DOMAIN parent'
    BY <1>1, <1>3, <1>5, <1>7 DEF Graph
  <2>3. DOMAIN arms' \subseteq DOMAIN parent'
    BY <2>1, <2>2 DEF IInv, ArmsFounded
  <2>4. ASSUME NEW sid \in DOMAIN arms', sid \in DOMAIN lines' PROVE HoldsArmed(lines'[sid])
    <3>1. CASE sid \in DOMAIN arms
      BY <1>10, <1>11, <1>15, <2>4, <3>1
    <3>2. CASE sid \notin DOMAIN arms
      <4>1. sid = g.sid /\ armed # {}
        BY <1>1, <3>2
      <4> QED
        BY <1>7, <1>10, <1>14, <4>1
    <3> QED
      BY <3>1, <3>2
  <2> QED
    BY <2>3, <2>4 DEF ArmsFounded
<1>17. DeniedOnEvidence'
  <2>1. SUFFICES ASSUME answer'.decision = "deny"
                 PROVE  \E id \in DOMAIN lines'[answer'.sid] :
                            \/ lines'[answer'.sid][id].armed
                            \/ Accepting(PatternOf(id), lines'[answer'.sid][id])
    BY DEF DeniedOnEvidence
  <2>2. answer'.sid = g.sid /\ lines'[g.sid] = Automata(moved)
    BY <1>1, <1>7, <1>10
  <2>3. best = Block \/ KernelDenies(g.sid, g.lines[g.sid], e.op)
    BY <1>1, <2>1
  <2>4. CASE best = Block
    <3>1. {moved[id].verdict : id \in DOMAIN moved} \subseteq None .. Block
      BY <1>9 DEF Tried
    <3>2. best \in {moved[id].verdict : id \in DOMAIN moved} \union {None}
      BY <3>1, BestOf
    <3>3. PICK id \in DOMAIN moved : moved[id].verdict = Block
      BY <2>4, <3>2 DEF None, Block
    <3>4. Accepting(PatternOf(id), moved[id].a)
      BY <1>9, <3>3 DEF Tried
    <3> QED
      BY <2>2, <3>4 DEF Automata
  <2>5. CASE KernelDenies(g.sid, g.lines[g.sid], e.op)
    <3>1. HoldsArmed(g.lines[g.sid])
      BY <1>7, <1>15, <2>5 DEF KernelDenies
    <3>2. HoldsArmed(Automata(moved))
      BY <1>8, <1>9, <3>1
    <3> QED
      BY <2>2, <3>2 DEF HoldsArmed
  <2> QED
    BY <2>3, <2>4, <2>5
<1>18. IInv'
  BY <1>1, <1>12, <1>13, <1>16, <1>17 DEF IInv
<1>19. ASSUME NEW sid \in DOMAIN lines
       PROVE  Root(parent', sid) \in DOMAIN lines' /\ Keeps(lines[sid], lines'[Root(parent', sid)])
  <2>1. sid \in DOMAIN h.lines /\ h.lines[sid] = lines[sid] /\ sid \in DOMAIN g.parent
    BY <1>3, <1>5 DEF Graph
  <2>2. Root(parent', sid) = r2[sid]
    BY <1>1, <1>5, <2>1, RootIs DEF Graph
  <2>3. r2[sid] \in DOMAIN lines' /\ Keeps(lines[sid], g.lines[r2[sid]])
    BY <1>7, <1>10, <2>1
  <2> QED
    BY <1>10, <1>11, <2>2, <2>3, KeepsTransitive
<1> QED
  BY <1>18, <1>19
-----------------------------------------------------------------------------
LEMMA NextStep ==
    ASSUME IInv, Next
    PROVE  /\ IInv'
           /\ \A sid \in DOMAIN lines :
                 Root(parent', sid) \in DOMAIN lines' /\ Keeps(lines[sid], lines'[Root(parent', sid)])
<1>1. PICK i \in Inputs, t \in clock .. MaxTime : OnEvent(At(i, t))
  BY DEF Next
<1>2. t \in Nat /\ clock <= t
  BY InputsAssumption DEF IInv
<1> QED
  BY <1>1, <1>2, EventType, EventStep

LEMMA NextInv == IInv /\ [Next]_vars => IInv'
<1> SUFFICES ASSUME IInv, [Next]_vars PROVE IInv'
  OBVIOUS
<1>1. CASE Next
  BY <1>1, NextStep
<1>2. CASE UNCHANGED vars
  BY <1>2 DEF vars, IInv, Trees, Engine, LinesSound, ArmsFounded, DeniedOnEvidence
<1> QED
  BY <1>1, <1>2

(***************************************************************************)
(* The invariant holds throughout.                                         *)
(***************************************************************************)
THEOREM Invariance == Spec => []IInv
<1>1. Init => IInv
  BY InitInv
<1>2. IInv /\ [Next]_vars => IInv'
  BY NextInv
<1> QED
  BY <1>1, <1>2, PTL DEF Spec

(***************************************************************************)
(* find never ends at a storyline that a merge removed, whatever the order *)
(* of the merges and of the path compressions: the unwraps of on_event and *)
(* merge find a storyline.                                                 *)
(***************************************************************************)
THEOREM RootsCorrect == Spec => []RootsOwnStorylines
<1>1. IInv => RootsOwnStorylines
  BY DEF IInv, Trees, Graph, Engine, RootsOwnStorylines
<1> QED
  BY <1>1, Invariance, PTL

(***************************************************************************)
(* Two nodes share a storyline exactly when causal events connect them.    *)
(***************************************************************************)
THEOREM CausalCorrect == Spec => []StorylinesAreCausal
<1>1. IInv => StorylinesAreCausal
  <2> SUFFICES ASSUME IInv, NEW j \in DOMAIN parent, NEW k \in DOMAIN parent
               PROVE  Root(parent, j) = Root(parent, k) <=> \E c \in causes : {j, k} \subseteq c
    BY DEF StorylinesAreCausal
  <2>1. PICK r, d : Forest(parent, r, d) /\ Components(causes, parent, r)
    BY DEF IInv, Trees, Graph, Engine
  <2>2. Root(parent, j) = r[j] /\ Root(parent, k) = r[k]
    BY <2>1, RootIs
  <2> QED
    BY <2>1, <2>2 DEF Components
<1> QED
  BY <1>1, Invariance, PTL

(***************************************************************************)
(* A step done has its prerequisites done and none of them later, also in  *)
(* an automaton that was put together from two storylines.                 *)
(***************************************************************************)
THEOREM EvidenceOrderedCorrect == Spec => []EvidenceOrdered
<1>1. IInv => EvidenceOrdered
  BY DEF IInv, LinesSound, LineSound, Sound, EvidenceOrdered
<1> QED
  BY <1>1, Invariance, PTL

(***************************************************************************)
(* An event is denied only in a storyline that holds an automaton which    *)
(* armed or accepts.                                                       *)
(***************************************************************************)
THEOREM DeniedOnEvidenceCorrect == Spec => []DeniedOnEvidence
<1>1. IInv => DeniedOnEvidence
  BY DEF IInv
<1> QED
  BY <1>1, Invariance, PTL

(***************************************************************************)
(* No step an automaton took is ever lost, through any merge.              *)
(***************************************************************************)
THEOREM EvidenceKeptCorrect == Spec => EvidenceKept
<1> DEFINE Kept == \A sid \in DOMAIN lines : \A id \in DOMAIN lines[sid] :
                      /\ id \in DOMAIN lines'[Root(parent', sid)]
                      /\ lines[sid][id].done \subseteq lines'[Root(parent', sid)][id].done
<1>1. IInv /\ [Next]_vars => [Kept]_vars
  BY NextStep DEF Keeps
<1>2. Spec => [][Kept]_vars
  BY <1>1, Invariance, PTL DEF Spec
<1> QED
  BY <1>2 DEF EvidenceKept
=============================================================================
