-------------------------- MODULE EngineDiffProofs --------------------------
(***************************************************************************)
(* What the kernel engine keeps to, for every capacity of its tables,      *)
(* every rule set, and every number of entities: its tables stay sound at  *)
(* their limits, what it knows the reference engine knows too, and until   *)
(* it meets a limit it is the reference engine.                            *)
(***************************************************************************)
EXTENDS EngineDiff, FiniteSetTheorems, SequenceTheorems, WellFoundedInduction, TLAPS

\* The kernel engine's Cardinality is the one the theorems on finite sets are about.
LEMMA SameCardinality == \A X : Kernel!Cardinality(X) = Cardinality(X)
  BY Zenon DEF Kernel!Cardinality, Cardinality

\* A list, whatever its entries are.
Listed(q) == q \in Seq({q[i] : i \in DOMAIN q})

LEMMA ListedProperties ==
    ASSUME NEW q, Listed(q)
    PROVE  /\ Len(q) \in Nat /\ DOMAIN q = 1 .. Len(q)
           /\ \A i \in 1 .. Len(q) : q[i] \in {q[j] : j \in DOMAIN q}
  BY LenProperties DEF Listed

LEMMA SeqListed == ASSUME NEW X, NEW q \in Seq(X) PROVE Listed(q)
<1> DEFINE R == {q[i] : i \in DOMAIN q}
<1>1. Len(q) \in Nat /\ DOMAIN q = 1 .. Len(q) /\ q \in [1 .. Len(q) -> X]
  BY LenProperties
<1>2. q \in [1 .. Len(q) -> R]
  BY <1>1
<1>3. q \in Seq(R)
  BY <1>1, <1>2, SeqDef
<1> QED
  BY <1>3 DEF Listed

\* A function over an initial segment of the numbers is a list.
LEMMA FunctionListed ==
    ASSUME NEW n \in Nat, NEW q, q = [i \in 1 .. n |-> q[i]]
    PROVE  Listed(q) /\ Len(q) = n /\ DOMAIN q = 1 .. n
<1> DEFINE R == {q[i] : i \in 1 .. n}
<1>1. q \in [1 .. n -> R] /\ DOMAIN q = 1 .. n
  OBVIOUS
<1>2. q \in Seq(R)
  BY <1>1, SeqDef
<1>3. Len(q) = n
  BY <1>1, <1>2, LenProperties
<1> QED
  BY <1>1, <1>2, <1>3, SeqListed

LEMMA ConcatListed ==
    ASSUME NEW a, NEW b, Listed(a), Listed(b)
    PROVE  /\ Listed(a \o b)
           /\ Len(a \o b) = Len(a) + Len(b)
           /\ DOMAIN (a \o b) = 1 .. Len(a) + Len(b)
           /\ \A i \in DOMAIN (a \o b) :
                \/ \E j \in DOMAIN a : (a \o b)[i] = a[j]
                \/ \E j \in DOMAIN b : (a \o b)[i] = b[j]
<1> DEFINE R == {a[i] : i \in DOMAIN a} \union {b[i] : i \in DOMAIN b}
           c == a \o b
<1>1. a \in Seq(R) /\ b \in Seq(R)
  BY SeqMonotonic DEF Listed
<1>2. /\ Len(a) \in Nat /\ DOMAIN a = 1 .. Len(a)
      /\ Len(b) \in Nat /\ DOMAIN b = 1 .. Len(b)
  BY ListedProperties
<1> HIDE DEF R
<1>3. /\ c \in Seq(R) /\ Len(c) = Len(a) + Len(b)
      /\ \A i \in 1 .. Len(a) + Len(b) : c[i] = IF i <= Len(a) THEN a[i] ELSE b[i - Len(a)]
  BY <1>1, ConcatProperties
<1>4. Listed(c) /\ DOMAIN c = 1 .. Len(a) + Len(b)
  BY <1>3, SeqListed, LenProperties
<1> HIDE DEF c
<1>5. ASSUME NEW i \in DOMAIN c
      PROVE  \/ \E j \in DOMAIN a : c[i] = a[j]
             \/ \E j \in DOMAIN b : c[i] = b[j]
  <2>1. CASE i <= Len(a)
    BY <1>2, <1>3, <1>4, <2>1
  <2>2. CASE ~ (i <= Len(a))
    <3>1. i - Len(a) \in 1 .. Len(b)
      BY <1>2, <1>4, <2>2
    <3> QED
      BY <1>2, <1>3, <1>4, <2>2, <3>1
  <2> QED
    BY <2>1, <2>2
<1> QED
  BY <1>3, <1>4, <1>5 DEF c
-----------------------------------------------------------------------------
Slots == Kernel!Slots

\* The tables of a record [ent, slots]: known keys have slots, and the slab leaks none.
Sound(t) ==
    /\ DOMAIN t.ent \subseteq Keys
    /\ \A k \in DOMAIN t.ent : t.ent[k] \in Slots
    /\ DOMAIN t.slots = Slots
    /\ \A s \in Slots :
         /\ DOMAIN t.slots[s] = {"used", "members", "autos"}
         /\ t.slots[s].used <=> \E k \in DOMAIN t.ent : t.ent[k] = s
         /\ t.slots[s].members = {k \in DOMAIN t.ent : t.ent[k] = s}

\* No array has outgrown its capacity.
Roomy(t) ==
    /\ IsFiniteSet(DOMAIN t.ent) /\ Cardinality(DOMAIN t.ent) <= CapEnt
    /\ \A s \in Slots : /\ Cardinality(t.slots[s].members) <= CapMembers
                        /\ Listed(t.slots[s].autos)
                        /\ Len(t.slots[s].autos) <= CapAuto

LEMMA CapsType ==
    /\ CapEnt \in Nat /\ CapEnt >= 1
    /\ CapLines \in Nat
    /\ CapMembers \in Nat /\ CapMembers >= 1
    /\ CapAuto \in Nat /\ CapAuto >= 1
    /\ CapDis \in Nat /\ CapDis >= 1
    /\ Slots = 1 .. CapLines
  BY DiffAssumption DEF Slots, Kernel!Slots

\* alloc_line finds a slot, if there is one that is not in use.
LEMMA AllocUnused ==
    ASSUME NEW sl, Kernel!Unused(sl) # {}
    PROVE  Kernel!AllocLine(sl) \in Kernel!Unused(sl)
<1> DEFINE U == Kernel!Unused(sl)
           Less == OpToRel(<, Nat)
<1>1. U \subseteq Nat
  BY CapsType DEF Kernel!Unused, Slots
<1>2. PICK x \in U : \A y \in U : <<y, x>> \notin Less
  <2>1. IsWellFoundedOn(Less, Nat)
    BY NatLessThanWellFounded
  <2> QED
    BY <1>1, <2>1, WFMin
<1>3. \A y \in U : x <= y
  <2> SUFFICES ASSUME NEW y \in U PROVE x <= y
    OBVIOUS
  <2>1. x \in Nat /\ y \in Nat
    BY <1>1, <1>2
  <2>2. y < x => <<y, x>> \in Less
    BY <2>1 DEF OpToRel
  <2> HIDE DEF Less
  <2>3. ~ (y < x)
    BY <1>2, <2>2
  <2> QED
    BY <2>1, <2>3
<1> QED
  BY <1>2, <1>3 DEF Kernel!AllocLine

(***************************************************************************)
(* resolve_line opens a slot of its own for a new key, and touches no      *)
(* other; there is a cell and a slot for it.                               *)
(***************************************************************************)
LEMMA ResolveTable ==
    ASSUME NEW t, Sound(t), NEW k \in Keys, k \notin DOMAIN t.ent, Kernel!CanResolve(t, k)
    PROVE  \E s \in Slots :
             LET new == Kernel!Resolve(t, k)
             IN  /\ \A x \in DOMAIN t.ent : t.ent[x] # s
                 /\ DOMAIN new.ent = DOMAIN t.ent \union {k}
                 /\ \A x \in DOMAIN new.ent : new.ent[x] = IF x = k THEN s ELSE t.ent[x]
                 /\ DOMAIN new.slots = Slots
                 /\ \A z \in Slots : new.slots[z] =
                      IF z = s THEN [used |-> TRUE, members |-> {k}, autos |-> <<>>]
                      ELSE t.slots[z]
<1> DEFINE s == Kernel!AllocLine(t.slots)
           new == Kernel!Resolve(t, k)
<1>1. s \in Slots /\ ~ t.slots[s].used
  <2>1. Kernel!Unused(t.slots) # {}
    BY DEF Kernel!CanResolve
  <2> QED
    BY <2>1, AllocUnused DEF Kernel!Unused, Slots
<1>2. \A x \in DOMAIN t.ent : t.ent[x] # s
  BY <1>1 DEF Sound
<1>3. /\ new.ent = Kernel!Put(t.ent, k, s)
      /\ new.slots = [t.slots EXCEPT ![s] = [used |-> TRUE, members |-> {k}, autos |-> <<>>]]
  BY DEF Kernel!Resolve
<1> HIDE DEF s, new
<1>4. /\ DOMAIN new.ent = DOMAIN t.ent \union {k}
      /\ \A x \in DOMAIN new.ent : new.ent[x] = IF x = k THEN s ELSE t.ent[x]
  <2>1. /\ DOMAIN Kernel!Put(t.ent, k, s) = DOMAIN t.ent \union {k}
        /\ \A x \in DOMAIN t.ent \union {k} :
             Kernel!Put(t.ent, k, s)[x] = IF x = k THEN s ELSE t.ent[x]
    BY DEF Kernel!Put
  <2> QED
    BY <1>3, <2>1
<1>5. /\ DOMAIN new.slots = Slots
      /\ \A z \in Slots : new.slots[z] =
           IF z = s THEN [used |-> TRUE, members |-> {k}, autos |-> <<>>] ELSE t.slots[z]
  BY <1>1, <1>3 DEF Sound
<1> QED
  BY <1>1, <1>2, <1>4, <1>5 DEF new

LEMMA ResolveSound ==
    ASSUME NEW t, Sound(t), Roomy(t), NEW k \in Keys, Kernel!CanResolve(t, k)
    PROVE  /\ Sound(Kernel!Resolve(t, k)) /\ Roomy(Kernel!Resolve(t, k))
           /\ DOMAIN Kernel!Resolve(t, k).ent = DOMAIN t.ent \union {k}
<1>1. CASE k \in DOMAIN t.ent
  BY <1>1 DEF Kernel!Resolve
<1>2. CASE k \notin DOMAIN t.ent
  <2> DEFINE new == Kernel!Resolve(t, k)
  <2>1. PICK s \in Slots :
          /\ \A x \in DOMAIN t.ent : t.ent[x] # s
          /\ DOMAIN new.ent = DOMAIN t.ent \union {k}
          /\ \A x \in DOMAIN new.ent : new.ent[x] = IF x = k THEN s ELSE t.ent[x]
          /\ DOMAIN new.slots = Slots
          /\ \A z \in Slots : new.slots[z] =
               IF z = s THEN [used |-> TRUE, members |-> {k}, autos |-> <<>>]
               ELSE t.slots[z]
    BY <1>2, ResolveTable
  <2> HIDE DEF new
  <2>2. /\ DOMAIN new.ent \subseteq Keys
        /\ \A x \in DOMAIN new.ent : new.ent[x] \in Slots
    BY <2>1 DEF Sound
  <2>3. ASSUME NEW z \in Slots
        PROVE  /\ DOMAIN new.slots[z] = {"used", "members", "autos"}
               /\ new.slots[z].used <=> \E x \in DOMAIN new.ent : new.ent[x] = z
               /\ new.slots[z].members = {x \in DOMAIN new.ent : new.ent[x] = z}
    <3>1. CASE z = s
      <4>1. {x \in DOMAIN new.ent : new.ent[x] = z} = {k}
        BY <2>1, <3>1
      <4>2. new.slots[z] = [used |-> TRUE, members |-> {k}, autos |-> <<>>]
        BY <2>1, <3>1
      <4>3. \E x \in DOMAIN new.ent : new.ent[x] = z
        BY <4>1
      <4> QED
        BY <4>1, <4>2, <4>3
    <3>2. CASE z # s
      <4>1. new.slots[z] = t.slots[z]
        BY <2>1, <3>2
      <4>2. \A x \in DOMAIN new.ent : new.ent[x] = z <=> x \in DOMAIN t.ent /\ t.ent[x] = z
        BY <1>2, <2>1, <3>2
      <4>3. {x \in DOMAIN new.ent : new.ent[x] = z} = {x \in DOMAIN t.ent : t.ent[x] = z}
        BY <2>1, <4>2
      <4>4. (\E x \in DOMAIN new.ent : new.ent[x] = z) <=> (\E x \in DOMAIN t.ent : t.ent[x] = z)
        BY <2>1, <4>2
      <4> QED
        BY <4>1, <4>3, <4>4 DEF Sound
    <3> QED
      BY <3>1, <3>2
  <2>4. Sound(new)
    BY <2>1, <2>2, <2>3 DEF Sound
  <2>5. IsFiniteSet(DOMAIN new.ent) /\ Cardinality(DOMAIN new.ent) <= CapEnt
    <3>1. IsFiniteSet(DOMAIN t.ent) /\ Cardinality(DOMAIN t.ent) < CapEnt
      <4>1. IsFiniteSet(DOMAIN t.ent)
        BY DEF Roomy
      <4>2. Cardinality(DOMAIN t.ent) < CapEnt
        BY <1>2, SameCardinality DEF Kernel!CanResolve
      <4> QED
        BY <4>1, <4>2
    <3>2. Cardinality(DOMAIN t.ent) \in Nat
      BY <3>1, FS_CardinalityType
    <3>3. /\ IsFiniteSet(DOMAIN t.ent \union {k})
          /\ Cardinality(DOMAIN t.ent \union {k}) = Cardinality(DOMAIN t.ent) + 1
      BY <1>2, <3>1, FS_AddElement
    <3> QED
      BY <2>1, <3>1, <3>2, <3>3, CapsType
  <2>6. ASSUME NEW z \in Slots
        PROVE  /\ Cardinality(new.slots[z].members) <= CapMembers
               /\ Listed(new.slots[z].autos)
               /\ Len(new.slots[z].autos) <= CapAuto
    <3>1. CASE z = s
      <4>1. new.slots[z].members = {k} /\ new.slots[z].autos = <<>>
        BY <2>1, <3>1
      <4>2. Cardinality({k}) = 1
        BY FS_Singleton
      <4>3. Listed(<<>>) /\ Len(<<>>) = 0
        BY EmptySeq, SeqListed
      <4> QED
        BY <4>1, <4>2, <4>3, CapsType
    <3>2. CASE z # s
      BY <2>1, <3>2 DEF Roomy
    <3> QED
      BY <3>1, <3>2
  <2>7. Roomy(new)
    BY <2>5, <2>6 DEF Roomy
  <2> QED
    BY <2>1, <2>4, <2>7 DEF new
<1> QED
  BY <1>1, <1>2

\* new is t with slot y emptied into slot x.
Folded(t, x, y, new) ==
    /\ DOMAIN new.ent = DOMAIN t.ent
    /\ \A k \in DOMAIN t.ent : new.ent[k] = IF t.ent[k] = y THEN x ELSE t.ent[k]
    /\ DOMAIN new.slots = Slots
    /\ \A z \in Slots :
         /\ DOMAIN new.slots[z] = {"used", "members", "autos"}
         /\ z = y => new.slots[z] = [used |-> FALSE, members |-> {}, autos |-> <<>>]
         /\ z = x => /\ new.slots[z].used <=> t.slots[x].used
                     /\ new.slots[z].members = t.slots[x].members \union t.slots[y].members
                     /\ new.slots[z].autos = t.slots[x].autos \o t.slots[y].autos
         /\ z # x /\ z # y => new.slots[z] = t.slots[z]

(***************************************************************************)
(* merge empties one slot into the other and leaves the rest as they are.  *)
(***************************************************************************)
LEMMA FoldTable ==
    ASSUME NEW t, Sound(t), NEW x \in Slots, NEW y \in Slots, x # y
    PROVE  Folded(t, x, y, Kernel!Fold(t, x, y))
<1> DEFINE new == Kernel!Fold(t, x, y)
           big == [t.slots[x] EXCEPT !.members = t.slots[x].members \union t.slots[y].members]
           both == [big EXCEPT !.autos = t.slots[x].autos \o t.slots[y].autos]
<1>1. new.ent = [k \in DOMAIN t.ent |-> IF k \in t.slots[y].members THEN x ELSE t.ent[k]]
  BY DEF Kernel!Fold
<1>2. \A k \in DOMAIN t.ent : k \in t.slots[y].members <=> t.ent[k] = y
  BY DEF Sound
<1>3. DOMAIN t.slots = Slots /\ DOMAIN t.slots[x] = {"used", "members", "autos"}
  BY DEF Sound
<1>4. new.slots = [t.slots EXCEPT
                     ![x].members = @ \union t.slots[y].members,
                     ![x].autos   = @ \o t.slots[y].autos,
                     ![y] = Kernel!FreeSlot]
  BY DEF Kernel!Fold
<1>5. /\ DOMAIN new.slots = Slots
      /\ new.slots[x] = both
      /\ new.slots[y] = Kernel!FreeSlot
      /\ \A z \in Slots : z # x /\ z # y => new.slots[z] = t.slots[z]
  BY <1>3, <1>4
<1>6. /\ DOMAIN both = {"used", "members", "autos"}
      /\ both.used <=> t.slots[x].used
      /\ both.members = t.slots[x].members \union t.slots[y].members
      /\ both.autos = t.slots[x].autos \o t.slots[y].autos
  BY <1>3
<1> HIDE DEF new, both
<1>7. \A z \in Slots : DOMAIN new.slots[z] = {"used", "members", "autos"}
  BY <1>5, <1>6 DEF Sound, Kernel!FreeSlot
<1>8. DOMAIN new.ent = DOMAIN t.ent
      /\ \A k \in DOMAIN t.ent : new.ent[k] = IF t.ent[k] = y THEN x ELSE t.ent[k]
  BY <1>1, <1>2
<1> QED
  BY <1>5, <1>6, <1>7, <1>8 DEF new, Kernel!FreeSlot, Folded

LEMMA FoldSound ==
    ASSUME NEW t, Sound(t), Roomy(t), NEW x \in Slots, NEW y \in Slots, x # y,
           \E k \in DOMAIN t.ent : t.ent[k] = x,
           Kernel!Fits(t, x, y)
    PROVE  Sound(Kernel!Fold(t, x, y)) /\ Roomy(Kernel!Fold(t, x, y))
<1> DEFINE new == Kernel!Fold(t, x, y)
<1>0. Folded(t, x, y, new)
  BY FoldTable
<1> HIDE DEF new
<1>1. /\ DOMAIN new.ent = DOMAIN t.ent
      /\ \A k \in DOMAIN t.ent : new.ent[k] = IF t.ent[k] = y THEN x ELSE t.ent[k]
      /\ DOMAIN new.slots = Slots
      /\ \A z \in Slots :
           /\ DOMAIN new.slots[z] = {"used", "members", "autos"}
           /\ z = y => new.slots[z] = [used |-> FALSE, members |-> {}, autos |-> <<>>]
           /\ z = x => /\ new.slots[z].used <=> t.slots[x].used
                       /\ new.slots[z].members = t.slots[x].members \union t.slots[y].members
                       /\ new.slots[z].autos = t.slots[x].autos \o t.slots[y].autos
           /\ z # x /\ z # y => new.slots[z] = t.slots[z]
  BY <1>0 DEF Folded
<1>2. DOMAIN new.ent \subseteq Keys /\ \A k \in DOMAIN new.ent : new.ent[k] \in Slots
  BY <1>1 DEF Sound
<1>3. ASSUME NEW z \in Slots
      PROVE  /\ new.slots[z].used <=> \E k \in DOMAIN new.ent : new.ent[k] = z
             /\ new.slots[z].members = {k \in DOMAIN new.ent : new.ent[k] = z}
  <2>1. \A s \in Slots : /\ t.slots[s].used <=> \E k \in DOMAIN t.ent : t.ent[k] = s
                         /\ t.slots[s].members = {k \in DOMAIN t.ent : t.ent[k] = s}
    BY DEF Sound
  <2>2. CASE z = y
    <3>1. \A k \in DOMAIN new.ent : new.ent[k] # z
      BY <1>1, <2>2
    <3>2. new.slots[z] = [used |-> FALSE, members |-> {}, autos |-> <<>>]
      BY <1>1, <2>2
    <3> QED
      BY <3>1, <3>2
  <2>3. CASE z = x
    <3>1. \A k \in DOMAIN t.ent : new.ent[k] = z <=> t.ent[k] = x \/ t.ent[k] = y
      BY <1>1, <2>3
    <3>2. /\ new.slots[z].used <=> t.slots[x].used
          /\ new.slots[z].members = t.slots[x].members \union t.slots[y].members
      BY <1>1, <2>3
    <3>3. \E k \in DOMAIN new.ent : new.ent[k] = z
      BY <1>1, <3>1
    <3>4. t.slots[x].used
      BY <2>1
    <3>5. {k \in DOMAIN new.ent : new.ent[k] = z}
            = t.slots[x].members \union t.slots[y].members
      BY <1>1, <2>1, <3>1
    <3> QED
      BY <3>2, <3>3, <3>4, <3>5
  <2>4. CASE z # x /\ z # y
    <3>1. \A k \in DOMAIN t.ent : new.ent[k] = z <=> t.ent[k] = z
      BY <1>1, <2>4
    <3>2. new.slots[z] = t.slots[z]
      BY <1>1, <2>4
    <3>3. {k \in DOMAIN new.ent : new.ent[k] = z} = {k \in DOMAIN t.ent : t.ent[k] = z}
      BY <1>1, <3>1
    <3>4. (\E k \in DOMAIN new.ent : new.ent[k] = z) <=> (\E k \in DOMAIN t.ent : t.ent[k] = z)
      BY <1>1, <3>1
    <3> QED
      BY <2>1, <3>2, <3>3, <3>4
  <2> QED
    BY <2>2, <2>3, <2>4
<1>4. Sound(new)
  BY <1>1, <1>2, <1>3 DEF Sound
<1>5. ASSUME NEW z \in Slots
      PROVE  /\ Cardinality(new.slots[z].members) <= CapMembers
             /\ Listed(new.slots[z].autos)
             /\ Len(new.slots[z].autos) <= CapAuto
  <2> DEFINE mx == t.slots[x].members
             my == t.slots[y].members
             ax == t.slots[x].autos
             ay == t.slots[y].autos
  <2>1. CASE z = y
    <3>1. new.slots[z].members = {} /\ new.slots[z].autos = <<>>
      <4>1. new.slots[z] = [used |-> FALSE, members |-> {}, autos |-> <<>>]
        BY <1>1, <2>1
      <4> QED
        BY <4>1
    <3>2. Cardinality({}) = 0 /\ Listed(<<>>) /\ Len(<<>>) = 0
      BY FS_EmptySet, EmptySeq, SeqListed
    <3> QED
      BY <3>1, <3>2, CapsType
  <2>2. CASE z = x
    <3>1. new.slots[z].members = mx \union my /\ new.slots[z].autos = ax \o ay
      BY <1>1, <2>2
    <3>2. Cardinality(mx) + Cardinality(my) <= CapMembers /\ Len(ax) + Len(ay) <= CapAuto
      BY SameCardinality DEF Kernel!Fits
    <3>3. IsFiniteSet(mx) /\ IsFiniteSet(my)
      <4>1. mx \in SUBSET DOMAIN t.ent /\ my \in SUBSET DOMAIN t.ent
        BY DEF Sound
      <4>2. IsFiniteSet(DOMAIN t.ent)
        BY DEF Roomy
      <4> QED
        BY <4>1, <4>2, FS_Subset
    <3>4. Listed(ax) /\ Listed(ay)
      BY DEF Roomy
    <3> HIDE DEF mx, my, ax, ay
    <3>5. Cardinality(mx \union my) <= Cardinality(mx) + Cardinality(my)
      <4>1. Cardinality(mx \union my) = Cardinality(mx) + Cardinality(my) - Cardinality(mx \cap my)
        BY <3>3, FS_Union
      <4>2. IsFiniteSet(mx \cap my)
        BY <3>3, FS_Intersection
      <4>3. Cardinality(mx) \in Nat /\ Cardinality(my) \in Nat /\ Cardinality(mx \cap my) \in Nat
        BY <3>3, <4>2, FS_CardinalityType
      <4> QED
        BY <4>1, <4>3
    <3>6. Cardinality(mx \union my) \in Nat /\ Cardinality(mx) \in Nat /\ Cardinality(my) \in Nat
      BY <3>3, FS_Union, FS_CardinalityType
    <3>7. Listed(ax \o ay) /\ Len(ax \o ay) = Len(ax) + Len(ay)
      BY <3>4, ConcatListed
    <3> QED
      BY <3>1, <3>2, <3>5, <3>6, <3>7, CapsType
  <2>3. CASE z # x /\ z # y
    BY <1>1, <2>3 DEF Roomy
  <2> QED
    BY <2>1, <2>2, <2>3
<1>6. Roomy(new)
  BY <1>1, <1>5 DEF Roomy
<1> QED
  BY <1>4, <1>6 DEF new

\* unify leaves the tables sound, whether or not the storylines fit together, and
\* folds only one of the two storylines into the other.
LEMMA UnifySound ==
    ASSUME NEW t, Sound(t), Roomy(t), NEW a \in DOMAIN t.ent, NEW o \in DOMAIN t.ent
    PROVE  /\ Sound(Kernel!Unify(t, a, o)) /\ Roomy(Kernel!Unify(t, a, o))
           /\ \/ Kernel!Unify(t, a, o) = t
              \/ /\ t.ent[a] # t.ent[o]
                 /\ Kernel!Unify(t, a, o) \in {Kernel!Fold(t, t.ent[a], t.ent[o]),
                                              Kernel!Fold(t, t.ent[o], t.ent[a])}
<1> DEFINE x == t.ent[a]
           y == t.ent[o]
<1>1. x \in Slots /\ y \in Slots
  BY DEF Sound
<1>2. CASE Kernel!Unify(t, a, o) = t
  BY <1>2
<1>3. CASE Kernel!Unify(t, a, o) # t
  <2>1. /\ x # y /\ Kernel!Fits(t, x, y)
        /\ Kernel!Unify(t, a, o) \in {Kernel!Fold(t, x, y), Kernel!Fold(t, y, x)}
    BY <1>3 DEF Kernel!Unify, Kernel!Merge
  <2>2. Kernel!Fits(t, y, x)
    <3>1. /\ IsFiniteSet(t.slots[x].members) /\ IsFiniteSet(t.slots[y].members)
          /\ Listed(t.slots[x].autos) /\ Listed(t.slots[y].autos)
      <4>1. t.slots[x].members \in SUBSET DOMAIN t.ent /\ t.slots[y].members \in SUBSET DOMAIN t.ent
        BY <1>1 DEF Sound
      <4>2. IsFiniteSet(DOMAIN t.ent)
        BY DEF Roomy
      <4> QED
        BY <1>1, <4>1, <4>2, FS_Subset DEF Roomy
    <3>2. /\ Cardinality(t.slots[x].members) \in Nat /\ Cardinality(t.slots[y].members) \in Nat
          /\ Len(t.slots[x].autos) \in Nat /\ Len(t.slots[y].autos) \in Nat
      BY <3>1, FS_CardinalityType, ListedProperties
    <3>3. /\ Cardinality(t.slots[x].members) + Cardinality(t.slots[y].members) <= CapMembers
          /\ Len(t.slots[x].autos) + Len(t.slots[y].autos) <= CapAuto
      BY <2>1, SameCardinality DEF Kernel!Fits
    <3>4. \A i, j \in Nat : i + j = j + i
      OBVIOUS
    <3>5. /\ Cardinality(t.slots[y].members) + Cardinality(t.slots[x].members) <= CapMembers
          /\ Len(t.slots[y].autos) + Len(t.slots[x].autos) <= CapAuto
      BY <3>2, <3>3, <3>4, Zenon
    <3> QED
      BY <3>5, SameCardinality DEF Kernel!Fits
  <2>3. Sound(Kernel!Fold(t, x, y)) /\ Roomy(Kernel!Fold(t, x, y))
    BY <1>1, <2>1, FoldSound
  <2>4. Sound(Kernel!Fold(t, y, x)) /\ Roomy(Kernel!Fold(t, y, x))
    BY <1>1, <2>1, <2>2, FoldSound
  <2> QED
    BY <2>1, <2>3, <2>4
<1> QED
  BY <1>2, <1>3
-----------------------------------------------------------------------------
\* Induction, over a set of naturals.
LEMMA SetInduction ==
    ASSUME NEW X, 0 \in X, \A n \in Nat : n \in X => n + 1 \in X
    PROVE  \A n \in Nat : n \in X
<1> DEFINE Less == OpToRel(<, Nat)
           Missed == Nat \ X
<1>1. ASSUME Missed # {} PROVE FALSE
  <2>1. PICK x \in Missed : \A y \in Missed : <<y, x>> \notin Less
    <3>1. IsWellFoundedOn(Less, Nat)
      BY NatLessThanWellFounded
    <3> QED
      BY <1>1, <3>1, WFMin
  <2>2. x \in Nat /\ x \notin X /\ x # 0
    BY <2>1
  <2>3. x - 1 \in Nat /\ x = (x - 1) + 1
    BY <2>2
  <2>4. <<x - 1, x>> \in Less
    BY <2>2, <2>3 DEF OpToRel
  <2>5. x - 1 \in X
    BY <2>1, <2>3, <2>4
  <2>6. (x - 1) + 1 \in X
    BY <2>3, <2>5
  <2> QED
    BY <2>2, <2>3, <2>6
<1> QED
  BY <1>1

\* The seeds of one pattern, and those of the first n of them, one after the other.
Sown(p, e) == [i \in 1 .. Kernel!Cardinality(Kernel!Roots(p, e)) |-> [pid |-> p, done |-> {}]]
Nothing == <<>>
Glue(p, q, e) == q \o Sown(p, e)
IsUpTo(g, n, e) == g = [p \in 0 .. n |-> IF p = 0 THEN Nothing ELSE Glue(p, g[p-1], e)]

LEMMA UpToUnfolds ==
    ASSUME NEW g, NEW n \in Nat, NEW e, IsUpTo(g, n, e)
    PROVE  g[0] = Nothing /\ \A p \in 1 .. n : g[p] = Glue(p, g[p-1], e)
  BY DEF IsUpTo

LEMMA UpToExists == ASSUME NEW e PROVE \A n \in Nat : \E g : IsUpTo(g, n, e)
<1> DEFINE X == {n \in Nat : \E g : IsUpTo(g, n, e)}
<1>1. 0 \in X
  <2>1. IsUpTo([p \in 0 .. 0 |-> Nothing], 0, e)
    BY DEF IsUpTo
  <2> QED
    BY <2>1
<1>2. ASSUME NEW n \in Nat, n \in X PROVE n + 1 \in X
  <2>1. PICK g : IsUpTo(g, n, e)
    BY <1>2
  <2> DEFINE h == [p \in 0 .. n + 1 |-> IF p = n + 1 THEN Glue(n + 1, g[n], e) ELSE g[p]]
  <2>2. ASSUME NEW p \in 0 .. n + 1
        PROVE  h[p] = IF p = 0 THEN Nothing ELSE Glue(p, h[p-1], e)
    <3>1. CASE p = 0
      BY <2>1, <3>1, UpToUnfolds
    <3>2. CASE p \in 1 .. n
      <4>1. h[p] = g[p] /\ h[p-1] = g[p-1]
        BY <3>2
      <4>2. g[p] = Glue(p, g[p-1], e)
        BY <2>1, <3>2, UpToUnfolds
      <4> QED
        BY <3>2, <4>1, <4>2
    <3>3. CASE p = n + 1
      BY <3>3
    <3> QED
      BY <3>1, <3>2, <3>3
  <2>3. h = [p \in 0 .. n + 1 |-> h[p]]
    OBVIOUS
  <2> HIDE DEF h
  <2>4. IsUpTo(h, n + 1, e)
    BY <2>2, <2>3 DEF IsUpTo
  <2> QED
    BY <2>4
<1>3. \A n \in Nat : n \in X
  <2>1. \A n \in Nat : n \in X => n + 1 \in X
    BY <1>2
  <2> HIDE DEF X
  <2> QED
    BY <1>1, <2>1, SetInduction
<1> QED
  BY <1>3

\* An entry of the seed list: an empty automaton of a pattern with a root that e matches.
IsSeed(a, e) ==
    /\ a = [pid |-> a.pid, done |-> {}]
    /\ a.pid \in 1 .. Len(patterns)
    /\ Kernel!Roots(a.pid, e) # {}

\* What the loader leaves behind is a rule set, whatever is in it.
RulesType == patterns \in Seq(Seq(DagStep))

LEMMA SownListed ==
    ASSUME RulesType, NEW e, NEW p \in 1 .. Len(patterns)
    PROVE  Listed(Sown(p, e)) /\ \A i \in DOMAIN Sown(p, e) : IsSeed(Sown(p, e)[i], e)
<1> DEFINE roots == Kernel!Roots(p, e)
           n == Kernel!Cardinality(roots)
<1>1. IsFiniteSet(roots)
  <2>1. patterns[p] \in Seq(DagStep)
    BY ElementOfSeq DEF RulesType
  <2>2. Len(patterns[p]) \in Int /\ 1 \in Int /\ DOMAIN patterns[p] = 1 .. Len(patterns[p])
    BY <2>1, LenProperties
  <2>3. IsFiniteSet(1 .. Len(patterns[p]))
    BY <2>2, FS_Interval, Zenon
  <2>4. roots \in SUBSET (1 .. Len(patterns[p]))
    BY <2>2 DEF Kernel!Roots
  <2> QED
    BY <2>3, <2>4, FS_Subset
<1> HIDE DEF roots
<1>2. n \in Nat /\ (n >= 1 => roots # {})
  <2>1. n = Cardinality(roots)
    BY SameCardinality
  <2>2. Cardinality(roots) \in Nat /\ (Cardinality(roots) = 0 <=> roots = {})
    BY <1>1, FS_CardinalityType, FS_EmptySet
  <2> QED
    BY <2>1, <2>2
<1>3. Sown(p, e) = [i \in 1 .. n |-> [pid |-> p, done |-> {}]]
  BY DEF Sown, roots
<1> HIDE DEF n
<1>4. Sown(p, e) = [i \in 1 .. n |-> Sown(p, e)[i]]
  BY <1>3
<1>5. Listed(Sown(p, e)) /\ DOMAIN Sown(p, e) = 1 .. n
  BY <1>2, <1>4, FunctionListed
<1>6. ASSUME NEW i \in 1 .. n PROVE IsSeed(Sown(p, e)[i], e)
  <2>1. Sown(p, e)[i] = [pid |-> p, done |-> {}]
    BY <1>3
  <2>2. roots # {}
    BY <1>2
  <2> QED
    BY <2>1, <2>2 DEF IsSeed, roots
<1> QED
  BY <1>5, <1>6

(***************************************************************************)
(* Part (a) of advance lists seeds and nothing else.                       *)
(***************************************************************************)
LEMMA AllSeedsListed ==
    ASSUME RulesType, NEW e
    PROVE  /\ Listed(Kernel!AllSeeds(e))
           /\ \A i \in DOMAIN Kernel!AllSeeds(e) : IsSeed(Kernel!AllSeeds(e)[i], e)
<1> DEFINE N == Len(patterns)
           u == CHOOSE g : IsUpTo(g, N, e)
           Fine == {n \in Nat : n <= N =>
                      Listed(u[n]) /\ \A i \in DOMAIN u[n] : IsSeed(u[n][i], e)}
<1>1. N \in Nat
  BY LenProperties DEF RulesType
<1>2. IsUpTo(u, N, e)
  BY <1>1, UpToExists
<1>3. Kernel!AllSeeds(e) = u[N]
  BY DEF Kernel!AllSeeds, IsUpTo, Sown, Nothing, Glue
<1>4. u[0] = Nothing /\ \A p \in 1 .. N : u[p] = Glue(p, u[p-1], e)
  <2> HIDE DEF u, N
  <2> QED
    BY <1>1, <1>2, UpToUnfolds
<1> HIDE DEF u
<1>5. 0 \in Fine
  <2>1. Nothing \in Seq({}) /\ Len(Nothing) = 0
    BY EmptySeq DEF Nothing
  <2>2. Listed(Nothing) /\ DOMAIN Nothing = 1 .. 0
    BY <2>1, SeqListed, ListedProperties
  <2> QED
    BY <1>4, <2>2
<1>6. ASSUME NEW n \in Nat, n \in Fine, n + 1 <= N
      PROVE  Listed(u[n + 1]) /\ \A i \in DOMAIN u[n + 1] : IsSeed(u[n + 1][i], e)
  <2> DEFINE a == u[n]
             b == Sown(n + 1, e)
  <2>1. Listed(a) /\ \A i \in DOMAIN a : IsSeed(a[i], e)
    BY <1>1, <1>6
  <2>2. Listed(b) /\ \A i \in DOMAIN b : IsSeed(b[i], e)
    <3>1. n + 1 \in 1 .. Len(patterns)
      BY <1>1, <1>6
    <3> QED
      BY <3>1, SownListed
  <2>3. u[n + 1] = a \o b
    <3>1. n + 1 \in 1 .. N /\ (n + 1) - 1 = n
      BY <1>1, <1>6
    <3> QED
      BY <1>4, <3>1 DEF Glue
  <2> HIDE DEF a, b
  <2>4. Listed(a \o b) /\ \A i \in DOMAIN (a \o b) : IsSeed((a \o b)[i], e)
    <3>1. /\ Listed(a \o b)
          /\ \A i \in DOMAIN (a \o b) : \/ \E j \in DOMAIN a : (a \o b)[i] = a[j]
                                        \/ \E j \in DOMAIN b : (a \o b)[i] = b[j]
      BY <2>1, <2>2, ConcatListed
    <3> DEFINE c == a \o b
    <3> HIDE DEF c
    <3>2. \A i \in DOMAIN c : IsSeed(c[i], e)
      BY <2>1, <2>2, <3>1 DEF c
    <3> QED
      BY <3>1, <3>2 DEF c
  <2> QED
    BY <2>3, <2>4
<1>7. \A n \in Nat : n \in Fine
  <2>1. \A n \in Nat : n \in Fine => n + 1 \in Fine
    BY <1>6
  <2> HIDE DEF Fine
  <2> QED
    BY <1>5, <2>1, SetInduction
<1> QED
  BY <1>1, <1>3, <1>7

(***************************************************************************)
(* Both parts of advance stay within the array: it holds what it held and  *)
(* as many seeds as there is room for, each advanced.                      *)
(***************************************************************************)
LEMMA SeededListed ==
    ASSUME RulesType, NEW e, NEW q, Listed(q)
    PROVE  LET s == Kernel!Seeded(q, e)
           IN  /\ Listed(s) /\ Len(s) <= CapAuto
               /\ \A i \in DOMAIN s : (\E j \in DOMAIN q : s[i] = q[j]) \/ IsSeed(s[i], e)
<1> DEFINE all == q \o Kernel!AllSeeds(e)
           n == IF Len(all) <= CapAuto THEN Len(all) ELSE CapAuto
<1>1. /\ Listed(Kernel!AllSeeds(e))
      /\ \A i \in DOMAIN Kernel!AllSeeds(e) : IsSeed(Kernel!AllSeeds(e)[i], e)
  BY AllSeedsListed
<1>2. /\ Listed(all)
      /\ \A i \in DOMAIN all : \/ \E j \in DOMAIN q : all[i] = q[j]
                               \/ \E j \in DOMAIN Kernel!AllSeeds(e) : all[i] = Kernel!AllSeeds(e)[j]
  BY <1>1, ConcatListed
<1> HIDE DEF all
<1>3. \A i \in DOMAIN all : (\E j \in DOMAIN q : all[i] = q[j]) \/ IsSeed(all[i], e)
  BY <1>1, <1>2
<1>4. Len(all) \in Nat /\ DOMAIN all = 1 .. Len(all)
  BY <1>2, ListedProperties
<1>5. n \in Nat /\ n <= CapAuto /\ n <= Len(all)
  BY <1>4, CapsType
<1>6. Kernel!Seeded(q, e) = SubSeq(all, 1, n)
  BY DEF Kernel!Seeded, all
<1> HIDE DEF n
<1> DEFINE R == {all[i] : i \in DOMAIN all}
           s == SubSeq(all, 1, n)
<1>7. \A i \in 1 .. n : all[i] \in R
  BY <1>4, <1>5
<1> HIDE DEF R
<1>8. /\ s \in Seq(R)
      /\ Len(s) = IF 1 <= n THEN n - 1 + 1 ELSE 0
      /\ \A i \in 1 .. n - 1 + 1 : s[i] = all[1 + i - 1]
  BY <1>5, <1>7, SubSeqProperties
<1> HIDE DEF s
<1>9. Listed(s) /\ Len(s) = n /\ DOMAIN s = 1 .. n
  BY <1>5, <1>8, SeqListed, LenProperties
<1>10. \A i \in DOMAIN s : i \in DOMAIN all /\ s[i] = all[i]
  BY <1>4, <1>5, <1>8, <1>9
<1> QED
  BY <1>3, <1>5, <1>6, <1>9, <1>10 DEF s

LEMMA AdvancedListed ==
    ASSUME NEW e, NEW s, Listed(s)
    PROVE  LET new == Kernel!Advanced(s, e)
           IN  /\ Listed(new) /\ Len(new) = Len(s) /\ DOMAIN new = DOMAIN s
               /\ \A i \in DOMAIN s :
                    new[i] = [s[i] EXCEPT !.done = Kernel!Progress(s[i].pid, s[i].done, e)]
<1> DEFINE new == Kernel!Advanced(s, e)
<1>1. new = [i \in DOMAIN s |-> [s[i] EXCEPT !.done = Kernel!Progress(s[i].pid, s[i].done, e)]]
  BY DEF Kernel!Advanced
<1>2. Len(s) \in Nat /\ DOMAIN s = 1 .. Len(s)
  BY ListedProperties
<1>3. new = [i \in 1 .. Len(s) |-> new[i]]
  BY <1>1, <1>2
<1> HIDE DEF new
<1>4. Listed(new) /\ Len(new) = Len(s) /\ DOMAIN new = 1 .. Len(s)
  BY <1>2, <1>3, FunctionListed
<1> QED
  BY <1>1, <1>2, <1>4 DEF new

\* A storyline's array may be replaced by any list it has room for.
LEMMA AdvanceSound ==
    ASSUME NEW t, Sound(t), Roomy(t), NEW s \in Slots,
           NEW q, Listed(q), Len(q) <= CapAuto
    PROVE  LET new == [ent |-> t.ent, slots |-> [t.slots EXCEPT ![s].autos = q]]
           IN  Sound(new) /\ Roomy(new)
<1> DEFINE new == [ent |-> t.ent, slots |-> [t.slots EXCEPT ![s].autos = q]]
<1>1. new.ent = t.ent /\ DOMAIN new.slots = Slots
  BY DEF Sound
<1>2. DOMAIN t.slots[s] = {"used", "members", "autos"}
  BY DEF Sound
<1>3. new.slots[s] = [t.slots[s] EXCEPT !.autos = q]
  BY DEF Sound
<1>4. /\ DOMAIN new.slots[s] = DOMAIN t.slots[s]
      /\ new.slots[s].used = t.slots[s].used
      /\ new.slots[s].members = t.slots[s].members
      /\ new.slots[s].autos = q
  BY <1>2, <1>3
<1>5. \A z \in Slots : z # s => new.slots[z] = t.slots[z]
  BY DEF Sound
<1> HIDE DEF new
<1>6. Sound(new)
  BY <1>1, <1>4, <1>5 DEF Sound
<1>7. Roomy(new)
  BY <1>1, <1>4, <1>5 DEF Roomy
<1> QED
  BY <1>6, <1>7 DEF new
-----------------------------------------------------------------------------
(***************************************************************************)
(* The wire gives back the rules it was given, as long as their counts fit *)
(* the fields they are written to.  A blob carries, from a place on, the   *)
(* list that was written there; what the reader takes from that place is   *)
(* then what the list was written of: an action, a step, a pattern, and    *)
(* the rule set.                                                           *)
(***************************************************************************)
Carries(b, pos, c) ==
    /\ Listed(b) /\ Listed(c)
    /\ pos \in Nat \ {0} /\ pos + Len(c) <= Len(b) + 1
    /\ \A i \in 1 .. Len(c) : b[pos + i - 1] = c[i]

\* The concatenation, entry by entry.
LEMMA ConcatSplit ==
    ASSUME NEW a, NEW c, Listed(a), Listed(c)
    PROVE  /\ Listed(a \o c) /\ Len(a \o c) = Len(a) + Len(c)
           /\ \A i \in 1 .. Len(a) : (a \o c)[i] = a[i]
           /\ \A i \in 1 .. Len(c) : (a \o c)[Len(a) + i] = c[i]
<1> DEFINE R == {a[i] : i \in DOMAIN a} \union {c[i] : i \in DOMAIN c}
           d == a \o c
<1>1. a \in Seq(R) /\ c \in Seq(R)
  BY SeqMonotonic DEF Listed
<1>2. Len(a) \in Nat /\ Len(c) \in Nat
  BY ListedProperties
<1> HIDE DEF R
<1>3. \A i \in 1 .. Len(a) + Len(c) : d[i] = IF i <= Len(a) THEN a[i] ELSE c[i - Len(a)]
  BY <1>1, ConcatProperties
<1>4. Listed(d) /\ Len(d) = Len(a) + Len(c)
  BY ConcatListed
<1> HIDE DEF d
<1>5. ASSUME NEW i \in 1 .. Len(a) PROVE d[i] = a[i]
  BY <1>2, <1>3
<1>6. ASSUME NEW i \in 1 .. Len(c) PROVE d[Len(a) + i] = c[i]
  <2>1. Len(a) + i \in 1 .. Len(a) + Len(c) /\ ~ (Len(a) + i <= Len(a)) /\ (Len(a) + i) - Len(a) = i
    BY <1>2
  <2> QED
    BY <1>3, <2>1
<1> QED
  BY <1>4, <1>5, <1>6 DEF d

LEMMA CarriesBoth ==
    ASSUME NEW b, NEW pos, NEW a, NEW c, Listed(a), Listed(c), Carries(b, pos, a \o c)
    PROVE  /\ Carries(b, pos, a) /\ Carries(b, pos + Len(a), c)
           /\ Len(a \o c) = Len(a) + Len(c)
<1> DEFINE d == a \o c
<1>1. /\ Len(d) = Len(a) + Len(c)
      /\ \A i \in 1 .. Len(a) : d[i] = a[i]
      /\ \A i \in 1 .. Len(c) : d[Len(a) + i] = c[i]
  BY ConcatSplit
<1>2. Len(a) \in Nat /\ Len(c) \in Nat /\ Len(b) \in Nat
  BY ListedProperties DEF Carries
<1>3. /\ pos \in Nat \ {0} /\ pos + Len(d) <= Len(b) + 1
      /\ \A i \in 1 .. Len(d) : b[pos + i - 1] = d[i]
  BY DEF Carries
<1> HIDE DEF d
<1>4. Carries(b, pos, a)
  BY <1>1, <1>2, <1>3 DEF Carries
<1>5. ASSUME NEW i \in 1 .. Len(c) PROVE b[(pos + Len(a)) + i - 1] = c[i]
  <2>1. Len(a) + i \in 1 .. Len(d) /\ (pos + Len(a)) + i - 1 = pos + (Len(a) + i) - 1
    BY <1>1, <1>2, <1>3
  <2> QED
    BY <1>1, <1>3, <2>1
<1>6. Carries(b, pos + Len(a), c)
  BY <1>1, <1>2, <1>3, <1>5 DEF Carries
<1> QED
  BY <1>1, <1>4, <1>6 DEF d

\* A field that a blob carries is the one that is taken from there.
LEMMA TakeReads ==
    ASSUME NEW b, NEW pos, NEW c, Carries(b, pos, c), NEW i \in 1 .. Len(c)
    PROVE  /\ Take(b, pos + i - 1) = [next |-> pos + i, val |-> c[i]]
           /\ pos + i \in Places(b) \ {0} /\ pos + i - 1 \in Places(b) \ {0}
<1>1. /\ Len(b) \in Nat /\ DOMAIN b = 1 .. Len(b) /\ Len(c) \in Nat
      /\ pos \in Nat \ {0} /\ pos + Len(c) <= Len(b) + 1 /\ b[pos + i - 1] = c[i]
  BY ListedProperties DEF Carries
<1>2. pos + i - 1 \in 1 .. Len(b) /\ (pos + i - 1) + 1 = pos + i
  BY <1>1
<1> QED
  BY <1>1, <1>2 DEF Take, Places

(***************************************************************************)
(* The parts of a chain are where their lengths put them.                  *)
(***************************************************************************)
Behind(q, c) == q \o c
IsChain(g, n, first, parts) ==
    g = [i \in 0 .. n |-> IF i = 0 THEN first ELSE Behind(g[i-1], parts[i])]

LEMMA ChainUnfolds ==
    ASSUME NEW g, NEW n \in Nat, NEW first, NEW parts, IsChain(g, n, first, parts)
    PROVE  g[0] = first /\ \A i \in 1 .. n : g[i] = Behind(g[i-1], parts[i])
  BY DEF IsChain

LEMMA ChainExists ==
    ASSUME NEW first, NEW parts
    PROVE  \A n \in Nat : \E g : IsChain(g, n, first, parts)
<1> DEFINE X == {n \in Nat : \E g : IsChain(g, n, first, parts)}
<1>1. 0 \in X
  <2>1. IsChain([i \in 0 .. 0 |-> first], 0, first, parts)
    BY DEF IsChain
  <2> QED
    BY <2>1
<1>2. ASSUME NEW n \in Nat, n \in X PROVE n + 1 \in X
  <2>1. PICK g : IsChain(g, n, first, parts)
    BY <1>2
  <2> DEFINE h == [i \in 0 .. n + 1 |-> IF i = n + 1 THEN Behind(g[n], parts[n+1]) ELSE g[i]]
  <2>2. ASSUME NEW i \in 0 .. n + 1
        PROVE  h[i] = IF i = 0 THEN first ELSE Behind(h[i-1], parts[i])
    <3>1. CASE i = 0
      BY <2>1, <3>1, ChainUnfolds
    <3>2. CASE i \in 1 .. n
      <4>1. h[i] = g[i] /\ h[i-1] = g[i-1]
        BY <3>2
      <4>2. g[i] = Behind(g[i-1], parts[i])
        BY <2>1, <3>2, ChainUnfolds
      <4> QED
        BY <3>2, <4>1, <4>2
    <3>3. CASE i = n + 1
      BY <3>3
    <3> QED
      BY <3>1, <3>2, <3>3
  <2>3. h = [i \in 0 .. n + 1 |-> h[i]]
    OBVIOUS
  <2> HIDE DEF h
  <2>4. IsChain(h, n + 1, first, parts)
    BY <2>2, <2>3 DEF IsChain
  <2> QED
    BY <2>4
<1>3. \A n \in Nat : n \in X
  <2>1. \A n \in Nat : n \in X => n + 1 \in X
    BY <1>2
  <2> HIDE DEF X
  <2> QED
    BY <1>1, <2>1, SetInduction
<1> QED
  BY <1>3

LEMMA ChainIs ==
    ASSUME NEW first, NEW n \in Nat, NEW parts, Len(parts) = n
    PROVE  \E g : IsChain(g, n, first, parts) /\ Chain(first, parts) = g[n]
<1>1. \E g : IsChain(g, n, first, parts)
  BY ChainExists
<1> DEFINE up == CHOOSE g : IsChain(g, n, first, parts)
<1>2. IsChain(up, n, first, parts)
  BY <1>1
<1>3. Chain(first, parts) = up[n]
  BY DEF Chain, IsChain, Behind
<1> QED
  BY <1>2, <1>3

LEMMA ChainListed ==
    ASSUME NEW first, Listed(first), NEW n \in Nat, NEW parts,
           \A i \in 1 .. n : Listed(parts[i]), NEW g, IsChain(g, n, first, parts)
    PROVE  \A i \in 0 .. n : Listed(g[i])
<1>1. g[0] = first /\ \A i \in 1 .. n : g[i] = Behind(g[i-1], parts[i])
  BY ChainUnfolds
<1> DEFINE X == {i \in Nat : i <= n => Listed(g[i])}
<1>2. 0 \in X
  BY <1>1
<1>3. ASSUME NEW i \in Nat, i \in X PROVE i + 1 \in X
  <2>1. CASE i + 1 <= n
    <3>1. i + 1 \in 1 .. n /\ (i + 1) - 1 = i /\ Listed(g[i])
      BY <1>3, <2>1
    <3>2. g[i+1] = Behind(g[i], parts[i+1]) /\ Listed(parts[i+1])
      BY <1>1, <3>1
    <3>3. Listed(Behind(g[i], parts[i+1]))
      BY <3>1, <3>2, ConcatListed, Zenon DEF Behind
    <3> QED
      BY <3>2, <3>3
  <2> QED
    BY <2>1
<1>4. \A i \in Nat : i \in X
  <2>1. \A i \in Nat : i \in X => i + 1 \in X
    BY <1>3
  <2> HIDE DEF X
  <2> QED
    BY <1>2, <2>1, SetInduction
<1> QED
  BY <1>4

\* b has the n parts one behind the other, the i-th behind place at[i-1].
LaidOut(at, b, from, to, n, parts) ==
    /\ at[0] = from /\ at[n] = to
    /\ \A i \in 1 .. n : /\ Carries(b, at[i-1], parts[i])
                         /\ at[i] = at[i-1] + Len(parts[i])

LEMMA ChainCarried ==
    ASSUME NEW first, Listed(first), NEW n \in Nat, NEW parts, Len(parts) = n,
           \A i \in 1 .. n : Listed(parts[i]),
           NEW b, NEW pos, Carries(b, pos, Chain(first, parts))
    PROVE  /\ Carries(b, pos, first)
           /\ \E at : LaidOut(at, b, pos + Len(first), pos + Len(Chain(first, parts)),
                              n, parts)
<1>1. PICK g : IsChain(g, n, first, parts) /\ Chain(first, parts) = g[n]
  BY ChainIs
<1>2. g[0] = first /\ \A i \in 1 .. n : g[i] = Behind(g[i-1], parts[i])
  BY <1>1, ChainUnfolds
<1>3. \A i \in 0 .. n : Listed(g[i])
  BY <1>1, ChainListed
<1>4. ASSUME NEW i \in 1 .. n, Carries(b, pos, g[i])
      PROVE  /\ Carries(b, pos, g[i-1]) /\ Carries(b, pos + Len(g[i-1]), parts[i])
             /\ Len(g[i]) = Len(g[i-1]) + Len(parts[i])
  <2>1. i - 1 \in 0 .. n /\ Listed(g[i-1]) /\ Listed(parts[i]) /\ g[i] = Behind(g[i-1], parts[i])
    BY <1>2, <1>3
  <2> QED
    BY <1>4, <2>1, CarriesBoth DEF Behind
<1>5. \A i \in 0 .. n : Carries(b, pos, g[i])
  <2> DEFINE X == {k \in Nat : k <= n => Carries(b, pos, g[n-k])}
  <2>1. 0 \in X
    BY <1>1
  <2>2. ASSUME NEW k \in Nat, k \in X PROVE k + 1 \in X
    <3>1. CASE k + 1 <= n
      <4>1. n - k \in 1 .. n /\ (n - k) - 1 = n - (k + 1) /\ Carries(b, pos, g[n-k])
        BY <2>2, <3>1
      <4>2. Carries(b, pos, g[(n-k)-1])
        BY <1>4, <4>1
      <4> QED
        BY <4>1, <4>2
    <3> QED
      BY <3>1
  <2>3. \A k \in Nat : k \in X
    <3>1. \A k \in Nat : k \in X => k + 1 \in X
      BY <2>2
    <3> HIDE DEF X
    <3> QED
      BY <2>1, <3>1, SetInduction
  <2>4. ASSUME NEW i \in 0 .. n PROVE Carries(b, pos, g[i])
    <3>1. n - i \in Nat /\ n - i <= n /\ n - (n - i) = i
      OBVIOUS
    <3>2. n - i \in X
      BY <2>3, <3>1
    <3> QED
      BY <3>1, <3>2
  <2> QED
    BY <2>4
<1> DEFINE at == [i \in 0 .. n |-> pos + Len(g[i])]
<1>6. at[0] = pos + Len(first) /\ at[n] = pos + Len(Chain(first, parts))
  BY <1>1, <1>2
<1>7. ASSUME NEW i \in 1 .. n
      PROVE  Carries(b, at[i-1], parts[i]) /\ at[i] = at[i-1] + Len(parts[i])
  <2>1. i \in 0 .. n /\ i - 1 \in 0 .. n /\ at[i] = pos + Len(g[i]) /\ at[i-1] = pos + Len(g[i-1])
    OBVIOUS
  <2>2. /\ Carries(b, pos + Len(g[i-1]), parts[i])
        /\ Len(g[i]) = Len(g[i-1]) + Len(parts[i])
    BY <1>4, <1>5, <2>1
  <2>3. /\ Len(g[i-1]) \in Nat /\ Len(parts[i]) \in Nat /\ pos \in Nat
    BY <1>3, <1>5, <2>1, ListedProperties DEF Carries
  <2> QED
    BY <2>1, <2>2, <2>3
<1>8. Carries(b, pos, first)
  BY <1>2, <1>5
<1> HIDE DEF at
<1> QED
  BY <1>6, <1>7, <1>8 DEF LaidOut

(***************************************************************************)
(* Items that are read one after the other are what Repeat gives.          *)
(***************************************************************************)
GotNext(one, r) ==
    IF one[r.next].next = 0 THEN Truncated
    ELSE [next |-> one[r.next].next, val |-> Append(r.val, one[r.next].val)]

IsGot(g, one, n, pos) ==
    g = [i \in 0 .. n |-> IF i = 0 THEN [next |-> pos, val |-> <<>>] ELSE GotNext(one, g[i-1])]

LEMMA GotUnfolds ==
    ASSUME NEW g, NEW one, NEW n \in Nat, NEW pos, IsGot(g, one, n, pos)
    PROVE  /\ g[0] = [next |-> pos, val |-> <<>>]
           /\ \A i \in 1 .. n : g[i] = GotNext(one, g[i-1])
  BY DEF IsGot

LEMMA AppendPrefix ==
    ASSUME NEW v, NEW n \in Nat, v = [i \in 1 .. n |-> v[i]], NEW i \in 1 .. n
    PROVE  Append([j \in 1 .. i - 1 |-> v[j]], v[i]) = [j \in 1 .. i |-> v[j]]
<1> DEFINE R == {v[j] : j \in 1 .. n}
           p == [j \in 1 .. i - 1 |-> v[j]]
           q == Append(p, v[i])
<1>1. i - 1 \in Nat /\ v[i] \in R
  OBVIOUS
<1>2. p \in [1 .. i - 1 -> R]
  OBVIOUS
<1>3. p \in Seq(R)
  BY <1>1, <1>2, SeqDef
<1>4. Len(p) = i - 1
  BY <1>1, <1>2, <1>3, LenProperties
<1> HIDE DEF R
<1>5. /\ q \in Seq(R) /\ Len(q) = i
      /\ \A j \in 1 .. i - 1 : q[j] = p[j]
      /\ q[i] = v[i]
  BY <1>1, <1>3, <1>4, AppendProperties
<1>6. DOMAIN q = 1 .. i /\ q = [j \in DOMAIN q |-> q[j]]
  BY <1>5, LenProperties
<1>7. \A j \in 1 .. i - 1 : p[j] = v[j]
  OBVIOUS
<1> HIDE DEF q, p
<1>8. \A j \in 1 .. i : q[j] = v[j]
  <2>1. \A j \in 1 .. i : j = i \/ j \in 1 .. i - 1
    OBVIOUS
  <2> QED
    BY <1>5, <1>7, <2>1
<1> QED
  BY <1>6, <1>8 DEF q, p

LEMMA RepeatReads ==
    ASSUME NEW one, NEW n \in Nat, NEW pos, NEW v, v = [i \in 1 .. n |-> v[i]],
           NEW at, at[0] = pos,
           \A i \in 1 .. n : one[at[i-1]] = [next |-> at[i], val |-> v[i]] /\ at[i] # 0
    PROVE  Repeat(one, n, pos) = [next |-> at[n], val |-> v]
<1> DEFINE h == [i \in 0 .. n |-> [next |-> at[i], val |-> [j \in 1 .. i |-> v[j]]]]
<1>1. h[0] = [next |-> pos, val |-> <<>>]
  <2>1. [j \in 1 .. 0 |-> v[j]] = <<>>
    OBVIOUS
  <2> QED
    BY <2>1
<1>2. ASSUME NEW i \in 1 .. n PROVE h[i] = GotNext(one, h[i-1])
  <2>1. h[i-1].next = at[i-1] /\ h[i-1].val = [j \in 1 .. i - 1 |-> v[j]]
    OBVIOUS
  <2>2. h[i] = [next |-> at[i], val |-> [j \in 1 .. i |-> v[j]]]
    OBVIOUS
  <2>3. one[at[i-1]] = [next |-> at[i], val |-> v[i]] /\ at[i] # 0
    OBVIOUS
  <2>4. Append(h[i-1].val, v[i]) = [j \in 1 .. i |-> v[j]]
    BY <2>1, AppendPrefix
  <2> HIDE DEF h
  <2>5. one[h[i-1].next].next = at[i] /\ one[h[i-1].next].val = v[i]
    BY <2>1, <2>3
  <2> QED
    BY <2>2, <2>3, <2>4, <2>5 DEF GotNext
<1>3. h = [i \in 0 .. n |-> h[i]]
  OBVIOUS
<1>4. h[n] = [next |-> at[n], val |-> v]
  <2>1. h[n] = [next |-> at[n], val |-> [j \in 1 .. n |-> v[j]]]
    OBVIOUS
  <2> HIDE DEF h
  <2> QED
    BY <2>1
<1> HIDE DEF h
<1>5. IsGot(h, one, n, pos)
  BY <1>1, <1>2, <1>3 DEF IsGot
<1> DEFINE got == CHOOSE g : IsGot(g, one, n, pos)
<1>6. IsGot(got, one, n, pos)
  BY <1>5
<1>7. Repeat(one, n, pos) = got[n]
  BY DEF Repeat, IsGot, GotNext
<1> HIDE DEF got
<1>8. \A i \in 1 .. n : got[i] = GotNext(one, got[i-1]) /\ h[i] = GotNext(one, h[i-1])
  BY <1>2, <1>6, GotUnfolds
<1>9. \A i \in 0 .. n : got[i] = h[i]
  <2> DEFINE X == {i \in Nat : i <= n => got[i] = h[i]}
  <2>1. 0 \in X
    BY <1>1, <1>6, GotUnfolds
  <2>2. ASSUME NEW i \in Nat, i \in X PROVE i + 1 \in X
    <3>1. CASE i + 1 <= n
      <4>1. i + 1 \in 1 .. n /\ (i + 1) - 1 = i /\ got[i] = h[i]
        BY <2>2, <3>1
      <4>2. got[i+1] = GotNext(one, got[i]) /\ h[i+1] = GotNext(one, h[i])
        BY <1>8, <4>1
      <4> QED
        BY <4>1, <4>2
    <3> QED
      BY <3>1
  <2>3. \A i \in Nat : i \in X
    <3>1. \A i \in Nat : i \in X => i + 1 \in X
      BY <2>2
    <3> HIDE DEF X
    <3> QED
      BY <2>1, <3>1, SetInduction
  <2> QED
    BY <2>3
<1> QED
  BY <1>4, <1>7, <1>9

LEMMA TuplesListed ==
    /\ \A w : Listed(<<w>>) /\ Len(<<w>>) = 1
    /\ \A w, x : Listed(<<w, x>>) /\ Len(<<w, x>>) = 2
    /\ \A w, x, y, z : Listed(<<w, x, y, z>>) /\ Len(<<w, x, y, z>>) = 4
<1>1. ASSUME NEW w PROVE Listed(<<w>>) /\ Len(<<w>>) = 1
  <2>1. <<w>> \in Seq({w})
    OBVIOUS
  <2> QED
    BY <2>1, SeqListed
<1>2. ASSUME NEW w, NEW x PROVE Listed(<<w, x>>) /\ Len(<<w, x>>) = 2
  <2>1. <<w, x>> \in Seq({w, x})
    OBVIOUS
  <2> QED
    BY <2>1, SeqListed
<1>3. ASSUME NEW w, NEW x, NEW y, NEW z
      PROVE  Listed(<<w, x, y, z>>) /\ Len(<<w, x, y, z>>) = 4
  <2>1. <<w, x, y, z>> \in Seq({w, x, y, z})
    OBVIOUS
  <2> QED
    BY <2>1, SeqListed
<1> QED
  BY <1>1, <1>2, <1>3, Zenon

\* The ops of an action are those a disarm takes.
CarriableAction(a) == a \in Actions /\ (a.kind # "disarm" => a.ops = {})

LEMMA ActionListed ==
    ASSUME NEW a, CarriableAction(a)
    PROVE  Listed(EncodeAction(a)) /\ Len(EncodeAction(a)) \in 1 .. 2
<1>1. a.kind \in {"none", "block", "disarm"}
  BY DEF CarriableAction, Actions
<1>2. EncodeAction(a) \in {<<0>>, <<1>>, <<2, a.ops>>}
  BY <1>1 DEF EncodeAction
<1>3. /\ Listed(<<0>>) /\ Len(<<0>>) = 1
      /\ Listed(<<1>>) /\ Len(<<1>>) = 1
      /\ Listed(<<2, a.ops>>) /\ Len(<<2, a.ops>>) = 2
  BY TuplesListed, Zenon
<1> QED
  BY <1>2, <1>3

LEMMA ActionRead ==
    ASSUME NEW a, CarriableAction(a), NEW b, NEW pos, Carries(b, pos, EncodeAction(a))
    PROVE  DecodeAction(b, pos) = [next |-> pos + Len(EncodeAction(a)), val |-> a]
<1> DEFINE c == EncodeAction(a)
<1>1. a = [kind |-> a.kind, ops |-> a.ops] /\ a.kind \in {"none", "block", "disarm"}
  BY DEF CarriableAction, Actions
<1>2. Len(c) \in 1 .. 2 /\ pos \in Nat \ {0}
  BY ActionListed DEF Carries
<1>3. Take(b, pos) = [next |-> pos + 1, val |-> c[1]]
  <2>1. 1 \in 1 .. Len(c) /\ pos + 1 - 1 = pos
    BY <1>2
  <2>2. Take(b, pos + 1 - 1) = [next |-> pos + 1, val |-> c[1]]
    BY <2>1, TakeReads
  <2> QED
    BY <2>1, <2>2
<1>4. CASE a.kind = "none"
  <2>1. c = <<0>> /\ a = [kind |-> "none", ops |-> {}]
    BY <1>1, <1>4 DEF EncodeAction, CarriableAction
  <2> QED
    BY <1>2, <1>3, <2>1 DEF DecodeAction
<1>5. CASE a.kind = "block"
  <2>1. c = <<1>> /\ a = [kind |-> "block", ops |-> {}]
    BY <1>1, <1>5 DEF EncodeAction, CarriableAction
  <2> QED
    BY <1>2, <1>3, <2>1 DEF DecodeAction
<1>6. CASE a.kind = "disarm"
  <2>1. c = <<2, a.ops>> /\ a = [kind |-> "disarm", ops |-> a.ops] /\ Len(c) = 2
    BY <1>1, <1>6 DEF EncodeAction
  <2>2. Take(b, pos + 1) = [next |-> pos + 2, val |-> a.ops]
    <3>1. 2 \in 1 .. Len(c) /\ pos + 2 - 1 = pos + 1 /\ c[2] = a.ops
      BY <1>2, <2>1
    <3>2. Take(b, pos + 2 - 1) = [next |-> pos + 2, val |-> c[2]]
      BY <3>1, TakeReads
    <3> QED
      BY <3>1, <3>2
  <2> QED
    BY <1>2, <1>3, <2>1, <2>2 DEF DecodeAction
<1> QED
  BY <1>1, <1>4, <1>5, <1>6

\* A count that fits, and the items behind it.
LEMMA CountedReads ==
    ASSUME NEW one, NEW b, NEW pos, NEW n \in Nat, NEW v, v = [i \in 1 .. n |-> v[i]],
           NEW p \in Nat \ {0}, Take(b, pos) = [next |-> p, val |-> n],
           NEW at, at[0] = p,
           \A i \in 1 .. n : one[at[i-1]] = [next |-> at[i], val |-> v[i]] /\ at[i] # 0
    PROVE  Counted(one, b, pos) = [next |-> at[n], val |-> v]
<1>1. Repeat(one, n, p) = [next |-> at[n], val |-> v]
  BY RepeatReads
<1> QED
  BY <1>1 DEF Counted

CarriableStep(s) ==
    /\ s \in DagStep
    /\ Len(s.ttps) < U8Count
    /\ CarriableAction(s.action)

\* The list of a step's TTPs, whose length the count holds.
LEMMA TtpsListed ==
    ASSUME NEW s, CarriableStep(s)
    PROVE  /\ s.ttps \in Seq(Ttps) /\ Listed(s.ttps)
           /\ Len(s.ttps) \in Nat /\ Len(s.ttps) < U8Count
           /\ s.ttps = [i \in 1 .. Len(s.ttps) |-> s.ttps[i]]
<1>1. s.ttps \in Seq(Ttps) /\ Len(s.ttps) < U8Count
  BY DEF CarriableStep, DagStep
<1>2. Listed(s.ttps)
  BY <1>1, SeqListed
<1> QED
  BY <1>1, <1>2, LenProperties

LEMMA StepListed ==
    ASSUME NEW s, CarriableStep(s)
    PROVE  /\ Listed(EncodeStep(s)) /\ Len(EncodeStep(s)) \in Nat
           /\ Listed(s.ttps) /\ Listed(EncodeAction(s.action))
           /\ LET four == <<s.bit, s.prereq, s.ops, Len(s.ttps) % U8Count>>
              IN  Listed(four) /\ Listed(four \o s.ttps)
<1> DEFINE four == <<s.bit, s.prereq, s.ops, Len(s.ttps) % U8Count>>
<1>1. Listed(s.ttps)
  BY TtpsListed
<1>2. Listed(EncodeAction(s.action))
  BY ActionListed DEF CarriableStep
<1>3. Listed(four)
  BY TuplesListed
<1>4. Listed(four \o s.ttps)
  BY <1>1, <1>3, ConcatListed
<1>5. Listed(EncodeStep(s))
  BY <1>2, <1>4, ConcatListed DEF EncodeStep
<1> QED
  BY <1>1, <1>2, <1>3, <1>4, <1>5, ListedProperties

LEMMA StepRead ==
    ASSUME NEW s, CarriableStep(s), NEW b, NEW pos, Carries(b, pos, EncodeStep(s))
    PROVE  DecodeStep(b, pos) = [next |-> pos + Len(EncodeStep(s)), val |-> s]
<1> DEFINE n == Len(s.ttps)
           four == <<s.bit, s.prereq, s.ops, n % U8Count>>
           list == s.ttps
           act == EncodeAction(s.action)
<1>1. n \in Nat /\ n % U8Count = n
  <2>1. n \in Nat /\ n < U8Count
    BY TtpsListed
  <2> HIDE DEF n
  <2> QED
    BY <2>1 DEF U8Count
<1>2. Len(list) = n /\ list = [i \in 1 .. n |-> list[i]]
  BY TtpsListed
<1>3. Listed(four) /\ Listed(list) /\ Listed(act) /\ Listed(four \o list) /\ Len(four) = 4
  BY StepListed, TuplesListed
<1>4. EncodeStep(s) = (four \o list) \o act
  BY DEF EncodeStep
<1>5. /\ Carries(b, pos, four \o list) /\ Carries(b, pos + Len(four \o list), act)
      /\ Len(EncodeStep(s)) = Len(four \o list) + Len(act)
  <2> DEFINE front == four \o list
  <2>1. Listed(front) /\ EncodeStep(s) = front \o act
    BY <1>3, <1>4
  <2> HIDE DEF front, act
  <2>2. Carries(b, pos, front \o act)
    BY <2>1
  <2>3. /\ Carries(b, pos, front) /\ Carries(b, pos + Len(front), act)
        /\ Len(front \o act) = Len(front) + Len(act)
    BY <1>3, <2>1, <2>2, CarriesBoth
  <2>4. Len(EncodeStep(s)) = Len(front) + Len(act)
    BY <2>1, <2>3
  <2> QED
    BY <2>3, <2>4 DEF front
<1>6. Carries(b, pos, four) /\ Carries(b, pos + 4, list) /\ Len(four \o list) = 4 + n
  <2> HIDE DEF four, list
  <2>1. Carries(b, pos, four \o list)
    BY <1>5
  <2>2. Listed(four) /\ Listed(list)
    BY <1>3
  <2>3. /\ Carries(b, pos, four) /\ Carries(b, pos + Len(four), list)
        /\ Len(four \o list) = Len(four) + Len(list)
    BY <2>1, <2>2, CarriesBoth
  <2> QED
    BY <1>2, <1>3, <2>3
<1>7. pos \in Nat \ {0}
  BY DEF Carries
<1>8. /\ Take(b, pos) = [next |-> pos + 1, val |-> s.bit]
      /\ Take(b, pos + 1) = [next |-> pos + 2, val |-> s.prereq]
      /\ Take(b, pos + 2) = [next |-> pos + 3, val |-> s.ops]
      /\ Take(b, pos + 3) = [next |-> pos + 4, val |-> n]
  <2>1. \A i \in 1 .. 4 : Take(b, pos + i - 1) = [next |-> pos + i, val |-> four[i]]
    BY <1>3, <1>6, TakeReads
  <2>2. /\ pos + 1 - 1 = pos /\ pos + 2 - 1 = pos + 1 /\ pos + 3 - 1 = pos + 2
        /\ pos + 4 - 1 = pos + 3
    BY <1>7
  <2>3. four[1] = s.bit /\ four[2] = s.prereq /\ four[3] = s.ops /\ four[4] = n
    BY <1>1
  <2> HIDE DEF four, n
  <2> QED
    BY <2>1, <2>2, <2>3
<1> HIDE DEF list, act, four, n
<1> DEFINE one == [q \in Places(b) |-> Take(b, q)]
<1>9. Counted(one, b, pos + 3) = [next |-> pos + 4 + n, val |-> list]
  <2> DEFINE at == [i \in 0 .. n |-> pos + 4 + i]
  <2>1. at[0] = pos + 4 /\ pos + 4 \in Nat \ {0} /\ at[n] = pos + 4 + n
    BY <1>1, <1>7
  <2>2. ASSUME NEW i \in 1 .. n
        PROVE  one[at[i-1]] = [next |-> at[i], val |-> list[i]] /\ at[i] # 0
    <3>1. /\ Take(b, (pos + 4) + i - 1) = [next |-> (pos + 4) + i, val |-> list[i]]
          /\ (pos + 4) + i - 1 \in Places(b)
      <4>1. i \in 1 .. Len(list)
        BY <1>2
      <4> QED
        BY <1>6, <4>1, TakeReads
    <3>2. at[i-1] = (pos + 4) + i - 1 /\ at[i] = (pos + 4) + i /\ at[i] # 0
      BY <1>1, <1>7
    <3> QED
      BY <3>1, <3>2
  <2> HIDE DEF one, at
  <2>3. Counted(one, b, pos + 3) = [next |-> at[n], val |-> list]
    <3>1. Take(b, pos + 3) = [next |-> pos + 4, val |-> n]
      BY <1>8
    <3>2. n \in Nat /\ list = [i \in 1 .. n |-> list[i]]
      BY <1>1, <1>2
    <3> HIDE DEF list, n
    <3> QED
      BY <2>1, <2>2, <3>1, <3>2, CountedReads
  <2> QED
    BY <2>1, <2>3
<1>10. DecodeAction(b, pos + 4 + n) = [next |-> pos + Len(EncodeStep(s)), val |-> s.action]
  <2>1. Carries(b, pos + 4 + n, act) /\ Len(act) \in 1 .. 2
        /\ pos + Len(EncodeStep(s)) = (pos + 4 + n) + Len(act)
    <3>1. Len(act) \in 1 .. 2
      BY ActionListed DEF CarriableStep, act
    <3> QED
      BY <1>1, <1>5, <1>6, <1>7, <3>1
  <2> QED
    BY <2>1, ActionRead DEF act, CarriableStep
<1>11. pos + Len(EncodeStep(s)) # 0
  BY <1>7, StepListed
<1>12. s = [bit |-> s.bit, prereq |-> s.prereq, ops |-> s.ops, ttps |-> s.ttps,
            action |-> s.action]
  BY DEF CarriableStep, DagStep
<1> DEFINE bit == Take(b, pos)
           prereq == Take(b, bit.next)
           ops == Take(b, prereq.next)
           ttps == Counted(one, b, ops.next)
           action == DecodeAction(b, ttps.next)
<1>13. DecodeStep(b, pos) =
         IF action.next = 0 THEN Truncated
         ELSE [next |-> action.next,
               val |-> [bit |-> bit.val, prereq |-> prereq.val, ops |-> ops.val,
                        ttps |-> ttps.val, action |-> action.val]]
  BY DEF DecodeStep
<1> HIDE DEF one
<1>14. bit.val = s.bit /\ bit.next = pos + 1
  BY <1>8
<1> HIDE DEF bit
<1>15. prereq.val = s.prereq /\ prereq.next = pos + 2
  BY <1>8, <1>14
<1> HIDE DEF prereq
<1>16. ops.val = s.ops /\ ops.next = pos + 3
  BY <1>8, <1>15
<1> HIDE DEF ops
<1>17. ttps.val = s.ttps /\ ttps.next = pos + 4 + n
  <2>1. ttps = [next |-> pos + 4 + n, val |-> list]
    BY <1>9, <1>16, Zenon
  <2> HIDE DEF ttps
  <2> QED
    BY <2>1 DEF list
<1> HIDE DEF ttps
<1>18. action.val = s.action /\ action.next = pos + Len(EncodeStep(s))
  BY <1>10, <1>17
<1> HIDE DEF action
<1> QED
  BY <1>11, <1>12, <1>13, <1>14, <1>15, <1>16, <1>17, <1>18

\* Wherever b carries one of the n parts, the item it was written of is read.
Reads(one, b, n, parts, v) ==
    /\ v = [i \in 1 .. n |-> v[i]]
    /\ \A i \in 1 .. n : /\ Listed(parts[i])
                         /\ \A q \in Places(b) : Carries(b, q, parts[i]) =>
                              one[q] = [next |-> q + Len(parts[i]), val |-> v[i]]

\* A field, a count, and as many parts, each of which is read as the item it was
\* written of.
LEMMA ListRead ==
    ASSUME NEW field, NEW n \in Nat, NEW parts, Len(parts) = n,
           NEW b, NEW pos, Carries(b, pos, Chain(<<field, n>>, parts)),
           NEW one, NEW v, Reads(one, b, n, parts, v)
    PROVE  /\ Take(b, pos) = [next |-> pos + 1, val |-> field]
           /\ Counted(one, b, pos + 1)
                = [next |-> pos + Len(Chain(<<field, n>>, parts)), val |-> v]
<1> DEFINE first == <<field, n>>
<1>1. Listed(first) /\ Len(first) = 2 /\ first[1] = field /\ first[2] = n
  BY TuplesListed
<1> HIDE DEF first
<1>2. Carries(b, pos, Chain(first, parts))
  BY DEF first
<1>3. PICK at : LaidOut(at, b, pos + Len(first), pos + Len(Chain(first, parts)), n, parts)
  <2>1. Listed(first) /\ Carries(b, pos, Chain(first, parts))
    BY <1>1, <1>2
  <2>2. \A i \in 1 .. n : Listed(parts[i])
    BY DEF Reads
  <2> QED
    BY <2>1, <2>2, ChainCarried
<1>4. Carries(b, pos, first)
  <2>1. Listed(first)
    BY <1>1
  <2>2. \A i \in 1 .. n : Listed(parts[i])
    BY DEF Reads
  <2> QED
    BY <1>2, <2>1, <2>2, ChainCarried
<1>5. pos \in Nat \ {0}
  BY <1>4 DEF Carries
<1>6. /\ Take(b, pos) = [next |-> pos + 1, val |-> field]
      /\ Take(b, pos + 1) = [next |-> pos + 2, val |-> n]
  <2>1. ASSUME NEW i \in 1 .. 2
        PROVE  Take(b, pos + i - 1) = [next |-> pos + i, val |-> first[i]]
    <3>1. i \in 1 .. Len(first)
      BY <1>1
    <3> QED
      BY <1>4, <3>1, TakeReads
  <2>2. pos + 1 - 1 = pos /\ pos + 2 - 1 = pos + 1
    BY <1>5
  <2> QED
    BY <1>1, <2>1, <2>2
<1>7. ASSUME NEW i \in 1 .. n
      PROVE  one[at[i-1]] = [next |-> at[i], val |-> v[i]] /\ at[i] # 0
  <2>1. Carries(b, at[i-1], parts[i]) /\ at[i] = at[i-1] + Len(parts[i])
    BY <1>3 DEF LaidOut
  <2>2. /\ at[i-1] \in Nat \ {0} /\ at[i-1] + Len(parts[i]) <= Len(b) + 1
        /\ Len(parts[i]) \in Nat /\ Len(b) \in Nat
    BY <2>1, ListedProperties DEF Carries
  <2>3. at[i-1] \in Places(b)
    BY <2>2 DEF Places
  <2>4. one[at[i-1]] = [next |-> at[i-1] + Len(parts[i]), val |-> v[i]]
    BY <2>1, <2>3 DEF Reads
  <2>5. at[i] # 0
    BY <2>1, <2>2
  <2> QED
    BY <2>1, <2>4, <2>5
<1>8. at[0] = pos + 2 /\ pos + 2 \in Nat \ {0}
  BY <1>1, <1>3, <1>5 DEF LaidOut
<1>9. Counted(one, b, pos + 1) = [next |-> at[n], val |-> v]
  <2>1. v = [i \in 1 .. n |-> v[i]]
    BY DEF Reads
  <2> QED
    BY <1>6, <1>7, <1>8, <2>1, CountedReads
<1> QED
  <2>1. at[n] = pos + Len(Chain(first, parts))
    BY <1>3 DEF LaidOut
  <2> QED
    BY <1>6, <1>9, <2>1 DEF first

CarriablePattern(steps) ==
    /\ steps \in Seq(DagStep) /\ Len(steps) < U16
    /\ \A i \in DOMAIN steps : CarriableStep(steps[i])

StepParts(steps) == [i \in DOMAIN steps |-> EncodeStep(steps[i])]

LEMMA StepPartsListed ==
    ASSUME NEW steps, CarriablePattern(steps)
    PROVE  /\ Len(steps) \in Nat /\ DOMAIN steps = 1 .. Len(steps)
           /\ Len(steps) % U16 = Len(steps)
           /\ Len(StepParts(steps)) = Len(steps)
           /\ \A i \in 1 .. Len(steps) : /\ StepParts(steps)[i] = EncodeStep(steps[i])
                                         /\ Listed(StepParts(steps)[i])
           /\ steps = [i \in 1 .. Len(steps) |-> steps[i]]
<1> DEFINE n == Len(steps)
           parts == StepParts(steps)
<1>1. n \in Nat /\ DOMAIN steps = 1 .. n /\ steps = [i \in 1 .. n |-> steps[i]] /\ n < U16
  BY LenProperties DEF CarriablePattern
<1> HIDE DEF n
<1>2. n % U16 = n
  BY <1>1 DEF U16
<1>3. parts = [i \in 1 .. n |-> EncodeStep(steps[i])]
  BY <1>1 DEF StepParts
<1> HIDE DEF parts
<1>4. Len(parts) = n
  BY <1>1, <1>3, FunctionListed
<1>5. ASSUME NEW i \in 1 .. n PROVE parts[i] = EncodeStep(steps[i]) /\ Listed(parts[i])
  BY <1>1, <1>3, StepListed DEF CarriablePattern
<1> QED
  BY <1>1, <1>2, <1>4, <1>5 DEF n, parts

LEMMA PatternListed ==
    ASSUME NEW p, CarriablePattern(p.steps)
    PROVE  Listed(EncodePattern(p)) /\ Len(EncodePattern(p)) \in Nat
<1> DEFINE first == <<p.name, Len(p.steps) % U16>>
           n == Len(p.steps)
           parts == StepParts(p.steps)
<1>1. n \in Nat /\ Len(parts) = n /\ \A i \in 1 .. n : Listed(parts[i])
  BY StepPartsListed
<1>2. Listed(first)
  BY TuplesListed
<1>3. EncodePattern(p) = Chain(first, parts)
  BY DEF EncodePattern, StepParts
<1> HIDE DEF first, parts, n
<1>4. PICK g : IsChain(g, n, first, parts) /\ Chain(first, parts) = g[n]
  BY <1>1, ChainIs
<1>5. Listed(g[n])
  BY <1>1, <1>2, <1>4, ChainListed
<1> QED
  BY <1>3, <1>4, <1>5, ListedProperties

LEMMA PatternRead ==
    ASSUME NEW p, CarriablePattern(p.steps), NEW b, NEW pos, Carries(b, pos, EncodePattern(p))
    PROVE  DecodePattern(b, pos) = [next |-> pos + Len(EncodePattern(p)),
                                    val |-> [name |-> p.name, steps |-> p.steps]]
<1> DEFINE n == Len(p.steps)
           parts == StepParts(p.steps)
           one == [q \in Places(b) |-> DecodeStep(b, q)]
<1>1. /\ n \in Nat /\ DOMAIN p.steps = 1 .. n /\ n % U16 = n /\ Len(parts) = n
      /\ \A i \in 1 .. n : parts[i] = EncodeStep(p.steps[i]) /\ Listed(parts[i])
      /\ p.steps = [i \in 1 .. n |-> p.steps[i]]
  BY StepPartsListed
<1>2. EncodePattern(p) = Chain(<<p.name, n>>, parts)
  BY <1>1 DEF EncodePattern, StepParts
<1>3. ASSUME NEW i \in 1 .. n, NEW q \in Places(b), Carries(b, q, parts[i])
      PROVE  one[q] = [next |-> q + Len(parts[i]), val |-> p.steps[i]]
  <2>1. CarriableStep(p.steps[i]) /\ Carries(b, q, EncodeStep(p.steps[i]))
    BY <1>1, <1>3 DEF CarriablePattern
  <2>2. DecodeStep(b, q) = [next |-> q + Len(EncodeStep(p.steps[i])), val |-> p.steps[i]]
    BY <2>1, StepRead
  <2> QED
    BY <1>1, <2>2
<1> DEFINE name == Take(b, pos)
           steps == Counted(one, b, name.next)
<1>4. DecodePattern(b, pos) =
        IF steps.next = 0 THEN Truncated
        ELSE [next |-> steps.next, val |-> [name |-> name.val, steps |-> steps.val]]
  BY DEF DecodePattern
<1> HIDE DEF n, parts, one
<1>5. Carries(b, pos, Chain(<<p.name, n>>, parts))
  BY <1>2
<1>6. /\ Take(b, pos) = [next |-> pos + 1, val |-> p.name]
      /\ Counted(one, b, pos + 1)
           = [next |-> pos + Len(Chain(<<p.name, n>>, parts)), val |-> p.steps]
  <2>1. n \in Nat /\ Len(parts) = n
    BY <1>1
  <2>2. Reads(one, b, n, parts, p.steps)
    BY <1>1, <1>3 DEF Reads
  <2> QED
    BY <1>5, <2>1, <2>2, ListRead
<1>7. pos + Len(EncodePattern(p)) # 0
  BY PatternListed DEF Carries
<1>8. name.val = p.name /\ name.next = pos + 1
  BY <1>6
<1> HIDE DEF name
<1>9. steps = [next |-> pos + Len(EncodePattern(p)), val |-> p.steps]
  BY <1>2, <1>6, <1>8, Zenon
<1> HIDE DEF steps
<1> QED
  BY <1>4, <1>7, <1>8, <1>9

LEMMA CarriableParts ==
    ASSUME NEW rules \in Seq(Seq(DagStep)), Carriable(rules)
    PROVE  /\ Len(rules) \in Nat /\ DOMAIN rules = 1 .. Len(rules)
           /\ Len(rules) % U16 = Len(rules)
           /\ rules = [p \in 1 .. Len(rules) |-> rules[p]]
           /\ \A p \in DOMAIN rules : CarriablePattern(rules[p])
<1> DEFINE n == Len(rules)
<1>1. /\ n \in Nat /\ DOMAIN rules = 1 .. n /\ rules = [p \in 1 .. n |-> rules[p]]
      /\ n < U16
  BY LenProperties DEF Carriable
<1>2. n % U16 = n
  <2>1. n \in Nat /\ n < 65536
    BY <1>1 DEF U16
  <2> HIDE DEF n
  <2> QED
    BY <2>1 DEF U16
<1>3. ASSUME NEW p \in DOMAIN rules PROVE CarriablePattern(rules[p])
  <2>1. rules[p] \in Seq(DagStep) /\ Len(rules[p]) < U16
    BY ElementOfSeq, <1>1 DEF Carriable
  <2>2. ASSUME NEW i \in DOMAIN rules[p] PROVE CarriableStep(rules[p][i])
    <3>1. rules[p][i] \in DagStep
      BY <2>1, ElementOfSeq, LenProperties
    <3>2. rules[p][i].action \in Actions
      BY <3>1 DEF DagStep
    <3> QED
      BY <3>1, <3>2 DEF Carriable, CarriableStep, CarriableAction
  <2> QED
    BY <2>1, <2>2 DEF CarriablePattern
<1> QED
  BY <1>1, <1>2, <1>3

\* decode_dag makes of what encode_dag wrote the rules that were written.
LEMMA WireRead ==
    ASSUME NEW rules \in Seq(Seq(DagStep)), Carriable(rules)
    PROVE  Create(Wire(rules)).ok /\ PatternsOf(Create(Wire(rules)).rules) = rules
<1> DEFINE n == Len(rules)
           named == [p \in DOMAIN rules |-> [name |-> p, steps |-> rules[p]]]
           parts == [p \in DOMAIN named |-> EncodePattern(named[p])]
           b == Chain(<<Magic, n>>, parts)
           one == [q \in Places(b) |-> DecodePattern(b, q)]
<1>1. /\ n \in Nat /\ DOMAIN rules = 1 .. n /\ n % U16 = n
      /\ rules = [p \in 1 .. n |-> rules[p]]
      /\ \A p \in 1 .. n : CarriablePattern(rules[p])
  BY CarriableParts
<1>2. /\ named = [p \in 1 .. n |-> named[p]] /\ DOMAIN named = 1 .. n
      /\ \A p \in 1 .. n : named[p] = [name |-> p, steps |-> rules[p]]
  BY <1>1
<1> HIDE DEF n
<1>3. Len(named) = n
  <2> HIDE DEF named
  <2> QED
    BY <1>1, <1>2, FunctionListed
<1>4. Wire(rules) = b
  <2>1. Wire(rules) = Encode(named)
    BY DEF Wire
  <2> HIDE DEF named
  <2>2. Encode(named) = Chain(<<Magic, Len(named) % U16>>, parts)
    BY DEF Encode
  <2> HIDE DEF parts
  <2> QED
    BY <1>1, <1>3, <2>1, <2>2
<1> HIDE DEF named
<1>5. \A p \in 1 .. n : parts[p] = EncodePattern(named[p]) /\ Listed(parts[p])
  BY <1>1, <1>2, PatternListed
<1>6. Len(parts) = n
  <2>1. parts = [p \in 1 .. n |-> parts[p]]
    BY <1>2
  <2> HIDE DEF parts
  <2> QED
    BY <1>1, <2>1, FunctionListed
<1> HIDE DEF parts
<1>7. Listed(b)
  <2>1. Listed(<<Magic, n>>)
    BY TuplesListed
  <2> DEFINE first == <<Magic, n>>
  <2> HIDE DEF first
  <2>2. PICK g : IsChain(g, n, first, parts) /\ Chain(first, parts) = g[n]
    BY <1>1, <1>6, ChainIs
  <2>3. Listed(first)
    BY <2>1 DEF first
  <2>4. Listed(g[n])
    BY <1>1, <1>5, <2>2, <2>3, ChainListed
  <2> QED
    BY <2>2, <2>4 DEF first
<1>8. Carries(b, 1, Chain(<<Magic, n>>, parts)) /\ Len(b) \in Nat
  <2> HIDE DEF b
  <2>1. Len(b) \in Nat /\ Carries(b, 1, b)
    BY <1>7, ListedProperties DEF Carries
  <2> QED
    BY <2>1 DEF b
<1> HIDE DEF b
<1>9. ASSUME NEW p \in 1 .. n, NEW q \in Places(b), Carries(b, q, parts[p])
      PROVE  one[q] = [next |-> q + Len(parts[p]), val |-> named[p]]
  <2>1. CarriablePattern(named[p].steps) /\ Carries(b, q, EncodePattern(named[p]))
    BY <1>1, <1>2, <1>5, <1>9
  <2>2. DecodePattern(b, q) = [next |-> q + Len(EncodePattern(named[p])),
                               val |-> [name |-> named[p].name, steps |-> named[p].steps]]
    BY <2>1, PatternRead
  <2>3. named[p] = [name |-> named[p].name, steps |-> named[p].steps]
    BY <1>2
  <2> QED
    BY <1>5, <2>2, <2>3
<1> DEFINE magic == Take(b, 1)
           patts == Counted(one, b, magic.next)
           okay == magic.next # 0 /\ magic.val = Magic /\ patts.next = Len(b) + 1
<1>10. Decode(b) = [ok |-> okay, rules |-> IF okay THEN patts.val ELSE <<>>]
  BY DEF Decode
<1> HIDE DEF one
<1>11. /\ Take(b, 1) = [next |-> 2, val |-> Magic]
       /\ Counted(one, b, 2) = [next |-> 1 + Len(b), val |-> named]
  <2>1. Reads(one, b, n, parts, named)
    BY <1>2, <1>5, <1>9 DEF Reads
  <2>2. n \in Nat /\ Len(parts) = n
    BY <1>1, <1>6
  <2> DEFINE start == 1
  <2>3. Carries(b, start, Chain(<<Magic, n>>, parts))
    BY <1>8
  <2> HIDE DEF start
  <2>4. /\ Take(b, start) = [next |-> start + 1, val |-> Magic]
        /\ Counted(one, b, start + 1)
             = [next |-> start + Len(Chain(<<Magic, n>>, parts)), val |-> named]
    BY <2>1, <2>2, <2>3, ListRead
  <2>5. start = 1 /\ start + 1 = 2 /\ b = Chain(<<Magic, n>>, parts)
    BY DEF start, b
  <2> QED
    BY <2>4, <2>5
<1>12. magic.next = 2 /\ magic.val = Magic
  BY <1>11
<1> HIDE DEF magic
<1>13. patts.next = Len(b) + 1 /\ patts.val = named
  <2>1. patts = [next |-> 1 + Len(b), val |-> named]
    BY <1>11, <1>12, Zenon
  <2> HIDE DEF patts
  <2> QED
    BY <1>8, <2>1
<1> HIDE DEF patts
<1>14. Create(Wire(rules)) = [ok |-> TRUE, rules |-> named]
  <2>1. okay
    BY <1>12, <1>13
  <2> HIDE DEF okay
  <2> QED
    BY <1>4, <1>10, <1>13, <2>1 DEF Create
<1>15. PatternsOf(named) = rules
  BY <1>1, <1>2 DEF PatternsOf
<1> QED
  BY <1>14, <1>15

(***************************************************************************)
(* What the driver runs is what was compiled, of every two rule sets whose *)
(* counts fit: it decodes both, and has the patterns the blobs were made   *)
(* of, with every step, prerequisite, TTP and action.                      *)
(***************************************************************************)
THEOREM WireFaithfulCorrect ==
    ASSUME Carriable(Patterns), Carriable(Later) PROVE WireFaithful
<1>1. Patterns \in Seq(Seq(DagStep)) /\ Later \in Seq(Seq(DagStep))
  BY PatternsAssumption, LaterAssumption
<1>2. Create(Wire(Patterns)).ok /\ PatternsOf(Create(Wire(Patterns)).rules) = Patterns
  BY <1>1, WireRead
<1>3. Create(Wire(Later)).ok /\ PatternsOf(Create(Wire(Later)).rules) = Later
  BY <1>1, WireRead
<1> QED
  BY <1>2, <1>3 DEF WireFaithful, Blob, Load
-----------------------------------------------------------------------------
(***************************************************************************)
(* The rules each load leaves behind are a rule set.  It is so when the    *)
(* wire is faithful to them (WireFaithful, above), and it needs no more    *)
(* than that the blobs decode to steps of the kind compile_dag writes.     *)
(***************************************************************************)
RulesLoaded ==
    /\ PatternsOf(Load(<<>>, Blob.first)) \in Seq(Seq(DagStep))
    /\ PatternsOf(Create(Blob.later).rules) \in Seq(Seq(DagStep))

LEMMA FaithfulIsLoaded == ASSUME WireFaithful PROVE RulesLoaded
<1>1. Patterns \in Seq(Seq(DagStep)) /\ Later \in Seq(Seq(DagStep))
  BY PatternsAssumption, LaterAssumption
<1> QED
  BY <1>1 DEF WireFaithful, RulesLoaded

Table == [ent |-> ent, slots |-> slots]

\* What makes the bounds of the tables inductive.
TablesInv ==
    /\ Sound(Table) /\ Roomy(Table)
    /\ IsFiniteSet(DOMAIN dis) /\ Cardinality(DOMAIN dis) <= CapDis
    /\ RulesType

\* The tables of a new engine.
LEMMA FreshSound ==
    ASSUME NEW t, t = [ent |-> <<>>, slots |-> [s \in Slots |-> Kernel!FreeSlot]]
    PROVE  Sound(t) /\ Roomy(t)
<1>1. t.ent = <<>> /\ DOMAIN t.ent = {}
  <2>1. Nothing \in Seq({}) /\ Len(Nothing) = 0
    BY EmptySeq DEF Nothing
  <2>2. DOMAIN Nothing = 1 .. 0
    BY <2>1, LenProperties
  <2> QED
    BY <2>2 DEF Nothing
<1>2. DOMAIN t.slots = Slots
  OBVIOUS
<1>3. ASSUME NEW s \in Slots
      PROVE  /\ t.slots[s].used = FALSE /\ t.slots[s].members = {}
             /\ t.slots[s].autos = Nothing
             /\ DOMAIN t.slots[s] = {"used", "members", "autos"}
  BY DEF Kernel!FreeSlot, Nothing
<1>4. Listed(Nothing) /\ Len(Nothing) = 0
  <2>1. Nothing \in Seq({}) /\ Len(Nothing) = 0
    BY EmptySeq DEF Nothing
  <2> QED
    BY <2>1, SeqListed
<1>5. IsFiniteSet({}) /\ Cardinality({}) = 0
  BY FS_EmptySet
<1>6. Sound(t)
  BY <1>1, <1>2, <1>3 DEF Sound
<1>7. Roomy(t)
  <2>1. IsFiniteSet(DOMAIN t.ent) /\ Cardinality(DOMAIN t.ent) <= CapEnt
    <3>1. 0 <= CapEnt
      BY CapsType
    <3> QED
      BY <1>1, <1>5, <3>1
  <2>2. ASSUME NEW s \in Slots
        PROVE  /\ Cardinality(t.slots[s].members) <= CapMembers
               /\ Listed(t.slots[s].autos)
               /\ Len(t.slots[s].autos) <= CapAuto
    <3>1. 0 <= CapMembers /\ 0 <= CapAuto
      BY CapsType
    <3> QED
      BY <1>3, <1>4, <1>5, <3>1, Zenon
  <2> QED
    BY <2>1, <2>2 DEF Roomy
<1> QED
  BY <1>6, <1>7

\* No entry of DISARMED is put where there is no room for it.
LEMMA ApplySound ==
    ASSUME IsFiniteSet(DOMAIN dis), Cardinality(DOMAIN dis) <= CapDis,
           NEW k, NEW acts
    PROVE  /\ IsFiniteSet(DOMAIN Kernel!Apply(k, acts))
           /\ Cardinality(DOMAIN Kernel!Apply(k, acts)) <= CapDis
<1> DEFINE new == Kernel!Apply(k, acts)
<1>1. \/ DOMAIN new = DOMAIN dis
      \/ /\ Kernel!Cardinality(DOMAIN dis) < CapDis
         /\ k \notin DOMAIN dis
         /\ DOMAIN new = DOMAIN dis \union {k}
  BY Zenon DEF Kernel!Apply, Kernel!Put
<1> HIDE DEF new
<1>2. CASE DOMAIN new = DOMAIN dis
  BY <1>2 DEF new
<1>3. CASE /\ Kernel!Cardinality(DOMAIN dis) < CapDis
           /\ k \notin DOMAIN dis
           /\ DOMAIN new = DOMAIN dis \union {k}
  <2>1. /\ IsFiniteSet(DOMAIN dis \union {k})
        /\ Cardinality(DOMAIN dis \union {k}) = Cardinality(DOMAIN dis) + 1
    BY <1>3, FS_AddElement
  <2>2. Cardinality(DOMAIN dis) < CapDis /\ Cardinality(DOMAIN dis) \in Nat
    BY <1>3, SameCardinality, FS_CardinalityType
  <2>3. Cardinality(DOMAIN dis) + 1 <= CapDis
    BY <2>2, CapsType
  <2> QED
    BY <1>3, <2>1, <2>3 DEF new
<1> QED
  BY <1>1, <1>2, <1>3

\* What the kernel engine's Track does, its parts named.
KJoined(e) ==
    Kernel!Unify(Kernel!Resolve(Kernel!Resolve(Table, e.actor), e.object), e.actor, e.object)
KHome(e)   == KJoined(e).ent[e.actor]
KSeeded(e) == Kernel!Seeded(KJoined(e).slots[KHome(e)].autos, e)

LEMMA KernelTrackUnfolds ==
    ASSUME NEW e, Kernel!Track(e)
    PROVE  /\ e.op \notin Kernel!Disarmed(e.actor)
           /\ Kernel!CanResolve(Table, e.actor)
           /\ Kernel!CanResolve(Kernel!Resolve(Table, e.actor), e.object)
           /\ ent' = KJoined(e).ent
           /\ slots' = [KJoined(e).slots EXCEPT ![KHome(e)].autos = Kernel!Advanced(KSeeded(e), e)]
           /\ bverdict' = Kernel!Strongest(Kernel!Activated(KSeeded(e), e))
           /\ dis' = Kernel!Apply(e.actor, Kernel!Activated(KSeeded(e), e))
  BY DEF Kernel!Track, Table, KJoined, KHome, KSeeded

\* Resolving both keys of an event and uniting their storylines.
LEMMA JoinedSound ==
    ASSUME TablesInv, NEW e, e.actor \in Keys, e.object \in Keys,
           Kernel!CanResolve(Table, e.actor),
           Kernel!CanResolve(Kernel!Resolve(Table, e.actor), e.object)
    PROVE  /\ Sound(KJoined(e)) /\ Roomy(KJoined(e))
           /\ e.actor \in DOMAIN KJoined(e).ent /\ KHome(e) \in Slots
<1> DEFINE one  == Kernel!Resolve(Table, e.actor)
           both == Kernel!Resolve(one, e.object)
<1>1. Sound(one) /\ Roomy(one) /\ DOMAIN one.ent = DOMAIN Table.ent \union {e.actor}
  BY ResolveSound DEF TablesInv
<1>2. Kernel!CanResolve(one, e.object)
  OBVIOUS
<1> HIDE DEF one
<1>3. Sound(both) /\ Roomy(both) /\ DOMAIN both.ent = DOMAIN one.ent \union {e.object}
  BY <1>1, <1>2, ResolveSound
<1>4. KJoined(e) = Kernel!Unify(both, e.actor, e.object)
  BY DEF KJoined, one
<1> HIDE DEF both
<1>5. e.actor \in DOMAIN both.ent /\ e.object \in DOMAIN both.ent
  BY <1>1, <1>3
<1>6. /\ Sound(KJoined(e)) /\ Roomy(KJoined(e))
      /\ \/ KJoined(e) = both
         \/ KJoined(e) \in {Kernel!Fold(both, both.ent[e.actor], both.ent[e.object]),
                            Kernel!Fold(both, both.ent[e.object], both.ent[e.actor])}
  BY <1>3, <1>4, <1>5, UnifySound
<1>7. DOMAIN KJoined(e).ent = DOMAIN both.ent
  <2>1. \A t, x, y : DOMAIN Kernel!Fold(t, x, y).ent = DOMAIN t.ent
    BY DEF Kernel!Fold
  <2> QED
    BY <1>6, <2>1, Zenon
<1> QED
  BY <1>5, <1>6, <1>7 DEF Sound, KHome

LEMMA KernelTrackInv ==
    ASSUME TablesInv, NEW e, e.actor \in Keys, e.object \in Keys,
           Kernel!Track(e), UNCHANGED patterns
    PROVE  TablesInv'
<1> DEFINE q == Kernel!Advanced(KSeeded(e), e)
           s == KHome(e)
           u == KJoined(e)
<1>1. Sound(u) /\ Roomy(u) /\ s \in Slots
  BY JoinedSound, KernelTrackUnfolds
<1>2. Listed(KSeeded(e)) /\ Len(KSeeded(e)) <= CapAuto
  <2>1. Listed(u.slots[s].autos)
    BY <1>1 DEF Roomy
  <2>2. RulesType
    BY DEF TablesInv
  <2> QED
    BY <2>1, <2>2, SeededListed DEF KSeeded
<1>3. Listed(q) /\ Len(q) <= CapAuto
  BY <1>2, AdvancedListed
<1>4. Table' = [ent |-> u.ent, slots |-> [u.slots EXCEPT ![s].autos = q]]
  BY KernelTrackUnfolds DEF Table
<1> HIDE DEF q, s, u
<1>5. Sound(Table') /\ Roomy(Table')
  BY <1>1, <1>3, <1>4, AdvanceSound
<1>6. Sound(Table)' /\ Roomy(Table)'
  BY <1>5 DEF Sound, Roomy, Table
<1>7. dis' = Kernel!Apply(e.actor, Kernel!Activated(KSeeded(e), e))
  BY KernelTrackUnfolds
<1>8. IsFiniteSet(DOMAIN dis') /\ Cardinality(DOMAIN dis') <= CapDis
  BY <1>7, ApplySound DEF TablesInv
<1> QED
  BY <1>6, <1>8 DEF TablesInv, RulesType

LEMMA KernelFailOpenInv ==
    ASSUME TablesInv, NEW e, e.actor \in Keys, e.object \in Keys,
           Kernel!FailOpen(e), UNCHANGED patterns
    PROVE  TablesInv'
<1>1. /\ \/ UNCHANGED <<ent, slots>>
         \/ /\ Kernel!CanResolve(Table, e.actor)
            /\ ent' = Kernel!Resolve(Table, e.actor).ent
            /\ slots' = Kernel!Resolve(Table, e.actor).slots
      /\ UNCHANGED dis
  BY DEF Kernel!FailOpen, Table
<1>2. CASE UNCHANGED <<ent, slots>>
  BY <1>1, <1>2 DEF TablesInv, Table, Sound, Roomy, RulesType
<1>3. CASE /\ Kernel!CanResolve(Table, e.actor)
           /\ ent' = Kernel!Resolve(Table, e.actor).ent
           /\ slots' = Kernel!Resolve(Table, e.actor).slots
  <2> DEFINE one == Kernel!Resolve(Table, e.actor)
  <2>1. Sound(one) /\ Roomy(one)
    BY <1>3, ResolveSound DEF TablesInv
  <2>2. ent' = one.ent /\ slots' = one.slots
    BY <1>3
  <2> HIDE DEF one
  <2>3. Table'.ent = one.ent /\ Table'.slots = one.slots
    BY <2>2 DEF Table
  <2>4. Sound(Table)' /\ Roomy(Table)'
    BY <2>1, <2>2 DEF Table, Sound, Roomy
  <2> QED
    BY <1>1, <2>4 DEF TablesInv, RulesType
<1> QED
  BY <1>1, <1>2, <1>3

LEMMA TablesInitInv == RulesLoaded /\ Init => TablesInv
<1> SUFFICES ASSUME RulesLoaded, Init PROVE TablesInv
  OBVIOUS
<1>1. Table = [ent |-> <<>>, slots |-> [s \in Slots |-> Kernel!FreeSlot]] /\ dis = <<>>
  BY DEF Init, Kernel!Init, Table, Slots
<1>2. Sound(Table) /\ Roomy(Table)
  BY <1>1, FreshSound
<1>3. IsFiniteSet(DOMAIN dis) /\ Cardinality(DOMAIN dis) <= CapDis
  <2>1. Nothing \in Seq({}) /\ Len(Nothing) = 0
    BY EmptySeq DEF Nothing
  <2>2. DOMAIN Nothing = 1 .. 0
    BY <2>1, LenProperties
  <2>3. DOMAIN dis = {}
    BY <1>1, <2>2 DEF Nothing
  <2>4. 0 <= CapDis
    BY CapsType
  <2> QED
    BY <2>3, <2>4, FS_EmptySet
<1>4. RulesType
  BY DEF Init, RulesLoaded, RulesType
<1> QED
  BY <1>2, <1>3, <1>4 DEF TablesInv

LEMMA ReloadInv == ASSUME RulesLoaded, Reload PROVE TablesInv'
<1>1. Table' = [ent |-> <<>>, slots |-> [s \in Slots |-> Kernel!FreeSlot]] /\ dis' = <<>>
  BY DEF Reload, LoadFresh, Table, Slots
<1>2. Sound(Table') /\ Roomy(Table')
  BY <1>1, FreshSound
<1>3. IsFiniteSet(DOMAIN dis') /\ Cardinality(DOMAIN dis') <= CapDis
  <2>1. Nothing \in Seq({}) /\ Len(Nothing) = 0
    BY EmptySeq DEF Nothing
  <2>2. DOMAIN Nothing = 1 .. 0
    BY <2>1, LenProperties
  <2>3. DOMAIN dis' = {}
    BY <1>1, <2>2 DEF Nothing
  <2>4. 0 <= CapDis
    BY CapsType
  <2> QED
    BY <2>3, <2>4, FS_EmptySet
<1>4. RulesType'
  BY DEF Reload, LoadFresh, RulesLoaded, RulesType
<1> QED
  BY <1>2, <1>3, <1>4 DEF TablesInv, Sound, Roomy, Table

LEMMA TaggedKeepsKeys ==
    ASSUME NEW e \in Event, NEW on
    PROVE  /\ Tagged(on, e).actor = e.actor /\ Tagged(on, e).object = e.object
           /\ Tagged(on, e).op = e.op /\ Tagged(on, e).ttps \subseteq e.ttps
           /\ e.actor \in Keys /\ e.object \in Keys
  BY DEF Tagged, Event

LEMMA TablesNextInv == RulesLoaded /\ TablesInv /\ [Next]_vars => TablesInv'
<1> SUFFICES ASSUME RulesLoaded, TablesInv, [Next]_vars PROVE TablesInv'
  OBVIOUS
<1>1. ASSUME NEW e \in Sensed, OnEvent(e) PROVE TablesInv'
  <2> DEFINE f == Tagged(taggers, e)
  <2>1. f.actor \in Keys /\ f.object \in Keys
    BY TaggedKeepsKeys DEF Sensed
  <2>2. Kernel!OnEvent(f)
    BY <1>1 DEF OnEvent
  <2> HIDE DEF f
  <2>3. UNCHANGED patterns
    BY <2>2 DEF Kernel!OnEvent
  <2>4. CASE Kernel!Deny(f)
    BY <2>3, <2>4 DEF Kernel!Deny, TablesInv, Table, Sound, Roomy, RulesType
  <2>5. CASE Kernel!FailOpen(f)
    BY <2>1, <2>3, <2>5, KernelFailOpenInv
  <2>6. CASE Kernel!Track(f)
    BY <2>1, <2>3, <2>6, KernelTrackInv
  <2> QED
    BY <2>2, <2>4, <2>5, <2>6 DEF Kernel!OnEvent
<1>2. CASE Reload
  BY <1>2, ReloadInv
<1>3. CASE UNCHANGED vars
  BY <1>3 DEF vars, TablesInv, Table, Sound, Roomy, RulesType
<1> QED
  BY <1>1, <1>2, <1>3 DEF Next

LEMMA TablesInductive == ASSUME RulesLoaded PROVE Spec => []TablesInv
<1>1. Init => TablesInv
  BY TablesInitInv
<1>2. TablesInv /\ [Next]_vars => TablesInv'
  BY TablesNextInv
<1> QED
  BY <1>1, <1>2, PTL DEF Spec

(***************************************************************************)
(* No array of the kernel engine outgrows its capacity and its slab leaks  *)
(* no slot, for every size of the tables: not through merges that fold one *)
(* storyline into the other, nor calls that fail open half way, nor a load *)
(* of new rules (resolve_line, merge, advance, dis_insert).                *)
(***************************************************************************)
THEOREM TablesCorrect == ASSUME RulesLoaded PROVE Spec => []TablesSound
<1>1. TablesInv => TablesSound
  <2> SUFFICES ASSUME TablesInv PROVE TablesSound
    OBVIOUS
  <2>1. Kernel!SlabExact
    BY DEF TablesInv, Table, Sound, Slots, Kernel!SlabExact
  <2>2. Kernel!WithinCaps
    BY SameCardinality DEF TablesInv, Table, Roomy, Slots, Kernel!WithinCaps
  <2> QED
    BY <2>1, <2>2 DEF TablesSound
<1> QED
  BY <1>1, TablesInductive, PTL
-----------------------------------------------------------------------------
\* The reference engine has, in lists, an automaton as advanced as a.
Covered(a, lists) ==
    /\ a = [pid |-> a.pid, done |-> a.done]
    /\ a.pid \in DOMAIN patterns
    /\ \E h \in DOMAIN lists[a.pid] : a.done \subseteq lists[a.pid][h]

(***************************************************************************)
(* What the tables of the kernel engine hold is known to a reference       *)
(* engine whose LINE is ln and whose storylines own the automata au.       *)
(***************************************************************************)
Below(t, ln, au) ==
    /\ \A k \in DOMAIN t.ent : ln[k] \in Keys
    /\ \A k, j \in DOMAIN t.ent : t.ent[k] = t.ent[j] => ln[k] = ln[j]
    /\ \A k \in DOMAIN t.ent : \A i \in DOMAIN t.slots[t.ent[k]].autos :
         Covered(t.slots[t.ent[k]].autos[i], au[ln[k]])

\* A new storyline holds nothing yet.
LEMMA ResolveBelow ==
    ASSUME NEW t, Sound(t), NEW ln, NEW au, Below(t, ln, au),
           NEW k \in Keys, ln[k] \in Keys, Kernel!CanResolve(t, k)
    PROVE  Below(Kernel!Resolve(t, k), ln, au)
<1>1. CASE k \in DOMAIN t.ent
  BY <1>1 DEF Kernel!Resolve
<1>2. CASE k \notin DOMAIN t.ent
  <2> DEFINE new == Kernel!Resolve(t, k)
  <2>1. PICK s \in Slots :
          /\ \A x \in DOMAIN t.ent : t.ent[x] # s
          /\ DOMAIN new.ent = DOMAIN t.ent \union {k}
          /\ \A x \in DOMAIN new.ent : new.ent[x] = IF x = k THEN s ELSE t.ent[x]
          /\ DOMAIN new.slots = Slots
          /\ \A z \in Slots : new.slots[z] =
               IF z = s THEN [used |-> TRUE, members |-> {k}, autos |-> <<>>]
               ELSE t.slots[z]
    BY <1>2, ResolveTable
  <2> HIDE DEF new
  <2>2. \A x \in DOMAIN new.ent : ln[x] \in Keys
    BY <2>1 DEF Below
  <2>3. ASSUME NEW x \in DOMAIN new.ent, NEW j \in DOMAIN new.ent, new.ent[x] = new.ent[j]
        PROVE  ln[x] = ln[j]
    <3>1. x = k <=> j = k
      BY <1>2, <2>1, <2>3
    <3> QED
      BY <2>1, <2>3, <3>1 DEF Below
  <2>4. ASSUME NEW x \in DOMAIN new.ent, NEW i \in DOMAIN new.slots[new.ent[x]].autos
        PROVE  Covered(new.slots[new.ent[x]].autos[i], au[ln[x]])
    <3>1. CASE x = k
      <4>1. new.ent[x] = s
        BY <2>1, <3>1
      <4>2. new.slots[s] = [used |-> TRUE, members |-> {k}, autos |-> Nothing]
        BY <2>1 DEF Nothing
      <4>3. new.slots[new.ent[x]].autos = Nothing
        BY <4>1, <4>2
      <4>4. DOMAIN Nothing = 1 .. 0
        <5>1. Nothing \in Seq({}) /\ Len(Nothing) = 0
          BY EmptySeq DEF Nothing
        <5> QED
          BY <5>1, LenProperties
      <4>5. i \in 1 .. 0
        BY <2>4, <4>3, <4>4
      <4> QED
        BY <4>5
    <3>2. CASE x # k
      <4>1. x \in DOMAIN t.ent /\ new.ent[x] = t.ent[x]
        BY <2>1, <3>2
      <4>2. t.ent[x] \in Slots /\ t.ent[x] # s
        BY <2>1, <4>1 DEF Sound
      <4>3. new.slots[t.ent[x]] = t.slots[t.ent[x]]
        BY <2>1, <4>2
      <4> QED
        BY <2>4, <4>1, <4>3 DEF Below
    <3> QED
      BY <3>1, <3>2
  <2> QED
    BY <2>2, <2>3, <2>4 DEF Below, new
<1> QED
  BY <1>1, <1>2

LEMMA ConcatCovered ==
    ASSUME NEW a, NEW b, Listed(a), Listed(b), NEW lists,
           \A i \in DOMAIN a : Covered(a[i], lists),
           \A i \in DOMAIN b : Covered(b[i], lists)
    PROVE  \A i \in DOMAIN (a \o b) : Covered((a \o b)[i], lists)
<1> DEFINE c == a \o b
<1>1. c = a \o b
  OBVIOUS
<1> HIDE DEF c
<1>2. \A i \in DOMAIN c : \/ \E j \in DOMAIN a : c[i] = a[j]
                        \/ \E j \in DOMAIN b : c[i] = b[j]
  BY <1>1, ConcatListed
<1>3. \A i \in DOMAIN c : Covered(c[i], lists)
  BY <1>2
<1> QED
  BY <1>1, <1>3

\* Two storylines that the reference engine has joined may be folded.
LEMMA FoldBelow ==
    ASSUME NEW t, Sound(t), Roomy(t), NEW ln, NEW au, Below(t, ln, au),
           NEW a \in DOMAIN t.ent, NEW o \in DOMAIN t.ent,
           t.ent[a] # t.ent[o], ln[a] = ln[o]
    PROVE  Below(Kernel!Fold(t, t.ent[a], t.ent[o]), ln, au)
<1> DEFINE new == Kernel!Fold(t, t.ent[a], t.ent[o])
           x == t.ent[a]
           y == t.ent[o]
           ax == t.slots[x].autos
           ay == t.slots[y].autos
<1>1. x \in Slots /\ y \in Slots
  BY DEF Sound
<1>2. Folded(t, x, y, new)
  BY <1>1, FoldTable
<1> HIDE DEF new
<1>3. DOMAIN new.ent = DOMAIN t.ent
  BY <1>2 DEF Folded
<1>4. ASSUME NEW k \in DOMAIN t.ent
      PROVE  /\ new.ent[k] = IF t.ent[k] = y THEN x ELSE t.ent[k]
             /\ t.ent[k] = x => ln[k] = ln[a]
             /\ t.ent[k] = y => ln[k] = ln[a]
             /\ ln[k] \in Keys
  <2>1. new.ent[k] = IF t.ent[k] = y THEN x ELSE t.ent[k]
    BY <1>2 DEF Folded
  <2> QED
    BY <2>1 DEF Below
<1>5. ASSUME NEW k \in DOMAIN new.ent, NEW j \in DOMAIN new.ent, new.ent[k] = new.ent[j]
      PROVE  ln[k] = ln[j]
  <2>1. k \in DOMAIN t.ent /\ j \in DOMAIN t.ent
    BY <1>3
  <2>2. CASE new.ent[k] = x
    <3>1. ln[k] = ln[a] /\ ln[j] = ln[a]
      BY <1>4, <1>5, <2>1, <2>2
    <3> QED
      BY <3>1
  <2>3. CASE new.ent[k] # x
    <3>1. t.ent[k] = t.ent[j]
      BY <1>4, <1>5, <2>1, <2>3
    <3> QED
      BY <2>1, <3>1 DEF Below
  <2> QED
    BY <2>2, <2>3
<1>6. ASSUME NEW k \in DOMAIN new.ent, NEW i \in DOMAIN new.slots[new.ent[k]].autos
      PROVE  Covered(new.slots[new.ent[k]].autos[i], au[ln[k]])
  <2>1. k \in DOMAIN t.ent
    BY <1>3
  <2>2. CASE new.ent[k] = x
    <3>1. ln[k] = ln[a]
      BY <1>4, <2>1, <2>2
    <3>2. new.slots[x].autos = ax \o ay
      BY <1>1, <1>2 DEF Folded
    <3>3. Listed(ax) /\ Listed(ay)
      BY <1>1 DEF Roomy
    <3>4. i \in DOMAIN (ax \o ay)
      BY <1>6, <2>2, <3>2
    <3>5. /\ \A j \in DOMAIN ax : Covered(ax[j], au[ln[a]])
          /\ \A j \in DOMAIN ay : Covered(ay[j], au[ln[a]])
      BY DEF Below
    <3>6. \A j \in DOMAIN (ax \o ay) : Covered((ax \o ay)[j], au[ln[a]])
      <4> HIDE DEF ax, ay
      <4> QED
        BY <3>3, <3>5, ConcatCovered
    <3>7. Covered((ax \o ay)[i], au[ln[a]])
      BY <3>4, <3>6, Zenon
    <3> QED
      BY <2>2, <3>1, <3>2, <3>7, Zenon
  <2>3. CASE new.ent[k] # x
    <3>1. new.ent[k] = t.ent[k] /\ t.ent[k] # y /\ t.ent[k] # x
      BY <1>4, <2>1, <2>3
    <3>2. t.ent[k] \in Slots
      BY <2>1 DEF Sound
    <3>3. new.slots[t.ent[k]] = t.slots[t.ent[k]]
      BY <1>2, <3>1, <3>2 DEF Folded
    <3> QED
      BY <1>6, <2>1, <3>1, <3>3 DEF Below
  <2> QED
    BY <2>2, <2>3
<1>7. \A k \in DOMAIN new.ent : ln[k] \in Keys
  BY <1>3, <1>4
<1> QED
  BY <1>5, <1>6, <1>7 DEF Below, new

LEMMA UnifyBelow ==
    ASSUME NEW t, Sound(t), Roomy(t), NEW ln, NEW au, Below(t, ln, au),
           NEW a \in DOMAIN t.ent, NEW o \in DOMAIN t.ent, ln[a] = ln[o]
    PROVE  Below(Kernel!Unify(t, a, o), ln, au)
<1>1. CASE Kernel!Unify(t, a, o) = t
  BY <1>1
<1>2. CASE /\ t.ent[a] # t.ent[o]
           /\ Kernel!Unify(t, a, o) \in {Kernel!Fold(t, t.ent[a], t.ent[o]),
                                        Kernel!Fold(t, t.ent[o], t.ent[a])}
  <2>1. Below(Kernel!Fold(t, t.ent[a], t.ent[o]), ln, au)
    BY <1>2, FoldBelow
  <2>2. Below(Kernel!Fold(t, t.ent[o], t.ent[a]), ln, au)
    BY <1>2, FoldBelow
  <2> QED
    BY <1>2, <2>1, <2>2
<1> QED
  BY <1>1, <1>2, UnifySound

\* What is known is known better when the automata have advanced.
LEMMA GrownBelow ==
    ASSUME NEW t, NEW ln, NEW au, NEW bu, Below(t, ln, au),
           \A s \in Keys : \A p \in DOMAIN patterns : \A h \in DOMAIN au[s][p] :
              \E i \in DOMAIN bu[s][p] : au[s][p][h] \subseteq bu[s][p][i]
    PROVE  Below(t, ln, bu)
<1>1. ASSUME NEW a, NEW s \in Keys, Covered(a, au[s]) PROVE Covered(a, bu[s])
  <2>1. PICK h \in DOMAIN au[s][a.pid] : a.done \subseteq au[s][a.pid][h]
    BY <1>1 DEF Covered
  <2>2. a.pid \in DOMAIN patterns
    BY <1>1 DEF Covered
  <2>3. PICK i \in DOMAIN bu[s][a.pid] : au[s][a.pid][h] \subseteq bu[s][a.pid][i]
    BY <2>1, <2>2
  <2>4. a.done \subseteq bu[s][a.pid][i]
    BY <2>1, <2>3
  <2> QED
    BY <1>1, <2>4 DEF Covered
<1> QED
  BY <1>1 DEF Below

\* The relation after a step that keeps the rules.
LEMMA BelowPrimes ==
    ASSUME patterns' = patterns, Below(Table', line', autos')
    PROVE  Below(Table, line, autos)'
<1>1. \A k \in DOMAIN Table'.ent : line'[k] \in Keys
  BY DEF Below
<1>2. \A k, j \in DOMAIN Table'.ent : Table'.ent[k] = Table'.ent[j] => line'[k] = line'[j]
  BY DEF Below
<1>3. ASSUME NEW k \in DOMAIN Table'.ent, NEW i \in DOMAIN Table'.slots[Table'.ent[k]].autos
      PROVE  Covered(Table.slots[Table.ent[k]].autos[i], autos[line[k]])'
  <2>1. Covered(Table'.slots[Table'.ent[k]].autos[i], autos'[line'[k]])
    BY DEF Below
  <2> QED
    BY <2>1 DEF Covered
<1> QED
  BY <1>1, <1>2, <1>3 DEF Below

LEMMA SameBelow ==
    ASSUME UNCHANGED <<patterns, ent, slots, line, autos>>, Below(Table, line, autos)
    PROVE  Below(Table, line, autos)'
<1>1. Table' = Table
  BY DEF Table
<1>2. Below(Table', line', autos')
  BY <1>1
<1> QED
  BY <1>2, BelowPrimes

\* A new engine knows nothing.
LEMMA NothingKnown == ASSUME NEW t, t.ent = <<>>, NEW ln, NEW au PROVE Below(t, ln, au)
<1>1. t.ent = Nothing
  BY DEF Nothing
<1>2. Nothing \in Seq({}) /\ Len(Nothing) = 0
  BY EmptySeq DEF Nothing
<1>3. DOMAIN Nothing = 1 .. 0
  BY <1>2, LenProperties
<1>4. \A k : k \notin DOMAIN t.ent
  BY <1>1, <1>3
<1> QED
  BY <1>4 DEF Below
-----------------------------------------------------------------------------
\* The storylines of the reference engine, whichever rules it was made of.
R == INSTANCE Storylines WITH Pids <- DOMAIN patterns

\* The entries of c are those of a, then those of b.
Entries(a, b, c) ==
    /\ Listed(c) /\ Len(a) \in Nat /\ Len(b) \in Nat
    /\ DOMAIN a = 1 .. Len(a) /\ DOMAIN b = 1 .. Len(b)
    /\ DOMAIN c = 1 .. Len(a) + Len(b)
    /\ \A i \in DOMAIN a : i \in DOMAIN c /\ c[i] = a[i]
    /\ \A i \in DOMAIN b : i + Len(a) \in DOMAIN c /\ c[i + Len(a)] = b[i]
    /\ \A i \in DOMAIN c : i \in DOMAIN a \/ \E j \in DOMAIN b : i = j + Len(a)

LEMMA ConcatEntries ==
    ASSUME NEW a, NEW b, Listed(a), Listed(b), NEW c, c = a \o b
    PROVE  Entries(a, b, c)
<1> DEFINE R2 == {a[i] : i \in DOMAIN a} \union {b[i] : i \in DOMAIN b}
<1>1. a \in Seq(R2) /\ b \in Seq(R2)
  BY SeqMonotonic DEF Listed
<1>2. /\ Len(a) \in Nat /\ DOMAIN a = 1 .. Len(a)
      /\ Len(b) \in Nat /\ DOMAIN b = 1 .. Len(b)
  BY ListedProperties
<1> HIDE DEF R2
<1>3. \A i \in 1 .. Len(a) + Len(b) : c[i] = IF i <= Len(a) THEN a[i] ELSE b[i - Len(a)]
  BY <1>1, ConcatProperties
<1>4. Listed(c) /\ DOMAIN c = 1 .. Len(a) + Len(b)
  BY ConcatListed
<1>5. \A i \in DOMAIN a : i \in DOMAIN c /\ c[i] = a[i]
  BY <1>2, <1>3, <1>4
<1>6. ASSUME NEW i \in DOMAIN b PROVE i + Len(a) \in DOMAIN c /\ c[i + Len(a)] = b[i]
  <2>1. /\ i + Len(a) \in 1 .. Len(a) + Len(b) /\ ~ (i + Len(a) <= Len(a))
        /\ i + Len(a) - Len(a) = i
    BY <1>2
  <2> QED
    BY <1>3, <1>4, <2>1
<1>7. ASSUME NEW i \in DOMAIN c
      PROVE  i \in DOMAIN a \/ \E j \in DOMAIN b : i = j + Len(a)
  <2>1. CASE i <= Len(a)
    BY <1>2, <1>4, <2>1
  <2>2. CASE ~ (i <= Len(a))
    <3>1. i - Len(a) \in DOMAIN b /\ i = i - Len(a) + Len(a)
      BY <1>2, <1>4, <2>2
    <3> QED
      BY <3>1
  <2> QED
    BY <2>1, <2>2
<1> QED
  BY <1>2, <1>4, <1>5, <1>6, <1>7 DEF Entries

(***************************************************************************)
(* The array a of a slot and the lists of a storyline, pattern by pattern, *)
(* hold the same automata: at says where in the list of its pattern the    *)
(* automaton of each entry is.                                             *)
(***************************************************************************)
Pairs(at, a, lists) ==
    /\ Listed(a)
    /\ \A p \in DOMAIN patterns : Listed(lists[p])
    /\ \A i \in DOMAIN a :
         /\ a[i].pid \in DOMAIN patterns
         /\ at[i] \in DOMAIN lists[a[i].pid]
         /\ a[i] = [pid |-> a[i].pid, done |-> lists[a[i].pid][at[i]]]
    /\ \A i, j \in DOMAIN a : a[i].pid = a[j].pid /\ at[i] = at[j] => i = j
    /\ \A p \in DOMAIN patterns : \A h \in DOMAIN lists[p] :
         \E i \in DOMAIN a : a[i].pid = p /\ at[i] = h

Alike(a, lists) == \E at : Pairs(at, a, lists)

LEMMA NothingIsEmpty == Listed(Nothing) /\ Len(Nothing) = 0 /\ DOMAIN Nothing = {}
<1>1. Nothing \in Seq({}) /\ Len(Nothing) = 0
  BY EmptySeq DEF Nothing
<1>2. Listed(Nothing) /\ DOMAIN Nothing = 1 .. 0
  BY <1>1, SeqListed, LenProperties
<1> QED
  BY <1>1, <1>2

LEMMA NothingAlike ==
    ASSUME NEW lists, \A p \in DOMAIN patterns : lists[p] = Nothing
    PROVE  Alike(Nothing, lists)
<1>1. Pairs(Nothing, Nothing, lists)
  BY NothingIsEmpty DEF Pairs
<1> QED
  BY <1>1 DEF Alike

\* merge, and part (a) of advance: lists are appended to lists.
LEMMA ConcatAlike ==
    ASSUME NEW a, NEW b, NEW la, NEW lb, NEW lists, Alike(a, la), Alike(b, lb),
           \A p \in DOMAIN patterns : lists[p] = la[p] \o lb[p]
    PROVE  Alike(a \o b, lists)
<1> DEFINE n == Len(a)
           c == a \o b
<1>1. PICK f : Pairs(f, a, la)
  BY DEF Alike
<1>2. PICK g : Pairs(g, b, lb)
  BY DEF Alike
<1>3. /\ Listed(c) /\ n \in Nat /\ Len(b) \in Nat
      /\ DOMAIN a = 1 .. n /\ DOMAIN b = 1 .. Len(b) /\ DOMAIN c = 1 .. n + Len(b)
      /\ \A i \in DOMAIN a : i \in DOMAIN c /\ c[i] = a[i]
      /\ \A i \in DOMAIN b : i + n \in DOMAIN c /\ c[i + n] = b[i]
      /\ \A i \in DOMAIN c : i \in DOMAIN a \/ \E j \in DOMAIN b : i = j + n
  <2>1. Listed(a) /\ Listed(b) /\ c = a \o b
    BY <1>1, <1>2 DEF Pairs
  <2> HIDE DEF c
  <2>2. Entries(a, b, c)
    BY <2>1, ConcatEntries
  <2> QED
    BY <2>2 DEF Entries
<1> DEFINE m(p) == Len(la[p])
<1>4. ASSUME NEW p \in DOMAIN patterns
      PROVE  /\ Listed(lists[p]) /\ m(p) \in Nat /\ Len(lb[p]) \in Nat
             /\ DOMAIN la[p] = 1 .. m(p) /\ DOMAIN lb[p] = 1 .. Len(lb[p])
             /\ \A h \in DOMAIN la[p] : h \in DOMAIN lists[p] /\ lists[p][h] = la[p][h]
             /\ \A h \in DOMAIN lb[p] : h + m(p) \in DOMAIN lists[p] /\ lists[p][h + m(p)] = lb[p][h]
             /\ \A h \in DOMAIN lists[p] : h \in DOMAIN la[p] \/ \E j \in DOMAIN lb[p] : h = j + m(p)
  <2> DEFINE x == la[p]
             y == lb[p]
             z == lists[p]
  <2>1. Listed(x) /\ Listed(y) /\ z = x \o y
    BY <1>1, <1>2 DEF Pairs
  <2>2. m(p) = Len(x)
    OBVIOUS
  <2> HIDE DEF m, x, y, z
  <2>3. Entries(x, y, z)
    BY <2>1, ConcatEntries
  <2> QED
    BY <2>2, <2>3 DEF x, y, z, Entries
<1> HIDE DEF n, c, m
<1> DEFINE at == [i \in DOMAIN c |-> IF i \in DOMAIN a THEN f[i] ELSE g[i - n] + m(b[i - n].pid)]
<1>5. \A i \in DOMAIN a : at[i] = f[i]
  BY <1>3
<1>6. ASSUME NEW i \in DOMAIN b PROVE at[i + n] = g[i] + m(b[i].pid)
  <2>1. i + n \in DOMAIN c /\ i + n \notin DOMAIN a /\ i \in Nat /\ n \in Nat
    BY <1>3
  <2>2. ASSUME NEW x \in DOMAIN c, x \notin DOMAIN a
        PROVE  at[x] = g[x - n] + m(b[x - n].pid)
    BY <2>2, Zenon
  <2> DEFINE z == i + n
  <2>3. z \in DOMAIN c /\ z \notin DOMAIN a
    BY <2>1
  <2>4. z - n = i
    BY <2>1
  <2> HIDE DEF at, z
  <2>5. at[z] = g[z - n] + m(b[z - n].pid)
    BY <2>2, <2>3
  <2>6. at[z] = g[i] + m(b[i].pid)
    BY <2>4, <2>5
  <2> QED
    BY <2>6 DEF z
<1> HIDE DEF at
<1>7. ASSUME NEW p \in DOMAIN patterns, NEW x \in DOMAIN la[p], NEW y \in DOMAIN lb[p]
      PROVE  x # y + m(p) /\ y \in Nat
  BY <1>4
<1>8. ASSUME NEW i \in DOMAIN c
      PROVE  /\ c[i].pid \in DOMAIN patterns
             /\ at[i] \in DOMAIN lists[c[i].pid]
             /\ c[i] = [pid |-> c[i].pid, done |-> lists[c[i].pid][at[i]]]
  <2>1. CASE i \in DOMAIN a
    <3> DEFINE p == a[i].pid
    <3>1. /\ p \in DOMAIN patterns /\ f[i] \in DOMAIN la[p]
          /\ a[i] = [pid |-> p, done |-> la[p][f[i]]]
      BY <1>1, <2>1 DEF Pairs
    <3>2. c[i] = a[i] /\ at[i] = f[i]
      BY <1>3, <1>5, <2>1
    <3>3. c[i].pid = p
      BY <3>2
    <3> HIDE DEF p
    <3>4. f[i] \in DOMAIN lists[p] /\ lists[p][f[i]] = la[p][f[i]]
      BY <1>4, <3>1, Zenon
    <3> QED
      BY <3>1, <3>2, <3>3, <3>4
  <2>2. ASSUME NEW j \in DOMAIN b, i = j + n
        PROVE  /\ c[i].pid \in DOMAIN patterns
               /\ at[i] \in DOMAIN lists[c[i].pid]
               /\ c[i] = [pid |-> c[i].pid, done |-> lists[c[i].pid][at[i]]]
    <3> DEFINE p == b[j].pid
               h == g[j]
    <3>1. /\ p \in DOMAIN patterns /\ h \in DOMAIN lb[p]
          /\ b[j] = [pid |-> p, done |-> lb[p][h]]
      BY <1>2 DEF Pairs
    <3>2. c[i] = b[j] /\ at[i] = h + m(p)
      BY <1>3, <1>6, <2>2
    <3>3. c[i].pid = p
      BY <3>2
    <3> HIDE DEF p, h
    <3>4. h + m(p) \in DOMAIN lists[p] /\ lists[p][h + m(p)] = lb[p][h]
      BY <1>4, <3>1, Zenon
    <3> QED
      BY <3>1, <3>2, <3>3, <3>4
  <2> QED
    BY <1>3, <2>1, <2>2
<1>9. ASSUME NEW i \in DOMAIN c, NEW j \in DOMAIN c, c[i].pid = c[j].pid, at[i] = at[j]
      PROVE  i = j
  <2>1. ASSUME NEW x \in DOMAIN a, NEW y \in DOMAIN b
        PROVE  ~ (c[x].pid = c[y + n].pid /\ at[x] = at[y + n])
    <3> DEFINE p == a[x].pid
    <3>1. p \in DOMAIN patterns /\ f[x] \in DOMAIN la[p]
      BY <1>1 DEF Pairs
    <3>2. g[y] \in DOMAIN lb[b[y].pid]
      BY <1>2 DEF Pairs
    <3>3. c[x] = a[x] /\ at[x] = f[x] /\ c[y + n] = b[y] /\ at[y + n] = g[y] + m(b[y].pid)
      BY <1>3, <1>5, <1>6
    <3> HIDE DEF p
    <3>4. b[y].pid = p => f[x] # g[y] + m(p)
      BY <1>7, <3>1, <3>2
    <3> QED
      BY <3>3, <3>4 DEF p
  <2>2. ASSUME NEW x \in DOMAIN a, NEW y \in DOMAIN a, c[x].pid = c[y].pid, at[x] = at[y]
        PROVE  x = y
    <3>1. c[x] = a[x] /\ c[y] = a[y] /\ at[x] = f[x] /\ at[y] = f[y]
      BY <1>3, <1>5
    <3> QED
      BY <1>1, <2>2, <3>1 DEF Pairs
  <2>3. ASSUME NEW x \in DOMAIN b, NEW y \in DOMAIN b,
               c[x + n].pid = c[y + n].pid, at[x + n] = at[y + n]
        PROVE  x = y
    <3> DEFINE p == b[x].pid
    <3>1. /\ c[x + n] = b[x] /\ c[y + n] = b[y]
          /\ at[x + n] = g[x] + m(p) /\ at[y + n] = g[y] + m(b[y].pid)
      BY <1>3, <1>6
    <3>2. b[y].pid = p
      BY <2>3, <3>1
    <3>3. p \in DOMAIN patterns /\ g[x] \in DOMAIN lb[p] /\ g[y] \in DOMAIN lb[p]
      BY <1>2, <3>2 DEF Pairs
    <3>4. g[x] + m(p) = g[y] + m(p)
      BY <2>3, <3>1, <3>2
    <3> HIDE DEF p
    <3>5. m(p) \in Nat /\ Len(lb[p]) \in Nat /\ DOMAIN lb[p] = 1 .. Len(lb[p])
      BY <1>4, <3>3
    <3>6. g[x] \in Nat /\ g[y] \in Nat
      BY <3>3, <3>5
    <3>7. g[x] = g[y]
      BY <3>4, <3>5, <3>6
    <3> QED
      BY <1>2, <3>2, <3>7 DEF Pairs, p
  <2>4. CASE i \in DOMAIN a
    BY <1>3, <1>9, <2>1, <2>2, <2>4
  <2>5. ASSUME NEW x \in DOMAIN b, i = x + n PROVE i = j
    BY <1>3, <1>9, <2>1, <2>3, <2>5
  <2> QED
    BY <1>3, <2>4, <2>5
<1>10. ASSUME NEW p \in DOMAIN patterns, NEW h \in DOMAIN lists[p]
       PROVE  \E i \in DOMAIN c : c[i].pid = p /\ at[i] = h
  <2>1. CASE h \in DOMAIN la[p]
    <3>1. PICK i \in DOMAIN a : a[i].pid = p /\ f[i] = h
      BY <1>1, <2>1 DEF Pairs
    <3>2. i \in DOMAIN c /\ c[i] = a[i] /\ at[i] = f[i]
      BY <1>3, <1>5
    <3> QED
      BY <3>1, <3>2
  <2>2. ASSUME NEW y \in DOMAIN lb[p], h = y + m(p)
        PROVE  \E i \in DOMAIN c : c[i].pid = p /\ at[i] = h
    <3>1. PICK i \in DOMAIN b : b[i].pid = p /\ g[i] = y
      BY <1>2 DEF Pairs
    <3>2. i + n \in DOMAIN c /\ c[i + n] = b[i] /\ at[i + n] = g[i] + m(b[i].pid)
      BY <1>3, <1>6
    <3> QED
      BY <2>2, <3>1, <3>2
  <2>3. h \in DOMAIN la[p] \/ \E y \in DOMAIN lb[p] : h = y + m(p)
    BY <1>4, Zenon
  <2> QED
    BY <2>1, <2>2, <2>3
<1>11. Pairs(at, c, lists)
  BY <1>3, <1>4, <1>8, <1>9, <1>10 DEF Pairs
<1> QED
  BY <1>11 DEF Alike, c

LEMMA NothingAdds ==
    ASSUME NEW q, Listed(q)
    PROVE  Nothing \o q = q /\ q \o Nothing = q
  BY DEF Nothing, Listed

\* Only the lists of the patterns matter.
LEMMA AlikeLists ==
    ASSUME NEW a, NEW la, NEW lb, Alike(a, la), \A p \in DOMAIN patterns : la[p] = lb[p]
    PROVE  Alike(a, lb)
<1>1. PICK at : Pairs(at, a, la)
  BY DEF Alike
<1>2. Pairs(at, a, lb)
  BY <1>1 DEF Pairs
<1> QED
  BY <1>2 DEF Alike

LEMMA RootsFinite ==
    ASSUME RulesType, NEW e, NEW p \in 1 .. Len(patterns)
    PROVE  Kernel!Cardinality(Kernel!Roots(p, e)) \in Nat
<1>1. patterns[p] \in Seq(DagStep)
  BY ElementOfSeq DEF RulesType
<1>2. Len(patterns[p]) \in Int /\ 1 \in Int /\ DOMAIN patterns[p] = 1 .. Len(patterns[p])
  BY <1>1, LenProperties
<1>3. IsFiniteSet(1 .. Len(patterns[p]))
  BY <1>2, FS_Interval, Zenon
<1>4. Kernel!Roots(p, e) \in SUBSET (1 .. Len(patterns[p]))
  BY <1>2 DEF Kernel!Roots
<1>5. IsFiniteSet(Kernel!Roots(p, e))
  BY <1>3, <1>4, FS_Subset
<1> QED
  BY <1>5, SameCardinality, FS_CardinalityType

\* The seeds of the reference engine for pattern p.
RefSeeds(p, e) == [i \in 1 .. Kernel!Cardinality(Kernel!Roots(p, e)) |-> {}]

\* The seeds of the first n patterns.
SeedsUpTo(n, e) == [p \in DOMAIN patterns |-> IF p <= n THEN RefSeeds(p, e) ELSE Nothing]

LEMMA RefSeedsListed ==
    ASSUME RulesType, NEW e, NEW p \in 1 .. Len(patterns)
    PROVE  \E n \in Nat :
             /\ Listed(RefSeeds(p, e)) /\ DOMAIN RefSeeds(p, e) = 1 .. n
             /\ \A i \in 1 .. n : RefSeeds(p, e)[i] = {}
             /\ Listed(Sown(p, e)) /\ DOMAIN Sown(p, e) = 1 .. n
             /\ \A i \in 1 .. n : Sown(p, e)[i] = [pid |-> p, done |-> {}]
<1> DEFINE n == Kernel!Cardinality(Kernel!Roots(p, e))
<1>1. n \in Nat
  BY RootsFinite
<1>2. /\ Sown(p, e) = [i \in 1 .. n |-> [pid |-> p, done |-> {}]]
      /\ RefSeeds(p, e) = [i \in 1 .. n |-> {}]
  BY DEF Sown, RefSeeds
<1> HIDE DEF n
<1>3. /\ Sown(p, e) = [i \in 1 .. n |-> Sown(p, e)[i]]
      /\ RefSeeds(p, e) = [i \in 1 .. n |-> RefSeeds(p, e)[i]]
  BY <1>2
<1>4. /\ Listed(Sown(p, e)) /\ DOMAIN Sown(p, e) = 1 .. n
      /\ Listed(RefSeeds(p, e)) /\ DOMAIN RefSeeds(p, e) = 1 .. n
  BY <1>1, <1>3, FunctionListed
<1> QED
  BY <1>1, <1>2, <1>4

LEMMA SownAlike ==
    ASSUME RulesType, NEW e, NEW n \in 1 .. Len(patterns), NEW lists,
           \A p \in DOMAIN patterns : lists[p] = IF p = n THEN RefSeeds(n, e) ELSE Nothing
    PROVE  Alike(Sown(n, e), lists)
<1>1. PICK m \in Nat :
        /\ Listed(RefSeeds(n, e)) /\ DOMAIN RefSeeds(n, e) = 1 .. m
        /\ \A i \in 1 .. m : RefSeeds(n, e)[i] = {}
        /\ Listed(Sown(n, e)) /\ DOMAIN Sown(n, e) = 1 .. m
        /\ \A i \in 1 .. m : Sown(n, e)[i] = [pid |-> n, done |-> {}]
  BY RefSeedsListed
<1>2. n \in DOMAIN patterns
  BY LenProperties DEF RulesType
<1> DEFINE at == [i \in 1 .. m |-> i]
           a == Sown(n, e)
<1>3. \A i \in 1 .. m : at[i] = i
  OBVIOUS
<1>4. lists[n] = RefSeeds(n, e) /\ \A p \in DOMAIN patterns : p # n => lists[p] = Nothing
  BY <1>2
<1>5. /\ Listed(a) /\ DOMAIN a = 1 .. m
      /\ \A i \in 1 .. m : a[i] = [pid |-> n, done |-> {}]
  BY <1>1
<1> HIDE DEF at, a
<1>6. \A i \in 1 .. m : a[i].pid = n /\ a[i].done = {}
  BY <1>5
<1>7. \A p \in DOMAIN patterns : Listed(lists[p])
  BY <1>1, <1>4, NothingIsEmpty
<1>8. DOMAIN lists[n] = 1 .. m /\ \A i \in 1 .. m : lists[n][i] = {}
  BY <1>1, <1>4
<1>9. ASSUME NEW i \in DOMAIN a
      PROVE  /\ a[i].pid \in DOMAIN patterns
             /\ at[i] \in DOMAIN lists[a[i].pid]
             /\ a[i] = [pid |-> a[i].pid, done |-> lists[a[i].pid][at[i]]]
  <2>1. i \in 1 .. m /\ a[i].pid = n /\ at[i] = i
    BY <1>3, <1>5, <1>6
  <2>2. lists[n][i] = {} /\ i \in DOMAIN lists[n]
    BY <1>8, <2>1
  <2> QED
    BY <1>2, <1>5, <2>1, <2>2
<1>10. ASSUME NEW p \in DOMAIN patterns, NEW h \in DOMAIN lists[p]
       PROVE  \E i \in DOMAIN a : a[i].pid = p /\ at[i] = h
  <2>1. p = n
    BY <1>4, NothingIsEmpty
  <2>2. h \in 1 .. m
    BY <1>8, <2>1
  <2> QED
    BY <1>3, <1>5, <1>6, <2>1, <2>2
<1>11. Pairs(at, a, lists)
  BY <1>3, <1>5, <1>6, <1>7, <1>9, <1>10 DEF Pairs
<1> QED
  BY <1>11 DEF Alike, a

\* Part (a) of advance seeds the same automata in both engines.
LEMMA AllSeedsAlike ==
    ASSUME RulesType, NEW e, NEW lists,
           \A p \in DOMAIN patterns : lists[p] = RefSeeds(p, e)
    PROVE  Alike(Kernel!AllSeeds(e), lists)
<1> DEFINE N == Len(patterns)
           u == CHOOSE g : IsUpTo(g, N, e)
           Fine == {n \in Nat : n <= N => Alike(u[n], SeedsUpTo(n, e))}
<1>1. N \in Nat /\ DOMAIN patterns = 1 .. N
  BY LenProperties DEF RulesType
<1>2. IsUpTo(u, N, e)
  BY <1>1, UpToExists
<1>3. Kernel!AllSeeds(e) = u[N]
  BY DEF Kernel!AllSeeds, IsUpTo, Sown, Nothing, Glue
<1>4. u[0] = Nothing /\ \A p \in 1 .. N : u[p] = Glue(p, u[p-1], e)
  <2> HIDE DEF u, N
  <2> QED
    BY <1>1, <1>2, UpToUnfolds
<1> HIDE DEF u, N
<1>5. 0 \in Fine
  <2>1. \A p \in DOMAIN patterns : SeedsUpTo(0, e)[p] = Nothing
    BY <1>1 DEF SeedsUpTo
  <2>2. Alike(Nothing, SeedsUpTo(0, e))
    BY <2>1, NothingAlike
  <2> QED
    BY <1>4, <2>2
<1>6. ASSUME NEW n \in Nat, n \in Fine, n + 1 <= N
      PROVE  Alike(u[n + 1], SeedsUpTo(n + 1, e))
  <2> DEFINE x == SeedsUpTo(n, e)
             y == [p \in DOMAIN patterns |-> IF p = n + 1 THEN RefSeeds(n + 1, e) ELSE Nothing]
             z == SeedsUpTo(n + 1, e)
  <2>1. Alike(u[n], x)
    BY <1>1, <1>6
  <2>2. Alike(Sown(n + 1, e), y)
    <3>1. n + 1 \in 1 .. Len(patterns)
      BY <1>1, <1>6 DEF N
    <3>2. \A p \in DOMAIN patterns : y[p] = IF p = n + 1 THEN RefSeeds(n + 1, e) ELSE Nothing
      OBVIOUS
    <3> HIDE DEF y
    <3> QED
      BY <3>1, <3>2, SownAlike
  <2>3. u[n + 1] = u[n] \o Sown(n + 1, e)
    <3>1. n + 1 \in 1 .. N /\ (n + 1) - 1 = n
      BY <1>1, <1>6
    <3> QED
      BY <1>4, <3>1 DEF Glue
  <2>4. ASSUME NEW p \in DOMAIN patterns PROVE z[p] = x[p] \o y[p]
    <3>1. Listed(RefSeeds(p, e))
      BY <1>1, RefSeedsListed DEF N
    <3>2. /\ \A q : Listed(q) => Nothing \o q = q
          /\ \A q : Listed(q) => q \o Nothing = q
      BY NothingAdds
    <3>3. p \in Nat
      BY <1>1
    <3>4. CASE p <= n
      <4>1. x[p] = RefSeeds(p, e) /\ z[p] = RefSeeds(p, e) /\ y[p] = Nothing
        BY <3>3, <3>4 DEF SeedsUpTo
      <4> QED
        BY <3>1, <3>2, <4>1, Zenon
    <3>5. CASE p = n + 1
      <4>1. x[p] = Nothing /\ z[p] = RefSeeds(p, e) /\ y[p] = RefSeeds(p, e)
        BY <3>3, <3>5 DEF SeedsUpTo
      <4> QED
        BY <3>1, <3>2, <4>1, Zenon
    <3>6. CASE ~ (p <= n) /\ p # n + 1
      <4>1. x[p] = Nothing /\ z[p] = Nothing /\ y[p] = Nothing
        BY <3>3, <3>6 DEF SeedsUpTo
      <4> QED
        BY <3>2, <4>1, NothingIsEmpty, Zenon
    <3> QED
      BY <3>4, <3>5, <3>6
  <2> DEFINE a == u[n]
             b == Sown(n + 1, e)
  <2> HIDE DEF a, b, x, y, z
  <2>5. Alike(a, x) /\ Alike(b, y)
    BY <2>1, <2>2 DEF a, b
  <2>6. Alike(a \o b, z)
    BY <2>4, <2>5, ConcatAlike
  <2> QED
    BY <2>3, <2>6 DEF a, b, z
<1>7. \A n \in Nat : n \in Fine
  <2>1. \A n \in Nat : n \in Fine => n + 1 \in Fine
    BY <1>6
  <2> HIDE DEF Fine
  <2> QED
    BY <1>5, <2>1, SetInduction
<1>8. Alike(u[N], SeedsUpTo(N, e))
  BY <1>1, <1>7
<1>9. \A p \in DOMAIN patterns : SeedsUpTo(N, e)[p] = lists[p]
  BY <1>1 DEF SeedsUpTo
<1> QED
  BY <1>3, <1>8, <1>9, AlikeLists

LEMMA SeededAlike ==
    ASSUME RulesType, NEW e, NEW a, NEW la, NEW lists, Alike(a, la),
           Len(a) + Len(Kernel!AllSeeds(e)) <= CapAuto,
           \A p \in DOMAIN patterns : lists[p] = la[p] \o RefSeeds(p, e)
    PROVE  Alike(Kernel!Seeded(a, e), lists)
<1> DEFINE b == Kernel!AllSeeds(e)
           lb == [p \in DOMAIN patterns |-> RefSeeds(p, e)]
           all == a \o b
<1>1. Alike(b, lb)
  <2>1. \A p \in DOMAIN patterns : lb[p] = RefSeeds(p, e)
    OBVIOUS
  <2> HIDE DEF lb
  <2> QED
    BY <2>1, AllSeedsAlike
<1>2. \A p \in DOMAIN patterns : lists[p] = la[p] \o lb[p]
  OBVIOUS
<1>3. Len(a) + Len(b) <= CapAuto
  OBVIOUS
<1>4. Kernel!Seeded(a, e) = SubSeq(all, 1, IF Len(all) <= CapAuto THEN Len(all) ELSE CapAuto)
  BY DEF Kernel!Seeded
<1> HIDE DEF b, lb
<1>5. Alike(all, lists)
  BY <1>1, <1>2, ConcatAlike
<1>6. Listed(a) /\ Listed(b) /\ Listed(all)
  BY <1>1, <1>5 DEF Alike, Pairs
<1>7. Len(all) = Len(a) + Len(b) /\ Len(all) \in Nat
  BY <1>6, ConcatListed, ListedProperties
<1>8. Kernel!Seeded(a, e) = SubSeq(all, 1, Len(all))
  BY <1>3, <1>4, <1>7
<1> HIDE DEF all
<1>9. SubSeq(all, 1, Len(all)) = all
  BY <1>6 DEF Listed
<1> QED
  BY <1>5, <1>8, <1>9

\* lists are the lists la advanced on e.
Onward(la, lists, e) ==
    \A p \in DOMAIN patterns :
      lists[p] = [i \in DOMAIN la[p] |-> Kernel!Progress(p, la[p][i], e)]

\* Part (b) of advance.
LEMMA AdvancedAlike ==
    ASSUME NEW e, NEW a, NEW la, NEW lists, Alike(a, la), Onward(la, lists, e)
    PROVE  Alike(Kernel!Advanced(a, e), lists)
<1> DEFINE b == Kernel!Advanced(a, e)
<1>1. PICK at : Pairs(at, a, la)
  BY DEF Alike
<1>2. /\ Listed(b) /\ DOMAIN b = DOMAIN a
      /\ \A i \in DOMAIN a :
           b[i] = [a[i] EXCEPT !.done = Kernel!Progress(a[i].pid, a[i].done, e)]
  BY <1>1, AdvancedListed DEF Pairs
<1> HIDE DEF b
<1>3. ASSUME NEW i \in DOMAIN a
      PROVE  b[i] = [pid |-> a[i].pid, done |-> Kernel!Progress(a[i].pid, a[i].done, e)]
  <2>1. PICK p, d : a[i] = [pid |-> p, done |-> d]
    BY <1>1 DEF Pairs
  <2>2. a[i].pid = p /\ a[i].done = d
    BY <2>1
  <2>3. b[i] = [a[i] EXCEPT !.done = Kernel!Progress(p, d, e)]
    BY <1>2, <2>2
  <2> DEFINE new == Kernel!Progress(p, d, e)
  <2> HIDE DEF new
  <2>4. [a[i] EXCEPT !.done = new] = [pid |-> p, done |-> new]
    BY <2>1
  <2> QED
    BY <2>2, <2>3, <2>4 DEF new
<1>4. ASSUME NEW p \in DOMAIN patterns
      PROVE  /\ Listed(lists[p]) /\ DOMAIN lists[p] = DOMAIN la[p]
             /\ \A h \in DOMAIN la[p] : lists[p][h] = Kernel!Progress(p, la[p][h], e)
  <2> DEFINE x == la[p]
             y == lists[p]
  <2>1. y = [i \in DOMAIN x |-> Kernel!Progress(p, x[i], e)]
    BY DEF Onward
  <2>2. Listed(x)
    BY <1>1 DEF Pairs
  <2> HIDE DEF x, y
  <2>3. Len(x) \in Nat /\ DOMAIN x = 1 .. Len(x)
    BY <2>2, ListedProperties
  <2>4. y = [i \in 1 .. Len(x) |-> y[i]]
    BY <2>1, <2>3
  <2>5. Listed(y) /\ DOMAIN y = 1 .. Len(x)
    BY <2>3, <2>4, FunctionListed
  <2>6. \A h \in DOMAIN x : y[h] = Kernel!Progress(p, x[h], e)
    BY <2>1
  <2> QED
    BY <2>3, <2>5, <2>6 DEF x, y
<1>5. ASSUME NEW i \in DOMAIN b
      PROVE  /\ b[i].pid \in DOMAIN patterns
             /\ at[i] \in DOMAIN lists[b[i].pid]
             /\ b[i] = [pid |-> b[i].pid, done |-> lists[b[i].pid][at[i]]]
  <2> DEFINE p == a[i].pid
  <2>1. /\ i \in DOMAIN a /\ p \in DOMAIN patterns /\ at[i] \in DOMAIN la[p]
        /\ a[i] = [pid |-> p, done |-> la[p][at[i]]]
    BY <1>1, <1>2 DEF Pairs
  <2>2. a[i].done = la[p][at[i]]
    BY <2>1
  <2>3. b[i] = [pid |-> p, done |-> Kernel!Progress(p, a[i].done, e)]
    BY <1>3, <2>1
  <2>4. b[i].pid = p
    BY <2>3
  <2> HIDE DEF p
  <2>5. at[i] \in DOMAIN lists[p] /\ lists[p][at[i]] = Kernel!Progress(p, la[p][at[i]], e)
    BY <1>4, <2>1
  <2> QED
    BY <2>1, <2>2, <2>3, <2>4, <2>5
<1>6. \A i \in DOMAIN b : b[i].pid = a[i].pid
  BY <1>2, <1>3
<1>7. \A i, j \in DOMAIN b : b[i].pid = b[j].pid /\ at[i] = at[j] => i = j
  BY <1>1, <1>2, <1>6 DEF Pairs
<1>8. \A p \in DOMAIN patterns : \A h \in DOMAIN lists[p] :
        \E i \in DOMAIN b : b[i].pid = p /\ at[i] = h
  BY <1>1, <1>2, <1>4, <1>6 DEF Pairs
<1>9. Pairs(at, b, lists)
  BY <1>2, <1>4, <1>5, <1>7, <1>8 DEF Pairs
<1> QED
  BY <1>9 DEF Alike, b

\* What the reference engine's automata commit, pattern by pattern.
RefActivated(lists, e) ==
    UNION {UNION {Kernel!Fired(p, lists[p][i], e) : i \in DOMAIN lists[p]} : p \in DOMAIN patterns}

\* The same steps are activated.
LEMMA ActivatedAlike ==
    ASSUME NEW e, NEW a, NEW lists, Alike(a, lists)
    PROVE  Kernel!Activated(a, e) = RefActivated(lists, e)
<1>1. PICK at : Pairs(at, a, lists)
  BY DEF Alike
<1> DEFINE K(i) == Kernel!Fired(a[i].pid, a[i].done, e)
           F(p, h) == Kernel!Fired(p, lists[p][h], e)
<1>2. /\ Kernel!Activated(a, e) = UNION {K(i) : i \in DOMAIN a}
      /\ RefActivated(lists, e) = UNION {UNION {F(p, h) : h \in DOMAIN lists[p]} : p \in DOMAIN patterns}
  BY DEF Kernel!Activated, RefActivated
<1>3. ASSUME NEW i \in DOMAIN a
      PROVE  /\ a[i].pid \in DOMAIN patterns /\ at[i] \in DOMAIN lists[a[i].pid]
             /\ K(i) = F(a[i].pid, at[i])
  <2>1. /\ a[i].pid \in DOMAIN patterns /\ at[i] \in DOMAIN lists[a[i].pid]
        /\ a[i] = [pid |-> a[i].pid, done |-> lists[a[i].pid][at[i]]]
    BY <1>1 DEF Pairs
  <2>2. a[i].done = lists[a[i].pid][at[i]]
    BY <2>1
  <2> QED
    BY <2>1, <2>2
<1>4. \A p \in DOMAIN patterns : \A h \in DOMAIN lists[p] :
        \E i \in DOMAIN a : a[i].pid = p /\ at[i] = h
  BY <1>1 DEF Pairs
<1> HIDE DEF K, F
<1>5. ASSUME NEW x, NEW i \in DOMAIN a, x \in K(i)
      PROVE  \E p \in DOMAIN patterns : \E h \in DOMAIN lists[p] : x \in F(p, h)
  BY <1>3, <1>5
<1>6. ASSUME NEW x, NEW p \in DOMAIN patterns, NEW h \in DOMAIN lists[p], x \in F(p, h)
      PROVE  \E i \in DOMAIN a : x \in K(i)
  <2>1. PICK i \in DOMAIN a : a[i].pid = p /\ at[i] = h
    BY <1>4
  <2>2. K(i) = F(p, h)
    BY <1>3, <2>1
  <2> QED
    BY <1>6, <2>2
<1>7. ASSUME NEW x
      PROVE  x \in UNION {K(i) : i \in DOMAIN a}
               <=> x \in UNION {UNION {F(p, h) : h \in DOMAIN lists[p]} : p \in DOMAIN patterns}
  <2>1. x \in UNION {K(i) : i \in DOMAIN a} <=> \E i \in DOMAIN a : x \in K(i)
    BY Zenon
  <2>2. x \in UNION {UNION {F(p, h) : h \in DOMAIN lists[p]} : p \in DOMAIN patterns}
          <=> \E p \in DOMAIN patterns : \E h \in DOMAIN lists[p] : x \in F(p, h)
    <3> DEFINE G(p) == UNION {F(p, h) : h \in DOMAIN lists[p]}
    <3>1. \A p : x \in G(p) <=> \E h \in DOMAIN lists[p] : x \in F(p, h)
      BY Zenon
    <3> HIDE DEF G
    <3>2. x \in UNION {G(p) : p \in DOMAIN patterns} <=> \E p \in DOMAIN patterns : x \in G(p)
      BY Zenon
    <3> QED
      BY <3>1, <3>2, Zenon DEF G
  <2> QED
    BY <1>5, <1>6, <2>1, <2>2, Zenon
<1> QED
  BY <1>2, <1>7, Zenon

LEMMA PairedOff ==
    ASSUME NEW X, NEW Y, IsFiniteSet(X), NEW at,
           \A i \in X : at[i] \in Y,
           \A i, j \in X : at[i] = at[j] => i = j,
           \A h \in Y : \E i \in X : at[i] = h
    PROVE  Cardinality(X) = Cardinality(Y)
<1> DEFINE f == [i \in X |-> at[i]]
<1>1. f \in [X -> Y] /\ \A i \in X : f[i] = at[i]
  OBVIOUS
<1> HIDE DEF f
<1>2. f \in Bijection(X, Y)
  BY <1>1 DEF Bijection, Injection, Surjection, IsInjective
<1>3. ExistsBijection(X, Y)
  BY <1>2 DEF ExistsBijection
<1> QED
  BY <1>3, FS_Bijection

\* There are as many of a kind in the array as in the lists.
Counts(a, lists, p) ==
    /\ Cardinality({i \in DOMAIN a : a[i].pid = p}) = Len(lists[p])
    /\ \A d : Cardinality({i \in DOMAIN lists[p] : lists[p][i] = d})
                = Cardinality({i \in DOMAIN a : a[i] = [pid |-> p, done |-> d]})

LEMMA AlikeCounts ==
    ASSUME NEW a, NEW lists, Alike(a, lists), NEW p \in DOMAIN patterns
    PROVE  Counts(a, lists, p)
<1>1. PICK at : Pairs(at, a, lists)
  BY DEF Alike
<1>2. /\ Len(a) \in Int /\ 1 \in Int /\ DOMAIN a = 1 .. Len(a)
      /\ Len(lists[p]) \in Nat /\ DOMAIN lists[p] = 1 .. Len(lists[p])
  <2>1. Listed(a) /\ Listed(lists[p])
    BY <1>1 DEF Pairs
  <2> QED
    BY <2>1, ListedProperties
<1>3. IsFiniteSet(DOMAIN a)
  BY <1>2, FS_Interval, Zenon
<1>4. \A i \in DOMAIN a :
        /\ a[i].pid = p => at[i] \in DOMAIN lists[p] /\ a[i].done = lists[p][at[i]]
        /\ a[i] = [pid |-> a[i].pid, done |-> a[i].done]
  <2> SUFFICES ASSUME NEW i \in DOMAIN a
               PROVE  /\ a[i].pid = p => at[i] \in DOMAIN lists[p] /\ a[i].done = lists[p][at[i]]
                      /\ a[i] = [pid |-> a[i].pid, done |-> a[i].done]
    OBVIOUS
  <2>1. /\ at[i] \in DOMAIN lists[a[i].pid]
        /\ a[i] = [pid |-> a[i].pid, done |-> lists[a[i].pid][at[i]]]
    BY <1>1 DEF Pairs
  <2>2. a[i].done = lists[a[i].pid][at[i]]
    BY <2>1
  <2> QED
    BY <2>1, <2>2
<1>5. \A i, j \in DOMAIN a : a[i].pid = a[j].pid /\ at[i] = at[j] => i = j
  BY <1>1 DEF Pairs
<1>6. \A h \in DOMAIN lists[p] : \E i \in DOMAIN a : a[i].pid = p /\ at[i] = h
  BY <1>1 DEF Pairs
<1>7. Cardinality({i \in DOMAIN a : a[i].pid = p}) = Len(lists[p])
  <2> DEFINE X == {i \in DOMAIN a : a[i].pid = p}
  <2>1. IsFiniteSet(X)
    BY <1>3, FS_Subset
  <2>2. /\ \A i \in X : at[i] \in DOMAIN lists[p]
        /\ \A i, j \in X : at[i] = at[j] => i = j
        /\ \A h \in DOMAIN lists[p] : \E i \in X : at[i] = h
    BY <1>4, <1>5, <1>6
  <2> HIDE DEF X
  <2>3. Cardinality(X) = Cardinality(DOMAIN lists[p])
    BY <2>1, <2>2, PairedOff
  <2>4. Cardinality(1 .. Len(lists[p])) = Len(lists[p])
    <3> DEFINE n == Len(lists[p])
    <3>1. n \in Nat
      BY <1>2
    <3> HIDE DEF n
    <3>2. Cardinality(1 .. n) = IF 1 > n THEN 0 ELSE n - 1 + 1
      BY <3>1, FS_Interval
    <3>3. Cardinality(1 .. n) = n
      BY <3>1, <3>2
    <3> QED
      BY <3>3 DEF n
  <2> QED
    BY <1>2, <2>3, <2>4 DEF X
<1>8. ASSUME NEW d
      PROVE  Cardinality({i \in DOMAIN lists[p] : lists[p][i] = d})
               = Cardinality({i \in DOMAIN a : a[i] = [pid |-> p, done |-> d]})
  <2> DEFINE X == {i \in DOMAIN a : a[i] = [pid |-> p, done |-> d]}
             Y == {i \in DOMAIN lists[p] : lists[p][i] = d}
  <2>1. IsFiniteSet(X)
    BY <1>3, FS_Subset
  <2>2. \A i \in DOMAIN a : i \in X <=> a[i].pid = p /\ a[i].done = d
    BY <1>4
  <2>3. X \subseteq DOMAIN a
    OBVIOUS
  <2> HIDE DEF X
  <2>4. /\ \A i \in X : at[i] \in Y
        /\ \A i, j \in X : at[i] = at[j] => i = j
        /\ \A h \in Y : \E i \in X : at[i] = h
    BY <1>4, <1>5, <1>6, <2>2, <2>3
  <2> HIDE DEF Y
  <2>5. Cardinality(X) = Cardinality(Y)
    BY <2>1, <2>4, PairedOff
  <2> QED
    BY <2>5 DEF X, Y
<1> QED
  BY <1>7, <1>8, Zenon DEF Counts
-----------------------------------------------------------------------------
\* LINE and the member sets of a reference engine's state agree.
Storied(st) ==
    /\ st.line \in [Keys -> Keys \union {NoLine}]
    /\ DOMAIN st.members = Keys /\ DOMAIN st.autos = Keys
    /\ \A s \in Keys : st.members[s] = {k \in Keys : st.line[k] = s}
    /\ \A s \in Keys : st.line[s] = NoLine => st.members[s] = {}

(***************************************************************************)
(* The tables of the kernel engine are those of a reference engine whose   *)
(* LINE is ln and whose storylines own the automata au: the same keys, the *)
(* same partition of them, and the same automata in every class.           *)
(***************************************************************************)
Same(t, ln, au) ==
    /\ \A k \in Keys : k \in DOMAIN t.ent <=> ln[k] # NoLine
    /\ \A k \in DOMAIN t.ent : ln[k] \in Keys
    /\ \A k, j \in DOMAIN t.ent : t.ent[k] = t.ent[j] <=> ln[k] = ln[j]
    /\ \A k \in DOMAIN t.ent : Alike(t.slots[t.ent[k]].autos, au[ln[k]])

\* A new key opens a storyline in both engines.
LEMMA ResolveSame ==
    ASSUME NEW t, Sound(t), NEW st, Storied(st), Same(t, st.line, st.autos),
           NEW k \in Keys, Kernel!CanResolve(t, k)
    PROVE  /\ Storied(R!Resolve(st, k))
           /\ Same(Kernel!Resolve(t, k), R!Resolve(st, k).line, R!Resolve(st, k).autos)
<1>1. CASE k \in DOMAIN t.ent
  <2>1. Kernel!Resolve(t, k) = t /\ R!Resolve(st, k) = st
    BY <1>1 DEF Kernel!Resolve, R!Resolve, Same
  <2> QED
    BY <2>1
<1>2. CASE k \notin DOMAIN t.ent
  <2> DEFINE new == Kernel!Resolve(t, k)
             ref == R!Resolve(st, k)
  <2>1. PICK s \in Slots :
          /\ \A x \in DOMAIN t.ent : t.ent[x] # s
          /\ DOMAIN new.ent = DOMAIN t.ent \union {k}
          /\ \A x \in DOMAIN new.ent : new.ent[x] = IF x = k THEN s ELSE t.ent[x]
          /\ DOMAIN new.slots = Slots
          /\ \A z \in Slots : new.slots[z] =
               IF z = s THEN [used |-> TRUE, members |-> {k}, autos |-> <<>>]
               ELSE t.slots[z]
    BY <1>2, ResolveTable
  <2>2. st.line[k] = NoLine
    BY <1>2 DEF Same
  <2>3. /\ ref.line = [st.line EXCEPT ![k] = k]
        /\ ref.members = [st.members EXCEPT ![k] = {k}]
        /\ ref.autos = [st.autos EXCEPT ![k] = R!NoAutos]
    BY <2>2 DEF R!Resolve
  <2> HIDE DEF new, ref
  <2>4. NoLine \notin Keys
    BY DiffAssumption
  <2>5. /\ ref.line \in [Keys -> Keys \union {NoLine}]
        /\ \A x \in Keys : ref.line[x] = IF x = k THEN k ELSE st.line[x]
    BY <2>3 DEF Storied
  <2>6. /\ DOMAIN ref.members = Keys
        /\ \A s2 \in Keys : ref.members[s2] = IF s2 = k THEN {k} ELSE st.members[s2]
    BY <2>3 DEF Storied
  <2>7. /\ DOMAIN ref.autos = Keys
        /\ \A s2 \in Keys : ref.autos[s2] = IF s2 = k THEN R!NoAutos ELSE st.autos[s2]
    BY <2>3 DEF Storied
  <2>8. \A x \in Keys : st.line[x] # k
    BY <2>2 DEF Storied
  <2>9. Storied(ref)
    <3>1. ASSUME NEW z \in Keys PROVE ref.members[z] = {x \in Keys : ref.line[x] = z}
      <4>1. CASE z = k
        BY <2>5, <2>6, <2>8, <4>1
      <4>2. CASE z # k
        <5>1. st.members[z] = {x \in Keys : st.line[x] = z}
          BY DEF Storied
        <5>2. \A x \in Keys : ref.line[x] = z <=> st.line[x] = z
          BY <2>2, <2>4, <2>5, <4>2
        <5> QED
          BY <2>6, <4>2, <5>1, <5>2
      <4> QED
        BY <4>1, <4>2
    <3>2. \A z \in Keys : ref.line[z] = NoLine => ref.members[z] = {}
      BY <2>4, <2>5, <2>6 DEF Storied
    <3> QED
      BY <2>5, <2>6, <2>7, <3>1, <3>2 DEF Storied
  <2>10. \A x \in Keys : x \in DOMAIN new.ent <=> ref.line[x] # NoLine
    BY <2>1, <2>4, <2>5 DEF Same
  <2>11. DOMAIN new.ent \subseteq Keys
    BY <2>1 DEF Sound
  <2>12. \A x \in DOMAIN new.ent : ref.line[x] \in Keys
    BY <2>1, <2>5, <2>11 DEF Same
  <2>13. ASSUME NEW x \in DOMAIN new.ent, NEW y \in DOMAIN new.ent
         PROVE  new.ent[x] = new.ent[y] <=> ref.line[x] = ref.line[y]
    <3>1. x \in Keys /\ y \in Keys
      BY <2>11
    <3>2. CASE x = k \/ y = k
      BY <2>1, <2>5, <2>8, <3>1, <3>2
    <3>3. CASE x # k /\ y # k
      BY <2>1, <2>5, <3>1, <3>3 DEF Same
    <3> QED
      BY <3>2, <3>3
  <2>14. ASSUME NEW x \in DOMAIN new.ent
         PROVE  Alike(new.slots[new.ent[x]].autos, ref.autos[ref.line[x]])
    <3>0. x \in Keys
      BY <2>11
    <3>1. CASE x = k
      <4>1. new.ent[x] = s /\ ref.line[x] = k
        BY <2>1, <2>5, <3>0, <3>1
      <4>2. new.slots[s] = [used |-> TRUE, members |-> {k}, autos |-> Nothing]
        BY <2>1 DEF Nothing
      <4>3. new.slots[new.ent[x]].autos = Nothing
        BY <4>1, <4>2
      <4>4. ref.autos[ref.line[x]] = R!NoAutos
        BY <2>7, <4>1
      <4>5. \A p \in DOMAIN patterns : R!NoAutos[p] = Nothing
        BY DEF R!NoAutos, Nothing
      <4>6. Alike(Nothing, R!NoAutos)
        BY <4>5, NothingAlike
      <4> QED
        BY <4>3, <4>4, <4>6
    <3>2. CASE x # k
      <4>1. x \in DOMAIN t.ent /\ new.ent[x] = t.ent[x] /\ ref.line[x] = st.line[x]
        BY <2>1, <2>5, <3>0, <3>2
      <4>2. t.ent[x] \in Slots /\ t.ent[x] # s
        BY <2>1, <4>1 DEF Sound
      <4>3. new.slots[t.ent[x]] = t.slots[t.ent[x]]
        BY <2>1, <4>2
      <4>4. st.line[x] \in Keys /\ st.line[x] # k
        BY <2>8, <3>0, <4>1 DEF Same
      <4>5. ref.autos[st.line[x]] = st.autos[st.line[x]]
        BY <2>7, <4>4
      <4> QED
        BY <4>1, <4>3, <4>5 DEF Same
    <3> QED
      BY <3>1, <3>2
  <2>15. Same(new, ref.line, ref.autos)
    BY <2>10, <2>12, <2>13, <2>14 DEF Same
  <2> QED
    BY <2>9, <2>15 DEF new, ref
<1> QED
  BY <1>1, <1>2

\* Both engines fold the same class into the same class.
LEMMA FoldSame ==
    ASSUME NEW t, Sound(t), NEW st, Storied(st), Same(t, st.line, st.autos),
           NEW a \in DOMAIN t.ent, NEW o \in DOMAIN t.ent, t.ent[a] # t.ent[o]
    PROVE  LET ref == R!Fold(st, st.line[a], st.line[o])
           IN  /\ Same(Kernel!Fold(t, t.ent[a], t.ent[o]), ref.line, ref.autos)
               /\ DOMAIN ref.autos = Keys
<1> DEFINE x == t.ent[a]
           y == t.ent[o]
           u == st.line[a]
           v == st.line[o]
           new == Kernel!Fold(t, x, y)
           ref == R!Fold(st, u, v)
           joined == [p \in DOMAIN patterns |-> st.autos[u][p] \o st.autos[v][p]]
<1>1. x \in Slots /\ y \in Slots /\ x # y /\ DOMAIN t.ent \subseteq Keys
  BY DEF Sound
<1>2. Folded(t, x, y, new)
  BY <1>1, FoldTable
<1>3. u \in Keys /\ v \in Keys /\ u # v
  BY DEF Same
<1>4. /\ ref.line = [k \in Keys |-> IF k \in st.members[v] THEN u ELSE st.line[k]]
      /\ ref.autos = [st.autos EXCEPT ![u] = joined, ![v] = R!NoAutos]
  <2>1. DOMAIN st.autos = Keys
    BY DEF Storied
  <2> QED
    BY <1>3, <2>1 DEF R!Fold
<1>5. \A k \in Keys : k \in st.members[v] <=> st.line[k] = v
  BY <1>3 DEF Storied
<1>6. \A k \in DOMAIN t.ent : /\ t.ent[k] = x <=> st.line[k] = u
                              /\ t.ent[k] = y <=> st.line[k] = v
  BY DEF Same
<1>7. DOMAIN st.autos = Keys
  BY DEF Storied
<1> HIDE DEF new, ref, joined
<1>8. \A k \in Keys : ref.line[k] = IF st.line[k] = v THEN u ELSE st.line[k]
  BY <1>4, <1>5
<1>9. /\ DOMAIN ref.autos = Keys
      /\ ref.autos[u] = joined
      /\ \A s \in Keys : s # u /\ s # v => ref.autos[s] = st.autos[s]
  BY <1>3, <1>4, <1>7
<1>10. /\ DOMAIN new.ent = DOMAIN t.ent
       /\ \A k \in DOMAIN t.ent : new.ent[k] = IF t.ent[k] = y THEN x ELSE t.ent[k]
       /\ new.slots[x].autos = t.slots[x].autos \o t.slots[y].autos
       /\ \A z \in Slots : z # x /\ z # y => new.slots[z] = t.slots[z]
  <2>1. /\ DOMAIN new.ent = DOMAIN t.ent
        /\ \A k \in DOMAIN t.ent : new.ent[k] = IF t.ent[k] = y THEN x ELSE t.ent[k]
    BY <1>2 DEF Folded
  <2>2. /\ new.slots[x].autos = t.slots[x].autos \o t.slots[y].autos
        /\ \A z \in Slots : z # x /\ z # y => new.slots[z] = t.slots[z]
    BY <1>1, <1>2 DEF Folded
  <2> QED
    BY <2>1, <2>2
<1>11. Alike(new.slots[x].autos, joined)
  <2> DEFINE ax == t.slots[x].autos
             ay == t.slots[y].autos
             lx == st.autos[u]
             ly == st.autos[v]
  <2>1. Alike(ax, lx) /\ Alike(ay, ly)
    BY DEF Same
  <2>2. \A p \in DOMAIN patterns : joined[p] = lx[p] \o ly[p]
    BY DEF joined
  <2>3. new.slots[x].autos = ax \o ay
    BY <1>10
  <2> HIDE DEF ax, ay, lx, ly
  <2>4. Alike(ax \o ay, joined)
    BY <2>1, <2>2, ConcatAlike
  <2> QED
    BY <2>3, <2>4
<1>12. \A k \in Keys : k \in DOMAIN new.ent <=> ref.line[k] # NoLine
  <2>1. u # NoLine /\ v # NoLine
    BY <1>3, DiffAssumption
  <2> QED
    BY <1>8, <1>10, <2>1 DEF Same
<1>13. \A k \in DOMAIN new.ent : ref.line[k] \in Keys
  BY <1>1, <1>3, <1>8, <1>10 DEF Same
<1>14. ASSUME NEW k \in DOMAIN new.ent, NEW j \in DOMAIN new.ent
       PROVE  new.ent[k] = new.ent[j] <=> ref.line[k] = ref.line[j]
  <2>1. k \in Keys /\ j \in Keys /\ k \in DOMAIN t.ent /\ j \in DOMAIN t.ent
    BY <1>1, <1>10
  <2>2. t.ent[k] = t.ent[j] <=> st.line[k] = st.line[j]
    BY <2>1 DEF Same
  <2>3. /\ new.ent[k] = IF t.ent[k] = y THEN x ELSE t.ent[k]
        /\ ref.line[k] = IF st.line[k] = v THEN u ELSE st.line[k]
        /\ t.ent[k] = x <=> st.line[k] = u
        /\ t.ent[k] = y <=> st.line[k] = v
    BY <1>6, <1>8, <1>10, <2>1, Zenon
  <2>4. /\ new.ent[j] = IF t.ent[j] = y THEN x ELSE t.ent[j]
        /\ ref.line[j] = IF st.line[j] = v THEN u ELSE st.line[j]
        /\ t.ent[j] = x <=> st.line[j] = u
        /\ t.ent[j] = y <=> st.line[j] = v
    BY <1>6, <1>8, <1>10, <2>1, Zenon
  <2> QED
    BY <2>2, <2>3, <2>4
<1>15. ASSUME NEW k \in DOMAIN new.ent
       PROVE  Alike(new.slots[new.ent[k]].autos, ref.autos[ref.line[k]])
  <2>1. k \in Keys /\ k \in DOMAIN t.ent
    BY <1>1, <1>10
  <2>2. CASE t.ent[k] = x \/ t.ent[k] = y
    <3>1. new.ent[k] = x /\ ref.line[k] = u
      BY <1>6, <1>8, <1>10, <2>1, <2>2
    <3> QED
      BY <1>9, <1>11, <3>1
  <2>3. CASE t.ent[k] # x /\ t.ent[k] # y
    <3>1. new.ent[k] = t.ent[k] /\ ref.line[k] = st.line[k] /\ st.line[k] # u /\ st.line[k] # v
      BY <1>6, <1>8, <1>10, <2>1, <2>3
    <3>2. t.ent[k] \in Slots /\ st.line[k] \in Keys
      BY <2>1 DEF Sound, Same
    <3>3. new.slots[t.ent[k]] = t.slots[t.ent[k]] /\ ref.autos[st.line[k]] = st.autos[st.line[k]]
      BY <1>9, <1>10, <2>3, <3>1, <3>2
    <3>4. Alike(t.slots[t.ent[k]].autos, st.autos[st.line[k]])
      BY <2>1 DEF Same
    <3> QED
      BY <3>1, <3>3, <3>4
  <2> QED
    BY <2>2, <2>3
<1>16. Same(new, ref.line, ref.autos)
  BY <1>12, <1>13, <1>14, <1>15 DEF Same
<1> QED
  BY <1>9, <1>16 DEF new, ref

(***************************************************************************)
(* unify makes the same of both: the classes have as many members in one   *)
(* engine as in the other, so the same one survives the merge.             *)
(***************************************************************************)
LEMMA UnifySame ==
    ASSUME NEW t, Sound(t), NEW st, Storied(st), Same(t, st.line, st.autos),
           NEW a \in DOMAIN t.ent, NEW o \in DOMAIN t.ent,
           t.ent[a] # t.ent[o] => Kernel!Fits(t, t.ent[a], t.ent[o]),
           NEW ref, ref = IF st.line[a] = st.line[o] THEN st
                          ELSE R!Merge(st, st.line[a], st.line[o])
    PROVE  /\ Same(Kernel!Unify(t, a, o), ref.line, ref.autos)
           /\ DOMAIN ref.autos = Keys
<1> DEFINE x == t.ent[a]
           y == t.ent[o]
           u == st.line[a]
           v == st.line[o]
<1>1. x = y <=> u = v
  BY DEF Same
<1>2. CASE x = y
  <2>1. Kernel!Unify(t, a, o) = t /\ ref = st
    BY <1>1, <1>2 DEF Kernel!Unify
  <2> QED
    BY <2>1 DEF Storied
<1>3. CASE x # y
  <2>1. t.slots[x].members = st.members[u] /\ t.slots[y].members = st.members[v]
    <3>1. ASSUME NEW k \in DOMAIN t.ent
          PROVE  t.slots[t.ent[k]].members = st.members[st.line[k]]
      <4>1. t.slots[t.ent[k]].members = {j \in DOMAIN t.ent : t.ent[j] = t.ent[k]}
        BY DEF Sound
      <4>2. st.members[st.line[k]] = {j \in Keys : st.line[j] = st.line[k]}
        BY DEF Storied, Same
      <4>3. \A j \in Keys : st.line[j] = st.line[k] => j \in DOMAIN t.ent
        BY DiffAssumption DEF Same
      <4>4. DOMAIN t.ent \subseteq Keys
        BY DEF Sound
      <4>5. \A j \in DOMAIN t.ent : t.ent[j] = t.ent[k] <=> st.line[j] = st.line[k]
        BY DEF Same
      <4> QED
        BY <4>1, <4>2, <4>3, <4>4, <4>5
    <3> QED
      BY <3>1
  <2>2. \A X : Kernel!Cardinality(X) = R!Cardinality(X)
    BY Zenon DEF Kernel!Cardinality, R!Cardinality
  <2> DEFINE mx == t.slots[x].members
             my == t.slots[y].members
             first == Kernel!Cardinality(mx) >= Kernel!Cardinality(my)
  <2>3. Kernel!Unify(t, a, o) = IF first THEN Kernel!Fold(t, x, y) ELSE Kernel!Fold(t, y, x)
    BY <1>3 DEF Kernel!Unify, Kernel!Merge
  <2>4. ref = IF first THEN R!Fold(st, u, v) ELSE R!Fold(st, v, u)
    <3>1. ref = IF R!Cardinality(mx) >= R!Cardinality(my) THEN R!Fold(st, u, v) ELSE R!Fold(st, v, u)
      BY <1>1, <1>3, <2>1 DEF R!Merge
    <3> QED
      BY <2>2, <3>1, Zenon
  <2> HIDE DEF first
  <2>5. CASE first
    BY <1>3, <2>3, <2>4, <2>5, FoldSame
  <2>6. CASE ~ first
    BY <1>3, <2>3, <2>4, <2>6, FoldSame
  <2> QED
    BY <2>5, <2>6
<1> QED
  BY <1>2, <1>3

\* Both engines advance the automata of the actor's storyline.
LEMMA AdvanceSame ==
    ASSUME NEW t, Sound(t), NEW ln, NEW au, DOMAIN au = Keys, Same(t, ln, au),
           NEW actor \in DOMAIN t.ent, NEW q, NEW lists, Alike(q, lists)
    PROVE  Same([ent |-> t.ent, slots |-> [t.slots EXCEPT ![t.ent[actor]].autos = q]],
                ln, [au EXCEPT ![ln[actor]] = lists])
<1> DEFINE s == t.ent[actor]
           home == ln[actor]
           new == [ent |-> t.ent, slots |-> [t.slots EXCEPT ![s].autos = q]]
           bu == [au EXCEPT ![home] = lists]
<1>1. s \in Slots /\ home \in Keys
  BY DEF Sound, Same
<1>2. /\ new.ent = t.ent
      /\ new.slots[s].autos = q
      /\ \A z \in Slots : z # s => new.slots[z] = t.slots[z]
  <2>1. DOMAIN t.slots = Slots /\ DOMAIN t.slots[s] = {"used", "members", "autos"}
    BY <1>1 DEF Sound
  <2>2. new.ent = t.ent /\ new.slots = [t.slots EXCEPT ![s].autos = q]
    OBVIOUS
  <2> HIDE DEF new
  <2>3. new.slots[s] = [t.slots[s] EXCEPT !.autos = q]
    BY <1>1, <2>1, <2>2
  <2>4. new.slots[s].autos = q
    BY <2>1, <2>3
  <2> QED
    BY <2>1, <2>2, <2>4
<1>3. bu[home] = lists /\ \A z \in Keys : z # home => bu[z] = au[z]
  BY <1>1
<1> HIDE DEF new, bu
<1>4. ASSUME NEW k \in DOMAIN t.ent
      PROVE  Alike(new.slots[t.ent[k]].autos, bu[ln[k]])
  <2>1. t.ent[k] \in Slots /\ ln[k] \in Keys /\ (t.ent[k] = s <=> ln[k] = home)
    BY DEF Sound, Same
  <2>2. CASE t.ent[k] = s
    BY <1>2, <1>3, <2>1, <2>2
  <2>3. CASE t.ent[k] # s
    <3>1. new.slots[t.ent[k]] = t.slots[t.ent[k]] /\ bu[ln[k]] = au[ln[k]]
      BY <1>2, <1>3, <2>1, <2>3
    <3> QED
      BY <3>1 DEF Same
  <2> QED
    BY <2>2, <2>3
<1>5. Same(new, ln, bu)
  BY <1>2, <1>4 DEF Same
<1> QED
  BY <1>5 DEF new, bu

\* The relation after a step that keeps the rules.
LEMMA SamePrimes ==
    ASSUME patterns' = patterns, Same(Table', line', autos')
    PROVE  Same(Table, line, autos)'
<1>1. /\ \A k \in Keys : k \in DOMAIN Table'.ent <=> line'[k] # NoLine
      /\ \A k \in DOMAIN Table'.ent : line'[k] \in Keys
      /\ \A k, j \in DOMAIN Table'.ent : Table'.ent[k] = Table'.ent[j] <=> line'[k] = line'[j]
  BY DEF Same
<1>2. ASSUME NEW k \in DOMAIN Table'.ent
      PROVE  Alike(Table.slots[Table.ent[k]].autos, autos[line[k]])'
  <2>1. Alike(Table'.slots[Table'.ent[k]].autos, autos'[line'[k]])
    BY DEF Same
  <2>2. PICK at : Pairs(at, Table'.slots[Table'.ent[k]].autos, autos'[line'[k]])
    BY <2>1 DEF Alike
  <2>3. Pairs(at, Table.slots[Table.ent[k]].autos, autos[line[k]])'
    BY <2>2 DEF Pairs
  <2> QED
    BY <2>3 DEF Alike
<1> QED
  BY <1>1, <1>2 DEF Same

\* Two engines that know nothing.
LEMMA FreshSame ==
    ASSUME NEW t, t.ent = <<>>, NEW ln, ln = [k \in Keys |-> NoLine], NEW au
    PROVE  Same(t, ln, au)
<1>1. t.ent = Nothing /\ DOMAIN Nothing = {}
  BY NothingIsEmpty DEF Nothing
<1>2. \A k : k \notin DOMAIN t.ent
  BY <1>1
<1> QED
  BY <1>2 DEF Same
-----------------------------------------------------------------------------
\* apply_action deprives an actor of the same ops in both engines, unless DISARMED
\* has no room for it.
LEMMA ApplySame ==
    ASSUME IsFiniteSet(DOMAIN dis), Cardinality(DOMAIN dis) <= CapDis, DOMAIN disarmed = Keys,
           \A k \in Keys : Kernel!Disarmed(k) = disarmed[k],
           NEW actor \in Keys, NEW acts,
           ~ /\ \E act \in acts : act.kind = "disarm"
             /\ actor \notin DOMAIN dis
             /\ Kernel!Cardinality(DOMAIN dis) = CapDis,
           NEW new, new = Kernel!Apply(actor, acts), NEW k \in Keys
    PROVE  (IF k \in DOMAIN new THEN new[k] ELSE {})
             = [disarmed EXCEPT ![actor] = @ \union Kernel!Deprived(acts)][k]
<1> DEFINE lost == Kernel!Deprived(acts)
           ref  == [disarmed EXCEPT ![actor] = @ \union lost]
<1>1. ref[k] = IF k = actor THEN disarmed[k] \union lost ELSE disarmed[k]
  OBVIOUS
<1>2. disarmed[k] = IF k \in DOMAIN dis THEN dis[k] ELSE {}
  BY DEF Kernel!Disarmed
<1>3. (\A a \in acts : a.kind # "disarm") => lost = {}
  BY DEF Kernel!Deprived
<1> HIDE DEF ref, lost
<1>4. CASE \A a \in acts : a.kind # "disarm"
  <2>1. new = dis
    BY <1>4 DEF Kernel!Apply
  <2> QED
    BY <1>1, <1>2, <1>3, <1>4, <2>1 DEF ref, lost
<1>5. CASE ~ (\A a \in acts : a.kind # "disarm") /\ actor \in DOMAIN dis
  <2>1. new = [dis EXCEPT ![actor] = @ \union lost]
    BY <1>5, Zenon DEF Kernel!Apply, lost
  <2> QED
    BY <1>1, <1>2, <1>5, <2>1 DEF ref, lost
<1>6. CASE ~ (\A a \in acts : a.kind # "disarm") /\ actor \notin DOMAIN dis
  <2>1. Kernel!Cardinality(DOMAIN dis) < CapDis
    <3>1. Kernel!Cardinality(DOMAIN dis) # CapDis
      BY <1>6
    <3>2. Cardinality(DOMAIN dis) # CapDis
      BY <3>1, SameCardinality
    <3>3. Cardinality(DOMAIN dis) \in Nat /\ CapDis \in Nat
      BY CapsType, FS_CardinalityType
    <3>4. Cardinality(DOMAIN dis) < CapDis
      BY <3>2, <3>3
    <3> QED
      BY <3>4, SameCardinality
  <2>2. new = Kernel!Put(dis, actor, lost)
    BY <1>6, <2>1, Zenon DEF Kernel!Apply, lost
  <2>3. /\ DOMAIN new = DOMAIN dis \union {actor}
        /\ \A x \in DOMAIN new : new[x] = IF x = actor THEN lost ELSE dis[x]
    BY <2>2 DEF Kernel!Put
  <2> QED
    BY <1>1, <1>2, <1>6, <2>3 DEF ref, lost
<1> QED
  BY <1>4, <1>5, <1>6

\* What a call that meets no limit has room for.
LEMMA RoomLeft ==
    ASSUME NEW f, ~ MeetsLimit(f)
    PROVE  /\ Kernel!CanResolve(Table, f.actor)
           /\ Kernel!CanResolve(Kernel!Resolve(Table, f.actor), f.object)
           /\ LET both == Kernel!Resolve(Kernel!Resolve(Table, f.actor), f.object)
              IN  both.ent[f.actor] # both.ent[f.object]
                    => Kernel!Fits(both, both.ent[f.actor], both.ent[f.object])
           /\ ~ Len(KJoined(f).slots[KHome(f)].autos) + Len(Kernel!AllSeeds(f)) > CapAuto
           /\ ~ /\ \E act \in Kernel!Activated(KSeeded(f), f) : act.kind = "disarm"
                /\ f.actor \notin DOMAIN dis
                /\ Kernel!Cardinality(DOMAIN dis) = CapDis
<1>1. \A X : Kernel!Cardinality(X) = Cardinality(X)
  BY SameCardinality
<1> QED
  BY <1>1 DEF MeetsLimit, Table, KJoined, KHome, KSeeded
-----------------------------------------------------------------------------
\* Two events that match the same steps of the loaded rules.
Indistinct(f, e) ==
    \A p \in DOMAIN patterns : \A j \in DOMAIN patterns[p] :
        Kernel!Matches(patterns[p][j], f) <=> Kernel!Matches(patterns[p][j], e)

\* The rules the kernel engine runs, as RebuildTaggers_ reads them.
LoadedRules == [p \in DOMAIN patterns |-> [name |-> p, steps |-> patterns[p]]]

\* The taggers that are on are those of the rules that are loaded.
TagInv == taggers = Taggers(LoadedRules)

\* Only the steps of a rule set decide which taggers are on.
LEMMA TaggersOfSteps ==
    ASSUME NEW rules, NEW q, q = PatternsOf(rules),
           NEW named, named = [p \in DOMAIN q |-> [name |-> p, steps |-> q[p]]]
    PROVE  Taggers(rules) = Taggers(named)
<1>1. /\ DOMAIN named = DOMAIN rules
      /\ \A p \in DOMAIN rules : named[p].steps = rules[p].steps
  BY DEF PatternsOf
<1>2. Referenced(rules) = Referenced(named)
  <2> DEFINE G(r, p) == UNION {ToSet(r[p].steps[j].ttps) : j \in DOMAIN r[p].steps}
  <2>1. \A p \in DOMAIN rules : G(rules, p) = G(named, p)
    BY <1>1
  <2>2. Referenced(rules) = UNION {G(rules, p) : p \in DOMAIN rules}
    BY DEF Referenced
  <2>3. Referenced(named) = UNION {G(named, p) : p \in DOMAIN named}
    BY DEF Referenced
  <2> HIDE DEF G
  <2>4. {G(rules, p) : p \in DOMAIN rules} = {G(named, p) : p \in DOMAIN named}
    BY <1>1, <2>1
  <2> QED
    BY <2>2, <2>3, <2>4, Zenon
<1>3. Used(rules) = Used(named)
  BY <1>2, Zenon DEF Used
<1> QED
  BY <1>3, Zenon DEF Taggers

LEMMA TagInitInv == Init => TagInv
<1> SUFFICES ASSUME Init PROVE TagInv
  OBVIOUS
<1> DEFINE rules == Load(<<>>, Blob.first)
<1>1. taggers = Taggers(rules) /\ patterns = PatternsOf(rules)
  BY DEF Init
<1> HIDE DEF rules
<1>2. LoadedRules = [p \in DOMAIN patterns |-> [name |-> p, steps |-> patterns[p]]]
  BY DEF LoadedRules
<1> QED
  BY <1>1, <1>2, TaggersOfSteps DEF TagInv

LEMMA TagNextInv == TagInv /\ [Next]_vars => TagInv'
<1> SUFFICES ASSUME TagInv, [Next]_vars PROVE TagInv'
  OBVIOUS
<1>1. CASE UNCHANGED <<patterns, taggers>>
  BY <1>1 DEF TagInv, LoadedRules
<1>2. CASE Reload
  <2> DEFINE rules == Create(Blob.later).rules
  <2>1. taggers' = Taggers(rules) /\ patterns' = PatternsOf(rules)
    BY <1>2 DEF Reload, LoadFresh
  <2> HIDE DEF rules
  <2>2. LoadedRules' = [p \in DOMAIN patterns' |-> [name |-> p, steps |-> patterns'[p]]]
    BY DEF LoadedRules
  <2>3. Taggers(rules) = Taggers(LoadedRules')
    BY <2>1, <2>2, TaggersOfSteps
  <2> QED
    BY <2>1, <2>3 DEF TagInv, Taggers, Used, Referenced
<1>3. ASSUME NEW e \in Sensed, OnEvent(e) PROVE TagInv'
  <2>1. UNCHANGED <<patterns, taggers>>
    BY <1>3 DEF OnEvent, Kernel!OnEvent
  <2> QED
    BY <1>1, <2>1
<1>4. CASE UNCHANGED vars
  BY <1>1, <1>4 DEF vars
<1> QED
  BY <1>2, <1>3, <1>4 DEF Next

\* Switching taggers off changes no match, as long as all that the rules refer to are on.
LEMMA TaggedIndistinct ==
    ASSUME TagInv, NEW e \in Sensed, Untagged(e) = {}
    PROVE  Indistinct(Tagged(taggers, e), e)
<1> DEFINE f == Tagged(taggers, e)
           used == Used(LoadedRules)
           all == Referenced(LoadedRules)
<1>1. e \in Event /\ e.ttps \subseteq Catalogue[e.op] /\ e.op \in DOMAIN Catalogue
  <2>1. e \in Event /\ e.ttps \subseteq Catalogue[e.op]
    BY DEF Sensed
  <2>2. e.op \in Ops
    BY <2>1 DEF Event
  <2> QED
    BY <2>1, <2>2, DiffAssumption
<1>2. (e.ttps \intersect all) \ used = {}
  BY DEF Untagged, LoadedRules
<1>3. f.op = e.op /\ f.ttps = e.ttps \intersect taggers[e.op]
  BY <1>1 DEF Tagged, Event
<1>4. taggers[e.op] = Catalogue[e.op] \intersect used
  BY <1>1 DEF TagInv, Taggers
<1>5. ASSUME NEW p \in DOMAIN patterns, NEW j \in DOMAIN patterns[p]
      PROVE  ToSet(patterns[p][j].ttps) \subseteq all
  <2>1. LoadedRules[p].steps = patterns[p] /\ p \in DOMAIN LoadedRules
    BY DEF LoadedRules
  <2> DEFINE G(q) == UNION {ToSet(LoadedRules[q].steps[i].ttps) : i \in DOMAIN LoadedRules[q].steps}
  <2>2. ToSet(patterns[p][j].ttps) \subseteq G(p)
    BY <2>1
  <2>3. all = UNION {G(q) : q \in DOMAIN LoadedRules}
    BY DEF Referenced
  <2> HIDE DEF G, all
  <2>4. G(p) \subseteq all
    BY <2>1, <2>3
  <2> QED
    BY <2>2, <2>4
<1> HIDE DEF f, used, all
<1>6. ASSUME NEW p \in DOMAIN patterns, NEW j \in DOMAIN patterns[p],
             NEW i \in DOMAIN patterns[p][j].ttps
      PROVE  patterns[p][j].ttps[i] \in f.ttps <=> patterns[p][j].ttps[i] \in e.ttps
  <2> DEFINE t == patterns[p][j].ttps[i]
  <2>1. t \in all
    BY <1>5 DEF ToSet
  <2> HIDE DEF t
  <2>2. t \in f.ttps <=> t \in e.ttps
    BY <1>1, <1>2, <1>3, <1>4, <2>1
  <2> QED
    BY <2>2 DEF t
<1> QED
  BY <1>3, <1>6 DEF Indistinct, Kernel!Matches, f
-----------------------------------------------------------------------------
\* The proofs about the reference engine, for either rule set.
P == INSTANCE EngineDagProofs WITH Names <- {}
S == INSTANCE EngineDagProofs WITH Patterns <- Later, Names <- {}

(***************************************************************************)
(* The two engines of module EngineDiff are the one of EngineDagProofs, on *)
(* one rule set or the other: operator by operator, its Track is theirs.   *)
(***************************************************************************)
LEMMA FirstTracks == ASSUME NEW e, First!Track(e) PROVE P!Track(e)
<1>1. \A X : First!Cardinality(X) = P!Cardinality(X)
  BY Zenon DEF First!Cardinality, P!Cardinality
<1>2. First!Pids = P!Pids
  BY DEF First!Pids, P!Pids
<1>3. \A p, x : First!Roots(p, x) = P!Roots(p, x)
  BY DEF First!Roots, P!Roots, First!Matches, P!Matches
<1>4. First!NoAutos = P!NoAutos
  BY <1>2 DEF First!NoAutos, P!NoAutos
<1>5. \A st, k : First!Resolve(st, k) = P!Resolve(st, k)
  BY <1>4, Zenon DEF First!Resolve, P!Resolve
<1>6. \A st, x, y : First!Fold(st, x, y) = P!Fold(st, x, y)
  BY <1>4, <1>2, Zenon DEF First!Fold, P!Fold
<1>7. \A st, x, y : First!Merge(st, x, y) = P!Merge(st, x, y)
  BY <1>6, <1>1, Zenon DEF First!Merge, P!Merge
<1>8. ASSUME NEW st, NEW a, NEW o PROVE First!Unify(st, a, o) = P!Unify(st, a, o)
  <2>1. First!Resolve(First!Resolve(st, a), o) = P!Resolve(P!Resolve(st, a), o)
    BY <1>5
  <2> QED
    BY <1>7, <2>1, Zenon DEF First!Unify, P!Unify
<1>9. \A p, x : First!Seeds(p, x) = P!Seeds(p, x)
  BY <1>1, <1>3, Zenon DEF First!Seeds, P!Seeds
<1>10. \A q, x : /\ First!Advanced(q, x) = P!Advanced(q, x)
                  /\ First!Activated(q, x) = P!Activated(q, x)
  BY Zenon DEF First!Advanced, P!Advanced, First!Activated, P!Activated, First!Pids,
         P!Pids, First!Progress, P!Progress, First!Fired, P!Fired, First!Tried, P!Tried,
         First!Try, P!Try, First!CanCommit, P!CanCommit, First!Matches, P!Matches
<1>11. First!RoomForMore(e) => P!RoomForMore(e)
  <2> DEFINE X == UNION {{<<s, p>>} \X DOMAIN autos[s][p] : s \in Keys, p \in First!Pids}
             Y == UNION {{<<s, p>>} \X DOMAIN autos[s][p] : s \in Keys, p \in P!Pids}
  <2>1. X = Y
    BY DEF First!Pids, P!Pids
  <2>2. First!RoomForMore(e) <=> \/ \A p \in First!Pids : First!Roots(p, e) = {}
                                 \/ First!Cardinality(X) < MaxAutos
    BY DEF First!RoomForMore
  <2>3. P!RoomForMore(e) <=> \/ \A p \in P!Pids : P!Roots(p, e) = {}
                             \/ P!Cardinality(Y) < MaxAutos
    BY DEF P!RoomForMore
  <2> HIDE DEF X, Y
  <2>4. First!Cardinality(X) = P!Cardinality(Y)
    BY <1>1, <2>1
  <2>5. (\A p \in First!Pids : First!Roots(p, e) = {}) => \A p \in P!Pids : P!Roots(p, e) = {}
    BY <1>2, <1>3
  <2> QED
    BY <2>2, <2>3, <2>4, <2>5
<1>12. \A a : First!Strongest(a) = P!Strongest(a)
  BY DEF First!Strongest, P!Strongest, First!Disarm, P!Disarm, First!Block, P!Block,
         First!Inspect, P!Inspect, First!Ignore, P!Ignore
<1>13. \A k, a : First!Apply(k, a) = P!Apply(k, a)
  BY Zenon DEF First!Apply, P!Apply, First!Deprived, P!Deprived
<1> QED
  BY <1>2, <1>8, <1>9, <1>10, <1>11, <1>12, <1>13, Zenon DEF First!Track, P!Track

LEMMA SecondTracks == ASSUME NEW e, Second!Track(e) PROVE S!Track(e)
<1>1. \A X : Second!Cardinality(X) = S!Cardinality(X)
  BY Zenon DEF Second!Cardinality, S!Cardinality
<1>2. Second!Pids = S!Pids
  BY DEF Second!Pids, S!Pids
<1>3. \A p, x : Second!Roots(p, x) = S!Roots(p, x)
  BY DEF Second!Roots, S!Roots, Second!Matches, S!Matches
<1>4. Second!NoAutos = S!NoAutos
  BY <1>2 DEF Second!NoAutos, S!NoAutos
<1>5. \A st, k : Second!Resolve(st, k) = S!Resolve(st, k)
  BY <1>4, Zenon DEF Second!Resolve, S!Resolve
<1>6. \A st, x, y : Second!Fold(st, x, y) = S!Fold(st, x, y)
  BY <1>4, <1>2, Zenon DEF Second!Fold, S!Fold
<1>7. \A st, x, y : Second!Merge(st, x, y) = S!Merge(st, x, y)
  BY <1>6, <1>1, Zenon DEF Second!Merge, S!Merge
<1>8. ASSUME NEW st, NEW a, NEW o PROVE Second!Unify(st, a, o) = S!Unify(st, a, o)
  <2>1. Second!Resolve(Second!Resolve(st, a), o) = S!Resolve(S!Resolve(st, a), o)
    BY <1>5
  <2> QED
    BY <1>7, <2>1, Zenon DEF Second!Unify, S!Unify
<1>9. \A p, x : Second!Seeds(p, x) = S!Seeds(p, x)
  BY <1>1, <1>3, Zenon DEF Second!Seeds, S!Seeds
<1>10. \A q, x : /\ Second!Advanced(q, x) = S!Advanced(q, x)
                  /\ Second!Activated(q, x) = S!Activated(q, x)
  BY Zenon DEF Second!Advanced, S!Advanced, Second!Activated, S!Activated, Second!Pids,
         S!Pids, Second!Progress, S!Progress, Second!Fired, S!Fired, Second!Tried,
         S!Tried, Second!Try, S!Try, Second!CanCommit, S!CanCommit, Second!Matches,
         S!Matches
<1>11. Second!RoomForMore(e) => S!RoomForMore(e)
  <2> DEFINE X == UNION {{<<s, p>>} \X DOMAIN autos[s][p] : s \in Keys, p \in Second!Pids}
             Y == UNION {{<<s, p>>} \X DOMAIN autos[s][p] : s \in Keys, p \in S!Pids}
  <2>1. X = Y
    BY DEF Second!Pids, S!Pids
  <2>2. Second!RoomForMore(e) <=> \/ \A p \in Second!Pids : Second!Roots(p, e) = {}
                                  \/ Second!Cardinality(X) < MaxAutos
    BY DEF Second!RoomForMore
  <2>3. S!RoomForMore(e) <=> \/ \A p \in S!Pids : S!Roots(p, e) = {}
                             \/ S!Cardinality(Y) < MaxAutos
    BY DEF S!RoomForMore
  <2> HIDE DEF X, Y
  <2>4. Second!Cardinality(X) = S!Cardinality(Y)
    BY <1>1, <2>1
  <2>5. (\A p \in Second!Pids : Second!Roots(p, e) = {}) => \A p \in S!Pids : S!Roots(p, e) = {}
    BY <1>2, <1>3
  <2> QED
    BY <2>2, <2>3, <2>4, <2>5
<1>12. \A a : Second!Strongest(a) = S!Strongest(a)
  BY DEF Second!Strongest, S!Strongest, Second!Disarm, S!Disarm, Second!Block, S!Block,
         Second!Inspect, S!Inspect, Second!Ignore, S!Ignore
<1>13. \A k, a : Second!Apply(k, a) = S!Apply(k, a)
  BY Zenon DEF Second!Apply, S!Apply, Second!Deprived, S!Deprived
<1> QED
  BY <1>2, <1>8, <1>9, <1>10, <1>11, <1>12, <1>13, Zenon DEF Second!Track, S!Track

\* What the proofs of EngineDagProofs assume of its constants.
LEMMA FirstAssumptions ==
    /\ DagStep = P!DagStep /\ Pids = P!Pids
    /\ NoLine \notin Keys
<1>1. DagStep = P!DagStep /\ Pids = P!Pids
  BY DEF DagStep, P!DagStep, Bits, P!Bits, Actions, P!Actions, Pids, P!Pids
<1> QED
  BY <1>1, DiffAssumption

LEMMA SecondAssumptions ==
    /\ DagStep = S!DagStep /\ DOMAIN Later = S!Pids
    /\ NoLine \notin Keys
<1>1. DagStep = S!DagStep /\ DOMAIN Later = S!Pids
  BY DEF DagStep, S!DagStep, Bits, S!Bits, Actions, S!Actions, S!Pids
<1> QED
  BY <1>1, DiffAssumption

\* The kernel engine advances an automaton as the reference engine of the same rules does.
LEMMA SameProgress ==
    /\ patterns = Patterns =>
         /\ \A p, d, e : Kernel!Progress(p, d, e) = P!Progress(p, d, e)
         /\ \A p, e : Kernel!Roots(p, e) = P!Roots(p, e)
    /\ patterns = Later =>
         /\ \A p, d, e : Kernel!Progress(p, d, e) = S!Progress(p, d, e)
         /\ \A p, e : Kernel!Roots(p, e) = S!Roots(p, e)
<1>1. ASSUME patterns = Patterns
      PROVE  \A p, d, e : Kernel!Progress(p, d, e) = P!Progress(p, d, e)
  BY <1>1 DEF Kernel!Progress, P!Progress, Kernel!Tried, P!Tried, Kernel!Try, P!Try,
              Kernel!CanCommit, P!CanCommit, Kernel!Matches, P!Matches
<1>2. ASSUME patterns = Later
      PROVE  \A p, d, e : Kernel!Progress(p, d, e) = S!Progress(p, d, e)
  BY <1>2 DEF Kernel!Progress, S!Progress, Kernel!Tried, S!Tried, Kernel!Try, S!Try,
              Kernel!CanCommit, S!CanCommit, Kernel!Matches, S!Matches
<1>3. ASSUME patterns = Patterns PROVE \A p, e : Kernel!Roots(p, e) = P!Roots(p, e)
  BY <1>3 DEF Kernel!Roots, P!Roots, Kernel!Matches, P!Matches
<1>4. ASSUME patterns = Later PROVE \A p, e : Kernel!Roots(p, e) = S!Roots(p, e)
  BY <1>4 DEF Kernel!Roots, S!Roots, Kernel!Matches, S!Matches
<1> QED
  BY <1>1, <1>2, <1>3, <1>4

LEMMA KernelMonotone ==
    ASSUME patterns \in {Patterns, Later}, NEW p \in DOMAIN patterns,
           NEW c, NEW d, c \subseteq d,
           NEW f, NEW e, f.op = e.op, f.ttps \subseteq e.ttps
    PROVE  /\ Kernel!Progress(p, c, f) \subseteq Kernel!Progress(p, d, e)
           /\ Kernel!Roots(p, f) # {} => Kernel!Roots(p, e) # {}
<1>1. Kernel!Progress(p, c, f) \subseteq Kernel!Progress(p, d, e)
  <2>1. CASE patterns = Patterns
    <3>1. p \in P!Pids
      BY <2>1 DEF P!Pids
    <3>2. P!Progress(p, c, f) \subseteq P!Progress(p, d, e)
      BY <3>1, P!ProgressMonotone, FirstAssumptions, PatternsAssumption
    <3> QED
      BY <2>1, <3>2, SameProgress
  <2>2. CASE patterns = Later
    <3>1. p \in S!Pids
      BY <2>2 DEF S!Pids
    <3>2. S!Progress(p, c, f) \subseteq S!Progress(p, d, e)
      BY <3>1, S!ProgressMonotone, SecondAssumptions, LaterAssumption
    <3> QED
      BY <2>2, <3>2, SameProgress
  <2> QED
    BY <2>1, <2>2
<1>2. Kernel!Roots(p, f) \subseteq Kernel!Roots(p, e)
  BY DEF Kernel!Roots, Kernel!Matches
<1> QED
  BY <1>1, <1>2

\* The reference engine is the one of the rules that are loaded.
RefInv ==
    /\ loaded \in {"first", "later"}
    /\ loaded = "first" => patterns = Patterns /\ P!IInv
    /\ loaded = "later" => patterns = Later /\ S!IInv

RefTrack(e) == (loaded = "first" /\ First!Track(e)) \/ (loaded = "later" /\ Second!Track(e))

\* advance, on storyline home: au is mid with the automata there advanced on e.
Advances(e, home, mid, au) ==
    /\ \A s \in Keys : s # home => au[s] = mid[s]
    /\ \A p \in DOMAIN patterns :
         /\ \A h \in DOMAIN mid[home][p] :
              /\ h \in DOMAIN au[home][p]
              /\ au[home][p][h] = Kernel!Progress(p, mid[home][p][h], e)
              /\ mid[home][p][h] \subseteq au[home][p][h]
         /\ Kernel!Roots(p, e) # {} =>
              \E h \in DOMAIN au[home][p] : au[home][p][h] = Kernel!Progress(p, {}, e)

\* What the reference engine learns from an event (Learns of EngineDagProofs), in the
\* words of the kernel engine's rules.
RefLearns(e, mid) ==
    /\ line'[e.actor] \in Keys /\ line'[e.object] = line'[e.actor]
    /\ \A k \in Keys : line[k] # NoLine =>
         /\ line'[k] \in Keys
         /\ \A j \in Keys : line[j] = line[k] => line'[j] = line'[k]
         /\ \A p \in DOMAIN patterns : \A h \in DOMAIN autos[line[k]][p] :
              \E i \in DOMAIN mid[line'[k]][p] : mid[line'[k]][p][i] = autos[line[k]][p][h]
    /\ Advances(e, line'[e.actor], mid, autos')

LEMMA RefTrackLearns ==
    ASSUME RefInv, NEW e \in Event, RefTrack(e)
    PROVE  \E mid : RefLearns(e, mid)
<1>1. CASE loaded = "first" /\ First!Track(e)
  <2>1. P!Track(e) /\ P!IInv /\ patterns = Patterns
    BY <1>1, FirstTracks DEF RefInv
  <2>2. e \in P!Event
    BY DEF Event, P!Event
  <2>3. P!Learns(e, P!Joined(e).autos)
    BY <2>1, <2>2, P!TrackLearns, FirstAssumptions, PatternsAssumption
  <2>4. P!Pids = DOMAIN patterns
    BY <2>1 DEF P!Pids
  <2> DEFINE mid == P!Joined(e).autos
  <2> HIDE DEF mid
  <2>5. P!Learns(e, mid)
    BY <2>3 DEF mid
  <2>6. RefLearns(e, mid)
    BY <2>1, <2>4, <2>5, SameProgress DEF P!Learns, RefLearns, Advances
  <2> QED
    BY <2>6
<1>2. CASE loaded = "later" /\ Second!Track(e)
  <2>1. S!Track(e) /\ S!IInv /\ patterns = Later
    BY <1>2, SecondTracks DEF RefInv
  <2>2. e \in S!Event
    BY DEF Event, S!Event
  <2>3. S!Learns(e, S!Joined(e).autos)
    BY <2>1, <2>2, S!TrackLearns, SecondAssumptions, LaterAssumption
  <2>4. S!Pids = DOMAIN patterns
    BY <2>1 DEF S!Pids
  <2> DEFINE mid == S!Joined(e).autos
  <2> HIDE DEF mid
  <2>5. S!Learns(e, mid)
    BY <2>3 DEF mid
  <2>6. RefLearns(e, mid)
    BY <2>1, <2>4, <2>5, SameProgress DEF S!Learns, RefLearns, Advances
  <2> QED
    BY <2>6
<1> QED
  BY <1>1, <1>2 DEF RefTrack

LEMMA RefInitInv == ASSUME WireFaithful, Init PROVE RefInv
<1>1. P!Init
  BY DEF Init, First!Init, P!Init, First!Empty, P!Empty, First!NoAutos, P!NoAutos,
         First!Pids, P!Pids,
         First!D!Init, P!D!Init, First!D!Ignore, P!D!Ignore
<1>2. P!IInv
  BY <1>1, P!InitInv, FirstAssumptions, PatternsAssumption
<1> QED
  BY <1>2 DEF Init, RefInv, WireFaithful

LEMMA RefEventInv ==
    ASSUME RefInv, NEW e \in Event,
           \/ loaded = "first" /\ First!OnEvent(e)
           \/ loaded = "later" /\ Second!OnEvent(e),
           UNCHANGED <<loaded, patterns>>
    PROVE  RefInv'
<1>1. CASE loaded = "first" /\ First!OnEvent(e)
  <2>1. P!Deny(e) \/ P!Track(e)
    BY <1>1, FirstTracks DEF First!OnEvent, First!Deny, P!Deny, First!Block, P!Block
  <2>2. P!Next
    BY <2>1 DEF P!Next, P!OnEvent, Event, P!Event
  <2>3. P!IInv'
    BY <1>1, <2>2, P!NextInv, FirstAssumptions, PatternsAssumption DEF RefInv
  <2> QED
    BY <1>1, <2>3 DEF RefInv
<1>2. CASE loaded = "later" /\ Second!OnEvent(e)
  <2>1. S!Deny(e) \/ S!Track(e)
    BY <1>2, SecondTracks DEF Second!OnEvent, Second!Deny, S!Deny, Second!Block, S!Block
  <2>2. S!Next
    BY <2>1 DEF S!Next, S!OnEvent, Event, S!Event
  <2>3. S!IInv'
    BY <1>2, <2>2, S!NextInv, SecondAssumptions, LaterAssumption DEF RefInv
  <2> QED
    BY <1>2, <2>3 DEF RefInv
<1> QED
  BY <1>1, <1>2

LEMMA RefReloadInv == ASSUME WireFaithful, Reload PROVE RefInv'
<1>1. /\ line' = S!Empty.line /\ members' = S!Empty.members /\ autos' = S!Empty.autos
  BY DEF Reload, First!Empty, Second!Empty, S!Empty, First!NoAutos, Second!NoAutos,
         S!NoAutos, Second!Pids, S!Pids
<1>2. S!Now' = S!Empty
  BY <1>1 DEF S!Now, S!Empty
<1>3. S!StorylinesInv(S!Empty)
  BY S!EmptyInv, SecondAssumptions, LaterAssumption
<1>4. disarmed' = [k \in Keys |-> {}] /\ verdict' = 0
  BY DEF Reload, Ignore
<1>5. S!StorylinesInv(S!Now)'
  BY <1>2, <1>3 DEF S!StorylinesInv, S!States, S!Consistent, S!Owned
<1>6. S!IInv'
  BY <1>4, <1>5 DEF S!IInv, S!Verdicts, S!Ignore, S!Disarm
<1> QED
  BY <1>6 DEF Reload, LoadFresh, RefInv, WireFaithful

LEMMA RefNextInv == WireFaithful /\ RefInv /\ [Next]_vars => RefInv'
<1> SUFFICES ASSUME WireFaithful, RefInv, [Next]_vars PROVE RefInv'
  OBVIOUS
<1>1. ASSUME NEW e \in Sensed, OnEvent(e) PROVE RefInv'
  <2>1. e \in Event /\ UNCHANGED <<loaded, patterns>>
    BY <1>1 DEF Sensed, OnEvent, Kernel!OnEvent
  <2> QED
    BY <1>1, <2>1, RefEventInv DEF OnEvent
<1>2. CASE Reload
  BY <1>2, RefReloadInv
<1>3. CASE UNCHANGED vars
  <2>1. UNCHANGED P!vars /\ UNCHANGED S!vars
    BY <1>3 DEF vars, P!vars, S!vars
  <2>2. ASSUME P!IInv PROVE P!IInv'
    BY <2>1, <2>2, P!NextInv, FirstAssumptions, PatternsAssumption
  <2>3. ASSUME S!IInv PROVE S!IInv'
    BY <2>1, <2>3, S!NextInv, SecondAssumptions, LaterAssumption
  <2> QED
    BY <1>3, <2>2, <2>3 DEF vars, RefInv
<1> QED
  BY <1>1, <1>2, <1>3 DEF Next
-----------------------------------------------------------------------------
(***************************************************************************)
(* advance: an automaton the kernel engine advances is covered by the one  *)
(* that covered it, advanced; a seed by the seed of the same root.         *)
(***************************************************************************)
LEMMA AdvanceBelow ==
    ASSUME NEW t, Sound(t), Roomy(t), NEW ln, NEW mid, NEW au, Below(t, ln, mid),
           patterns \in {Patterns, Later}, RulesType,
           NEW actor \in DOMAIN t.ent,
           NEW e, NEW f, f.op = e.op, f.ttps \subseteq e.ttps,
           Advances(e, ln[actor], mid, au),
           NEW q, q = Kernel!Advanced(Kernel!Seeded(t.slots[t.ent[actor]].autos, f), f)
    PROVE  Below([ent |-> t.ent, slots |-> [t.slots EXCEPT ![t.ent[actor]].autos = q]], ln, au)
<1> DEFINE s == t.ent[actor]
           old == t.slots[s].autos
           seeded == Kernel!Seeded(old, f)
           home == ln[actor]
           new == [ent |-> t.ent, slots |-> [t.slots EXCEPT ![s].autos = q]]
<1>1. s \in Slots /\ home \in Keys
  BY DEF Sound, Below
<1>2. /\ new.ent = t.ent
      /\ new.slots[s].autos = q
      /\ \A z \in Slots : z # s => new.slots[z] = t.slots[z]
  <2>1. DOMAIN t.slots = Slots /\ DOMAIN t.slots[s] = {"used", "members", "autos"}
    BY <1>1 DEF Sound
  <2>2. new.ent = t.ent /\ new.slots = [t.slots EXCEPT ![s].autos = q]
    OBVIOUS
  <2> HIDE DEF new
  <2>3. new.slots[s] = [t.slots[s] EXCEPT !.autos = q]
    BY <1>1, <2>1, <2>2
  <2>4. new.slots[s].autos = q
    BY <2>1, <2>3
  <2> QED
    BY <2>1, <2>2, <2>4
<1>3. /\ Listed(seeded)
      /\ \A i \in DOMAIN seeded : (\E j \in DOMAIN old : seeded[i] = old[j]) \/ IsSeed(seeded[i], f)
      /\ DOMAIN q = DOMAIN seeded
      /\ \A i \in DOMAIN seeded :
           q[i] = [seeded[i] EXCEPT !.done = Kernel!Progress(seeded[i].pid, seeded[i].done, f)]
  <2>1. Listed(old)
    BY <1>1 DEF Roomy
  <2> HIDE DEF old
  <2>2. /\ Listed(seeded)
        /\ \A i \in DOMAIN seeded : (\E j \in DOMAIN old : seeded[i] = old[j]) \/ IsSeed(seeded[i], f)
    BY <2>1, SeededListed
  <2> HIDE DEF seeded
  <2>3. /\ DOMAIN q = DOMAIN seeded
        /\ \A i \in DOMAIN seeded :
           q[i] = [seeded[i] EXCEPT !.done = Kernel!Progress(seeded[i].pid, seeded[i].done, f)]
    <3>1. q = Kernel!Advanced(seeded, f)
      BY DEF seeded, old
    <3> QED
      BY <2>2, <3>1, AdvancedListed
  <2> QED
    BY <2>2, <2>3
<1>4. \A j \in DOMAIN old : Covered(old[j], mid[home])
  BY DEF Below
<1> HIDE DEF s, old, seeded, home, new
<1>5. ASSUME NEW i \in DOMAIN q PROVE Covered(q[i], au[home])
  <2> DEFINE a == seeded[i]
             d == Kernel!Progress(a.pid, a.done, f)
  <2>1. q[i] = [a EXCEPT !.done = d]
    BY <1>3
  <2>2. CASE \E j \in DOMAIN old : a = old[j]
    <3>1. Covered(a, mid[home])
      BY <1>4, <2>2
    <3> HIDE DEF a
    <3>2. a = [pid |-> a.pid, done |-> a.done] /\ a.pid \in DOMAIN patterns
      BY <3>1 DEF Covered
    <3>3. PICK h \in DOMAIN mid[home][a.pid] : a.done \subseteq mid[home][a.pid][h]
      BY <3>1 DEF Covered
    <3>4. /\ h \in DOMAIN au[home][a.pid]
          /\ au[home][a.pid][h] = Kernel!Progress(a.pid, mid[home][a.pid][h], e)
      BY <3>2, <3>3 DEF home, Advances
    <3>5. d \subseteq au[home][a.pid][h]
      <4>1. f.op = e.op /\ f.ttps \subseteq e.ttps /\ patterns \in {Patterns, Later}
        OBVIOUS
      <4>2. Kernel!Progress(a.pid, a.done, f)
               \subseteq Kernel!Progress(a.pid, mid[home][a.pid][h], e)
        BY <3>2, <3>3, <4>1, KernelMonotone
      <4> QED
        BY <3>4, <4>2
    <3> HIDE DEF d
    <3>6. q[i] = [pid |-> a.pid, done |-> d]
      BY <2>1, <3>2
    <3> QED
      BY <3>2, <3>4, <3>5, <3>6 DEF Covered
  <2>3. CASE IsSeed(a, f)
    <3> HIDE DEF a
    <3>1. /\ a = [pid |-> a.pid, done |-> {}]
          /\ a.pid \in 1 .. Len(patterns) /\ Kernel!Roots(a.pid, f) # {}
      BY <2>3 DEF IsSeed
    <3>2. a.done = {}
      BY <3>1
    <3>3. a.pid \in DOMAIN patterns
      BY <3>1, LenProperties DEF RulesType
    <3>4. /\ Kernel!Roots(a.pid, e) # {}
          /\ d \subseteq Kernel!Progress(a.pid, {}, e)
      BY <3>1, <3>2, <3>3, KernelMonotone
    <3>5. PICK h \in DOMAIN au[home][a.pid] : au[home][a.pid][h] = Kernel!Progress(a.pid, {}, e)
      BY <3>3, <3>4 DEF home, Advances
    <3> HIDE DEF d
    <3>6. q[i] = [pid |-> a.pid, done |-> d]
      BY <2>1, <3>1
    <3>7. d \subseteq au[home][a.pid][h]
      BY <3>4, <3>5
    <3> QED
      BY <3>3, <3>6, <3>7 DEF Covered
  <2> QED
    BY <1>3, <2>2, <2>3
<1>6. Below(t, ln, au)
  <2>1. ASSUME NEW z \in Keys, NEW p \in DOMAIN patterns, NEW h \in DOMAIN mid[z][p]
        PROVE  \E i \in DOMAIN au[z][p] : mid[z][p][h] \subseteq au[z][p][i]
    <3>1. CASE z = home
      BY <2>1, <3>1 DEF home, Advances
    <3>2. CASE z # home
      BY <2>1, <3>2 DEF home, Advances
    <3> QED
      BY <3>1, <3>2
  <2> QED
    BY <2>1, GrownBelow
<1>7. ASSUME NEW k \in DOMAIN new.ent, NEW i \in DOMAIN new.slots[new.ent[k]].autos
      PROVE  Covered(new.slots[new.ent[k]].autos[i], au[ln[k]])
  <2>1. k \in DOMAIN t.ent /\ new.ent[k] = t.ent[k] /\ t.ent[k] \in Slots
    BY <1>2 DEF Sound
  <2>2. CASE t.ent[k] = s
    <3>1. ln[k] = home
      BY <2>1, <2>2 DEF Below, home, s
    <3>2. new.slots[new.ent[k]].autos = q
      BY <1>2, <2>1, <2>2
    <3> QED
      BY <1>5, <1>7, <3>1, <3>2
  <2>3. CASE t.ent[k] # s
    <3>1. new.slots[new.ent[k]] = t.slots[t.ent[k]]
      BY <1>2, <2>1, <2>3
    <3> QED
      BY <1>6, <1>7, <2>1, <3>1 DEF Below
  <2> QED
    BY <2>2, <2>3
<1>8. Below(new, ln, au)
  <2>1. /\ \A k \in DOMAIN new.ent : ln[k] \in Keys
        /\ \A k, j \in DOMAIN new.ent : new.ent[k] = new.ent[j] => ln[k] = ln[j]
    BY <1>2 DEF Below
  <2> QED
    BY <1>7, <2>1 DEF Below
<1> QED
  BY <1>8 DEF new, s

\* What unify_storyline makes of what the reference engine knew.
LEMMA LearnsBelow ==
    ASSUME Sound(Table), NEW e \in Event, NEW mid, RefLearns(e, mid), Below(Table, line, autos)
    PROVE  Below(Table, line', mid)
<1>1. ASSUME NEW k \in DOMAIN Table.ent
      PROVE  k \in Keys /\ line[k] \in Keys /\ line[k] # NoLine
  BY DiffAssumption DEF Sound, Below
<1>2. \A k \in DOMAIN Table.ent : line'[k] \in Keys
  BY <1>1 DEF RefLearns
<1>3. ASSUME NEW k \in DOMAIN Table.ent, NEW j \in DOMAIN Table.ent, Table.ent[k] = Table.ent[j]
      PROVE  line'[k] = line'[j]
  <2>1. line[j] = line[k]
    BY <1>3 DEF Below
  <2> QED
    BY <1>1, <2>1 DEF RefLearns, Advances
<1>4. ASSUME NEW k \in DOMAIN Table.ent, NEW a, Covered(a, autos[line[k]])
      PROVE  Covered(a, mid[line'[k]])
  <2>1. PICK h \in DOMAIN autos[line[k]][a.pid] : a.done \subseteq autos[line[k]][a.pid][h]
    BY <1>4 DEF Covered
  <2>2. a.pid \in DOMAIN patterns
    BY <1>4 DEF Covered
  <2>3. PICK i \in DOMAIN mid[line'[k]][a.pid] : mid[line'[k]][a.pid][i] = autos[line[k]][a.pid][h]
    BY <1>1, <2>1, <2>2 DEF RefLearns
  <2> QED
    BY <1>4, <2>1, <2>3 DEF Covered
<1> QED
  BY <1>2, <1>3, <1>4 DEF Below

\* The automata of any storyline grow when the reference engine advances.
LEMMA LearnsGrown ==
    ASSUME NEW e \in Event, NEW mid, RefLearns(e, mid), NEW t, Below(t, line', mid)
    PROVE  Below(t, line', autos')
<1>1. ASSUME NEW s \in Keys, NEW p \in DOMAIN patterns, NEW h \in DOMAIN mid[s][p]
      PROVE  \E i \in DOMAIN autos'[s][p] : mid[s][p][h] \subseteq autos'[s][p][i]
  <2>1. CASE s = line'[e.actor]
    BY <1>1, <2>1 DEF RefLearns, Advances
  <2>2. CASE s # line'[e.actor]
    BY <1>1, <2>2 DEF RefLearns, Advances
  <2> QED
    BY <2>1, <2>2
<1> QED
  BY <1>1, GrownBelow

\* The invariant: what KernelKnowsNoMore says, and that entries have their shape.
KnowsInv == ~ diverged => Below(Table, line, autos)

LEMMA KernelTrackKnows ==
    ASSUME TablesInv, RefInv, NEW e \in Event, NEW mid, RefLearns(e, mid),
           Below(Table, line, autos),
           NEW f, f.actor = e.actor, f.object = e.object, f.op = e.op, f.ttps \subseteq e.ttps,
           Kernel!Track(f), UNCHANGED patterns
    PROVE  Below(Table, line, autos)'
<1> DEFINE one  == Kernel!Resolve(Table, f.actor)
           both == Kernel!Resolve(one, f.object)
           u == KJoined(f)
           s == KHome(f)
           q == Kernel!Advanced(KSeeded(f), f)
<1>0. f.actor \in Keys /\ f.object \in Keys
  BY DEF Event
<1>1. line'[f.actor] \in Keys /\ line'[f.object] = line'[f.actor]
  BY DEF RefLearns
<1>2. Sound(Table) /\ Roomy(Table)
  BY DEF TablesInv
<1>3. Below(Table, line', mid)
  BY <1>2, LearnsBelow
<1>4. Kernel!CanResolve(Table, f.actor) /\ Kernel!CanResolve(one, f.object)
  BY KernelTrackUnfolds
<1>5. Sound(one) /\ Roomy(one) /\ Below(one, line', mid) /\ f.actor \in DOMAIN one.ent
  BY <1>0, <1>1, <1>2, <1>3, <1>4, ResolveSound, ResolveBelow
<1>6. u = Kernel!Unify(both, f.actor, f.object)
  BY DEF KJoined
<1> HIDE DEF one
<1>7. /\ Sound(both) /\ Roomy(both) /\ Below(both, line', mid)
      /\ f.actor \in DOMAIN both.ent /\ f.object \in DOMAIN both.ent
  BY <1>0, <1>1, <1>4, <1>5, ResolveSound, ResolveBelow
<1> HIDE DEF both
<1>8. Below(u, line', mid)
  BY <1>1, <1>6, <1>7, UnifyBelow
<1>9. Sound(u) /\ Roomy(u) /\ f.actor \in DOMAIN u.ent /\ s = u.ent[f.actor]
  BY <1>0, <1>4, JoinedSound DEF KHome, one
<1>10. q = Kernel!Advanced(Kernel!Seeded(u.slots[u.ent[f.actor]].autos, f), f)
  BY DEF KSeeded, KHome
<1>11. Table' = [ent |-> u.ent, slots |-> [u.slots EXCEPT ![s].autos = q]]
  BY KernelTrackUnfolds DEF Table
<1> HIDE DEF u, s, q
<1>12. patterns \in {Patterns, Later} /\ RulesType
  BY DEF RefInv, TablesInv
<1>13. Advances(e, line'[f.actor], mid, autos')
  BY DEF RefLearns
<1>14. ASSUME NEW ln, ln = line', NEW au, au = autos'
       PROVE  Below([ent |-> u.ent, slots |-> [u.slots EXCEPT ![u.ent[f.actor]].autos = q]], ln, au)
  <2>1. Below(u, ln, mid)
    BY <1>8, <1>14
  <2>2. Advances(e, ln[f.actor], mid, au)
    BY <1>13, <1>14
  <2>3. f.op = e.op /\ f.ttps \subseteq e.ttps
    OBVIOUS
  <2> QED
    BY <1>9, <1>10, <1>12, <2>1, <2>2, <2>3, AdvanceBelow
<1>15. Below(Table', line', autos')
  BY <1>9, <1>11, <1>14
<1> QED
  BY <1>15, BelowPrimes

LEMMA KernelFailOpenKnows ==
    ASSUME TablesInv, RefInv, NEW e \in Event, NEW mid, RefLearns(e, mid),
           Below(Table, line, autos),
           NEW f, f.actor = e.actor,
           Kernel!FailOpen(f), UNCHANGED patterns
    PROVE  Below(Table, line, autos)'
<1>1. Sound(Table) /\ f.actor \in Keys
  BY DEF TablesInv, Event
<1>2. Below(Table, line', mid)
  BY <1>1, LearnsBelow
<1>3. line'[f.actor] \in Keys
  BY DEF RefLearns
<1>4. CASE UNCHANGED <<ent, slots>>
  <2>1. Below(Table, line', autos')
    BY <1>2, LearnsGrown
  <2>2. Table' = Table
    BY <1>4 DEF Table
  <2> QED
    BY <2>1, <2>2, BelowPrimes
<1>5. CASE /\ Kernel!CanResolve(Table, f.actor)
           /\ ent' = Kernel!Resolve(Table, f.actor).ent
           /\ slots' = Kernel!Resolve(Table, f.actor).slots
  <2> DEFINE one == Kernel!Resolve(Table, f.actor)
  <2>1. Below(one, line', mid)
    BY <1>1, <1>2, <1>3, <1>5, ResolveBelow
  <2>2. ent' = one.ent /\ slots' = one.slots
    BY <1>5
  <2> HIDE DEF one
  <2>3. Below(one, line', autos')
    BY <2>1, LearnsGrown
  <2>4. Table'.ent = one.ent /\ Table'.slots = one.slots
    BY <2>2 DEF Table
  <2>5. Below(Table', line', autos')
    BY <2>3, <2>4 DEF Below
  <2> QED
    BY <2>5, BelowPrimes
<1> QED
  BY <1>4, <1>5 DEF Kernel!FailOpen, Table

LEMMA EventKnows ==
    ASSUME TablesInv, RefInv, KnowsInv, NEW e \in Sensed, OnEvent(e)
    PROVE  KnowsInv'
<1> SUFFICES ASSUME ~ diverged' PROVE Below(Table, line, autos)'
  BY DEF KnowsInv
<1> DEFINE f == Tagged(taggers, e)
<1>1. /\ ~ diverged
      /\ e.op \in disarmed[e.actor] <=> e.op \in Kernel!Disarmed(e.actor)
  BY DEF OnEvent
<1>2. Below(Table, line, autos)
  BY <1>1 DEF KnowsInv
<1>3. /\ e \in Event /\ f.actor = e.actor /\ f.object = e.object
      /\ f.op = e.op /\ f.ttps \subseteq e.ttps
  BY TaggedKeepsKeys DEF Sensed
<1>4. /\ \/ loaded = "first" /\ First!OnEvent(e)
         \/ loaded = "later" /\ Second!OnEvent(e)
      /\ Kernel!OnEvent(f) /\ UNCHANGED patterns
  BY DEF OnEvent, Kernel!OnEvent
<1> HIDE DEF f
<1>5. CASE e.op \in disarmed[e.actor]
  <2>1. UNCHANGED <<line, autos>>
    BY <1>4, <1>5 DEF First!OnEvent, First!Deny, First!Track, Second!OnEvent,
           Second!Deny, Second!Track
  <2>2. f.op \in Kernel!Disarmed(f.actor)
    BY <1>1, <1>3, <1>5
  <2>3. UNCHANGED <<ent, slots>>
    BY <1>4, <2>2 DEF Kernel!OnEvent, Kernel!Deny, Kernel!FailOpen, Kernel!Track
  <2> QED
    BY <1>2, <1>4, <2>1, <2>3, SameBelow
<1>6. CASE e.op \notin disarmed[e.actor]
  <2>1. RefTrack(e)
    BY <1>4, <1>6 DEF First!OnEvent, First!Deny, Second!OnEvent, Second!Deny, RefTrack
  <2>2. PICK mid : RefLearns(e, mid)
    BY <1>3, <2>1, RefTrackLearns
  <2>3. f.op \notin Kernel!Disarmed(f.actor)
    BY <1>1, <1>3, <1>6
  <2>4. Kernel!FailOpen(f) \/ Kernel!Track(f)
    BY <1>4, <2>3 DEF Kernel!OnEvent, Kernel!Deny
  <2>5. CASE Kernel!FailOpen(f)
    BY <1>2, <1>3, <1>4, <2>2, <2>5, KernelFailOpenKnows
  <2>6. CASE Kernel!Track(f)
    BY <1>2, <1>3, <1>4, <2>2, <2>6, KernelTrackKnows
  <2> QED
    BY <2>4, <2>5, <2>6
<1> QED
  BY <1>5, <1>6

LEMMA KnowsNextInv == TablesInv /\ RefInv /\ KnowsInv /\ [Next]_vars => KnowsInv'
<1> SUFFICES ASSUME TablesInv, RefInv, KnowsInv, [Next]_vars PROVE KnowsInv'
  OBVIOUS
<1>1. ASSUME NEW e \in Sensed, OnEvent(e) PROVE KnowsInv'
  BY <1>1, EventKnows
<1>2. CASE Reload
  <2>1. Table'.ent = <<>>
    BY <1>2 DEF Reload, LoadFresh, Table
  <2>2. Below(Table', line', autos')
    BY <2>1, NothingKnown
  <2>3. Below(Table, line, autos)'
    BY <2>1, <2>2 DEF Below, Covered, Table
  <2> QED
    BY <2>3 DEF KnowsInv
<1>3. CASE UNCHANGED vars
  <2>1. UNCHANGED <<patterns, ent, slots, line, autos>> /\ diverged' = diverged
    BY <1>3 DEF vars
  <2> QED
    BY <2>1, SameBelow DEF KnowsInv
<1> QED
  BY <1>1, <1>2, <1>3 DEF Next

LEMMA KnowsInductive == ASSUME WireFaithful PROVE Spec => [](TablesInv /\ RefInv /\ KnowsInv)
<1>1. RulesLoaded
  BY FaithfulIsLoaded
<1>2. Init => TablesInv /\ RefInv /\ KnowsInv
  <2>1. ASSUME Init PROVE KnowsInv
    <3>1. Table.ent = <<>>
      BY <2>1 DEF Init, Kernel!Init, Table
    <3> QED
      BY <3>1, NothingKnown DEF KnowsInv
  <2> QED
    BY <1>1, <2>1, TablesInitInv, RefInitInv
<1>3. TablesInv /\ RefInv /\ KnowsInv /\ [Next]_vars => (TablesInv /\ RefInv /\ KnowsInv)'
  BY <1>1, TablesNextInv, RefNextInv, KnowsNextInv
<1> QED
  BY <1>2, <1>3, PTL DEF Spec

(***************************************************************************)
(* What the limits of the kernel engine cost is evidence, never invented   *)
(* evidence, for every size of the tables, every pair of rule sets and     *)
(* every order of events and loads: until the engines disagree on which    *)
(* event to deny, entities the kernel engine joined are joined in the      *)
(* reference engine, and each of its automata is matched there by one at   *)
(* least as advanced, although it sees only the tags that are switched on, *)
(* may keep two storylines apart, skip seeds and give up half way.         *)
(***************************************************************************)
THEOREM KernelKnowsNoMoreCorrect == ASSUME WireFaithful PROVE Spec => []KernelKnowsNoMore
<1>1. TablesInv /\ KnowsInv => KernelKnowsNoMore
  <2> SUFFICES ASSUME TablesInv, Below(Table, line, autos)
               PROVE  /\ DOMAIN ent \subseteq Known
                      /\ \A k, j \in DOMAIN ent : ent[k] = ent[j] => line[k] = line[j]
                      /\ \A k \in DOMAIN ent : \A i \in DOMAIN slots[ent[k]].autos :
                           LET a == slots[ent[k]].autos[i]
                           IN  \E h \in DOMAIN autos[line[k]][a.pid] :
                                 a.done \subseteq autos[line[k]][a.pid][h]
    BY DEF KernelKnowsNoMore, KnowsInv
  <2>1. Table.ent = ent /\ Table.slots = slots
    BY DEF Table
  <2>2. DOMAIN ent \subseteq Known
    BY <2>1, DiffAssumption DEF TablesInv, Sound, Below, Known
  <2>3. \A k, j \in DOMAIN ent : ent[k] = ent[j] => line[k] = line[j]
    BY <2>1 DEF Below
  <2>4. \A k \in DOMAIN ent : \A i \in DOMAIN slots[ent[k]].autos :
          Covered(slots[ent[k]].autos[i], autos[line[k]])
    BY <2>1 DEF Below
  <2> QED
    BY <2>2, <2>3, <2>4 DEF Covered
<1> QED
  BY <1>1, KnowsInductive, PTL
-----------------------------------------------------------------------------
\* The steps committed are those the reference engine commits.
LEMMA SameFired ==
    /\ patterns = Patterns => \A p, d, e : Kernel!Fired(p, d, e) = P!Fired(p, d, e)
    /\ patterns = Later => \A p, d, e : Kernel!Fired(p, d, e) = S!Fired(p, d, e)
<1>1. ASSUME patterns = Patterns PROVE \A p, d, e : Kernel!Fired(p, d, e) = P!Fired(p, d, e)
  BY <1>1 DEF Kernel!Fired, P!Fired, Kernel!Tried, P!Tried, Kernel!Try, P!Try,
              Kernel!CanCommit, P!CanCommit, Kernel!Matches, P!Matches
<1>2. ASSUME patterns = Later PROVE \A p, d, e : Kernel!Fired(p, d, e) = S!Fired(p, d, e)
  BY <1>2 DEF Kernel!Fired, S!Fired, Kernel!Tried, S!Tried, Kernel!Try, S!Try,
              Kernel!CanCommit, S!CanCommit, Kernel!Matches, S!Matches
<1> QED
  BY <1>1, <1>2
-----------------------------------------------------------------------------
\* What Track of the reference engine does, in the words of the kernel engine's rules.
RefState   == [line |-> line, members |-> members, autos |-> autos]
RJoined(e) == R!Unify(RefState, e.actor, e.object)
RHome(e)   == RJoined(e).line[e.actor]
RSeeded(e) == [p \in DOMAIN patterns |-> RJoined(e).autos[RHome(e)][p] \o RefSeeds(p, e)]
RAdvanced(lists, e) ==
    [p \in DOMAIN patterns |-> [i \in DOMAIN lists[p] |-> Kernel!Progress(p, lists[p][i], e)]]

\* RefTrack(e), unfolded.
RefTracks(e) ==
    /\ e.op \notin disarmed[e.actor]
    /\ line' = RJoined(e).line
    /\ autos' = [RJoined(e).autos EXCEPT ![RHome(e)] = RAdvanced(RSeeded(e), e)]
    /\ verdict' = Kernel!Strongest(RefActivated(RSeeded(e), e))
    /\ disarmed' = [disarmed EXCEPT ![e.actor] =
                      @ \union Kernel!Deprived(RefActivated(RSeeded(e), e))]

LEMMA FirstUnfolds == ASSUME patterns = Patterns, NEW e, P!Track(e) PROVE RefTracks(e)
<1>0. P!Pids = DOMAIN patterns
  BY DEF P!Pids
<1>1. \A X : Kernel!Cardinality(X) = P!Cardinality(X) /\ R!Cardinality(X) = P!Cardinality(X)
  BY Zenon DEF Kernel!Cardinality, P!Cardinality, R!Cardinality
<1>2. R!NoAutos = P!NoAutos
  BY <1>0 DEF R!NoAutos, P!NoAutos
<1>3. \A st, k : R!Resolve(st, k) = P!Resolve(st, k)
  BY <1>2, Zenon DEF R!Resolve, P!Resolve
<1>4. \A st, x, y : R!Fold(st, x, y) = P!Fold(st, x, y)
  BY <1>2, <1>0, Zenon DEF R!Fold, P!Fold
<1>5. \A st, x, y : R!Merge(st, x, y) = P!Merge(st, x, y)
  BY <1>4, <1>1, Zenon DEF R!Merge, P!Merge
<1>6. ASSUME NEW st, NEW a, NEW o PROVE R!Unify(st, a, o) = P!Unify(st, a, o)
  <2>1. R!Resolve(R!Resolve(st, a), o) = P!Resolve(P!Resolve(st, a), o)
    BY <1>3
  <2> QED
    BY <1>5, <2>1, Zenon DEF R!Unify, P!Unify
<1>7. RJoined(e) = P!Joined(e) /\ RHome(e) = P!Home(e)
  BY <1>6 DEF RJoined, RHome, RefState, P!Joined, P!Home, P!Now
<1>8. \A p, x : Kernel!Roots(p, x) = P!Roots(p, x)
  BY SameProgress
<1>9. \A p, x : RefSeeds(p, x) = P!Seeds(p, x)
  BY <1>1, <1>8, Zenon DEF RefSeeds, P!Seeds
<1>10. RSeeded(e) = P!Seeded(e)
  BY <1>0, <1>7, <1>9, Zenon DEF RSeeded, P!Seeded
<1>11. \A p, d, x : Kernel!Progress(p, d, x) = P!Progress(p, d, x)
  BY SameProgress
<1>12. \A lists, x : RAdvanced(lists, x) = P!Advanced(lists, x)
  BY <1>0, <1>11, Zenon DEF RAdvanced, P!Advanced
<1>13. \A p, d, x : Kernel!Fired(p, d, x) = P!Fired(p, d, x)
  BY SameFired
<1>14. ASSUME NEW lists, NEW x PROVE RefActivated(lists, x) = P!Activated(lists, x)
  <2> DEFINE G(p) == UNION {Kernel!Fired(p, lists[p][i], x) : i \in DOMAIN lists[p]}
             H(p) == UNION {P!Fired(p, lists[p][i], x) : i \in DOMAIN lists[p]}
  <2>1. ASSUME NEW p PROVE G(p) = H(p)
    BY <1>13
  <2>2. RefActivated(lists, x) = UNION {G(p) : p \in DOMAIN patterns}
    BY DEF RefActivated
  <2>3. P!Activated(lists, x) = UNION {H(p) : p \in P!Pids}
    BY DEF P!Activated
  <2> HIDE DEF G, H
  <2>4. {G(p) : p \in DOMAIN patterns} = {H(p) : p \in P!Pids}
    BY <1>0, <2>1
  <2> QED
    BY <2>2, <2>3, <2>4, Zenon
<1>15. \A a : Kernel!Strongest(a) = P!Strongest(a)
  BY DEF Kernel!Strongest, P!Strongest, Kernel!Disarm, P!Disarm, Kernel!Block, P!Block,
         Kernel!Inspect, P!Inspect, Kernel!Ignore, P!Ignore
<1>16. \A a : Kernel!Deprived(a) = P!Deprived(a)
  BY DEF Kernel!Deprived, P!Deprived
<1>17. /\ e.op \notin disarmed[e.actor]
       /\ line' = P!Joined(e).line
       /\ autos' = [P!Joined(e).autos EXCEPT ![P!Home(e)] = P!Advanced(P!Seeded(e), e)]
       /\ verdict' = P!Strongest(P!Activated(P!Seeded(e), e))
       /\ disarmed' = P!Apply(e.actor, P!Activated(P!Seeded(e), e))
  BY P!TrackUnfolds, FirstAssumptions, PatternsAssumption
<1> QED
  BY <1>7, <1>10, <1>12, <1>14, <1>15, <1>16, <1>17 DEF RefTracks, P!Apply

LEMMA SecondUnfolds == ASSUME patterns = Later, NEW e, S!Track(e) PROVE RefTracks(e)
<1>0. S!Pids = DOMAIN patterns
  BY DEF S!Pids
<1>1. \A X : Kernel!Cardinality(X) = S!Cardinality(X) /\ R!Cardinality(X) = S!Cardinality(X)
  BY Zenon DEF Kernel!Cardinality, S!Cardinality, R!Cardinality
<1>2. R!NoAutos = S!NoAutos
  BY <1>0 DEF R!NoAutos, S!NoAutos
<1>3. \A st, k : R!Resolve(st, k) = S!Resolve(st, k)
  BY <1>2, Zenon DEF R!Resolve, S!Resolve
<1>4. \A st, x, y : R!Fold(st, x, y) = S!Fold(st, x, y)
  BY <1>2, <1>0, Zenon DEF R!Fold, S!Fold
<1>5. \A st, x, y : R!Merge(st, x, y) = S!Merge(st, x, y)
  BY <1>4, <1>1, Zenon DEF R!Merge, S!Merge
<1>6. ASSUME NEW st, NEW a, NEW o PROVE R!Unify(st, a, o) = S!Unify(st, a, o)
  <2>1. R!Resolve(R!Resolve(st, a), o) = S!Resolve(S!Resolve(st, a), o)
    BY <1>3
  <2> QED
    BY <1>5, <2>1, Zenon DEF R!Unify, S!Unify
<1>7. RJoined(e) = S!Joined(e) /\ RHome(e) = S!Home(e)
  BY <1>6 DEF RJoined, RHome, RefState, S!Joined, S!Home, S!Now
<1>8. \A p, x : Kernel!Roots(p, x) = S!Roots(p, x)
  BY SameProgress
<1>9. \A p, x : RefSeeds(p, x) = S!Seeds(p, x)
  BY <1>1, <1>8, Zenon DEF RefSeeds, S!Seeds
<1>10. RSeeded(e) = S!Seeded(e)
  BY <1>0, <1>7, <1>9, Zenon DEF RSeeded, S!Seeded
<1>11. \A p, d, x : Kernel!Progress(p, d, x) = S!Progress(p, d, x)
  BY SameProgress
<1>12. \A lists, x : RAdvanced(lists, x) = S!Advanced(lists, x)
  BY <1>0, <1>11, Zenon DEF RAdvanced, S!Advanced
<1>13. \A p, d, x : Kernel!Fired(p, d, x) = S!Fired(p, d, x)
  BY SameFired
<1>14. ASSUME NEW lists, NEW x PROVE RefActivated(lists, x) = S!Activated(lists, x)
  <2> DEFINE G(p) == UNION {Kernel!Fired(p, lists[p][i], x) : i \in DOMAIN lists[p]}
             H(p) == UNION {S!Fired(p, lists[p][i], x) : i \in DOMAIN lists[p]}
  <2>1. ASSUME NEW p PROVE G(p) = H(p)
    BY <1>13
  <2>2. RefActivated(lists, x) = UNION {G(p) : p \in DOMAIN patterns}
    BY DEF RefActivated
  <2>3. S!Activated(lists, x) = UNION {H(p) : p \in S!Pids}
    BY DEF S!Activated
  <2> HIDE DEF G, H
  <2>4. {G(p) : p \in DOMAIN patterns} = {H(p) : p \in S!Pids}
    BY <1>0, <2>1
  <2> QED
    BY <2>2, <2>3, <2>4, Zenon
<1>15. \A a : Kernel!Strongest(a) = S!Strongest(a)
  BY DEF Kernel!Strongest, S!Strongest, Kernel!Disarm, S!Disarm, Kernel!Block, S!Block,
         Kernel!Inspect, S!Inspect, Kernel!Ignore, S!Ignore
<1>16. \A a : Kernel!Deprived(a) = S!Deprived(a)
  BY DEF Kernel!Deprived, S!Deprived
<1>17. /\ e.op \notin disarmed[e.actor]
       /\ line' = S!Joined(e).line
       /\ autos' = [S!Joined(e).autos EXCEPT ![S!Home(e)] = S!Advanced(S!Seeded(e), e)]
       /\ verdict' = S!Strongest(S!Activated(S!Seeded(e), e))
       /\ disarmed' = S!Apply(e.actor, S!Activated(S!Seeded(e), e))
  BY S!TrackUnfolds, SecondAssumptions, LaterAssumption
<1> QED
  BY <1>7, <1>10, <1>12, <1>14, <1>15, <1>16, <1>17 DEF RefTracks, S!Apply

LEMMA RefTrackUnfolds == ASSUME RefInv, NEW e, RefTrack(e) PROVE RefTracks(e)
<1>1. CASE loaded = "first" /\ First!Track(e)
  BY <1>1, FirstTracks, FirstUnfolds DEF RefInv
<1>2. CASE loaded = "later" /\ Second!Track(e)
  BY <1>2, SecondTracks, SecondUnfolds DEF RefInv
<1> QED
  BY <1>1, <1>2 DEF RefTrack

\* The invariants of the reference engine, as far as the comparison needs them.
LEMMA RefStoried ==
    ASSUME RefInv
    PROVE  Storied(RefState) /\ DOMAIN disarmed = Keys
<1> SUFFICES ASSUME /\ line \in [Keys -> Keys \union {NoLine}]
                    /\ members \in [Keys -> SUBSET Keys] /\ DOMAIN autos = Keys
                    /\ \A k \in Keys, s \in Keys : k \in members[s] <=> line[k] = s
                    /\ \A s \in Keys : line[s] = NoLine => members[s] = {}
             PROVE  Storied(RefState)
  <2>1. CASE loaded = "first"
    <3>1. P!StorylinesInv(P!Now) /\ disarmed \in [Keys -> SUBSET Ops]
      BY <2>1 DEF RefInv, P!IInv
    <3>2. /\ line \in [Keys -> Keys \union {NoLine}]
          /\ members \in [Keys -> SUBSET Keys] /\ DOMAIN autos = Keys
      BY <3>1 DEF P!StorylinesInv, P!States, P!Now
    <3>3. /\ \A k \in Keys, s \in Keys : k \in members[s] <=> line[k] = s
          /\ \A s \in Keys : line[s] = NoLine => members[s] = {}
      BY <3>1 DEF P!StorylinesInv, P!Consistent, P!Owned, P!Now
    <3> QED
      BY <3>1, <3>2, <3>3
  <2>2. CASE loaded = "later"
    <3>1. S!StorylinesInv(S!Now) /\ disarmed \in [Keys -> SUBSET Ops]
      BY <2>2 DEF RefInv, S!IInv
    <3>2. /\ line \in [Keys -> Keys \union {NoLine}]
          /\ members \in [Keys -> SUBSET Keys] /\ DOMAIN autos = Keys
      BY <3>1 DEF S!StorylinesInv, S!States, S!Now
    <3>3. /\ \A k \in Keys, s \in Keys : k \in members[s] <=> line[k] = s
          /\ \A s \in Keys : line[s] = NoLine => members[s] = {}
      BY <3>1 DEF S!StorylinesInv, S!Consistent, S!Owned, S!Now
    <3> QED
      BY <3>1, <3>2, <3>3
  <2> QED
    BY <2>1, <2>2 DEF RefInv
<1>1. ASSUME NEW s \in Keys PROVE members[s] = {k \in Keys : line[k] = s}
  <2>1. members[s] \subseteq Keys
    OBVIOUS
  <2> QED
    BY <2>1
<1> QED
  BY <1>1 DEF Storied, RefState
-----------------------------------------------------------------------------
\* Events that match alike seed, advance and commit alike.
LEMMA IndistinctAlike ==
    ASSUME patterns \in {Patterns, Later}, NEW f, NEW e, Indistinct(f, e), NEW p \in DOMAIN patterns
    PROVE  /\ \A d : Kernel!Progress(p, d, f) = Kernel!Progress(p, d, e)
           /\ \A d : Kernel!Fired(p, d, f) = Kernel!Fired(p, d, e)
           /\ RefSeeds(p, f) = RefSeeds(p, e)
<1>1. Kernel!Roots(p, f) = Kernel!Roots(p, e)
  BY DEF Indistinct, Kernel!Roots
<1>2. RefSeeds(p, f) = RefSeeds(p, e)
  BY <1>1 DEF RefSeeds
<1>3. CASE patterns = Patterns
  <2>1. p \in P!Pids
    BY <1>3 DEF P!Pids
  <2>2. P!MatchAlike(p, f, e)
    BY <1>3 DEF Indistinct, Kernel!Matches, P!MatchAlike, P!Matches
  <2>3. /\ \A d : P!Progress(p, d, f) = P!Progress(p, d, e)
        /\ \A d : P!Fired(p, d, f) = P!Fired(p, d, e)
    BY <2>1, <2>2, P!TriedAlike, FirstAssumptions, PatternsAssumption
  <2> QED
    BY <1>2, <1>3, <2>3, SameProgress, SameFired
<1>4. CASE patterns = Later
  <2>1. p \in S!Pids
    BY <1>4 DEF S!Pids
  <2>2. S!MatchAlike(p, f, e)
    BY <1>4 DEF Indistinct, Kernel!Matches, S!MatchAlike, S!Matches
  <2>3. /\ \A d : S!Progress(p, d, f) = S!Progress(p, d, e)
        /\ \A d : S!Fired(p, d, f) = S!Fired(p, d, e)
    BY <2>1, <2>2, S!TriedAlike, SecondAssumptions, LaterAssumption
  <2> QED
    BY <1>2, <1>4, <2>3, SameProgress, SameFired
<1> QED
  BY <1>3, <1>4

\* Resolving both keys and uniting their storylines, when the kernel engine has the room.
LEMMA JoinedSame ==
    ASSUME TablesInv, RefInv, Same(Table, line, autos),
           NEW f, f.actor \in Keys, f.object \in Keys, NEW e, e.actor = f.actor, e.object = f.object,
           Kernel!CanResolve(Table, f.actor),
           Kernel!CanResolve(Kernel!Resolve(Table, f.actor), f.object),
           LET both == Kernel!Resolve(Kernel!Resolve(Table, f.actor), f.object)
           IN  both.ent[f.actor] # both.ent[f.object]
                 => Kernel!Fits(both, both.ent[f.actor], both.ent[f.object])
    PROVE  /\ Same(KJoined(f), RJoined(e).line, RJoined(e).autos)
           /\ DOMAIN RJoined(e).autos = Keys
<1> DEFINE one   == Kernel!Resolve(Table, f.actor)
           both  == Kernel!Resolve(one, f.object)
           rone  == R!Resolve(RefState, f.actor)
           rboth == R!Resolve(rone, f.object)
<1>1. Sound(Table) /\ Roomy(Table) /\ Storied(RefState) /\ Same(Table, RefState.line, RefState.autos)
  <2>1. RefState.line = line /\ RefState.autos = autos
    BY DEF RefState
  <2> QED
    BY <2>1, RefStoried DEF TablesInv
<1>2. /\ Sound(one) /\ Roomy(one) /\ Storied(rone) /\ Same(one, rone.line, rone.autos)
      /\ f.actor \in DOMAIN one.ent
  BY <1>1, ResolveSound, ResolveSame
<1>3. Kernel!CanResolve(one, f.object)
  OBVIOUS
<1>4. KJoined(f) = Kernel!Unify(both, f.actor, f.object)
  BY DEF KJoined
<1>5. RJoined(e) = IF rboth.line[f.actor] = rboth.line[f.object] THEN rboth
                   ELSE R!Merge(rboth, rboth.line[f.actor], rboth.line[f.object])
  BY DEF RJoined, R!Unify
<1>6. both.ent[f.actor] # both.ent[f.object]
        => Kernel!Fits(both, both.ent[f.actor], both.ent[f.object])
  OBVIOUS
<1> HIDE DEF one, rone
<1>7. /\ Sound(both) /\ Roomy(both) /\ Storied(rboth) /\ Same(both, rboth.line, rboth.autos)
      /\ f.actor \in DOMAIN both.ent /\ f.object \in DOMAIN both.ent
  BY <1>2, <1>3, ResolveSound, ResolveSame
<1> HIDE DEF both, rboth
<1> QED
  BY <1>4, <1>5, <1>6, <1>7, UnifySame

\* The two verdicts and the automata of the actor's storyline after a call that meets
\* no limit, on an event whose tags are all sensed.
LEMMA AdvancesSame ==
    ASSUME RulesType, patterns \in {Patterns, Later},
           NEW f, NEW e, Indistinct(f, e), NEW a, NEW la, Alike(a, la), Listed(a),
           ~ Len(a) + Len(Kernel!AllSeeds(f)) > CapAuto,
           NEW lists, lists = [p \in DOMAIN patterns |-> la[p] \o RefSeeds(p, e)]
    PROVE  /\ Alike(Kernel!Advanced(Kernel!Seeded(a, f), f), RAdvanced(lists, e))
           /\ Kernel!Activated(Kernel!Seeded(a, f), f) = RefActivated(lists, e)
<1>1. Len(a) + Len(Kernel!AllSeeds(f)) <= CapAuto
  <2>1. Len(a) \in Nat /\ Len(Kernel!AllSeeds(f)) \in Nat /\ CapAuto \in Nat
    <3>1. Listed(Kernel!AllSeeds(f))
      BY AllSeedsListed
    <3> QED
      BY <3>1, ListedProperties, CapsType
  <2> QED
    BY <2>1
<1>2. \A p \in DOMAIN patterns : lists[p] = la[p] \o RefSeeds(p, f)
  BY IndistinctAlike, Zenon
<1>3. Alike(Kernel!Seeded(a, f), lists)
  BY <1>1, <1>2, SeededAlike
<1> DEFINE seeded == Kernel!Seeded(a, f)
           onward == RAdvanced(lists, e)
<1>4. ASSUME NEW p \in DOMAIN patterns
      PROVE  onward[p] = [i \in DOMAIN lists[p] |-> Kernel!Progress(p, lists[p][i], f)]
  <2>1. onward[p] = [i \in DOMAIN lists[p] |-> Kernel!Progress(p, lists[p][i], e)]
    BY DEF RAdvanced
  <2>2. \A d : Kernel!Progress(p, d, f) = Kernel!Progress(p, d, e)
    BY IndistinctAlike
  <2> QED
    BY <2>1, <2>2, Zenon
<1>5. Alike(seeded, lists)
  BY <1>3
<1> HIDE DEF onward, seeded
<1>6. Alike(Kernel!Advanced(seeded, f), onward)
  <2>1. Onward(lists, onward, f)
    BY <1>4 DEF Onward
  <2> QED
    BY <1>5, <2>1, AdvancedAlike
<1>7. Kernel!Activated(seeded, f) = RefActivated(lists, f)
  BY <1>5, ActivatedAlike
<1>8. RefActivated(lists, f) = RefActivated(lists, e)
  <2> DEFINE G(p, x) == UNION {Kernel!Fired(p, lists[p][i], x) : i \in DOMAIN lists[p]}
  <2>1. ASSUME NEW p \in DOMAIN patterns PROVE G(p, f) = G(p, e)
    <3>1. \A d : Kernel!Fired(p, d, f) = Kernel!Fired(p, d, e)
      BY IndistinctAlike
    <3> QED
      BY <3>1
  <2>2. /\ RefActivated(lists, f) = UNION {G(p, f) : p \in DOMAIN patterns}
        /\ RefActivated(lists, e) = UNION {G(p, e) : p \in DOMAIN patterns}
    BY DEF RefActivated
  <2> HIDE DEF G
  <2>3. {G(p, f) : p \in DOMAIN patterns} = {G(p, e) : p \in DOMAIN patterns}
    BY <2>1
  <2> QED
    BY <2>2, <2>3, Zenon
<1> QED
  BY <1>6, <1>7, <1>8 DEF seeded, onward

\* As long as no limit was met, the kernel engine's state is the reference engine's.
SameInv ==
    ~ capped => /\ Same(Table, line, autos)
                /\ bverdict = verdict
                /\ \A k \in Keys : Kernel!Disarmed(k) = disarmed[k]

\* Track in both engines.
LEMMA TrackSame ==
    ASSUME TablesInv, RefInv, Same(Table, line, autos),
           \A k \in Keys : Kernel!Disarmed(k) = disarmed[k],
           NEW e \in Event, NEW f, f.actor = e.actor, f.object = e.object,
           Indistinct(f, e), ~ MeetsLimit(f),
           RefTrack(e), Kernel!Track(f), UNCHANGED patterns
    PROVE  /\ Same(Table, line, autos)'
           /\ bverdict' = verdict'
           /\ \A k \in Keys : Kernel!Disarmed(k)' = disarmed'[k]
<1> DEFINE u  == KJoined(f)
           s  == KHome(f)
           a  == u.slots[s].autos
           au == RJoined(e).autos
           ln == RJoined(e).line
           lists == RSeeded(e)
           q  == Kernel!Advanced(KSeeded(f), f)
           acts == Kernel!Activated(KSeeded(f), f)
<1>0. f.actor \in Keys /\ f.object \in Keys /\ RulesType /\ patterns \in {Patterns, Later}
  BY DEF Event, TablesInv, RefInv
<1>1. Same(u, ln, au) /\ DOMAIN au = Keys
  BY <1>0, RoomLeft, JoinedSame
<1>2. Sound(u) /\ Roomy(u) /\ f.actor \in DOMAIN u.ent /\ s = u.ent[f.actor] /\ s \in Slots
  <2>1. /\ Kernel!CanResolve(Table, f.actor)
        /\ Kernel!CanResolve(Kernel!Resolve(Table, f.actor), f.object)
    BY RoomLeft
  <2> QED
    BY <1>0, <2>1, JoinedSound DEF KHome
<1>3. RHome(e) = ln[f.actor]
  BY DEF RHome
<1>4. Alike(a, au[ln[f.actor]]) /\ Listed(a)
  BY <1>1, <1>2 DEF Same, Roomy
<1>5. ~ Len(a) + Len(Kernel!AllSeeds(f)) > CapAuto
  BY RoomLeft
<1>6. lists = [p \in DOMAIN patterns |-> au[ln[f.actor]][p] \o RefSeeds(p, e)]
  BY <1>3 DEF RSeeded
<1>7. KSeeded(f) = Kernel!Seeded(a, f)
  BY DEF KSeeded
<1>8. /\ Table' = [ent |-> u.ent, slots |-> [u.slots EXCEPT ![s].autos = q]]
      /\ bverdict' = Kernel!Strongest(acts)
      /\ dis' = Kernel!Apply(f.actor, acts)
  BY KernelTrackUnfolds DEF Table
<1>9. /\ line' = ln
      /\ autos' = [au EXCEPT ![ln[f.actor]] = RAdvanced(lists, e)]
      /\ verdict' = Kernel!Strongest(RefActivated(lists, e))
      /\ disarmed' = [disarmed EXCEPT ![f.actor] = @ \union Kernel!Deprived(RefActivated(lists, e))]
  BY <1>3, RefTrackUnfolds DEF RefTracks
<1>10. ~ /\ \E act \in acts : act.kind = "disarm"
         /\ f.actor \notin DOMAIN dis
         /\ Kernel!Cardinality(DOMAIN dis) = CapDis
  BY RoomLeft
<1> DEFINE la == au[ln[f.actor]]
<1> HIDE DEF u, s, a, au, ln, lists, la
<1>11. /\ Alike(Kernel!Advanced(Kernel!Seeded(a, f), f), RAdvanced(lists, e))
       /\ Kernel!Activated(Kernel!Seeded(a, f), f) = RefActivated(lists, e)
  <2>1. Alike(a, la) /\ lists = [p \in DOMAIN patterns |-> la[p] \o RefSeeds(p, e)]
    BY <1>4, <1>6 DEF la
  <2> QED
    BY <1>0, <1>4, <1>5, <2>1, AdvancesSame
<1>12. Alike(q, RAdvanced(lists, e)) /\ acts = RefActivated(lists, e)
  BY <1>7, <1>11
<1> HIDE DEF q, acts
<1>13. Same([ent |-> u.ent, slots |-> [u.slots EXCEPT ![u.ent[f.actor]].autos = q]],
            ln, [au EXCEPT ![ln[f.actor]] = RAdvanced(lists, e)])
  BY <1>1, <1>2, <1>12, AdvanceSame
<1>14. Same(Table', line', autos')
  BY <1>2, <1>8, <1>9, <1>13
<1>15. bverdict' = verdict'
  BY <1>8, <1>9, <1>12
<1>16. ASSUME NEW k \in Keys PROVE Kernel!Disarmed(k)' = disarmed'[k]
  <2>1. IsFiniteSet(DOMAIN dis) /\ Cardinality(DOMAIN dis) <= CapDis /\ DOMAIN disarmed = Keys
    BY RefStoried DEF TablesInv
  <2> DEFINE new == dis'
             actor == f.actor
  <2>2. new = Kernel!Apply(actor, acts) /\ actor \in Keys
    BY <1>0, <1>8
  <2>3. ~ /\ \E act \in acts : act.kind = "disarm"
          /\ actor \notin DOMAIN dis
          /\ Kernel!Cardinality(DOMAIN dis) = CapDis
    BY <1>10
  <2> HIDE DEF new, actor
  <2>4. (IF k \in DOMAIN new THEN new[k] ELSE {})
          = [disarmed EXCEPT ![actor] = @ \union Kernel!Deprived(acts)][k]
    BY <2>1, <2>2, <2>3, ApplySame
  <2> QED
    BY <1>9, <1>12, <2>4 DEF Kernel!Disarmed, new, actor
<1> QED
  BY <1>14, <1>15, <1>16, SamePrimes

LEMMA EventSame ==
    ASSUME TablesInv, RefInv, TagInv, SameInv, NEW e \in Sensed, OnEvent(e)
    PROVE  SameInv'
<1> DEFINE f == Tagged(taggers, e)
<1>1. /\ ~ capped' => ~ capped
      /\ ~ capped' /\ e.op \notin Kernel!Disarmed(e.actor) => ~ MeetsLimit(f) /\ Untagged(e) = {}
  BY DEF OnEvent
<1> SUFFICES ASSUME ~ capped'
             PROVE  /\ Same(Table, line, autos)'
                    /\ bverdict' = verdict'
                    /\ \A k \in Keys : Kernel!Disarmed(k)' = disarmed'[k]
  BY DEF SameInv
<1>2. /\ Same(Table, line, autos)
      /\ \A k \in Keys : Kernel!Disarmed(k) = disarmed[k]
  BY <1>1 DEF SameInv
<1>3. e \in Event /\ f.actor = e.actor /\ f.object = e.object /\ f.op = e.op /\ e.actor \in Keys
  BY TaggedKeepsKeys DEF Sensed
<1>4. /\ \/ loaded = "first" /\ First!OnEvent(e)
         \/ loaded = "later" /\ Second!OnEvent(e)
      /\ Kernel!OnEvent(f) /\ UNCHANGED patterns
  BY DEF OnEvent, Kernel!OnEvent
<1>5. Kernel!Disarmed(e.actor) = disarmed[e.actor]
  BY <1>2, <1>3
<1>6. Untagged(e) = {} => Indistinct(f, e)
  BY TaggedIndistinct
<1> HIDE DEF f
<1>7. CASE e.op \in disarmed[e.actor]
  <2>1. UNCHANGED <<line, autos, disarmed>> /\ verdict' = 2
    BY <1>4, <1>7 DEF First!OnEvent, First!Deny, First!Track, First!Block,
           Second!OnEvent, Second!Deny, Second!Track, Second!Block
  <2>2. UNCHANGED <<ent, slots, dis>> /\ bverdict' = 2
    BY <1>3, <1>4, <1>5, <1>7 DEF Kernel!OnEvent, Kernel!Deny, Kernel!FailOpen, Kernel!Track,
           Kernel!Block
  <2>3. Table' = Table
    BY <2>2 DEF Table
  <2>4. Same(Table', line', autos')
    BY <1>2, <2>1, <2>3
  <2>5. Same(Table, line, autos)'
    BY <1>4, <2>4, SamePrimes
  <2>6. \A k \in Keys : Kernel!Disarmed(k)' = disarmed'[k]
    BY <1>2, <2>1, <2>2 DEF Kernel!Disarmed
  <2> QED
    BY <2>1, <2>2, <2>5, <2>6
<1>8. CASE e.op \notin disarmed[e.actor]
  <2>1. RefTrack(e)
    BY <1>4, <1>8 DEF First!OnEvent, First!Deny, Second!OnEvent, Second!Deny, RefTrack
  <2>2. ~ MeetsLimit(f) /\ Indistinct(f, e)
    BY <1>1, <1>5, <1>6, <1>8
  <2>3. Kernel!Track(f)
    <3>1. /\ Kernel!CanResolve(Table, f.actor)
          /\ Kernel!CanResolve(Kernel!Resolve(Table, f.actor), f.object)
      BY <2>2, RoomLeft
    <3>2. ~ Kernel!FailOpen(f)
      BY <3>1 DEF Kernel!FailOpen, Table
    <3>3. ~ Kernel!Deny(f)
      BY <1>3, <1>5, <1>8 DEF Kernel!Deny
    <3> QED
      BY <1>4, <3>2, <3>3 DEF Kernel!OnEvent
  <2> QED
    BY <1>2, <1>3, <1>4, <2>1, <2>2, <2>3, TrackSame
<1> QED
  BY <1>7, <1>8

LEMMA SameInitInv == Init => SameInv
<1> SUFFICES ASSUME Init PROVE SameInv
  OBVIOUS
<1>1. Table.ent = <<>> /\ dis = <<>>
  BY DEF Init, Kernel!Init, Table
<1>2. line = [k \in Keys |-> NoLine]
  BY DEF Init, First!Init, First!Empty
<1>3. disarmed = [k \in Keys |-> {}] /\ bverdict = verdict
  BY DEF Init, First!Init, First!D!Init, First!D!Ignore, Kernel!Init, Kernel!Ignore
<1>4. \A k \in Keys : Kernel!Disarmed(k) = disarmed[k]
  <2>1. dis = Nothing /\ DOMAIN Nothing = {}
    BY <1>1, NothingIsEmpty DEF Nothing
  <2> QED
    BY <1>3, <2>1 DEF Kernel!Disarmed
<1> QED
  BY <1>1, <1>2, <1>3, <1>4, FreshSame DEF SameInv

LEMMA SameReloadInv == ASSUME Reload PROVE SameInv'
<1>1. Table'.ent = <<>> /\ dis' = <<>>
  BY DEF Reload, LoadFresh, Table
<1>2. line' = [k \in Keys |-> NoLine]
  BY DEF Reload, First!Empty
<1>3. disarmed' = [k \in Keys |-> {}] /\ bverdict' = verdict'
  BY DEF Reload
<1>4. \A k \in Keys : Kernel!Disarmed(k)' = disarmed'[k]
  <2>1. dis' = Nothing /\ DOMAIN Nothing = {}
    BY <1>1, NothingIsEmpty DEF Nothing
  <2> QED
    BY <1>3, <2>1 DEF Kernel!Disarmed
<1>5. Same(Table, line, autos)'
  <2>1. DOMAIN Table'.ent = {}
    BY <1>1, NothingIsEmpty DEF Nothing
  <2> QED
    BY <1>2, <2>1 DEF Same
<1> QED
  BY <1>3, <1>4, <1>5 DEF SameInv

LEMMA SameNextInv == TablesInv /\ RefInv /\ TagInv /\ SameInv /\ [Next]_vars => SameInv'
<1> SUFFICES ASSUME TablesInv, RefInv, TagInv, SameInv, [Next]_vars PROVE SameInv'
  OBVIOUS
<1>1. ASSUME NEW e \in Sensed, OnEvent(e) PROVE SameInv'
  BY <1>1, EventSame
<1>2. CASE Reload
  BY <1>2, SameReloadInv
<1>3. CASE UNCHANGED vars
  <2>1. UNCHANGED <<patterns, line, autos, disarmed, verdict, bverdict, capped, dis, ent, slots>>
    BY <1>3 DEF vars
  <2>2. Table' = Table
    BY <2>1 DEF Table
  <2>3. Same(Table, line, autos) => Same(Table, line, autos)'
    BY <2>1, <2>2, SamePrimes
  <2>4. \A k : Kernel!Disarmed(k)' = Kernel!Disarmed(k)
    BY <2>1 DEF Kernel!Disarmed
  <2> QED
    BY <2>1, <2>3, <2>4 DEF SameInv
<1> QED
  BY <1>1, <1>2, <1>3 DEF Next

LEMMA SameInductive ==
    ASSUME WireFaithful PROVE Spec => [](TablesInv /\ RefInv /\ TagInv /\ SameInv)
<1>1. RulesLoaded
  BY FaithfulIsLoaded
<1>2. Init => TablesInv /\ RefInv /\ TagInv /\ SameInv
  BY <1>1, TablesInitInv, RefInitInv, TagInitInv, SameInitInv
<1>3. TablesInv /\ RefInv /\ TagInv /\ SameInv /\ [Next]_vars
        => (TablesInv /\ RefInv /\ TagInv /\ SameInv)'
  BY <1>1, TablesNextInv, RefNextInv, TagNextInv, SameNextInv
<1> QED
  BY <1>2, <1>3, PTL DEF Spec

(***************************************************************************)
(* As long as the kernel engine meets no limit it is the reference engine, *)
(* for every size of the tables, every pair of rule sets and every order   *)
(* of events and loads: same verdict, same partition of the entities, as   *)
(* many automata at every mask of every pattern, the same actors disarmed  *)
(* of the same ops, although it keeps all patterns' automata in one array, *)
(* in another order, and is fed only the tags that the driver switched on. *)
(***************************************************************************)
THEOREM SameUntilCappedCorrect == ASSUME WireFaithful PROVE Spec => []SameUntilCapped
<1>1. TablesInv /\ RefInv /\ SameInv => SameUntilCapped
  <2> SUFFICES ASSUME TablesInv, Same(Table, line, autos), bverdict = verdict,
                      \A k \in Keys : Kernel!Disarmed(k) = disarmed[k]
               PROVE  SameUntilCapped
    BY DEF SameInv, SameUntilCapped
  <2>1. Table.ent = ent /\ Table.slots = slots
    BY DEF Table
  <2>2. DOMAIN ent = Known
    <3>1. DOMAIN ent \subseteq Keys
      BY <2>1 DEF TablesInv, Sound
    <3>2. \A k \in Keys : k \in DOMAIN ent <=> line[k] # NoLine
      BY <2>1 DEF Same
    <3> QED
      BY <3>1, <3>2 DEF Known
  <2>3. \A k, j \in Known : ent[k] = ent[j] <=> line[k] = line[j]
    BY <2>1, <2>2 DEF Same
  <2>4. ASSUME NEW k \in Known, NEW p \in DOMAIN patterns
        PROVE  Counts(slots[ent[k]].autos, autos[line[k]], p)
    <3>1. Alike(slots[ent[k]].autos, autos[line[k]])
      BY <2>1, <2>2 DEF Same
    <3> QED
      BY <3>1, AlikeCounts
  <2>5. ASSUME NEW k \in Known, NEW p \in DOMAIN patterns
        PROVE  /\ Cardinality({i \in DOMAIN slots[ent[k]].autos : slots[ent[k]].autos[i].pid = p})
                    = Len(autos[line[k]][p])
               /\ \A d : RefCount(line[k], p, d) = KernelCount(ent[k], p, d)
    BY <2>4, Zenon DEF Counts, RefCount, KernelCount
  <2>6. ASSUME NEW k \in Known, NEW p \in DOMAIN patterns
        PROVE  \A i \in DOMAIN autos[line[k]][p] :
                 LET d == autos[line[k]][p][i]
                 IN  RefCount(line[k], p, d) = KernelCount(ent[k], p, d)
    BY <2>5, Zenon
  <2>7. bverdict = verdict /\ \A k \in Keys : Kernel!Disarmed(k) = disarmed[k]
    OBVIOUS
  <2>8. \A k \in Known, p \in DOMAIN patterns :
          /\ Cardinality({i \in DOMAIN slots[ent[k]].autos : slots[ent[k]].autos[i].pid = p})
               = Len(autos[line[k]][p])
          /\ \A i \in DOMAIN autos[line[k]][p] :
               LET d == autos[line[k]][p][i]
               IN  RefCount(line[k], p, d) = KernelCount(ent[k], p, d)
    BY <2>5, <2>6, Zenon
  <2> QED
    BY <2>2, <2>3, <2>7, <2>8 DEF SameUntilCapped
<1> QED
  BY <1>1, SameInductive, PTL
=============================================================================
