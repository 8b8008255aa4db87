--------------------------- MODULE EngineBounded ---------------------------
(***************************************************************************)
(* The kernel engine, engine_core/src/v0_0_2_bounded.rs: EngineDag on      *)
(* tables of fixed capacity.  A call that meets a full table fails open.   *)
(*                                                                         *)
(* LINE and DISARMED are open-addressing tables that compare whole keys,   *)
(* probe every cell and never remove an entry: each is a partial function  *)
(* with at most as many entries as cells.  The member array of a slot      *)
(* never repeats an entity and is a set.  The host gives it its patterns.  *)
(***************************************************************************)
EXTENDS Integers, Sequences, FiniteSets

CONSTANTS Keys, Ops, Ttps,
          CapEnt,      \* cells of LINE
          CapLines,    \* storyline slots
          CapMembers,  \* members of a storyline
          CapAuto,     \* automata of a storyline, all patterns together
          CapDis       \* cells of DISARMED

VARIABLES patterns,    \* the rule set the engine was made of
          ent,         \* LINE: known key -> its slot
          slots,       \* slot -> [used, members, autos]
          dis,         \* DISARMED: actor with an entry -> the ops it lost
          bverdict     \* what the last on_event returned

bvars == <<patterns, ent, slots, dis, bverdict>>

INSTANCE DagRules WITH Patterns <- patterns

Slots == 1 .. CapLines

FreeSlot == [used |-> FALSE, members |-> {}, autos |-> <<>>]

\* A table with v in the cell of k, taken for it if it had none.
Put(table, k, v) ==
    [x \in DOMAIN table \union {k} |-> IF x = k THEN v ELSE table[x]]
-----------------------------------------------------------------------------
Unused(sl) == {s \in Slots : ~ sl[s].used}

\* Fault: a slot without automata is taken for a slot not in use.
AllocIdleLine(sl) ==
    LET idle == {s \in Slots : sl[s].autos = <<>>}
    IN  IF idle = {} THEN CHOOSE s \in Slots : ~ sl[s].used
        ELSE CHOOSE s \in idle : \A t \in idle : s <= t

\* alloc_line: the first slot not in use.
AllocLine(sl) == CHOOSE s \in Unused(sl) : \A t \in Unused(sl) : s <= t

\* resolve_line fails when the key is new and LINE or the slab is full.
CanResolve(t, k) ==
    \/ k \in DOMAIN t.ent
    \/ /\ Cardinality(DOMAIN t.ent) < CapEnt
       /\ Unused(t.slots) # {}

Resolve(t, k) ==
    IF k \in DOMAIN t.ent THEN t
    ELSE LET s == AllocLine(t.slots)
         IN  [ent   |-> Put(t.ent, k, s),
              slots |-> [t.slots EXCEPT ![s] =
                           [used |-> TRUE, members |-> {k}, autos |-> <<>>]]]

\* Fault: the merged-away slot stays in use.
FoldLeaksSlot(t, dst, src) ==
    [ent   |-> [k \in DOMAIN t.ent |->
                  IF k \in t.slots[src].members THEN dst ELSE t.ent[k]],
     slots |-> [t.slots EXCEPT
                  ![dst].members = @ \union t.slots[src].members,
                  ![dst].autos   = @ \o t.slots[src].autos,
                  ![src].members = {},
                  ![src].autos   = <<>>]]

Fold(t, dst, src) ==
    [ent   |-> [k \in DOMAIN t.ent |->
                  IF k \in t.slots[src].members THEN dst ELSE t.ent[k]],
     slots |-> [t.slots EXCEPT
                  ![dst].members = @ \union t.slots[src].members,
                  ![dst].autos   = @ \o t.slots[src].autos,
                  ![src] = FreeSlot]]

\* merge keeps the two storylines apart when the result would not fit.
Fits(t, x, y) ==
    /\ Cardinality(t.slots[x].members) + Cardinality(t.slots[y].members) <= CapMembers
    /\ Len(t.slots[x].autos) + Len(t.slots[y].autos) <= CapAuto

Merge(t, x, y) ==
    IF ~ Fits(t, x, y) THEN t
    ELSE IF Cardinality(t.slots[x].members) >= Cardinality(t.slots[y].members)
           THEN Fold(t, x, y)
           ELSE Fold(t, y, x)

\* unify, once both keys are resolved.
Unify(t, a, o) ==
    IF t.ent[a] = t.ent[o] THEN t ELSE Merge(t, t.ent[a], t.ent[o])
-----------------------------------------------------------------------------
\* (a) of advance: a seed for each matching root step of each pattern in turn...
AllSeeds(e) ==
    LET upTo[p \in 0 .. Len(patterns)] ==
          IF p = 0 THEN <<>>
          ELSE upTo[p-1] \o [i \in 1 .. Cardinality(Roots(p, e)) |-> [pid |-> p, done |-> {}]]
    IN  upTo[Len(patterns)]

\* ... of which those that find the array full are skipped.
Seeded(automata, e) ==
    LET all == automata \o AllSeeds(e)
    IN  SubSeq(all, 1, IF Len(all) <= CapAuto THEN Len(all) ELSE CapAuto)

\* (b) of advance.
Advanced(seeded, e) ==
    [i \in DOMAIN seeded |->
        [seeded[i] EXCEPT !.done = Progress(seeded[i].pid, seeded[i].done, e)]]

Activated(seeded, e) ==
    UNION {Fired(seeded[i].pid, seeded[i].done, e) : i \in DOMAIN seeded}

\* apply_action, dis_insert: an actor that finds no free cell loses nothing.
Apply(actor, actions) ==
    IF \A a \in actions : a.kind # "disarm" THEN dis
    ELSE IF actor \in DOMAIN dis THEN [dis EXCEPT ![actor] = @ \union Deprived(actions)]
    ELSE IF Cardinality(DOMAIN dis) < CapDis THEN Put(dis, actor, Deprived(actions))
    ELSE dis

\* dis_check
Disarmed(k) == IF k \in DOMAIN dis THEN dis[k] ELSE {}
-----------------------------------------------------------------------------
Init ==
    /\ ent = <<>>
    /\ slots = [s \in Slots |-> FreeSlot]
    /\ dis = <<>>
    /\ bverdict = Ignore

Deny(e) ==
    /\ e.op \in Disarmed(e.actor)
    /\ bverdict' = Block
    /\ UNCHANGED <<ent, slots, dis>>

\* unify gives up: Ignore.  An actor that was resolved before the object could
\* not be keeps the storyline it was given.
FailOpen(e) ==
    /\ e.op \notin Disarmed(e.actor)
    /\ LET t == [ent |-> ent, slots |-> slots]
       IN  \/ /\ ~ CanResolve(t, e.actor)
              /\ UNCHANGED <<ent, slots>>
           \/ /\ CanResolve(t, e.actor)
              /\ ~ CanResolve(Resolve(t, e.actor), e.object)
              /\ ent' = Resolve(t, e.actor).ent
              /\ slots' = Resolve(t, e.actor).slots
    /\ bverdict' = Ignore
    /\ UNCHANGED dis

Track(e) ==
    /\ e.op \notin Disarmed(e.actor)
    /\ LET t == [ent |-> ent, slots |-> slots]
       IN  /\ CanResolve(t, e.actor)
           /\ CanResolve(Resolve(t, e.actor), e.object)
           /\ LET u == Unify(Resolve(Resolve(t, e.actor), e.object), e.actor, e.object)
                  s == u.ent[e.actor]
                  seeded == Seeded(u.slots[s].autos, e)
                  activated == Activated(seeded, e)
              IN  /\ ent' = u.ent
                  /\ slots' = [u.slots EXCEPT ![s].autos = Advanced(seeded, e)]
                  /\ bverdict' = Strongest(activated)
                  /\ dis' = Apply(e.actor, activated)

OnEvent(e) ==
    /\ Deny(e) \/ FailOpen(e) \/ Track(e)
    /\ UNCHANGED patterns

Next == \E e \in Event : OnEvent(e)

Spec == Init /\ [][Next]_bvars
-----------------------------------------------------------------------------
(***************************************************************************)
(* No table outgrows its array: not through the merges, nor through the    *)
(* several seeds of one call (merge, advance, dis_insert).                 *)
(***************************************************************************)
WithinCaps ==
    /\ Cardinality(DOMAIN ent) <= CapEnt
    /\ Cardinality(DOMAIN dis) <= CapDis
    /\ \A s \in Slots : /\ Cardinality(slots[s].members) <= CapMembers
                        /\ Len(slots[s].autos) <= CapAuto

(***************************************************************************)
(* The slab does not leak: a slot is in use exactly while some entity is   *)
(* in it, also after merges and after calls that failed half way, so the   *)
(* slots run out only when that many storylines live (alloc_line, merge).  *)
(***************************************************************************)
SlabExact ==
    \A s \in Slots : /\ slots[s].used <=> \E k \in DOMAIN ent : ent[k] = s
                     /\ slots[s].members = {k \in DOMAIN ent : ent[k] = s}
=============================================================================
