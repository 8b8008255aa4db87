----------------------------- MODULE EngineDiff -----------------------------
(***************************************************************************)
(* The kernel engine and the reference engine fed with the same events, as *)
(* the test bounded_never_over_enforces_vs_v0_0_2 of v0_0_2_bounded.rs     *)
(* does; here the kernel engine has its rules from the wire and its events *)
(* from the driver's taggers.  Loading rules starts both anew.            *)
(***************************************************************************)
EXTENDS DagRules, EngineHost

CONSTANTS Later,   \* a second rule set, which may be loaded in the first one's place
          NoLine, MaxAutos, CapEnt, CapLines, CapMembers, CapAuto, CapDis

VARIABLES line, members, autos, disarmed, verdict,   \* the reference engine
          loaded,                                    \* which rule set that engine was made of
          patterns, taggers,                         \* the driver's rules, and its taggers that are on
          ent, slots, dis, bverdict,                 \* the kernel engine
          capped,    \* history: some call of the kernel engine met a limit
          diverged   \* history: one engine denied an event that the other tracked

ASSUME DiffAssumption ==
    /\ NoLine \notin Keys
    /\ {CapEnt, CapLines, CapMembers, CapAuto, CapDis, UsedCap} \subseteq Nat \ {0}
    /\ Ttps \subseteq Nat /\ Catalogue \in [Ops -> SUBSET Ttps]

\* The reference engine has the compiled rules themselves, the driver what a
\* C_SET_RULES message brought it of them.
Wire(rules) == Encode([p \in DOMAIN rules |-> [name |-> p, steps |-> rules[p]]])
Blob == [first |-> Wire(Patterns), later |-> Wire(Later)]

\* The counts of these rules fit their fields: 16 bits for the patterns and for the
\* steps of each, 8 for the TTPs of a step.
Carriable(rules) ==
    /\ Len(rules) < U16
    /\ \A p \in DOMAIN rules :
         /\ Len(rules[p]) < U16
         /\ \A i \in DOMAIN rules[p] :
              /\ Len(rules[p][i].ttps) < U8Count
              /\ rules[p][i].action.kind # "disarm" => rules[p][i].action.ops = {}

\* What the driver runs is what was compiled.
WireFaithful ==
    /\ PatternsOf(Load(<<>>, Blob.first)) = Patterns
    /\ PatternsOf(Create(Blob.later).rules) = Later

\* The compiler takes the later rules as it takes the first (DagRules).
ASSUME LaterAssumption ==
    /\ Later \in Seq(Seq(DagStep))
    /\ \A p \in DOMAIN Later : \A i, j \in DOMAIN Later[p] :
         Later[p][i].bit = Later[p][j].bit => i = j

First  == INSTANCE EngineDag
Second == INSTANCE EngineDag WITH Patterns <- Later
Kernel == INSTANCE EngineBounded

vars == <<line, members, autos, disarmed, verdict, loaded, patterns,
          taggers, ent, slots, dis, bverdict, capped, diverged>>
-----------------------------------------------------------------------------
\* The driver's first load finds no engine worth keeping.
Init == /\ First!Init
        /\ loaded = "first"
        /\ patterns = PatternsOf(Load(<<>>, Blob.first))
        /\ taggers = Taggers(Load(<<>>, Blob.first))
        /\ Kernel!Init
        /\ capped = FALSE
        /\ diverged = FALSE

\* Of an event, the techniques the loaded rules refer to but UsedCap leaves without
\* a tagger.
Untagged(e) ==
    LET rules == [p \in DOMAIN patterns |-> [name |-> p, steps |-> patterns[p]]]
    IN  (e.ttps \intersect Referenced(rules)) \ Used(rules)

\* The kernel engine, on e, is about to skip something for want of room: an
\* entity, a merge, a seed, or an entry of DISARMED.
MeetsLimit(e) ==
    LET t  == [ent |-> ent, slots |-> slots]
        t1 == Kernel!Resolve(t, e.actor)
        t2 == Kernel!Resolve(t1, e.object)
        u  == Kernel!Unify(t2, e.actor, e.object)
        a  == u.slots[u.ent[e.actor]].autos
        s  == Kernel!Seeded(a, e)
    IN  \/ ~ Kernel!CanResolve(t, e.actor)
        \/ ~ Kernel!CanResolve(t1, e.object)
        \/ t2.ent[e.actor] # t2.ent[e.object] /\ ~ Kernel!Fits(t2, t2.ent[e.actor], t2.ent[e.object])
        \/ Len(a) + Len(Kernel!AllSeeds(e)) > CapAuto
        \/ /\ \E act \in Kernel!Activated(s, e) : act.kind = "disarm"
           /\ e.actor \notin DOMAIN dis
           /\ Cardinality(DOMAIN dis) = CapDis

OnEvent(e) ==
    /\ \/ loaded = "first" /\ First!OnEvent(e)
       \/ loaded = "later" /\ Second!OnEvent(e)
    /\ Kernel!OnEvent(Tagged(taggers, e))
    /\ UNCHANGED <<loaded, taggers>>
    /\ capped' = (capped \/ (/\ e.op \notin Kernel!Disarmed(e.actor)
                             /\ MeetsLimit(Tagged(taggers, e)) \/ Untagged(e) # {}))
    /\ diverged' = (diverged \/ ~ (e.op \in disarmed[e.actor] <=> e.op \in Kernel!Disarmed(e.actor)))

\* Fault: the taggers stay those of the rules before.
LoadKeepsTaggers(b) ==
    /\ patterns' = PatternsOf(Create(b).rules)
    /\ ent' = <<>> /\ slots' = [s \in Kernel!Slots |-> Kernel!FreeSlot] /\ dis' = <<>>
    /\ UNCHANGED taggers

\* Load, of a blob that decodes: a new engine, its tables empty, and its taggers,
\* all under the lock that Feed takes.
LoadFresh(b) ==
    /\ patterns' = PatternsOf(Create(b).rules)
    /\ ent' = <<>> /\ slots' = [s \in Kernel!Slots |-> Kernel!FreeSlot] /\ dis' = <<>>
    /\ taggers' = Taggers(Create(b).rules)

\* C_SET_RULES with the later rules; the reference engine is made anew of them too.
\* What an actor was disarmed of is forgotten with the rest.
Reload ==
    /\ loaded = "first"
    /\ Create(Blob.later).ok
    /\ LoadFresh(Blob.later)
    /\ loaded' = "later"
    /\ line' = First!Empty.line /\ members' = First!Empty.members /\ autos' = Second!Empty.autos
    /\ disarmed' = [k \in Keys |-> {}]
    /\ capped' = FALSE /\ diverged' = FALSE
    /\ verdict' = Ignore /\ bverdict' = Ignore

\* What the driver's predicates can tell of an event.
Sensed == {e \in Event : e.ttps \subseteq Catalogue[e.op]}

Next == (\E e \in Sensed : OnEvent(e)) \/ Reload

Spec == Init /\ [][Next]_vars
-----------------------------------------------------------------------------
Known == {k \in Keys : line[k] # NoLine}

\* How many automata of storyline s / of slot t stand at mask d of pattern p.
RefCount(s, p, d) == Cardinality({i \in DOMAIN autos[s][p] : autos[s][p][i] = d})
KernelCount(t, p, d) ==
    Cardinality({i \in DOMAIN slots[t].autos : slots[t].autos[i] = [pid |-> p, done |-> d]})

(***************************************************************************)
(* As long as the kernel engine has met no limit it is the reference       *)
(* engine: same verdict, same partition of the entities, as many automata  *)
(* at every mask, the same actors disarmed of the same ops.                *)
(***************************************************************************)
SameUntilCapped ==
    ~ capped =>
      /\ bverdict = verdict
      /\ DOMAIN ent = Known
      /\ \A k, j \in Known : ent[k] = ent[j] <=> line[k] = line[j]
      /\ \A k \in Known, p \in DOMAIN patterns :
           /\ Cardinality({i \in DOMAIN slots[ent[k]].autos : slots[ent[k]].autos[i].pid = p})
                = Len(autos[line[k]][p])
           /\ \A i \in DOMAIN autos[line[k]][p] :
                LET d == autos[line[k]][p][i]
                IN  RefCount(line[k], p, d) = KernelCount(ent[k], p, d)
      /\ \A k \in Keys : Kernel!Disarmed(k) = disarmed[k]

(***************************************************************************)
(* What a limit costs is evidence, never invented evidence: until the two  *)
(* engines disagree on which event to deny, entities the kernel engine     *)
(* joined are joined in the reference engine, and each of its automata is  *)
(* matched there by one at least as advanced.                              *)
(***************************************************************************)
KernelKnowsNoMore ==
    ~ diverged =>
      /\ DOMAIN ent \subseteq Known
      /\ \A k, j \in DOMAIN ent : ent[k] = ent[j] => line[k] = line[j]
      /\ \A k \in DOMAIN ent : \A i \in DOMAIN slots[ent[k]].autos :
           LET a == slots[ent[k]].autos[i]
           IN  \E h \in DOMAIN autos[line[k]][a.pid] : a.done \subseteq autos[line[k]][a.pid][h]

(***************************************************************************)
(* The tables of the kernel engine alone: no array outgrows its capacity,  *)
(* through merges and through the several seeds of one call, and the slab  *)
(* of storylines leaks no slot (merge, advance, alloc_line, dis_insert).   *)
(***************************************************************************)
TablesSound == Kernel!WithinCaps /\ Kernel!SlabExact

(***************************************************************************)
(* README.md and the differential test of v0_0_2_bounded.rs state that the *)
(* kernel engine, failing open, never enforces more than the reference     *)
(* engine does on the same event.                                          *)
(***************************************************************************)
NeverStronger == bverdict <= verdict
=============================================================================
