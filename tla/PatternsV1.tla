----------------------------- MODULE PatternsV1 -----------------------------
(***************************************************************************)
(* The vocabulary of the legacy engine, v1/engine: events, patterns, what  *)
(* one automaton of a pattern may commit, and the kill-chain score         *)
(* (event.rs, pattern.rs, the pure parts of lib.rs).                       *)
(*                                                                         *)
(* A node key stands for its uid.  Scores are in 1/300: the weights, the   *)
(* severities (whole numbers) and rarities (hundredths) come out whole,    *)
(* and so does the order bonus of patterns of up to seven steps.           *)
(***************************************************************************)
EXTENDS Integers, SequencesExt

CONSTANTS Keys,      \* nodes: processes, files, ...
          NoKey,     \* an event without an image
          Meta,      \* TTP -> [tactic, severity, rarity], for the TTPs a rule file lists
          Patterns   \* the patterns of the rule file, in its order

Ops == {"exec", "open", "read", "write", "connect", "inject", "create", "delete", "load", "dup"}

\* Op::is_causal
Causal == {"exec", "inject", "create", "dup", "write"}

\* VerdictKind
None == 0
Suspect == 1
Alert == 2
Block == 3

Unit == 300
NoBit == -1   \* block_at of a pattern without a chokepoint

\* What the rule file reader makes (RuleFileV1).  A StepMatch is its TTPs in the
\* order listed, or, without any, its op; a mask is the set of its bits.
Step ==
    [bit : Nat, ttps : Seq(STRING), op : Ops \union {"none"}, prereq : SUBSET Nat, window : Nat,
     enforceable : BOOLEAN,
     bindings : Seq([role : STRING, source : {"object", "image", "actor"}])]

Pattern ==
    [id : STRING, steps : Seq(Step), required : SUBSET Nat,
     scope : {"same_storyline", "same_actor", "free"}, blockAt : Nat \union {NoBit},
     alert : Int, block : Int, gate : {"always", "pe_write"}]

ASSUME PatternsAssumption == Patterns \in Seq(Pattern)

SlotMatches(s, e) ==
    IF s.ttps = <<>> THEN e.op = s.op ELSE \E t \in e.ttps : Contains(s.ttps, t)

\* RootGate::ok
GateOk(p, e) == p.gate = "pe_write" => e.op = "write" /\ e.pe

\* Pattern::step: the first step with that bit.
StepAt(p, b) == p.steps[SelectInSeq(p.steps, LAMBDA s : s.bit = b)]

RootSteps(p) == {s \in ToSet(p.steps) : s.prereq = {}}

Accepting(p, a) == p.required \subseteq a.done
-----------------------------------------------------------------------------
(* kill_chain_score *)

Unlisted == [tactic |-> "staging", severity |-> 1, rarity |-> 15]

\* RuleSet::meta; a step by op counts as an unlisted TTP does.
MetaOf(s) ==
    IF s.ttps = <<>> \/ s.ttps[1] \notin DOMAIN Meta THEN Unlisted ELSE Meta[s.ttps[1]]

\* order_observed: of the steps next to each other in time, the share that also
\* are in the order of their bits.
Before(a, b, c) == a.ts[b] < a.ts[c] \/ (a.ts[b] = a.ts[c] /\ b < c)

Adjacent(a) ==
    {bc \in a.done \X a.done :
        /\ Before(a, bc[1], bc[2])
        /\ ~ \E d \in a.done : Before(a, bc[1], d) /\ Before(a, d, bc[2])}

OrderObserved(a) ==
    IF Cardinality(a.done) <= 1 THEN Unit
    ELSE (Unit * Cardinality({bc \in Adjacent(a) : bc[1] < bc[2]})) \div Cardinality(Adjacent(a))

Score(p, a) ==
    LET meta(b) == MetaOf(StepAt(p, b))
    IN  2 * Unit * Cardinality({meta(b).tactic : b \in a.done})
          + 90 * MapThenSumSet(LAMBDA b : meta(b).severity, a.done)
          + OrderObserved(a)
          + 6 * MapThenSumSet(LAMBDA b : meta(b).rarity, a.done)
-----------------------------------------------------------------------------
(* try_commit *)

\* The node a binding of e names; NoKey is the image of an event without one.
NodeOf(source, e) ==
    CASE source = "object" -> e.object
      [] source = "actor"  -> e.actor
      [] source = "image"  -> e.image

\* u64::saturating_sub
Monus(x, y) == IF x > y THEN x - y ELSE 0

InWindow(a, s, e) ==
    \A b \in s.prereq : Monus(e.ts, a.ts[b]) <= s.window \/
                        \E c \in s.prereq : a.ts[c] > a.ts[b]

ScopeOk(p, a, e) ==
    p.scope = "same_actor" => \E r \in DOMAIN a.bound : a.bound[r] = e.actor

BindingsOk(a, s, e) ==
    \A i \in DOMAIN s.bindings :
        LET b == s.bindings[i]
        IN  /\ NodeOf(b.source, e) # NoKey
            /\ b.role \in DOMAIN a.bound => a.bound[b.role] = NodeOf(b.source, e)

CanCommit(p, a, s, e) ==
    /\ s.bit \notin a.done
    /\ s.prereq \subseteq a.done
    /\ InWindow(a, s, e)
    /\ ScopeOk(p, a, e)
    /\ BindingsOk(a, s, e)

\* COMMIT_STEP; of two bindings of one role the later stays.
Commit(a, s, e) ==
    [done  |-> a.done \union {s.bit},
     ts    |-> [b \in DOMAIN a.ts \union {s.bit} |-> IF b = s.bit THEN e.ts ELSE a.ts[b]],
     bound |-> FoldLeft(LAMBDA m, b : (b.role :> NodeOf(b.source, e)) @@ m, a.bound, s.bindings),
     armed |-> a.armed]
-----------------------------------------------------------------------------
(* rescore_and_emit *)

EnforceableOp(s) ==
    IF s.ttps = <<>> THEN s.op
    ELSE CASE s.ttps[1] = "T1490" -> "exec"
           [] s.ttps[1] = "T1003" -> "read"
           [] OTHER               -> "write"

Emitted(p, a, b) ==
    LET score == Score(p, a)
    IN  IF /\ Accepting(p, a) /\ score >= p.block
           /\ p.blockAt = b /\ StepAt(p, b).enforceable
          THEN Block
        ELSE IF score >= p.alert THEN Alert
        ELSE IF Accepting(p, a) THEN Suspect
        ELSE None

Pending(p, a) == SelectSeq(p.steps, LAMBDA s : s.enforceable /\ s.bit \notin a.done)

\* The automaton is sure enough to have the kernel deny what is still to come.
Arms(p, a) ==
    /\ ~ Accepting(p, a)
    /\ ~ a.armed
    /\ Pending(p, a) # <<>>
    /\ Score(p, a) >= p.block
=============================================================================
