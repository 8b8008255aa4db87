---------------------------- MODULE MCEngineDag ----------------------------
(***************************************************************************)
(* Two patterns: one joins two parallel steps, which one event may commit  *)
(* together, into a third that disarms; the other blocks, then disarms,    *)
(* each on an op and tag of its own.  The first draft of the rule file     *)
(* wrote the second pattern with a cycle behind its root.                  *)
(***************************************************************************)
EXTENDS CompiledEngine, TLC

CONSTANTS MaxSteps,  \* bound: how many steps the patterns compared below have
          MaxLines   \* bound: how many lines the files compared below have

CONSTANTS k1, k2, k3, read, write, t1, t2, ransom, dropper

KeySymmetry == Permutations(Keys)

NoAction  == [kind |-> "none", ops |-> {}]
BlockIt   == [kind |-> "block", ops |-> {}]
Take(ops) == [kind |-> "disarm", ops |-> ops]

PatternOf(name) == [kw |-> "pattern", name |-> name]
End == [kw |-> "end"]
MCStep(ops, ttps, bit, prereq, action) ==
    [kw |-> "step", ops |-> ops, ttps |-> ttps, bit |-> bit, prereq |-> prereq, action |-> action]

Ransom ==
    << PatternOf(ransom),
         MCStep({read}, <<t1>>, 0, {}, NoAction),
         MCStep({}, <<t2>>, 1, {}, NoAction),
         MCStep({write}, <<>>, 2, {0, 1}, Take({write})),
       End >>

Drafts ==
    << Ransom \o << PatternOf(dropper),
                     MCStep({write}, <<t1>>, 0, {}, BlockIt),
                     MCStep({read}, <<>>, 1, {0, 2}, Take({read})),
                     MCStep({write}, <<>>, 2, {1}, NoAction),
                   End >>,
       Ransom \o << PatternOf(dropper),
                     MCStep({write}, <<t1>>, 0, {}, BlockIt),
                     MCStep({read}, <<>>, 1, {0}, Take({read})),
                   End >> >>

\* The first draft that compiles is the one that is loaded.
Loaded ==
    RulesOf(Drafts[CHOOSE d \in DOMAIN Drafts :
                     Accepted(Drafts[d]) /\ \A c \in 1 .. d - 1 : ~ Accepted(Drafts[c])])

MCPatterns == Loaded
-----------------------------------------------------------------------------
StepLineOf(bit, prereq) ==
    [kw |-> "step", bit |-> bit, prereq |-> prereq, ops |-> {}, ttps |-> <<>>,
     action |-> [kind |-> "none", ops |-> {}]]

\* Step lines of one pattern; the highest bit may be left undefined.
SomeSteps ==
    BoundedSeq({StepLineOf(b, q) : b \in 0 .. MaxSteps - 1, q \in SUBSET (0 .. MaxSteps - 1)},
               MaxSteps)

\* Files of good lines: each step a root whose bit is the number of its line.
SomeFiles ==
    {[i \in DOMAIN f |-> IF f[i] = "step" THEN StepLineOf(i, {})
                         ELSE IF f[i] \in Names THEN [kw |-> "pattern", name |-> f[i]]
                         ELSE [kw |-> f[i]]] :
        f \in BoundedSeq({"step", "end", "other"} \union Names, MaxLines)}

(***************************************************************************)
(* The passes of validate_dag reach every step exactly if the steps can be *)
(* committed in some order, whatever the order they are written in; and    *)
(* compile_dag accepts a file exactly if it is well formed.                *)
(***************************************************************************)
ASSUME ReachedExactly ==
    \A ls \in SomeSteps :
        Distinct(ls) => (Reached(ls) = Defined(ls) <=> Orderable(ls))

ASSUME AcceptedExactly == \A f \in SomeFiles : Accepted(f) <=> WellFormed(f)
=============================================================================
