------------------------------ MODULE RuleFile ------------------------------
(***************************************************************************)
(* The compiler of rule files, engine_rules: compile_dag reads a file line *)
(* by line and accepts it whole or not at all.  A line is its keyword and  *)
(* the values of its tokens; blank lines and comments are left out.        *)
(***************************************************************************)
EXTENDS Rules, Sequences, SequencesExt

CONSTANT Names   \* pattern names

Unset == -1      \* a step line without bit=
U8 == 0 .. 255   \* what a bit or a prerequisite is parsed as

Line == [kw : {"pattern"}, name : Names]
        \union [kw : {"step"}, bit : U8 \union {Unset}, prereq : SUBSET U8,
                ops : SUBSET Ops, ttps : Seq(Ttps), action : Actions]
        \union [kw : {"end", "other"}]
-----------------------------------------------------------------------------
\* parse_dag_step, parse_action
GoodStep(l) ==
    /\ l.bit \in 0 .. 63
    /\ l.prereq \subseteq 0 .. 63
    /\ l.action.kind = "disarm" => l.action.ops # {}

StepOf(l) == [ops |-> l.ops, ttps |-> l.ttps, bit |-> l.bit,
              prereq |-> l.prereq, action |-> l.action]

\* A step whose prerequisites were reached is reached.
Visit(step, reached) ==
    IF step.prereq \subseteq reached THEN reached \union {step.bit} ELSE reached

\* One pass over the steps: those that are reached count at once for the steps
\* after them.
Sweep(steps, reached) ==
    LET upTo[i \in 0 .. Len(steps)] ==
          IF i = 0 THEN reached ELSE Visit(steps[i], upTo[i-1])
    IN  upTo[Len(steps)]

\* The passes go on until one reaches nothing new, at most one for each step.
Reached(steps) ==
    LET after[n \in 0 .. Len(steps)] ==
          IF n = 0 THEN {} ELSE Sweep(steps, after[n-1])
    IN  after[Len(steps)]

Defined(steps) == {steps[i].bit : i \in DOMAIN steps}

\* Fault: a root step and defined prerequisites are taken for enough.
ValidWhenDefined(steps) ==
    /\ \E i \in DOMAIN steps : steps[i].prereq = {}
    /\ \A i \in DOMAIN steps : steps[i].prereq \subseteq Defined(steps)

\* validate_dag, when the pattern ends.
Valid(steps) ==
    /\ \E i \in DOMAIN steps : steps[i].prereq = {}
    /\ \A i \in DOMAIN steps : steps[i].prereq \subseteq Defined(steps)
    /\ Reached(steps) = Defined(steps)
-----------------------------------------------------------------------------
\* The compiler: the patterns that are closed, the one that is open, if any, and
\* whether a line was refused; after that no line is read.
Start == [done |-> <<>>, open |-> <<>>, ok |-> TRUE]

Refuse(c) == [c EXCEPT !.ok = FALSE]

PatternLine(c, l) ==
    IF c.open # <<>> \/ \E i \in DOMAIN c.done : c.done[i].name = l.name
      THEN Refuse(c)
      ELSE [c EXCEPT !.open = <<[name |-> l.name, steps |-> <<>>]>>]

StepLine(c, l) ==
    IF c.open = <<>> \/ ~ GoodStep(l) \/ l.bit \in Defined(c.open[1].steps)
      THEN Refuse(c)
      ELSE [c EXCEPT !.open[1].steps = Append(@, StepOf(l))]

EndLine(c) ==
    IF c.open = <<>> \/ ~ Valid(c.open[1].steps)
      THEN Refuse(c)
      ELSE [c EXCEPT !.done = Append(@, c.open[1]), !.open = <<>>]

Read(c, l) ==
    CASE ~ c.ok             -> c
      [] l.kw = "pattern"   -> PatternLine(c, l)
      [] l.kw = "step"      -> StepLine(c, l)
      [] l.kw = "end"       -> EndLine(c)
      [] OTHER              -> Refuse(c)

Compiled(file) ==
    LET upTo[n \in 0 .. Len(file)] ==
          IF n = 0 THEN Start ELSE Read(upTo[n-1], file[n])
    IN  upTo[Len(file)]

Accepted(file) == Compiled(file).ok /\ Compiled(file).open = <<>>

\* DagRuleSet: what the engines are given of an accepted file.
RulesOf(file) ==
    LET compiled == Compiled(file).done
    IN  [p \in DOMAIN compiled |-> compiled[p].steps]
=============================================================================
