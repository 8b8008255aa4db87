---------------------------- MODULE LinearRules ----------------------------
(***************************************************************************)
(* The linear rules of the first engines: compile of engine_rules, whose   *)
(* files are those of module RuleFile with steps that have no bit and no   *)
(* prerequisites, and their wire form, encode and decode of wire.rs.       *)
(***************************************************************************)
EXTENDS RuleFile, RuleWire

\* parse_step knows no bit= and no prereq=.
GoodLinearStep(l) ==
    /\ l.bit = Unset /\ l.prereq = {}
    /\ l.action.kind = "disarm" => l.action.ops # {}

LinearStepOf(l) == [ops |-> l.ops, ttps |-> l.ttps, action |-> l.action]

LinearStepLine(c, l) ==
    IF c.open = <<>> \/ ~ GoodLinearStep(l) THEN Refuse(c)
    ELSE [c EXCEPT !.open[1].steps = Append(@, LinearStepOf(l))]

\* All that is asked of a pattern is that it has a step.
LinearEndLine(c) ==
    IF c.open = <<>> \/ c.open[1].steps = <<>> THEN Refuse(c)
    ELSE [c EXCEPT !.done = Append(@, c.open[1]), !.open = <<>>]

ReadLinear(c, l) ==
    CASE ~ c.ok           -> c
      [] l.kw = "pattern" -> PatternLine(c, l)
      [] l.kw = "step"    -> LinearStepLine(c, l)
      [] l.kw = "end"     -> LinearEndLine(c)
      [] OTHER            -> Refuse(c)

\* compile: RuleSet, or that there is none.
CompileLinear(file) ==
    LET c == FoldLeft(ReadLinear, Start, file)
        ok == c.ok /\ c.open = <<>>
    IN  [ok |-> ok, rules |-> IF ok THEN c.done ELSE <<>>]
-----------------------------------------------------------------------------
LinearMagic == "ERL1"

EncodeLinearStep(s) ==
    <<s.ops, Len(s.ttps) % U8Count>> \o s.ttps \o EncodeAction(s.action)

\* encode
EncodeLinear(rules) ==
    Chain(<<LinearMagic, Len(rules) % U16>>,
          [p \in DOMAIN rules |->
             Chain(<<rules[p].name, Len(rules[p].steps) % U16>>,
                   [i \in DOMAIN rules[p].steps |-> EncodeLinearStep(rules[p].steps[i])])])

DecodeLinearStep(b, pos) ==
    LET ops  == Take(b, pos)
        ttps == Counted([q \in Places(b) |-> Take(b, q)], b, ops.next)
        act  == DecodeAction(b, ttps.next)
    IN  IF act.next = 0 THEN Truncated
        ELSE [next |-> act.next,
              val  |-> [ops |-> ops.val, ttps |-> ttps.val, action |-> act.val]]

DecodeLinearPattern(b, pos) ==
    LET name  == Take(b, pos)
        steps == Counted([q \in Places(b) |-> DecodeLinearStep(b, q)], b, name.next)
    IN  IF steps.next = 0 THEN Truncated
        ELSE [next |-> steps.next, val |-> [name |-> name.val, steps |-> steps.val]]

\* decode
DecodeLinear(b) ==
    LET magic    == Take(b, 1)
        patterns == Counted([q \in Places(b) |-> DecodeLinearPattern(b, q)], b, magic.next)
        ok == magic.next # 0 /\ magic.val = LinearMagic /\ patterns.next = Len(b) + 1
    IN  [ok |-> ok, rules |-> IF ok THEN patterns.val ELSE <<>>]
=============================================================================
