----------------------------- MODULE MCEngineV1 -----------------------------
(***************************************************************************)
(* Two processes and two files, under a rule file with the patterns of     *)
(* rules/builtin.rules shortened to the steps that differ in kind; the     *)
(* patterns, the metadata and the TTPs of the events are what the rule     *)
(* file and its taggers make of it.                                        *)
(***************************************************************************)
EXTENDS EngineV1, RuleFileV1, TaggersV1, TLC

CONSTANTS Procs, Files

KeySymmetry == Permutations(Procs) \union Permutations(Files)

TtpLine(id, tactic, severity, rarity) ==
    [kind |-> "ttp", id |-> id, tactic |-> tactic, severity |-> severity, rarity |-> rarity]
TaggerLine(id, conds) == [kind |-> "tagger", emits |-> id, conds |-> conds]
PatternLine(id, gate, alert, block) ==
    [kind |-> "pattern", id |-> id, scope |-> "same_storyline", gate |-> gate,
     alert |-> alert, block |-> block]
StepLine(tokens) == [kind |-> "step", tokens |-> tokens]
Match(ttp) == KV("match", [by |-> "ttp", ttps |-> <<ttp>>])
MatchOp(op) == KV("match", [by |-> "op", op |-> op])
Bind(source) == KV("bind", [role |-> "dropped", source |-> source])

\* Run, inhibit recovery, encrypt: sure enough to arm after two steps.  Write an
\* executable, run that file.
RuleFile ==
    << TtpLine("T1059", "execution", 3, 10),
       TtpLine("T1490", "defense_evasion", 7, 80),
       TtpLine("T1486", "impact", 9, 90),
       TaggerLine("T1059", <<[kind |-> "op", ops |-> {"load"}]>>),
       TaggerLine("T1490", <<[kind |-> "op", ops |-> {"delete"}], [kind |-> "cmd_recovery_inhibit"]>>),
       TaggerLine("T1486", <<[kind |-> "op", ops |-> {"write"}], [kind |-> "entropy_gt", than |-> 85]>>),
       PatternLine("ransom", "always", 1800, 2800),
       StepLine(<<KV("bit", 0), Match("T1059"), KV("seg_window", 1)>>),
       StepLine(<<KV("bit", 1), Match("T1490"), KV("prereq", {0}), KV("seg_window", 1), Flag("enforceable")>>),
       StepLine(<<KV("bit", 2), Match("T1486"), KV("prereq", {1}), KV("seg_window", 1),
                  Flag("enforceable"), Flag("block")>>),
       PatternLine("dropper", "pe_write", 1100, 1200),
       StepLine(<<KV("bit", 0), MatchOp("write"), KV("seg_window", 1), Bind("object")>>),
       StepLine(<<KV("bit", 1), MatchOp("exec"), KV("prereq", {0}), KV("seg_window", 1), Bind("image"),
                  Flag("enforceable"), Flag("block")>>) >>

Loaded == ParseStr(RuleFile)
MCMeta == Loaded.meta
MCPatterns == Loaded.patterns

Input(actor, op, object, image, attrs, pe) ==
    [actor |-> actor, op |-> op, object |-> object, image |-> image, pe |-> pe,
     ttps |-> ToSet(Tag(Loaded.taggers, [op |-> op, ts |-> 0, attrs |-> attrs], <<>>))]

WhatHappens ==
    UNION { { Input(p, "load", f, NoKey, <<>>, FALSE),
              Input(p, "delete", f, NoKey, [cmd |-> "inhibits recovery"], FALSE),
              Input(p, "write", f, NoKey, [entropy |-> 99], FALSE),
              Input(p, "write", f, NoKey, [entropy |-> 50], TRUE) } : p \in Procs, f \in Files }
    \union UNION { { Input(p, "exec", q, f, <<>>, FALSE),
                     Input(p, "inject", q, NoKey, <<>>, FALSE) } :
                       p \in Procs, q \in Procs, f \in Files }
MCInputs == {i \in WhatHappens : i.actor # i.object}
-----------------------------------------------------------------------------
(* The rule file reader, on every short file *)

SomeSteps ==
    {StepLine(<<KV("bit", b), Match("T1059"), KV("prereq", q)>> \o t) :
        b \in {0, 1}, q \in SUBSET {0, 1},
        t \in {<<>>, <<Flag("block")>>, <<Flag("optional")>>}}
SomeFiles ==
    {<<PatternLine("p", "always", 1, 1)>> \o ss : ss \in UNION {[1 .. n -> SomeSteps] : n \in 0 .. 2}}

\* In a file that is accepted, with bits below 64, no bit is looked up in vain.
ASSUME \A file \in SomeFiles : ParseStr(file).ok => \A p \in ToSet(ParseStr(file).patterns) : BitsExist(p)

\* A bit of 64 or more is accepted too, and then one is: its mask is bit % 64.
ASSUME LET wide == ParseStr(<<PatternLine("p", "always", 1, 1),
                              StepLine(<<KV("bit", 64), Match("T1059")>>)>>)
       IN  wide.ok /\ ~ BitsExist(wide.patterns[1])

\* What is refused: a step of no pattern, without a bit or a match, with an unknown
\* key, a prerequisite that is no step's; a word outside the closed sets.
ASSUME \A file \in {
          <<StepLine(<<KV("bit", 0), Match("T1059")>>)>>,
          <<PatternLine("p", "always", 1, 1), StepLine(<<Match("T1059")>>)>>,
          <<PatternLine("p", "always", 1, 1), StepLine(<<KV("bit", 0)>>)>>,
          <<PatternLine("p", "always", 1, 1), StepLine(<<KV("bit", 0), Match("T1059"), KV("ttl", 1)>>)>>,
          <<PatternLine("p", "always", 1, 1), StepLine(<<KV("bit", 0), Match("T1059"), KV("prereq", {1})>>)>>,
          <<PatternLine("p", "sometimes", 1, 1)>>,
          <<TtpLine("T1059", "haste", 1, 1)>> } : ~ ParseStr(file).ok
-----------------------------------------------------------------------------
(* The write counters, on every short run of writes *)

Times == {0, 600, 1000, 1001, 1700}
Runs == UNION {[1 .. n -> [ts : Times, dir : {"a", "b"}]] : n \in 1 .. 4}
InOrder(ws) == \A i \in 1 .. Len(ws) - 1 : ws[i].ts <= ws[i + 1].ts

\* Of writes in the order of their times, the counters hold those of the last second.
ASSUME \A ws \in Runs : InOrder(ws) => Recorded(ws) = LastSecond(ws)

\* Out of that order, an old write behind a newer one stays counted.
ASSUME \E ws \in Runs : Len(Recorded(ws)) > Len(LastSecond(ws))
=============================================================================
