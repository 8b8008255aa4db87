----------------------------- MODULE RuleFileV1 -----------------------------
(***************************************************************************)
(* The rule file of the legacy engine (v1/engine/src/rules.rs): directives *)
(* in order, each attached to what came before it, and one check at the    *)
(* end.  A directive is a record and a token a key with its value; the     *)
(* splitting of lines into them is left out.  A number that does not parse *)
(* is Bad.  Masks are those of a release build, where 1 << b wraps.        *)
(***************************************************************************)
EXTENDS PatternsV1

Bad == -1
Tactics == {"execution", "discovery", "defense_evasion", "credential_access", "impact", "staging"}
Scopes == {"same_storyline", "same_actor", "free"}
Gates == {"always", "pe_write"}

Flag(key) == [flag |-> TRUE, key |-> key]
KV(key, value) == [flag |-> FALSE, key |-> key, value |-> value]

\* 1 << b, as the bit of a u64 it sets.
MaskBit(b) == b % 64
-----------------------------------------------------------------------------
\* parse_step

NoStep ==
    [ok |-> TRUE, bit |-> NoBit, matched |-> FALSE, ttps |-> <<>>, op |-> "none", prereq |-> {},
     window |-> 0, enforceable |-> FALSE, optional |-> FALSE, block |-> FALSE, bindings |-> <<>>]

Failed(s) == [s EXCEPT !.ok = FALSE]

ReadFlag(s, key) ==
    CASE key = "enforceable" -> [s EXCEPT !.enforceable = TRUE]
      [] key = "optional"    -> [s EXCEPT !.optional = TRUE]
      [] key = "block"       -> [s EXCEPT !.block = TRUE]
      [] OTHER               -> Failed(s)

ReadMatch(s, v) ==
    CASE v.by \in {"ttp", "ttp_any"}   -> [s EXCEPT !.matched = TRUE, !.ttps = v.ttps]
      [] v.by = "op" /\ v.op \in Ops   -> [s EXCEPT !.matched = TRUE, !.ttps = <<>>, !.op = v.op]
      [] OTHER                         -> Failed(s)

\* Of a key given twice the later value stays, but prereq and bind add up.
ReadKey(s, key, v) ==
    CASE key = "bit"        -> IF v \in 0 .. 255 THEN [s EXCEPT !.bit = v] ELSE Failed(s)
      [] key = "seg_window" -> IF v # Bad THEN [s EXCEPT !.window = v] ELSE Failed(s)
      [] key = "prereq"     -> IF v \subseteq 0 .. 255
                                 THEN [s EXCEPT !.prereq = @ \union {MaskBit(b) : b \in v}]
                                 ELSE Failed(s)
      [] key = "match"      -> ReadMatch(s, v)
      [] key = "bind"       -> IF v.source \in {"object", "image", "actor"}
                                 THEN [s EXCEPT !.bindings = Append(@, v)] ELSE Failed(s)
      [] OTHER              -> Failed(s)

ReadToken(s, t) ==
    IF ~ s.ok THEN s
    ELSE IF t.flag THEN ReadFlag(s, t.key) ELSE ReadKey(s, t.key, t.value)

ReadStep(tokens) ==
    LET s == FoldLeft(ReadToken, NoStep, tokens)
    IN  [s EXCEPT !.ok = @ /\ s.bit # NoBit /\ s.matched]

StepOf(s) ==
    [bit |-> s.bit, ttps |-> s.ttps, op |-> s.op, prereq |-> s.prereq, window |-> s.window,
     enforceable |-> s.enforceable, bindings |-> s.bindings]
-----------------------------------------------------------------------------
\* parse_str

NoRules == [ok |-> TRUE, meta |-> <<>>, taggers |-> <<>>, patterns |-> <<>>]

ReadTtp(r, d) ==
    IF d.tactic \in Tactics /\ d.severity # Bad /\ d.rarity # Bad
      THEN [r EXCEPT !.meta = (d.id :> [tactic |-> d.tactic, severity |-> d.severity,
                                        rarity |-> d.rarity]) @@ @]
      ELSE Failed(r)

\* parse_conds; an op condition names ops only.
ReadTagger(r, d) ==
    IF \A i \in DOMAIN d.conds : d.conds[i].kind = "op" => d.conds[i].ops \subseteq Ops
      THEN [r EXCEPT !.taggers = Append(@, [emits |-> d.emits, conds |-> d.conds])]
      ELSE Failed(r)

ReadPattern(r, d) ==
    IF d.scope \in Scopes /\ d.gate \in Gates /\ d.alert # Bad /\ d.block # Bad
      THEN [r EXCEPT !.patterns = Append(@,
              [id |-> d.id, steps |-> <<>>, required |-> {}, scope |-> d.scope,
               blockAt |-> NoBit, alert |-> d.alert, block |-> d.block, gate |-> d.gate])]
      ELSE Failed(r)

\* A step belongs to the pattern last declared.
AddStep(r, d) ==
    LET s == ReadStep(d.tokens)
        n == Len(r.patterns)
        p == r.patterns[n]
    IN  IF n = 0 THEN Failed(r)
        ELSE IF ~ s.ok THEN Failed(r)
        ELSE [r EXCEPT !.patterns[n] =
                [p EXCEPT !.required = IF s.optional THEN @ ELSE @ \union {MaskBit(s.bit)},
                          !.blockAt = IF s.block THEN s.bit ELSE @,
                          !.steps = Append(@, StepOf(s))]]

ReadDirective(r, d) ==
    CASE ~ r.ok               -> r
      [] r.ok /\ d.kind = "ttp"     -> ReadTtp(r, d)
      [] r.ok /\ d.kind = "tagger"  -> ReadTagger(r, d)
      [] r.ok /\ d.kind = "pattern" -> ReadPattern(r, d)
      [] r.ok /\ d.kind = "step"    -> AddStep(r, d)
      [] OTHER                      -> Failed(r)

\* A prerequisite has to be a bit of the pattern; nothing else is checked.
PrereqsExist(p) ==
    \A s \in ToSet(p.steps) : s.prereq \subseteq {MaskBit(t.bit) : t \in ToSet(p.steps)}

ParseStr(file) ==
    LET r == FoldLeft(ReadDirective, NoRules, file)
    IN  [r EXCEPT !.ok = @ /\ \A p \in ToSet(r.patterns) : PrereqsExist(p)]

\* What advance and kill_chain_score unwrap: every bit they name is a step's, by
\* the number StepAt looks for (Pattern::step, "bit exists").
BitsExist(p) ==
    LET bits == {s.bit : s \in ToSet(p.steps)}
    IN  /\ p.required \subseteq bits
        /\ p.blockAt \in bits \union {NoBit}
        /\ \A s \in ToSet(p.steps) : s.prereq \subseteq bits
=============================================================================
