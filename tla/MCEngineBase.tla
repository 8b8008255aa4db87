---------------------------- MODULE MCEngineBase ----------------------------
(***************************************************************************)
(* Four entities, so that two storylines of two can merge; one pattern     *)
(* that one event both seeds and advances, and that disarms twice.  It     *)
(* comes out of a rule file, through the wire.                             *)
(***************************************************************************)
EXTENDS EngineBase, LinearRules, TLC

CONSTANTS read, write

KeySymmetry == Permutations(Keys)

PatternOf(name) == [kw |-> "pattern", name |-> name]
StepOn(ops, action) ==
    [kw |-> "step", bit |-> Unset, prereq |-> {}, ops |-> ops, ttps |-> <<>>, action |-> action]
End == [kw |-> "end"]
Nothing == [kind |-> "none", ops |-> {}]

Theft ==
    << PatternOf("theft"),
       StepOn({read}, Nothing),
       StepOn({}, [kind |-> "block", ops |-> {}]),
       StepOn({write}, [kind |-> "disarm", ops |-> {write}]),
       StepOn({read}, [kind |-> "disarm", ops |-> {read}]),
       End >>

TheftRules == CompileLinear(Theft)

MCStep(ops, action) == [ops |-> ops, ttps |-> <<>>, action |-> action]

MCPatterns ==
    << << MCStep({read}, Nothing),
          MCStep({}, [kind |-> "block", ops |-> {}]),
          MCStep({write}, [kind |-> "disarm", ops |-> {write}]),
          MCStep({read}, [kind |-> "disarm", ops |-> {read}]) >> >>

\* The patterns above are those of the file, compiled and loaded.
ASSUME PatternsAreTheFile ==
    LET loaded == DecodeLinear(EncodeLinear(TheftRules.rules))
    IN  loaded.ok /\ MCPatterns = [p \in DOMAIN loaded.rules |-> loaded.rules[p].steps]
-----------------------------------------------------------------------------
SomeFiles ==
    UNION {[1 .. n -> {PatternOf("a"), PatternOf("b"), StepOn({read}, Nothing),
                       [StepOn({read}, Nothing) EXCEPT !.bit = 0], End, [kw |-> "other"]}] :
             n \in 0 .. 4}

\* What compile accepts and the engines index: no pattern is empty (LinearAssumption),
\* no name is used twice, and the wire gives back what was written, all of it or none.
ASSUME LinearFilesSound ==
    \A file \in SomeFiles :
        LET c == CompileLinear(file)
            b == EncodeLinear(c.rules)
        IN  c.ok =>
              /\ \A p \in DOMAIN c.rules : c.rules[p].steps # <<>>
              /\ \A p, q \in DOMAIN c.rules : c.rules[p].name = c.rules[q].name => p = q
              /\ DecodeLinear(b) = c
              /\ \A n \in 0 .. Len(b) - 1 : ~ DecodeLinear(SubSeq(b, 1, n)).ok
              /\ ~ DecodeLinear(Append(b, 0)).ok

\* The two wire forms are never taken for each other.
ASSUME MagicsApart == ~ Decode(EncodeLinear(TheftRules.rules)).ok /\ ~ DecodeLinear(Encode(<<>>)).ok
=============================================================================
