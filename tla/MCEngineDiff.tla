---------------------------- MODULE MCEngineDiff ----------------------------
(***************************************************************************)
(* Small tables, so that three entities and three automata meet every      *)
(* limit but that of LINE, whose cells the slots run out before; the       *)
(* first pattern has two roots and reports, blocks, then disarms.  A spawn *)
(* may carry a tag that these rules speak of, an injection one that they   *)
(* do not.  The later rules speak of both, which is one more than UsedCap. *)
(***************************************************************************)
EXTENDS EngineDiff

CONSTANTS exec, inject

KeySymmetry == Permutations(Keys)

MCStep(ops, ttps, bit, prereq, action) ==
    [ops |-> ops, ttps |-> ttps, bit |-> bit, prereq |-> prereq, action |-> action]

Shadow ==
    << << MCStep({exec}, <<1059>>, 0, {}, [kind |-> "none", ops |-> {}]),
          MCStep({}, <<1059, 1059>>, 63, {}, [kind |-> "block", ops |-> {}]),
          MCStep({inject}, <<>>, 1, {0}, [kind |-> "disarm", ops |-> {inject}]) >> >>

Injected ==
    << << MCStep({}, <<1055>>, 0, {}, [kind |-> "none", ops |-> {}]),
          MCStep({}, <<1059>>, 1, {0}, [kind |-> "disarm", ops |-> {inject}]) >> >>

MCPatterns == Shadow
MCLater == Injected

MCCatalogue == [op \in Ops |-> IF op = exec THEN {1059} ELSE {1055}]

\* What the theorems about EngineDiff suppose of the rules holds of these.
ASSUME RulesCarried == Carriable(Patterns) /\ Carriable(Later) /\ WireFaithful

\* A blob cut short, or with something behind it, loads nothing.
ASSUME WholeBlobsOnly ==
    \A b \in {Blob.first, Blob.later} :
      /\ Create(b).ok
      /\ \A n \in 0 .. Len(b) - 1 : ~ Create(SubSeq(b, 1, n)).ok
      /\ ~ Create(Append(b, 0)).ok

\* No rules at all are a rule set when they were encoded; no bytes at all are none,
\* and no bytes are what the driver makes its first engine of (Engine.cpp 166).
ASSUME NoBytesNoEngine == Create(Encode(<<>>)).ok /\ ~ Create(<<>>).ok

\* The count of a step's TTPs wraps, repeats counted: the compiler takes a line that
\* names one TTP 256 times, and what encode_dag makes of it does not decode.
ASSUME CountWraps ==
    LET many == MCStep({}, [i \in 1 .. U8Count |-> 1059], 0, {}, [kind |-> "none", ops |-> {}])
    IN  ~ Create(Wire(<< <<many>> >>)).ok

\* Of the later rules one TTP keeps its tagger: the one with the lower number.
ASSUME CapBites == Used(Create(Blob.later).rules) = {1055}
=============================================================================
