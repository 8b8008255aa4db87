----------------------------- MODULE EngineHost -----------------------------
(***************************************************************************)
(* What stands between the wire and the kernel engine: the C interface of  *)
(* engine_core (ffi.rs) and the driver's Engine::Instance (Engine.cpp),    *)
(* which makes an engine of a blob and tags the events it feeds to it with *)
(* the techniques that the loaded rules speak of.                          *)
(***************************************************************************)
EXTENDS RuleWire

CONSTANTS Catalogue,  \* op -> the TTPs the driver has a tagger for, each a number
          UsedCap     \* how many TTPs of a rule set RebuildTaggers_ takes in

\* engine_create: no engine is made of a blob that does not decode.
Create(b) == Decode(b)

\* Load: the engine before stays when there is none to take its place.
Load(before, b) == IF Create(b).ok THEN Create(b).rules ELSE before

\* DagRuleSet::referenced_ttps
Referenced(rules) ==
    UNION {UNION {ToSet(rules[p].steps[j].ttps) : j \in DOMAIN rules[p].steps} : p \in DOMAIN rules}

\* engine_referenced_ttps writes them in ascending order, as far as the buffer goes.
Used(rules) ==
    {t \in Referenced(rules) : Cardinality({u \in Referenced(rules) : u < t}) < UsedCap}

\* RebuildTaggers_: for each op, the taggers that are on.
Taggers(rules) == [op \in DOMAIN Catalogue |-> Catalogue[op] \intersect Used(rules)]

\* Feed: of the TTPs whose predicate holds of e, those whose tagger is on.
Tagged(on, e) == [e EXCEPT !.ttps = @ \intersect on[e.op]]

\* The patterns the engine made of those rules runs.
PatternsOf(rules) == [p \in DOMAIN rules |-> rules[p].steps]
=============================================================================
