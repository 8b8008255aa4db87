------------------------------ MODULE TaggersV1 ------------------------------
(***************************************************************************)
(* Which TTPs an event realises (v1/engine/src/rules.rs): every tagger     *)
(* whose conditions all hold, over the event and the writes its actor made *)
(* in the last second.  An attribute is a member of attrs, present or not; *)
(* the paths of images and the command line come as what the conditions    *)
(* tell apart: the base name, and whether the command inhibits recovery.   *)
(***************************************************************************)
EXTENDS Integers, SequencesExt

\* The window tag passes to record_write, in milliseconds.
RateWindow == 1000

\* RateState::record_write: the front goes while it is too old for this write.
RecordWrite(writes, ts, dir) ==
    LET all   == Append(writes, [ts |-> ts, dir |-> dir])
        fresh == {i \in DOMAIN all : ts - all[i].ts <= RateWindow}
        first == CHOOSE i \in fresh : \A j \in fresh : i <= j
    IN  SubSeq(all, first, Len(all))

DistinctDirs(writes) == Cardinality({writes[i].dir : i \in DOMAIN writes})

Has(e, a) == a \in DOMAIN e.attrs

\* eval_cond
Holds(c, e, writes) ==
    CASE c.kind = "op"                   -> e.op \in c.ops
      [] c.kind = "image_base_in"        -> Has(e, "image") /\ e.attrs["image"] \in c.names
      [] c.kind = "target_image_base"    -> Has(e, "target_image") /\ e.attrs["target_image"] \in c.names
      [] c.kind = "attr_true"            -> Has(e, c.attr) /\ e.attrs[c.attr] = "true"
      [] c.kind = "entropy_gt"           -> Has(e, "entropy") /\ e.attrs["entropy"] > c.than
      [] c.kind = "write_rate_ge"        -> Len(writes) >= c.least
      [] c.kind = "dir_spread_ge"        -> DistinctDirs(writes) >= c.least
      [] c.kind = "cmd_recovery_inhibit" -> Has(e, "cmd") /\ e.attrs["cmd"] = "inhibits recovery"

\* Writes count whether or not a tagger looks at them.
Accrue(writes, e) ==
    IF e.op = "write"
      THEN RecordWrite(writes, e.ts, IF Has(e, "dir") THEN e.attrs["dir"] ELSE "/")
      ELSE writes

\* RuleSet::tag
Tag(taggers, e, writes) ==
    LET now == Accrue(writes, e)
        confirmed == SelectSeq(taggers, LAMBDA t : \A i \in DOMAIN t.conds : Holds(t.conds[i], e, now))
    IN  [i \in DOMAIN confirmed |-> confirmed[i].emits]
-----------------------------------------------------------------------------
\* What the counters are meant to hold after a run of writes: those of the last
\* second, counted back from the latest.
LastSecond(ws) == SelectSeq(ws, LAMBDA w : ws[Len(ws)].ts - w.ts <= RateWindow)

Recorded(ws) == FoldLeft(LAMBDA m, w : RecordWrite(m, w.ts, w.dir), <<>>, ws)
=============================================================================
