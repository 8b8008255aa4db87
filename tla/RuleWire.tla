------------------------------ MODULE RuleWire ------------------------------
(***************************************************************************)
(* The wire form of a rule set, engine_core/src/wire.rs: a flat sequence   *)
(* of fields, in which counts tell how many items follow.  A field that    *)
(* the code writes as some bytes is one element here, and a name with its  *)
(* length is one too; a prefix of the fields stands for a truncated blob.  *)
(***************************************************************************)
EXTENDS Integers, Sequences, SequencesExt, FiniteSets

Magic == "ERD1"
U16 == 65536
U8Count == 256

\* encode_match and encode_action, behind the bit and the prerequisites.
EncodeAction(a) ==
    CASE a.kind = "none"   -> <<0>>
      [] a.kind = "block"  -> <<1>>
      [] a.kind = "disarm" -> <<2, a.ops>>

EncodeStep(s) ==
    <<s.bit, s.prereq, s.ops, Len(s.ttps) % U8Count>> \o s.ttps \o EncodeAction(s.action)

\* The parts behind what comes first: what a loop writes of a list.
Chain(first, parts) ==
    LET upTo[i \in 0 .. Len(parts)] == IF i = 0 THEN first ELSE upTo[i-1] \o parts[i]
    IN  upTo[Len(parts)]

EncodePattern(p) ==
    Chain(<<p.name, Len(p.steps) % U16>>, [i \in DOMAIN p.steps |-> EncodeStep(p.steps[i])])

\* encode_dag
Encode(rules) ==
    Chain(<<Magic, Len(rules) % U16>>, [p \in DOMAIN rules |-> EncodePattern(rules[p])])
-----------------------------------------------------------------------------
\* Reader: what was read and where the next field is, or Truncated.
Truncated == [next |-> 0, val |-> <<>>]

Take(b, pos) == IF pos \in DOMAIN b THEN [next |-> pos + 1, val |-> b[pos]] ELSE Truncated

\* Where a field can be looked for in b: nowhere, in it, or at its end.
Places(b) == 0 .. Len(b) + 1

\* n items one after the other; one tells of each place the item that is read there.
Repeat(one, n, pos) ==
    LET got[i \in 0 .. n] ==
          IF i = 0 THEN [next |-> pos, val |-> <<>>]
          ELSE LET x == one[got[i-1].next]
               IN  IF x.next = 0 THEN Truncated
                   ELSE [next |-> x.next, val |-> Append(got[i-1].val, x.val)]
    IN  got[n]

\* A count, and as many items.
Counted(one, b, pos) ==
    LET n == Take(b, pos)
    IN  IF n.next = 0 THEN Truncated ELSE Repeat(one, n.val, n.next)

\* Reader::action; an unknown kind is refused like the end of the blob.
DecodeAction(b, pos) ==
    LET k == Take(b, pos)
    IN  CASE k.next = 0 -> Truncated
          [] k.val = 0 -> [next |-> k.next, val |-> [kind |-> "none", ops |-> {}]]
          [] k.val = 1 -> [next |-> k.next, val |-> [kind |-> "block", ops |-> {}]]
          [] k.val = 2 -> LET m == Take(b, k.next)
                          IN  IF m.next = 0 THEN Truncated
                              ELSE [next |-> m.next, val |-> [kind |-> "disarm", ops |-> m.val]]
          [] OTHER -> Truncated

DecodeStep(b, pos) ==
    LET bit    == Take(b, pos)
        prereq == Take(b, bit.next)
        ops    == Take(b, prereq.next)
        ttps   == Counted([q \in Places(b) |-> Take(b, q)], b, ops.next)
        act    == DecodeAction(b, ttps.next)
    IN  IF act.next = 0 THEN Truncated
        ELSE [next |-> act.next,
              val |-> [bit |-> bit.val, prereq |-> prereq.val, ops |-> ops.val,
                       ttps |-> ttps.val, action |-> act.val]]

DecodePattern(b, pos) ==
    LET name  == Take(b, pos)
        steps == Counted([q \in Places(b) |-> DecodeStep(b, q)], b, name.next)
    IN  IF steps.next = 0 THEN Truncated
        ELSE [next |-> steps.next, val |-> [name |-> name.val, steps |-> steps.val]]

\* decode_dag: all of the blob or none of it.
Decode(b) ==
    LET magic    == Take(b, 1)
        patterns == Counted([q \in Places(b) |-> DecodePattern(b, q)], b, magic.next)
        ok == magic.next # 0 /\ magic.val = Magic /\ patterns.next = Len(b) + 1
    IN  [ok |-> ok, rules |-> IF ok THEN patterns.val ELSE <<>>]
=============================================================================
