------------------------------- MODULE RingBuf -------------------------------
(***************************************************************************)
(* The lock-free ring that carries frames from the driver's callbacks      *)
(* (many producers) to the service (one consumer): ringbuf.rs, and Ring.cpp*)
(* which must match it byte for byte.                                      *)
(*                                                                         *)
(* The data region is a circle of 8-byte words.  A word is looked at in    *)
(* two ways: as the first word of a frame it holds TotalSize, the commit   *)
(* flag, and Version; in the middle of a frame it holds contents.  Both    *)
(* views are of the same bytes, which is what the commit protocol has to   *)
(* cope with.  Positions and lengths count words; positions are the code's *)
(* u64 cursors and do not wrap within the bound MaxHead.                   *)
(*                                                                         *)
(* Each step is one access to shared memory.  Interleaving them is enough: *)
(* every pair the protocol relies on is a release store and an acquire     *)
(* load.  The one place that needs more is module Doorbell.                *)
(***************************************************************************)
EXTENDS Integers, Sequences

CONSTANTS Producers,  \* threads running driver callbacks
          DataSize,   \* words in the data region
          Sizes,      \* lengths of the frames published, header word included
          Contents,   \* a word of contents whose first four bytes are read as TotalSize
          MaxHead     \* bound: nobody starts to publish once head is this far

ASSUME RingAssumption ==
    /\ DataSize \in Nat \ {0}
    /\ Sizes \subseteq 1 .. DataSize
    /\ Contents \in Nat \ {0}
    /\ MaxHead \in Nat

VARIABLES mem,      \* the data region, word by word
          head,     \* the authoritative head, private to the producers
          mirror,   \* head_mirror
          tail,     \* the published tail
          prod,     \* producer -> its locals in publish
          cons,     \* the consumer's locals; its private tail is cons.tail
          claims,   \* history: the reservations not released, in order
          sent,     \* history: producer -> how many reservations it won
          out,      \* history: the item the consumer copied last
          stale     \* history: a place was reserved whose first word did not read 0

vars == <<mem, head, mirror, tail, prod, cons, claims, sent, out, stale>>

Pad  == 0                     \* PAD_VERSION
Wire == 1                     \* any version that is not PAD_VERSION
None == <<>>
Torn == <<"torn">>
Item(p, n) == <<p, n>>        \* the n-th frame of p that found room

Word(total, version, item) == [total |-> total, version |-> version, item |-> item]
At(pos) == pos % DataSize
-----------------------------------------------------------------------------
\* publish: a frame that does not fit before the end takes the rest as a pad.
Wraps(h, len) == DataSize - At(h) < len
PadLen(h, len) == IF Wraps(h, len) THEN DataSize - At(h) ELSE 0
Need(h, len) == PadLen(h, len) + len

\* budget: telemetry stops at 7/8, enforcement may use the whole ring.
Budget(enforce) == IF enforce THEN DataSize ELSE (DataSize * 7) \div 8

\* Where the frame of p starts, once p has read head or won it.
Start(p) == prod[p].head + PadLen(prod[p].head, prod[p].len)

Idle == [pc |-> "idle", len |-> 0, enforce |-> FALSE, head |-> 0]
Return(p) == prod' = [prod EXCEPT ![p] = Idle]
Goto(p, pc) == prod' = [prod EXCEPT ![p].pc = pc]
Write(pos, word) == mem' = [mem EXCEPT ![At(pos)] = word]
Settled(pos, status) ==
    [i \in DOMAIN claims |->
        IF claims[i].at = pos THEN [claims[i] EXCEPT !.status = status] ELSE claims[i]]
-----------------------------------------------------------------------------
Init ==
    /\ mem = [w \in 0 .. DataSize - 1 |-> Word(0, Pad, None)]
    /\ head = 0 /\ mirror = 0 /\ tail = 0
    /\ prod = [p \in Producers |-> Idle]
    /\ cons = [pc |-> "next", tail |-> 0, len |-> 0]
    /\ claims = <<>>
    /\ sent = [p \in Producers |-> 0]
    /\ out = None
    /\ stale = FALSE

\* publish, Publish: called with a frame and a priority; the first read is head.
Begin(p) ==
    /\ prod[p].pc = "idle"
    /\ head < MaxHead
    /\ \E len \in Sizes, enforce \in BOOLEAN :
         prod' = [prod EXCEPT ![p] =
                    [pc |-> "tail", len |-> len, enforce |-> enforce, head |-> head]]
    /\ UNCHANGED <<mem, head, mirror, tail, cons, claims, sent, out, stale>>

\* What the free-space check makes of head and tail; the u64 subtraction wraps,
\* so a tail beyond head is a huge `used`.
Room(p) ==
    LET used == prod[p].head - tail
    IN  /\ used \in 0 .. DataSize
        /\ used + Need(prod[p].head, prod[p].len) <= Budget(prod[p].enforce)

\* The load of tail, and the decision it leads to: drop, or try to reserve.
LoadTail(p) ==
    /\ prod[p].pc = "tail"
    /\ IF Room(p) THEN Goto(p, "reserve") ELSE Return(p)
    /\ UNCHANGED <<mem, head, mirror, tail, cons, claims, sent, out, stale>>

\* The places a reservation takes in the queue: a pad if it wraps, then the frame.
Places(p) ==
    LET at == Start(p)
        pad == [at |-> prod[p].head, len |-> PadLen(prod[p].head, prod[p].len),
                item |-> None, status |-> "open"]
        frame == [at |-> at, len |-> prod[p].len,
                  item |-> Item(p, sent[p] + 1), status |-> "open"]
    IN  IF Wraps(prod[p].head, prod[p].len) THEN <<pad, frame>> ELSE <<frame>>

\* Nobody zeroes a place on reserving it: the word that will hold its TotalSize
\* holds what is left of the frames of earlier laps.
OnOldBytes(p) == \E i \in DOMAIN Places(p) : mem[At(Places(p)[i].at)].total # 0

\* Fault: a plain store of the new head instead of the compare-exchange.
ReserveUnchecked(p) ==
    /\ prod[p].pc = "reserve"
    /\ head' = prod[p].head + Need(prod[p].head, prod[p].len)
    /\ claims' = claims \o Places(p)
    /\ sent' = [sent EXCEPT ![p] = @ + 1]
    /\ Goto(p, "mirror")
    /\ stale' = (stale \/ OnOldBytes(p))
    /\ UNCHANGED <<mem, mirror, tail, cons, out>>

\* The compare-exchange of head succeeds.
Reserve(p) ==
    /\ prod[p].pc = "reserve"
    /\ head = prod[p].head
    /\ head' = head + Need(head, prod[p].len)
    /\ claims' = claims \o Places(p)
    /\ sent' = [sent EXCEPT ![p] = @ + 1]
    /\ Goto(p, "mirror")
    /\ stale' = (stale \/ OnOldBytes(p))
    /\ UNCHANGED <<mem, mirror, tail, cons, out>>

\* The compare-exchange fails: read head again and retry.
Retry(p) ==
    /\ prod[p].pc = "reserve"
    /\ head # prod[p].head
    /\ prod' = [prod EXCEPT ![p].head = head, ![p].pc = "tail"]
    /\ UNCHANGED <<mem, head, mirror, tail, cons, claims, sent, out, stale>>

\* fetch_max: two producers get here out of reservation order.
Mirrored(h) == IF h > mirror THEN h ELSE mirror

\* The reservation is published before it is filled.
PublishMirror(p) ==
    /\ prod[p].pc = "mirror"
    /\ mirror' = Mirrored(prod[p].head + Need(prod[p].head, prod[p].len))
    /\ Goto(p, IF Wraps(prod[p].head, prod[p].len) THEN "pad" ELSE "header")
    /\ UNCHANGED <<mem, head, tail, cons, claims, sent, out, stale>>

\* write_pad: Version first ...
WritePad(p) ==
    /\ prod[p].pc = "pad"
    /\ mem' = [mem EXCEPT ![At(prod[p].head)].version = Pad]
    /\ Goto(p, "commit pad")
    /\ UNCHANGED <<head, mirror, tail, cons, claims, sent, out, stale>>

\* ... TotalSize last.
CommitPad(p) ==
    /\ prod[p].pc = "commit pad"
    /\ mem' = [mem EXCEPT ![At(prod[p].head)].total = PadLen(prod[p].head, prod[p].len)]
    /\ claims' = Settled(prod[p].head, "void")
    /\ Goto(p, "header")
    /\ UNCHANGED <<head, mirror, tail, cons, sent, out, stale>>

\* Fault: the header is copied whole, TotalSize with it, ahead of the record.
WriteWholeHeader(p) ==
    /\ prod[p].pc = "header"
    /\ mem' = [mem EXCEPT ![At(Start(p))].version = Wire,
                          ![At(Start(p))].total = prod[p].len]
    /\ Goto(p, "body")
    /\ UNCHANGED <<head, mirror, tail, cons, claims, sent, out, stale>>

\* Version and Count, which share the first word with TotalSize.
WriteHeader(p) ==
    /\ prod[p].pc = "header"
    /\ mem' = [mem EXCEPT ![At(Start(p))].version = Wire]
    /\ Goto(p, "body")
    /\ UNCHANGED <<head, mirror, tail, cons, claims, sent, out, stale>>

\* The words of the frame after its first, and in the model the item of the first.
Filled(p) ==
    LET frame == {At(Start(p) + i) : i \in 1 .. prod[p].len - 1}
        item  == Item(p, sent[p])
    IN  [w \in DOMAIN mem |->
            IF w \in frame THEN Word(Contents, Wire, item)
            ELSE IF w = At(Start(p)) THEN [mem[w] EXCEPT !.item = item]
            ELSE mem[w]]

\* Serialize writes the record ...
WriteBody(p) ==
    /\ prod[p].pc = "body"
    /\ mem' = Filled(p)
    /\ Goto(p, "commit")
    /\ UNCHANGED <<head, mirror, tail, cons, claims, sent, out, stale>>

\* ... or fails half way, and the slot becomes a pad.
FailBody(p) ==
    /\ prod[p].pc = "body"
    /\ mem' = [Filled(p) EXCEPT ![At(Start(p))].version = Pad]
    /\ Goto(p, "commit void")
    /\ UNCHANGED <<head, mirror, tail, cons, claims, sent, out, stale>>

\* Fault: a slot whose Serialize failed is left reserved.
CommitUnlessFailed(p) ==
    /\ prod[p].pc \in {"commit", "commit void"}
    /\ IF prod[p].pc = "commit"
         THEN mem' = [mem EXCEPT ![At(Start(p))].total = prod[p].len]
         ELSE UNCHANGED mem
    /\ claims' = Settled(Start(p), IF prod[p].pc = "commit" THEN "ready" ELSE "void")
    /\ Return(p)
    /\ UNCHANGED <<head, mirror, tail, cons, sent, out, stale>>

\* commit: the release store of TotalSize makes the frame visible.
Commit(p) ==
    /\ prod[p].pc \in {"commit", "commit void"}
    /\ mem' = [mem EXCEPT ![At(Start(p))].total = prod[p].len]
    /\ claims' = Settled(Start(p), IF prod[p].pc = "commit" THEN "ready" ELSE "void")
    /\ Return(p)
    /\ UNCHANGED <<head, mirror, tail, cons, sent, out, stale>>
-----------------------------------------------------------------------------
\* next: something is reserved past the private tail.
SeeMirror ==
    /\ cons.pc = "next"
    /\ cons.tail # mirror
    /\ cons' = [cons EXCEPT !.pc = "total"]
    /\ UNCHANGED <<mem, head, mirror, tail, prod, claims, sent, out, stale>>

\* next: TotalSize = 0 is Uncommitted, so try again; a pad is only advanced over.
SeeTotal ==
    LET first == mem[At(cons.tail)]
    IN  /\ cons.pc = "total"
        /\ cons' = [cons EXCEPT
                      !.pc  = IF first.total = 0 THEN "next"
                              ELSE IF first.version = Pad THEN "zero" ELSE "bytes",
                      !.len = first.total]
        /\ UNCHANGED <<mem, head, mirror, tail, prod, claims, sent, out, stale>>

\* bytes: next_batch copies the frame out before advancing.
CopyFrame ==
    LET frame == {mem[At(cons.tail + i)].item : i \in 0 .. cons.len - 1}
    IN  /\ cons.pc = "bytes"
        /\ out' = IF \E item \in frame : frame = {item}
                    THEN CHOOSE item \in frame : TRUE ELSE Torn
        /\ cons' = [cons EXCEPT !.pc = "zero"]
        /\ UNCHANGED <<mem, head, mirror, tail, prod, claims, sent, stale>>

\* advance: TotalSize is zeroed first ...
Zero ==
    /\ cons.pc = "zero"
    /\ mem' = [mem EXCEPT ![At(cons.tail)].total = 0]
    /\ cons' = [cons EXCEPT !.pc = "advance"]
    /\ UNCHANGED <<head, mirror, tail, prod, claims, sent, out, stale>>

\* ... then tail is published, and the words are the producers' again.
Advance ==
    /\ cons.pc = "advance"
    /\ cons' = [cons EXCEPT !.pc = "next", !.tail = @ + cons.len, !.len = 0]
    /\ tail' = cons.tail + cons.len
    /\ claims' = SubSeq(claims, 2, Len(claims))
    /\ UNCHANGED <<mem, head, mirror, prod, sent, out, stale>>
-----------------------------------------------------------------------------
\* publish past its reservation: callbacks are not suspended for ever.
Fill(p) ==
    \/ PublishMirror(p)
    \/ WritePad(p) \/ CommitPad(p)
    \/ WriteHeader(p) \/ WriteBody(p) \/ FailBody(p) \/ Commit(p)

Publish(p) == Begin(p) \/ LoadTail(p) \/ Reserve(p) \/ Retry(p) \/ Fill(p)

Consume == SeeMirror \/ SeeTotal \/ CopyFrame \/ Zero \/ Advance

Next == (\E p \in Producers : Publish(p)) \/ Consume

Spec == Init /\ [][Next]_vars

FairSpec == Spec /\ WF_vars(Consume) /\ \A p \in Producers : WF_vars(Fill(p))
-----------------------------------------------------------------------------
(***************************************************************************)
(* What the ring promises it promises as long as every reservation begins  *)
(* on a word that reads 0.  Nothing in the code sees to that: with frames  *)
(* of several lengths there may come one that does not, and from then on   *)
(* the consumer takes what nobody has written.                             *)
(***************************************************************************)

(***************************************************************************)
(* The reservations tile the circle: in order and without a gap or an      *)
(* overlap up to head, never more than the region holds, whichever         *)
(* producers raced for them with whatever stale head and tail (publish);   *)
(* and from tail on, unless the consumer has been led astray.              *)
(***************************************************************************)
ReservationsTile ==
    /\ \A i \in DOMAIN claims \ {1} : claims[i].at = claims[i-1].at + claims[i-1].len
    /\ claims # <<>> => head = claims[Len(claims)].at + claims[Len(claims)].len
    /\ head - tail <= DataSize
    /\ stale \/ tail = IF claims = <<>> THEN head ELSE claims[1].at

\* Every place holds what its claim says.
ClaimsHold ==
    \A i \in DOMAIN claims :
        LET claim == claims[i]
            first == mem[At(claim.at)]
            given == i = 1 /\ cons.pc = "advance"
        IN  /\ claim.status = "open" => first.total = 0
            /\ claim.status # "open" /\ ~given =>
                 /\ first.total = claim.len
                 /\ first.version = IF claim.status = "ready" THEN Wire ELSE Pad
            /\ claim.status = "ready" =>
                 \A w \in 0 .. claim.len - 1 : mem[At(claim.at + w)].item = claim.item

(***************************************************************************)
(* The commit protocol: a place reserved on a 0 reads TotalSize = 0 until  *)
(* it is committed, whatever bytes lie under the rest of it, and then it   *)
(* holds its own frame or pad, whole, until the consumer gives it back     *)
(* (commit, advance).                                                      *)
(***************************************************************************)
SlotsHoldTheirClaims == stale \/ ClaimsHold

\* Ring.cpp's Reserve and advance in ringbuf.rs say that the consumer, finding the
\* ring's first frame not committed, waits rather than reading it: what it has in
\* hand is committed.
TakesOnlyCommitted ==
    cons.pc = "bytes" =>
        /\ claims # <<>>
        /\ claims[1].status = "ready"
        /\ claims[1].at = cons.tail
        /\ claims[1].len = cons.len

(***************************************************************************)
(* The consumer never has a frame in hand that its producer has not        *)
(* committed, before a place is reserved on old bytes (next).              *)
(***************************************************************************)
NeverTorn == stale \/ TakesOnlyCommitted

\* What is in the queue: the frames reserved and not copied; pads have no place in it.
Uncopied == {i \in DOMAIN claims : i = 1 => cons.pc \notin {"zero", "advance"}}
Queue == {[ticket |-> claims[i].at, item |-> claims[i].item, status |-> claims[i].status] :
             i \in {j \in Uncopied : claims[j].item # None}}

Q == INSTANCE RingQueue WITH Items <- Producers \X (Nat \ {0}), queue <- Queue

(***************************************************************************)
(* The frames the consumer copies are the frames that found room, each     *)
(* once, whole, in the order of their reservations (publish, next, bytes): *)
(* up to a reservation on old bytes every step is one of the queue's.      *)
(***************************************************************************)
ImplementsQueue == Q!Init /\ [][~stale' => [Q!Next]_(Q!queueVars)]_vars

(***************************************************************************)
(* Whatever is reserved is taken: a producer that is slow, or one whose    *)
(* Serialize fails, does not wedge the consumer, so that no position stays *)
(* reserved for ever.  Fairness: a callback that reserved runs on to its   *)
(* commit, and the consumer polls (next_batch).                            *)
(***************************************************************************)
EveryClaimTaken ==
    \A pos \in 0 .. MaxHead : []<>(pos < tail \/ head <= pos \/ stale)
=============================================================================
