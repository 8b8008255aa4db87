---------------------------- MODULE ServiceProofs ----------------------------
(***************************************************************************)
(* Theorems about module Service, for any capacity of the queue, any       *)
(* number of frames, records and connections, and any behaviour of the     *)
(* sensor, the network and the backend: the backend never gets anything    *)
(* after half a record, records go out in order and once, and a clean exit *)
(* leaves nothing untried.                                                 *)
(***************************************************************************)
EXTENDS Service, SequenceTheorems, TLAPS

Records == Nat \ {0}

TypeOK ==
    /\ loop \in {"reading", "replying", "arming", "shipping", "joining", "exited", "failed"}
    /\ frames \in Nat /\ made \in Nat /\ left \in Nat
    /\ queue \in Seq(Records) /\ open \in BOOLEAN
    /\ ship \in {"receiving", "connecting", "writing", "done", "dead"}
    /\ cur \in Nat /\ conn \in Nat
    /\ wire \in Seq(Seq(Nat))

\* The stream, if there is one, is the last connection made; a writer has one,
\* and who dials has none.
LastLink == /\ conn # None => conn \in DOMAIN wire /\ \A c \in DOMAIN wire : c <= conn
            /\ ship = "writing" => conn # None
            /\ ship = "connecting" => conn = None

\* The shipper has a record in hand just while it is to be written.
InHand == /\ ship \in {"connecting", "writing"} => cur # None
          /\ ship \in {"receiving", "done"} => cur = None

\* How the two threads end: the sender is dropped first, the queue drained next.
Endings == /\ open <=> loop \notin {"joining", "exited"}
           /\ ship = "dead" <=> loop = "failed"
           /\ ship = "done" => ~open /\ queue = <<>>
           /\ loop = "exited" => ship = "done"

\* The records handed on so far are the first made - left.
HandedOn == /\ left <= made
            /\ cur <= made - left
            /\ \A k \in DOMAIN queue : queue[k] <= made - left
            /\ \A c \in DOMAIN wire : \A i \in DOMAIN wire[c] : wire[c][i] <= made - left

IInv == TypeOK /\ LastLink /\ InHand /\ Endings /\ HandedOn /\ NoDesync /\ InOrderOnce

-----------------------------------------------------------------------------
(* The channel and the connections *)

LEMMA Kinds ==
    ASSUME TypeOK
    PROVE  /\ DOMAIN queue = 1 .. Len(queue) /\ Len(queue) \in Nat
           /\ \A k \in DOMAIN queue : queue[k] \in Nat /\ queue[k] > 0
           /\ DOMAIN wire = 1 .. Len(wire) /\ Len(wire) \in Nat
           /\ \A c \in DOMAIN wire : /\ wire[c] \in Seq(Nat) /\ Len(wire[c]) \in Nat
                                     /\ DOMAIN wire[c] = 1 .. Len(wire[c])
                                     /\ \A i \in DOMAIN wire[c] : wire[c][i] \in Nat
<1>1. queue \in Seq(Records) /\ wire \in Seq(Seq(Nat))
  BY DEF TypeOK
<1>2. DOMAIN queue = 1 .. Len(queue) /\ Len(queue) \in Nat /\ DOMAIN wire = 1 .. Len(wire) /\ Len(wire) \in Nat
  BY <1>1, LenProperties
<1>3. \A k \in DOMAIN queue : queue[k] \in Nat /\ queue[k] > 0
  <2>1. \A k \in DOMAIN queue : queue[k] \in Records
    BY <1>1, <1>2, ElementOfSeq
  <2> QED
    BY <2>1 DEF Records
<1>4. ASSUME NEW c \in DOMAIN wire
      PROVE  /\ wire[c] \in Seq(Nat) /\ Len(wire[c]) \in Nat
             /\ DOMAIN wire[c] = 1 .. Len(wire[c])
             /\ \A i \in DOMAIN wire[c] : wire[c][i] \in Nat
  <2>1. wire[c] \in Seq(Nat)
    BY <1>1, <1>2, ElementOfSeq
  <2> QED
    BY <2>1, LenProperties, ElementOfSeq
<1> QED
  BY <1>2, <1>3, <1>4

\* What is written on the last connection follows what was there.
LEMMA WriteOn ==
    ASSUME TypeOK, conn \in DOMAIN wire, NEW x \in Nat,
           wire' = [wire EXCEPT ![conn] = Append(@, x)]
    PROVE  /\ wire' \in Seq(Seq(Nat)) /\ DOMAIN wire' = DOMAIN wire
           /\ \A c \in DOMAIN wire : c # conn => wire'[c] = wire[c]
           /\ Len(wire'[conn]) = Len(wire[conn]) + 1
           /\ DOMAIN wire'[conn] = 1 .. Len(wire[conn]) + 1
           /\ \A i \in DOMAIN wire[conn] : wire'[conn][i] = wire[conn][i]
           /\ wire'[conn][Len(wire[conn]) + 1] = x
<1>1. /\ wire \in Seq(Seq(Nat)) /\ wire[conn] \in Seq(Nat) /\ Len(wire[conn]) \in Nat
      /\ DOMAIN wire[conn] = 1 .. Len(wire[conn]) /\ DOMAIN wire = 1 .. Len(wire)
      /\ Len(wire) \in Nat /\ \A c \in DOMAIN wire : wire[c] \in Seq(Nat)
  BY Kinds DEF TypeOK
<1> DEFINE new == Append(wire[conn], x)
<1>2. /\ new \in Seq(Nat) /\ Len(new) = Len(wire[conn]) + 1
      /\ \A i \in 1 .. Len(wire[conn]) : new[i] = wire[conn][i]
      /\ new[Len(wire[conn]) + 1] = x
  BY <1>1, AppendProperties
<1>3. DOMAIN new = 1 .. Len(wire[conn]) + 1
  BY <1>2, LenProperties
<1>4. wire' = [wire EXCEPT ![conn] = new]
  OBVIOUS
<1> HIDE DEF new
<1>5. /\ wire'[conn] = new /\ DOMAIN wire' = DOMAIN wire
      /\ \A c \in DOMAIN wire : c # conn => wire'[c] = wire[c]
  BY <1>1, <1>4
<1>6. wire' \in Seq(Seq(Nat))
  <2>1. wire' = [c \in 1 .. Len(wire) |-> IF c = conn THEN new ELSE wire[c]]
    BY <1>1, <1>4
  <2>2. \A c \in 1 .. Len(wire) : (IF c = conn THEN new ELSE wire[c]) \in Seq(Nat)
    BY <1>1, <1>2
  <2>3. wire' \in [1 .. Len(wire) -> Seq(Nat)]
    BY <2>1, <2>2
  <2> QED
    BY <1>1, <2>3, SeqDef
<1> QED
  BY <1>1, <1>2, <1>3, <1>5, <1>6

\* Every word of the new stream is an old one in its place, or the new one at the end.
LEMMA WriteOnCases ==
    ASSUME TypeOK, conn \in DOMAIN wire, NEW x \in Nat,
           wire' = [wire EXCEPT ![conn] = Append(@, x)],
           NEW c \in DOMAIN wire, NEW i \in DOMAIN wire'[c]
    PROVE  /\ i \in Nat /\ i <= Len(wire'[c]) /\ Len(wire'[c]) \in Nat
           /\ \/ i \in DOMAIN wire[c] /\ wire'[c][i] = wire[c][i] /\ i <= Len(wire[c])
                 /\ (c = conn => i < Len(wire'[c])) /\ (c # conn => Len(wire'[c]) = Len(wire[c]))
              \/ c = conn /\ i = Len(wire'[c]) /\ wire'[c][i] = x
<1>1. Len(wire[c]) \in Nat /\ DOMAIN wire[c] = 1 .. Len(wire[c])
  BY Kinds
<1>2. CASE c # conn
  BY <1>1, <1>2, WriteOn
<1>3. CASE c = conn
  <2>1. /\ Len(wire'[c]) = Len(wire[c]) + 1 /\ DOMAIN wire'[c] = 1 .. Len(wire[c]) + 1
        /\ \A k \in DOMAIN wire[c] : wire'[c][k] = wire[c][k]
        /\ wire'[c][Len(wire[c]) + 1] = x
    BY <1>3, WriteOn
  <2>2. i \in 1 .. Len(wire[c]) \/ i = Len(wire[c]) + 1
    BY <1>1, <2>1
  <2> QED
    BY <1>1, <1>3, <2>1, <2>2
<1> QED
  BY <1>2, <1>3
-----------------------------------------------------------------------------
(* The invariant, action by action *)

LEMMA InitIInv == Init => IInv
<1> SUFFICES ASSUME Init PROVE IInv
  OBVIOUS
<1>1. /\ queue = <<>> /\ wire = <<<<>>>> /\ cur = 0 /\ conn = 1 /\ made = 0 /\ left = 0
      /\ loop = "reading" /\ ship = "receiving" /\ open = TRUE /\ frames = 0
  BY DEF Init, None
<1>2. DOMAIN wire = {1} /\ wire[1] = <<>> /\ DOMAIN wire[1] = {} /\ DOMAIN queue = {}
  BY <1>1
<1>3. queue \in Seq(Records) /\ wire \in Seq(Seq(Nat))
  BY <1>1
<1> QED
  BY <1>1, <1>2, <1>3 DEF IInv, TypeOK, LastLink, InHand, Endings, HandedOn, NoDesync, InOrderOnce, None

LEMMA AtMost ==
    \A m, l, k, j \in Nat : m - l <= k - j => \A n \in Nat : n <= m - l => n <= k - j
OBVIOUS

\* A step that moves no record.
LEMMA NothingMoves ==
    ASSUME IInv, UNCHANGED <<queue, cur, conn, wire>>,
           left' \in Nat, made' \in Nat, left' <= made', made - left <= made' - left'
    PROVE  HandedOn' /\ NoDesync' /\ InOrderOnce'
<1>1. TypeOK /\ HandedOn /\ NoDesync /\ InOrderOnce /\ made \in Nat /\ left \in Nat /\ cur \in Nat
  BY DEF IInv, TypeOK
<1>2. NoDesync' /\ InOrderOnce'
  BY <1>1 DEF NoDesync, InOrderOnce
<1>3. \A n \in Nat : n <= made - left => n <= made' - left'
  BY <1>1, AtMost
<1>4. /\ \A k \in DOMAIN queue : queue[k] \in Nat
      /\ \A c \in DOMAIN wire : \A i \in DOMAIN wire[c] : wire[c][i] \in Nat
  BY <1>1, Kinds
<1>5. HandedOn'
  BY <1>1, <1>3, <1>4 DEF HandedOn
<1> QED
  BY <1>2, <1>5

LEMMA LoopKeeps ==
    ASSUME IInv,
           \/ \E f \in Frame : NextBatch(f)
           \/ Reply \/ PushArms \/ BatchDone \/ EndOfInput \/ Join \/ ReadError
    PROVE  IInv'
<1>1. TypeOK /\ LastLink /\ InHand /\ Endings /\ left \in Nat /\ made \in Nat /\ left <= made
  BY DEF IInv, TypeOK, HandedOn
<1>2. CASE \E f \in Frame : NextBatch(f)
  <2>1. PICK f \in Frame : NextBatch(f)
    BY <1>2
  <2>2. f.wire \in Nat
    BY ServiceAssumption DEF Frame
  <2>3. /\ left' \in Nat /\ made' \in Nat /\ left' <= made' /\ made - left <= made' - left'
        /\ frames' \in Nat
    BY <1>1, <2>1, <2>2 DEF NextBatch, TypeOK
  <2>4. UNCHANGED <<queue, open, ship, cur, conn, wire>>
    BY <2>1 DEF NextBatch, channel, shipper
  <2>5. HandedOn' /\ NoDesync' /\ InOrderOnce'
    BY <2>3, <2>4, NothingMoves
  <2>6. loop = "reading" /\ loop' \in {"reading", "replying", "arming"}
    BY <2>1 DEF NextBatch
  <2>7. TypeOK'
    BY <1>1, <2>3, <2>4, <2>6 DEF TypeOK
  <2>8. LastLink' /\ InHand' /\ Endings'
    BY <1>1, <2>4, <2>6 DEF LastLink, InHand, Endings
  <2> QED
    BY <2>5, <2>7, <2>8 DEF IInv
<1>3. CASE Reply \/ PushArms \/ BatchDone
  <2>1. /\ UNCHANGED <<frames, made, left, queue, open, ship, cur, conn, wire>>
        /\ loop \in {"replying", "arming", "shipping"} /\ loop' \in {"arming", "shipping", "reading"}
    BY <1>3 DEF Reply, PushArms, BatchDone, channel, shipper
  <2>2. HandedOn' /\ NoDesync' /\ InOrderOnce'
    BY <1>1, <2>1, NothingMoves
  <2>3. TypeOK' /\ LastLink' /\ InHand' /\ Endings'
    BY <1>1, <2>1 DEF TypeOK, LastLink, InHand, Endings
  <2> QED
    BY <2>2, <2>3 DEF IInv
<1>4. CASE EndOfInput
  <2>1. /\ UNCHANGED <<frames, made, left, queue, ship, cur, conn, wire>>
        /\ loop = "reading" /\ loop' = "joining" /\ open' = FALSE
    BY <1>4 DEF EndOfInput, shipper
  <2>2. HandedOn' /\ NoDesync' /\ InOrderOnce'
    BY <1>1, <2>1, NothingMoves
  <2>3. TypeOK' /\ LastLink' /\ InHand' /\ Endings'
    BY <1>1, <2>1 DEF TypeOK, LastLink, InHand, Endings
  <2> QED
    BY <2>2, <2>3 DEF IInv
<1>5. CASE Join
  <2>1. /\ UNCHANGED <<frames, made, left, queue, open, ship, cur, conn, wire>>
        /\ loop = "joining" /\ loop' = "exited" /\ ship = "done"
    BY <1>5 DEF Join, channel, shipper
  <2>2. HandedOn' /\ NoDesync' /\ InOrderOnce'
    BY <1>1, <2>1, NothingMoves
  <2>3. TypeOK' /\ LastLink' /\ InHand' /\ Endings'
    BY <1>1, <2>1 DEF TypeOK, LastLink, InHand, Endings
  <2> QED
    BY <2>2, <2>3 DEF IInv
<1>6. CASE ReadError
  <2>1. /\ UNCHANGED <<frames, made, left, queue, open, cur, conn, wire>>
        /\ loop = "reading" /\ loop' = "failed" /\ ship' = "dead"
    BY <1>6 DEF ReadError, channel
  <2>2. HandedOn' /\ NoDesync' /\ InOrderOnce'
    BY <1>1, <2>1, NothingMoves
  <2>3. TypeOK' /\ LastLink' /\ InHand' /\ Endings'
    BY <1>1, <2>1 DEF TypeOK, LastLink, InHand, Endings
  <2> QED
    BY <2>2, <2>3 DEF IInv
<1> QED
  BY <1>2, <1>3, <1>4, <1>5, <1>6

LEMMA AroundKeeps ==
    ASSUME IInv, RetryDue \/ BackendChanges \/ Disconnected
    PROVE  IInv'
<1>1. TypeOK /\ LastLink /\ InHand /\ Endings /\ left \in Nat /\ made \in Nat /\ left <= made
  BY DEF IInv, TypeOK, HandedOn
<1>2. /\ UNCHANGED <<loop, frames, made, left, queue, open, cur, conn, wire>>
      /\ \/ ship' = ship
         \/ ship = "receiving" /\ queue = <<>> /\ ~open /\ ship' = "done"
  BY DEF RetryDue, BackendChanges, Disconnected, loopVars, channel, shipper
<1>3. HandedOn' /\ NoDesync' /\ InOrderOnce'
  BY <1>1, <1>2, NothingMoves
<1>4. TypeOK' /\ LastLink' /\ InHand' /\ Endings'
  BY <1>1, <1>2 DEF TypeOK, LastLink, InHand, Endings
<1> QED
  BY <1>3, <1>4 DEF IInv

\* The record queued is newer than any there was.
LEMMA QueueKeeps ==
    ASSUME IInv, Queue
    PROVE  IInv'
<1>1. /\ TypeOK /\ LastLink /\ InHand /\ Endings /\ HandedOn /\ NoDesync /\ InOrderOnce
      /\ left \in Nat /\ made \in Nat /\ cur \in Nat /\ queue \in Seq(Records)
  BY DEF IInv, TypeOK
<1> DEFINE new == made - left + 1
<1>2. /\ UNCHANGED <<loop, frames, made, open, ship, cur, conn, wire>>
      /\ loop = "shipping" /\ left > 0 /\ left' = left - 1
      /\ queue' = Append(queue, new) \/ queue' = queue
  BY DEF Queue, shipper
<1>3. left' \in Nat /\ left' <= made' /\ made' - left' = new /\ new \in Records
      /\ made - left <= made' - left'
  BY <1>1, <1>2 DEF HandedOn, Records
<1>4. open /\ ship # "done"
  BY <1>1, <1>2 DEF Endings
<1>5. LastLink' /\ InHand' /\ Endings'
  BY <1>1, <1>2, <1>4 DEF LastLink, InHand, Endings
<1>6. CASE queue' = queue
  <2>1. HandedOn' /\ NoDesync' /\ InOrderOnce'
    BY <1>1, <1>2, <1>3, <1>6, NothingMoves
  <2>2. TypeOK'
    BY <1>1, <1>2, <1>3, <1>6 DEF TypeOK
  <2> QED
    BY <1>5, <2>1, <2>2 DEF IInv
<1>7. CASE queue' = Append(queue, new)
  <2> HIDE DEF new
  <2>1. /\ queue' \in Seq(Records) /\ Len(queue') = Len(queue) + 1
        /\ \A k \in 1 .. Len(queue) : queue'[k] = queue[k]
        /\ queue'[Len(queue) + 1] = new
    BY <1>1, <1>3, <1>7, AppendProperties
  <2>2. /\ DOMAIN queue' = 1 .. Len(queue) + 1 /\ DOMAIN queue = 1 .. Len(queue)
        /\ Len(queue) \in Nat
    BY <1>1, <2>1, LenProperties
  <2>3. \A k \in DOMAIN queue' : k \in DOMAIN queue \/ k = Len(queue) + 1
    BY <2>2
  <2>4. /\ new \in Nat /\ \A n \in Nat : n <= made - left => n < new
    BY <1>1, <1>3 DEF Records, new
  <2>5. /\ \A k \in DOMAIN queue : queue[k] \in Nat /\ queue[k] < new
        /\ \A c \in DOMAIN wire : \A i \in DOMAIN wire[c] : wire[c][i] \in Nat /\ wire[c][i] < new
        /\ cur < new
    BY <1>1, <2>4, Kinds DEF HandedOn
  <2>6. HandedOn'
    <3>1. \A n \in Nat : n < new => n <= new
      BY <2>4
    <3> QED
      BY <1>1, <1>2, <1>3, <2>1, <2>2, <2>3, <2>4, <2>5, <3>1 DEF HandedOn
  <2>7. NoDesync'
    BY <1>1, <1>2 DEF NoDesync
  <2>8. InOrderOnce'
    <3>1. \A c \in DOMAIN wire : \A i \in DOMAIN wire[c], k \in DOMAIN queue' : wire[c][i] < queue'[k]
      BY <1>1, <2>1, <2>2, <2>3, <2>5 DEF InOrderOnce
    <3>2. \A k \in DOMAIN queue' : cur < queue'[k]
      BY <1>1, <2>1, <2>2, <2>3, <2>5 DEF InOrderOnce
    <3>3. ASSUME NEW k \in DOMAIN queue', NEW l \in DOMAIN queue', k < l PROVE queue'[k] < queue'[l]
      <4>1. k \in DOMAIN queue
        BY <2>2, <3>3
      <4>2. CASE l \in DOMAIN queue
        BY <1>1, <2>1, <2>2, <3>3, <4>1, <4>2 DEF InOrderOnce
      <4>3. CASE l = Len(queue) + 1
        BY <2>1, <2>2, <2>5, <4>1, <4>3
      <4> QED
        BY <2>3, <4>2, <4>3
    <3> QED
      BY <1>1, <1>2, <3>1, <3>2, <3>3 DEF InOrderOnce
  <2>9. TypeOK'
    BY <1>1, <1>2, <1>3, <2>1 DEF TypeOK
  <2> QED
    BY <1>5, <2>6, <2>7, <2>8, <2>9 DEF IInv
<1> QED
  BY <1>2, <1>6, <1>7

\* The oldest record of the queue is taken in hand.
LEMMA ReceiveKeeps ==
    ASSUME IInv, Receive
    PROVE  IInv'
<1>1. /\ TypeOK /\ LastLink /\ InHand /\ Endings /\ HandedOn /\ NoDesync /\ InOrderOnce
      /\ queue \in Seq(Records)
  BY DEF IInv, TypeOK
<1>2. /\ UNCHANGED <<loop, frames, made, left, open, conn, wire>>
      /\ ship = "receiving" /\ queue # <<>> /\ cur' = Head(queue) /\ queue' = Tail(queue)
      /\ ship' = IF conn = None THEN "connecting" ELSE "writing"
  BY DEF Receive, loopVars
<1>3. /\ cur' = queue[1] /\ queue' \in Seq(Records) /\ Len(queue') = Len(queue) - 1
      /\ \A k \in 1 .. Len(queue') : queue'[k] = queue[k + 1]
  <2>1. /\ Tail(queue) \in Seq(Records) /\ Len(Tail(queue)) = Len(queue) - 1
        /\ \A k \in 1 .. Len(Tail(queue)) : Tail(queue)[k] = queue[k + 1]
        /\ Head(queue) = queue[1]
    BY <1>1, <1>2, HeadTailProperties
  <2> QED
    BY <1>2, <2>1
<1>4. /\ DOMAIN queue = 1 .. Len(queue) /\ Len(queue) \in Nat /\ DOMAIN queue' = 1 .. Len(queue')
      /\ 1 \in DOMAIN queue
  BY <1>1, <1>2, <1>3, LenProperties, EmptySeq
<1>5. \A k \in DOMAIN queue' : k + 1 \in DOMAIN queue /\ 1 < k + 1 /\ queue'[k] = queue[k + 1]
  BY <1>3, <1>4
<1>6. \A k \in DOMAIN queue : queue[k] \in Nat /\ queue[k] > 0
  BY <1>1, Kinds
<1>7. cur' \in Nat /\ cur' # None /\ cur' <= made - left
  BY <1>1, <1>3, <1>4, <1>6 DEF HandedOn, None
<1>8. HandedOn'
  BY <1>1, <1>2, <1>5, <1>7 DEF HandedOn
<1>9. NoDesync'
  BY <1>1, <1>2 DEF NoDesync
<1>10. InOrderOnce'
  <2>1. \A k, l \in DOMAIN queue : k < l => queue[k] < queue[l]
    BY <1>1 DEF InOrderOnce
  <2>2. \A k \in DOMAIN queue' : cur' < queue'[k]
    BY <1>3, <1>4, <1>5, <2>1
  <2>3. ASSUME NEW k \in DOMAIN queue', NEW l \in DOMAIN queue', k < l PROVE queue'[k] < queue'[l]
    <3>1. k + 1 < l + 1
      BY <1>4, <2>3
    <3> QED
      BY <1>5, <2>1, <3>1
  <2>4. \A c \in DOMAIN wire : \A i \in DOMAIN wire[c] :
            /\ wire[c][i] < cur'
            /\ \A k \in DOMAIN queue' : wire[c][i] < queue'[k]
    BY <1>1, <1>3, <1>4, <1>5 DEF InOrderOnce
  <2> QED
    BY <1>1, <1>2, <2>2, <2>3, <2>4 DEF InOrderOnce
<1>11. TypeOK'
  BY <1>1, <1>2, <1>3, <1>7 DEF TypeOK
<1>12. LastLink' /\ InHand' /\ Endings'
  <2>1. ship' \in {"connecting", "writing"} /\ (ship' = "writing" => conn # None)
    BY <1>2
  <2>2. LastLink' /\ InHand'
    BY <1>1, <1>2, <1>7, <2>1 DEF LastLink, InHand
  <2>3. Endings'
    BY <1>1, <1>2, <2>1 DEF Endings
  <2> QED
    BY <2>2, <2>3
<1> QED
  BY <1>8, <1>9, <1>10, <1>11, <1>12 DEF IInv

\* A connection is made, with nothing in it yet; or none is.
LEMMA DialKeeps ==
    ASSUME IInv, Dial, UNCHANGED <<made, left, queue>>, cur' \in {cur, None},
           conn = None
    PROVE  /\ HandedOn' /\ NoDesync' /\ InOrderOnce'
           /\ wire' \in Seq(Seq(Nat)) /\ conn' \in Nat
           /\ conn' # None => conn' \in DOMAIN wire' /\ \A c \in DOMAIN wire' : c <= conn'
<1>1. TypeOK /\ HandedOn /\ NoDesync /\ InOrderOnce /\ wire \in Seq(Seq(Nat))
  BY DEF IInv, TypeOK
<1>2. cur' <= made - left /\ cur \in Nat
  BY <1>1 DEF HandedOn, TypeOK, None
<1>3. DOMAIN wire = 1 .. Len(wire) /\ Len(wire) \in Nat
  BY <1>1, Kinds
<1>4. /\ wire' \in Seq(Seq(Nat))
      /\ \A c \in DOMAIN wire' : \A i \in DOMAIN wire'[c] :
            c \in DOMAIN wire /\ wire'[c] = wire[c] /\ i \in DOMAIN wire[c]
      /\ conn' # None => conn' \in DOMAIN wire' /\ \A c \in DOMAIN wire' : c <= conn'
      /\ conn' \in Nat
      /\ conn' \notin DOMAIN wire
  <2>1. CASE wire' = Append(wire, <<>>) /\ conn' = Len(wire) + 1
    <3>1. <<>> \in Seq(Nat)
      OBVIOUS
    <3>2. /\ wire' \in Seq(Seq(Nat)) /\ Len(wire') = Len(wire) + 1
          /\ \A c \in 1 .. Len(wire) : wire'[c] = wire[c]
          /\ wire'[Len(wire) + 1] = <<>>
      BY <1>1, <2>1, <3>1, AppendProperties
    <3>3. DOMAIN wire' = 1 .. Len(wire) + 1
      BY <3>2, LenProperties
    <3>4. DOMAIN wire'[Len(wire) + 1] = {}
      BY <3>2
    <3>5. ASSUME NEW c \in DOMAIN wire', NEW i \in DOMAIN wire'[c]
          PROVE  c \in DOMAIN wire /\ wire'[c] = wire[c] /\ i \in DOMAIN wire[c]
      <4>1. c # Len(wire) + 1
        BY <3>4, <3>5
      <4>2. c \in 1 .. Len(wire)
        BY <1>3, <3>3, <4>1
      <4> QED
        BY <1>3, <3>2, <3>5, <4>2
    <3> QED
      BY <1>3, <2>1, <3>2, <3>3, <3>5
  <2>2. CASE wire' = wire /\ conn' = conn
    BY <1>1, <1>3, <2>2 DEF None
  <2> QED
    BY <2>1, <2>2 DEF Dial
<1>5. HandedOn'
  BY <1>1, <1>2, <1>4 DEF HandedOn
<1>6. NoDesync'
  <2>1. \A c \in DOMAIN wire' : \A i \in DOMAIN wire'[c] :
          wire'[c][i] = Half => i = Len(wire'[c]) /\ c # conn'
    BY <1>1, <1>4 DEF NoDesync
  <2> QED
    BY <2>1 DEF NoDesync
<1>7. InOrderOnce'
  <2>1. ASSUME NEW c \in DOMAIN wire', NEW d \in DOMAIN wire',
               NEW i \in DOMAIN wire'[c], NEW j \in DOMAIN wire'[d],
               c < d \/ (c = d /\ i < j), Half \notin {wire'[c][i], wire'[d][j]}
        PROVE  wire'[c][i] < wire'[d][j]
    <3>1. /\ c \in DOMAIN wire /\ d \in DOMAIN wire /\ i \in DOMAIN wire[c] /\ j \in DOMAIN wire[d]
          /\ wire'[c] = wire[c] /\ wire'[d] = wire[d]
      BY <1>4
    <3> QED
      BY <1>1, <2>1, <3>1 DEF InOrderOnce
  <2>2. ASSUME NEW c \in DOMAIN wire', NEW i \in DOMAIN wire'[c]
        PROVE  /\ cur' # None => wire'[c][i] < cur'
               /\ \A k \in DOMAIN queue : wire'[c][i] < queue[k]
    <3>1. c \in DOMAIN wire /\ i \in DOMAIN wire[c] /\ wire'[c] = wire[c]
      BY <1>4
    <3> QED
      BY <1>1, <3>1 DEF InOrderOnce
  <2>3. \A k \in DOMAIN queue : cur' < queue[k]
    BY <1>1, Kinds DEF InOrderOnce, None
  <2>4. \A k, l \in DOMAIN queue : k < l => queue[k] < queue[l]
    BY <1>1 DEF InOrderOnce
  <2> QED
    BY <2>1, <2>2, <2>3, <2>4 DEF InOrderOnce
<1> QED
  BY <1>4, <1>5, <1>6, <1>7

LEMMA LinkKeeps ==
    ASSUME IInv, Connect \/ Tick
    PROVE  IInv'
<1>1. /\ TypeOK /\ LastLink /\ InHand /\ Endings /\ left \in Nat /\ made \in Nat /\ left <= made
  BY DEF IInv, TypeOK, HandedOn
<1>2. CASE Tick
  <2>1. /\ UNCHANGED <<loop, frames, made, left, queue, open, ship, cur>> /\ Dial
        /\ ship = "receiving" /\ conn = None
    BY <1>2 DEF Tick, loopVars, channel
  <2>2. /\ HandedOn' /\ NoDesync' /\ InOrderOnce'
        /\ wire' \in Seq(Seq(Nat)) /\ conn' \in Nat
        /\ conn' # None => conn' \in DOMAIN wire' /\ \A c \in DOMAIN wire' : c <= conn'
    BY <2>1, DialKeeps
  <2>3. TypeOK' /\ LastLink' /\ InHand' /\ Endings'
    BY <1>1, <2>1, <2>2 DEF TypeOK, LastLink, InHand, Endings
  <2> QED
    BY <2>2, <2>3 DEF IInv
<1>3. CASE Connect
  <2>1. /\ UNCHANGED <<loop, frames, made, left, queue, open>>
        /\ ship = "connecting" /\ conn = None
        /\ \/ Dial
           \/ UNCHANGED <<wire, conn>>
        /\ \/ conn' = None /\ ship' = "receiving" /\ cur' = None
           \/ conn' # None /\ ship' = "writing" /\ cur' = cur
    BY <1>1, <1>3 DEF Connect, LastLink, loopVars, channel
  <2>2. CASE Dial
    <3>1. /\ HandedOn' /\ NoDesync' /\ InOrderOnce'
          /\ wire' \in Seq(Seq(Nat)) /\ conn' \in Nat
          /\ conn' # None => conn' \in DOMAIN wire' /\ \A c \in DOMAIN wire' : c <= conn'
      BY <2>1, <2>2, DialKeeps
    <3>2. TypeOK'
      BY <1>1, <2>1, <3>1 DEF TypeOK, None
    <3>3. LastLink' /\ InHand' /\ Endings'
      BY <1>1, <2>1, <3>1 DEF LastLink, InHand, Endings
    <3> QED
      BY <3>1, <3>2, <3>3 DEF IInv
  <2>3. CASE UNCHANGED <<wire, conn>>
    <3>1. cur' = None /\ ship' = "receiving"
      BY <2>1, <2>3
    <3>2. HandedOn' /\ NoDesync' /\ InOrderOnce'
      <4>1. TypeOK /\ HandedOn /\ NoDesync /\ InOrderOnce
        BY DEF IInv
      <4>2. \A k \in DOMAIN queue : 0 < queue[k]
        BY <4>1, Kinds
      <4>3. 0 <= made - left
        BY <1>1
      <4> QED
        BY <2>1, <2>3, <3>1, <4>1, <4>2, <4>3 DEF HandedOn, NoDesync, InOrderOnce, None
    <3>3. TypeOK' /\ LastLink' /\ InHand' /\ Endings'
      BY <1>1, <2>1, <2>3, <3>1 DEF TypeOK, LastLink, InHand, Endings, None
    <3> QED
      BY <3>2, <3>3 DEF IInv
  <2> QED
    BY <2>1, <2>2, <2>3
<1> QED
  BY <1>2, <1>3

\* The stream is left: nothing is written, half a record, or all of it.
LEMMA WriteKeeps ==
    ASSUME IInv, Written \/ WriteFails
    PROVE  IInv'
<1>1. /\ TypeOK /\ LastLink /\ InHand /\ Endings /\ HandedOn /\ NoDesync /\ InOrderOnce
      /\ cur \in Nat /\ left \in Nat /\ made \in Nat
  BY DEF IInv, TypeOK
<1>2. /\ UNCHANGED <<loop, frames, made, left, queue, open>>
      /\ ship = "writing" /\ ship' = "receiving" /\ cur' = None
      /\ \/ wire' = wire /\ conn' = None
         \/ \E x \in {Half, cur} : /\ wire' = [wire EXCEPT ![conn] = Append(@, x)]
                                   /\ conn' = (IF x = Half THEN None ELSE conn)
  <2>1. cur # Half /\ ship = "writing"
    BY <1>1 DEF InHand, Written, WriteFails, None, Half
  <2> QED
    BY <2>1 DEF Written, WriteFails, loopVars, channel
<1>3. /\ conn \in DOMAIN wire /\ \A c \in DOMAIN wire : c <= conn
      /\ cur > 0 /\ \A k \in DOMAIN queue : queue[k] \in Nat /\ queue[k] > 0 /\ cur < queue[k]
      /\ cur <= made - left
  BY <1>1, <1>2, Kinds DEF LastLink, InHand, HandedOn, InOrderOnce, None
<1>4. CASE wire' = wire /\ conn' = None
  <2>1. HandedOn' /\ NoDesync' /\ InOrderOnce'
    <3>1. 0 <= made - left
      BY <1>1, <1>3
    <3>2. conn' \notin DOMAIN wire
      BY <1>1, <1>4, Kinds DEF None
    <3> QED
      BY <1>1, <1>2, <1>3, <1>4, <3>1, <3>2 DEF HandedOn, NoDesync, InOrderOnce, None
  <2>2. TypeOK' /\ LastLink' /\ InHand' /\ Endings'
    BY <1>1, <1>2, <1>4 DEF TypeOK, LastLink, InHand, Endings, None
  <2> QED
    BY <2>1, <2>2 DEF IInv
<1>5. ASSUME NEW x \in {Half, cur}, wire' = [wire EXCEPT ![conn] = Append(@, x)],
             conn' = (IF x = Half THEN None ELSE conn)
      PROVE  IInv'
  <2>1. x \in Nat /\ 0 <= x /\ x <= cur /\ x <= made - left /\ (x # Half => x = cur)
    BY <1>1, <1>3 DEF Half
  <2>2. wire' \in Seq(Seq(Nat)) /\ DOMAIN wire' = DOMAIN wire
    BY <1>1, <1>3, <1>5, <2>1, WriteOn
  <2>3. \A c \in DOMAIN wire : \A i \in DOMAIN wire'[c] :
          /\ i \in Nat /\ i <= Len(wire'[c]) /\ Len(wire'[c]) \in Nat
          /\ \/ i \in DOMAIN wire[c] /\ wire'[c][i] = wire[c][i] /\ i <= Len(wire[c])
                /\ (c = conn => i < Len(wire'[c])) /\ (c # conn => Len(wire'[c]) = Len(wire[c]))
             \/ c = conn /\ i = Len(wire'[c]) /\ wire'[c][i] = x
    BY <1>1, <1>3, <1>5, <2>1, WriteOnCases
  <2>4. \A c \in DOMAIN wire : \A i \in DOMAIN wire[c] : wire[c][i] \in Nat /\ wire[c][i] < cur
    BY <1>1, <1>3, Kinds DEF InOrderOnce, None
  <2>5. \A c \in DOMAIN wire : c \in Nat
    BY <1>1, Kinds
  <2>6. HandedOn'
    <3>1. \A c \in DOMAIN wire : \A i \in DOMAIN wire'[c] : wire'[c][i] <= made - left
      BY <1>1, <2>1, <2>3 DEF HandedOn
    <3>2. 0 <= made - left
      BY <1>1, <1>3
    <3> QED
      BY <1>1, <1>2, <2>2, <3>1, <3>2 DEF HandedOn, None
  <2>7. NoDesync'
    <3> SUFFICES ASSUME NEW c \in DOMAIN wire, NEW i \in DOMAIN wire'[c], wire'[c][i] = Half
                 PROVE  i = Len(wire'[c]) /\ c # conn'
      BY <2>2 DEF NoDesync
    <3>1. CASE /\ i \in DOMAIN wire[c] /\ wire'[c][i] = wire[c][i]
               /\ (c # conn => Len(wire'[c]) = Len(wire[c]))
      <4>1. i = Len(wire[c]) /\ c # conn
        BY <1>1, <3>1 DEF NoDesync
      <4>2. c # None
        BY <1>1, Kinds DEF None
      <4> QED
        BY <1>5, <3>1, <4>1, <4>2
    <3>2. CASE c = conn /\ i = Len(wire'[c]) /\ wire'[c][i] = x
      <4>1. x = Half /\ conn' = None /\ c # None
        BY <1>1, <1>5, <3>2, Kinds DEF None
      <4> QED
        BY <3>2, <4>1
    <3> QED
      BY <2>3, <3>1, <3>2
  <2>8. InOrderOnce'
    <3>1. ASSUME NEW c \in DOMAIN wire, NEW d \in DOMAIN wire,
                 NEW i \in DOMAIN wire'[c], NEW j \in DOMAIN wire'[d],
                 c < d \/ (c = d /\ i < j), Half \notin {wire'[c][i], wire'[d][j]}
          PROVE  wire'[c][i] < wire'[d][j]
      <4>1. i \in DOMAIN wire[c] /\ wire'[c][i] = wire[c][i]
        <5> SUFFICES ASSUME c = conn, i = Len(wire'[c]) PROVE FALSE
          BY <2>3
        <5>1. d <= c /\ c \in Nat /\ d \in Nat
          BY <1>3, <2>5
        <5>2. c = d /\ i < j
          BY <3>1, <5>1
        <5>3. j <= Len(wire'[c]) /\ j \in Nat /\ i \in Nat
          BY <2>3, <5>2
        <5> QED
          BY <5>2, <5>3
      <4>2. CASE j \in DOMAIN wire[d] /\ wire'[d][j] = wire[d][j]
        BY <1>1, <3>1, <4>1, <4>2 DEF InOrderOnce
      <4>3. CASE wire'[d][j] = x
        BY <2>1, <2>4, <3>1, <4>1, <4>3
      <4> QED
        BY <2>3, <4>2, <4>3
    <3>2. ASSUME NEW c \in DOMAIN wire, NEW i \in DOMAIN wire'[c], NEW k \in DOMAIN queue
          PROVE  wire'[c][i] < queue[k]
      <4>1. CASE i \in DOMAIN wire[c] /\ wire'[c][i] = wire[c][i]
        BY <1>1, <4>1 DEF InOrderOnce
      <4>2. CASE wire'[c][i] = x
        BY <1>1, <1>3, <2>1, <4>2
      <4> QED
        BY <2>3, <4>1, <4>2
    <3>3. \A k, l \in DOMAIN queue : k < l => queue[k] < queue[l]
      BY <1>1 DEF InOrderOnce
    <3>4. \A k \in DOMAIN queue : None < queue[k]
      BY <1>3 DEF None
    <3> QED
      BY <1>2, <2>2, <3>1, <3>2, <3>3, <3>4 DEF InOrderOnce
  <2>9. TypeOK' /\ LastLink' /\ InHand' /\ Endings'
    <3>1. conn' \in Nat /\ (conn' # None => conn' = conn)
      BY <1>1, <1>5 DEF TypeOK, None
    <3> QED
      BY <1>1, <1>2, <1>3, <2>2, <3>1 DEF TypeOK, LastLink, InHand, Endings, None
  <2> QED
    BY <2>6, <2>7, <2>8, <2>9 DEF IInv
<1> QED
  BY <1>2, <1>4, <1>5

LEMMA StepIInv == IInv /\ [Next]_vars => IInv'
<1> SUFFICES ASSUME IInv, [Next]_vars PROVE IInv'
  OBVIOUS
<1>1. CASE UNCHANGED vars
  BY <1>1 DEF vars, loopVars, channel, shipper, IInv, TypeOK, LastLink, InHand, Endings, HandedOn,
              NoDesync, InOrderOnce
<1>2. CASE EventLoop
  <2>1. CASE Queue
    BY <2>1, QueueKeeps
  <2>2. CASE \/ \E f \in Frame : NextBatch(f)
             \/ Reply \/ PushArms \/ BatchDone \/ EndOfInput \/ Join \/ ReadError
    BY <2>2, LoopKeeps
  <2> QED
    BY <1>2, <2>1, <2>2 DEF EventLoop, LoopStep
<1>3. CASE Shipper
  BY <1>3, ReceiveKeeps, LinkKeeps, WriteKeeps, AroundKeeps DEF Shipper
<1>4. CASE RetryDue \/ BackendChanges
  BY <1>4, AroundKeeps
<1> QED
  BY <1>1, <1>2, <1>3, <1>4 DEF Next

-----------------------------------------------------------------------------
(* The theorems *)

(***************************************************************************)
(* The inductive invariant: the stream is the last connection made, the    *)
(* shipper has a record in hand just while it writes or dials, the sender  *)
(* goes before the shipper, and every record about is among those handed on.*)
(***************************************************************************)
THEOREM Inductive == Spec => []IInv
<1> QED
  BY InitIInv, StepIInv, PTL DEF Spec

(***************************************************************************)
(* Nothing follows half a record on a connection (Uplink::ship).           *)
(***************************************************************************)
THEOREM NothingFollowsHalf == Spec => []NoDesync
<1>1. IInv => NoDesync
  BY DEF IInv
<1> QED
  BY <1>1, Inductive, PTL

(***************************************************************************)
(* Records leave in the order the engine made them, each at most once, over*)
(* all reconnections and whatever the full queue drops (shipper_loop).     *)
(***************************************************************************)
THEOREM InOrder == Spec => []InOrderOnce
<1>1. IInv => InOrderOnce
  BY DEF IInv
<1> QED
  BY <1>1, Inductive, PTL

(***************************************************************************)
(* A clean exit leaves nothing queued and nothing in hand (main's join);   *)
(* what was taken while the link was down may have been dropped.           *)
(***************************************************************************)
THEOREM ExitDrains == Spec => []DrainedOnExit
<1>1. IInv => DrainedOnExit
  BY DEF IInv, Endings, InHand, DrainedOnExit
<1> QED
  BY <1>1, Inductive, PTL
=============================================================================
