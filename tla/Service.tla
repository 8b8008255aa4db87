------------------------------ MODULE Service ------------------------------
(***************************************************************************)
(* The endpoint service (main.rs): the event loop takes a frame from the   *)
(* sensor, runs it through the engine, answers it, pushes the arms it      *)
(* caused, and hands its records to a bounded queue; the shipper thread    *)
(* drains the queue into a TCP connection to the backend and reconnects by *)
(* itself.  A record is its number in the order the engine produced it.    *)
(* The backend and the network are outside: a connection is what was       *)
(* written into it.                                                        *)
(***************************************************************************)
EXTENDS Integers, Sequences

CONSTANTS QueueCap,  \* SHIP_QUEUE_CAP
          MaxFrames, \* bound: how many frames the sensor sends
          MaxWire,   \* bound: how many records a frame makes
          MaxConns   \* bound: how many connections are made

ASSUME ServiceAssumption ==
    QueueCap \in Nat \ {0} /\ {MaxFrames, MaxWire, MaxConns} \subseteq Nat \ {0}

Half == 0   \* a record of which a part was written
None == 0   \* no connection, or no record

Frame == [reply : BOOLEAN, decodes : BOOLEAN, wire : 0 .. MaxWire]

VARIABLES loop,      \* the event loop: reading, replying, arming, shipping, joining, exited, failed
          frames,    \* frames read so far
          made,      \* records produced so far
          left,      \* records of the frame in hand not yet handed on
          queue, open,    \* the channel: its contents, and whether the sender is alive
          ship, cur,      \* the shipper: receiving, connecting, writing, done, dead; its record
          conn, throttled,\* Uplink: the stream, and whether next_retry is still to come
          wire,      \* what was written into each connection
          backend    \* a connection attempt would succeed

loopVars == <<loop, frames, made, left>>
channel == <<queue, open>>
shipper == <<ship, cur, conn, throttled, wire>>
vars == <<loopVars, channel, shipper, backend>>

\* main connects before it opens the source, or does not start.
Init == /\ loop = "reading" /\ frames = 0 /\ made = 0 /\ left = 0
        /\ queue = <<>> /\ open = TRUE
        /\ ship = "receiving" /\ cur = None
        /\ conn = 1 /\ throttled = FALSE
        /\ wire = <<<<>>>>
        /\ backend = TRUE

----------------------------------------------------------------------------
(* The event loop.                                                         *)

\* A batch that does not decode is skipped, its reply with it.
NextBatch(f) ==
    /\ loop = "reading"
    /\ frames < MaxFrames
    /\ frames' = frames + 1
    /\ IF f.decodes
         THEN /\ loop' = IF f.reply THEN "replying" ELSE "arming"
              /\ made' = made + f.wire
              /\ left' = f.wire
         ELSE UNCHANGED <<loop, made, left>>
    /\ UNCHANGED <<channel, shipper, backend>>

\* An error of the reply or of the push is logged, and the loop goes on.
Reply == /\ loop = "replying"
         /\ loop' = "arming"
         /\ UNCHANGED <<frames, made, left, channel, shipper, backend>>

PushArms == /\ loop = "arming"
            /\ loop' = "shipping"
            /\ UNCHANGED <<frames, made, left, channel, shipper, backend>>

\* try_send: a full queue drops the record.
Queue == /\ loop = "shipping"
         /\ left > 0
         /\ left' = left - 1
         /\ queue' = IF Len(queue) < QueueCap THEN Append(queue, made - left + 1) ELSE queue
         /\ UNCHANGED <<loop, frames, made, open, shipper, backend>>

BatchDone == /\ loop = "shipping"
             /\ left = 0
             /\ loop' = "reading"
             /\ UNCHANGED <<frames, made, left, channel, shipper, backend>>

\* The source is at its end: the sender is dropped and the shipper awaited.
EndOfInput == /\ loop = "reading"
              /\ loop' = "joining"
              /\ open' = FALSE
              /\ UNCHANGED <<frames, made, left, queue, shipper, backend>>

Join == /\ loop = "joining"
        /\ ship = "done"
        /\ loop' = "exited"
        /\ UNCHANGED <<frames, made, left, channel, shipper, backend>>

\* A read error returns from main at once, and the shipper dies with it.
ReadError == /\ loop = "reading"
             /\ loop' = "failed"
             /\ ship' = "dead"
             /\ UNCHANGED <<frames, made, left, channel, cur, conn, throttled, wire, backend>>

----------------------------------------------------------------------------
(* The shipper.                                                            *)

Receive == /\ ship = "receiving"
           /\ queue # <<>>
           /\ cur' = Head(queue) /\ queue' = Tail(queue)
           /\ ship' = IF conn = None THEN "connecting" ELSE "writing"
           /\ UNCHANGED <<loopVars, open, conn, throttled, wire, backend>>

\* try_reconnect, when the throttle lets it; next_retry is set either way.
Dial == /\ ~throttled
        /\ throttled' = TRUE
        /\ IF backend /\ Len(wire) < MaxConns
             THEN wire' = Append(wire, <<>>) /\ conn' = Len(wire) + 1
             ELSE UNCHANGED <<wire, conn>>

\* A record in hand while the link is down goes out on the link it makes, or
\* is lost.
Connect == /\ ship = "connecting"
           /\ Dial \/ (throttled /\ UNCHANGED <<throttled, wire, conn>>)
           /\ IF conn' = None THEN ship' = "receiving" /\ cur' = None
                              ELSE ship' = "writing" /\ UNCHANGED cur
           /\ UNCHANGED <<loopVars, channel, backend>>

\* Fault: the idle shipper does not look after the link.
TickOnlyWaits == FALSE /\ UNCHANGED vars

\* Nothing came for a second.
Tick == /\ ship = "receiving"
        /\ queue = <<>> /\ open
        /\ conn = None
        /\ Dial
        /\ UNCHANGED <<loopVars, channel, ship, cur, backend>>

Written == /\ ship = "writing"
           /\ wire' = [wire EXCEPT ![conn] = Append(@, cur)]
           /\ ship' = "receiving" /\ cur' = None
           /\ UNCHANGED <<loopVars, channel, conn, throttled, backend>>

\* Fault: the stream is kept for the next record.
WriteFailsKeepsStream ==
    /\ ship = "writing"
    /\ wire' \in {wire, [wire EXCEPT ![conn] = Append(@, Half)]}
    /\ ship' = "receiving" /\ cur' = None
    /\ UNCHANGED <<loopVars, channel, conn, throttled, backend>>

\* Fault: the record is queued again, behind those that came meanwhile.
WriteFailsRequeues ==
    /\ ship = "writing"
    /\ wire' \in {wire, [wire EXCEPT ![conn] = Append(@, Half)]}
    /\ conn' = None /\ throttled' = TRUE
    /\ queue' = Append(queue, cur)
    /\ ship' = "receiving" /\ cur' = None
    /\ UNCHANGED <<loopVars, open, backend>>

\* A reset, or a write that times out, perhaps in the middle of the record: the
\* stream is abandoned and the record with it.
WriteFails == /\ ship = "writing"
              /\ wire' \in {wire, [wire EXCEPT ![conn] = Append(@, Half)]}
              /\ conn' = None /\ throttled' = TRUE
              /\ ship' = "receiving" /\ cur' = None
              /\ UNCHANGED <<loopVars, channel, backend>>

\* Fault: the shipper stops when the sender is gone, whatever is queued.
DisconnectedAtOnce == /\ ship = "receiving"
                      /\ ~open
                      /\ ship' = "done"
                      /\ UNCHANGED <<loopVars, channel, cur, conn, throttled, wire, backend>>

\* The sender is gone and the queue drained.
Disconnected == /\ ship = "receiving"
                /\ queue = <<>> /\ ~open
                /\ ship' = "done"
                /\ UNCHANGED <<loopVars, channel, cur, conn, throttled, wire, backend>>

----------------------------------------------------------------------------
(* The clock and the backend.                                              *)

\* Half a second has passed since the throttle was set.
RetryDue == /\ throttled
            /\ throttled' = FALSE
            /\ UNCHANGED <<loopVars, channel, ship, cur, conn, wire, backend>>

BackendChanges == /\ backend' = ~backend
                  /\ UNCHANGED <<loopVars, channel, shipper>>

----------------------------------------------------------------------------

LoopStep == Reply \/ PushArms \/ Queue \/ BatchDone
EventLoop == \/ LoopStep \/ EndOfInput \/ Join \/ ReadError
             \/ \E f \in Frame : NextBatch(f)
Shipper == Receive \/ Connect \/ Tick \/ Written \/ WriteFails \/ Disconnected

Next == EventLoop \/ Shipper \/ RetryDue \/ BackendChanges

Spec == Init /\ [][Next]_vars

\* The event loop's thread runs.  Nothing is asked of the shipper, the network
\* or the backend here: the writes of a stuck backend may take forever.
FairSpec == Spec /\ WF_vars(LoopStep)

----------------------------------------------------------------------------

\* The backend gets records whole, up to one that broke off and ended its
\* connection: nothing follows half a record.
NoDesync ==
    \A c \in DOMAIN wire : \A i \in DOMAIN wire[c] :
        wire[c][i] = Half => i = Len(wire[c]) /\ c # conn

\* Records go out in the order the engine made them and none goes out twice,
\* over all connections and whatever was dropped between: what was written, the
\* record in hand and what is queued are in order.
InOrderOnce ==
    /\ \A c, d \in DOMAIN wire : \A i \in DOMAIN wire[c], j \in DOMAIN wire[d] :
          /\ c < d \/ (c = d /\ i < j)
          /\ Half \notin {wire[c][i], wire[d][j]}
          => wire[c][i] < wire[d][j]
    /\ \A c \in DOMAIN wire : \A i \in DOMAIN wire[c] :
          /\ cur # None => wire[c][i] < cur
          /\ \A k \in DOMAIN queue : wire[c][i] < queue[k]
    /\ \A k \in DOMAIN queue : cur < queue[k]
    /\ \A k, l \in DOMAIN queue : k < l => queue[k] < queue[l]

\* When the service has exited cleanly the shipper has taken everything queued, and
\* is through with it: it was sent, or dropped because a write failed or the link was
\* down.
DrainedOnExit == loop = "exited" => queue = <<>> /\ cur = None

\* If the shipper gets to run and the clock goes on, the backend staying up
\* brings the link back up, with or without traffic.
LinkRecovers ==
    WF_vars(Shipper) /\ WF_vars(RetryDue) =>
        ((<>[]backend /\ <>[](Len(wire) < MaxConns)) =>
            []<>(conn # None \/ ~open \/ ship \in {"done", "dead"}))
=============================================================================
