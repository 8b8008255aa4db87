------------------------------ MODULE Doorbell ------------------------------
(***************************************************************************)
(* When the service may sleep on an empty ring, and who wakes it: the two  *)
(* halves of the Dekker pattern in should_sleep (ringbuf.rs, called by     *)
(* wait_doorbell of ring.rs) and at the end of Publish (Ring.cpp).  The    *)
(* contents of the ring are module RingBuf's; here a frame is its number.  *)
(*                                                                         *)
(* Memory is x86-TSO: plain stores wait in the writer's buffer, in order,  *)
(* until they drain; a fence and an interlocked operation wait for that.   *)
(***************************************************************************)
EXTENDS Integers, Sequences

CONSTANTS Producers,   \* threads running driver callbacks
          MaxFrames    \* bound: no more frames than this are reserved

ASSUME MaxFramesAssumption == MaxFrames \in Nat

VARIABLES head,        \* how many frames are reserved
          mirror,      \* how many of them head_mirror shows
          frame,       \* frame -> "open", "ready" or "void", in memory
          state,       \* consumer_state, in memory
          doorbell,    \* the auto-reset event is signalled
          prod,        \* producer -> its pc and the frame it reserved
          pbuf,        \* producer -> its buffered commits
          cpc, taken,  \* the consumer's pc, and the frames it advanced over
          cbuf         \* the consumer's buffered stores to consumer_state

doorbellVars == <<head, mirror, frame, state, doorbell, prod, pbuf, cpc, taken, cbuf>>
ring == <<head, mirror, frame>>

NoFrame == [pc |-> "idle", n |-> 0]
ProducerGoto(p, pc) == prod' = [prod EXCEPT ![p].pc = pc]

DoorbellInit ==
    /\ head = 0 /\ mirror = 0
    /\ frame = [n \in 1 .. MaxFrames |-> "open"]
    /\ state = "running" /\ doorbell = FALSE
    /\ prod = [p \in Producers |-> NoFrame]
    /\ pbuf = [p \in Producers |-> <<>>]
    /\ cpc = "poll" /\ taken = 0 /\ cbuf = <<>>
-----------------------------------------------------------------------------
\* Reserve: an interlocked operation, so what p committed before has drained.
Reserve(p) ==
    /\ prod[p].pc = "idle" /\ pbuf[p] = <<>>
    /\ head < MaxFrames
    /\ head' = head + 1
    /\ prod' = [prod EXCEPT ![p] = [pc |-> "mirror", n |-> head + 1]]
    /\ UNCHANGED <<mirror, frame, state, doorbell, pbuf, cpc, taken, cbuf>>

\* PublishMax64.
PublishMirror(p) ==
    /\ prod[p].pc = "mirror"
    /\ mirror' = IF prod[p].n > mirror THEN prod[p].n ELSE mirror
    /\ ProducerGoto(p, "commit")
    /\ UNCHANGED <<head, frame, state, doorbell, pbuf, cpc, taken, cbuf>>

\* The store of TotalSize, when Serialize succeeded.
Commit(p) ==
    /\ prod[p].pc = "commit"
    /\ pbuf' = [pbuf EXCEPT ![p] = Append(@, <<prod[p].n, "ready">>)]
    /\ ProducerGoto(p, "fence")
    /\ UNCHANGED <<ring, state, doorbell, cpc, taken, cbuf>>

\* Serialize failed: the slot becomes a pad, and Publish returns at once.
CommitVoid(p) ==
    /\ prod[p].pc = "commit"
    /\ pbuf' = [pbuf EXCEPT ![p] = Append(@, <<prod[p].n, "void">>)]
    /\ prod' = [prod EXCEPT ![p] = NoFrame]
    /\ UNCHANGED <<ring, state, doorbell, cpc, taken, cbuf>>

\* KeMemoryBarrier, fence(SeqCst) of needs_doorbell.
ProducerFence(p) ==
    /\ prod[p].pc = "fence" /\ pbuf[p] = <<>>
    /\ ProducerGoto(p, "check")
    /\ UNCHANGED <<ring, state, doorbell, pbuf, cpc, taken, cbuf>>

\* needs_doorbell, and KeSetEvent.
Ring(p) ==
    /\ prod[p].pc = "check"
    /\ doorbell' = (doorbell \/ state = "sleeping")
    /\ prod' = [prod EXCEPT ![p] = NoFrame]
    /\ UNCHANGED <<ring, state, pbuf, cpc, taken, cbuf>>

DrainProducer(p) ==
    /\ pbuf[p] # <<>>
    /\ frame' = [frame EXCEPT ![pbuf[p][1][1]] = pbuf[p][1][2]]
    /\ pbuf' = [pbuf EXCEPT ![p] = Tail(@)]
    /\ UNCHANGED <<head, mirror, state, doorbell, prod, cpc, taken, cbuf>>
-----------------------------------------------------------------------------
\* next finds a frame or a pad at tail and the caller advances over it.
TakeFrame ==
    /\ taken < mirror
    /\ \/ cpc = "poll" /\ frame[taken + 1] # "open"
       \/ cpc = "recheck" /\ frame[taken + 1] = "void"
    /\ taken' = taken + 1
    /\ UNCHANGED <<ring, state, doorbell, prod, pbuf, cpc, cbuf>>

\* next_batch found nothing SPINS_BEFORE_SLEEP times: publish SLEEPING.
Announce ==
    /\ cpc = "poll" /\ taken = mirror
    /\ cbuf' = Append(cbuf, "sleeping")
    /\ cpc' = "fence"
    /\ UNCHANGED <<ring, state, doorbell, prod, pbuf, taken>>

\* Fault: the fence of should_sleep is left out, or is only release/acquire.
NoFence ==
    /\ cpc = "fence"
    /\ cpc' = "recheck"
    /\ UNCHANGED <<ring, state, doorbell, prod, pbuf, taken, cbuf>>

\* fence(SeqCst) of should_sleep.
ConsumerFence ==
    /\ cpc = "fence" /\ cbuf = <<>>
    /\ cpc' = "recheck"
    /\ UNCHANGED <<ring, state, doorbell, prod, pbuf, taken, cbuf>>

\* Fault: should_sleep trusts the look it had before it announced.
NoRecheck ==
    /\ cpc = "recheck"
    /\ cpc' = "block"
    /\ UNCHANGED <<ring, state, doorbell, prod, pbuf, taken, cbuf>>

\* The second look of should_sleep: only NoData is a reason to block.
Recheck ==
    /\ cpc = "recheck"
    /\ taken < mirror => frame[taken + 1] # "void"
    /\ cpc' = IF taken = mirror THEN "block" ELSE "awake"
    /\ UNCHANGED <<ring, state, doorbell, prod, pbuf, taken, cbuf>>

\* WaitForSingleObject on the doorbell ...
Wake ==
    /\ cpc = "block" /\ doorbell
    /\ doorbell' = FALSE
    /\ cpc' = "awake"
    /\ UNCHANGED <<ring, state, prod, pbuf, taken, cbuf>>

\* ... or its quantum DOORBELL_WAIT_MS lapses.
Lapse ==
    /\ cpc = "block" /\ ~doorbell
    /\ cpc' = "awake"
    /\ UNCHANGED <<ring, state, doorbell, prod, pbuf, taken, cbuf>>

\* awake, and the false branch of should_sleep: publish RUNNING.
Awake ==
    /\ cpc = "awake"
    /\ cbuf' = Append(cbuf, "running")
    /\ cpc' = "poll"
    /\ UNCHANGED <<ring, state, doorbell, prod, pbuf, taken>>

DrainConsumer ==
    /\ cbuf # <<>>
    /\ state' = cbuf[1]
    /\ cbuf' = Tail(cbuf)
    /\ UNCHANGED <<ring, doorbell, prod, pbuf, cpc, taken>>
-----------------------------------------------------------------------------
Finish(p) ==
    PublishMirror(p) \/ Commit(p) \/ CommitVoid(p) \/ ProducerFence(p) \/ Ring(p)

Consume == TakeFrame \/ Announce \/ ConsumerFence \/ Recheck \/ Wake \/ Awake

DoorbellNext ==
    \/ \E p \in Producers : Reserve(p) \/ Finish(p) \/ DrainProducer(p)
    \/ Consume \/ Lapse \/ DrainConsumer

\* A callback runs on, the service polls, and stores drain; that the wait lapses
\* is not counted on, so that what holds does so by the doorbell alone.
DoorbellSpec ==
    /\ DoorbellInit /\ [][DoorbellNext]_doorbellVars
    /\ \A p \in Producers : WF_doorbellVars(Finish(p)) /\ WF_doorbellVars(DrainProducer(p))
    /\ WF_doorbellVars(Consume) /\ WF_doorbellVars(DrainConsumer)
-----------------------------------------------------------------------------
(***************************************************************************)
(* No lost wakeup: the service is not blocked on a ring that holds a       *)
(* committed frame unless the doorbell is signalled, or a producer is yet  *)
(* to look at consumer_state (should_sleep, Publish).                      *)
(***************************************************************************)
NoLostWakeup ==
    (/\ cpc = "block"
     /\ \E n \in taken + 1 .. mirror : frame[n] = "ready"
     /\ \A p \in Producers : prod[p].pc \notin {"fence", "check"})
    => doorbell

(***************************************************************************)
(* Every committed frame is taken, although the service sleeps whenever the*)
(* ring is empty and no timeout comes to its help.                         *)
(***************************************************************************)
EveryFrameTaken ==
    \A n \in 1 .. MaxFrames : frame[n] = "ready" ~> taken >= n
=============================================================================
