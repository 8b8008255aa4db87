------------------------------ MODULE Verdicts ------------------------------
(***************************************************************************)
(* Synchronous enforcement: EnforceSync and PendingVerdicts of Ring.cpp,   *)
(* and what answers them: the service's reply (main.rs, reply of ring.rs)  *)
(* and whatever else comes as C_VERDICT over the port (MiniFilter.cpp),    *)
(* for the driver does not trust the service.  Driver threads publish a    *)
(* request and block on an event that lives on their own stack, for at     *)
(* most VERDICT_TIMEOUT; a spinlock makes each operation on the table of   *)
(* slots one step.                                                         *)
(*                                                                         *)
(* The ring is a FIFO of request ids (modules RingBuf and RingQueue).  Ids *)
(* are numbers that do not wrap: a lap of the 32-bit counter is longer     *)
(* than any reply can lag.                                                 *)
(***************************************************************************)
EXTENDS Integers, Sequences, FiniteSets

CONSTANTS Threads,   \* driver threads in EnforceSync
          Cap,       \* PendingVerdicts::CAP
          MaxReqs    \* bound: no more requests than this are made

ASSUME MaxReqsAssumption == MaxReqs \in Nat

VARIABLES nextReq,   \* _next_req_id
          slots,     \* the used slots: req id -> [owner, deny]
          thread,    \* thread -> its locals in EnforceSync
          event,     \* thread -> the KEVENT on its stack is signalled
          queue,     \* the requests in the ring
          serving,   \* the request the service answers next, 0 if none
          judged     \* history: the requests answered while they had a slot, or
                     \* just had -> what the last of those answers was

vars == <<nextReq, slots, thread, event, queue, serving, judged>>

Ids == 0 .. MaxReqs
Idle == [pc |-> "idle", req |-> 0, status |-> "none", deny |-> FALSE]
Goto(t, pc) == thread' = [thread EXCEPT ![t].pc = pc]
Without(req) == [r \in DOMAIN slots \ {req} |-> slots[r]]
With(req, slot) == [r \in DOMAIN slots \union {req} |-> IF r = req THEN slot ELSE slots[r]]

Init ==
    /\ nextReq = 0
    /\ slots = <<>>
    /\ thread = [t \in Threads |-> Idle]
    /\ event = [t \in Threads |-> FALSE]
    /\ queue = <<>> /\ serving = 0
    /\ judged = <<>>
-----------------------------------------------------------------------------
\* EnforceSync: a fresh id, and a fresh event on the stack.
Begin(t) ==
    /\ thread[t].pc = "idle"
    /\ nextReq < MaxReqs
    /\ nextReq' = nextReq + 1
    /\ thread' = [thread EXCEPT ![t] = [Idle EXCEPT !.pc = "add", !.req = nextReq + 1]]
    /\ UNCHANGED <<slots, event, queue, serving, judged>>

\* Add: the table has a free slot ...
Add(t) ==
    /\ thread[t].pc = "add"
    /\ Cardinality(DOMAIN slots) < Cap
    /\ slots' = With(thread[t].req, [owner |-> t, deny |-> FALSE])
    /\ Goto(t, "publish")
    /\ UNCHANGED <<nextReq, event, queue, serving, judged>>

\* ... or has not: fail open.
TableFull(t) ==
    /\ thread[t].pc = "add"
    /\ Cardinality(DOMAIN slots) >= Cap
    /\ thread' = [thread EXCEPT ![t].pc = "returned", ![t].status = "full"]
    /\ UNCHANGED <<nextReq, slots, event, queue, serving, judged>>

\* Publish puts the request in the ring ...
Publish(t) ==
    /\ thread[t].pc = "publish"
    /\ queue' = Append(queue, thread[t].req)
    /\ Goto(t, "wait")
    /\ UNCHANGED <<nextReq, slots, event, serving, judged>>

\* ... or fails, for want of a service, of room or of memory: give the slot back.
PublishFails(t) ==
    /\ thread[t].pc = "publish"
    /\ slots' = Without(thread[t].req)
    /\ thread' = [thread EXCEPT ![t].pc = "returned", ![t].status = "unpublished"]
    /\ UNCHANGED <<nextReq, event, queue, serving, judged>>

\* KeWaitForSingleObject returns because the event is signalled ...
Woken(t) ==
    /\ thread[t].pc = "wait" /\ event[t]
    /\ thread' = [thread EXCEPT ![t].pc = "take", ![t].status = "success"]
    /\ UNCHANGED <<nextReq, slots, event, queue, serving, judged>>

\* Fault: the wait is for ever.
NoTimeout(t) == FALSE

\* ... or because the second is over.
TimedOut(t) ==
    /\ thread[t].pc = "wait" /\ ~event[t]
    /\ thread' = [thread EXCEPT ![t].pc = "take", ![t].status = "timeout"]
    /\ UNCHANGED <<nextReq, slots, event, queue, serving, judged>>

\* Fault: a thread that timed out leaves its slot for the late answer to free.
TakeOnSuccess(t) ==
    /\ thread[t].pc = "take"
    /\ thread' = [thread EXCEPT ![t].pc = "returned",
                    ![t].deny = thread[t].status = "success" /\ slots[thread[t].req].deny]
    /\ slots' = IF thread[t].status = "success" THEN Without(thread[t].req) ELSE slots
    /\ UNCHANGED <<nextReq, event, queue, serving, judged>>

\* Fault: the slot's value is believed whatever the wait said.
TakeAnyway(t) ==
    /\ thread[t].pc = "take"
    /\ thread' = [thread EXCEPT ![t].pc = "returned", ![t].deny = slots[thread[t].req].deny]
    /\ slots' = Without(thread[t].req)
    /\ UNCHANGED <<nextReq, event, queue, serving, judged>>

\* Take frees the slot in any case; its value counts only if the wait succeeded.
Take(t) ==
    /\ thread[t].pc = "take"
    /\ thread' = [thread EXCEPT ![t].pc = "returned",
                    ![t].deny = thread[t].status = "success" /\ slots[thread[t].req].deny]
    /\ slots' = Without(thread[t].req)
    /\ UNCHANGED <<nextReq, event, queue, serving, judged>>

\* The caller acts on what EnforceSync returned; its stack frame is gone.
Return(t) ==
    /\ thread[t].pc = "returned"
    /\ thread' = [thread EXCEPT ![t] = Idle]
    /\ event' = [event EXCEPT ![t] = FALSE]
    /\ judged' = [r \in DOMAIN judged \ {thread[t].req} |-> judged[r]]
    /\ UNCHANGED <<nextReq, slots, queue, serving>>
-----------------------------------------------------------------------------
\* next_batch: the service picks up the request and remembers its id.
Receive ==
    /\ queue # <<>> /\ serving = 0
    /\ serving' = Head(queue)
    /\ queue' = Tail(queue)
    /\ UNCHANGED <<nextReq, slots, thread, event, judged>>

\* process_batch does not parse it: main.rs goes on without a reply.
GiveUp ==
    /\ serving # 0
    /\ serving' = 0
    /\ UNCHANGED <<nextReq, slots, thread, event, queue, judged>>

\* Fault: the first used slot is completed, whoever it belongs to.
CompletesAnySlot(req) == DOMAIN slots

\* Complete looks for the request by its id.
Completed(req) == DOMAIN slots \intersect {req}

\* The requests whose threads are between Add and Take.
Asking == {thread[t].req : t \in {u \in Threads : thread[u].pc \in {"publish", "wait", "take"}}}

\* CompleteVerdict: record and signal if the slot is there; an answer nobody waits
\* for is dropped.
CompleteVerdict(req, deny) ==
    /\ judged' = [r \in DOMAIN judged \union (Asking \intersect {req}) |->
                    IF r = req /\ req \in Asking THEN deny ELSE judged[r]]
    /\ IF Completed(req) = {}
         THEN UNCHANGED <<slots, event>>
         ELSE \E r \in Completed(req) :
                /\ slots' = [slots EXCEPT ![r].deny = deny]
                /\ event' = [event EXCEPT ![slots[r].owner] = TRUE]

\* reply: the service answers the request it has picked up.
Reply(deny) ==
    /\ serving # 0
    /\ CompleteVerdict(serving, deny)
    /\ serving' = 0
    /\ UNCHANGED <<nextReq, thread, queue>>

\* The port takes any other C_VERDICT too: a second one, which may contradict the
\* first, one ahead of the request, one for a request long gone or for none.
Stray(req, deny) ==
    /\ CompleteVerdict(req, deny)
    /\ UNCHANGED <<nextReq, thread, queue, serving>>
-----------------------------------------------------------------------------
Enforce(t) ==
    \/ Add(t) \/ TableFull(t) \/ Publish(t) \/ PublishFails(t)
    \/ Woken(t) \/ TimedOut(t) \/ Take(t) \/ Return(t)

Next ==
    \/ \E t \in Threads : Begin(t) \/ Enforce(t)
    \/ Receive \/ GiveUp
    \/ \E deny \in BOOLEAN : Reply(deny) \/ \E req \in Ids : Stray(req, deny)

\* A thread in EnforceSync runs, and its wait ends; the service may do nothing.
Spec == Init /\ [][Next]_vars /\ \A t \in Threads : WF_vars(Enforce(t))
-----------------------------------------------------------------------------
(***************************************************************************)
(* A slot points to the event of the thread that waits for that request    *)
(* and is still inside EnforceSync, and such a thread has its slot: no     *)
(* answer, however late, signals an event on a stack that is gone, and no  *)
(* slot leaks until the table fails everyone open (Add, Complete, Take).   *)
(***************************************************************************)
SlotsMatchWaiters ==
    /\ \A r \in DOMAIN slots : thread[slots[r].owner].req = r
    /\ {thread[t].req : t \in {u \in Threads : thread[u].pc \in {"publish", "wait", "take"}}}
         = DOMAIN slots

(***************************************************************************)
(* An operation is denied only on an answer to that very request that came *)
(* while it had its slot, whatever is answered about other requests, and   *)
(* every other outcome fails open (EnforceSync).                           *)
(***************************************************************************)
DeniedOnlyOnItsVerdict ==
    \A t \in Threads : thread[t].pc = "returned" /\ thread[t].deny =>
        /\ thread[t].status = "success"
        /\ thread[t].req \in DOMAIN judged
        /\ judged[thread[t].req]

(***************************************************************************)
(* A thread whose wait succeeded acts on the last answer to its request    *)
(* that came before it took its slot away: a denial that came in time is   *)
(* lost only to an answer about the same request, not to those about       *)
(* others, nor to the threads that time out around it (Complete, Take).    *)
(***************************************************************************)
VerdictObeyed ==
    \A t \in Threads : thread[t].pc = "returned" /\ thread[t].status = "success" =>
        /\ thread[t].req \in DOMAIN judged
        /\ thread[t].deny = judged[thread[t].req]

(***************************************************************************)
(* Whatever the service does, or fails to do, no thread stays in           *)
(* EnforceSync for ever: a wedged service cannot wedge the machine.        *)
(***************************************************************************)
EveryoneReturns == \A t \in Threads : []<>(thread[t].pc = "idle")
=============================================================================
