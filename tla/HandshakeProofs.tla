-------------------------- MODULE HandshakeProofs --------------------------
(***************************************************************************)
(* Theorems about the two places where the driver and the service wait for *)
(* each other: the verdict table, on which a driver thread waits (module   *)
(* Verdicts), and the doorbell, on which the service does (Doorbell).      *)
(*                                                                         *)
(* Verdicts, for any number of threads, requests and slots: slots are      *)
(* those of the threads that wait, and a thread acts on the last answer    *)
(* about its own request or fails open, whatever the service answers and   *)
(* how often.  What has to be known beyond the three properties: a request *)
(* is asked by one thread; and an event that is signalled was signalled    *)
(* for the slot its thread will take, with the answer that is in it.       *)
(***************************************************************************)
EXTENDS Verdicts, Doorbell, SequenceTheorems, TLAPS

-----------------------------------------------------------------------------
Waiting == {"publish", "wait", "take"}

Steps == {"idle", "add", "publish", "wait", "take", "returned"}
Statuses == {"none", "full", "unpublished", "success", "timeout"}
ThreadStates == [pc : Steps, req : Nat, status : Statuses, deny : BOOLEAN]

TypeOK ==
    /\ nextReq \in Nat
    /\ DOMAIN slots \subseteq 1 .. nextReq
    /\ \A r \in DOMAIN slots : slots[r] \in [owner : Threads, deny : BOOLEAN]
    /\ thread \in [Threads -> ThreadStates]
    /\ event \in [Threads -> BOOLEAN]
    /\ queue \in Seq(1 .. nextReq)
    /\ serving \in 0 .. nextReq
    /\ DOMAIN judged \subseteq 1 .. nextReq

\* A request belongs to one thread.
RequestsDistinct ==
    /\ \A t \in Threads : IF thread[t].pc = "idle" THEN thread[t].req = 0
                                                   ELSE thread[t].req \in 1 .. nextReq
    /\ \A t, u \in Threads : thread[t].req = thread[u].req /\ thread[t].req # 0 => t = u

\* Whose slot it is waits, for that very request.
OwnersWait ==
    /\ \A r \in DOMAIN slots : LET u == thread[slots[r].owner] IN u.req = r /\ u.pc \in Waiting
    /\ \A t \in Threads : thread[t].pc \in Waiting =>
          thread[t].req \in DOMAIN slots /\ slots[thread[t].req].owner = t

\* A signalled event comes with the verdict in the slot its thread will take.
SignalledIsJudged ==
    \A t \in Threads : event[t] =>
        /\ thread[t].pc \notin {"idle", "add"}
        /\ thread[t].pc \in Waiting => /\ thread[t].req \in DOMAIN judged
                                       /\ slots[thread[t].req].deny = judged[thread[t].req]

SuccessWasSignalled ==
    \A t \in Threads :
        /\ thread[t].pc = "take" /\ thread[t].status = "success" => event[t]
        /\ thread[t].deny => thread[t].pc = "returned" /\ thread[t].status = "success"

IInv == /\ TypeOK /\ RequestsDistinct /\ OwnersWait
        /\ SignalledIsJudged /\ SuccessWasSignalled /\ VerdictObeyed
-----------------------------------------------------------------------------
LEMMA InitIInv == Init => IInv
<1> SUFFICES ASSUME Init PROVE IInv
  OBVIOUS
<1> USE DEF Init
<1>1. \A t \in Threads : thread[t] = Idle /\ ~ event[t]
  OBVIOUS
<1>2. TypeOK
  <2>1. thread \in [Threads -> ThreadStates]
    BY DEF Idle, ThreadStates, Steps, Statuses
  <2>2. event \in [Threads -> BOOLEAN]
    OBVIOUS
  <2>3. queue \in Seq(1 .. nextReq)
    BY EmptySeq
  <2>4. nextReq \in Nat /\ serving \in 0 .. nextReq
    OBVIOUS
  <2>5. DOMAIN slots = {} /\ DOMAIN judged = {}
    OBVIOUS
  <2> QED
    BY <2>1, <2>2, <2>3, <2>4, <2>5 DEF TypeOK
<1>4. DOMAIN slots = {} /\ DOMAIN judged = {}
  OBVIOUS
<1>5. RequestsDistinct /\ OwnersWait
  BY <1>1, <1>4 DEF RequestsDistinct, OwnersWait, Idle, Waiting
<1>7. SignalledIsJudged /\ SuccessWasSignalled /\ VerdictObeyed
  BY <1>1 DEF SignalledIsJudged, SuccessWasSignalled, VerdictObeyed, Idle
<1> QED
  BY <1>2, <1>5, <1>7 DEF IInv

(***************************************************************************)
(* A thread asks with a request nobody had.                                *)
(***************************************************************************)
LEMMA BeginKeeps ==
    ASSUME IInv, NEW t \in Threads, Begin(t)
    PROVE  IInv'
<1> USE DEF IInv, Begin
<1>1. \A u \in Threads : IF u = t THEN /\ thread'[u].pc = "add" /\ thread'[u].req = nextReq + 1
                                        /\ thread'[u].status = "none" /\ ~ thread'[u].deny
                                   ELSE thread'[u] = thread[u]
  BY DEF TypeOK, Idle
<1>2. nextReq' = nextReq + 1 /\ nextReq' \in Nat /\ nextReq \in Nat
  BY DEF TypeOK
<1>3. TypeOK'
  <2>1. thread' \in [Threads -> ThreadStates]
    BY <1>2 DEF TypeOK, ThreadStates, Steps, Statuses, Idle
  <2>2. queue' \in Seq(1 .. nextReq')
    BY <1>2, SeqMonotonic, 1 .. nextReq \subseteq 1 .. nextReq' DEF TypeOK
  <2> QED
    BY <1>2, <2>1, <2>2 DEF TypeOK
<1>4. RequestsDistinct'
  BY <1>1, <1>2 DEF RequestsDistinct
<1>5. OwnersWait'
  BY <1>1 DEF OwnersWait, Waiting, TypeOK
<1>7. SignalledIsJudged' /\ SuccessWasSignalled' /\ VerdictObeyed'
  BY <1>1 DEF SignalledIsJudged, SuccessWasSignalled, VerdictObeyed
<1> QED
  BY <1>3, <1>4, <1>5, <1>7

\* A thread goes on to another step, with another status.
LEMMA ThreadMoves ==
    ASSUME thread \in [Threads -> ThreadStates], NEW t \in Threads,
           NEW pc \in Steps, NEW s \in Statuses,
           thread' = [thread EXCEPT ![t].pc = pc, ![t].status = s]
    PROVE  /\ thread' \in [Threads -> ThreadStates]
           /\ \A u \in Threads : /\ thread'[u].pc = IF u = t THEN pc ELSE thread[u].pc
                                 /\ thread'[u].req = thread[u].req
                                 /\ thread'[u].status = IF u = t THEN s ELSE thread[u].status
                                 /\ thread'[u].deny = thread[u].deny
<1>1. \A u \in Threads : thread'[u] = IF u = t THEN [thread[t] EXCEPT !.pc = pc, !.status = s] ELSE thread[u]
  OBVIOUS
<1>2. [thread[t] EXCEPT !.pc = pc, !.status = s] \in ThreadStates
  BY DEF ThreadStates
<1>3. thread' \in [Threads -> ThreadStates]
  BY <1>1, <1>2
<1> QED
  BY <1>1, <1>3 DEF ThreadStates

(***************************************************************************)
(* A step of a thread inside EnforceSync, before it returns: of its own    *)
(* locals only, of its slot, and of the ring if it publishes.              *)
(***************************************************************************)
LEMMA EnforceKeeps ==
    ASSUME IInv, NEW t \in Threads, Enforce(t), ~ Return(t)
    PROVE  IInv'
<1> USE DEF IInv
<1>7. thread \in [Threads -> ThreadStates]
  BY DEF TypeOK
<1>8. \A r \in DOMAIN slots : slots[r].owner \in Threads
  BY DEF TypeOK
<1>1. CASE Add(t)
  <2>0. thread' = [thread EXCEPT ![t].pc = "publish"]
    BY <1>1 DEF Add, Goto
  <2>1. \A u \in Threads : /\ thread'[u].pc = IF u = t THEN "publish" ELSE thread[u].pc
                           /\ thread'[u].req = thread[u].req
                           /\ thread'[u].status = thread[u].status
                           /\ thread'[u].deny = thread[u].deny
    BY <1>7, <2>0 DEF ThreadStates, Steps, Statuses
  <2>2. thread' \in [Threads -> ThreadStates]
    BY <1>7, <2>0 DEF ThreadStates, Steps, Statuses
  <2>3. thread[t].pc = "add" /\ UNCHANGED <<nextReq, event, queue, serving, judged>>
    BY <1>1 DEF Add
  <2>4. thread[t].req \in 1 .. nextReq /\ thread[t].req \notin DOMAIN slots
    <3>1. thread[t].req \in 1 .. nextReq /\ thread[t].req # 0
      BY <2>3 DEF RequestsDistinct, TypeOK
    <3>2. ASSUME thread[t].req \in DOMAIN slots PROVE FALSE
      <4>1. PICK u \in Threads : thread[u].req = thread[t].req /\ thread[u].pc \in Waiting
        BY <3>2 DEF OwnersWait, TypeOK
      <4>2. u = t
        BY <3>1, <4>1 DEF RequestsDistinct
      <4> QED
        BY <2>3, <4>1, <4>2 DEF Waiting
    <3> QED
      BY <3>1, <3>2
  <2>5. /\ DOMAIN slots' = DOMAIN slots \union {thread[t].req}
        /\ slots'[thread[t].req] = [owner |-> t, deny |-> FALSE]
        /\ \A r \in DOMAIN slots : slots'[r] = slots[r]
    BY <1>1, <2>4 DEF Add, With
  <2>6. \A r \in DOMAIN slots' : slots'[r] \in [owner : Threads, deny : BOOLEAN]
    <3>1. [owner |-> t, deny |-> FALSE] \in [owner : Threads, deny : BOOLEAN]
      OBVIOUS
    <3> QED
      BY <2>5, <3>1 DEF TypeOK
  <2>7. TypeOK'
    BY <2>2, <2>3, <2>4, <2>5, <2>6 DEF TypeOK
  <2>8. RequestsDistinct'
    BY <2>1, <2>3 DEF RequestsDistinct
  <2>9. OwnersWait'
    <3>1. ASSUME NEW r \in DOMAIN slots'
          PROVE  thread'[slots'[r].owner].req = r /\ thread'[slots'[r].owner].pc \in Waiting
      <4>1. CASE r = thread[t].req
        BY <2>1, <2>5, <4>1 DEF Waiting
      <4>2. CASE r \in DOMAIN slots
        <5>1. slots'[r] = slots[r] /\ slots[r].owner \in Threads
          BY <1>8, <2>5, <4>2
        <5>2. thread[slots[r].owner].req = r /\ thread[slots[r].owner].pc \in Waiting
          BY <4>2 DEF OwnersWait
        <5> QED
          BY <2>1, <5>1, <5>2 DEF Waiting
      <4> QED
        BY <2>5, <4>1, <4>2
    <3>2. ASSUME NEW u \in Threads, thread'[u].pc \in Waiting
          PROVE  thread'[u].req \in DOMAIN slots' /\ slots'[thread'[u].req].owner = u
      <4>1. CASE u = t
        BY <2>1, <2>5, <4>1
      <4>2. CASE u # t
        BY <2>1, <2>5, <3>2, <4>2 DEF OwnersWait
      <4> QED
        BY <4>1, <4>2
    <3> QED
      BY <3>1, <3>2 DEF OwnersWait
  <2>11. SignalledIsJudged'
    BY <2>1, <2>3, <2>5 DEF SignalledIsJudged, OwnersWait, Waiting
  <2>12. SuccessWasSignalled' /\ VerdictObeyed'
    BY <2>1, <2>3 DEF SuccessWasSignalled, VerdictObeyed
  <2> QED
    BY <2>7, <2>8, <2>9, <2>11, <2>12
<1>2. CASE TableFull(t)
  <2>0. thread' = [thread EXCEPT ![t].pc = "returned", ![t].status = "full"]
    BY <1>2 DEF TableFull
  <2>1. \A u \in Threads : /\ thread'[u].pc = IF u = t THEN "returned" ELSE thread[u].pc
                           /\ thread'[u].req = thread[u].req
                           /\ thread'[u].status = IF u = t THEN "full" ELSE thread[u].status
                           /\ thread'[u].deny = thread[u].deny
    <3>1. "returned" \in Steps /\ "full" \in Statuses
      BY <2>0 DEF Steps, Statuses
    <3> QED
      BY <1>7, <2>0, <3>1, ThreadMoves, Zenon
  <2>2. thread' \in [Threads -> ThreadStates]
    BY <1>7, <2>0, ThreadMoves DEF Steps, Statuses
  <2>3. thread[t].pc = "add" /\ UNCHANGED <<nextReq, slots, event, queue, serving, judged>>
    BY <1>2 DEF TableFull
  <2>4. TypeOK'
    BY <2>2, <2>3 DEF TypeOK
  <2>5. RequestsDistinct' /\ OwnersWait'
    <3>1. RequestsDistinct'
      BY <2>1, <2>3 DEF RequestsDistinct
    <3>2. OwnersWait'
      BY <1>8, <2>1, <2>3 DEF OwnersWait, Waiting
    <3> QED
      BY <3>1, <3>2
  <2>6. SignalledIsJudged'
    BY <2>1, <2>3 DEF SignalledIsJudged, Waiting
  <2>7. SuccessWasSignalled' /\ VerdictObeyed'
    BY <2>1, <2>3 DEF SuccessWasSignalled, VerdictObeyed
  <2> QED
    BY <2>4, <2>5, <2>6, <2>7
<1>3. CASE Publish(t)
  <2>0. thread' = [thread EXCEPT ![t].pc = "wait"]
    BY <1>3 DEF Publish, Goto
  <2>1. \A u \in Threads : /\ thread'[u].pc = IF u = t THEN "wait" ELSE thread[u].pc
                           /\ thread'[u].req = thread[u].req
                           /\ thread'[u].status = thread[u].status
                           /\ thread'[u].deny = thread[u].deny
    BY <1>7, <2>0 DEF ThreadStates, Steps, Statuses
  <2>2. thread' \in [Threads -> ThreadStates]
    BY <1>7, <2>0 DEF ThreadStates, Steps, Statuses
  <2>3. thread[t].pc = "publish" /\ UNCHANGED <<nextReq, slots, event, serving, judged>>
    BY <1>3 DEF Publish
  <2>4. thread[t].req \in 1 .. nextReq
    BY <2>3 DEF RequestsDistinct
  <2>5. /\ queue' \in Seq(1 .. nextReq) /\ Len(queue') = Len(queue) + 1 /\ Len(queue) \in Nat
        /\ \A i \in 1 .. Len(queue) : queue'[i] = queue[i]
        /\ queue'[Len(queue) + 1] = thread[t].req
    BY <1>3, <2>4, AppendProperties, LenProperties DEF Publish, TypeOK
  <2>6. TypeOK'
    BY <2>2, <2>3, <2>5 DEF TypeOK
  <2>7. RequestsDistinct' /\ OwnersWait'
    <3>1. RequestsDistinct'
      BY <2>1, <2>3 DEF RequestsDistinct
    <3>2. OwnersWait'
      BY <1>8, <2>1, <2>3 DEF OwnersWait, Waiting
    <3> QED
      BY <3>1, <3>2
  <2>8. SignalledIsJudged' /\ SuccessWasSignalled' /\ VerdictObeyed'
    BY <2>1, <2>3 DEF SignalledIsJudged, SuccessWasSignalled, VerdictObeyed, Waiting
  <2> QED
    BY <2>6, <2>7, <2>8
<1>4. CASE PublishFails(t)
  <2>0. thread' = [thread EXCEPT ![t].pc = "returned", ![t].status = "unpublished"]
    BY <1>4 DEF PublishFails
  <2>1. \A u \in Threads : /\ thread'[u].pc = IF u = t THEN "returned" ELSE thread[u].pc
                           /\ thread'[u].req = thread[u].req
                           /\ thread'[u].status = IF u = t THEN "unpublished" ELSE thread[u].status
                           /\ thread'[u].deny = thread[u].deny
    <3>1. "returned" \in Steps /\ "unpublished" \in Statuses
      BY <2>0 DEF Steps, Statuses
    <3> QED
      BY <1>7, <2>0, <3>1, ThreadMoves, Zenon
  <2>2. thread' \in [Threads -> ThreadStates]
    BY <1>7, <2>0, ThreadMoves DEF Steps, Statuses
  <2>3. thread[t].pc = "publish" /\ UNCHANGED <<nextReq, event, queue, serving, judged>>
    BY <1>4 DEF PublishFails
  <2>4. /\ DOMAIN slots' = DOMAIN slots \ {thread[t].req}
        /\ \A r \in DOMAIN slots' : slots'[r] = slots[r]
    BY <1>4 DEF PublishFails, Without
  <2>5. TypeOK'
    BY <2>2, <2>3, <2>4 DEF TypeOK
  <2>6. RequestsDistinct'
    BY <2>1, <2>3 DEF RequestsDistinct
  <2>7. OwnersWait'
    BY <1>8, <2>1, <2>3, <2>4 DEF OwnersWait, RequestsDistinct, Waiting
  <2>8. SignalledIsJudged'
    BY <2>1, <2>3, <2>4, <2>7 DEF SignalledIsJudged, OwnersWait, Waiting
  <2>9. SuccessWasSignalled' /\ VerdictObeyed'
    BY <2>1, <2>3 DEF SuccessWasSignalled, VerdictObeyed
  <2> QED
    BY <2>5, <2>6, <2>7, <2>8, <2>9
<1>5. CASE Woken(t) \/ TimedOut(t)
  <2>0. PICK s \in {"success", "timeout"} :
          /\ thread' = [thread EXCEPT ![t].pc = "take", ![t].status = s]
          /\ s = "success" => event[t]
    BY <1>5 DEF Woken, TimedOut
  <2>1. \A u \in Threads : /\ thread'[u].pc = IF u = t THEN "take" ELSE thread[u].pc
                           /\ thread'[u].req = thread[u].req
                           /\ thread'[u].status = IF u = t THEN s ELSE thread[u].status
                           /\ thread'[u].deny = thread[u].deny
    <3>1. "take" \in Steps /\ s \in Statuses
      BY <2>0 DEF Steps, Statuses
    <3> QED
      BY <1>7, <2>0, <3>1, ThreadMoves, Zenon
  <2>2. thread' \in [Threads -> ThreadStates]
    BY <1>7, <2>0, ThreadMoves DEF Steps, Statuses
  <2>3. thread[t].pc = "wait" /\ UNCHANGED <<nextReq, slots, event, queue, serving, judged>>
    BY <1>5 DEF Woken, TimedOut
  <2>4. TypeOK'
    BY <2>2, <2>3 DEF TypeOK
  <2>5. RequestsDistinct' /\ OwnersWait'
    <3>1. RequestsDistinct'
      BY <2>1, <2>3 DEF RequestsDistinct
    <3>2. OwnersWait'
      BY <1>8, <2>1, <2>3 DEF OwnersWait, Waiting
    <3> QED
      BY <3>1, <3>2
  <2>6. SignalledIsJudged'
    BY <2>1, <2>3 DEF SignalledIsJudged, Waiting
  <2>7. SuccessWasSignalled'
    <3>1. ASSUME NEW u \in Threads, thread'[u].pc = "take", thread'[u].status = "success"
          PROVE  event[u]
      <4>1. CASE u = t
        BY <2>0, <2>1, <3>1, <4>1
      <4>2. CASE u # t
        BY <2>1, <3>1, <4>2 DEF SuccessWasSignalled
      <4> QED
        BY <4>1, <4>2
    <3>2. ASSUME NEW u \in Threads, thread'[u].deny
          PROVE  thread'[u].pc = "returned" /\ thread'[u].status = "success"
      BY <2>1, <2>3, <3>2 DEF SuccessWasSignalled
    <3> QED
      BY <2>3, <3>1, <3>2 DEF SuccessWasSignalled
  <2>8. VerdictObeyed'
    BY <2>1, <2>3 DEF VerdictObeyed
  <2> QED
    BY <2>4, <2>5, <2>6, <2>7, <2>8
\* The slot is freed; its value was the verdict if the wait succeeded.
<1>6. CASE Take(t)
  <2> DEFINE verdict == thread[t].status = "success" /\ slots[thread[t].req].deny
  <2>3. thread[t].pc = "take" /\ UNCHANGED <<nextReq, event, queue, serving, judged>>
    BY <1>6 DEF Take
  <2>4. /\ DOMAIN slots' = DOMAIN slots \ {thread[t].req}
        /\ \A r \in DOMAIN slots' : slots'[r] = slots[r]
    BY <1>6 DEF Take, Without
  <2>5. verdict \in BOOLEAN
    OBVIOUS
  <2>13. thread' = [thread EXCEPT ![t].pc = "returned", ![t].deny = verdict]
    BY <1>6 DEF Take
  <2>6. thread[t].status = "success" => /\ thread[t].req \in DOMAIN judged
                                        /\ verdict = judged[thread[t].req]
    <3>1. ASSUME thread[t].status = "success"
          PROVE  /\ thread[t].req \in DOMAIN judged
                 /\ slots[thread[t].req].deny = judged[thread[t].req]
      BY <2>3, <3>1 DEF SuccessWasSignalled, SignalledIsJudged, Waiting
    <3>2. slots[thread[t].req].deny \in BOOLEAN
      BY <2>3 DEF OwnersWait, Waiting, TypeOK
    <3> QED
      BY <3>1, <3>2
  <2>7. verdict => thread[t].status = "success"
    OBVIOUS
  <2> HIDE DEF verdict
  <2>1. \A u \in Threads : /\ thread'[u].pc = IF u = t THEN "returned" ELSE thread[u].pc
                           /\ thread'[u].req = thread[u].req
                           /\ thread'[u].status = thread[u].status
                           /\ thread'[u].deny = IF u = t THEN verdict ELSE thread[u].deny
    BY <1>7, <2>5, <2>13 DEF ThreadStates, Steps, Statuses
  <2>2. thread' \in [Threads -> ThreadStates]
    BY <1>7, <2>5, <2>13 DEF ThreadStates, Steps, Statuses
  <2>8. TypeOK'
    BY <2>2, <2>3, <2>4 DEF TypeOK
  <2>9. RequestsDistinct'
    BY <2>1, <2>3 DEF RequestsDistinct
  <2>10. OwnersWait'
    BY <1>8, <2>1, <2>3, <2>4 DEF OwnersWait, RequestsDistinct, Waiting
  <2>11. SignalledIsJudged'
    BY <2>1, <2>3, <2>4, <2>10 DEF SignalledIsJudged, OwnersWait, Waiting
  <2>12. SuccessWasSignalled' /\ VerdictObeyed'
    BY <2>1, <2>3, <2>6, <2>7 DEF SuccessWasSignalled, VerdictObeyed
  <2> QED
    BY <2>8, <2>9, <2>10, <2>11, <2>12
<1> QED
  BY <1>1, <1>2, <1>3, <1>4, <1>5, <1>6 DEF Enforce

LEMMA ReturnKeeps ==
    ASSUME IInv, NEW t \in Threads, Return(t)
    PROVE  IInv'
<1> USE DEF IInv
<1>1. /\ thread'[t].pc = "idle" /\ thread'[t].req = 0 /\ ~ thread'[t].deny /\ ~ event'[t]
      /\ \A u \in Threads \ {t} : thread'[u] = thread[u] /\ event'[u] = event[u]
  BY DEF Return, TypeOK, Idle
<1>2. UNCHANGED <<nextReq, slots, queue, serving>>
  BY DEF Return
<1>3. /\ DOMAIN judged' = DOMAIN judged \ {thread[t].req}
      /\ \A r \in DOMAIN judged' : judged'[r] = judged[r]
  BY DEF Return
<1>4. thread[t].pc = "returned" /\ \A u \in Threads : u # t => thread[u].req # thread[t].req
  BY DEF Return, RequestsDistinct, TypeOK
<1>5. TypeOK'
  <2>1. thread' \in [Threads -> ThreadStates] /\ event' \in [Threads -> BOOLEAN]
    BY DEF Return, TypeOK, ThreadStates, Steps, Statuses, Idle
  <2> QED
    BY <1>2, <1>3, <2>1 DEF TypeOK
<1>6. RequestsDistinct' /\ OwnersWait'
  <2>1. RequestsDistinct'
    BY <1>1, <1>2 DEF RequestsDistinct
  <2>2. \A r \in DOMAIN slots : slots[r].owner \in Threads \ {t}
    BY <1>4 DEF OwnersWait, Waiting, TypeOK
  <2>3. OwnersWait'
    BY <1>1, <1>2, <2>2 DEF OwnersWait, Waiting
  <2> QED
    BY <2>1, <2>3
<1>8. SignalledIsJudged'
  BY <1>1, <1>2, <1>3, <1>4 DEF SignalledIsJudged, Waiting
<1>9. SuccessWasSignalled' /\ VerdictObeyed'
  BY <1>1, <1>3, <1>4 DEF SuccessWasSignalled, VerdictObeyed
<1> QED
  BY <1>5, <1>6, <1>8, <1>9

(***************************************************************************)
(* The service's steps.                                                    *)
(***************************************************************************)
LEMMA ReceiveKeeps ==
    ASSUME IInv, Receive \/ GiveUp
    PROVE  IInv'
<1>1. UNCHANGED <<nextReq, slots, thread, event, judged>>
  BY DEF Receive, GiveUp
<1>2. queue' \in Seq(1 .. nextReq) /\ serving' \in 0 .. nextReq
  <2>1. CASE Receive
    BY <2>1, HeadTailProperties DEF IInv, TypeOK, Receive
  <2>2. CASE GiveUp
    BY <2>2 DEF IInv, TypeOK, GiveUp
  <2> QED
    BY <2>1, <2>2
<1> QED
  BY <1>1, <1>2 DEF IInv, TypeOK, RequestsDistinct, OwnersWait, SignalledIsJudged,
                    SuccessWasSignalled, VerdictObeyed

(***************************************************************************)
(* An answer about any request: it goes to the slot of that request, if    *)
(* there is one, and changes nothing for anybody else.                     *)
(***************************************************************************)
LEMMA AnswerKeeps ==
    ASSUME IInv, NEW req, NEW deny \in BOOLEAN, CompleteVerdict(req, deny),
           UNCHANGED <<nextReq, thread, queue>>, serving' \in 0 .. nextReq
    PROVE  IInv'
<1> USE DEF IInv
<1>1. /\ DOMAIN judged' = DOMAIN judged \union (Asking \intersect {req})
      /\ \A r \in DOMAIN judged' :
           judged'[r] = IF r = req /\ req \in Asking THEN deny ELSE judged[r]
  BY DEF CompleteVerdict
<1>2. /\ \A t \in Threads : thread[t].pc \in Waiting => thread[t].req \in Asking
      /\ Asking \subseteq 1 .. nextReq
      /\ \A t \in Threads : thread[t].pc = "returned" => thread[t].req \notin Asking
  <2>1. ASSUME NEW t \in Threads, thread[t].pc \in Waiting
        PROVE  thread[t].req \in Asking
    BY <2>1 DEF Asking, Waiting
  <2>2. ASSUME NEW r \in Asking
        PROVE  r \in 1 .. nextReq /\ \A t \in Threads : thread[t].req = r => thread[t].pc # "returned"
    <3>1. PICK u \in Threads : thread[u].req = r /\ thread[u].pc \in Waiting
      BY DEF Asking, Waiting
    <3>2. r \in 1 .. nextReq /\ r # 0
      BY <3>1 DEF RequestsDistinct, Waiting
    <3> QED
      BY <3>1, <3>2 DEF RequestsDistinct, Waiting
  <2> QED
    BY <2>1, <2>2
<1>3. VerdictObeyed'
  BY <1>1, <1>2 DEF VerdictObeyed
<1>4. DOMAIN judged' \subseteq 1 .. nextReq
  BY <1>1, <1>2 DEF TypeOK
<1>5. CASE req \notin DOMAIN slots
  <2>1. UNCHANGED <<slots, event>>
    BY <1>5 DEF CompleteVerdict, Completed
  <2>2. req \notin Asking
    BY <1>5 DEF Asking, OwnersWait, Waiting
  <2>3. DOMAIN judged' = DOMAIN judged /\ \A r \in DOMAIN judged : judged'[r] = judged[r]
    BY <1>1, <2>2
  <2> QED
    BY <1>3, <1>4, <2>1, <2>3 DEF TypeOK, RequestsDistinct, OwnersWait, SignalledIsJudged,
                                  SuccessWasSignalled
<1>6. CASE req \in DOMAIN slots
  <2>1. PICK t \in Threads : slots[req].owner = t /\ thread[t].req = req /\ thread[t].pc \in Waiting
    BY <1>6 DEF TypeOK, OwnersWait
  <2>2. /\ slots' = [slots EXCEPT ![req].deny = deny]
        /\ event' = [event EXCEPT ![t] = TRUE]
    <3>1. Completed(req) = {req}
      BY <1>6 DEF Completed
    <3> QED
      BY <2>1, <3>1 DEF CompleteVerdict
  <2>3. /\ DOMAIN slots' = DOMAIN slots
        /\ \A r \in DOMAIN slots : /\ slots'[r].owner = slots[r].owner
                                   /\ slots'[r].deny = IF r = req THEN deny ELSE slots[r].deny
        /\ \A r \in DOMAIN slots : slots'[r] \in [owner : Threads, deny : BOOLEAN]
    BY <2>2 DEF TypeOK
  <2>4. \A u \in Threads : event'[u] = (u = t \/ event[u])
    BY <2>2 DEF TypeOK
  <2>5. req \in Asking /\ req \in DOMAIN judged' /\ judged'[req] = deny
    BY <1>1, <1>2, <2>1
  <2>6. TypeOK'
    <3>1. event' \in [Threads -> BOOLEAN]
      BY <2>2 DEF TypeOK
    <3>2. /\ DOMAIN slots' \subseteq 1 .. nextReq
          /\ \A r \in DOMAIN slots' : slots'[r] \in [owner : Threads, deny : BOOLEAN]
      BY <2>3 DEF TypeOK
    <3> QED
      BY <1>4, <3>1, <3>2 DEF TypeOK
  <2>7. RequestsDistinct' /\ OwnersWait'
    <3>1. RequestsDistinct'
      BY DEF RequestsDistinct
    <3>2. OwnersWait'
      BY <2>3 DEF OwnersWait
    <3> QED
      BY <3>1, <3>2
  <2>8. SuccessWasSignalled'
    BY <2>4 DEF SuccessWasSignalled
  <2>9. SignalledIsJudged'
    <3> SUFFICES ASSUME NEW u \in Threads, event'[u]
                 PROVE  /\ thread[u].pc \notin {"idle", "add"}
                        /\ thread[u].pc \in Waiting =>
                             /\ thread[u].req \in DOMAIN judged'
                             /\ slots'[thread[u].req].deny = judged'[thread[u].req]
      BY DEF SignalledIsJudged
    <3>1. CASE u = t
      BY <2>1, <2>3, <2>5, <3>1, <1>6 DEF Waiting
    <3>2. CASE u # t
      <4>1. event[u]
        BY <2>4, <3>2
      <4>2. thread[u].pc \in Waiting => thread[u].req # req /\ thread[u].req \in DOMAIN slots
        BY <2>1, <3>2 DEF OwnersWait
      <4> QED
        BY <1>1, <2>3, <4>1, <4>2 DEF SignalledIsJudged
    <3> QED
      BY <3>1, <3>2
  <2> QED
    BY <1>3, <2>6, <2>7, <2>8, <2>9
<1> QED
  BY <1>5, <1>6

LEMMA NextIInv == IInv /\ [Next]_vars => IInv'
<1> SUFFICES ASSUME IInv, [Next]_vars PROVE IInv'
  OBVIOUS
<1>1. CASE UNCHANGED vars
  BY <1>1 DEF vars, IInv, TypeOK, RequestsDistinct, OwnersWait,
              SignalledIsJudged, SuccessWasSignalled, VerdictObeyed
<1>2. ASSUME NEW t \in Threads, Begin(t) \/ Enforce(t) PROVE IInv'
  BY <1>2, BeginKeeps, EnforceKeeps, ReturnKeeps
<1>3. ASSUME NEW deny \in BOOLEAN, Reply(deny) PROVE IInv'
  <2>1. serving' \in 0 .. nextReq
    BY <1>3 DEF Reply, IInv, TypeOK
  <2> QED
    BY <1>3, <2>1, AnswerKeeps DEF Reply
<1>4. ASSUME NEW deny \in BOOLEAN, NEW req \in Ids, Stray(req, deny) PROVE IInv'
  <2>1. serving' \in 0 .. nextReq
    BY <1>4 DEF Stray, IInv, TypeOK
  <2> QED
    BY <1>4, <2>1, AnswerKeeps DEF Stray
<1> QED
  BY <1>1, <1>2, <1>3, <1>4, ReceiveKeeps DEF Next

LEMMA Inductive == Spec => []IInv
  BY InitIInv, NextIInv, PTL DEF Spec
-----------------------------------------------------------------------------
(***************************************************************************)
(* Every slot is that of a thread still waiting for its request, and every *)
(* such thread has one (PendingVerdicts): no late answer signals an event  *)
(* on a stack that is gone, and no slot leaks.                             *)
(***************************************************************************)
THEOREM SlotsAreTheWaiters == Spec => []SlotsMatchWaiters
<1>1. ASSUME IInv PROVE SlotsMatchWaiters
  <2> DEFINE waiters == {u \in Threads : thread[u].pc \in {"publish", "wait", "take"}}
  <2>1. \A r \in DOMAIN slots : slots[r].owner \in waiters /\ thread[slots[r].owner].req = r
    BY <1>1 DEF IInv, OwnersWait, TypeOK, Waiting
  <2>2. \A u \in waiters : thread[u].req \in DOMAIN slots
    BY <1>1 DEF IInv, OwnersWait, Waiting
  <2>3. {thread[u].req : u \in waiters} = DOMAIN slots
    BY <2>1, <2>2
  <2> QED
    BY <2>1, <2>3 DEF SlotsMatchWaiters
<1> QED
  BY <1>1, Inductive, PTL

(***************************************************************************)
(* A thread whose wait succeeded returns the verdict on its request        *)
(* (EnforceSync).                                                          *)
(***************************************************************************)
THEOREM VerdictIsObeyed == Spec => []VerdictObeyed
<1>1. IInv => VerdictObeyed
  BY DEF IInv
<1> QED
  BY <1>1, Inductive, PTL

(***************************************************************************)
(* A thread is denied only on a verdict that the service gave on that      *)
(* thread's own request: EnforceSync's other exits all fail open.          *)
(***************************************************************************)
THEOREM DeniedOnVerdict == Spec => []DeniedOnlyOnItsVerdict
<1>1. IInv => DeniedOnlyOnItsVerdict
  BY DEF IInv, SuccessWasSignalled, VerdictObeyed, DeniedOnlyOnItsVerdict
<1> QED
  BY <1>1, Inductive, PTL
-----------------------------------------------------------------------------
(***************************************************************************)
(* Doorbell, for any number of producers and frames: no wakeup is lost     *)
(* between a producer that commits a frame and a service that falls        *)
(* asleep, although both write through store buffers.                      *)
(*                                                                         *)
(* The argument is Dekker's.  A service that blocks has its SLEEPING in    *)
(* memory, and after that saw no frame: whoever commits one later has yet  *)
(* to drain its commit and to look at consumer_state.  To say that, the    *)
(* invariant tracks what can be in the buffers: a producer's last commit,  *)
(* while it is at its fence or idle after a void one; and the service's    *)
(* stores, of which SLEEPING is the last while it is at its own fence.     *)
(***************************************************************************)
Frames == 1 .. MaxFrames

BellTypeOK ==
    /\ head \in Nat /\ mirror \in 0 .. MaxFrames /\ taken \in Nat
    /\ frame \in [Frames -> {"open", "ready", "void"}]
    /\ state \in {"running", "sleeping"}
    /\ doorbell \in BOOLEAN
    /\ prod \in [Producers -> [pc : {"idle", "mirror", "commit", "fence", "check"}, n : Nat]]
    /\ pbuf \in [Producers -> Seq(Frames \X {"ready", "void"})]
    /\ cpc \in {"poll", "fence", "recheck", "block", "awake"}
    /\ cbuf \in Seq({"running", "sleeping"})

\* A producer buffers at most the commit of the frame it is at its fence with, or
\* of one it voided.
OneCommitBuffered ==
    \A p \in Producers : pbuf[p] # <<>> =>
        \/ prod[p].pc = "fence" /\ pbuf[p] = <<<<prod[p].n, "ready">>>>
        \/ prod[p].pc = "idle" /\ \E n \in Frames : pbuf[p] = <<<<n, "void">>>>

\* What is committed is within the mirror, and so is what is being committed.
MirrorCovers ==
    /\ \A n \in Frames : frame[n] = "ready" => n <= mirror
    /\ \A p \in Producers :
          /\ prod[p].pc # "idle" => prod[p].n \in Frames
          /\ prod[p].pc \in {"commit", "fence", "check"} => prod[p].n <= mirror

\* From its fence on, the service's SLEEPING is in memory.
SleepingIsOut ==
    /\ cpc = "fence" => IF cbuf = <<>> THEN state = "sleeping" ELSE cbuf[Len(cbuf)] = "sleeping"
    /\ cpc \in {"recheck", "block"} => cbuf = <<>> /\ state = "sleeping"

\* Of every frame committed behind a blocked service's back, the doorbell was rung
\* or its producer is yet to look.
CommittedRingsLater ==
    cpc = "block" => \A n \in Frames :
        frame[n] = "ready" /\ taken < n =>
            doorbell \/ \E p \in Producers : prod[p].n = n /\ prod[p].pc \in {"fence", "check"}

BellInv == BellTypeOK /\ OneCommitBuffered /\ MirrorCovers /\ SleepingIsOut /\ CommittedRingsLater
-----------------------------------------------------------------------------
LEMMA BellInitInv == ASSUME DoorbellInit PROVE BellInv
<1> USE MaxFramesAssumption
<1> USE DEF DoorbellInit
<1>1. BellTypeOK
  <2>1. /\ head \in Nat /\ mirror \in 0 .. MaxFrames /\ taken \in Nat
    OBVIOUS
  <2>6. /\ state \in {"running", "sleeping"} /\ doorbell \in BOOLEAN
        /\ cpc \in {"poll", "fence", "recheck", "block", "awake"}
    OBVIOUS
  <2>5. cbuf \in Seq({"running", "sleeping"})
    OBVIOUS
  <2>2. frame \in [Frames -> {"open", "ready", "void"}]
    BY DEF Frames
  <2>3. prod \in [Producers -> [pc : {"idle", "mirror", "commit", "fence", "check"}, n : Nat]]
    BY DEF NoFrame
  <2>4. pbuf \in [Producers -> Seq(Frames \X {"ready", "void"})]
    OBVIOUS
  <2> QED
    BY <2>1, <2>2, <2>3, <2>4, <2>5, <2>6 DEF BellTypeOK
<1> QED
  BY <1>1 DEF BellInv, OneCommitBuffered, MirrorCovers, SleepingIsOut,
              CommittedRingsLater, Frames, NoFrame

LEMMA LastOfTail ==
    ASSUME NEW S, NEW s \in Seq(S), Len(s) > 1
    PROVE  Tail(s) # <<>> /\ Tail(s)[Len(Tail(s))] = s[Len(s)]
<1>1. s # <<>>
  BY EmptySeq
<1>2. /\ Tail(s) \in Seq(S) /\ Len(Tail(s)) = Len(s) - 1
      /\ \A i \in 1 .. Len(Tail(s)) : Tail(s)[i] = s[i + 1]
  BY <1>1, HeadTailProperties
<1>3. Len(s) \in Nat
  BY LenProperties
<1>4. Len(s) - 1 \in 1 .. Len(s) - 1 /\ (Len(s) - 1) + 1 = Len(s) /\ Len(s) - 1 # 0
  BY <1>3
<1>5. Tail(s)[Len(Tail(s))] = s[Len(s)]
  BY <1>2, <1>4
<1>6. Tail(s) # <<>>
  BY <1>2, <1>4, EmptySeq
<1> QED
  BY <1>5, <1>6

(***************************************************************************)
(* A producer's steps.                                                     *)
(***************************************************************************)
LEMMA ProducerKeeps ==
    ASSUME BellInv, NEW p \in Producers, Reserve(p) \/ Finish(p)
    PROVE  BellInv'
<1> USE MaxFramesAssumption
<1> USE DEF BellInv
<1>1. CASE Reserve(p)
  <2> USE <1>1 DEF Reserve
  <2>1. head + 1 \in Frames
    BY DEF BellTypeOK, Frames
  <2>2. BellTypeOK'
    BY <2>1 DEF BellTypeOK, Frames
  <2>3. \A q \in Producers : prod'[q] = IF q = p THEN [pc |-> "mirror", n |-> head + 1] ELSE prod[q]
    BY DEF BellTypeOK
  <2>4. OneCommitBuffered' /\ MirrorCovers'
    BY <2>1, <2>3 DEF OneCommitBuffered, MirrorCovers
  <2>5. SleepingIsOut'
    BY DEF SleepingIsOut
  <2>6. CommittedRingsLater'
    BY <2>3 DEF CommittedRingsLater, BellTypeOK
  <2> QED
    BY <2>2, <2>4, <2>5, <2>6
<1>2. CASE PublishMirror(p)
  <2> USE <1>2 DEF PublishMirror, ProducerGoto, ring
  <2>1. BellTypeOK'
    BY DEF BellTypeOK, MirrorCovers, Frames
  <2>2. mirror' \in Nat /\ mirror <= mirror' /\ prod[p].n <= mirror'
    BY DEF BellTypeOK
  <2>3. \A q \in Producers : /\ prod'[q].n = prod[q].n
                             /\ prod'[q].pc = IF q = p THEN "commit" ELSE prod[q].pc
    BY DEF BellTypeOK
  <2>4. OneCommitBuffered'
    BY <2>3 DEF OneCommitBuffered
  <2>5. MirrorCovers'
    BY <2>2, <2>3 DEF MirrorCovers, BellTypeOK, Frames
  <2>6. SleepingIsOut' /\ CommittedRingsLater'
    BY <2>3 DEF SleepingIsOut, CommittedRingsLater
  <2> QED
    BY <2>1, <2>4, <2>5, <2>6
<1>3. CASE Commit(p)
  <2> USE <1>3 DEF Commit, ring
  <2>1. pbuf[p] = <<>> /\ prod[p].n \in Frames /\ prod[p].n <= mirror
    BY DEF OneCommitBuffered, MirrorCovers
  <2>2. \A q \in Producers : pbuf'[q] = IF q = p THEN <<<<prod[p].n, "ready">>>> ELSE pbuf[q]
    BY <2>1 DEF BellTypeOK
  <2>3. \A q \in Producers : /\ prod'[q].n = prod[q].n
                             /\ prod'[q].pc = IF q = p THEN "fence" ELSE prod[q].pc
    BY DEF BellTypeOK, ProducerGoto
  <2>4. BellTypeOK'
    BY <2>1 DEF BellTypeOK, ProducerGoto
  <2>5. OneCommitBuffered' /\ MirrorCovers'
    BY <2>1, <2>2, <2>3 DEF OneCommitBuffered, MirrorCovers
  <2>6. SleepingIsOut' /\ CommittedRingsLater'
    BY <2>3 DEF SleepingIsOut, CommittedRingsLater
  <2> QED
    BY <2>4, <2>5, <2>6
<1>4. CASE CommitVoid(p)
  <2> USE <1>4 DEF CommitVoid, ring
  <2>1. pbuf[p] = <<>> /\ prod[p].n \in Frames
    BY DEF OneCommitBuffered, MirrorCovers
  <2>2. \A q \in Producers : pbuf'[q] = IF q = p THEN <<<<prod[p].n, "void">>>> ELSE pbuf[q]
    BY <2>1 DEF BellTypeOK
  <2>3. \A q \in Producers : prod'[q] = IF q = p THEN NoFrame ELSE prod[q]
    BY DEF BellTypeOK
  <2>4. BellTypeOK'
    BY <2>1 DEF BellTypeOK, NoFrame
  <2>5. OneCommitBuffered' /\ MirrorCovers'
    BY <2>1, <2>2, <2>3 DEF OneCommitBuffered, MirrorCovers, NoFrame
  <2>6. SleepingIsOut' /\ CommittedRingsLater'
    BY <2>3 DEF SleepingIsOut, CommittedRingsLater, NoFrame
  <2> QED
    BY <2>4, <2>5, <2>6
<1>5. CASE ProducerFence(p)
  <2> USE <1>5 DEF ProducerFence, ring
  <2>1. \A q \in Producers : /\ prod'[q].n = prod[q].n
                             /\ prod'[q].pc = IF q = p THEN "check" ELSE prod[q].pc
    BY DEF BellTypeOK, ProducerGoto
  <2>2. BellTypeOK'
    BY DEF BellTypeOK, ProducerGoto
  <2>3. OneCommitBuffered' /\ MirrorCovers'
    BY <2>1 DEF OneCommitBuffered, MirrorCovers
  <2>4. SleepingIsOut' /\ CommittedRingsLater'
    BY <2>1 DEF SleepingIsOut, CommittedRingsLater
  <2> QED
    BY <2>2, <2>3, <2>4
\* The look at consumer_state: a service that blocks has its SLEEPING there.
<1>6. CASE Ring(p)
  <2> USE <1>6 DEF Ring, ring
  <2>1. \A q \in Producers : prod'[q] = IF q = p THEN NoFrame ELSE prod[q]
    BY DEF BellTypeOK
  <2>2. BellTypeOK'
    BY DEF BellTypeOK, NoFrame
  <2>3. pbuf[p] = <<>>
    BY DEF OneCommitBuffered
  <2>4. OneCommitBuffered' /\ MirrorCovers'
    BY <2>1, <2>3 DEF OneCommitBuffered, MirrorCovers, NoFrame
  <2>5. SleepingIsOut'
    BY DEF SleepingIsOut
  <2>6. cpc = "block" => doorbell'
    BY DEF SleepingIsOut
  <2>7. CommittedRingsLater'
    BY <2>6 DEF CommittedRingsLater
  <2> QED
    BY <2>2, <2>4, <2>5, <2>7
<1> QED
  BY <1>1, <1>2, <1>3, <1>4, <1>5, <1>6 DEF Finish

(***************************************************************************)
(* A commit reaches memory: its producer is at its fence, or gave up.      *)
(***************************************************************************)
LEMMA DrainKeeps ==
    ASSUME BellInv, NEW p \in Producers, DrainProducer(p)
    PROVE  BellInv'
<1> USE MaxFramesAssumption
<1> USE DEF BellInv, DrainProducer
<1>1. PICK n \in Frames, s \in {"ready", "void"} :
        /\ pbuf[p] = <<<<n, s>>>>
        /\ s = "ready" => prod[p].pc = "fence" /\ prod[p].n = n
  BY DEF OneCommitBuffered, MirrorCovers
<1>2. /\ \A m \in Frames : frame'[m] = IF m = n THEN s ELSE frame[m]
      /\ \A q \in Producers : pbuf'[q] = IF q = p THEN <<>> ELSE pbuf[q]
  BY <1>1 DEF BellTypeOK
<1>3. BellTypeOK'
  BY <1>1 DEF BellTypeOK
<1>4. OneCommitBuffered'
  BY <1>2 DEF OneCommitBuffered
<1>5. MirrorCovers'
  BY <1>1, <1>2 DEF MirrorCovers
<1>6. SleepingIsOut'
  BY DEF SleepingIsOut
<1>7. CommittedRingsLater'
  BY <1>1, <1>2 DEF CommittedRingsLater
<1> QED
  BY <1>3, <1>4, <1>5, <1>6, <1>7

(***************************************************************************)
(* The service's steps.                                                    *)
(***************************************************************************)
LEMMA ConsumerKeeps ==
    ASSUME BellInv, Consume \/ Lapse \/ DrainConsumer
    PROVE  BellInv'
<1> USE MaxFramesAssumption
<1> USE DEF BellInv
<1>1. CASE TakeFrame
  BY <1>1 DEF TakeFrame, ring, BellTypeOK, OneCommitBuffered, MirrorCovers, SleepingIsOut,
              CommittedRingsLater
<1>2. CASE Announce
  <2> USE <1>2 DEF Announce, ring
  <2>1. BellTypeOK'
    BY DEF BellTypeOK
  <2>2. cbuf' # <<>> /\ cbuf'[Len(cbuf')] = "sleeping"
    BY DEF BellTypeOK
  <2> QED
    BY <2>1, <2>2 DEF OneCommitBuffered, MirrorCovers, SleepingIsOut, CommittedRingsLater
<1>3. CASE ConsumerFence
  BY <1>3 DEF ConsumerFence, ring, BellTypeOK, OneCommitBuffered, MirrorCovers,
              SleepingIsOut, CommittedRingsLater
\* The second look: what is not taken yet is beyond the mirror.
<1>4. CASE Recheck
  <2> USE <1>4 DEF Recheck, ring
  <2>1. BellTypeOK' /\ OneCommitBuffered' /\ MirrorCovers' /\ SleepingIsOut'
    BY DEF BellTypeOK, OneCommitBuffered, MirrorCovers, SleepingIsOut
  <2>2. cpc' = "block" => \A n \in Frames : frame[n] = "ready" => n <= taken
    BY DEF MirrorCovers
  <2>3. CommittedRingsLater'
    BY <2>2 DEF CommittedRingsLater, BellTypeOK, Frames
  <2> QED
    BY <2>1, <2>3
<1>5. CASE Wake
  BY <1>5 DEF Wake, ring, BellTypeOK, OneCommitBuffered, MirrorCovers, SleepingIsOut,
              CommittedRingsLater
<1>6. CASE Lapse
  BY <1>6 DEF Lapse, ring, BellTypeOK, OneCommitBuffered, MirrorCovers, SleepingIsOut,
              CommittedRingsLater
<1>7. CASE Awake
  BY <1>7 DEF Awake, ring, BellTypeOK, OneCommitBuffered, MirrorCovers, SleepingIsOut,
              CommittedRingsLater
<1>8. CASE DrainConsumer
  <2> USE <1>8 DEF DrainConsumer, ring
  <2>1. BellTypeOK'
    BY DEF BellTypeOK
  <2>2. SleepingIsOut'
    <3>1. CASE Len(cbuf) = 1
      <4>1. cbuf' = <<>> /\ state' = cbuf[Len(cbuf)]
        BY <3>1 DEF BellTypeOK
      <4> QED
        BY <4>1 DEF SleepingIsOut
    <3>2. CASE Len(cbuf) > 1
      <4>1. cbuf' # <<>> /\ cbuf'[Len(cbuf')] = cbuf[Len(cbuf)]
        BY <3>2, LastOfTail DEF BellTypeOK
      <4> QED
        BY <4>1 DEF SleepingIsOut
    <3>3. Len(cbuf) = 1 \/ Len(cbuf) > 1
      <4>1. cbuf \in Seq({"running", "sleeping"}) /\ cbuf # <<>>
        BY DEF BellTypeOK
      <4>2. Len(cbuf) \in Nat \ {0}
        BY <4>1, EmptySeq
      <4> QED
        BY <4>2
    <3> QED
      BY <3>1, <3>2, <3>3
  <2> QED
    BY <2>1, <2>2 DEF OneCommitBuffered, MirrorCovers, CommittedRingsLater
<1> QED
  BY <1>1, <1>2, <1>3, <1>4, <1>5, <1>6, <1>7, <1>8 DEF Consume

LEMMA BellNextInv ==
    ASSUME BellInv, [DoorbellNext]_doorbellVars
    PROVE  BellInv'
<1> USE MaxFramesAssumption
<1>1. CASE UNCHANGED doorbellVars
  BY <1>1 DEF doorbellVars, BellInv, BellTypeOK, OneCommitBuffered, MirrorCovers, SleepingIsOut,
              CommittedRingsLater
<1> QED
  BY <1>1, ProducerKeeps, DrainKeeps, ConsumerKeeps DEF DoorbellNext
-----------------------------------------------------------------------------
(***************************************************************************)
(* No wakeup is lost (should_sleep, Publish): the service does not block   *)
(* on a committed frame unless the doorbell is signalled, or its producer  *)
(* is yet to look.                                                         *)
(***************************************************************************)
THEOREM WakeupNotLost == DoorbellSpec => []NoLostWakeup
<1> USE MaxFramesAssumption
<1>1. BellInv => NoLostWakeup
  <2> SUFFICES ASSUME BellInv, cpc = "block", NEW n \in taken + 1 .. mirror, frame[n] = "ready",
                      \A p \in Producers : prod[p].pc \notin {"fence", "check"}
               PROVE  doorbell
    BY DEF NoLostWakeup
  <2>1. n \in Frames /\ taken < n
    BY DEF BellInv, BellTypeOK, Frames
  <2> QED
    BY <2>1 DEF BellInv, CommittedRingsLater
<1>2. DoorbellInit => BellInv
  BY BellInitInv
<1>3. BellInv /\ [DoorbellNext]_doorbellVars => BellInv'
  BY BellNextInv
<1> QED
  BY <1>1, <1>2, <1>3, PTL DEF DoorbellSpec
=============================================================================
