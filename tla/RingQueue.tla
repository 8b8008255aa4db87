------------------------------ MODULE RingQueue ------------------------------
(***************************************************************************)
(* What the shared ring promises: a queue with many producers and one      *)
(* consumer.  A place in the queue is claimed first and settled later, as  *)
(* ready or as void; the consumer takes the places in the order they were  *)
(* claimed, gets the contents of the ready ones, and waits for an open one.*)
(* A place bears a ticket, greater than those of all places before it.     *)
(***************************************************************************)
EXTENDS Naturals

CONSTANTS Items,   \* what producers publish
          None     \* the consumer has taken nothing yet

VARIABLES queue,   \* the places claimed and not taken: [ticket, item, status]
          out      \* the last item the consumer took

queueVars == <<queue, out>>

Init == queue = {} /\ out = None

\* Reserve: behind all others, with an item that is not there yet.
Claim(place) ==
    /\ place.item \in Items /\ place.status = "open"
    /\ \A other \in queue : other.ticket < place.ticket /\ other.item # place.item
    /\ queue' = queue \union {place}
    /\ UNCHANGED out

\* Commit, as a frame or, when Serialize fails, as a pad.
Settle(place) ==
    /\ place.status = "open"
    /\ \E status \in {"ready", "void"} :
         queue' = (queue \ {place}) \union {[place EXCEPT !.status = status]}
    /\ UNCHANGED out

\* next, bytes: the front of the queue, never a later place.
Take(place) ==
    /\ \A other \in queue : place.ticket <= other.ticket
    /\ place.status # "open"
    /\ out' = IF place.status = "ready" THEN place.item ELSE out
    /\ queue' = queue \ {place}

Next ==
    \/ \E place \in queue' : Claim(place)
    \/ \E place \in queue : Settle(place) \/ Take(place)

Spec == Init /\ [][Next]_queueVars
=============================================================================
