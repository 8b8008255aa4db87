------------------------------- MODULE Driver -------------------------------
(***************************************************************************)
(* The driver around the ring: bring-up, component by component, and its   *)
(* unwinding when one cannot be made; the callbacks that publish telemetry *)
(* and judge the first write on a handle (MiniFilter.cpp, Callbacks.cpp);  *)
(* the port through which the service asks for a ring and pushes rules,    *)
(* and on whose disconnect the ring is taken away (MiniFilter.cpp); and    *)
(* the order in which ~Driver takes everything apart (Entry.cpp).  The     *)
(* engine's answer is any answer: EngineBounded says which.                *)
(***************************************************************************)
EXTENDS RingLifecycle, SequencesExt

CONSTANTS Handles,   \* file handles, of processes other than the service
          NoHandle,  \* what a callback about no such handle is about
          FirstRules \* the bytes Instance() makes the first engine of: none, in the code

ASSUME HandlesAssumption == NoHandle \notin Handles

VARIABLES made,     \* the components that were made and do not go yet
          coming,   \* those Driver() has still to make, in order
          going,    \* those whose deletion has not ended, in order
          short,    \* history: memory or a registration was refused
          session,  \* the service's connection: none, connected, loading, answering,
                    \* unwinding, leaving; or crashed, when the machine is down
          portRing, \* MiniFilter's GlobalRing and GlobalEngine are set
          job,      \* the handle each thread's callback is about
          marked    \* handles that carry the stream-handle context

stageVars == <<made, coming, going, short>>
portVars == <<session, portRing>>
fileVars == <<job, marked>>
vars == <<bufferVars, stageVars, portVars, fileVars>>

Components == <<"arms", "engine", "ring", "filter", "port", "monitor">>
TakeDown   == <<"port", "monitor", "filter", "engine", "ring", "arms">>

Init == /\ base = Null /\ fields = Null /\ refusing = FALSE
        /\ memory = [r \in Rings |-> "unused"]
        /\ at = [t \in Threads |-> "idle"]
        /\ held = [t \in Threads |-> Null]
        /\ up = [step |-> "idle", ring |-> Null]
        /\ down = [step |-> "idle", ring |-> Null]
        /\ made = {} /\ coming = Components /\ going = <<>> /\ short = FALSE
        /\ session = "none" /\ portRing = FALSE
        /\ job = [t \in Threads |-> NoHandle]
        /\ marked = {}

----------------------------------------------------------------------------
(* Driver().                                                               *)

Wire == INSTANCE RuleWire

\* The component next in line comes up; of a failure, see MakeFails.
Make ==
    /\ coming # <<>>
    /\ Head(coming) = "engine" => Wire!Decode(FirstRules).ok
    /\ made' = made \union {Head(coming)}
    /\ coming' = Tail(coming)
    /\ portRing' = (portRing \/ Head(coming) = "port")
    /\ UNCHANGED <<bufferVars, going, short, session, fileVars>>

\* What was made: the defers run in the reverse of the order of the declarations.
Unwind == LET n == Len(Components) - Len(coming)
          IN  [i \in 1 .. n |-> Components[n + 1 - i]]

\* It is refused what it needs, or it is the engine and its bytes do not decode;
\* what was made goes again.
MakeFails ==
    /\ coming # <<>>
    /\ \/ short' = TRUE
       \/ /\ Head(coming) = "engine" /\ ~ Wire!Decode(FirstRules).ok
          /\ UNCHANGED short
    /\ coming' = <<>>
    /\ going' = Unwind
    /\ UNCHANGED <<bufferVars, made, portVars, fileVars>>

----------------------------------------------------------------------------
(* The callbacks.                                                          *)

Goto(t, step) == at' = [at EXCEPT ![t] = step]

\* A callback about no handle, a spawn say: to the ring, then to the engine.
Spawn(t) ==
    /\ "monitor" \in made
    /\ at[t] = "idle"
    /\ Goto(t, "entering")
    /\ UNCHANGED <<base, fields, memory, refusing, held, up, down, stageVars, portVars, fileVars>>

\* A process opens lsass: to the engine at once, which alone is asked.
Open(t) ==
    /\ "monitor" \in made
    /\ at[t] = "idle"
    /\ Goto(t, "judging")
    /\ UNCHANGED <<base, fields, memory, refusing, held, up, down, stageVars, portVars, fileVars>>

\* A write goes by: above PASSIVE_LEVEL, of the paging system, without a file
\* object, or on a handle that carries the context.  Nothing kept here changes.
PassBy(t) ==
    /\ "filter" \in made
    /\ at[t] = "idle"
    /\ UNCHANGED vars

\* None of these: the write is taken for the first on its handle.
FirstWrite(t, h) ==
    /\ "filter" \in made
    /\ at[t] = "idle" /\ h \notin marked
    /\ job' = [job EXCEPT ![t] = h]
    /\ Goto(t, "unmarked")
    /\ UNCHANGED <<base, fields, memory, refusing, held, up, down, stageVars, portVars, marked>>

\* The context is set, kept if another thread set it, or cannot be had; which of
\* these it was is not looked at.
Mark(t) ==
    /\ at[t] = "unmarked"
    /\ marked' \in {marked, marked \union {job[t]}}
    /\ Goto(t, "unnamed")
    /\ UNCHANGED <<base, fields, memory, refusing, held, up, down, stageVars, portVars, job>>

Named(t) ==
    /\ at[t] = "unnamed"
    /\ Goto(t, "entering")
    /\ UNCHANGED <<base, fields, memory, refusing, held, up, down, stageVars, portVars, fileVars>>

\* Without a name there is no event, and the write goes through.
Nameless(t) ==
    /\ at[t] = "unnamed"
    /\ job' = [job EXCEPT ![t] = NoHandle]
    /\ Goto(t, "idle")
    /\ UNCHANGED <<base, fields, memory, refusing, held, up, down, stageVars, portVars, marked>>

PublishTelemetry(t) == Publish(t, "judging") /\ UNCHANGED <<stageVars, portVars, fileVars>>

\* Feed under the engine's lock, then the write is let through or denied.  The
\* verdict on a spawn, and the exemption of the service's own events, touch
\* nothing kept here.
Judge(t) ==
    /\ at[t] = "judging"
    /\ Goto(t, "idle")
    /\ job' = [job EXCEPT ![t] = NoHandle]
    /\ UNCHANGED <<base, fields, memory, refusing, held, up, down, stageVars, portVars, marked>>

----------------------------------------------------------------------------
(* The port: one connection at a time, whose messages come one by one from *)
(* the service's thread, also after the port was closed to new connections.*)

Connect ==
    /\ session = "none"
    /\ "port" \in made
    /\ session' = "connected"
    /\ UNCHANGED <<bufferVars, stageVars, portRing, fileVars>>

\* C_SET_RULES looks whether there is an engine, and copies the rules in; an
\* engine that is not there any more after that ends in a null pointer.
PushRules ==
    /\ session = "connected" /\ up.step = "idle"
    /\ portRing
    /\ session' = "loading"
    /\ UNCHANGED <<bufferVars, stageVars, portRing, fileVars>>

LoadRules ==
    /\ session = "loading"
    /\ session' = IF portRing THEN "connected" ELSE "crashed"
    /\ UNCHANGED <<bufferVars, stageVars, portRing, fileVars>>

\* C_REGISTER_RING.  Register itself refuses a second ring.
RegisterRing(r) ==
    /\ session = "connected"
    /\ portRing
    /\ RegisterBuild(r)
    /\ UNCHANGED <<stageVars, portVars, fileVars>>

RegisterStep ==
    \/ RegisterFill /\ UNCHANGED <<stageVars, portVars, fileVars>>
    \/ /\ RegisterExpose
       /\ session' = "answering"
       /\ UNCHANGED <<stageVars, portRing, fileVars>>

\* The mapped address reaches the service ...
Answer ==
    /\ session = "answering"
    /\ session' = "connected"
    /\ UNCHANGED <<bufferVars, stageVars, portRing, fileVars>>

\* ... or cannot be handed over, and the ring goes again, by way of GlobalRing,
\* which may be null by now.
AnswerFails ==
    /\ session = "answering"
    /\ IF portRing THEN UnregisterTake /\ session' = "unwinding"
                   ELSE session' = "crashed" /\ UNCHANGED bufferVars
    /\ UNCHANGED <<stageVars, portRing, fileVars>>

\* Fault: the client port is closed first, and the ring is taken down after.
LeaveClosesPortFirst ==
    /\ session = "connected" /\ up.step = "idle"
    /\ session' = "none"
    /\ IF portRing THEN UnregisterTake ELSE UNCHANGED bufferVars
    /\ UNCHANGED <<stageVars, portRing, fileVars>>

\* The client port is closed only when Unregister has returned.
Leave ==
    /\ session = "connected" /\ up.step = "idle"
    /\ IF portRing THEN UnregisterTake /\ session' = "leaving"
                   ELSE session' = "none" /\ UNCHANGED bufferVars
    /\ UNCHANGED <<stageVars, portRing, fileVars>>

Unregistering == UnregisterStep /\ UNCHANGED <<stageVars, portVars, fileVars>>

Unregistered ==
    /\ down.step = "done"
    /\ down' = [down EXCEPT !.step = "idle"]
    /\ \/ session = "unwinding" /\ session' = "connected"
       \/ session = "leaving" /\ session' = "none"
    /\ UNCHANGED <<base, fields, memory, refusing, at, held, up, stageVars, portRing, fileVars>>

----------------------------------------------------------------------------
(* ~Driver, and what is deleted when Driver() fails.                       *)

Unload ==
    /\ coming = <<>> /\ going = <<>> /\ made # {}
    /\ going' = TakeDown
    /\ UNCHANGED <<bufferVars, made, coming, short, portVars, fileVars>>

Deleted(c) == going # <<>> /\ Head(going) = c /\ c \notin made

\* The destructor of the next component starts: no connection, no callback and no
\* publish begins from then on.
Delete ==
    /\ going # <<>> /\ Head(going) \in made
    /\ made' = made \ {Head(going)}
    /\ IF Head(going) = "ring" THEN UnregisterTake ELSE UNCHANGED bufferVars
    /\ UNCHANGED <<coming, going, short, portVars, fileVars>>

\* ... and ends: ~Port forgets the ring and the engine, ~Monitor and ~Filter wait
\* for their callbacks in flight and ~Filter for the end of the connection too.
Gone(c) ==
    /\ Deleted(c)
    /\ c = "monitor" => \A t \in Threads : at[t] # "idle" => job[t] # NoHandle
    /\ c = "filter"  => /\ \A t \in Threads : at[t] # "idle" => job[t] = NoHandle
                        /\ session = "none"
    /\ c = "ring"    => down.step = "done"
    /\ down' = IF c = "ring" THEN [down EXCEPT !.step = "idle"] ELSE down
    /\ portRing' = (portRing /\ c # "port")
    /\ going' = Tail(going)
    /\ UNCHANGED <<base, fields, memory, refusing, at, held, up, made, coming, short, session, fileVars>>

Teardown == Delete \/ \E c \in ToSet(Components) : Gone(c)

----------------------------------------------------------------------------

CallbackStep(t) == Mark(t) \/ Named(t) \/ Nameless(t) \/ PublishTelemetry(t) \/ Judge(t)
Callback(t) == \/ Spawn(t) \/ Open(t) \/ PassBy(t) \/ CallbackStep(t)
               \/ \E h \in Handles : FirstWrite(t, h)
Register == RegisterStep \/ \E r \in Rings : RegisterRing(r)
Service == Connect \/ PushRules \/ LoadRules \/ Register \/ Answer \/ AnswerFails \/ Leave

Up == session # "crashed"

Next == /\ Up
        /\ \/ Make \/ MakeFails
           \/ \E t \in Threads : Callback(t)
           \/ Service \/ Unregistering \/ Unregistered
           \/ Unload \/ Teardown

Spec == Init /\ [][Next]_vars

\* As long as the machine is up, bring-up, threads in a callback and calls in the
\* kernel run on; a process that is unloaded under loses its connection.  Nobody has
\* to connect, write, or unload.
Fairness ==
    /\ WF_vars(Up /\ (Make \/ MakeFails))
    /\ \A t \in Threads : WF_vars(Up /\ CallbackStep(t))
    /\ WF_vars(Up /\ RegisterStep) /\ WF_vars(Up /\ LoadRules)
    /\ WF_vars(Up /\ (Answer \/ AnswerFails))
    /\ WF_vars(Up /\ Unregistering) /\ WF_vars(Up /\ Unregistered)
    /\ WF_vars(Up /\ Deleted("filter") /\ Leave)
    /\ WF_vars(Up /\ Teardown)

FairSpec == Spec /\ Fairness

----------------------------------------------------------------------------

\* What is not deleted yet.
Existing == made \union (IF going = <<>> THEN {} ELSE {Head(going)})

\* A thread that is past the check of _base works on memory that is there, with
\* the geometry and the doorbell of that memory and no other; and what a callback
\* or a control message may call exists until it has returned, whether the driver
\* unloads or unwinds a bring-up that failed.
NoUseAfterFree ==
    /\ \A t \in Threads : at[t] \in {"using", "ringing"} =>
          held[t] # Null /\ memory[held[t]] = "live" /\ fields = held[t]
    /\ \A t \in Threads : at[t] # "idle" => {"arms", "engine", "ring"} \subseteq Existing
    /\ session \notin {"none", "crashed"} => {"arms", "engine", "ring", "filter"} \subseteq Existing

\* Unregister unmaps and dereferences through the fields long after it took
\* _base: until it is through they describe the ring it took.
TeardownOwnsFields ==
    down.step \in {"taken", "draining", "freed"} => fields = down.ring

\* Rundown protection that Unregister ran down is given back before the next
\* ring opens: a registered ring refuses nobody.
OpenWhileRegistered == base # Null => ~refusing

\* Memory that is neither in use, nor being built, nor being taken down was
\* given back; an unloaded driver keeps none.
NothingLeaks ==
    \A r \in Rings : memory[r] = "live" =>
        r = base \/ r = up.ring \/ (r = down.ring /\ down.step \in {"taken", "draining"})

\* A disconnect ends, and so does an unload or the unwinding of a bring-up that
\* failed, whatever the callbacks are doing.
TeardownEnds ==
    /\ session = "leaving" ~> session # "leaving"
    /\ going # <<>> ~> going = <<>> \/ session = "crashed"

\* engine.h says of engine_create that its bytes may be NULL when there are none,
\* for an empty rule set that ignores every event, and so the driver makes its
\* first engine: a bring-up ends without the last component only if it was refused
\* something.
StartsUnlessShort ==
    [][coming # <<>> /\ coming' = <<>> /\ "monitor" \notin made' => short']_vars
=============================================================================
