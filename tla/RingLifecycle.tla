--------------------------- MODULE RingLifecycle ---------------------------
(***************************************************************************)
(* The life of the shared ring's memory in the driver: what                *)
(* Ring::Buffer::Register builds, what Publish touches while it holds      *)
(* rundown protection, and how Unregister takes it all away (Ring.cpp,     *)
(* Ring.hpp).  What the frames hold is RingBuf's subject; here a ring is   *)
(* its pool, MDL, user mapping, process and doorbell references together,  *)
(* numbered in the order Register built them.                              *)
(*                                                                         *)
(* The module has the operations of the Buffer object.  Who calls them,    *)
(* and when, is Driver's.                                                  *)
(***************************************************************************)
EXTENDS Integers

CONSTANTS Threads,  \* the threads a callback may publish from
          MaxRings  \* bound: how many times Register may build a ring

ASSUME MaxRingsAssumption == MaxRings \in Nat

Rings == 1 .. MaxRings
Null == 0

VARIABLES base,     \* _base: the ring producers may use, or Null
          fields,   \* the ring _mask, _data_size, _user, _mdl, _process and _doorbell describe
          memory,   \* each ring's memory, mapping and references: unused, live or freed
          refusing, \* _rundown has been run down: no acquire succeeds
          at,       \* where each callback thread is; Publish is entering .. ringing
          held,     \* the base each publishing thread cached
          up,       \* Register's progress, and the ring it is building
          down      \* Unregister's progress, and the ring it took

bufferVars == <<base, fields, memory, refusing, at, held, up, down>>

\* The threads that hold rundown protection.
Inside == {t \in Threads : at[t] \in {"inside", "using", "ringing"}}

----------------------------------------------------------------------------
(* Register.  A failure of any step before the fields are set is unwound   *)
(* by the defers, and leaves nothing.                                      *)

\* Fault: Register does not look whether a ring is registered already.
RegisterBuildAgain(r) ==
    /\ up.step = "idle"
    /\ memory[r] = "unused" /\ \A s \in Rings : s < r => memory[s] # "unused"
    /\ memory' = [memory EXCEPT ![r] = "live"]
    /\ up' = [step |-> "built", ring |-> r]
    /\ UNCHANGED <<base, fields, refusing, at, held, down>>

RegisterBuild(r) ==
    /\ up.step = "idle"
    /\ base = Null
    /\ memory[r] = "unused" /\ \A s \in Rings : s < r => memory[s] # "unused"
    /\ memory' = [memory EXCEPT ![r] = "live"]
    /\ up' = [step |-> "built", ring |-> r]
    /\ UNCHANGED <<base, fields, refusing, at, held, down>>

RegisterFill ==
    /\ up.step = "built"
    /\ fields' = up.ring
    /\ up' = [up EXCEPT !.step = "filled"]
    /\ UNCHANGED <<base, memory, refusing, at, held, down>>

\* The gate producers test, stored last behind a barrier.
RegisterExpose ==
    /\ up.step = "filled"
    /\ base' = up.ring
    /\ up' = [step |-> "idle", ring |-> Null]
    /\ UNCHANGED <<fields, memory, refusing, at, held, down>>

----------------------------------------------------------------------------
(* Unregister, one step per thing another thread can see.                  *)

NotUnregistering == down.step = "idle"

\* The exchange of _base.  With nothing registered Unregister returns here.
UnregisterTake ==
    /\ NotUnregistering
    /\ base' = Null
    /\ down' = IF base = Null THEN [step |-> "done", ring |-> Null]
                              ELSE [step |-> "taken", ring |-> base]
    /\ UNCHANGED <<fields, memory, refusing, at, held, up>>

UnregisterRefuse ==
    /\ down.step = "taken"
    /\ refusing' = TRUE
    /\ down' = [down EXCEPT !.step = "draining"]
    /\ UNCHANGED <<base, fields, memory, at, held, up>>

\* Fault: the memory is freed without waiting for the producers inside.
UnregisterFreeAtOnce ==
    /\ down.step = "draining"
    /\ memory' = [memory EXCEPT ![down.ring] = "freed"]
    /\ down' = [down EXCEPT !.step = "freed"]
    /\ UNCHANGED <<base, fields, refusing, at, held, up>>

\* The wait is over when every thread inside has left; then the mapping, the
\* MDL, the pool and the references go.
UnregisterFree ==
    /\ down.step = "draining"
    /\ Inside = {}
    /\ memory' = [memory EXCEPT ![down.ring] = "freed"]
    /\ down' = [down EXCEPT !.step = "freed"]
    /\ UNCHANGED <<base, fields, refusing, at, held, up>>

UnregisterClear ==
    /\ down.step = "freed"
    /\ fields' = Null
    /\ down' = [down EXCEPT !.step = "cleared"]
    /\ UNCHANGED <<base, memory, refusing, at, held, up>>

\* Fault: rundown protection is never initialised again.
UnregisterForgetsRearm ==
    /\ down.step = "cleared"
    /\ down' = [step |-> "done", ring |-> Null]
    /\ UNCHANGED <<base, fields, memory, refusing, at, held, up>>

UnregisterRearm ==
    /\ down.step = "cleared"
    /\ refusing' = FALSE
    /\ down' = [step |-> "done", ring |-> Null]
    /\ UNCHANGED <<base, fields, memory, at, held, up>>

UnregisterStep == \/ UnregisterRefuse \/ UnregisterFree
                  \/ UnregisterClear \/ UnregisterRearm

----------------------------------------------------------------------------
(* Publish, from a thread whose next step after it is next.                *)

Enter(t, next) ==
    /\ at[t] = "entering"
    /\ at' = [at EXCEPT ![t] = IF refusing THEN next ELSE "inside"]
    /\ UNCHANGED <<base, fields, memory, refusing, held, up, down>>

\* Fault: the return for want of a ring keeps the protection.
ReadBaseKeepsProtection(t, next) ==
    /\ at[t] = "inside"
    /\ held' = [held EXCEPT ![t] = base]
    /\ at' = [at EXCEPT ![t] = IF base = Null THEN "inside" ELSE "using"]
    /\ UNCHANGED <<base, fields, memory, refusing, up, down>>

\* The one read of _base; Null means no ring, and the protection is let go.
ReadBase(t, next) ==
    /\ at[t] = "inside"
    /\ held' = [held EXCEPT ![t] = base]
    /\ at' = [at EXCEPT ![t] = IF base = Null THEN next ELSE "using"]
    /\ UNCHANGED <<base, fields, memory, refusing, up, down>>

\* Size check, Reserve, the frame and its commit; a frame that is too large,
\* finds no room or does not serialize rings no doorbell.
UseRing(t, next) ==
    /\ at[t] = "using"
    /\ at' \in {[at EXCEPT ![t] = next], [at EXCEPT ![t] = "ringing"]}
    /\ held' = IF at'[t] = next THEN [held EXCEPT ![t] = Null] ELSE held
    /\ UNCHANGED <<base, fields, memory, refusing, up, down>>

\* The doorbell, if the consumer sleeps, and the release of the protection.
Bell(t, next) ==
    /\ at[t] = "ringing"
    /\ at' = [at EXCEPT ![t] = next]
    /\ held' = [held EXCEPT ![t] = Null]
    /\ UNCHANGED <<base, fields, memory, refusing, up, down>>

Publish(t, next) ==
    Enter(t, next) \/ ReadBase(t, next) \/ UseRing(t, next) \/ Bell(t, next)
=============================================================================
