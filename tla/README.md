# Specifications of correlation_engine

TLA+ models, TLC configurations and TLAPS proofs for the correlation engine: the
engine that turns kernel events into verdicts, in its current and its legacy
form, the driver that hosts it, the shared-memory ring over which events reach
the endpoint service, and the service itself. `PROJECT.json` lists components, runs, mutants, hazards, theorems, and
for each definition the source lines it models.

Check a module with `tlc -config X.cfg M`, a proof module with `tlapm M.tla`.

## 1. The system

| Part | Source | State it keeps | Operations |
|---|---|---|---|
| Rule vocabulary | `engine_core/src`: `event.rs`, `rules.rs`, `detector.rs` | none | match an event against a step, order verdicts, say what an action takes away |
| Reference engines | `engine_core/src`: `base.rs`, `v0_0_1.rs`, `v0_0_2.rs` | LINE (key to storyline), members, automata per storyline, DISARMED | `on_event` |
| Kernel engine | `engine_core/src/v0_0_2_bounded.rs` | the same in fixed tables: LINE cells, a slab of storylines, a list of automata per storyline, DISARMED cells | `on_event`, failing open at each limit |
| Rule compiler, wire format | `engine_rules/src/lib.rs`, `engine_core/src/wire.rs` | none | text to rules, rules to bytes and back, for DAG rules and for linear ones |
| Engine host | `engine_core/src/ffi.rs`, `SnsDrv/Engine.cpp` | the loaded engine, the taggers in use | create, referenced TTPs, Load, tag an event |
| Ring buffer | `SnsDrv/Ring.cpp`, `endpoint_service/src/ringbuf.rs` | head, tail, the mirror of head, data region, `used`, drop counters | reserve, fill, commit; next, bytes, advance |
| Doorbell | the same and `endpoint_service/src/ring.rs` | `consumer_state`, the event object | publish's fence and test; should_sleep, wait, awake |
| Verdict table | `SnsDrv/Ring.cpp`, `endpoint_service/src/main.rs` | waiters by request id, next id | add, wait, complete, take |
| Driver bring-up, ring lifecycle, teardown | `SnsDrv`: `Ring.cpp`, `MiniFilter.cpp`, `Callbacks.cpp`, `Entry.cpp` | components made so far, base, mapping, rundown protection, the connection, GlobalRing and GlobalEngine, first-write marks | make and unwind components, register, publish, unregister, connect, push rules, disconnect, unload |
| Endpoint service | `endpoint_service/src`: `main.rs`, `lib.rs` | loop position, bounded queue, shipper's connection and pending record | read, reply, push arms, queue, drain, reconnect |
| Legacy engine | `v1/engine/src`: `lib.rs`, `pattern.rs`, `rules.rs`, `event.rs` | a union-find over storylines, automata per storyline with times and bound nodes, the kernel's arms, write counters per actor | `on_event`, `parse_str`, `tag` |
| Arm table, records, decoding, other sources, protocol, replay tool, network monitor | see `PROJECT.json` | little or none | not modelled, see section 8 |

`SnsDrv` is `sensor/windows_driver/SnsDrv`.

How they meet:

* A driver callback builds an event, tags it with the taggers the rules call for,
  publishes it to the ring and asks the kernel engine for a verdict. The callback
  runs on whatever thread did the operation, so several run at once.
* The engine is called under the host's lock: one event at a time.
* The ring has many producers (callbacks) and one consumer (the service). They
  share a page of indices and a data region and nothing else; the doorbell is
  one flag and one event.
* The service takes frames, runs the detection pipeline (a crate that is not in
  this repository), answers frames that expect a reply, sends control records to
  the driver (verdicts, arms, the ring's registration) and queues detections for
  the shipper thread, which owns the backend connection.
* The legacy engine is a program of its own: it reads a rule file and a dataset
  and plays both the service's engine and the kernel that it arms.
* The filter manager calls connect, disconnect and message handlers; unload may
  come at any moment, with callbacks in flight.

What is hard here, and what correctness means for each part:

| Part | Hard | Correct when |
|---|---|---|
| Engines | merges by size rename storylines under automata; steps commit in declaration order within one event; an action reaches every member | the map and the member lists are one partition; a step is committed only after its prerequisites; nothing learned is lost by a merge; denial rests on evidence, and an operation taken is never given back; each engine meets one contract |
| Kernel engine | every table has a limit, and every limit a fail-open path that must leave the tables sound | equal to the reference until a limit is met; never knows more than it afterwards |
| Ring | reservation, filling and commit are separate; wrap pads; a consumer reads lengths that a producer is still writing | reservations never overlap; where each begins on a word that reads 0, the consumer sees whole frames, in order, and everything committed |
| Doorbell | store buffers between "I sleep" and "there is a frame" | no wakeup lost |
| Verdicts | late, duplicate, contradictory, premature and stray verdicts; timeouts; a full table | a slot outlives no waiter; a denial comes from an answer to the waiter's own request |
| Driver | callbacks inside Publish while the ring is unmapped; two teardown paths (disconnect and unload); bring-up that fails when callbacks run already; control messages while the port is taken down | every callback and message finds what it uses; nothing leaked; teardown ends; bring-up succeeds unless something was refused |
| Service | a stalled or dropped backend; a half-written record; a full queue | no half record followed by another; order kept; at a clean exit the shipper has taken every record queued (one it takes while the link is down and no reconnect succeeds, or none is due yet, is dropped without a try) |
| Legacy engine | path compression between merges; two automata of a pattern folded into one, step by step; arms that outlive what they were pushed for | storylines are the components of causal events; evidence and its order survive merging; only a storyline with evidence is denied |

## 2. Plan and what is done

Done, in this order: the engine core first because every verdict comes from it.

1. `Rules`, `Detector`, `DagRules`, `Storylines`, `EngineDag`, and
   `EngineDagProofs`.
2. `RuleFile` and `CompiledEngine` (the engine on rules a file compiles to).
3. `EngineBounded`, `RuleWire`, `EngineHost`, composed in `EngineDiff`, where the
   driver may load a second rule set; `EngineDiffProofs`.
4. `EngineLinear`, `EngineBase`, and `LinearRules`, their compiler and wire form;
   `EngineBaseProofs`.
5. `RingQueue` and `RingBuf`; `Doorbell`; `Verdicts`; the proofs `RingBufProofs` and,
   for the last two, `HandshakeProofs`.
6. `RingLifecycle` and `Driver`, from bring-up to unload; `DriverProofs`.
7. `Service` and `ServiceProofs`.
8. `PatternsV1`, `RuleFileV1`, `TaggersV1` and `EngineV1`, the legacy engine;
   `EngineV1Proofs`.

To do:

* Model: MapEvent in the engine host; directory listings; the arm table; counts
  too large for their field.
* Prove: that `advance` keeps every reservation on a word that reads 0 as long as all frames have
  one length, which no run states either. What else remains is listed at the end of section 6.

## 3. Modules

Modules without a `Spec` are vocabularies. `MC*` modules only give constants
their values. A definition whose comment begins with "Fault:" is a plausible
mistake in the definition below it; no action uses it, and `PROJECT.json` pairs
it under "mutants" with the property that would notice.

**Detector** is the abstract specification: what any engine of the repository
promises about `on_event`. An operation its actor has been deprived of is
answered Block and changes nothing; any other event is answered somehow, and only
an answer Disarm takes operations, only from the actor, and never gives any back.

**Rules, DagRules.** Events carry actor, object, operation and TTPs; timestamps,
kinds and names are left out, no decision reads them. A DAG pattern is a sequence of
steps, each with a bit, a set of prerequisite bits and its list of TTPs, repeats and all. `Progress` is the loop
over the steps in declaration order, in which a step committed early can enable
a later one within the same event; it is a recursive function, `Tried`, so that
it can be proved about. A mask is a set of bits.

**Storylines** is union-find without the find: `line` is LINE, `members` and
`autos` are the two halves of a storyline, indexed by the key that names it.
`Unify` resolves both keys (`Resolve` gives an unknown key a storyline of its
own) and merges by size, ties to the first.

**EngineDag** is `v0_0_2`. `Deny(e)` is the early return on DISARMED; `Track(e)`
is the rest of `on_event` as one step: unify, seed, advance, collect the actions
of each step committed, apply them. The whole call is one action because it runs
under `&mut self`.

**RuleFile, CompiledEngine.** `RuleFile` reads a file line by line (`Read`), one
operator per keyword, and ends in the validity test of a DAG (bits distinct and
below 64, every prerequisite defined, every step reached by passes over the steps
that go on while they reach something new). Both loops are recursive functions, so
that they can be proved about. `CompiledEngine` runs `EngineDag` on what a file
compiles to, states `NeverStuck`, and says without the algorithm what should be accepted
(`Orderable`, `WellFormed`); `MCEngineDag` compares the two, on every short
list of steps and every short file.

**EngineBounded** is `v0_0_2_bounded`. `ent`, `slots` and `dis` are its tables.
`FailOpen(e)` is the early return: LINE has no room for both keys, or the slab
no free slot; the actor's entry may have been made by then. A merge whose members
or automata do not fit leaves the two storylines apart and the call goes on
(`Unify`), and so does a seed without room, or an actor without room in
DISARMED. The hash tables are partial functions with a capacity, since nothing is ever removed from
them and probing finds what was stored.

**LinearRules** is `compile` and the wire form of linear rule sets: the line
operators of `RuleFile` where the code shares them, its own where a step has no bit.

**RuleWire, EngineHost.** A blob is a sequence of fields. Decoding threads a
position and stops at a short, alien or trailing field. Counts wrap at the width
they are written with. The loops of both directions are recursive functions (`Chain`,
`Repeat`), so that they can be proved about. `Load`, `Referenced`, `Used`, `Taggers` and `Tagged` are the host:
which rules, which TTPs are referenced (a buffer of limited size), which taggers
that leaves, which TTPs an event then carries.

**EngineDiff** feeds each event to both engines: the reference engine gets the
rules, the kernel engine the rules after encoding, decoding and loading, and the
event as tagged. `patterns` and `taggers` are what the driver loaded. `Reload` is
one more C_SET_RULES: engine, tables and taggers change together, under the lock
that Feed takes, and the reference engine is made anew of the same rules. `capped`
and `diverged` are history: a limit was met or a technique the rules speak of went
untagged; an event was denied by one engine only.

**EngineLinear, EngineBase.** `v0_0_1` with one stage counter per automaton, and
`base`, which in addition keeps the graph of nodes and edges.

**RingQueue** is the abstract ring: places are claimed in order, each is settled as
published or void, and only the oldest is taken, once settled.

**RingBuf** is the code over a region of words. A producer reserves (loads of head
and tail, then the compare-exchange, retried), publishes the mirror, writes the pad
if it wraps, the frame's header, its body, and commits by storing `TotalSize` last;
a failed serialisation commits a pad. The consumer sees the mirror, then
TotalSize and Version, copies the frame, zeroes `TotalSize` alone, and publishes
tail. `used`, drops and the telemetry budget are the code's. A copy that mixes
two frames is `Torn`. `claims` is a history of the reservations between tail and
head; the refinement mapping is the frames among them that are not yet copied.
`stale` is a history too: a reservation was made whose first word (or its pad's) did
not read 0. What the ring promises it promises until then.

**Doorbell** gives each producer and the consumer a FIFO store buffer, as x86
does, and models the two fences and the two tests.

**Verdicts** is one action per lock acquisition in `EnforceSync` and in the
C_VERDICT handler. `Reply` is the service's answer to the request it picked up; `Stray` is any
other C_VERDICT, which the driver takes as well: a second one, which may contradict the
first, one ahead of the request, one for a request long gone or for none. `judged` is the
history of the last answer to each request that came while it had its slot.

**RingLifecycle** is the ring's own part (register, enter, use, leave,
unregister in its five steps); **Driver** puts bring-up, callbacks, the connection, the
message handler, the first-write mark and unload around it. `PassBy` is a write that is not
looked at (its early returns, and a handle that is marked). Each step
is at most one access to a shared variable, with one exception: that the port has
a ring is tested in one step with the start of the registration. `coming` is what
`Driver()` has still to make and `going` what is being deleted; `Make` and
`MakeFails` take a component up or start the unwinding, `Delete` and `Gone` are the
start and the end of a destructor. What a constructor unwinds within itself is that
component's failure. A control message that finds the null pointer `~Port` left
behind brings the machine down: `session` is then crashed and nothing
happens any more. `FirstRules` are the bytes the first engine is made of, see the
runs `driver` and `bring_up`.

**Service** has the loop (`reading`, `replying`, `arming`, `shipping`, `joining`)
and the shipper (`receiving`, `connecting`, `writing`), and the backend as an
environment that accepts, stalls, drops and comes back.

**PatternsV1** has the legacy engine's patterns, what an automaton may commit
(prerequisites, window, scope, bindings), and the kill-chain score in integer
units. **RuleFileV1** is `parse_str`, a directive at a time; **TaggersV1** is `tag`
with the write counters. **EngineV1** is `on_event` as one action (it runs under
`&mut self`): `Resolve`, `Unify` with `Compress` and `Merge`, `KernelDenies`,
`Seeded`, `Advance` (a recursive function, `Scan`, so that it can be proved about), and
the arms, of which a hash order chooses one. `causes` is a
history of the causal events, kept without the union-find.

## 4. Runs

| Run | Question | Properties | Bounds |
|---|---|---|---|
| `engine_dag` | Do the reference engine's structures stay sound, on rules a file compiles to? | TypeOK, NeverStuck, StorylinesConsistent, PrereqClosed, NoIdleAutomaton, EvidenceKept, DisarmedOnEvidence, ImplementsDetector | 3 keys, 2 operations, 2 TTPs, 2 patterns; an engine with 3 automata is fed no event that seeds another; rule files of at most 3 steps and 5 lines for the compiler |
| `engine_base` | May `v0_0_1` drop the graph? | StorylinesAreComponents, ImplementsDetector | 4 keys, 2 operations, 5 edges; with 2 automata no more are seeded; linear rule files of at most 4 lines |
| `engine_diff` | Is the kernel engine the reference engine until a limit is met, and weaker in knowledge afterwards? | SameUntilCapped, KernelKnowsNoMore, TablesSound | 3 keys; with 2 automata no more are seeded; 2 automata and 2 members to a slot, 2 slots, 3 cells of LINE, 1 of DISARMED, 1 tagger; one reload |
| `over_enforce` (violation) | Does a limit only ever weaken enforcement? | NeverStronger | as `engine_diff` |
| `ring` | Are reservations disjoint, frames whole and in order, and is everything reserved taken in the end, until a reservation begins on old bytes? | ReservationsTile, SlotsHoldTheirClaims, NeverTorn, ImplementsQueue, EveryClaimTaken | 2 producers, 5 words, frames of 2 and 3 words, 7 words of head |
| `ring_mixed` (violation) | Does the consumer only take what is committed, with frames of two lengths? | TakesOnlyCommitted | 1 producer, 8 words, frames of 2 and 3 words, 16 words of head |
| `doorbell` | Can a frame lie in the ring of a sleeping consumer? | NoLostWakeup, EveryFrameTaken | 2 producers, 4 frames |
| `verdicts` | Do waiters and slots match, are verdicts obeyed, and does everyone get back to its caller, whatever is answered? | SlotsMatchWaiters, DeniedOnlyOnItsVerdict, VerdictObeyed, EveryoneReturns | 3 threads, 2 slots, 3 requests |
| `driver` | Is everything there that callbacks and messages use, from bring-up through reconnects to unload? | NoUseAfterFree, TeardownOwnsFields, OpenWhileRegistered, NothingLeaks, TeardownEnds | 2 threads, 2 rings, 1 handle; the first engine made of an empty rule set that was encoded |
| `bring_up` (violation) | Does the driver come up unless it is refused something? | StartsUnlessShort | as `driver`, the first engine made of no bytes, as in the code |
| `service` | Are the stream and its order kept through losses, and does the shipper take all of the queue before a clean exit? | NoDesync, InOrderOnce, DrainedOnExit, LinkRecovers | queue of 2, 2 frames, 3 records in flight, 3 connections |
| `engine_v1` | Are the legacy engine's storylines causal, is evidence kept, and does denial rest on it? | RootsOwnStorylines, StorylinesAreCausal, EvidenceOrdered, DeniedOnEvidence, EvidenceKept | 2 processes, 2 files, times up to 2; rule files of at most 2 steps and runs of at most 4 writes for the assumptions |

Why the bounds are enough:

* Engines. Three keys give a merge of two storylines, then of the result with a
  third, with both size orders and the tie; four keys in `engine_base` give a
  merge of two pairs. One pattern of `engine_dag` joins two parallel root steps,
  which one event can commit together, into a third that disarms; the other blocks
  and then disarms. Order within an event, joins of branches and actions of two
  patterns at once occur. With 3 automata no more are seeded, but merges
  and progress go on, so storylines with progress on both sides are folded.
  Keys are interchangeable, so they are symmetric. Of the two
  drafts of the rule file the first has a cycle and must be refused; the second
  is what is loaded. The module's assumptions in addition compare the compiler's
  sweep with a reference definition on every list of up to 3 steps, and the line
  reader on every file of up to 5 lines.
* Linear rules. `LinearFilesSound` compares, on every file of up to 4 lines,
  what compiles with what the wire gives back of it; a file of 4 lines holds a
  whole pattern and the start of another.
* `engine_diff`. Slots, members, automata and DISARMED are small enough to run
  out with three keys. LINE itself does not (the slots run out first, and the code
  returns the same way). Two seeds per call make the automata limit bite in
  the middle of a call. The bits are 0, 1 and 63, both ends of the mask. The
  first rules speak of one of the two techniques the driver can sense, so an event
  as tagged differs from what was sensed; the later rules speak of both, one more
  than there is room for taggers. One reload is enough: it forgets everything but
  the rules. The assumption `WholeBlobsOnly` checks that a blob cut short
  anywhere, or with a field behind it, loads nothing.
* Ring. A lap is 5 words: a frame of 2 and one of 3 fill it, two of 2 leave a pad of 1,
  and two of 3 do not fit, so the second wraps. Head at 7 admits reservations over the place of the
  first frame, of another length than it, with and without a pad before them. The telemetry budget
  (4 words) differs from the whole. Reservations on old bytes occur too; what the properties
  still say after one is that reservations do not overlap.
* Doorbell. Two producers, so that one may ring for the other's frame; four frames
  give the consumer two sleeps.
* Verdicts. Three threads on two slots meet the full table, and one more request than
  slots gives late answers a slot to go astray to. An answer may name any id, also one that
  no thread has drawn yet or that never will be.
* Driver. Two rings are one disconnect and reconnect. Two callbacks suffice for
  one inside Publish while the other enters. Bring-up may fail at any of the six
  components, with callbacks of those already made in flight.
* Service. A queue of 2 fills while the shipper holds a record; three connections
  allow two losses.
* Legacy engine. Four nodes give merges of merged storylines, with automata of
  one pattern on both sides; one pattern arms and is denied at its last step, the other
  binds a file. Times 0 to 2 against windows of 1 let a step come too
  late. Keys of one kind are interchangeable, so they are symmetric.

Deadlock checking is off where a bound stops the model (`MaxAutos`, `MaxHead`,
`MaxReqs`, `MaxTime`) and in `driver`, where an unloaded driver really stops.

## 5. Fairness

* RingBuf: a producer that has reserved runs on to its commit (a callback is not
  abandoned half way), and the consumer polls. Nobody has to reserve.
* Doorbell: producers finish what they began, store buffers drain, the consumer
  runs when it is not waiting. The timeout of the wait (`Lapse`) is possible but
  is never counted on: no wakeup is lost even without it.
* Verdicts: only the waiting thread itself is fair; its wait ends by the timeout.
  The service may never answer.
* Driver: as long as the machine is up, bring-up runs on, and so do callbacks in
  flight, a registration begun, its answer, a rule load begun, an
  unregistration and a teardown; once the filter is being deleted the filter
  manager disconnects the client. Nobody has to connect, write or unload. Each is
  weak fairness of one thread's next step: kernel threads are not abandoned.
* Service: the loop's own steps. `LinkRecovers` states what it needs as its
  premise: the shipper runs, a retry falls due, the backend stays up.

## 6. Proofs

`EngineDagProofs` proves for `EngineDag`, for every set of keys, operations and
TTPs and every rule set, what the run `engine_dag` checks: type correctness,
consistency of the storylines, closure under prerequisites, no idle automaton, that
nothing learned is lost, that disarming rests on evidence, that the
engine implements `Detector`, and, on the rules of any file, that no automaton is stuck.

*Assumptions.* `PatternsAssumption`: patterns are sequences of well typed steps
whose bits are distinct and below 64. The compiler guarantees it, whatever the file
(`RulesAllowed`, by induction on the lines read); a rule set that reaches the driver over the wire is not validated
again there, and the theorems are about the engine of user space. `NoLineAssumption`: the mark for "no entry" is no key.

*The invariant.* The properties are not inductive by themselves. Prerequisite
closure of an automaton says nothing of the automata that a merge brings in
unless the storyline merged from is known to be typed and closed too; consistency
needs that a storyline's name is one of its members, or a fold could leave a key
pointing at an emptied storyline. `IInv` therefore joins `StorylinesInv` (types,
`Consistent`, and that each list holds only masks in `Good`: non-empty, within the
pattern, closed) with the types of `disarmed` and `verdict`.

*The argument.* `Resolve`, `Fold`, `Merge` and `Unify` each preserve
`StorylinesInv` and keep every member and automaton (lemmas about a state record,
independent of the variables). The first part of the module shows what one event does to one
automaton: `TryKeepsClosed` and `TriedGrows` for one step, and `ProgressGood` for the loop, by
induction on the number of steps tried. The library's induction theorems take an
operator as parameter, which the available provers cannot instantiate;
`SetInduction` states induction over a set of naturals and follows from the
least-element property of the naturals. `Invariance` then has one case for `Deny`, which
changes nothing but the verdict, and one for `Track`. The action properties
follow from the same lemmas: `EvidenceKept` needs that a fold appends, so
automata keep their order, and that `Advanced` only grows masks.
`RefinementCorrect` maps each of `Deny` and `Track` to a step of `Detector`.

`NeverStuckCorrect` needs nothing of the engine's state and all of the compiler. An
automaton that is stuck has a mask which no missing step can leave (`Saturated`); a pass
of the validity test that starts within such a mask ends within it (`SweepStays`),
so all of them together do (`ReachedStays`), and since the compiler only closes a pattern
when every step was reached, the mask holds them all. That the passes also reach
every step that can be ordered, the other direction, is checked by TLC (`ReachedExactly`).

`HandshakeProofs` is about the two places where driver and service wait for each
other. Its first half proves `SlotsMatchWaiters`, `DeniedOnlyOnItsVerdict` and
`VerdictObeyed` of `Verdicts`, for any number of threads, slots and requests (assumed:
`MaxReqs` is a natural number). The wait is cut in pieces by the table's lock, and an
answer may be late, a duplicate, to the contrary, or a stray. The invariant therefore
follows a request through its life: asked by one thread (`RequestsDistinct`), its slot there
exactly while its thread waits (`OwnersWait`); and it relates the event that was signalled to
the last answer in the slot its thread will take (`SignalledIsJudged`, `SuccessWasSignalled`).

Its second half proves `NoLostWakeup` of `Doorbell`, for any number of producers and
frames (assumed: `MaxFrames` is a natural number, the sets may be anything). The module
extends both, hence the names `DoorbellInit`, `DoorbellNext` and `DoorbellSpec`.
The argument is Dekker's: a service that blocks has its SLEEPING in memory and after that saw no frame, so
whoever commits one later has yet to drain its commit and to look. The property
speaks of memory only, so the invariant adds what may be in the store buffers: at most
the commit of the frame its producer is at the fence with (`OneCommitBuffered`), and
the service's SLEEPING as the last store while it is at its own fence
(`SleepingIsOut`). `MirrorCovers` is needed because the service looks for frames
under the mirror: a committed frame is never beyond it.

`EngineBaseProofs` proves `StorylinesAreComponents` and `ImplementsDetector` for
`EngineBase`, for any keys, operations and linear rules. The storylines are
compared with the components of a graph that the engine keeps beside them, and
connectedness is a statement about every cut (two nodes are connected when every set
of nodes that no edge leaves has both or neither). The invariant is the two halves of the
property, `EdgesInside` (no edge between two storylines) and `OneStorylineConnected`
(no cut through one), with the partition itself and one thing more: a key not seen yet is
in nobody's storyline, or resolving it could join two that no edge connects. A merge
and its edge come in one step, so a cut through the joined storyline would have
been one through either before.

`EngineDiffProofs` proves `TablesSound`, `KernelKnowsNoMore` and `SameUntilCapped` for both
engines together, for every set of keys and every capacity, with the assumptions of the
module. The hypothesis of the first, `RulesLoaded`, says that what `Load` makes of a
blob is a rule set at all; that of the other two, `WireFaithful`, that it is the one the blob
was made from. Both speak of the constants only, and `WireFaithfulCorrect` proves the
stronger one, `WireFaithful`, of every two rule sets that are `Carriable`: fewer than 256
TTPs in a step, fewer than 65536 steps in a pattern and patterns in a set. Beyond that the
counts are narrowed on the wire (section 7), and the driver runs other rules than
the reference engine, or none. The argument follows the reader: a blob that carries, from some
place on, what was written of a step gives that step back and leaves the reader behind it
(`StepRead`), a counted list of such parts gives the list of what they were written of
(`ListRead`), and so do patterns (`PatternRead`) and the whole set (`WireRead`).
TLC evaluates both conditions for the rule sets of the run (`RulesCarried`). A name and
its length are one field in the model, so nothing is said of names too long for theirs.
For the tables, `Sound` and `Roomy` go through `Resolve`,
`Fold`, `Unify`, the seeds and the advance in turn, as statements about a
record of tables: an entry leads to a slot in use that lists it, no slot in use is
empty, and every array is within its capacity. For `KernelKnowsNoMore` the
reference engine's `IInv` is taken over from `EngineDagProofs`, once for each rule
set the driver may have loaded. `Below` is the relation between the two engines:
keys joined here are joined there, and each automaton here has one there at least as
advanced. A step keeps it because the kernel sees no more techniques than the
reference (`ProgressMonotone`), because it seeds only where the reference has seeded
too, and because the reference never forgets (`TrackLearns`), also when the kernel refused
the merge, the seed or the entity.

`SameUntilCapped` rests on a sharper relation, `Same`: the same keys, the same partition of
them, and every array of the kernel engine `Alike` the lists of the storyline it stands
for. The array holds the automata of all patterns together, in the order of seeds and
merges; the reference engine keeps a list for each pattern. `Alike` says that some
assignment of places in the lists to places in the array is a bijection and that the
automata it pairs are the same; how many there are at each mask follows (`AlikeCounts`). It
is kept by appending on both sides (`ConcatAlike`), so by merges and seeds, and by
advancing both sides (`AdvancedAlike`), and it makes both sides commit the same steps
(`ActivatedAlike`). Both engines merge into the same class because the members of a
class are as many on both sides (`UnifySame`). Two things come from outside the
engines: `TagInv`, the taggers are those of the loaded rules, makes an event with none of
its techniques left untagged match the same steps before and after tagging
(`TaggedIndistinct`); and `ApplySame`, an actor is deprived of the same operations as
long as DISARMED has room.

`DriverProofs` proves `NoUseAfterFree`, `TeardownOwnsFields`, `OpenWhileRegistered` and
`NothingLeaks` for any set of callbacks and handles, any
number of rings. None is inductive by itself: whether the memory may be freed depends
on who is still in the ring, and that nobody registers meanwhile depends on the
order of deletion and not on a lock. `IInv` has four parts. `Stage`: what exists
is what is in line to be deleted, and what others stand on comes last. `Callers`: a
callback keeps its filter or monitor alive, a connection the filter. `RingInv`: who may
touch the ring's fields, step by step; registration and unregistration exclude one
another, and a thread in the ring is in the one that is registered or in the one that
waits for it. `Jobs`: a callback about a write has a handle, and it alone. The marks on
handles have no theorem: what the code says of them does not hold (section 7).

`RingBufProofs` proves `ReservationsTile`, `SlotsHoldTheirClaims`, `NeverTorn` and
`ImplementsQueue` for any number of producers, any size of the region and frames of any
lengths, with no hypothesis. Two things are told apart. The race for the head (`Race`) is
sound whatever the words of the region read, and whatever the consumer has been led to take: what
a producer read of tail may be old but is never ahead of tail, so the room it computes is never
too much, and reservations follow one another and never exceed the region. The rest stands on
words that read 0 where a reservation begins. `stale` is the history of the first one
that does not, and the invariant is `Race` and, until then, `Sound`. So the
statements are of the form: as long as every reservation so far began on a 0, every
place holds what its claim says, the consumer has only committed frames in hand, and each step is
one of the queue's. That the code does not see to this condition by itself is the finding of
`ring_mixed`; with it the protocol is right for every traffic, old bytes under the rest of a frame
included.
Within `Sound`, `Order` and `Shape` place the claims on the circle (`ClaimsApart`: two claims
share no word), `Producer` says which claim a producer is filling and how far it is,
`Published` that a settled claim is under the mirror, and `Consumer` that
the consumer has the first claim in hand. `ImplementsQueue` then follows step by step: a
reservation claims a place behind all others, a commit settles one, and the consumer takes
the first. It needs one thing more of the claims (`Named`): a frame bears the number of a
reservation won, so the next one is new, and a pad is never ready.

`ServiceProofs` proves `NoDesync`, `InOrderOnce` and `DrainedOnExit` for any length of
the queue and number of connections. A record is in one of three places: in the queue, in the
shipper's hand, or on a connection. `HandedOn` bounds what is in each by what was
handed over so far, and `InOrderOnce` orders the places; `InHand` says when the hand is
empty, `Endings` how the two threads end (the sender is dropped first, then the queue is
drained; a record that was taken may have been dropped, so this does not say that it was sent), and `LastLink` that the shipper only ever writes to the newest connection,
so that nothing follows half a record.

`EngineV1Proofs` proves `RootsOwnStorylines`, `StorylinesAreCausal`, `EvidenceOrdered`,
`DeniedOnEvidence` and `EvidenceKept` of `EngineV1`, for any set of nodes and every
rule file (assumed: `PatternsAssumption`, patterns are typed as the reader makes them,
and `InputsAssumption`, events are typed and "no image" is no node). `find` is a
recursive function over the parents, so the first thing to show is that the recursion
ends: the parents are a `Forest`, with a root and a depth for every storyline such that
each one hangs from a shallower one with the same root. In a forest `Root` and
`Path` have the values one expects (`RootIs`, `PathKeepsRoot`); compression changes no root
and makes nothing deeper (`CompressForest`); a merge moves the child's whole tree below
the other root (`HungGraph`). `Components` says that the trees are the sets of `causes`, so
`StorylinesAreCausal` follows event by event. The evidence is `Sound`: exactly the steps
done have a time, none later than the clock, and prerequisites come before. It survives
`Combined`, which keeps the earlier time of each step, because the
automaton whose time a step keeps holds the step's prerequisites too, no later, and
combining can only make theirs earlier (`CombinedSound`). The loop over the steps is shown to have a value before anything is
said about it (`AdvanceExists`). `ArmsFounded` is what denial needs: a root that
has an arm holds an automaton that armed. A storyline that was merged away may leave its
arm behind, and that arm is never asked again, since `find` does not end there.

*Only model-checked.* Every other invariant and action property of the runs that pass is stated by
a theorem, within the hypotheses named above. With TLC stay: liveness under fairness
and ENABLED; what the compilers accept and what the linear wire gives back, compared with
reference definitions (`ReachedExactly`, `AcceptedExactly`, `LinearFilesSound` and their like
are evaluated on bounded inputs); and that a damaged blob loads nothing (`WholeBlobsOnly`).

## 7. What the models say of the code

Three runs show the code disagreeing with its own documentation:

* `ring_mixed`. `advance` zeroes only the `TotalSize` of the frame it leaves,
  and with frames of different lengths a later reservation may begin in the
  middle of an old frame, where old data is not zero. Between the reservation and
  the commit the consumer then takes for a size what nobody wrote as a size
  (`Ring.cpp:392`).
* `bring_up`. The driver makes its first engine of no bytes
  (`Engine.cpp:166`). `engine_create` hands them to the decoder (`ffi.rs:86-91`),
  which wants a magic and finds none; the handle is NULL, the constructor fails,
  and everything made before it is unwound. `engine.h:85` and the comments at
  `Engine.cpp:165` and `Entry.cpp:106` say that this makes an empty engine. So the
  driver never loads. The run `driver` uses an encoded empty rule set instead, to
  have a driver to check.
* `over_enforce`. "A limit only weakens" is not so: a refused merge leaves the
  kernel engine behind, and a step the reference engine already passed can fire
  later in the kernel (`v0_0_2_bounded.rs:149`). What does hold is
  `KernelKnowsNoMore`: until the two engines differ on which event to deny, the
  kernel engine has no evidence the reference lacks. Once one of them has denied an
  event the other tracked, they have seen different histories.

Other observations made while modelling, that no run states:

* `used > data_size` can be computed from a stale head and a newer tail without
  any tampering; the producer then drops a frame (`Ring.cpp:363-371`,
  `ringbuf.rs:366-368`).
* An open of lsass is judged without being published (`Callbacks.cpp:127`): the
  service does not see what the kernel engine acted upon.
* `~Port` nulls GlobalEngine and GlobalRing, while a connection made before outlives
  it until the filter goes. C_SET_RULES tests GlobalEngine, copies the rules in and then
  uses it; a registration whose reply fails uses GlobalRing
  (`MiniFilter.cpp:487-501`, 557, 567). Either can be a null dereference on unload.
* The README's table says Read, Open and Connect do not merge storylines; the
  code merges for every operation.
* The README says the service pushes its rules; on the default ring transport it
  does not.
* `Engine::Load` replaces the engine and with it DISARMED.
* Encoded counts are narrowed (TTPs to 8 bits, repeats counted; steps and patterns to 16): a
  step that names one TTP 256 times compiles, and its blob does not decode (`CountWraps` in
  `MCEngineDiff`).
* A handle is marked before its name is looked up (`MiniFilter.cpp:222`, 140; `Mark`, then
  `Nameless`). Where the lookup fails nothing is reported, and every later write on the handle
  passes as "already reported", though the comment at 220 says "never fewer".
* Two overlapping writes on one handle can both find no mark (`MiniFilter.cpp:210`) and both
  report: the status by which KEEP_IF_EXISTS tells them apart is ignored (222), though the comment
  at 221 counts on it.
* Writes on a marked handle bypass the engine, also after a first write that was denied.
  Writes above PASSIVE_LEVEL, of the paging system, or without a file object are never
  looked at, by design (`MiniFilter.cpp:201-205`).
* A producer that stalls between reserve and commit holds up the consumer.
* A verdict that arrives after the wait timed out and before `Take` is
  acknowledged and not enforced. Of two answers to one request that come in time the later counts.
* A read error ends the service without draining the shipper.
* Legacy engine: a pattern of scope `same_actor` never commits its first step,
  because the scope asks for a node bound before. A chokepoint step that was denied
  is committed all the same, so the writes after it pass. `merge` leaves the arm and
  the `armed` flag of the storyline that goes behind (`lib.rs:201-236`), and arms
  are never cleared; of two bindings of one role one side's is kept. The op that is armed is
  that of the first step still to come, not of `block_at`. The rule file may
  repeat an id or a bit, order steps in a cycle, or use a bit of 64 or more, whose
  mask wraps.

## 8. What is not modelled, and what is assumed

* `edr_engine`, the detection pipeline of the service, and `backend_service` are
  not in the repository. `Service` lets the pipeline return any of its outcomes.
* The filter manager and the kernel are external: `FltUnregisterFilter` waits for
  callbacks in flight, the client port has at most one connection and messages on
  it come one at a time (the service sends them from one thread); process ids are
  not reused.
* Record layouts, string conversion, the protobuf codec, control-record encoding
  and readers of files and the legacy port keep no state.
* `EnforceSync` has no caller at this commit; the table and its service side are
  live code and are modelled as called. The arm table is filled but nothing
  reads it. The network monitor is compiled out. The 32-bit request id does not wrap in the
  model (`MaxReqs`).
* Legacy engine: reading a dataset (`dataset.rs`, `main.rs`). Events come in the
  order of their times; TaggersV1 says what the write counters hold when they do
  not. `ttp_history`, `last_activity` and a storyline's score are written and never
  read for a decision.
* Probing in the kernel's hash tables, the allocator of `EngineRt.cpp`, logging
  and counters that no decision reads.
