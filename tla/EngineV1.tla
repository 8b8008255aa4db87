------------------------------ MODULE EngineV1 ------------------------------
(***************************************************************************)
(* The legacy engine, v1/engine (lib.rs): every event is resolved to its   *)
(* nodes, joins the storylines of actor and object when it is causal, asks *)
(* the kernel's fast path, and advances the storyline's automata; a        *)
(* confident automaton arms the kernel against the storyline.              *)
(*                                                                         *)
(* A node makes a storyline of its own when it is first seen, so the node's *)
(* key names that storyline (sid) too.  The TTPs of an event come with it  *)
(* (TaggersV1 is what confirms them).  What nothing reads again is left    *)
(* out: the log, ttp_history, last_activity and the storyline's score.     *)
(***************************************************************************)
EXTENDS PatternsV1

CONSTANTS Inputs,   \* what may happen: events without their time
          MaxTime   \* bound: the latest time of an event

ASSUME InputsAssumption ==
    /\ NoKey \notin Keys
    /\ Inputs \subseteq [actor : Keys, op : Ops, object : Keys, image : Keys \union {NoKey},
                         pe : BOOLEAN, ttps : SUBSET STRING]
    /\ MaxTime \in Nat

VARIABLES
    parent,  \* dsu_parent: of every sid made so far
    lines,   \* storylines: sid -> (id of a pattern -> its automaton)
    arms,    \* kernel_arm: sid -> op
    clock,   \* the time of the latest event
    answer,  \* what on_event returned last, and for which storyline
    causes   \* history: the known nodes, joined by the causal events so far

vars == <<parent, lines, arms, clock, answer, causes>>

NoArm == "none"
NewAutomaton == [done |-> {}, ts |-> <<>>, bound |-> <<>>, armed |-> FALSE]

Init ==
    /\ parent = <<>>
    /\ lines = <<>>
    /\ arms = <<>>
    /\ clock = 0
    /\ answer = [decision |-> "allow", verdict |-> None, sid |-> NoKey]
    /\ causes = {}
-----------------------------------------------------------------------------
(* The union-find over storylines *)

Root(up, sid) ==
    LET root[k \in DOMAIN up] == IF up[k] = k THEN k ELSE root[up[k]]
    IN  root[sid]

Path(up, sid) ==
    LET path[k \in DOMAIN up] == IF up[k] = k THEN {k} ELSE {k} \union path[up[k]]
    IN  path[sid]

\* find: everything it passed hangs from the root afterwards.
Compress(up, sid) ==
    LET root == Root(up, sid)
        path == Path(up, sid)
    IN  [k \in DOMAIN up |-> IF k \in path THEN root ELSE up[k]]

\* Fault: the later time of each step.
CombinedLatest(a, b) ==
    [done  |-> a.done \union b.done,
     ts    |-> [s \in DOMAIN a.ts \union DOMAIN b.ts |->
                   IF s \notin DOMAIN b.ts \/ (s \in DOMAIN a.ts /\ a.ts[s] >= b.ts[s])
                     THEN a.ts[s] ELSE b.ts[s]],
     bound |-> a.bound @@ b.bound,
     armed |-> a.armed]

\* Fault: the automaton that was there stays as it is.
CombinedKeepsFirst(a, b) == a

\* One automaton of one pattern, out of two storylines' evidence.
Combined(a, b) ==
    [done  |-> a.done \union b.done,
     ts    |-> [s \in DOMAIN a.ts \union DOMAIN b.ts |->
                   IF s \notin DOMAIN b.ts \/ (s \in DOMAIN a.ts /\ a.ts[s] <= b.ts[s])
                     THEN a.ts[s] ELSE b.ts[s]],
     bound |-> a.bound @@ b.bound,
     armed |-> a.armed]

Joined(into, from) ==
    [id \in DOMAIN into \union DOMAIN from |->
        IF id \notin DOMAIN from THEN into[id]
        ELSE IF id \notin DOMAIN into THEN from[id]
        ELSE Combined(into[id], from[id])]

\* Fault: the parent is set the wrong way round.
MergeUpsideDown(g, x, y) ==
    LET xStays == Cardinality(DOMAIN g.lines[x]) >= Cardinality(DOMAIN g.lines[y])
        root   == IF xStays THEN x ELSE y
        child  == IF xStays THEN y ELSE x
    IN  [parent |-> [g.parent EXCEPT ![root] = child],
         lines  |-> [s \in DOMAIN g.lines \ {child} |->
                        IF s = root THEN Joined(g.lines[root], g.lines[child]) ELSE g.lines[s]],
         sid    |-> root]

\* The storyline with more automata takes the other in; on a tie the first does.
Merge(g, x, y) ==
    LET xStays == Cardinality(DOMAIN g.lines[x]) >= Cardinality(DOMAIN g.lines[y])
        root   == IF xStays THEN x ELSE y
        child  == IF xStays THEN y ELSE x
    IN  [parent |-> [g.parent EXCEPT ![child] = root],
         lines  |-> [s \in DOMAIN g.lines \ {child} |->
                        IF s = root THEN Joined(g.lines[root], g.lines[child]) ELSE g.lines[s]],
         sid    |-> root]
-----------------------------------------------------------------------------
(* One event, up to its storyline *)

\* resolve, for the actor, the object and the image.
Resolve(e) ==
    LET new == {e.actor, e.object, e.image} \ ({NoKey} \union DOMAIN parent)
    IN  [parent |-> [k \in DOMAIN parent \union new |-> IF k \in new THEN k ELSE parent[k]],
         lines  |-> [k \in DOMAIN lines \union new |-> IF k \in new THEN <<>> ELSE lines[k]]]

\* Fault: any event joins the storylines of its actor and object.
UnifyByTouch(g, e) ==
    LET up1 == Compress(g.parent, e.actor)
        up2 == Compress(up1, e.object)
        sa  == Root(g.parent, e.actor)
        so  == Root(up1, e.object)
    IN  IF sa = so THEN [parent |-> up2, lines |-> g.lines, sid |-> sa]
        ELSE Merge([parent |-> up2, lines |-> g.lines], sa, so)

\* Only a causal event joins the storylines; its image joins neither.
Unify(g, e) ==
    LET up1 == Compress(g.parent, e.actor)
        up2 == Compress(up1, e.object)
        sa  == Root(g.parent, e.actor)
        so  == Root(up1, e.object)
    IN  IF e.op \notin Causal THEN [parent |-> up1, lines |-> g.lines, sid |-> sa]
        ELSE IF sa = so THEN [parent |-> up2, lines |-> g.lines, sid |-> sa]
        ELSE Merge([parent |-> up2, lines |-> g.lines], sa, so)
-----------------------------------------------------------------------------
(* ADVANCE *)

PatternOf(id) == Patterns[SelectInSeq(Patterns, LAMBDA p : p.id = id)]

Seeds(line, e) ==
    {p.id : p \in {q \in ToSet(Patterns) :
        /\ GateOk(q, e)
        /\ \E s \in RootSteps(q) : SlotMatches(s, e)}} \ DOMAIN line

Seeded(line, e) ==
    [id \in DOMAIN line \union Seeds(line, e) |->
        IF id \in DOMAIN line THEN line[id] ELSE NewAutomaton]

\* try_commit and rescore_and_emit, for one step of p that e matches.
Take(p, e, m, b) ==
    LET a    == Commit(m.a, StepAt(p, b), e)
        kind == Emitted(p, a, b)
        push == Arms(p, a)
    IN  IF ~ CanCommit(p, m.a, StepAt(p, b), e) THEN m
        ELSE [a       |-> [a EXCEPT !.armed = @ \/ push],
              verdict |-> IF kind > m.verdict THEN kind ELSE m.verdict,
              arm     |-> IF push THEN EnforceableOp(Pending(p, a)[1]) ELSE m.arm]

\* FoldLeft, as a recursive function.
Scan(op(_, _), base, seq) ==
    LET upTo[i \in 0 .. Len(seq)] == IF i = 0 THEN base ELSE op(upTo[i-1], seq[i])
    IN  upTo[Len(seq)]

\* An automaton tries the steps e matches in the order of the rule file.
Advance(id, a, e) ==
    LET p == PatternOf(id)
    IN  Scan(LAMBDA m, s : IF SlotMatches(s, e) THEN Take(p, e, m, s.bit) ELSE m,
             [a |-> a, verdict |-> None, arm |-> NoArm],
             p.steps)

\* step_is_enforceable_chokepoint
AtChokepoint(line, op) ==
    \E id \in DOMAIN line :
        LET p == PatternOf(id)
        IN  /\ p.blockAt # NoBit
            /\ StepAt(p, p.blockAt).enforceable
            /\ EnforceableOp(StepAt(p, p.blockAt)) = op
            /\ p.blockAt \notin line[id].done

\* Fault: an arm of any storyline will do.
KernelDeniesAnywhere(sid, line, op) ==
    (\E s \in DOMAIN arms : arms[s] = op) /\ AtChokepoint(line, op)

\* The kernel's fast path: an arm of this storyline, for this op.
KernelDenies(sid, line, op) ==
    sid \in DOMAIN arms /\ arms[sid] = op /\ AtChokepoint(line, op)
-----------------------------------------------------------------------------
\* History: what a causal event joins, told from the events alone.
CausesWith(e) ==
    LET known  == causes \union {{k} : k \in {e.actor, e.object, e.image} \ ({NoKey} \union UNION causes)}
        joined == {c \in known : e.actor \in c \/ e.object \in c}
    IN  IF e.op \in Causal THEN (known \ joined) \union {UNION joined} ELSE known

\* ADVANCE on the storyline e joined.
Moved(line, e) == [id \in DOMAIN line |-> Advance(id, line[id], e)]

Best(kinds) == CHOOSE k \in kinds \union {None} : \A j \in kinds : j <= k

\* on_event.  Automata arm in the order of a hash map: of several arms the last stays.
OnEvent(e) ==
    \E g \in {Unify(Resolve(e), e)} : \E moved \in {Moved(Seeded(g.lines[g.sid], e), e)} :
        LET best  == Best({moved[id].verdict : id \in DOMAIN moved})
            armed == {moved[id].arm : id \in DOMAIN moved} \ {NoArm}
        IN  /\ parent' = g.parent
            /\ lines'  = [g.lines EXCEPT ![g.sid] = [id \in DOMAIN moved |-> moved[id].a]]
            /\ \/ armed = {} /\ UNCHANGED arms
               \/ \E op \in armed :
                     arms' = [s \in DOMAIN arms \union {g.sid} |-> IF s = g.sid THEN op ELSE arms[s]]
            /\ clock'  = e.ts
            /\ answer' = [decision |-> IF best = Block \/ KernelDenies(g.sid, g.lines[g.sid], e.op)
                                         THEN "deny" ELSE "allow",
                          verdict  |-> best,
                          sid      |-> g.sid]
            /\ causes' = CausesWith(e)

At(i, t) ==
    [actor |-> i.actor, op |-> i.op, object |-> i.object, image |-> i.image,
     pe |-> i.pe, ttps |-> i.ttps, ts |-> t]

\* Events come in the order of their times.
Next ==
    \E i \in Inputs, t \in clock .. MaxTime : OnEvent(At(i, t))

Spec == Init /\ [][Next]_vars
-----------------------------------------------------------------------------
(* Properties *)

\* The storylines there are, are those of the roots: find never ends at one that
\* a merge removed, which on_event would unwrap (lib.rs 250, 302, 401).
RootsOwnStorylines == DOMAIN lines = {k \in DOMAIN parent : parent[k] = k}

\* Two nodes share a storyline exactly when causal events connect them, whatever
\* the order of merges and of path compressions.
StorylinesAreCausal ==
    \A j, k \in DOMAIN parent :
        Root(parent, j) = Root(parent, k) <=> \E c \in causes : {j, k} \subseteq c

\* A step done has its prerequisites done, none of them later than itself: also
\* for an automaton put together from two, with the earlier time of each step.
EvidenceOrdered ==
    \A sid \in DOMAIN lines : \A id \in DOMAIN lines[sid] :
        LET a == lines[sid][id]
        IN  \A b \in a.done : \A q \in StepAt(PatternOf(id), b).prereq :
                q \in a.done /\ a.ts[q] <= a.ts[b]

\* No step an automaton took is ever lost, through any merge of storylines.
EvidenceKept ==
    [][\A sid \in DOMAIN lines : \A id \in DOMAIN lines[sid] :
         /\ id \in DOMAIN lines'[Root(parent', sid)]
         /\ lines[sid][id].done \subseteq lines'[Root(parent', sid)][id].done]_vars

\* An event is denied only in a storyline that holds an automaton which was sure
\* enough to arm or accepts: an innocent storyline is never stopped.
DeniedOnEvidence ==
    answer.decision = "deny" =>
        \E id \in DOMAIN lines[answer.sid] :
            LET a == lines[answer.sid][id]
            IN  a.armed \/ Accepting(PatternOf(id), a)
=============================================================================
