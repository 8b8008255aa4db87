---------------------------- MODULE DriverProofs ----------------------------
(***************************************************************************)
(* Theorems about module Driver, for any number of callback threads, rings *)
(* and handles, and whatever bytes the first engine is made of: the ring's *)
(* memory, its fields and its rundown protection stay in step through      *)
(* bring-up, reconnects and unload, and callbacks and messages find what   *)
(* they use.                                                               *)
(*                                                                         *)
(* The invariant has four parts.  Stage: what exists is what is in line to *)
(* be deleted, in an order that keeps what others stand on for last.       *)
(* Callers: a callback keeps its source alive, a connection the filter.    *)
(* RingInv: who may touch the ring's fields, step by step; here it matters *)
(* that Register and Unregister exclude one another, which no lock does    *)
(* but the connection and the order of deletion.  Jobs: a callback that    *)
(* marks and names a handle has one.                                       *)
(***************************************************************************)
EXTENDS Driver, SequenceTheorems, TLAPS

Parts == {"arms", "engine", "ring", "filter", "port", "monitor"}
Foundations == {"arms", "engine", "ring"}
Places == {"idle", "unmarked", "unnamed", "entering", "inside", "using", "ringing", "judging"}
Sessions == {"none", "connected", "loading", "answering", "unwinding", "leaving", "crashed"}
NullOrRing == Rings \union {Null}

TypeOK ==
    /\ base \in NullOrRing /\ fields \in NullOrRing
    /\ memory \in [Rings -> {"unused", "live", "freed"}]
    /\ refusing \in BOOLEAN
    /\ at \in [Threads -> Places]
    /\ held \in [Threads -> NullOrRing]
    /\ up \in [step : {"idle", "built", "filled"}, ring : NullOrRing]
    /\ down \in [step : {"idle", "taken", "draining", "freed", "cleared", "done"},
                 ring : NullOrRing]
    /\ session \in Sessions
    /\ portRing \in BOOLEAN
    /\ job \in [Threads -> Handles \union {NoHandle}]
    /\ marked \subseteq Handles

-----------------------------------------------------------------------------
(* Stage *)

\* Wherever c is in line to be deleted, each of D comes after it.
Before(c, D) ==
    \A i \in 1 .. Len(going) : going[i] = c =>
        \A d \in D : \E j \in i + 1 .. Len(going) : going[j] = d

InLine == {going[i] : i \in 1 .. Len(going)}

Made(n) == {Components[i] : i \in 1 .. n}

Stage ==
    /\ coming \in Seq(Parts) /\ going \in Seq(Parts)
    /\ Len(coming) <= Len(Components)
    /\ \A i \in 1 .. Len(coming) : coming[i] = Components[Len(Components) - Len(coming) + i]
    /\ going = <<>> => \/ made = Made(Len(Components) - Len(coming))
                       \/ made = {} /\ coming = <<>>
    /\ going # <<>> => coming = <<>> /\ made \in {InLine, InLine \ {Head(going)}}
    /\ \A i, j \in 1 .. Len(going) : going[i] = going[j] => i = j
    /\ Before("filter", Foundations)
    /\ Before("port", Foundations \union {"filter"})
    /\ Before("monitor", Foundations \union {"filter"})

-----------------------------------------------------------------------------
(* Callers *)

Callers ==
    /\ \A t \in Threads : at[t] = "idle" => job[t] = NoHandle
    /\ \A t \in Threads : at[t] # "idle" =>
          (IF job[t] = NoHandle THEN "monitor" ELSE "filter") \in Existing
    /\ session \notin {"none", "crashed"} => "filter" \in Existing

-----------------------------------------------------------------------------
(* RingInv *)

\* Registered: the fields are those of the ring that producers may enter.
BaseInv ==
    /\ base # Null => fields = base /\ memory[base] = "live"
    /\ OpenWhileRegistered

\* Register runs on the connection, with no ring there and none being taken down.
UpInv ==
    /\ up.step = "idle" => up.ring = Null
    /\ up.step # "idle" => /\ session = "connected" /\ base = Null
                           /\ up.ring # Null /\ memory[up.ring] = "live"
    /\ up.step = "filled" => fields = up.ring

\* Unregister runs on the connection, or when the ring is deleted.
DownInv ==
    /\ down.step # "idle" => /\ base = Null
                             /\ session \in {"leaving", "unwinding"} \/ Deleted("ring")
    /\ down.step \in {"taken", "draining"} => down.ring # Null /\ memory[down.ring] = "live"
    /\ TeardownOwnsFields
    /\ refusing <=> down.step \in {"draining", "freed", "cleared"}

\* A thread in the ring is in the one that is registered, or that waits for it.
UsersInv ==
    \A t \in Threads : at[t] \in {"using", "ringing"} =>
        /\ held[t] # Null
        /\ held[t] = base \/ (held[t] = down.ring /\ down.step \in {"taken", "draining"})

RingInv == BaseInv /\ UpInv /\ DownInv /\ UsersInv /\ NothingLeaks

-----------------------------------------------------------------------------
(* Jobs *)

Jobs == \A t \in Threads : at[t] \in {"unmarked", "unnamed"} => job[t] # NoHandle

IInv == TypeOK /\ Stage /\ Callers /\ RingInv /\ Jobs

-----------------------------------------------------------------------------
(* Stage: bring-up and deletion *)

LEMMA AtMostSix == \A k \in Nat : k # 0 /\ k <= 6 => k \in 1 .. 6 /\ 6 - k \in 0 .. 5
OBVIOUS

LEMMA OneMore == \A k \in 1 .. 6 : 1 .. 6 - (k - 1) = (1 .. 6 - k) \union {6 - k + 1}
OBVIOUS

LEMMA ComponentsInOrder ==
    /\ Components \in Seq(Parts) /\ Len(Components) = 6
    /\ Components[1] = "arms" /\ Components[2] = "engine" /\ Components[3] = "ring"
    /\ Components[4] = "filter" /\ Components[5] = "port" /\ Components[6] = "monitor"
BY DEF Components, Parts

LEMMA TakeDownInOrder ==
    /\ TakeDown \in Seq(Parts) /\ Len(TakeDown) = 6
    /\ TakeDown[1] = "port" /\ TakeDown[2] = "monitor" /\ TakeDown[3] = "filter"
    /\ TakeDown[4] = "engine" /\ TakeDown[5] = "ring" /\ TakeDown[6] = "arms"
BY DEF TakeDown, Parts

\* What is in line, or in line to be made, is touched by these alone.
LEMMA StageMoves ==
    Next => Make \/ MakeFails \/ Unload \/ Delete \/ (\E c \in Parts : Gone(c)) \/ UNCHANGED stageVars
<1> SUFFICES ASSUME Next, ~ UNCHANGED stageVars
             PROVE  Make \/ MakeFails \/ Unload \/ Delete \/ \E c \in Parts : Gone(c)
  OBVIOUS
<1>1. ASSUME NEW t \in Threads, Callback(t) PROVE FALSE
  BY <1>1 DEF Callback, Spawn, Open, CallbackStep, Mark, Named, Nameless, PublishTelemetry,
              Judge, FirstWrite, PassBy, vars
<1>2. ASSUME Service PROVE FALSE
  BY <1>2 DEF Service, Connect, PushRules, LoadRules, Register, RegisterStep, RegisterRing,
              Answer, AnswerFails, Leave
<1>3. ASSUME Unregistering \/ Unregistered PROVE FALSE
  BY <1>3 DEF Unregistering, Unregistered
<1>4. ASSUME NEW c \in ToSet(Components), Gone(c) PROVE c \in Parts
  BY ComponentsInOrder DEF ToSet, Parts
<1> QED
  BY <1>1, <1>2, <1>3, <1>4 DEF Next, Teardown

LEMMA StageKept == Stage /\ Next => Stage'
<1> SUFFICES ASSUME Stage, Next PROVE Stage'
  OBVIOUS
<1> USE ComponentsInOrder
<1>1. CASE Make
  <2>1. /\ going = <<>> /\ going' = going /\ coming # <<>>
        /\ coming' = Tail(coming) /\ made' = made \union {Head(coming)}
    BY <1>1 DEF Make, Stage
  <2>2. /\ coming' \in Seq(Parts) /\ Len(coming') = Len(coming) - 1
        /\ \A i \in 1 .. Len(coming') : coming'[i] = coming[i + 1]
        /\ Len(coming) \in 1 .. 6 /\ Head(coming) = coming[1]
    <3>1. coming \in Seq(Parts) /\ Len(coming) <= 6
      BY DEF Stage
    <3>2. Len(coming) \in Nat /\ Len(coming) # 0
      BY <2>1, <3>1, EmptySeq
    <3>3. Head(coming) = coming[1]
      BY <2>1, <3>1
    <3>4. /\ coming' \in Seq(Parts) /\ Len(coming') = Len(coming) - 1
          /\ \A i \in 1 .. Len(coming') : coming'[i] = coming[i + 1]
      BY <2>1, <3>1, HeadTailProperties
    <3>5. Len(coming) \in 1 .. 6
      BY <3>1, <3>2, AtMostSix
    <3> QED
      BY <3>3, <3>4, <3>5
  <2>3. \A i \in 1 .. Len(coming') : coming'[i] = Components[6 - Len(coming') + i]
    BY <2>2 DEF Stage
  <2>4. made' = Made(6 - Len(coming'))
    <3>1. made = Made(6 - Len(coming))
      BY <2>1 DEF Stage
    <3>2. coming[1] = Components[6 - Len(coming) + 1]
      BY <2>2 DEF Stage
    <3>3. 1 .. 6 - Len(coming') = (1 .. 6 - Len(coming)) \union {6 - Len(coming) + 1}
      BY <2>2, OneMore
    <3> QED
      BY <2>1, <2>2, <3>1, <3>2, <3>3 DEF Made
  <2>5. Len(going) = 0
    BY <2>1
  <2> QED
    BY <2>1, <2>2, <2>3, <2>4, <2>5 DEF Stage, Before
<1>2. CASE MakeFails
  <2> DEFINE n == 6 - Len(coming)
  <2>1. /\ going = <<>> /\ coming # <<>> /\ coming' = <<>> /\ made' = made
        /\ going' = [i \in 1 .. n |-> Components[n + 1 - i]]
    BY <1>2 DEF MakeFails, Stage, Unwind
  <2>2. made = Made(n) /\ n \in 0 .. 5
    <3>1. coming \in Seq(Parts) /\ Len(coming) <= 6
      BY DEF Stage
    <3>2. Len(coming) \in Nat /\ Len(coming) # 0
      BY <2>1, <3>1, EmptySeq
    <3>3. n \in 0 .. 5
      BY <3>1, <3>2, AtMostSix
    <3> QED
      BY <2>1, <3>3 DEF Stage
  <2> HIDE DEF n
  <2>3. /\ going' \in Seq(Parts) /\ Len(going') = n
        /\ \A i \in 1 .. n : going'[i] = Components[n + 1 - i]
    <3>1. \A i \in 1 .. n : Components[n + 1 - i] \in Parts
      BY <2>2 DEF Parts
    <3>2. going' \in [1 .. n -> Parts]
      BY <2>1, <3>1
    <3> QED
      BY <2>1, <2>2, <3>2
  <2>4. \A i, j \in 1 .. n : going'[i] = going'[j] => i = j
    <3>1. \A i, j \in 1 .. 6 : Components[i] = Components[j] => i = j
      OBVIOUS
    <3>2. \A i \in 1 .. n : n + 1 - i \in 1 .. 6
      BY <2>2
    <3> QED
      BY <2>2, <2>3, <3>1, <3>2
  <2>5. InLine' = Made(n)
    <3>1. ASSUME NEW x \in InLine' PROVE x \in Made(n)
      <4>1. PICK i \in 1 .. n : x = going'[i]
        BY <2>3, <3>1 DEF InLine
      <4>2. n + 1 - i \in 1 .. n /\ x = Components[n + 1 - i]
        BY <2>2, <2>3, <4>1
      <4> QED
        BY <4>2 DEF Made
    <3>2. ASSUME NEW x \in Made(n) PROVE x \in InLine'
      <4>1. PICK i \in 1 .. n : x = Components[i]
        BY <3>2 DEF Made
      <4>2. n + 1 - i \in 1 .. n /\ going'[n + 1 - i] = x
        BY <2>2, <2>3, <4>1
      <4> QED
        BY <2>3, <4>2 DEF InLine
    <3> QED
      BY <3>1, <3>2
  <2>6. ASSUME NEW i \in 1 .. n, going'[i] = "filter"
        PROVE  \A d \in Foundations : \E j \in i + 1 .. n : going'[j] = d
    <3>1. i = n - 3
      BY <2>2, <2>3, <2>6
    <3>2. going'[n] = "arms" /\ going'[n - 1] = "engine" /\ going'[n - 2] = "ring"
      BY <2>2, <2>3, <2>6, <3>1
    <3> QED
      BY <2>2, <2>6, <3>1, <3>2 DEF Foundations
  <2>7. ASSUME NEW i \in 1 .. n, going'[i] \in {"port", "monitor"}
        PROVE  \A d \in Foundations \union {"filter"} : \E j \in i + 1 .. n : going'[j] = d
    <3>1. i \in {n - 4, n - 5} /\ n > 4
      <4>1. n + 1 - i \in 1 .. 6 /\ Components[n + 1 - i] \in {"port", "monitor"}
        BY <2>2, <2>3, <2>7
      <4>2. n + 1 - i \in {5, 6}
        BY <4>1
      <4> QED
        BY <2>2, <4>2
    <3>2. /\ going'[n] = "arms" /\ going'[n - 1] = "engine" /\ going'[n - 2] = "ring"
          /\ going'[n - 3] = "filter"
      BY <2>2, <2>3, <2>7, <3>1
    <3> QED
      BY <2>2, <2>7, <3>1, <3>2 DEF Foundations
  <2>8. /\ Before("filter", Foundations)'
        /\ Before("port", Foundations \union {"filter"})'
        /\ Before("monitor", Foundations \union {"filter"})'
    <3>1. Before("filter", Foundations)'
      BY <2>3, <2>6 DEF Before
    <3>2. Before("port", Foundations \union {"filter"})'
      BY <2>3, <2>7 DEF Before
    <3>3. Before("monitor", Foundations \union {"filter"})'
      BY <2>3, <2>7 DEF Before
    <3> QED
      BY <3>1, <3>2, <3>3
  <2>9. going' # <<>> => made' = InLine'
    BY <2>1, <2>2, <2>5
  <2>10. going' = <<>> => made' = Made(6 - Len(coming')) \/ made' = {}
    BY <2>1, <2>2, <2>3 DEF Made
  <2>11. coming' \in Seq(Parts) /\ Len(coming') = 0
    BY <2>1
  <2>12. \A i \in 1 .. Len(coming') : coming'[i] = Components[6 - Len(coming') + i]
    BY <2>11
  <2>13. \A i, j \in 1 .. Len(going') : going'[i] = going'[j] => i = j
    BY <2>3, <2>4
  <2>14. coming' = <<>> /\ going' \in Seq(Parts) /\ Len(coming') <= 6
    BY <2>1, <2>3, <2>11
  <2> QED
    BY <2>8, <2>9, <2>10, <2>11, <2>12, <2>13, <2>14 DEF Stage
<1>3. CASE Unload
  <2> USE TakeDownInOrder
  <2>1. coming' = coming /\ coming = <<>> /\ made' = made /\ going' = TakeDown
        /\ made = Made(6)
    BY <1>3, EmptySeq DEF Unload, Stage
  <2>2. going' \in Seq(Parts) /\ Len(going') = 6 /\ going' # <<>>
    BY <2>1, EmptySeq
  <2>3. \A i, j \in 1 .. 6 : going'[i] = going'[j] => i = j
    BY <2>1
  <2>4. InLine' = made'
    <3>1. InLine' = {TakeDown[i] : i \in {1, 2, 3, 4, 5, 6}}
      <4>1. 1 .. 6 = {1, 2, 3, 4, 5, 6}
        OBVIOUS
      <4> QED
        BY <2>1, <4>1 DEF InLine
    <3>2. made' = {Components[i] : i \in {1, 2, 3, 4, 5, 6}}
      <4>1. 1 .. 6 = {1, 2, 3, 4, 5, 6}
        OBVIOUS
      <4> QED
        BY <2>1, <4>1 DEF Made
    <3> QED
      BY <3>1, <3>2
  <2>5. Before("filter", Foundations)'
    <3> SUFFICES ASSUME NEW i \in 1 .. Len(going'), going'[i] = "filter", NEW d \in Foundations
                 PROVE  \E j \in i + 1 .. Len(going') : going'[j] = d
      BY DEF Before
    <3>1. i \in 1 .. 6 /\ TakeDown[i] = "filter"
      BY <2>1, <2>2
    <3>2. i = 3
      BY <3>1
    <3>3. PICK j \in {4, 5, 6} : TakeDown[j] = d
      BY DEF Foundations
    <3>4. j \in i + 1 .. 6
      BY <3>2, <3>3
    <3> QED
      BY <2>1, <2>2, <3>3, <3>4
  <2>6. ASSUME NEW c \in {"port", "monitor"} PROVE Before(c, Foundations \union {"filter"})'
    <3> SUFFICES ASSUME NEW i \in 1 .. Len(going'), going'[i] = c, NEW d \in Foundations \union {"filter"}
                 PROVE  \E j \in i + 1 .. Len(going') : going'[j] = d
      BY DEF Before
    <3>1. i \in 1 .. 6 /\ TakeDown[i] = c
      BY <2>1, <2>2
    <3>2. i \in {1, 2}
      BY <3>1
    <3>3. PICK j \in {3, 4, 5, 6} : TakeDown[j] = d
      BY DEF Foundations
    <3>4. j \in i + 1 .. 6
      BY <3>2, <3>3
    <3> QED
      BY <2>1, <2>2, <3>3, <3>4
  <2>7. made' \in {InLine', InLine' \ {Head(going')}}
    BY <2>4
  <2>8. /\ coming' \in Seq(Parts) /\ Len(coming') <= Len(Components) /\ coming' = <<>>
        /\ \A i \in 1 .. Len(coming') : coming'[i] = Components[Len(Components) - Len(coming') + i]
    BY <2>1 DEF Stage
  <2>9. \A i, j \in 1 .. Len(going') : going'[i] = going'[j] => i = j
    BY <2>2, <2>3
  <2>10. Before("port", Foundations \union {"filter"})' /\ Before("monitor", Foundations \union {"filter"})'
    BY <2>6
  <2> QED
    BY <2>2, <2>5, <2>7, <2>8, <2>9, <2>10 DEF Stage
<1>4. CASE Delete
  <2>1. going # <<>> /\ Head(going) \in made /\ made' = made \ {Head(going)}
        /\ UNCHANGED <<coming, going>>
    BY <1>4 DEF Delete
  <2>2. made' = InLine' \ {Head(going)'}
    BY <2>1 DEF Stage, InLine
  <2> QED
    BY <2>1, <2>2 DEF Stage, Before, InLine
<1>5. ASSUME NEW c \in Parts, Gone(c) PROVE Stage'
  <2>1. /\ going # <<>> /\ Head(going) = c /\ c \notin made
        /\ going' = Tail(going) /\ UNCHANGED <<made, coming>>
    BY <1>5 DEF Gone, Deleted
  <2>2. /\ going' \in Seq(Parts) /\ Len(going') = Len(going) - 1 /\ Len(going) \in Nat \ {0}
        /\ \A i \in 1 .. Len(going') : going'[i] = going[i + 1]
        /\ going[1] = c
    BY <2>1, HeadTailProperties, LenProperties, EmptySeq DEF Stage
  <2>3. InLine' = InLine \ {c}
    <3>1. ASSUME NEW x \in InLine' PROVE x \in InLine \ {c}
      <4>1. PICK i \in 1 .. Len(going') : x = going[i + 1]
        BY <2>2, <3>1 DEF InLine
      <4> QED
        BY <2>2, <4>1 DEF InLine, Stage
    <3>2. ASSUME NEW x \in InLine \ {c} PROVE x \in InLine'
      <4>1. PICK i \in 1 .. Len(going) : x = going[i]
        BY <3>2 DEF InLine
      <4>2. i - 1 \in 1 .. Len(going') /\ going'[i - 1] = x
        BY <2>2, <3>2, <4>1
      <4> QED
        BY <4>2 DEF InLine
    <3> QED
      BY <3>1, <3>2
  <2>4. made' = InLine'
    <3>1. c \in InLine
      BY <2>2 DEF InLine
    <3> QED
      BY <2>1, <2>3, <3>1 DEF Stage
  <2>5. \A i, j \in 1 .. Len(going') : going'[i] = going'[j] => i = j
    BY <2>2 DEF Stage
  <2>6. ASSUME NEW b, NEW D, Before(b, D) PROVE Before(b, D)'
    <3> SUFFICES ASSUME NEW i \in 1 .. Len(going'), going'[i] = b, NEW d \in D
                 PROVE  \E j \in i + 1 .. Len(going') : going'[j] = d
      BY DEF Before
    <3>1. PICK j \in i + 2 .. Len(going) : going[j] = d
      BY <2>2, <2>6 DEF Before
    <3>2. j - 1 \in i + 1 .. Len(going') /\ going'[j - 1] = d
      BY <2>2, <3>1
    <3> QED
      BY <3>2
  <2>7. going' = <<>> => made' = {}
    <3>1. ASSUME going' = <<>> PROVE InLine' = {}
      BY <3>1 DEF InLine
    <3> QED
      BY <2>4, <3>1
  <2> QED
    BY <2>1, <2>2, <2>4, <2>5, <2>6, <2>7 DEF Stage
<1>6. CASE UNCHANGED stageVars
  BY <1>6 DEF stageVars, Stage, Before, InLine
<1> QED
  BY <1>1, <1>2, <1>3, <1>4, <1>5, <1>6, StageMoves

\* What exists goes only by being deleted.
LEMMA ExistingKept ==
    Stage /\ Next => \/ Existing \subseteq Existing'
                     \/ \E c \in Parts : Gone(c) /\ Existing \ {c} \subseteq Existing'
<1> SUFFICES ASSUME Stage, Next
             PROVE  \/ Existing \subseteq Existing'
                    \/ \E c \in Parts : Gone(c) /\ Existing \ {c} \subseteq Existing'
  OBVIOUS
<1>1. CASE Make \/ MakeFails \/ Unload
  <2>1. going = <<>> /\ made \subseteq made'
    BY <1>1 DEF Make, MakeFails, Unload, Stage
  <2> QED
    BY <2>1 DEF Existing
<1>2. CASE Delete
  <2>1. going # <<>> /\ made' = made \ {Head(going)} /\ going' = going
    BY <1>2 DEF Delete
  <2> QED
    BY <2>1 DEF Existing
<1>3. ASSUME NEW c \in Parts, Gone(c) PROVE Existing \ {c} \subseteq Existing'
  <2>1. going # <<>> /\ Head(going) = c /\ made' = made
    BY <1>3 DEF Gone, Deleted
  <2> QED
    BY <2>1 DEF Existing
<1>4. CASE UNCHANGED stageVars
  BY <1>4 DEF stageVars, Existing
<1> QED
  BY <1>1, <1>2, <1>3, <1>4, StageMoves

LEMMA ExistingInLine == Stage /\ going # <<>> => Existing = InLine
<1> SUFFICES ASSUME Stage, going # <<>> PROVE Existing = InLine
  OBVIOUS
<1>1. going \in Seq(Parts) /\ Len(going) \in Nat \ {0} /\ Head(going) = going[1]
  BY EmptySeq, LenProperties DEF Stage
<1>2. Head(going) \in InLine
  BY <1>1 DEF InLine
<1> QED
  BY <1>2 DEF Stage, Existing

\* The filter stands on the arm table, the engine and the ring; the port and the
\* monitor stand on the filter as well.
LEMMA Supports ==
    Stage => /\ "filter" \in Existing => Foundations \subseteq Existing
             /\ "port" \in Existing \/ "monitor" \in Existing =>
                    Foundations \union {"filter"} \subseteq Existing
<1> SUFFICES ASSUME Stage
             PROVE  /\ "filter" \in Existing => Foundations \subseteq Existing
                    /\ "port" \in Existing \/ "monitor" \in Existing =>
                           Foundations \union {"filter"} \subseteq Existing
  OBVIOUS
<1>1. CASE going = <<>>
  <2> DEFINE n == 6 - Len(coming)
  <2>1. Existing = made /\ (made = Made(n) \/ made = {})
    BY <1>1, ComponentsInOrder DEF Stage, Existing
  <2>2. n \in Int
    BY LenProperties DEF Stage
  <2> HIDE DEF n
  <2>3. "filter" \in Made(n) => n >= 4
    BY <2>2, ComponentsInOrder DEF Made
  <2>4. "port" \in Made(n) \/ "monitor" \in Made(n) => n >= 4
    BY <2>2, ComponentsInOrder DEF Made
  <2>5. n >= 4 => Foundations \union {"filter"} \subseteq Made(n)
    <3> SUFFICES ASSUME n >= 4 PROVE Foundations \union {"filter"} \subseteq Made(n)
      OBVIOUS
    <3>1. {1, 2, 3, 4} \subseteq 1 .. n
      BY <2>2
    <3>2. {Components[1], Components[2], Components[3], Components[4]} \subseteq Made(n)
      BY <3>1 DEF Made
    <3> QED
      BY <3>2, ComponentsInOrder DEF Foundations
  <2> QED
    BY <2>1, <2>3, <2>4, <2>5
<1>2. CASE going # <<>>
  <2>1. Existing = InLine
    BY <1>2, ExistingInLine
  <2>2. ASSUME NEW c, NEW D, Before(c, D), c \in InLine PROVE D \subseteq InLine
    <3>1. PICK i \in 1 .. Len(going) : going[i] = c
      BY <2>2 DEF InLine
    <3>2. Len(going) \in Nat
      BY LenProperties DEF Stage
    <3> QED
      BY <2>2, <3>1, <3>2 DEF Before, InLine
  <2> QED
    BY <2>1, <2>2 DEF Stage
<1> QED
  BY <1>1, <1>2

\* When the ring's turn has come, the filter is gone.
LEMMA RingLast == Stage /\ going # <<>> /\ Head(going) = "ring" => "filter" \notin Existing
<1> SUFFICES ASSUME Stage, going # <<>>, Head(going) = "ring", "filter" \in Existing PROVE FALSE
  OBVIOUS
<1>1. going \in Seq(Parts) /\ Len(going) \in Nat \ {0} /\ going[1] = "ring"
  BY EmptySeq, LenProperties DEF Stage
<1>2. PICK i \in 1 .. Len(going) : going[i] = "filter"
  BY ExistingInLine DEF InLine
<1>3. PICK j \in i + 1 .. Len(going) : going[j] = "ring"
  BY <1>2 DEF Stage, Before, Foundations
<1>4. j = 1
  BY <1>1, <1>2, <1>3 DEF Stage
<1> QED
  BY <1>2, <1>3, <1>4

-----------------------------------------------------------------------------
(* The initial states, and the types *)

LEMMA InitIInv == Init => IInv
<1> SUFFICES ASSUME Init PROVE IInv
  OBVIOUS
<1>1. TypeOK
  BY DEF Init, TypeOK, NullOrRing, Places, Sessions
<1>2. Stage
  <2>1. coming = Components /\ going = <<>> /\ made = {}
    BY DEF Init
  <2>2. Len(coming) = 6 /\ coming \in Seq(Parts) /\ going \in Seq(Parts) /\ Len(going) = 0
    BY <2>1, ComponentsInOrder
  <2>3. \A i \in 1 .. Len(coming) : coming[i] = Components[Len(Components) - Len(coming) + i]
    BY <2>1, <2>2
  <2>4. made = Made(Len(Components) - Len(coming))
    BY <2>1, <2>2 DEF Made
  <2> QED
    BY <2>1, <2>2, <2>3, <2>4 DEF Stage, Before
<1>3. Callers
  BY DEF Init, Callers
<1>4. RingInv
  BY DEF Init, RingInv, BaseInv, OpenWhileRegistered, UpInv, DownInv, TeardownOwnsFields,
         UsersInv, NothingLeaks
<1>5. Jobs
  BY DEF Init, Jobs
<1> QED
  BY <1>1, <1>2, <1>3, <1>4, <1>5 DEF IInv

LEMMA TypeOKKept == TypeOK /\ Jobs /\ Next => TypeOK'
<1> SUFFICES ASSUME TypeOK, Jobs, Next PROVE TypeOK'
  OBVIOUS
<1> USE DEF TypeOK, bufferVars, stageVars, portVars, fileVars
<1>1. CASE Make
  BY <1>1 DEF Make
<1>2. CASE MakeFails
  BY <1>2 DEF MakeFails
<1>3. ASSUME NEW t \in Threads, Callback(t) PROVE TypeOK'
  <2> USE DEF Places, Goto
  <2>1. CASE Spawn(t)
    BY <2>1 DEF Spawn
  <2>2. CASE Open(t)
    BY <2>2 DEF Open
  <2>3. CASE Mark(t)
    <3>1. job[t] \in Handles
      BY <2>3 DEF Mark, Jobs
    <3> QED
      BY <2>3, <3>1 DEF Mark
  <2>4. CASE Named(t)
    BY <2>4 DEF Named
  <2>5. CASE Nameless(t)
    BY <2>5 DEF Nameless
  <2>6. CASE PublishTelemetry(t)
    BY <2>6 DEF PublishTelemetry, Publish, Enter, ReadBase, UseRing, Bell, NullOrRing
  <2>7. CASE Judge(t)
    BY <2>7 DEF Judge
  <2>8. ASSUME NEW h \in Handles, FirstWrite(t, h) PROVE TypeOK'
    BY <2>8 DEF FirstWrite
  <2>9. CASE PassBy(t)
    BY <2>9 DEF PassBy, vars
  <2> QED
    BY <1>3, <2>1, <2>2, <2>3, <2>4, <2>5, <2>6, <2>7, <2>8, <2>9 DEF Callback, CallbackStep
<1>4. CASE Service
  <2> USE DEF Sessions, NullOrRing
  <2>1. CASE Connect \/ PushRules \/ LoadRules \/ Answer
    BY <2>1 DEF Connect, PushRules, LoadRules, Answer
  <2>2. CASE RegisterStep
    BY <2>2 DEF RegisterStep, RegisterFill, RegisterExpose, Null
  <2>3. ASSUME NEW r \in Rings, RegisterRing(r) PROVE TypeOK'
    BY <2>3 DEF RegisterRing, RegisterBuild
  <2>4. CASE AnswerFails
    BY <2>4 DEF AnswerFails, UnregisterTake
  <2>5. CASE Leave
    BY <2>5 DEF Leave, UnregisterTake
  <2> QED
    BY <1>4, <2>1, <2>2, <2>3, <2>4, <2>5 DEF Service, Register
<1>5. CASE Unregistering
  <2> USE DEF NullOrRing
  <2>1. CASE UnregisterRefuse
    BY <1>5, <2>1 DEF Unregistering, UnregisterRefuse
  <2>2. CASE UnregisterFree
    BY <1>5, <2>2 DEF Unregistering, UnregisterFree
  <2>3. CASE UnregisterClear
    BY <1>5, <2>3 DEF Unregistering, UnregisterClear
  <2>4. CASE UnregisterRearm
    BY <1>5, <2>4 DEF Unregistering, UnregisterRearm
  <2> QED
    BY <1>5, <2>1, <2>2, <2>3, <2>4 DEF Unregistering, UnregisterStep
<1>6. CASE Unregistered
  BY <1>6 DEF Unregistered, Sessions
<1>7. CASE Unload
  BY <1>7 DEF Unload
<1>8. CASE Delete
  BY <1>8 DEF Delete, UnregisterTake, NullOrRing
<1>9. ASSUME NEW c, Gone(c) PROVE TypeOK'
  BY <1>9 DEF Gone
<1> QED
  BY <1>1, <1>2, <1>3, <1>4, <1>5, <1>6, <1>7, <1>8, <1>9 DEF Next, Teardown

-----------------------------------------------------------------------------
(* Callers *)

\* A callback moves its own thread, and nothing of the ring's or the driver's.
LEMMA CallbackMoves ==
    ASSUME TypeOK, NEW t \in Threads, Callback(t)
    PROVE  /\ UNCHANGED <<base, fields, memory, refusing, up, down, stageVars, portVars>>
           /\ \A u \in Threads : u # t => at'[u] = at[u] /\ held'[u] = held[u] /\ job'[u] = job[u]
<1> USE DEF TypeOK, Goto, bufferVars
<1>1. CASE Spawn(t) \/ Open(t) \/ Mark(t) \/ Named(t)
  BY <1>1 DEF Spawn, Open, Mark, Named, fileVars
<1>2. CASE Nameless(t) \/ Judge(t)
  BY <1>2 DEF Nameless, Judge
<1>3. CASE PublishTelemetry(t)
  BY <1>3 DEF PublishTelemetry, Publish, Enter, ReadBase, UseRing, Bell, fileVars
<1>4. ASSUME NEW h \in Handles, FirstWrite(t, h)
      PROVE  /\ UNCHANGED <<base, fields, memory, refusing, up, down, stageVars, portVars>>
             /\ \A u \in Threads : u # t => at'[u] = at[u] /\ held'[u] = held[u] /\ job'[u] = job[u]
  BY <1>4 DEF FirstWrite
<1>5. CASE PassBy(t)
  BY <1>5 DEF PassBy, vars, fileVars
<1> QED
  BY <1>1, <1>2, <1>3, <1>4, <1>5 DEF Callback, CallbackStep

\* A thread that goes idle forgets its handle; one that starts finds its source there.
LEMMA CallbackSource ==
    ASSUME TypeOK, NEW t \in Threads, Callback(t), at[t] = "idle" => job[t] = NoHandle
    PROVE  /\ at'[t] = "idle" => job'[t] = NoHandle
           /\ at'[t] # "idle" => \/ at[t] # "idle" /\ job'[t] = job[t]
                                 \/ job'[t] = NoHandle /\ "monitor" \in made
                                 \/ job'[t] # NoHandle /\ "filter" \in made
<1> USE DEF TypeOK, Goto, bufferVars
<1>1. CASE Spawn(t) \/ Open(t)
  BY <1>1 DEF Spawn, Open, fileVars
<1>2. CASE Mark(t) \/ Named(t)
  BY <1>2 DEF Mark, Named, fileVars
<1>3. CASE Nameless(t) \/ Judge(t)
  BY <1>3 DEF Nameless, Judge
<1>4. CASE PublishTelemetry(t)
  BY <1>4 DEF PublishTelemetry, Publish, Enter, ReadBase, UseRing, Bell, fileVars
<1>5. ASSUME NEW h \in Handles, FirstWrite(t, h)
      PROVE  at'[t] # "idle" /\ job'[t] # NoHandle /\ "filter" \in made
  BY <1>5, HandlesAssumption DEF FirstWrite
<1>6. CASE PassBy(t)
  BY <1>6 DEF PassBy, vars, fileVars
<1> QED
  BY <1>1, <1>2, <1>3, <1>4, <1>5, <1>6 DEF Callback, CallbackStep

\* Connections and callbacks aside, a step leaves at and job alone.
LEMMA ThreadsMove ==
    Next => (\E t \in Threads : Callback(t)) \/ UNCHANGED <<at, job>>
BY DEF Next, Make, MakeFails, Service, Connect, PushRules, LoadRules, Register, RegisterStep,
       RegisterRing, RegisterBuild, RegisterFill, RegisterExpose, Answer, AnswerFails, Leave,
       Unregistering, UnregisterStep, UnregisterRefuse, UnregisterFree, UnregisterClear,
       UnregisterRearm, UnregisterTake, Unregistered, Unload, Teardown, Delete, Gone, bufferVars,
       fileVars

\* A connection begins at the port, while there is one.
LEMMA SessionBegins ==
    UpInv /\ Next =>
        \/ session' \in {"none", "crashed"} \/ session \notin {"none", "crashed"}
        \/ session' = session
        \/ "port" \in made /\ made' = made /\ going' = going
<1> SUFFICES ASSUME UpInv, Next, session' # session
             PROVE  \/ session' \in {"none", "crashed"} \/ session \notin {"none", "crashed"}
                    \/ "port" \in made /\ made' = made /\ going' = going
  OBVIOUS
<1>1. ASSUME NEW t \in Threads, Callback(t) PROVE FALSE
  BY <1>1 DEF Callback, Spawn, Open, CallbackStep, Mark, Named, Nameless, PublishTelemetry,
              Judge, FirstWrite, PassBy, vars, portVars
<1>2. Service \/ Unregistered
  BY <1>1 DEF Next, Make, MakeFails, Unregistering, Unload, Teardown, Delete, Gone, portVars
<1> QED
  BY <1>2 DEF UpInv, RegisterExpose, RegisterFill, Service, Connect, PushRules, LoadRules, Register, RegisterStep, RegisterRing,
              Answer, AnswerFails, Leave, Unregistered, portVars, stageVars

LEMMA CallersKept == TypeOK /\ Stage /\ Callers /\ UpInv /\ Next => Callers'
<1> SUFFICES ASSUME TypeOK, Stage, Callers, UpInv, Next PROVE Callers'
  OBVIOUS
<1> DEFINE source(t) == IF job[t] = NoHandle THEN "monitor" ELSE "filter"
<1>1. ASSUME NEW t \in Threads
      PROVE  /\ at'[t] = "idle" => job'[t] = NoHandle
             /\ at'[t] # "idle" => source(t)' \in Existing'
  <2>1. CASE \E u \in Threads : Callback(u)
    <3>1. PICK u \in Threads : Callback(u)
      BY <2>1
    <3>2. Existing' = Existing
      BY <3>1, CallbackMoves DEF Existing, stageVars
    <3>3. CASE u = t
      BY <3>1, <3>2, <3>3, CallbackSource DEF Callers, Existing
    <3>4. CASE u # t
      BY <3>1, <3>2, <3>4, CallbackMoves DEF Callers
    <3> QED
      BY <3>3, <3>4
  <2>2. CASE UNCHANGED <<at, job>>
    <3>1. CASE Existing \subseteq Existing'
      BY <2>2, <3>1 DEF Callers
    <3>2. ASSUME NEW c \in Parts, Gone(c), Existing \ {c} \subseteq Existing', at[t] # "idle"
          PROVE  source(t) # c
      BY <3>2 DEF Gone
    <3> QED
      BY <2>2, <3>1, <3>2, ExistingKept DEF Callers
  <2> QED
    BY <2>1, <2>2, ThreadsMove
<1>2. session' \notin {"none", "crashed"} => "filter" \in Existing'
  <2> SUFFICES ASSUME session' \notin {"none", "crashed"} PROVE "filter" \in Existing'
    OBVIOUS
  <2>1. CASE session \notin {"none", "crashed"}
    <3>1. "filter" \in Existing /\ ~ Gone("filter")
      BY <2>1 DEF Callers, Gone
    <3> QED
      BY <3>1, ExistingKept
  <2>2. CASE session \in {"none", "crashed"}
    <3>1. "port" \in made /\ Existing' = Existing
      BY <2>2, SessionBegins DEF Existing
    <3> QED
      BY <3>1, Supports DEF Existing
  <2> QED
    BY <2>1, <2>2
<1> QED
  BY <1>1, <1>2 DEF Callers

-----------------------------------------------------------------------------
(* RingInv *)

\* No lock keeps Register and Unregister apart: one connection has one message at
\* a time, and the ring is deleted when there is no connection any more.
LEMMA Exclusion ==
    Stage /\ Callers /\ RingInv =>
        /\ up.step # "idle" => down.step = "idle"
        /\ session \notin {"none", "crashed", "leaving", "unwinding"} => down.step = "idle"
<1> SUFFICES ASSUME Stage, Callers, RingInv, session \notin {"none", "crashed", "leaving", "unwinding"}
             PROVE  down.step = "idle"
  BY DEF RingInv, UpInv
<1>1. "filter" \in Existing
  BY DEF Callers
<1>2. ~ Deleted("ring")
  BY <1>1, RingLast DEF Deleted
<1> QED
  BY <1>2 DEF RingInv, DownInv

\* A step that leaves the ring alone may move the connection only when neither
\* Register nor Unregister runs on it.
LEMMA RingSteady ==
    ASSUME RingInv, UNCHANGED bufferVars,
           session' = session \/ (up.step = "idle" /\ (down.step = "idle" \/ Deleted("ring"))),
           Deleted("ring") => Deleted("ring")'
    PROVE  RingInv'
<1> USE DEF bufferVars, RingInv
<1>1. BaseInv'
  BY DEF BaseInv, OpenWhileRegistered
<1>2. UpInv'
  BY DEF UpInv
<1>3. DownInv'
  BY DEF DownInv, TeardownOwnsFields
<1>4. UsersInv'
  BY DEF UsersInv
<1>5. NothingLeaks'
  BY DEF NothingLeaks
<1> QED
  BY <1>1, <1>2, <1>3, <1>4, <1>5

\* A callback enters the ring only while one is registered.
LEMMA RingUsed ==
    ASSUME TypeOK, RingInv, NEW t \in Threads, Callback(t)
    PROVE  RingInv'
<1>1. UNCHANGED <<base, fields, memory, refusing, up, down, stageVars, portVars>>
  BY CallbackMoves
<1>2. at'[t] \in {"using", "ringing"} =>
          /\ held'[t] # Null
          /\ held'[t] = base \/ (at[t] \in {"using", "ringing"} /\ held'[t] = held[t])
  <2> USE DEF TypeOK, Goto, bufferVars
  <2>1. CASE Spawn(t) \/ Open(t) \/ Mark(t) \/ Named(t) \/ Nameless(t) \/ Judge(t)
    BY <2>1 DEF Spawn, Open, Mark, Named, Nameless, Judge
  <2>2. ASSUME NEW h \in Handles, FirstWrite(t, h) PROVE at'[t] = "unmarked"
    BY <2>2 DEF FirstWrite
  <2>3. ASSUME PassBy(t) PROVE at[t] = "idle" /\ at' = at
    BY <2>3 DEF PassBy, vars
  <2>4. CASE Enter(t, "judging")
    BY <2>4 DEF Enter
  <2>5. CASE ReadBase(t, "judging")
    BY <2>5 DEF ReadBase
  <2>6. CASE UseRing(t, "judging") \/ Bell(t, "judging")
    BY <2>6 DEF UseRing, Bell, RingInv, UsersInv
  <2> QED
    BY <2>1, <2>2, <2>3, <2>4, <2>5, <2>6 DEF Callback, CallbackStep, PublishTelemetry, Publish
<1>3. UsersInv'
  <2> SUFFICES ASSUME NEW u \in Threads, at'[u] \in {"using", "ringing"}
               PROVE  /\ held'[u] # Null
                      /\ held'[u] = base \/ (held'[u] = down.ring /\ down.step \in {"taken", "draining"})
    BY <1>1 DEF UsersInv
  <2>1. CASE u = t
    BY <1>2, <2>1 DEF RingInv, UsersInv
  <2>2. CASE u # t
    BY <2>2, CallbackMoves DEF RingInv, UsersInv
  <2> QED
    BY <2>1, <2>2
<1>4. BaseInv' /\ UpInv' /\ DownInv' /\ NothingLeaks'
  BY <1>1 DEF RingInv, BaseInv, OpenWhileRegistered, UpInv, DownInv, TeardownOwnsFields,
              Deleted, NothingLeaks, stageVars, portVars
<1> QED
  BY <1>3, <1>4 DEF RingInv

\* Unregister begins: on the connection, or with the ring's turn to be deleted.
LEMMA RingTaken ==
    ASSUME TypeOK, RingInv, UnregisterTake, up.step = "idle",
           session' \in {"leaving", "unwinding"} \/ Deleted("ring")'
    PROVE  RingInv'
<1> USE DEF RingInv, UnregisterTake, TypeOK
<1>1. BaseInv' /\ UpInv'
  BY DEF BaseInv, OpenWhileRegistered, UpInv
<1>2. DownInv'
  BY DEF DownInv, TeardownOwnsFields, BaseInv, OpenWhileRegistered, NotUnregistering
<1>3. UsersInv'
  BY DEF UsersInv, NotUnregistering
<1>4. NothingLeaks'
  BY DEF NothingLeaks, NotUnregistering
<1> QED
  BY <1>1, <1>2, <1>3, <1>4

LEMMA RingInvKept == TypeOK /\ Stage /\ Callers /\ RingInv /\ Next => RingInv'
<1> SUFFICES ASSUME TypeOK, Stage, Callers, RingInv, Next PROVE RingInv'
  OBVIOUS
<1>1. CASE Make \/ MakeFails \/ Unload
  <2>1. going = <<>> /\ UNCHANGED <<bufferVars, session>>
    BY <1>1 DEF Make, MakeFails, Unload, Stage, portVars
  <2> QED
    BY <2>1, RingSteady DEF Deleted
<1>2. ASSUME NEW t \in Threads, Callback(t) PROVE RingInv'
  BY <1>2, RingUsed
<1>3. CASE Connect \/ PushRules \/ LoadRules \/ Answer
  <2>1. UNCHANGED <<bufferVars, stageVars>>
    BY <1>3 DEF Connect, PushRules, LoadRules, Answer
  <2>2. up.step = "idle" /\ (down.step = "idle" \/ Deleted("ring"))
    BY <1>3, Exclusion DEF Connect, PushRules, LoadRules, Answer, RingInv, UpInv, DownInv
  <2> QED
    BY <2>1, <2>2, RingSteady DEF Deleted, stageVars
<1>4. ASSUME NEW r \in Rings, RegisterRing(r) PROVE RingInv'
  <2> USE DEF RegisterRing, RegisterBuild, TypeOK, RingInv
  <2>1. /\ base = Null /\ session = "connected" /\ session' = session
        /\ memory[r] = "unused" /\ memory' = [memory EXCEPT ![r] = "live"]
        /\ up' = [step |-> "built", ring |-> r] /\ up.step = "idle"
        /\ UNCHANGED <<base, fields, refusing, at, held, down, made, going>>
    BY <1>4 DEF portVars, stageVars
  <2>2. r # Null /\ down.step = "idle"
    BY <2>1, Exclusion DEF Rings, Null
  <2>3. BaseInv' /\ UpInv'
    BY <2>1, <2>2 DEF BaseInv, OpenWhileRegistered, UpInv
  <2>4. DownInv'
    BY <2>1, <2>2 DEF DownInv, TeardownOwnsFields
  <2>5. UsersInv'
    BY <2>1 DEF UsersInv
  <2>6. NothingLeaks'
    BY <2>1 DEF NothingLeaks, UpInv
  <2> QED
    BY <2>3, <2>4, <2>5, <2>6
<1>5. CASE RegisterStep
  <2> USE DEF TypeOK, RingInv
  <2>1. /\ down.step = "idle" /\ base = Null /\ up.ring # Null /\ memory[up.ring] = "live"
        /\ session = "connected" /\ UNCHANGED <<memory, refusing, at, held, down, made, going>>
    BY <1>5, Exclusion DEF RegisterStep, RegisterFill, RegisterExpose, UpInv, fileVars, stageVars
  <2>2. CASE RegisterFill /\ UNCHANGED <<stageVars, portVars, fileVars>>
    <3>1. /\ fields' = up.ring /\ up' = [up EXCEPT !.step = "filled"]
          /\ base' = base /\ session' = session
      BY <2>2 DEF RegisterFill, portVars
    <3>2. BaseInv' /\ UpInv'
      BY <2>1, <3>1 DEF BaseInv, OpenWhileRegistered, UpInv
    <3>3. DownInv'
      BY <2>1, <3>1 DEF DownInv, TeardownOwnsFields
    <3>4. UsersInv' /\ NothingLeaks'
      BY <2>1, <3>1 DEF UsersInv, NothingLeaks
    <3> QED
      BY <3>2, <3>3, <3>4
  <2>3. CASE RegisterExpose /\ session' = "answering"
    <3>1. /\ base' = up.ring /\ up' = [step |-> "idle", ring |-> Null]
          /\ fields' = fields /\ fields = up.ring /\ ~ refusing
      BY <2>1, <2>3 DEF RegisterExpose, UpInv, DownInv
    <3>2. BaseInv' /\ UpInv'
      BY <2>1, <3>1 DEF BaseInv, OpenWhileRegistered, UpInv
    <3>3. DownInv'
      BY <2>1, <3>1 DEF DownInv, TeardownOwnsFields
    <3>4. UsersInv' /\ NothingLeaks'
      BY <2>1, <3>1 DEF UsersInv, NothingLeaks
    <3> QED
      BY <3>2, <3>3, <3>4
  <2> QED
    BY <1>5, <2>2, <2>3 DEF RegisterStep
<1>6. CASE AnswerFails \/ Leave
  <2>1. up.step = "idle" /\ down.step = "idle" /\ UNCHANGED stageVars
    BY <1>6, Exclusion DEF AnswerFails, Leave, RingInv, UpInv
  <2>2. \/ UnregisterTake /\ session' \in {"leaving", "unwinding"}
        \/ UNCHANGED bufferVars
    BY <1>6 DEF AnswerFails, Leave
  <2> QED
    BY <2>1, <2>2, RingTaken, RingSteady DEF stageVars, Deleted
<1>7. CASE Unregistering
  <2> USE DEF TypeOK, RingInv
  <2>1. /\ base = Null /\ up.step = "idle" /\ up.ring = Null /\ UNCHANGED <<stageVars, session>>
        /\ UNCHANGED <<base, at, held, up>>
        /\ session \in {"leaving", "unwinding"} \/ Deleted("ring")
    BY <1>7, Exclusion DEF Unregistering, UnregisterStep, UnregisterRefuse, UnregisterFree,
        UnregisterClear, UnregisterRearm, UpInv, DownInv, portVars
  <2>2. BaseInv' /\ UpInv'
    BY <2>1 DEF BaseInv, OpenWhileRegistered, UpInv
  <2>3. session' \in {"leaving", "unwinding"} \/ Deleted("ring")'
    BY <2>1 DEF Deleted, stageVars
  <2>4. CASE UnregisterRefuse
    <3>1. /\ down.step = "taken" /\ down' = [down EXCEPT !.step = "draining"]
          /\ refusing' = TRUE /\ UNCHANGED <<fields, memory>>
      BY <2>4 DEF UnregisterRefuse
    <3>2. DownInv'
      BY <2>1, <2>3, <3>1 DEF DownInv, TeardownOwnsFields
    <3>3. UsersInv' /\ NothingLeaks'
      BY <2>1, <3>1 DEF UsersInv, NothingLeaks
    <3> QED
      BY <2>2, <3>2, <3>3
  <2>5. CASE UnregisterFree
    <3>1. /\ down.step = "draining" /\ down' = [down EXCEPT !.step = "freed"]
          /\ memory' = [memory EXCEPT ![down.ring] = "freed"]
          /\ Inside = {} /\ UNCHANGED <<fields, refusing>>
      BY <2>5 DEF UnregisterFree
    <3>2. DownInv'
      BY <2>1, <2>3, <3>1 DEF DownInv, TeardownOwnsFields
    <3>3. UsersInv'
      BY <2>1, <3>1 DEF UsersInv, Inside
    <3>4. NothingLeaks'
      BY <2>1, <3>1 DEF NothingLeaks, DownInv, Rings
    <3> QED
      BY <2>2, <3>2, <3>3, <3>4
  <2>6. CASE UnregisterClear
    <3>1. /\ down.step = "freed" /\ down' = [down EXCEPT !.step = "cleared"]
          /\ fields' = Null /\ UNCHANGED <<memory, refusing>>
      BY <2>6 DEF UnregisterClear
    <3>2. DownInv'
      BY <2>1, <2>3, <3>1 DEF DownInv, TeardownOwnsFields
    <3>3. UsersInv' /\ NothingLeaks'
      BY <2>1, <3>1 DEF UsersInv, NothingLeaks
    <3> QED
      BY <2>2, <3>2, <3>3
  <2>7. CASE UnregisterRearm
    <3>1. /\ down.step = "cleared" /\ down' = [step |-> "done", ring |-> Null]
          /\ refusing' = FALSE /\ UNCHANGED <<fields, memory>>
      BY <2>7 DEF UnregisterRearm
    <3>2. DownInv'
      BY <2>1, <2>3, <3>1 DEF DownInv, TeardownOwnsFields
    <3>3. UsersInv' /\ NothingLeaks'
      BY <2>1, <3>1 DEF UsersInv, NothingLeaks
    <3> QED
      BY <2>2, <3>2, <3>3
  <2> QED
    BY <1>7, <2>4, <2>5, <2>6, <2>7 DEF Unregistering, UnregisterStep
<1>8. CASE Unregistered \/ Gone("ring")
  <2> USE DEF TypeOK, RingInv
  <2>1. /\ down.step = "done" /\ down' = [down EXCEPT !.step = "idle"]
        /\ UNCHANGED <<base, fields, memory, refusing, at, held, up>>
        /\ session \in {"unwinding", "leaving"} \/ session' = session
    BY <1>8 DEF Unregistered, Gone
  <2>2. up.step = "idle"
    BY <2>1, Exclusion
  <2>3. BaseInv' /\ UpInv'
    BY <2>1, <2>2 DEF BaseInv, OpenWhileRegistered, UpInv
  <2>4. DownInv'
    BY <2>1 DEF DownInv, TeardownOwnsFields
  <2>5. UsersInv' /\ NothingLeaks'
    BY <2>1 DEF UsersInv, NothingLeaks
  <2> QED
    BY <2>3, <2>4, <2>5
<1>9. CASE Delete
  <2>1. /\ going # <<>> /\ Head(going) \in made /\ made' = made \ {Head(going)}
        /\ going' = going /\ session' = session
    BY <1>9 DEF Delete, portVars
  <2>2. CASE Head(going) = "ring"
    <3>1. UnregisterTake /\ Deleted("ring")'
      BY <1>9, <2>1, <2>2 DEF Delete, Deleted
    <3>2. up.step = "idle"
      BY <2>1, <2>2, RingLast DEF Callers, RingInv, UpInv
    <3> QED
      BY <3>1, <3>2, RingTaken
  <2>3. CASE Head(going) # "ring"
    BY <1>9, <2>1, <2>3, RingSteady DEF Delete, Deleted
  <2> QED
    BY <2>2, <2>3
<1>10. ASSUME NEW c, c # "ring", Gone(c) PROVE RingInv'
  <2>1. ~ Deleted("ring")
    BY <1>10 DEF Gone, Deleted
  <2>2. UNCHANGED bufferVars /\ session' = session
    BY <1>10 DEF Gone, bufferVars
  <2> QED
    BY <2>1, <2>2, RingSteady
<1> QED
  BY <1>1, <1>2, <1>3, <1>4, <1>5, <1>6, <1>7, <1>8, <1>9, <1>10
     DEF Next, Service, Register, Teardown

-----------------------------------------------------------------------------
(* Jobs *)

LEMMA JobsKept == TypeOK /\ Jobs /\ Next => Jobs'
<1> SUFFICES ASSUME TypeOK, Jobs, Next PROVE Jobs'
  OBVIOUS
<1>1. CASE UNCHANGED <<at, job>>
  BY <1>1 DEF Jobs
<1>2. ASSUME NEW t \in Threads, Callback(t) PROVE Jobs'
  <2> USE DEF TypeOK, Goto, bufferVars
  <2>1. at'[t] \in {"unmarked", "unnamed"} => job'[t] # NoHandle
    <3>1. CASE Spawn(t) \/ Open(t) \/ Named(t)
      BY <1>2, <3>1 DEF Spawn, Open, Named, fileVars
    <3>2. CASE Mark(t)
      BY <3>2 DEF Mark, Jobs
    <3>3. CASE Nameless(t) \/ Judge(t)
      BY <3>3 DEF Nameless, Judge
    <3>4. CASE PublishTelemetry(t)
      BY <3>4 DEF PublishTelemetry, Publish, Enter, ReadBase, UseRing, Bell, fileVars
    <3>5. ASSUME NEW h \in Handles, FirstWrite(t, h) PROVE job'[t] # NoHandle
      BY <3>5, HandlesAssumption DEF FirstWrite
    <3>6. CASE PassBy(t)
      BY <3>6 DEF PassBy, vars
    <3> QED
      BY <1>2, <3>1, <3>2, <3>3, <3>4, <3>5, <3>6 DEF Callback, CallbackStep
  <2>2. \A u \in Threads : u # t => at'[u] = at[u] /\ job'[u] = job[u]
    BY <1>2, CallbackMoves
  <2> QED
    BY <2>1, <2>2 DEF Jobs
<1> QED
  BY <1>1, <1>2, ThreadsMove

-----------------------------------------------------------------------------

LEMMA IInvKept == IInv /\ [Next]_vars => IInv'
<1> SUFFICES ASSUME IInv, [Next]_vars PROVE IInv'
  OBVIOUS
<1>1. CASE Next
  BY <1>1, TypeOKKept, StageKept, CallersKept, RingInvKept, JobsKept DEF IInv, RingInv
<1>2. CASE UNCHANGED vars
  <2> USE <1>2 DEF vars, bufferVars, stageVars, portVars, fileVars
  <2>1. TypeOK'
    BY DEF IInv, TypeOK
  <2>2. Stage'
    BY DEF IInv, Stage, Before, InLine
  <2>3. Callers'
    BY DEF IInv, Callers, Existing
  <2>4. RingInv'
    BY RingSteady DEF IInv, Deleted
  <2>5. Jobs'
    BY DEF IInv, Jobs
  <2> QED
    BY <2>1, <2>2, <2>3, <2>4, <2>5 DEF IInv
<1> QED
  BY <1>1, <1>2

\* Whatever the driver is doing, IInv holds.
THEOREM Inductive == Spec => []IInv
BY InitIInv, IInvKept, PTL DEF Spec

\* A thread past the check of _base works on live memory whose geometry the fields
\* describe, and callbacks and messages find the arm table, the engine, the ring and
\* the filter alive until they return (Ring.cpp Publish and Unregister, ~Driver).
THEOREM UseIsSafe == Spec => []NoUseAfterFree
<1>1. IInv => NoUseAfterFree
  <2> SUFFICES ASSUME IInv PROVE NoUseAfterFree
    OBVIOUS
  <2>1. ASSUME NEW t \in Threads, at[t] \in {"using", "ringing"}
        PROVE  held[t] # Null /\ memory[held[t]] = "live" /\ fields = held[t]
    BY <2>1 DEF IInv, RingInv, UsersInv, BaseInv, DownInv, TeardownOwnsFields
  <2>2. \A t \in Threads : at[t] # "idle" => {"arms", "engine", "ring"} \subseteq Existing
    BY Supports DEF IInv, Callers, Foundations
  <2>3. session \notin {"none", "crashed"} => {"arms", "engine", "ring", "filter"} \subseteq Existing
    BY Supports DEF IInv, Callers, Foundations
  <2> QED
    BY <2>1, <2>2, <2>3 DEF NoUseAfterFree
<1> QED
  BY <1>1, Inductive, PTL

\* Until Unregister is through with a ring, the fields describe that ring: no second
\* Register can have filled them meanwhile (Ring.cpp Unregister, Register).
THEOREM TeardownFindsItsRing == Spec => []TeardownOwnsFields
<1>1. IInv => TeardownOwnsFields
  BY DEF IInv, RingInv, DownInv
<1> QED
  BY <1>1, Inductive, PTL

\* A registered ring refuses no producer: rundown protection that was run down is
\* back before the next ring opens (Ring.cpp Unregister, ExReInitializeRundownProtection).
THEOREM RegisteredMeansOpen == Spec => []OpenWhileRegistered
<1>1. IInv => OpenWhileRegistered
  BY DEF IInv, RingInv, BaseInv
<1> QED
  BY <1>1, Inductive, PTL

\* Ring memory is in use, being built, being taken down, or was given back.
THEOREM NoRingLeaks == Spec => []NothingLeaks
<1>1. IInv => NothingLeaks
  BY DEF IInv, RingInv
<1> QED
  BY <1>1, Inductive, PTL
=============================================================================
