----------------------------- MODULE Storylines -----------------------------
(***************************************************************************)
(* LINE and the storylines, as base.rs, v0_0_1.rs and v0_0_2.rs all keep   *)
(* them: a union-by-size partition of the entities seen so far, each class *)
(* owning the automata of every pattern.  The engines differ in what an    *)
(* automaton is and how it advances, and share everything here.            *)
(*                                                                         *)
(* A state is a record [line, members, autos].  Every slot of the code's   *)
(* `storylines` vector is pushed by exactly one key, the first time that   *)
(* key is resolved, and a slot index is only ever compared for equality:   *)
(* so a slot is named here by the key that pushed it.  A slot that was     *)
(* merged away (None in the code), or not pushed yet, has no members.      *)
(***************************************************************************)
EXTENDS Integers, Sequences, FiniteSets

CONSTANTS Keys,     \* entity identities
          Pids,     \* pattern ids, the positions in the rule set
          NoLine    \* LINE has no entry for the key

NoAutos == [p \in Pids |-> <<>>]

Empty == [line    |-> [k \in Keys |-> NoLine],
          members |-> [k \in Keys |-> {}],
          autos   |-> [k \in Keys |-> NoAutos]]

\* resolve_line: a key seen for the first time becomes a storyline of its own.
Resolve(st, k) ==
    IF st.line[k] # NoLine
      THEN st
      ELSE [line    |-> [st.line EXCEPT ![k] = k],
            members |-> [st.members EXCEPT ![k] = {k}],
            autos   |-> [st.autos EXCEPT ![k] = NoAutos]]

\* Fault: LINE is re-pointed, but the members of src are not handed over.
FoldForgetsMembers(st, dst, src) ==
    [line    |-> [k \in Keys |-> IF k \in st.members[src] THEN dst ELSE st.line[k]],
     members |-> [st.members EXCEPT ![src] = {}],
     autos   |-> [st.autos EXCEPT
                    ![dst] = [p \in Pids |-> @[p] \o st.autos[src][p]],
                    ![src] = NoAutos]]

\* Fault: the automata of src replace those of dst instead of being appended.
FoldReplacesAutos(st, dst, src) ==
    [line    |-> [k \in Keys |-> IF k \in st.members[src] THEN dst ELSE st.line[k]],
     members |-> [st.members EXCEPT ![dst] = @ \union st.members[src], ![src] = {}],
     autos   |-> [st.autos EXCEPT ![dst] = st.autos[src], ![src] = NoAutos]]

\* src is folded into dst: its members are re-pointed, its automata appended.
Fold(st, dst, src) ==
    [line    |-> [k \in Keys |-> IF k \in st.members[src] THEN dst ELSE st.line[k]],
     members |-> [st.members EXCEPT ![dst] = @ \union st.members[src], ![src] = {}],
     autos   |-> [st.autos EXCEPT
                    ![dst] = [p \in Pids |-> @[p] \o st.autos[src][p]],
                    ![src] = NoAutos]]

\* merge: the larger storyline survives, the actor's on a tie.
Merge(st, x, y) ==
    IF Cardinality(st.members[x]) >= Cardinality(st.members[y])
      THEN Fold(st, x, y)
      ELSE Fold(st, y, x)

\* unify_storyline: every event, whatever its op, joins actor and object.
Unify(st, a, o) ==
    LET both == Resolve(Resolve(st, a), o)
    IN  IF both.line[a] = both.line[o]
          THEN both
          ELSE Merge(both, both.line[a], both.line[o])
-----------------------------------------------------------------------------
\* A key is in the storyline LINE says, and in no other; a storyline that lost
\* its members owns no automata.
Consistent(st) ==
    /\ \A k \in Keys, s \in Keys : k \in st.members[s] <=> st.line[k] = s
    /\ \A s \in Keys : st.members[s] = {} => st.autos[s] = NoAutos
=============================================================================
