--------------------------- MODULE CompiledEngine ---------------------------
(***************************************************************************)
(* The reference engine on the rules of an accepted file: what the engine  *)
(* relies on the compiler for.                                             *)
(***************************************************************************)
EXTENDS EngineDag, RuleFile

(***************************************************************************)
(* No automaton is stuck: whatever an attack has done so far, some step of *)
(* the pattern that is still missing has all it requires, so the pattern   *)
(* can be completed (validate_dag, advance).                               *)
(***************************************************************************)
NeverStuck ==
    \A s \in Keys, p \in Pids : \A i \in DOMAIN autos[s][p] :
        Defined(Patterns[p]) \subseteq autos[s][p][i] \/
          \E j \in DOMAIN Patterns[p] :
            /\ Patterns[p][j].bit \notin autos[s][p][i]
            /\ Patterns[p][j].prereq \subseteq autos[s][p][i]
-----------------------------------------------------------------------------
\* What the compiler accepts, said without its algorithm.

\* The steps can be put in an order where each follows what it requires.
Orderable(steps) ==
    \E order \in {f \in [DOMAIN steps -> DOMAIN steps] : IsInjective(f)} :
        \A i \in DOMAIN steps :
            steps[order[i]].prereq \subseteq {steps[order[j]].bit : j \in 1 .. i - 1}

Distinct(steps) == \A i, j \in DOMAIN steps : steps[i].bit = steps[j].bit => i = j

\* Every line follows what it may follow, and no name is used twice.
WellFormed(file) ==
    /\ \A i \in DOMAIN file :
         LET before == IF i = 1 THEN "end" ELSE file[i-1].kw
         IN  CASE file[i].kw = "pattern" -> before = "end"
               [] file[i].kw = "step"    -> before \in {"pattern", "step"}
               [] file[i].kw = "end"     -> before = "step"
               [] OTHER                  -> FALSE
    /\ file # <<>> => file[Len(file)].kw = "end"
    /\ \A i, j \in DOMAIN file :
         file[i].kw = "pattern" /\ file[j].kw = "pattern" /\ file[i].name = file[j].name => i = j
=============================================================================
