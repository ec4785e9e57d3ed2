-------------------------------- MODULE BzlGenMC --------------------------------
(***************************************************************************)
(* BzlGen for every small workspace, cycles of imports included.           *)
(***************************************************************************)
EXTENDS BzlGen

CONSTANT MaxRequested  \* how many directories may be asked for

\* Imports and deps are the same, as a directory is seldom of both languages.
GenInput ==
    /\ \E edges \in SUBSET {e \in Dirs \X Dirs : e[1] # e[2]}, n \in 1 .. MaxRequested :
        LET used == [d \in Dirs |-> {e \in Dirs : <<d, e>> \in edges}]
        IN  ws \in {w \in [requested : {1 .. n}, deps_generation : BOOLEAN,
                           go : SUBSET Dirs, annotated : SUBSET Dirs, py : SUBSET Dirs,
                           imports : {used}, deps : {used}] :
                    w.py \subseteq w.annotated}
    /\ pc = "round"
    /\ Idle

NoTargets ==
    /\ ws = [requested |-> {}, deps_generation |-> FALSE, go |-> {}, annotated |-> {}, py |-> {},
             imports |-> [d \in Dirs |-> {}], deps |-> [d \in Dirs |-> {}]]
    /\ pc = "done"
    /\ Idle
=============================================================================
