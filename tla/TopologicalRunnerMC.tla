-------------------------- MODULE TopologicalRunnerMC --------------------------
(***************************************************************************)
(* TopologicalRunner on the list and the graph that NewRunner makes of the *)
(* services a start asks for: two roots that share a dependency.           *)
(***************************************************************************)
EXTENDS TopologicalRunner, TLC

CONSTANTS top, left, right, bottom, other

MCDeps == (top :> {left, right}) @@ (left :> {bottom}) @@ (right :> {bottom})
             @@ (bottom :> {}) @@ (other :> {bottom})

MCTasks == DOMAIN MCDeps

\* The list uniqueDeps makes for the targets top and other.
List == <<top, other, left, right, bottom>>

MCRank == [t \in MCTasks |-> CHOOSE i \in 1 .. Cardinality(MCTasks) : List[i] = t]
=============================================================================
