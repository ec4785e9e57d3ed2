------------------------------ MODULE AlgorithmsMC ------------------------------
(***************************************************************************)
(* The sequential programs, each on every small input of its own: the      *)
(* algorithms on task graphs, the merges of BUILD files, and bzl gen.      *)
(***************************************************************************)
EXTENDS TaskGraphMC, BuildMergeMC, BzlGenMC

vars == <<makeVars, pathVars, mergeVars, genVars>>

Init ==
    /\ NothingMade /\ NoCosts
    /\ \/ MakeInput /\ NoPath /\ NoFiles /\ NoTargets
       \/ PathInput /\ NoRunner /\ NoFiles /\ NoTargets
       \/ MergeInput /\ NoGraph /\ NoRunner /\ NoPath /\ NoTargets
       \/ GenInput /\ NoGraph /\ NoRunner /\ NoPath /\ NoFiles

\* All have come to their end.
Terminating ==
    /\ at = "made"
    /\ stage = "done"
    /\ Finished
    /\ pc \in {"done", "failed"}
    /\ UNCHANGED vars

Next ==
    \/ MakeNext /\ UNCHANGED <<duration, old, completed, stage, costs, stack, path, mergeVars, genVars>>
    \/ PathNext
        /\ UNCHANGED <<roots, reversed, at, queue, allTasks, reversedDeps, list, mergeVars, genVars>>
    \/ MergeNext /\ UNCHANGED <<makeVars, pathVars, genVars>>
    \/ GenNext /\ UNCHANGED <<makeVars, pathVars, mergeVars>>
    \/ Terminating

Spec == Init /\ [][Next]_vars
=============================================================================
