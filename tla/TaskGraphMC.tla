------------------------------ MODULE TaskGraphMC ------------------------------
(***************************************************************************)
(* TaskGraph for every acyclic graph of a few tasks and every short list   *)
(* of roots; CriticalPath for every such graph and every choice of         *)
(* durations.                                                              *)
(***************************************************************************)
EXTENDS CriticalPath, FiniteSetsExt

CONSTANTS
    Durations,  \* the durations, in ticks
    MaxRoots    \* the longest list of roots

\* Task n depends on smaller ones only; every acyclic graph has such names.
SomeGraph ==
    \E edges \in SUBSET {e \in Tasks \X Tasks : e[2] < e[1]} :
        graph = [n \in Tasks |-> {m \in Tasks : <<n, m>> \in edges}]

MakeInput ==
    /\ SomeGraph
    /\ \E n \in 0 .. MaxRoots : roots \in kSubset(n, Tasks)
    /\ reversed \in BOOLEAN
    /\ at = IF reversed THEN "collect" ELSE "unique"
    /\ queue = roots

\* All tasks are completed: a part of them is a smaller graph.  One that took
\* long may have run before.
PathInput ==
    /\ SomeGraph
    /\ duration \in [Tasks -> Durations]
    /\ old \in SUBSET {n \in Tasks : duration[n] = Max(Durations)}
    /\ stage = "costs"

NothingMade == allTasks = <<>> /\ reversedDeps = [n \in Tasks |-> {}] /\ list = <<>>

NoRunner ==
    /\ roots = {}
    /\ reversed = FALSE
    /\ at = "made"
    /\ queue = {}

NoCosts == completed = Tasks /\ costs = [n \in {} |-> 0] /\ stack = <<>> /\ path = <<>>

NoPath ==
    /\ duration = [n \in Tasks |-> 0]
    /\ old = Tasks
    /\ stage = "done"

NoGraph == graph = [n \in Tasks |-> {}]
=============================================================================
