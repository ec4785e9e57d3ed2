------------------------------ MODULE CriticalPath ------------------------------
(***************************************************************************)
(* runner.CriticalPath of svcctl/topological/runner.go: the slowest chain  *)
(* of tasks, reported after a start.  Costs are computed depth first and   *)
(* kept; then the path follows the highest cost.  The lock is held from    *)
(* beginning to end.  Which task of a list is looked at first, and which   *)
(* of equal ones is taken, is left open.                                   *)
(***************************************************************************)
EXTENDS TaskGraph

VARIABLES
    duration,   \* duration[t]: what t.Duration() returns
    old,        \* the tasks that were running before the runner was made
    completed,  \* runner.completed
    stage,      \* where CriticalPath is
    costs,      \* runner.costs
    stack,      \* the tasks whose taskCost is being computed
    path        \* criticalPath

pathVars == <<graph, duration, old, completed, stage, costs, stack, path>>

\* A task is completed after those it depends on.
PathInit ==
    /\ graph \in [Tasks -> SUBSET Tasks]
    /\ Acyclic(graph, Tasks)
    /\ duration \in [Tasks -> Nat]
    /\ old \in SUBSET Tasks
    /\ completed \in SUBSET Tasks
    /\ Closed(completed)
    /\ stage = "costs"
    /\ costs = [t \in {} |-> 0]
    /\ stack = <<>>
    /\ path = <<>>

\* Mutant of HighestCost: any task that took time will do.
HighestCostAny(tasks) == {t \in tasks \ old : costs[t] > 0}

\* What highestCost may return, when the costs are known: a slowest one of the
\* tasks that the runner started itself; none if none took time.
HighestCost(tasks) ==
    {t \in tasks \ old : costs[t] > 0 /\ \A u \in tasks \ old : costs[u] <= costs[t]}

\* taskCost(highestCost(tasks)).
CostOfHighest(tasks) ==
    IF HighestCost(tasks) = {} THEN 0 ELSE costs[CHOOSE t \in HighestCost(tasks) : TRUE]

Innermost == stack[Len(stack)]

\* The tasks that the innermost highestCost goes through.
Compared == IF stack = <<>> THEN completed ELSE graph[Innermost]

\* taskCost is called for a task whose cost is not known.
CallTaskCost(t) ==
    /\ stage = "costs"
    /\ t \in Compared \ (old \cup DOMAIN costs)
    /\ stack' = Append(stack, t)
    /\ UNCHANGED <<graph, duration, old, completed, stage, costs, path>>

\* It returns when the costs of the dependents are known.
ReturnTaskCost ==
    /\ stage = "costs"
    /\ stack # <<>>
    /\ Compared \subseteq old \cup DOMAIN costs
    /\ costs' = [t \in DOMAIN costs \cup {Innermost} |->
                    IF t = Innermost THEN duration[t] + CostOfHighest(graph[t]) ELSE costs[t]]
    /\ stack' = SubSeq(stack, 1, Len(stack) - 1)
    /\ UNCHANGED <<graph, duration, old, completed, stage, path>>

\* The first highestCost has been through all tasks.
CostsKnown ==
    /\ stage = "costs"
    /\ stack = <<>>
    /\ Compared \subseteq old \cup DOMAIN costs
    /\ stage' = "path"
    /\ UNCHANGED <<graph, duration, old, completed, costs, stack, path>>

\* The tasks that the path may go on with.
Candidates == IF path = <<>> THEN completed ELSE graph[path[Len(path)]]

ExtendPath(t) ==
    /\ stage = "path"
    /\ t \in HighestCost(Candidates)
    /\ path' = Append(path, t)
    /\ UNCHANGED <<graph, duration, old, completed, stage, costs, stack>>

EndPath ==
    /\ stage = "path"
    /\ HighestCost(Candidates) = {}
    /\ stage' = "done"
    /\ UNCHANGED <<graph, duration, old, completed, costs, stack, path>>

PathNext ==
    \/ ReturnTaskCost \/ CostsKnown \/ EndPath
    \/ \E t \in Tasks : CallTaskCost(t) \/ ExtendPath(t)

PathSpec == PathInit /\ [][PathNext]_pathVars
-----------------------------------------------------------------------------
\* Each task of p is a dependent of the one before.
IsChain(p) == \A i \in 1 .. Len(p) - 1 : p[i + 1] \in graph[p[i]]

\* The time that the first i tasks of p took.
Sums(p) ==
    LET sum[i \in 0 .. Len(p)] == IF i = 0 THEN 0 ELSE sum[i - 1] + duration[p[i]]
    IN  sum

Cost(p) == Sums(p)[Len(p)]

\* The critical path is a chain of services this start brought up, and no
\* chain of them took longer (an acyclic graph has none with more tasks).
CriticalPathIsSlowest ==
    stage = "done" =>
        /\ path \in Seq(completed \ old)
        /\ IsChain(path)
        /\ \A n \in 0 .. Cardinality(completed \ old) :
            \A p \in [1 .. n -> completed \ old] : IsChain(p) => Cost(p) <= Cost(path)
=============================================================================
