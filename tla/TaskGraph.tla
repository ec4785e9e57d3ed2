------------------------------- MODULE TaskGraph -------------------------------
(***************************************************************************)
(* How svcctl/topological/runner.go makes a runner: NewRunner lists the    *)
(* tasks that the given ones need, each once (uniqueDeps);                 *)
(* NewReversedRunner first turns their dependencies around.  A step is an  *)
(* iteration of one of the two loops.  A task is its key, and the order of *)
(* a queue, which nothing depends on, is left open.                        *)
(***************************************************************************)
EXTENDS Naturals, Sequences, FiniteSets, Functions

CONSTANT Tasks  \* all tasks there are
ASSUME TasksAssumption == IsFiniteSet(Tasks)

VARIABLES
    graph,         \* graph[t]: what t.Dependents() returns
    roots,         \* the tasks the runner is made for
    reversed,      \* it is a NewReversedRunner
    at,            \* where the program is
    queue,         \* the queue of the loop
    allTasks,      \* the list of NewReversedRunner
    reversedDeps,  \* reversedDeps[t]: the tasks that depend on t
    list           \* the list of uniqueDeps, runner.tasks

makeVars == <<graph, roots, reversed, at, queue, allTasks, reversedDeps, list>>

\* Every set of tasks has one that depends on none of the set.
Acyclic(g, S) == \A T \in SUBSET S : T # {} => \E t \in T : g[t] \cap T = {}

\* The processor makes runners for acyclic graphs only.
MakeInit ==
    /\ graph \in [Tasks -> SUBSET Tasks]
    /\ Acyclic(graph, Tasks)
    /\ roots \in SUBSET Tasks
    /\ reversed \in BOOLEAN
    /\ at = IF reversed THEN "collect" ELSE "unique"
    /\ queue = roots
    /\ allTasks = <<>>
    /\ reversedDeps = [t \in Tasks |-> {}]
    /\ list = <<>>

\* The task was seen before.
SkipTwin(t) ==
    /\ at \in {"collect", "unique"}
    /\ t \in queue
    /\ t \in Range(IF at = "collect" THEN allTasks ELSE list)
    /\ queue' = queue \ {t}
    /\ UNCHANGED <<graph, roots, reversed, at, allTasks, reversedDeps, list>>

\* Mutant of Users: the last task that depends on d is all that is kept.
UsersLast(d, t) == {t}

\* reversedDeps[d] when it is found that t depends on d.
Users(d, t) == reversedDeps[d] \cup {t}

\* An iteration of the loop in NewReversedRunner.
Collect(t) ==
    /\ at = "collect"
    /\ t \in queue
    /\ t \notin Range(allTasks)
    /\ allTasks' = Append(allTasks, t)
    /\ reversedDeps' =
        [d \in Tasks |-> IF d \in graph[t] THEN Users(d, t) ELSE reversedDeps[d]]
    /\ queue' = (queue \ {t}) \cup graph[t]
    /\ UNCHANGED <<graph, roots, reversed, at, list>>

\* NewReversedRunner ends with a NewRunner of all tasks, turned around.
TurnAround ==
    /\ at = "collect"
    /\ queue = {}
    /\ queue' = Range(allTasks)
    /\ at' = "unique"
    /\ UNCHANGED <<graph, roots, reversed, allTasks, reversedDeps, list>>

\* What Dependents() returns for the tasks of the new runner.
Dependents == IF reversed THEN reversedDeps ELSE graph

\* An iteration of the loop in uniqueDeps.
Unique(t) ==
    /\ at = "unique"
    /\ t \in queue
    /\ t \notin Range(list)
    /\ list' = Append(list, t)
    /\ queue' = (queue \ {t}) \cup Dependents[t]
    /\ UNCHANGED <<graph, roots, reversed, at, allTasks, reversedDeps>>

Return ==
    /\ at = "unique"
    /\ queue = {}
    /\ at' = "made"
    /\ UNCHANGED <<graph, roots, reversed, queue, allTasks, reversedDeps, list>>

MakeNext == TurnAround \/ Return \/ \E t \in Tasks : SkipTwin(t) \/ Collect(t) \/ Unique(t)

MakeSpec == MakeInit /\ [][MakeNext]_makeVars
-----------------------------------------------------------------------------
Closed(S) == \A t \in S : graph[t] \subseteq S

\* The roots and all they need: the smallest closed set that has the roots.
Needed == {t \in Tasks : \A S \in SUBSET Tasks : roots \subseteq S /\ Closed(S) => t \in S}

\* The runner of a start lists every service the requested ones need, once.
\* The runner of a stop works on the same services, each depending on exactly
\* those that depend on it: a service is stopped after all its users, and
\* before all it uses.  Neither waits for a task it does not have, nor for a
\* cycle: it can be worked off (uniqueDeps, NewRunner and NewReversedRunner).
RunnersGetTheGraph ==
    at = "made" =>
        /\ Range(list) = Needed
        /\ IsInjective(list)
        /\ \A t \in Needed : Dependents[t] \subseteq Needed
        /\ reversed => \A t, u \in Needed : u \in Dependents[t] <=> t \in graph[u]
        /\ Acyclic(Dependents, Needed)
=============================================================================
