--------------------------- MODULE TopologicalRunner ---------------------------
(***************************************************************************)
(* The worker pool of svcctl/topological/runner.go: workers take the first *)
(* task of the list whose dependencies are completed, or sleep on the      *)
(* condition variable.  A critical section under cv.L is one action: the   *)
(* mutex is only given up by cv.Wait, around task.Run and at the end, so   *)
(* the section in which a worker records the result of a task goes on to   *)
(* the next turn of its loop.                                              *)
(***************************************************************************)
EXTENDS Naturals, FiniteSets

CONSTANTS
    Tasks,     \* the unique tasks, by key
    Deps,      \* Deps[t]: the keys of t.Dependents()
    Rank,      \* Rank[t]: the place of t in the list uniqueDeps returns
    Workers,   \* the goroutines of the pool
    None       \* no task, no error

ASSUME DepsAssumption == Deps \in [Tasks -> SUBSET Tasks]
ASSUME RankAssumption ==
    /\ Rank \in [Tasks -> Nat]
    /\ \A t, u \in Tasks : Rank[t] = Rank[u] => t = u
ASSUME NoneAssumption == None \notin Tasks
ASSUME WorkersAssumption == Workers # {}

\* Every set of tasks has one that depends on none of the set: no cycle.
ASSUME AcyclicAssumption ==
    \A S \in SUBSET Tasks : S # {} => \E t \in S : Deps[t] \cap S = {}

VARIABLES
    tasks,      \* runner.tasks, those not taken yet
    completed,  \* runner.completed
    err,        \* runner.err, the task whose error it is; die = (err # None)
    pc,         \* pc[w]: where worker w is
    task,       \* task[w]: the task it runs
    broken,     \* history: the tasks whose Run returned an error
    returned    \* Run returned

vars == <<tasks, completed, err, pc, task, broken, returned>>

Init ==
    /\ tasks = Tasks
    /\ completed = {}
    /\ err = None
    /\ pc = [w \in Workers |-> "start"]
    /\ task = [w \in Workers |-> None]
    /\ broken = {}
    /\ returned = FALSE

die == err # None

\* Mutant of Ready: one completed dependency is enough.
ReadyAny(t, done) == Deps[t] = {} \/ Deps[t] \cap done # {}

Ready(t, done) == Deps[t] \subseteq done

\* Mutant of Broadcast: cv.Signal wakes one of the sleeping workers only.
Signal ==
    LET asleep == {w \in Workers : pc[w] = "asleep"}
    IN  IF asleep = {} THEN pc
        ELSE [pc EXCEPT ![CHOOSE w \in asleep : TRUE] = "woken"]

\* cv.Broadcast(): pc with every sleeping worker woken.
Broadcast == [w \in Workers |-> IF pc[w] = "asleep" THEN "woken" ELSE pc[w]]

\* Mutant of Remaining: a taken task stays in the list.
RemainingAll(t) == tasks

\* runner.tasks without the task that was taken.
Remaining(t) == tasks \ {t}

\* The condition of the worker's loop does not hold.
LoopEnds == tasks = {} \/ die

\* Mutant of Sleep: the nil task of a wakeup is run.
SleepNot == "run"

\* Where cv.Wait leaves a worker that found nothing ready.
Sleep == "asleep"

\* A turn of the loop of w, with the lock held, for the completed tasks done
\* and the other workers at p: leave, take the first ready task, or sleep.
Turn(w, done, p) ==
    LET ready == {t \in tasks : Ready(t, done)}
    IN  \/ /\ LoopEnds
           /\ pc' = [p EXCEPT ![w] = "done"]
           /\ task' = [task EXCEPT ![w] = None]
           /\ UNCHANGED tasks
        \/ /\ ~LoopEnds
           /\ \E t \in ready :
                /\ \A u \in ready : Rank[t] <= Rank[u]
                /\ tasks' = Remaining(t)
                /\ task' = [task EXCEPT ![w] = t]
           /\ pc' = [p EXCEPT ![w] = "run"]
        \/ /\ ~LoopEnds
           /\ ready = {}
           /\ pc' = [p EXCEPT ![w] = Sleep]
           /\ task' = [task EXCEPT ![w] = None]
           /\ UNCHANGED tasks

\* A worker gets the lock at the start, or again after cv.Wait.
Enter(w) ==
    /\ pc[w] \in {"start", "woken"}
    /\ Turn(w, completed, pc)
    /\ UNCHANGED <<completed, err, broken, returned>>

\* task.Run() returned nil: markDone, then the next turn.
Succeed(w) ==
    /\ pc[w] = "run"
    /\ completed' = completed \cup {task[w]}
    /\ Turn(w, completed', Broadcast)
    /\ UNCHANGED <<err, broken, returned>>

\* Mutant of FirstError: the error is dropped.
ErrorDropped(t) == err

FirstError(t) == IF die THEN err ELSE t

\* task.Run() returned an error: setErr keeps and announces the first one.
Fail(w) ==
    /\ pc[w] = "run"
    /\ err' = FirstError(task[w])
    /\ pc' = [(IF die THEN pc ELSE Broadcast) EXCEPT ![w] = "done"]
    /\ task' = [task EXCEPT ![w] = None]
    /\ broken' = broken \cup {task[w]}
    /\ UNCHANGED <<tasks, completed, returned>>

\* wg.Wait() in Run.
Return ==
    /\ ~returned
    /\ \A w \in Workers : pc[w] = "done"
    /\ returned' = TRUE
    /\ UNCHANGED <<tasks, completed, err, pc, task, broken>>

Terminating == returned /\ UNCHANGED vars

Worker(w) == Enter(w) \/ Succeed(w) \/ Fail(w)

Next == (\E w \in Workers : Worker(w)) \/ Return \/ Terminating

Spec == Init /\ [][Next]_vars

\* Workers are scheduled and the tasks they run return.
FairSpec == Spec /\ (\A w \in Workers : WF_vars(Worker(w))) /\ WF_vars(Return)
-----------------------------------------------------------------------------
running == {task[w] : w \in {v \in Workers : pc[v] = "run"}}

TypeOK ==
    /\ tasks \subseteq Tasks
    /\ completed \subseteq Tasks
    /\ err \in Tasks \cup {None}
    /\ pc \in [Workers -> {"start", "run", "asleep", "woken", "done"}]
    /\ task \in [Workers -> Tasks \cup {None}]
    /\ broken \subseteq Tasks
    /\ returned \in BOOLEAN

\* Each task is in one place: waiting in the list, run by one worker, done or
\* broken.  No worker takes a task another one has, and none is dropped.
OnePlace ==
    /\ Tasks = tasks \cup running \cup completed \cup broken
    /\ \A w \in Workers : pc[w] = "run" => task[w] \notin tasks \cup completed \cup broken
    /\ \A v, w \in Workers : pc[v] = "run" /\ pc[w] = "run" /\ task[v] = task[w] => v = w
    /\ tasks \cap (completed \cup broken) = {}

\* No service is started before its dependencies are healthy (or stopped
\* before its dependents are): what runs or ran had its dependencies completed.
DepsFirst ==
    \A t \in running \cup completed \cup broken : Deps[t] \subseteq completed

\* No lost wakeup: as long as a worker sleeps, another one runs a task, at
\* whose end it wakes the sleepers.  So the pool never sleeps as a whole.
SleepersAreWoken ==
    (\E w \in Workers : pc[w] = "asleep") => (\E w \in Workers : pc[w] = "run")

\* Run returns: the pool never hangs on an acyclic graph.
Termination == <>returned

\* The pool implements the promise, with a worker's critical section as a step:
\* order, at most once, nothing begun after an error, and a reply that is true.
Ordered == INSTANCE OrderedTasks WITH
    tasks <- IF returned THEN {} ELSE Tasks,
    deps <- Deps,
    succeeded <- IF returned THEN {} ELSE completed,
    broken <- IF returned THEN {} ELSE broken,
    reply <- IF ~returned THEN "none" ELSE IF err = None THEN "ok" ELSE "error"
ImplementsOrder == Ordered!Spec
=============================================================================
