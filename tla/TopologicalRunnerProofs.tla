------------------------ MODULE TopologicalRunnerProofs ------------------------
(***************************************************************************)
(* What holds of the worker pool for every set of tasks, every acyclic     *)
(* dependency relation and every number of workers.                        *)
(***************************************************************************)
EXTENDS TopologicalRunner, TLAPS

\* An error is set as soon as a task broke, and then nobody sleeps; a worker
\* only leaves its loop when the list is empty or an error is set.
ErrorSet ==
    /\ err = None => broken = {}
    /\ err # None => err \in broken
    /\ die => \A w \in Workers : pc[w] # "asleep"
    /\ (\E w \in Workers : pc[w] = "done") => LoopEnds
    /\ \A w \in Workers : pc[w] = "run" => task[w] \in Tasks
    /\ returned => \A w \in Workers : pc[w] = "done"

IInv == TypeOK /\ OnePlace /\ DepsFirst /\ ErrorSet /\ SleepersAreWoken
-----------------------------------------------------------------------------
\* The list holds a task all of whose dependencies have left it.
LEMMA SomeTaskFirst ==
    ASSUME NEW S \in SUBSET Tasks, S # {}
    PROVE  \E t \in S : Deps[t] \cap S = {}
BY AcyclicAssumption

\* If nothing in a list that is not empty is ready, a worker runs one of the
\* tasks that are missing.
LEMMA BlockedByRunning ==
    ASSUME TypeOK, OnePlace, broken = {}, tasks # {},
           NEW done \in SUBSET Tasks, completed \subseteq done,
           \A t \in tasks : ~Ready(t, done)
    PROVE  \E v \in Workers : pc[v] = "run" /\ task[v] \notin done
<1>1. PICK t \in tasks : Deps[t] \cap tasks = {}
  BY SomeTaskFirst DEF TypeOK
<1>2. PICK d \in Deps[t] : d \notin done
  BY DEF Ready
<1>3. d \in Tasks
  BY DepsAssumption DEF TypeOK
<1>4. d \in running
  BY <1>1, <1>2, <1>3 DEF OnePlace
<1> QED
  BY <1>2, <1>4 DEF running

\* The pool as Run starts it satisfies the invariant.
LEMMA InitIInv == Init => IInv
BY DEF Init, IInv, TypeOK, OnePlace, DepsFirst, ErrorSet, SleepersAreWoken, running, die, LoopEnds

\* A worker that entered its loop with the lock leaves, takes a task or sleeps.
LEMMA EnterKeepsIInv ==
    ASSUME IInv, NEW w \in Workers, Enter(w)
    PROVE  IInv'
<1> USE DEF IInv
<1>r. /\ \A x : x \in running <=> \E v \in Workers : pc[v] = "run" /\ x = task[v]
      /\ \A x : x \in running' <=> \E v \in Workers : pc'[v] = "run" /\ x = task'[v]
  BY DEF running
<1>0. /\ pc[w] \in {"start", "woken"}
      /\ UNCHANGED <<completed, err, broken, returned>>
      /\ Turn(w, completed, pc)
  BY DEF Enter
<1>1. CASE /\ LoopEnds
           /\ pc' = [pc EXCEPT ![w] = "done"]
           /\ task' = [task EXCEPT ![w] = None]
           /\ UNCHANGED tasks
  <2>1. TypeOK'
    BY <1>0, <1>1 DEF TypeOK
  <2>a. \A v \in Workers : pc'[v] = "run" <=> pc[v] = "run"
    BY <1>0, <1>1 DEF TypeOK
  <2>b. \A v \in Workers : pc[v] = "run" => task'[v] = task[v]
    BY <1>0, <1>1 DEF TypeOK
  <2>2. running' = running
    BY <1>r, <2>a, <2>b
  <2>3. OnePlace'
    BY <1>0, <1>1, <2>2 DEF OnePlace, TypeOK
  <2>4. DepsFirst'
    BY <1>0, <2>2 DEF DepsFirst
  <2>5. ErrorSet'
    BY <1>0, <1>1 DEF ErrorSet, TypeOK, LoopEnds, die
  <2>6. SleepersAreWoken'
    BY <1>0, <1>1 DEF SleepersAreWoken, TypeOK
  <2> QED
    BY <2>1, <2>3, <2>4, <2>5, <2>6
<1>2. ASSUME ~LoopEnds,
             NEW t \in tasks, Ready(t, completed),
             tasks' = Remaining(t),
             task' = [task EXCEPT ![w] = t],
             pc' = [pc EXCEPT ![w] = "run"]
      PROVE  IInv'
  <2>1. TypeOK'
    BY <1>0, <1>2 DEF TypeOK, Remaining
  <2>2. running' = running \cup {t}
    BY <1>0, <1>2, <1>r DEF TypeOK
  <2>3. OnePlace'
    BY <1>0, <1>2, <1>r, <2>2 DEF OnePlace, TypeOK, Remaining
  <2>4. DepsFirst'
    BY <1>0, <1>2, <2>2 DEF DepsFirst, Ready
  <2>5. ErrorSet'
    BY <1>0, <1>2 DEF ErrorSet, TypeOK, LoopEnds, die
  <2>6. SleepersAreWoken'
    BY <1>0, <1>2 DEF SleepersAreWoken, TypeOK
  <2> QED
    BY <2>1, <2>3, <2>4, <2>5, <2>6
<1>3. CASE /\ ~LoopEnds
           /\ \A t \in tasks : ~Ready(t, completed)
           /\ pc' = [pc EXCEPT ![w] = "asleep"]
           /\ task' = [task EXCEPT ![w] = None]
           /\ UNCHANGED tasks
  <2>1. TypeOK'
    BY <1>0, <1>3 DEF TypeOK
  <2>a. \A v \in Workers : pc'[v] = "run" <=> pc[v] = "run"
    BY <1>0, <1>3 DEF TypeOK
  <2>b. \A v \in Workers : pc[v] = "run" => task'[v] = task[v]
    BY <1>0, <1>3 DEF TypeOK
  <2>2. running' = running
    BY <1>r, <2>a, <2>b
  <2>3. OnePlace'
    BY <1>0, <1>3, <2>2 DEF OnePlace, TypeOK
  <2>4. DepsFirst'
    BY <1>0, <2>2 DEF DepsFirst
  <2>5. ErrorSet'
    BY <1>0, <1>3 DEF ErrorSet, TypeOK, LoopEnds, die
  <2>6. PICK v \in Workers : pc[v] = "run"
    BY <1>3, BlockedByRunning DEF LoopEnds, die, ErrorSet, TypeOK
  <2>7. SleepersAreWoken'
    BY <1>0, <1>3, <2>6 DEF SleepersAreWoken, TypeOK
  <2> QED
    BY <2>1, <2>3, <2>4, <2>5, <2>7
<1> QED
  BY <1>0, <1>1, <1>2, <1>3 DEF Turn, Sleep

\* A broadcast wakes the sleepers and touches nobody else.
LEMMA BroadcastWakes ==
    ASSUME TypeOK
    PROVE  /\ Broadcast \in [Workers -> {"start", "run", "woken", "done"}]
           /\ \A v \in Workers : Broadcast[v] = "run" <=> pc[v] = "run"
           /\ \A v \in Workers : Broadcast[v] = "done" <=> pc[v] = "done"
BY DEF TypeOK, Broadcast

\* A worker whose task succeeded marks it and goes through its loop again.
LEMMA SucceedKeepsIInv ==
    ASSUME IInv, NEW w \in Workers, Succeed(w)
    PROVE  IInv'
<1> USE DEF IInv
<1>r. /\ \A x : x \in running <=> \E v \in Workers : pc[v] = "run" /\ x = task[v]
      /\ \A x : x \in running' <=> \E v \in Workers : pc'[v] = "run" /\ x = task'[v]
  BY DEF running
<1> DEFINE p == Broadcast
<1>p. /\ p \in [Workers -> {"start", "run", "woken", "done"}]
      /\ \A v \in Workers : p[v] = "run" <=> pc[v] = "run"
      /\ \A v \in Workers : p[v] = "done" <=> pc[v] = "done"
  BY BroadcastWakes
<1>0. /\ pc[w] = "run"
      /\ task[w] \in Tasks
      /\ completed' = completed \cup {task[w]}
      /\ UNCHANGED <<err, broken, returned>>
      /\ Turn(w, completed', p)
  BY DEF Succeed, ErrorSet
<1> HIDE DEF p
<1>4. ASSUME NEW new \in {"done", "asleep"},
             pc' = [p EXCEPT ![w] = new],
             task' = [task EXCEPT ![w] = None],
             tasks' = tasks
      PROVE  TypeOK' /\ OnePlace' /\ DepsFirst'
  <2>1. TypeOK'
    BY <1>0, <1>p, <1>4 DEF TypeOK
  <2>a. \A v \in Workers : pc'[v] = "run" <=> (pc[v] = "run" /\ v # w)
    BY <1>0, <1>p, <1>4
  <2>b. \A v \in Workers : pc'[v] = "run" => task'[v] = task[v]
    BY <1>4, <2>a DEF TypeOK
  <2>c. running' = running \ {task[w]}
    BY <1>0, <1>r, <2>a, <2>b DEF OnePlace
  <2>2. OnePlace'
    BY <1>0, <1>4, <1>r, <2>a, <2>b, <2>c DEF OnePlace
  <2>3. DepsFirst'
    BY <1>0, <1>r, <2>c DEF DepsFirst
  <2> QED
    BY <2>1, <2>2, <2>3
<1>1. CASE /\ LoopEnds
           /\ pc' = [p EXCEPT ![w] = "done"]
           /\ task' = [task EXCEPT ![w] = None]
           /\ UNCHANGED tasks
  <2>1. ErrorSet'
    BY <1>0, <1>1, <1>p DEF ErrorSet, TypeOK, LoopEnds, die
  <2>2. SleepersAreWoken'
    BY <1>0, <1>1, <1>p DEF SleepersAreWoken
  <2> QED
    BY <1>1, <1>4, <2>1, <2>2
<1>2. ASSUME ~LoopEnds,
             NEW t \in tasks, Ready(t, completed'),
             tasks' = Remaining(t),
             task' = [task EXCEPT ![w] = t],
             pc' = [p EXCEPT ![w] = "run"]
      PROVE  IInv'
  <2>1. TypeOK'
    BY <1>0, <1>p, <1>2 DEF TypeOK, Remaining
  <2>a. \A v \in Workers : pc'[v] = "run" <=> pc[v] = "run"
    BY <1>0, <1>p, <1>2
  <2>b. \A v \in Workers : task'[v] = IF v = w THEN t ELSE task[v]
    BY <1>2 DEF TypeOK
  <2>c. running' = (running \ {task[w]}) \cup {t}
    BY <1>0, <1>r, <2>a, <2>b DEF OnePlace
  <2>2. OnePlace'
    BY <1>0, <1>2, <1>r, <2>a, <2>b, <2>c DEF OnePlace, Remaining
  <2>3. DepsFirst'
    BY <1>0, <1>2, <1>r, <2>c DEF DepsFirst, Ready
  <2>4. ErrorSet'
    BY <1>0, <1>2, <1>p DEF ErrorSet, TypeOK, LoopEnds, die
  <2>5. SleepersAreWoken'
    BY <1>0, <2>a DEF SleepersAreWoken
  <2> QED
    BY <2>1, <2>2, <2>3, <2>4, <2>5
<1>3. CASE /\ ~LoopEnds
           /\ \A t \in tasks : ~Ready(t, completed')
           /\ pc' = [p EXCEPT ![w] = "asleep"]
           /\ task' = [task EXCEPT ![w] = None]
           /\ UNCHANGED tasks
  <2>1. ErrorSet'
    BY <1>0, <1>3, <1>p DEF ErrorSet, TypeOK, LoopEnds, die
  <2>2. PICK v \in Workers : pc[v] = "run" /\ task[v] \notin completed'
    <3>1. completed' \in SUBSET Tasks /\ completed \subseteq completed'
      BY <1>0 DEF TypeOK
    <3>2. broken = {} /\ tasks # {}
      BY <1>3 DEF LoopEnds, die, ErrorSet
    <3> QED
      BY <1>3, <3>1, <3>2, BlockedByRunning
  <2>3. v # w
    BY <1>0, <2>2
  <2>4. SleepersAreWoken'
    BY <1>p, <1>3, <2>2, <2>3 DEF SleepersAreWoken
  <2> QED
    BY <1>3, <1>4, <2>1, <2>4
<1> QED
  BY <1>0, <1>1, <1>2, <1>3 DEF Turn, Sleep

\* The first error is set and wakes everybody.
LEMMA FailKeepsIInv ==
    ASSUME IInv, NEW w \in Workers, Fail(w)
    PROVE  IInv'
<1> USE DEF IInv
<1>r. /\ \A x : x \in running <=> \E v \in Workers : pc[v] = "run" /\ x = task[v]
      /\ \A x : x \in running' <=> \E v \in Workers : pc'[v] = "run" /\ x = task'[v]
  BY DEF running
<1> DEFINE p == IF die THEN pc ELSE Broadcast
<1>p. /\ p \in [Workers -> {"start", "run", "woken", "done"}]
      /\ \A v \in Workers : p[v] = "run" <=> pc[v] = "run"
      /\ \A v \in Workers : p[v] = "done" <=> pc[v] = "done"
  <2>1. CASE die
    BY <2>1 DEF TypeOK, ErrorSet
  <2>2. CASE ~die
    BY <2>2, BroadcastWakes
  <2> QED
    BY <2>1, <2>2
<1>0. /\ pc[w] = "run"
      /\ task[w] \in Tasks
      /\ err' = IF die THEN err ELSE task[w]
      /\ pc' = [p EXCEPT ![w] = "done"]
      /\ task' = [task EXCEPT ![w] = None]
      /\ broken' = broken \cup {task[w]}
      /\ UNCHANGED <<tasks, completed, returned>>
  BY DEF Fail, FirstError, ErrorSet
<1> HIDE DEF p
<1>1. TypeOK'
  BY <1>0, <1>p DEF TypeOK
<1>a. \A v \in Workers : pc'[v] = "run" <=> (pc[v] = "run" /\ v # w)
  BY <1>0, <1>p
<1>b. \A v \in Workers : pc'[v] = "run" => task'[v] = task[v]
  BY <1>0, <1>a DEF TypeOK
<1>c. running' = running \ {task[w]}
  BY <1>0, <1>r, <1>a, <1>b DEF OnePlace
<1>2. OnePlace'
  BY <1>0, <1>r, <1>a, <1>b, <1>c DEF OnePlace
<1>3. DepsFirst'
  BY <1>0, <1>r, <1>c DEF DepsFirst
<1>4. err' # None /\ err' \in broken'
  BY <1>0, NoneAssumption DEF die, ErrorSet
<1>5. ErrorSet'
  BY <1>0, <1>p, <1>a, <1>b, <1>4 DEF ErrorSet, die, LoopEnds
<1>6. SleepersAreWoken'
  BY <1>0, <1>p DEF SleepersAreWoken
<1> QED
  BY <1>1, <1>2, <1>3, <1>5, <1>6

\* Every step of a worker and the return of Run keep the invariant.
LEMMA NextIInv ==
    ASSUME IInv, [Next]_vars
    PROVE  IInv'
<1>1. CASE \E w \in Workers : Worker(w)
  BY <1>1, EnterKeepsIInv, SucceedKeepsIInv, FailKeepsIInv DEF Worker
<1>2. CASE Return
  BY <1>2 DEF Return, IInv, TypeOK, OnePlace, DepsFirst, ErrorSet, SleepersAreWoken,
              running, die, LoopEnds
<1>3. CASE UNCHANGED vars
  BY <1>3 DEF vars, IInv, TypeOK, OnePlace, DepsFirst, ErrorSet, SleepersAreWoken,
              running, die, LoopEnds
<1> QED
  BY <1>1, <1>2, <1>3 DEF Next, Terminating

\* The inductive invariant holds in every reachable state.
THEOREM Inductive == Spec => []IInv
BY InitIInv, NextIInv, PTL DEF Spec

\* Every variable of the runner has its type.
THEOREM Typing == Spec => []TypeOK
BY Inductive, PTL DEF IInv

\* No service is started before everything it depends on is healthy, however
\* many workers race for the list.
THEOREM OrderKept == Spec => []DepsFirst
BY Inductive, PTL DEF IInv

\* No task is run twice, by two workers or after it is done, and none is lost.
THEOREM RunOnce == Spec => []OnePlace
BY Inductive, PTL DEF IInv

\* There is no lost wakeup: whoever sleeps will be woken by a running task.
THEOREM NoLostWakeup == Spec => []SleepersAreWoken
BY Inductive, PTL DEF IInv

-----------------------------------------------------------------------------
\* A turn of the loop either leaves what runs as it is, or adds the first
\* ready task, which nobody ran before and whose dependencies are done.
LEMMA EnterImplements ==
    ASSUME IInv, NEW w \in Workers, Enter(w)
    PROVE  [Ordered!Next]_(Ordered!vars)
<1> USE DEF IInv
<1>r. /\ \A x : x \in running <=> \E v \in Workers : pc[v] = "run" /\ x = task[v]
      /\ \A x : x \in running' <=> \E v \in Workers : pc'[v] = "run" /\ x = task'[v]
  BY DEF running
<1>0. /\ pc[w] \in {"start", "woken"}
      /\ UNCHANGED <<completed, err, broken, returned>>
      /\ Turn(w, completed, pc)
      /\ ~returned
  BY DEF Enter, ErrorSet
<1>1. ASSUME NEW new \in {"done", "asleep"}, pc' = [pc EXCEPT ![w] = new],
             task' = [task EXCEPT ![w] = None]
      PROVE  running' = running
  <2>a. \A v \in Workers : pc'[v] = "run" <=> pc[v] = "run"
    BY <1>0, <1>1 DEF TypeOK
  <2>b. \A v \in Workers : pc[v] = "run" => task'[v] = task[v]
    BY <1>0, <1>1 DEF TypeOK
  <2> QED
    BY <1>r, <2>a, <2>b
<1>2. ASSUME ~LoopEnds, NEW t \in tasks, Ready(t, completed),
             task' = [task EXCEPT ![w] = t], pc' = [pc EXCEPT ![w] = "run"]
      PROVE  Ordered!Begin(t) /\ t \in Tasks
  <2>1. running' = running \cup {t}
    BY <1>0, <1>2, <1>r DEF TypeOK
  <2>2. broken = {}
    BY <1>2 DEF LoopEnds, die, ErrorSet
  <2>3. t \in Tasks \ (running \cup completed)
    BY <1>2, <1>r DEF OnePlace, TypeOK
  <2> QED
    BY <1>0, <1>2, <2>1, <2>2, <2>3 DEF Ordered!Begin, Ordered!MayBegin, Ready
<1>3. running' = running \/ \E t \in Tasks : Ordered!Begin(t)
  BY <1>0, <1>1, <1>2 DEF Turn, Sleep
<1> QED
  BY <1>0, <1>3 DEF Ordered!Next, Ordered!vars

\* Recording a success and taking the next task are one step of the promise.
LEMMA SucceedImplements ==
    ASSUME IInv, NEW w \in Workers, Succeed(w)
    PROVE  Ordered!Next
<1> USE DEF IInv
<1>r. /\ \A x : x \in running <=> \E v \in Workers : pc[v] = "run" /\ x = task[v]
      /\ \A x : x \in running' <=> \E v \in Workers : pc'[v] = "run" /\ x = task'[v]
  BY DEF running
<1> DEFINE p == Broadcast
<1>p. /\ p \in [Workers -> {"start", "run", "woken", "done"}]
      /\ \A v \in Workers : p[v] = "run" <=> pc[v] = "run"
  BY BroadcastWakes
<1>0. /\ pc[w] = "run"
      /\ task[w] \in Tasks
      /\ task[w] \in running
      /\ completed' = completed \cup {task[w]}
      /\ UNCHANGED <<err, broken, returned>>
      /\ Turn(w, completed', p)
      /\ ~returned
  BY DEF Succeed, ErrorSet, running
<1> HIDE DEF p
<1>1. ASSUME NEW new \in {"done", "asleep"}, pc' = [p EXCEPT ![w] = new],
             task' = [task EXCEPT ![w] = None]
      PROVE  Ordered!Succeed(task[w])
  <2>a. \A v \in Workers : pc'[v] = "run" <=> (pc[v] = "run" /\ v # w)
    BY <1>0, <1>p, <1>1
  <2>b. \A v \in Workers : pc'[v] = "run" => task'[v] = task[v]
    BY <1>1, <2>a DEF TypeOK
  <2>c. running' = running \ {task[w]}
    BY <1>0, <1>r, <2>a, <2>b DEF OnePlace
  <2> QED
    BY <1>0, <2>c DEF Ordered!Succeed
<1>2. ASSUME ~LoopEnds, NEW t \in tasks, Ready(t, completed'),
             task' = [task EXCEPT ![w] = t], pc' = [p EXCEPT ![w] = "run"]
      PROVE  Ordered!SucceedAndBegin(task[w], t) /\ t \in Tasks
  <2>a. \A v \in Workers : pc'[v] = "run" <=> pc[v] = "run"
    BY <1>0, <1>p, <1>2
  <2>b. \A v \in Workers : task'[v] = IF v = w THEN t ELSE task[v]
    BY <1>2 DEF TypeOK
  <2>c. running' = (running \ {task[w]}) \cup {t}
    BY <1>0, <1>r, <2>a, <2>b DEF OnePlace
  <2>1. broken = {}
    BY <1>2 DEF LoopEnds, die, ErrorSet
  <2>2. t \in Tasks \ (running \cup completed)
    BY <1>2, <1>r DEF OnePlace, TypeOK
  <2> QED
    BY <1>0, <1>2, <2>c, <2>1, <2>2 DEF Ordered!SucceedAndBegin, Ordered!MayBegin, Ready
<1>3. \/ Ordered!Succeed(task[w])
      \/ \E t \in Tasks : Ordered!SucceedAndBegin(task[w], t)
  BY <1>0, <1>1, <1>2 DEF Turn, Sleep
<1> QED
  BY <1>0, <1>3 DEF Ordered!Next

\* Recording an error is a step of the promise.
LEMMA FailImplements ==
    ASSUME IInv, NEW w \in Workers, Fail(w)
    PROVE  Ordered!Next
<1> USE DEF IInv
<1>r. /\ \A x : x \in running <=> \E v \in Workers : pc[v] = "run" /\ x = task[v]
      /\ \A x : x \in running' <=> \E v \in Workers : pc'[v] = "run" /\ x = task'[v]
  BY DEF running
<1> DEFINE p == IF die THEN pc ELSE Broadcast
<1>p. DOMAIN p = Workers /\ \A v \in Workers : p[v] = "run" <=> pc[v] = "run"
  BY BroadcastWakes DEF TypeOK
<1>0. /\ pc[w] = "run"
      /\ task[w] \in Tasks
      /\ task[w] \in running
      /\ pc' = [p EXCEPT ![w] = "done"]
      /\ task' = [task EXCEPT ![w] = None]
      /\ broken' = broken \cup {task[w]}
      /\ UNCHANGED <<completed, returned>>
      /\ ~returned
  BY DEF Fail, ErrorSet, running
<1> HIDE DEF p
<1>a. \A v \in Workers : pc'[v] = "run" <=> (pc[v] = "run" /\ v # w)
  BY <1>0, <1>p
<1>b. \A v \in Workers : pc'[v] = "run" => task'[v] = task[v]
  BY <1>0, <1>a DEF TypeOK
<1>c. running' = running \ {task[w]}
  BY <1>0, <1>r, <1>a, <1>b DEF OnePlace
<1>1. Ordered!Fail(task[w])
  BY <1>0, <1>c DEF Ordered!Fail
<1> QED
  BY <1>0, <1>1 DEF Ordered!Next

\* Run returns when the promise allows it, and what it returns is true.
LEMMA ReturnImplements ==
    ASSUME IInv, Return
    PROVE  Ordered!Next
<1>1. running = {} /\ running' = {}
  BY DEF Return, running
<1>2. broken # {} \/ completed = Tasks
  BY <1>1, WorkersAssumption DEF Return, IInv, TypeOK, OnePlace, ErrorSet, LoopEnds, die
<1>3. err = None <=> broken = {}
  BY DEF IInv, ErrorSet
<1>4. Ordered!Gone'
  BY <1>1 DEF Return, Ordered!Gone
<1>5. Ordered!Return
  BY <1>1, <1>2, <1>3, <1>4 DEF Return, Ordered!Return, Ordered!AtWork
<1> QED
  BY <1>5 DEF Ordered!Next

\* The worker pool implements the promise of OrderedTasks: at most once, in
\* the order of the dependencies, nothing begun after an error, and nil if and
\* only if all tasks succeeded.
THEOREM Implementation == Spec => ImplementsOrder
<1>1. ASSUME Init
      PROVE  Ordered!Init
  <2>1. Ordered!Fresh(Tasks)
    BY <1>1, DepsAssumption DEF Init, Ordered!Fresh, running
  <2> QED
    BY <2>1 DEF Ordered!Init
<1>2. ASSUME IInv, [Next]_vars
      PROVE  [Ordered!Next]_(Ordered!vars)
  <2>1. CASE \E w \in Workers : Worker(w)
    BY <1>2, <2>1, EnterImplements, SucceedImplements, FailImplements DEF Worker
  <2>2. CASE Return
    BY <1>2, <2>2, ReturnImplements
  <2>3. CASE UNCHANGED vars
    BY <2>3 DEF vars, Ordered!vars, running
  <2> QED
    BY <1>2, <2>1, <2>2, <2>3 DEF Next, Terminating
<1> QED
  BY <1>1, <1>2, Inductive, PTL DEF Spec, ImplementsOrder, Ordered!Spec
=============================================================================
