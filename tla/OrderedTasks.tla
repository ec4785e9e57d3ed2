----------------------------- MODULE OrderedTasks -----------------------------
(***************************************************************************)
(* What topological.Runner promises a caller, who makes one runner after   *)
(* the other: every task of a runner runs at most once and only after its  *)
(* dependencies succeeded, nothing is begun after an error, and Run        *)
(* returns when nothing runs any more, with nil if all tasks succeeded and *)
(* with an error if one of them broke.                                     *)
(***************************************************************************)
CONSTANT Tasks   \* what can be a task

VARIABLES
    tasks,     \* the tasks of the runner at work
    deps,      \* deps[t]: those that t depends on
    running,   \* those whose Run is being executed
    succeeded, \* those whose Run returned nil
    broken,    \* those whose Run returned an error
    reply      \* "none" while the runner works, then "ok" or "error"

vars == <<tasks, deps, running, succeeded, broken, reply>>

AtWork == reply = "none"

\* A runner with the tasks S was made and called.
Fresh(S) ==
    /\ reply = "none"
    /\ tasks = S
    /\ deps \in [S -> SUBSET S]
    /\ running = {}
    /\ succeeded = {}
    /\ broken = {}

\* No runner is at work.
Gone ==
    /\ tasks = {}
    /\ running = {}
    /\ succeeded = {}
    /\ broken = {}
    /\ reply # "none"

Init == Gone \/ \E S \in SUBSET Tasks : Fresh(S)

New ==
    /\ ~AtWork
    /\ \E S \in SUBSET Tasks : Fresh(S)'

\* The task t may begin when the tasks in done have succeeded.
MayBegin(t, done) ==
    /\ broken = {}
    /\ t \in tasks \ (running \cup succeeded)
    /\ deps[t] \subseteq done

Begin(t) ==
    /\ MayBegin(t, succeeded)
    /\ running' = running \cup {t}
    /\ UNCHANGED <<tasks, deps, succeeded, broken, reply>>

Succeed(t) ==
    /\ t \in running
    /\ running' = running \ {t}
    /\ succeeded' = succeeded \cup {t}
    /\ UNCHANGED <<tasks, deps, broken, reply>>

Fail(t) ==
    /\ t \in running
    /\ running' = running \ {t}
    /\ broken' = broken \cup {t}
    /\ UNCHANGED <<tasks, deps, succeeded, reply>>

\* A worker that succeeds begins its next task in the same critical section.
SucceedAndBegin(t, u) ==
    /\ t \in running
    /\ MayBegin(u, succeeded \cup {t})
    /\ running' = (running \ {t}) \cup {u}
    /\ succeeded' = succeeded \cup {t}
    /\ UNCHANGED <<tasks, deps, broken, reply>>

\* A task whose Run nobody can observe.
BeginAndEnd(t) ==
    /\ MayBegin(t, succeeded)
    /\ \/ succeeded' = succeeded \cup {t} /\ UNCHANGED broken
       \/ broken' = broken \cup {t} /\ UNCHANGED succeeded
    /\ UNCHANGED <<tasks, deps, running, reply>>

Return ==
    /\ AtWork
    /\ running = {}
    /\ broken # {} \/ succeeded = tasks
    /\ Gone'
    /\ reply' = IF broken = {} THEN "ok" ELSE "error"

\* The caller goes on to something that needs no runner.
GoOn ==
    /\ ~AtWork
    /\ Gone'

Next ==
    \/ New
    \/ \E t \in Tasks : Begin(t) \/ Succeed(t) \/ Fail(t) \/ BeginAndEnd(t)
    \/ \E t, u \in Tasks : SucceedAndBegin(t, u)
    \/ Return
    \/ GoOn

Spec == Init /\ [][Next]_vars
=============================================================================
