------------------------------ MODULE ServiceDef ------------------------------
(***************************************************************************)
(* One service of the svcctl service controller: serviceDef of             *)
(* svcctl/service.go, the Pcmd wrapper of svcctl/proc/proc.go around its   *)
(* launcher process and the StateMachine of svcctl/state_machine.          *)
(*                                                                         *)
(* Concurrent calls of Start and of stop run beside the goroutines that    *)
(* every successful Start leaves behind: waitTillHealthyAndMark, one       *)
(* poller per health check, the exit watcher of a daemon, the closer of    *)
(* the log file and the recorder of the version.  svc.lock is held across  *)
(* steps only by stop; every other critical section is one action, guarded *)
(* by LockFree.  An access made without the lock is an action of its own.  *)
(*                                                                         *)
(* A "run" is one call of Start that got past the STOPPED test; its        *)
(* identity also names the Pcmd and the wait channel that the call made.   *)
(***************************************************************************)
EXTENDS Naturals, FiniteSets

CONSTANTS
    Starts,            \* the calls of the starter task (Start, then waitTillHealthy)
    Stops,             \* the calls of stop
    VerifyCmds,        \* the command health checks of the service
    HttpHealthChecks,  \* its HTTP health checks
    ServiceTypes,      \* the types to choose from: "DAEMON", "TASK"
    Followed,          \* the passive goroutines to follow: "starter", "logger", "recorder"
    None               \* nil, and the owner of a free lock

ASSUME StartsAssumption == None \notin Starts \cup Stops
ASSUME TypesAssumption == ServiceTypes \subseteq {"DAEMON", "TASK"}

HealthChecks == VerifyCmds \cup HttpHealthChecks
Signals == {"SIGINT", "SIGKILL"}    \* of Stop and of StopUnsafe

VARIABLES
    type,       \* svc.ServiceType
    state,      \* StateMachine.state
    lock,       \* the stop call that holds svc.lock, or None
    process,    \* svc.Process, the run whose Pcmd it is
    waitCh,     \* svc.waitCh, the run that made it
    closed,     \* the wait channels that are closed
    version,    \* svc.version, the run whose version files it was read from
    collected,  \* the runs whose reports are in svc.sanitizerErrors
    crash,      \* the panic that killed svcd, or "none"
    proc,       \* proc[s]: the launcher process of run s and its Pcmd
    failed,     \* failed[s]: Pcmd.exitErr of a task is set (a daemon's is only logged)
    doomed,     \* doomed[s]: SIGKILL is pending for the launcher
    start,      \* start[s]: where the starter task s is
    waiter,     \* waiter[s]: where waitTillHealthyAndMark of run s is
    cap,        \* cap[s]: its local variable process
    watcher,    \* watcher[s]: the goroutine that waits for a daemon's exit
    poll,       \* poll[s][c]: the poller of check c that run s started
    logger,     \* logger[s]: the goroutine that closes the log file
    logCh,      \* logCh[s]: the channel that goroutine waits for
    recorder,   \* recorder[s]: the goroutine that stores the version
    stop,       \* stop[x]: where the stop call x is, or the signal it is to send
    verified    \* history: the checks that passed since the last fork

serviceVars == <<state, lock, process, waitCh, closed, version, collected, crash>>
procVars == <<type, proc, failed, doomed>>
goroutineVars == <<waiter, cap, watcher, poll, logger, logCh, recorder>>
vars == <<serviceVars, procVars, start, goroutineVars, stop, verified>>

States == {"STOPPED", "ERROR", "STARTING", "STARTED", "STOPPING"}
-----------------------------------------------------------------------------
Daemon == type = "DAEMON"

\* A task runs its verify commands only: waitTillHealthyAndMark never polls
\* the HTTP checks of a task.
Checks == IF Daemon THEN VerifyCmds \cup HttpHealthChecks ELSE VerifyCmds

\* Nobody reads what the passive goroutines write, so that a run that asks
\* nothing about one of them need not follow it.
Spawn(goroutine, first) == IF goroutine \in Followed THEN first ELSE "none"

Alive == crash = "none"
LockFree == Alive /\ lock = None

\* What proc.Pcmd and the kernel know of a launcher.
Forked(s) == proc[s] # "initial"
Exited(s) == proc[s] = "exited"

\* Mutant of ExitedCh: any channel that was made counts as closed.
ExitedChMade == waitCh # None

\* exited(): a receive from the wait channel would not block.
ExitedCh == waitCh \in closed

\* Mutant of WaitDone: the Pcmd is marked as exited before its reports are read.
WaitDoneReaped(s) == cap[s] # None /\ proc[cap[s]] \in {"reaped", "exited"}

\* process.Wait() returned, process being the local variable of run s.
WaitDone(s) == cap[s] # None /\ Exited(cap[s])

\* Mutant of Settled: the condition is tested once instead of in a loop.
SettledAtOnce == TRUE

\* WaitTillNotState(STARTING) returns.
Settled == state # "STARTING"

Init ==
    /\ type \in ServiceTypes
    /\ state = "STOPPED"
    /\ lock = None
    /\ process = None
    /\ waitCh = None
    /\ closed = {}
    /\ version = None
    /\ collected = {}
    /\ crash = "none"
    /\ proc = [s \in Starts |-> "initial"]
    /\ failed = [s \in Starts |-> FALSE]
    /\ doomed = [s \in Starts |-> FALSE]
    /\ start = [s \in Starts |-> "idle"]
    /\ waiter = [s \in Starts |-> "none"]
    /\ cap = [s \in Starts |-> None]
    /\ watcher = [s \in Starts |-> "none"]
    /\ poll = [s \in Starts |-> [c \in HealthChecks |-> "none"]]
    /\ logger = [s \in Starts |-> "none"]
    /\ logCh = [s \in Starts |-> None]
    /\ recorder = [s \in Starts |-> "none"]
    /\ stop = [x \in Stops |-> "idle"]
    /\ verified = {}
-----------------------------------------------------------------------------
(* startTask.Run: Start under the lock, then waitTillHealthy.             *)

CanStart == state = "STOPPED"

\* Mutant of NewWaitCh: the channel is made once per service.
NewWaitChOnce(s) == waitCh' = IF waitCh = None THEN s ELSE waitCh

NewWaitCh(s) == waitCh' = s

AfterStart == IF "starter" \in Followed THEN "waiting" ELSE "ok"

\* Start of a service that is not STOPPED does nothing.
StartNoop(s) ==
    /\ LockFree
    /\ start[s] = "idle"
    /\ ~CanStart
    /\ start' = [start EXCEPT ![s] = AfterStart]
    /\ UNCHANGED <<serviceVars, procVars, goroutineVars, stop, verified>>

\* The new wait channel is made before the log file is opened.
StartLogFails(s) ==
    /\ LockFree
    /\ start[s] = "idle"
    /\ CanStart
    /\ NewWaitCh(s)
    /\ start' = [start EXCEPT ![s] = "error"]
    /\ UNCHANGED <<state, lock, process, closed, version, collected, crash,
                   procVars, goroutineVars, stop, verified>>

StartForkFails(s) ==
    /\ LockFree
    /\ start[s] = "idle"
    /\ CanStart
    /\ NewWaitCh(s)
    /\ process' = s
    /\ state' = "ERROR"
    /\ start' = [start EXCEPT ![s] = "error"]
    /\ UNCHANGED <<lock, closed, version, collected, crash,
                   procVars, goroutineVars, stop, verified>>

StartForks(s) ==
    /\ LockFree
    /\ start[s] = "idle"
    /\ CanStart
    /\ NewWaitCh(s)
    /\ process' = s
    /\ state' = "STARTING"
    /\ proc' = [proc EXCEPT ![s] = "running"]
    /\ start' = [start EXCEPT ![s] = AfterStart]
    /\ waiter' = [waiter EXCEPT ![s] = "capture"]
    /\ logger' = [logger EXCEPT ![s] = Spawn("logger", "read")]
    /\ recorder' = [recorder EXCEPT ![s] = Spawn("recorder", "waiting")]
    /\ verified' = {}
    /\ UNCHANGED <<type, lock, closed, version, collected, crash, failed, doomed,
                   cap, watcher, poll, logCh, stop>>

\* waitTillHealthy: the state seen once the condition variable wakes us.
WaitHealthy(s) ==
    /\ Alive
    /\ start[s] = "waiting"
    /\ Settled
    /\ start' = [start EXCEPT ![s] = IF state = "STARTED" THEN "ok" ELSE "error"]
    /\ UNCHANGED <<serviceVars, procVars, goroutineVars, stop, verified>>

\* The version goroutine stores what Start read, if the service got healthy.
StoreVersion(s) ==
    /\ Alive
    /\ recorder[s] = "waiting"
    /\ Settled
    /\ recorder' = [recorder EXCEPT ![s] = "done"]
    /\ version' = IF state = "STARTED" THEN s ELSE version
    /\ UNCHANGED <<state, lock, process, waitCh, closed, collected, crash, procVars,
                   start, waiter, cap, watcher, poll, logger, logCh, stop, verified>>

\* The log goroutine evaluates svc.waitCh when it first runs ...
LogRead(s) ==
    /\ Alive
    /\ logger[s] = "read"
    /\ logger' = [logger EXCEPT ![s] = "waiting"]
    /\ logCh' = [logCh EXCEPT ![s] = waitCh]
    /\ UNCHANGED <<serviceVars, procVars, start, waiter, cap, watcher, poll, recorder,
                   stop, verified>>

\* ... and closes the log file when that channel is closed.
LogClose(s) ==
    /\ Alive
    /\ logger[s] = "waiting"
    /\ logCh[s] \in closed
    /\ logger' = [logger EXCEPT ![s] = "closed"]
    /\ UNCHANGED <<serviceVars, procVars, start, waiter, cap, watcher, poll, logCh,
                   recorder, stop, verified>>
-----------------------------------------------------------------------------
(* waitTillHealthyAndMark and the goroutines it starts.                   *)

\* Mutant of PollersStart: the HTTP checks are counted but not polled.
PollersStartVerifyCmds(s) ==
    poll' = [poll EXCEPT ![s] = [c \in HealthChecks |-> IF c \in VerifyCmds THEN "check" ELSE "none"]]

PollersStart(s) ==
    poll' = [poll EXCEPT ![s] = [c \in HealthChecks |-> IF c \in Checks THEN "check" ELSE "none"]]

Capture(s) ==
    /\ LockFree
    /\ waiter[s] = "capture"
    /\ cap' = [cap EXCEPT ![s] = process]
    /\ IF Daemon
       THEN /\ waiter' = [waiter EXCEPT ![s] = "health"]
            /\ watcher' = [watcher EXCEPT ![s] = "wait"]
            /\ PollersStart(s)
       ELSE /\ waiter' = [waiter EXCEPT ![s] = "wait"]
            /\ UNCHANGED <<watcher, poll>>
    /\ UNCHANGED <<serviceVars, procVars, start, logger, logCh, recorder,
                   stop, verified>>

\* appendSanitizerErrors: the reports of whatever svc.Process is now; a Pcmd
\* has none before its process exited.
AppendSanitizerErrors ==
    collected' = collected \cup {s \in Starts : s = process /\ Exited(s)}

\* Mutant of CloseWaitCh: the channel is closed under svc.lock.
CloseWaitChLocked ==
    /\ lock = None
    /\ closed' = closed \cup {waitCh}
    /\ UNCHANGED crash

\* close(svc.waitCh): closing a closed channel panics.
CloseWaitCh ==
    IF ExitedCh
    THEN /\ crash' = "close of closed channel"
         /\ UNCHANGED closed
    ELSE /\ closed' = closed \cup {waitCh}
         /\ UNCHANGED crash

\* Mutant of MarkError: an exit in STARTING goes unnoticed.
MarkErrorIfStarted ==
    state' = IF state = "STARTED" THEN "ERROR" ELSE state

\* Mutant of MarkError: the status code nobody uses.
MarkCompleted ==
    state' = IF state \in {"STARTING", "STARTED"} THEN "COMPLETED" ELSE state

\* A launcher that exits by itself puts a live service in ERROR.
MarkError ==
    state' = IF state \in {"STARTING", "STARTED"} THEN "ERROR" ELSE state

\* Mutant of MarkHealthy: the status is not looked at.
MarkHealthyAlways == state' = "STARTED"

\* markStarted, under the lock: only a STARTING service gets STARTED.
MarkHealthy == state' = IF state = "STARTING" THEN "STARTED" ELSE state

\* Mutant of HealthChecksPassed: the HTTP checks are not added to the WaitGroup.
VerifyCmdsPassed(s) == \A c \in VerifyCmds : poll[s][c] = "passed"

\* waitForHealthChecks.Wait() returns once every poller called Done.
HealthChecksPassed(s) == \A c \in Checks : poll[s][c] = "passed"

TaskFailed(s) == failed[cap[s]]

DaemonExitSeen(s) ==
    /\ Alive
    /\ watcher[s] = "wait"
    /\ WaitDone(s)
    /\ watcher' = [watcher EXCEPT ![s] = "close"]
    /\ AppendSanitizerErrors
    /\ UNCHANGED <<state, lock, process, waitCh, closed, version, crash, procVars, start,
                   waiter, cap, poll, logger, logCh, recorder, stop, verified>>

DaemonExitClose(s) ==
    /\ Alive
    /\ watcher[s] = "close"
    /\ watcher' = [watcher EXCEPT ![s] = "mark"]
    /\ CloseWaitCh
    /\ UNCHANGED <<state, lock, process, waitCh, version, collected, procVars, start,
                   waiter, cap, poll, logger, logCh, recorder, stop, verified>>

DaemonExitMark(s) ==
    /\ LockFree
    /\ watcher[s] = "mark"
    /\ watcher' = [watcher EXCEPT ![s] = "done"]
    /\ MarkError
    /\ UNCHANGED <<lock, process, waitCh, closed, version, collected, crash, procVars,
                   start, waiter, cap, poll, logger, logCh, recorder, stop, verified>>

TaskExitSeen(s) ==
    /\ Alive
    /\ waiter[s] = "wait"
    /\ WaitDone(s)
    /\ waiter' = [waiter EXCEPT ![s] = "close"]
    /\ AppendSanitizerErrors
    /\ UNCHANGED <<state, lock, process, waitCh, closed, version, crash, procVars, start,
                   cap, watcher, poll, logger, logCh, recorder, stop, verified>>

TaskExitClose(s) ==
    /\ Alive
    /\ waiter[s] = "close"
    /\ CloseWaitCh
    /\ IF TaskFailed(s)
       THEN /\ waiter' = [waiter EXCEPT ![s] = "mark"]
            /\ UNCHANGED poll
       ELSE /\ waiter' = [waiter EXCEPT ![s] = "health"]
            /\ PollersStart(s)
    /\ UNCHANGED <<state, lock, process, waitCh, version, collected, procVars, start,
                   cap, watcher, logger, logCh, recorder, stop, verified>>

TaskExitMark(s) ==
    /\ LockFree
    /\ waiter[s] = "mark"
    /\ waiter' = [waiter EXCEPT ![s] = "done"]
    /\ MarkError
    /\ UNCHANGED <<lock, process, waitCh, closed, version, collected, crash, procVars,
                   start, cap, watcher, poll, logger, logCh, recorder, stop, verified>>

\* A poller gives up, without wg.Done, once the service is not STARTING.
PollCheck(s, c) ==
    /\ Alive
    /\ poll[s][c] = "check"
    /\ poll' = [poll EXCEPT ![s][c] = IF state = "STARTING" THEN "exec" ELSE "gaveUp"]
    /\ UNCHANGED <<serviceVars, procVars, start, waiter, cap, watcher, logger, logCh,
                   recorder, stop, verified>>

PollPass(s, c) ==
    /\ Alive
    /\ poll[s][c] = "exec"
    /\ poll' = [poll EXCEPT ![s][c] = "passed"]
    /\ verified' = verified \cup {c}
    /\ UNCHANGED <<serviceVars, procVars, start, waiter, cap, watcher, logger, logCh,
                   recorder, stop>>

PollFail(s, c) ==
    /\ Alive
    /\ poll[s][c] = "exec"
    /\ poll' = [poll EXCEPT ![s][c] = "check"]
    /\ UNCHANGED <<serviceVars, procVars, start, waiter, cap, watcher, logger, logCh,
                   recorder, stop, verified>>

\* waitForHealthChecks.Wait() returned; markStarted takes the lock.
MarkStarted(s) ==
    /\ LockFree
    /\ waiter[s] = "health"
    /\ HealthChecksPassed(s)
    /\ waiter' = [waiter EXCEPT ![s] = "done"]
    /\ MarkHealthy
    /\ UNCHANGED <<lock, process, waitCh, closed, version, collected, crash, procVars,
                   start, cap, watcher, poll, logger, logCh, recorder, stop, verified>>
-----------------------------------------------------------------------------
(* stop(sig): Stop sends SIGINT, StopUnsafe SIGKILL.                      *)

StopNoop(x) ==
    /\ LockFree
    /\ stop[x] = "idle"
    /\ state = "STOPPED"
    /\ stop' = [stop EXCEPT ![x] = "ok"]
    /\ UNCHANGED <<serviceVars, procVars, start, goroutineVars, verified>>

\* Stopping a task only sets the status.
StopTask(x) ==
    /\ LockFree
    /\ ~Daemon
    /\ stop[x] = "idle"
    /\ state # "STOPPED"
    /\ state' = "STOPPED"
    /\ stop' = [stop EXCEPT ![x] = "ok"]
    /\ UNCHANGED <<lock, process, waitCh, closed, version, collected, crash, procVars,
                   start, goroutineVars, verified>>

\* svc.Process.Cmd.Process is nil when the fork failed.
StopDaemon(x) ==
    /\ LockFree
    /\ Daemon
    /\ stop[x] = "idle"
    /\ state # "STOPPED"
    /\ state' = "STOPPING"
    /\ lock' = x
    /\ \E sig \in Signals : stop' = [stop EXCEPT ![x] = sig]
    /\ crash' = IF \E s \in Starts : s = process /\ Forked(s)
                THEN crash ELSE "nil dereference"
    /\ UNCHANGED <<process, waitCh, closed, version, collected, procVars, start,
                   goroutineVars, verified>>

\* What SIGKILL to the whole tree does to a launcher that still runs.
Kill(s) == doomed' = [doomed EXCEPT ![s] = @ \/ proc[s] = "running"]

\* The signal was accepted.  SIGINT goes to the process group, which may
\* outlive its leader; SIGKILL goes to the launcher's own pid too, so it
\* fails once that pid is reaped.
StopSignal(x) ==
    /\ Alive
    /\ stop[x] \in Signals
    /\ stop[x] = "SIGKILL" => proc[process] = "running"
    /\ IF stop[x] = "SIGKILL" THEN Kill(process) ELSE UNCHANGED doomed
    /\ stop' = [stop EXCEPT ![x] = "loop"]
    /\ UNCHANGED <<type, serviceVars, proc, failed, start, goroutineVars, verified>>

\* The signal failed: a reaped launcher, or (SIGKILL of the tree) one that
\* was listed and vanished.  Only a closed wait channel makes that success.
StopSignalFails(x) ==
    /\ Alive
    /\ stop[x] \in Signals
    /\ stop[x] = "SIGINT" => proc[process] # "running"
    /\ IF stop[x] = "SIGKILL" THEN Kill(process) ELSE UNCHANGED doomed
    /\ lock' = None
    /\ IF ExitedCh
       THEN /\ process' = None
            /\ state' = "STOPPED"
            /\ stop' = [stop EXCEPT ![x] = "ok"]
       ELSE /\ stop' = [stop EXCEPT ![x] = "error"]
            /\ UNCHANGED <<process, state>>
    /\ UNCHANGED <<type, waitCh, closed, version, collected, crash, proc, failed, start,
                   goroutineVars, verified>>

\* interruptWaitDuration passed: SIGKILL to the whole tree.
StopTick(x) ==
    /\ Alive
    /\ stop[x] = "loop"
    /\ Kill(process)
    /\ UNCHANGED <<type, serviceVars, proc, failed, start, goroutineVars, stop, verified>>

StopDone(x) ==
    /\ Alive
    /\ stop[x] = "loop"
    /\ ExitedCh
    /\ process' = None
    /\ state' = "STOPPED"
    /\ lock' = None
    /\ stop' = [stop EXCEPT ![x] = "ok"]
    /\ UNCHANGED <<waitCh, closed, version, collected, crash, procVars, start,
                   goroutineVars, verified>>
-----------------------------------------------------------------------------
(* The launcher process and the goroutine of Pcmd.Start.                  *)

\* Cmd.Wait reaps the process, which exits by itself or of a signal.
ProcExit(s) ==
    /\ Alive
    /\ proc[s] = "running"
    /\ proc' = [proc EXCEPT ![s] = "reaped"]
    /\ doomed' = [doomed EXCEPT ![s] = FALSE]
    /\ \E e \in BOOLEAN : failed' = [failed EXCEPT ![s] = ~Daemon /\ e]
    /\ UNCHANGED <<type, serviceVars, start, goroutineVars, stop, verified>>

PcmdExit(s) ==
    /\ Alive
    /\ proc[s] = "reaped"
    /\ proc' = [proc EXCEPT ![s] = "exited"]
    /\ UNCHANGED <<type, serviceVars, failed, doomed, start, goroutineVars, stop, verified>>
-----------------------------------------------------------------------------
StartCall(s) ==
    \/ StartNoop(s)
    \/ StartLogFails(s)
    \/ StartForkFails(s)
    \/ StartForks(s)

StopCall(x) ==
    \/ StopNoop(x)
    \/ StopTask(x)
    \/ StopDaemon(x)

Poller(s, c) ==
    \/ PollCheck(s, c)
    \/ PollPass(s, c)
    \/ PollFail(s, c)

\* The steps the Go scheduler owes run s.
Goroutine(s) ==
    \/ WaitHealthy(s)
    \/ StoreVersion(s)
    \/ LogRead(s)
    \/ LogClose(s)
    \/ Capture(s)
    \/ DaemonExitSeen(s)
    \/ DaemonExitClose(s)
    \/ DaemonExitMark(s)
    \/ TaskExitSeen(s)
    \/ TaskExitClose(s)
    \/ TaskExitMark(s)
    \/ MarkStarted(s)
    \/ PcmdExit(s)

\* The steps it owes the stop call x.
Stopping(x) ==
    \/ StopSignal(x)
    \/ StopSignalFails(x)
    \/ StopTick(x)
    \/ StopDone(x)

\* svcd died of a panic, or every call returned and no goroutine has a step.
Terminating ==
    /\ \/ ~Alive
       \/ /\ \A s \in Starts : start[s] \in {"ok", "error"}
          /\ \A x \in Stops : stop[x] \in {"ok", "error"}
    /\ UNCHANGED vars

Next ==
    \/ \E s \in Starts :
        \/ StartCall(s)
        \/ Goroutine(s)
        \/ ProcExit(s)
        \/ \E c \in HealthChecks : Poller(s, c)
    \/ \E x \in Stops :
        \/ StopCall(x)
        \/ Stopping(x)
    \/ Terminating

Spec == Init /\ [][Next]_vars

\* The Go scheduler runs every goroutine that can run and a mutex is handed
\* over; a launcher that got SIGKILL is reaped.  Nothing is assumed of a
\* launcher that was not killed, nor of the callers.
Fairness ==
    /\ \A s \in Starts :
        /\ WF_vars(Goroutine(s))
        /\ WF_vars(ProcExit(s) /\ doomed[s])
        /\ \A c \in HealthChecks : WF_vars(Poller(s, c))
    /\ \A x \in Stops : WF_vars(Stopping(x))

FairSpec == Spec /\ Fairness

-----------------------------------------------------------------------------
TypeOK ==
    /\ type \in {"DAEMON", "TASK"}
    /\ state \in States
    /\ lock \in Stops \cup {None}
    /\ process \in Starts \cup {None}
    /\ waitCh \in Starts \cup {None}
    /\ closed \subseteq Starts
    /\ version \in Starts \cup {None}
    /\ collected \subseteq Starts
    /\ crash \in {"none", "close of closed channel", "nil dereference"}
    /\ proc \in [Starts -> {"initial", "running", "reaped", "exited"}]
    /\ failed \in [Starts -> BOOLEAN]
    /\ doomed \in [Starts -> BOOLEAN]
    /\ start \in [Starts -> {"idle", "waiting", "ok", "error"}]
    /\ waiter \in [Starts -> {"none", "capture", "wait", "close", "mark", "health", "done"}]
    /\ cap \in [Starts -> Starts \cup {None}]
    /\ watcher \in [Starts -> {"none", "wait", "close", "mark", "done"}]
    /\ poll \in [Starts -> [HealthChecks -> {"none", "check", "exec", "passed", "gaveUp"}]]
    /\ logger \in [Starts -> {"none", "read", "waiting", "closed"}]
    /\ logCh \in [Starts -> Starts \cup {None}]
    /\ recorder \in [Starts -> {"none", "waiting", "done"}]
    /\ stop \in [Stops -> Signals \cup {"idle", "loop", "ok", "error"}]
    /\ verified \subseteq HealthChecks

\* What the safety of a service rests on: stop waits for a daemon's process,
\* so that its runs never overlap; a task's may, once it is stopped and a
\* later call of Start has got past the STOPPED test.
FirstRun == \A s \in Starts : Forked(s) => waitCh = s
Apart == Daemon \/ FirstRun

\* Two launchers of one daemon never run at once, and none is left when its
\* status is STOPPED: stop gives the lock back only after the process is gone,
\* whatever calls, exits and late goroutines of earlier runs led there.
OneProcess ==
    Daemon => /\ \A s, t \in Starts :
                    proc[s] = "running" /\ proc[t] = "running" => s = t
              /\ state = "STOPPED" => \A s \in Starts : Forked(s) => Exited(s)

\* The comment of waitCh: it is closed on process exit.  exited() never says
\* so of a run whose launcher the Pcmd still holds.
WaitChClosedOnExit ==
    Apart => \A s \in closed : Exited(s)

\* The goroutines of a run, which read svc.Process and svc.waitCh long after
\* Start returned, work on the process and the channel of their own run.
RunsKeepApart ==
    Apart => /\ crash # "close of closed channel"
             /\ \A s \in Starts : waiter[s] \notin {"none", "capture"} => cap[s] = s

\* The sanitizer reports of a launcher are in svc.sanitizerErrors before
\* anyone can see its wait channel closed; a restart loses none.
ReportsCollected ==
    Apart => closed \subseteq collected

\* The log file of a run stays open as long as its launcher may write to it,
\* though the log goroutine reads svc.waitCh without the lock.
LogOpenWhileRunning ==
    Apart => \A s \in Starts : logger[s] = "closed" => Exited(s)

\* The documentation of Start: a service gets healthy after every check of
\* it returned a zero exit code, which means since its own fork.
StartedOnlyIfVerified ==
    state = "STARTED" => verified = Checks

\* Within one run the status is honest: STARTED only if verified, a task only
\* after its process exited without an error; ERROR only if a process exited.
FirstRunHonest ==
    FirstRun => /\ StartedOnlyIfVerified
                /\ state = "STARTED" /\ ~Daemon => Exited(process) /\ ~failed[process]
                /\ state = "ERROR" /\ Forked(process) => Exited(process)

\* needsRestart compares the version files with what they were when the
\* healthy run was started, once the goroutine that stores it has finished.
VersionOfHealthyRun ==
    /\ FirstRun
    /\ state = "STARTED"
    /\ recorder[process] = "done"
    => version = process

\* The status changes only along the life cycle: a service leaves STOPPED by
\* Start alone, gets STARTED only from STARTING, and is never revived from
\* ERROR or STOPPING by a late goroutine.
Life == INSTANCE ServiceLifeCycle WITH status <- state
LifeCycle == Life!Spec

\* A stop call on a run that is being waited for returns: the SIGKILLs end the
\* launcher, and its watcher closes the channel without needing the lock.
WatchedStopReturns ==
    \A x \in Stops :
        (stop[x] = "loop" /\ \A s \in Starts : waiter[s] # "capture") ~> (stop[x] = "ok")

\* A daemon whose process was reaped does not stay STARTING or STARTED for
\* ever, unless another run has taken its place.  (A task that has completed
\* stays STARTED by design.)
DeathNoticed ==
    \A s \in Starts :
        (Daemon /\ process = s /\ proc[s] = "reaped")
            ~> (process # s \/ state \notin {"STARTING", "STARTED"} \/ ~Alive)

\* Someone works on the current run: a check is polled or a task runs.
Busy ==
    /\ process # None
    /\ \/ \E c \in HealthChecks : poll[process][c] \in {"check", "exec"}
       \/ ~Daemon /\ proc[process] = "running"

\* No starter task waits for ever on a service nobody works on, over a
\* restart either: there is no timeout that would end its wait.
NoForgottenStarter ==
    \A s \in Starts : []<>(start[s] = "waiting" => Busy \/ ~Alive)

\* The documentation of stop: SIGKILL every 250ms till the process dies, so
\* that every stop call of a running daemon returns.
StopReturns ==
    \A x \in Stops : (stop[x] = "loop") ~> (stop[x] = "ok")

\* No call or goroutine makes svcd panic by closing a closed channel.
NoDoubleClose == crash # "close of closed channel"
=============================================================================
