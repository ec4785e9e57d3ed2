--------------------------- MODULE ServiceDefProofs ---------------------------
(***************************************************************************)
(* What holds of a service for every number of Start and stop calls and    *)
(* every set of health checks.  Base ties the goroutines of a run and the  *)
(* lock to the status; Own says that the runs of a daemon, and the first   *)
(* run of a task, share nothing.                                           *)
(***************************************************************************)
EXTENDS ServiceDef, TLAPS

\* The goroutines of a run exist once it has forked, and which they are
\* depends on the type of the service.
GoroutinesOf(s) ==
    /\ waiter[s] = "none" <=> ~Forked(s)
    /\ start[s] = "idle" => ~Forked(s)
    /\ watcher[s] # "none" => Daemon /\ waiter[s] \notin {"none", "capture"}
    /\ Daemon => waiter[s] \in {"none", "capture", "health", "done"}
    /\ logger[s] # "none" => Forked(s)

Goroutines == \A s \in Starts : GoroutinesOf(s)

\* A stop call that is not finished holds the lock, and it works on the
\* process and the channel of one and the same call of Start.
Current ==
    /\ Daemon /\ state # "STOPPED" => process = waitCh /\ process \in Starts
    /\ \A s \in Starts : Forked(s) => waitCh \in Starts
    /\ ~Daemon => \A s \in Starts : Forked(s) /\ waitCh = s => process = s
    /\ \A x \in Stops : stop[x] \in Signals \cup {"loop"} =>
            Daemon /\ lock = x /\ state # "STOPPED"

Base == TypeOK /\ Goroutines /\ Current

\* The goroutine that is to close the channel of run s has not done so yet.
Pending(s) ==
    \/ waiter[s] = "capture"
    \/ Daemon /\ watcher[s] \in {"wait", "close"}
    \/ ~Daemon /\ waiter[s] \in {"wait", "close"}

Closing(s) == (IF Daemon THEN watcher[s] ELSE waiter[s]) = "close"

\* The end of a run: pending, then exited and collected, then closed.
Ending(s) ==
    /\ s \in closed => Exited(s) /\ s \in collected
    /\ Pending(s) => s \notin closed
    /\ Closing(s) => Exited(s) /\ s \in collected

\* A run that has not ended is the current one; its goroutines captured it.
Owned(s) ==
    /\ Forked(s) /\ s \notin closed => process = s /\ waitCh = s
    /\ Daemon /\ state = "STOPPED" /\ Forked(s) => s \in closed
    /\ waiter[s] \notin {"none", "capture"} => cap[s] = s

\* The log goroutine waits for the channel of its own run, or for any other
\* once that one is closed.
Logged(s) ==
    /\ logger[s] = "waiting" => s \in closed \/ logCh[s] = s
    /\ logger[s] = "closed" => s \in closed

OwnRun(s) == Ending(s) /\ Owned(s) /\ Logged(s)

Own == Apart => /\ \A s \in Starts : OwnRun(s)
                /\ crash # "close of closed channel"

IInv == Base /\ Own
-----------------------------------------------------------------------------
(* Typing.                                                                *)

\* SIGKILL leaves doomed a function to truth values.
LEMMA KillTyped ==
    ASSUME TypeOK, NEW s \in Starts, Kill(s)
    PROVE  doomed' \in [Starts -> BOOLEAN]
<1>1. (doomed[s] \/ proc[s] = "running") \in BOOLEAN
  OBVIOUS
<1> DEFINE d == doomed[s] \/ proc[s] = "running"
<1>2. doomed' = [doomed EXCEPT ![s] = d]
  BY DEF Kill
<1>3. doomed \in [Starts -> BOOLEAN]
  BY DEF TypeOK
<1> HIDE DEF d
<1>4. d \in BOOLEAN
  BY <1>1 DEF d
<1> QED
  BY <1>2, <1>3, <1>4

\* What the pollers of a run may be doing.
Row == [HealthChecks -> {"none", "check", "exec", "passed", "gaveUp"}]

\* A new row for the pollers of one run keeps the type of poll.
LEMMA RowTyped ==
    ASSUME TypeOK, NEW s \in Starts, NEW row \in Row, poll' = [poll EXCEPT ![s] = row]
    PROVE  poll' \in [Starts -> Row]
<1>1. poll \in [Starts -> Row]
  BY DEF TypeOK, Row
<1> HIDE DEF Row, TypeOK
<1> QED
  BY <1>1

\* Starting the pollers of a run keeps it.
LEMMA PollersTyped ==
    ASSUME TypeOK, NEW s \in Starts, PollersStart(s)
    PROVE  poll' \in [Starts -> Row]
<1>1. [c \in HealthChecks |-> IF c \in Checks THEN "check" ELSE "none"] \in Row
  BY DEF Row
<1> QED
  BY <1>1, RowTyped DEF PollersStart

\* So does a step of a poller.
LEMMA PollTyped ==
    ASSUME TypeOK, NEW s \in Starts, NEW c \in HealthChecks,
           NEW v \in {"check", "exec", "passed", "gaveUp"},
           poll' = [poll EXCEPT ![s][c] = v]
    PROVE  poll' \in [Starts -> Row]
<1>1. poll[s] \in Row
  BY DEF TypeOK, Row
<1>2. [poll[s] EXCEPT ![c] = v] \in Row
  BY <1>1 DEF Row
<1>3. poll' = [poll EXCEPT ![s] = [poll[s] EXCEPT ![c] = v]]
  OBVIOUS
<1> QED
  BY <1>2, <1>3, RowTyped

\* Closing the wait channel of some run keeps the types of what it writes.
LEMMA ClosingTyped ==
    ASSUME TypeOK, Current, NEW s \in Starts, Forked(s), CloseWaitCh
    PROVE  /\ closed' \subseteq Starts
           /\ crash' \in {"none", "close of closed channel", "nil dereference"}
<1>1. waitCh \in Starts
  BY DEF Current
<1>2. closed \subseteq Starts /\ crash \in {"none", "close of closed channel", "nil dereference"}
  BY DEF TypeOK
<1> QED
  BY <1>1, <1>2 DEF CloseWaitCh

\* Every step of a start, of a goroutine or of a stop keeps the types.
LEMMA NextTypeOK == Base /\ [Next]_vars => TypeOK'
<1> SUFFICES ASSUME TypeOK, Goroutines, Current, [Next]_vars PROVE TypeOK'
  BY DEF Base
<1> USE StartsAssumption, TypesAssumption DEF TypeOK, States, Signals
<1> USE DEF vars, serviceVars, procVars, goroutineVars
<1>1. CASE UNCHANGED vars
  BY <1>1
<1>2. ASSUME NEW s \in Starts, StartCall(s) \/ Goroutine(s) \/ ProcExit(s) PROVE TypeOK'
  <2>1. CASE StartNoop(s)
    BY <2>1 DEF StartNoop, AfterStart
  <2>2. CASE StartLogFails(s)
    BY <2>2 DEF StartLogFails, NewWaitCh
  <2>3. CASE StartForkFails(s)
    BY <2>3 DEF StartForkFails, NewWaitCh
  <2>4. CASE StartForks(s)
    BY <2>4 DEF StartForks, NewWaitCh, Spawn, AfterStart
  <2>5. CASE WaitHealthy(s)
    BY <2>5 DEF WaitHealthy
  <2>6. CASE StoreVersion(s)
    BY <2>6 DEF StoreVersion
  <2>7. CASE LogRead(s)
    BY <2>7 DEF LogRead
  <2>8. CASE LogClose(s)
    BY <2>8 DEF LogClose
  <2>9. CASE Capture(s)
    <3>1. poll' \in [Starts -> Row]
      BY <2>9, PollersTyped DEF Capture, Row
    <3>2. /\ cap' \in [Starts -> Starts \cup {None}]
          /\ waiter' \in [Starts -> {"none", "capture", "wait", "close", "mark", "health", "done"}]
          /\ watcher' \in [Starts -> {"none", "wait", "close", "mark", "done"}]
      <4>1. cap' = [cap EXCEPT ![s] = process]
        BY <2>9 DEF Capture
      <4>2. \/ waiter' = [waiter EXCEPT ![s] = "health"] /\ watcher' = [watcher EXCEPT ![s] = "wait"]
            \/ waiter' = [waiter EXCEPT ![s] = "wait"] /\ watcher' = watcher
        BY <2>9 DEF Capture
      <4>3. cap' \in [Starts -> Starts \cup {None}]
        BY <4>1
      <4>4. waiter' \in [Starts -> {"none", "capture", "wait", "close", "mark", "health", "done"}]
        BY <4>2
      <4>5. watcher' \in [Starts -> {"none", "wait", "close", "mark", "done"}]
        BY <4>2
      <4> QED
        BY <4>3, <4>4, <4>5
    <3> QED
      BY <2>9, <3>1, <3>2 DEF Capture, Row
  <2>10. CASE DaemonExitSeen(s)
    BY <2>10 DEF DaemonExitSeen, AppendSanitizerErrors
  <2>11. CASE DaemonExitClose(s)
    <3>1. closed' \subseteq Starts /\ crash' \in {"none", "close of closed channel", "nil dereference"}
      BY <2>11, ClosingTyped DEF DaemonExitClose, Goroutines, GoroutinesOf
    <3> QED
      BY <2>11, <3>1 DEF DaemonExitClose
  <2>12. CASE DaemonExitMark(s)
    BY <2>12 DEF DaemonExitMark, MarkError
  <2>13. CASE TaskExitSeen(s)
    BY <2>13 DEF TaskExitSeen, AppendSanitizerErrors
  <2>14. CASE TaskExitClose(s)
    <3>1. poll' \in [Starts -> Row]
      BY <2>14, PollersTyped DEF TaskExitClose, Row
    <3>2. closed' \subseteq Starts /\ crash' \in {"none", "close of closed channel", "nil dereference"}
      BY <2>14, ClosingTyped DEF TaskExitClose, Goroutines, GoroutinesOf
    <3> QED
      BY <2>14, <3>1, <3>2 DEF TaskExitClose, Row
  <2>15. CASE TaskExitMark(s)
    BY <2>15 DEF TaskExitMark, MarkError
  <2>16. CASE MarkStarted(s)
    BY <2>16 DEF MarkStarted, MarkHealthy
  <2>17. CASE PcmdExit(s)
    BY <2>17 DEF PcmdExit
  <2>18. CASE ProcExit(s)
    <3>1. PICK e \in BOOLEAN : failed' = [failed EXCEPT ![s] = ~Daemon /\ e]
      BY <2>18 DEF ProcExit
    <3> DEFINE f == ~Daemon /\ e
    <3>2. f \in BOOLEAN
      OBVIOUS
    <3> HIDE DEF f
    <3>3. failed' = [failed EXCEPT ![s] = f]
      BY <3>1 DEF f
    <3>4. failed' \in [Starts -> BOOLEAN]
      BY <3>2, <3>3
    <3> QED
      BY <2>18, <3>4 DEF ProcExit
  <2> QED
    BY <1>2, <2>1, <2>2, <2>3, <2>4, <2>5, <2>6, <2>7, <2>8, <2>9, <2>10, <2>11,
       <2>12, <2>13, <2>14, <2>15, <2>16, <2>17, <2>18
       DEF StartCall, Goroutine
<1>3. ASSUME NEW s \in Starts, NEW c \in HealthChecks, Poller(s, c) PROVE TypeOK'
  <2>1. poll' \in [Starts -> Row]
    BY <1>3, PollTyped DEF Poller, PollCheck, PollPass, PollFail
  <2>2. verified' = verified \/ verified' = verified \cup {c}
    BY <1>3 DEF Poller, PollCheck, PollPass, PollFail
  <2>3. UNCHANGED <<serviceVars, procVars, start, waiter, cap, watcher, logger, logCh, recorder, stop>>
    BY <1>3 DEF Poller, PollCheck, PollPass, PollFail
  <2> QED
    BY <2>1, <2>2, <2>3 DEF Row
<1>4. ASSUME NEW x \in Stops, StopCall(x) \/ Stopping(x) PROVE TypeOK'
  <2>1. CASE StopNoop(x)
    BY <2>1 DEF StopNoop
  <2>2. CASE StopTask(x)
    BY <2>2 DEF StopTask
  <2>3. CASE StopDaemon(x)
    <3>1. crash' \in {"none", "close of closed channel", "nil dereference"}
      BY <2>3 DEF StopDaemon
    <3>2. stop' \in [Stops -> Signals \cup {"idle", "loop", "ok", "error"}]
      BY <2>3 DEF StopDaemon
    <3> QED
      BY <2>3, <3>1, <3>2 DEF StopDaemon
  <2>4. CASE StopSignal(x)
    <3>1. process \in Starts
      BY <2>4 DEF StopSignal, Current
    <3>2. doomed' \in [Starts -> BOOLEAN]
      BY <2>4, <3>1, KillTyped DEF StopSignal
    <3> QED
      BY <2>4, <3>2 DEF StopSignal
  <2>5. CASE StopSignalFails(x)
    <3>1. process \in Starts
      BY <2>5 DEF StopSignalFails, Current
    <3>2. doomed' \in [Starts -> BOOLEAN]
      BY <2>5, <3>1, KillTyped DEF StopSignalFails
    <3>3. /\ state' \in States
          /\ process' \in Starts \cup {None}
          /\ lock' = None
      BY <2>5 DEF StopSignalFails
    <3>4. \/ stop' = [stop EXCEPT ![x] = "ok"]
          \/ stop' = [stop EXCEPT ![x] = "error"]
      BY <2>5 DEF StopSignalFails
    <3>5. stop' \in [Stops -> Signals \cup {"idle", "loop", "ok", "error"}]
      BY <3>4
    <3>6. UNCHANGED <<type, waitCh, closed, version, collected, crash, proc, failed, start,
                      goroutineVars, verified>>
      BY <2>5 DEF StopSignalFails
    <3> QED
      BY <3>2, <3>3, <3>5, <3>6
  <2>6. CASE StopTick(x)
    <3>1. process \in Starts
      BY <2>6 DEF StopTick, Current
    <3>2. doomed' \in [Starts -> BOOLEAN]
      BY <2>6, <3>1, KillTyped DEF StopTick
    <3> QED
      BY <2>6, <3>2 DEF StopTick
  <2>7. CASE StopDone(x)
    BY <2>7 DEF StopDone
  <2> QED
    BY <1>4, <2>1, <2>2, <2>3, <2>4, <2>5, <2>6, <2>7 DEF StopCall, Stopping
<1> QED
  BY <1>1, <1>2, <1>3, <1>4 DEF Next, Terminating
-----------------------------------------------------------------------------
(* The goroutines, the lock and the current process.                      *)

\* Every step keeps Goroutines: no goroutine without a fork, no watcher of a
\* task, and no second set of goroutines for a run.
LEMMA NextGoroutines == Base /\ [Next]_vars => Goroutines'
<1> SUFFICES ASSUME Base, [Next]_vars, NEW t \in Starts PROVE GoroutinesOf(t)'
  BY DEF Goroutines
<1>a. /\ proc \in [Starts -> {"initial", "running", "reaped", "exited"}]
      /\ start \in [Starts -> {"idle", "waiting", "ok", "error"}]
      /\ waiter \in [Starts -> {"none", "capture", "wait", "close", "mark", "health", "done"}]
      /\ watcher \in [Starts -> {"none", "wait", "close", "mark", "done"}]
      /\ logger \in [Starts -> {"none", "read", "waiting", "closed"}]
      /\ GoroutinesOf(t)
  BY DEF Base, TypeOK, Goroutines
<1> USE <1>a DEF GoroutinesOf, Forked, Daemon
<1> USE DEF vars, serviceVars, procVars, goroutineVars
<1>1. CASE UNCHANGED vars
  BY <1>1
<1>2. ASSUME NEW s \in Starts, StartCall(s) \/ Goroutine(s) \/ ProcExit(s) PROVE GoroutinesOf(t)'
  <2>1. CASE StartNoop(s)
    BY <2>1 DEF StartNoop, AfterStart
  <2>2. CASE StartLogFails(s)
    BY <2>2 DEF StartLogFails, NewWaitCh
  <2>3. CASE StartForkFails(s)
    BY <2>3 DEF StartForkFails, NewWaitCh
  <2>4. CASE StartForks(s)
    BY <2>4 DEF StartForks, NewWaitCh, Spawn, AfterStart
  <2>5. CASE WaitHealthy(s)
    BY <2>5 DEF WaitHealthy
  <2>6. CASE StoreVersion(s)
    BY <2>6 DEF StoreVersion
  <2>7. CASE LogRead(s)
    BY <2>7 DEF LogRead
  <2>8. CASE LogClose(s)
    BY <2>8 DEF LogClose
  <2>9. CASE Capture(s)
    BY <2>9 DEF Capture
  <2>10. CASE DaemonExitSeen(s)
    BY <2>10 DEF DaemonExitSeen, AppendSanitizerErrors
  <2>11. CASE DaemonExitClose(s)
    BY <2>11 DEF DaemonExitClose, CloseWaitCh
  <2>12. CASE DaemonExitMark(s)
    BY <2>12 DEF DaemonExitMark, MarkError
  <2>13. CASE TaskExitSeen(s)
    BY <2>13 DEF TaskExitSeen, AppendSanitizerErrors
  <2>14. CASE TaskExitClose(s)
    BY <2>14 DEF TaskExitClose, CloseWaitCh
  <2>15. CASE TaskExitMark(s)
    BY <2>15 DEF TaskExitMark, MarkError
  <2>16. CASE MarkStarted(s)
    BY <2>16 DEF MarkStarted, MarkHealthy
  <2>17. CASE PcmdExit(s)
    BY <2>17 DEF PcmdExit
  <2>18. CASE ProcExit(s)
    BY <2>18 DEF ProcExit
  <2> QED
    BY <1>2, <2>1, <2>2, <2>3, <2>4, <2>5, <2>6, <2>7, <2>8, <2>9, <2>10, <2>11,
       <2>12, <2>13, <2>14, <2>15, <2>16, <2>17, <2>18 DEF StartCall, Goroutine
<1>3. ASSUME NEW s \in Starts, NEW c \in HealthChecks, Poller(s, c) PROVE GoroutinesOf(t)'
  <2>1. CASE PollCheck(s, c)
    BY <2>1 DEF PollCheck
  <2>2. CASE PollPass(s, c)
    BY <2>2 DEF PollPass
  <2>3. CASE PollFail(s, c)
    BY <2>3 DEF PollFail
  <2> QED
    BY <1>3, <2>1, <2>2, <2>3 DEF Poller
<1>4. ASSUME NEW x \in Stops, StopCall(x) \/ Stopping(x) PROVE GoroutinesOf(t)'
  <2>1. CASE StopNoop(x)
    BY <2>1 DEF StopNoop
  <2>2. CASE StopTask(x)
    BY <2>2 DEF StopTask
  <2>3. CASE StopDaemon(x)
    BY <2>3 DEF StopDaemon
  <2>4. CASE StopSignal(x)
    BY <2>4 DEF StopSignal
  <2>5. CASE StopSignalFails(x)
    BY <2>5 DEF StopSignalFails, ExitedCh
  <2>6. CASE StopTick(x)
    BY <2>6 DEF StopTick
  <2>7. CASE StopDone(x)
    BY <2>7 DEF StopDone
  <2> QED
    BY <1>4, <2>1, <2>2, <2>3, <2>4, <2>5, <2>6, <2>7 DEF StopCall, Stopping
<1> QED
  BY <1>1, <1>2, <1>3, <1>4 DEF Next, Terminating

\* Every step keeps Current.
LEMMA NextCurrent == Base /\ [Next]_vars => Current'
<1> SUFFICES ASSUME Base, [Next]_vars PROVE Current'
  OBVIOUS
<1>a. /\ proc \in [Starts -> {"initial", "running", "reaped", "exited"}]
      /\ process \in Starts \cup {None}
      /\ waitCh \in Starts \cup {None}
      /\ stop \in [Stops -> Signals \cup {"idle", "loop", "ok", "error"}]
      /\ Current
      /\ \A s \in Starts : start[s] = "idle" => ~Forked(s)
  BY DEF Base, TypeOK, Goroutines, GoroutinesOf
<1> USE <1>a, StartsAssumption DEF Current, Forked, Daemon, Signals
<1> USE DEF vars, serviceVars, procVars, goroutineVars
<1>1. CASE UNCHANGED vars
  BY <1>1
<1>2. ASSUME NEW s \in Starts, StartCall(s) \/ Goroutine(s) \/ ProcExit(s) PROVE Current'
  <2>1. CASE StartNoop(s)
    BY <2>1 DEF StartNoop, AfterStart, LockFree
  <2>2. CASE StartLogFails(s)
    BY <2>2 DEF StartLogFails, NewWaitCh, CanStart, LockFree
  <2>3. CASE StartForkFails(s)
    BY <2>3 DEF StartForkFails, NewWaitCh, LockFree
  <2>4. CASE StartForks(s)
    BY <2>4 DEF StartForks, NewWaitCh, Spawn, AfterStart, LockFree
  <2>5. CASE WaitHealthy(s)
    BY <2>5 DEF WaitHealthy
  <2>6. CASE StoreVersion(s)
    BY <2>6 DEF StoreVersion
  <2>7. CASE LogRead(s)
    BY <2>7 DEF LogRead
  <2>8. CASE LogClose(s)
    BY <2>8 DEF LogClose
  <2>9. CASE Capture(s)
    BY <2>9 DEF Capture, LockFree
  <2>10. CASE DaemonExitSeen(s)
    BY <2>10 DEF DaemonExitSeen, AppendSanitizerErrors
  <2>11. CASE DaemonExitClose(s)
    BY <2>11 DEF DaemonExitClose, CloseWaitCh
  <2>12. CASE DaemonExitMark(s)
    BY <2>12 DEF DaemonExitMark, MarkError, LockFree
  <2>13. CASE TaskExitSeen(s)
    BY <2>13 DEF TaskExitSeen, AppendSanitizerErrors
  <2>14. CASE TaskExitClose(s)
    BY <2>14 DEF TaskExitClose, CloseWaitCh
  <2>15. CASE TaskExitMark(s)
    BY <2>15 DEF TaskExitMark, MarkError, LockFree
  <2>16. CASE MarkStarted(s)
    BY <2>16 DEF MarkStarted, MarkHealthy, LockFree
  <2>17. CASE PcmdExit(s)
    BY <2>17 DEF PcmdExit
  <2>18. CASE ProcExit(s)
    BY <2>18 DEF ProcExit
  <2> QED
    BY <1>2, <2>1, <2>2, <2>3, <2>4, <2>5, <2>6, <2>7, <2>8, <2>9, <2>10, <2>11,
       <2>12, <2>13, <2>14, <2>15, <2>16, <2>17, <2>18 DEF StartCall, Goroutine
<1>3. ASSUME NEW s \in Starts, NEW c \in HealthChecks, Poller(s, c) PROVE Current'
  <2>1. CASE PollCheck(s, c)
    BY <2>1 DEF PollCheck
  <2>2. CASE PollPass(s, c)
    BY <2>2 DEF PollPass
  <2>3. CASE PollFail(s, c)
    BY <2>3 DEF PollFail
  <2> QED
    BY <1>3, <2>1, <2>2, <2>3 DEF Poller
<1>4. ASSUME NEW x \in Stops, StopCall(x) \/ Stopping(x) PROVE Current'
  <2>1. CASE StopNoop(x)
    BY <2>1 DEF StopNoop, LockFree
  <2>2. CASE StopTask(x)
    BY <2>2 DEF StopTask, LockFree
  <2>3. CASE StopDaemon(x)
    BY <2>3 DEF StopDaemon, LockFree
  <2>4. CASE StopSignal(x)
    BY <2>4 DEF StopSignal
  <2>5. CASE StopSignalFails(x)
    BY <2>5 DEF StopSignalFails, ExitedCh
  <2>6. CASE StopTick(x)
    BY <2>6 DEF StopTick
  <2>7. CASE StopDone(x)
    BY <2>7 DEF StopDone
  <2> QED
    BY <1>4, <2>1, <2>2, <2>3, <2>4, <2>5, <2>6, <2>7 DEF StopCall, Stopping
<1> QED
  BY <1>1, <1>2, <1>3, <1>4 DEF Next, Terminating

-----------------------------------------------------------------------------
(* The ends of the runs and who owns what.                                *)

\* A task whose first run is over never gets back to it: once a second call
\* of Start made a channel beside a forked run, Apart stays false.
LEMMA ApartBefore == Base /\ [Next]_vars /\ Apart' => Apart
<1> SUFFICES ASSUME Base, [Next]_vars, Apart', NEW t \in Starts, Forked(t), ~Daemon
             PROVE  waitCh = t
  BY DEF Apart, FirstRun
<1>a. /\ proc \in [Starts -> {"initial", "running", "reaped", "exited"}]
      /\ \A s \in Starts : start[s] = "idle" => ~Forked(s)
      /\ Forked(t)' => (~Daemon' => waitCh' = t)
  BY DEF Base, TypeOK, Goroutines, GoroutinesOf, Apart, FirstRun
<1> USE <1>a DEF Forked, Daemon
<1> USE DEF vars, serviceVars, procVars, goroutineVars
<1>1. CASE UNCHANGED vars
  BY <1>1
<1>2. ASSUME NEW s \in Starts, StartCall(s) \/ Goroutine(s) \/ ProcExit(s) PROVE waitCh = t
  <2>1. CASE StartNoop(s)
    BY <2>1 DEF StartNoop, AfterStart
  <2>2. CASE StartLogFails(s)
    BY <2>2 DEF StartLogFails, NewWaitCh
  <2>3. CASE StartForkFails(s)
    BY <2>3 DEF StartForkFails, NewWaitCh
  <2>4. CASE StartForks(s)
    BY <2>4 DEF StartForks, NewWaitCh, Spawn, AfterStart
  <2>5. CASE WaitHealthy(s)
    BY <2>5 DEF WaitHealthy
  <2>6. CASE StoreVersion(s)
    BY <2>6 DEF StoreVersion
  <2>7. CASE LogRead(s)
    BY <2>7 DEF LogRead
  <2>8. CASE LogClose(s)
    BY <2>8 DEF LogClose
  <2>9. CASE Capture(s)
    BY <2>9 DEF Capture
  <2>10. CASE DaemonExitSeen(s)
    BY <2>10 DEF DaemonExitSeen, AppendSanitizerErrors
  <2>11. CASE DaemonExitClose(s)
    BY <2>11 DEF DaemonExitClose, CloseWaitCh
  <2>12. CASE DaemonExitMark(s)
    BY <2>12 DEF DaemonExitMark, MarkError
  <2>13. CASE TaskExitSeen(s)
    BY <2>13 DEF TaskExitSeen, AppendSanitizerErrors
  <2>14. CASE TaskExitClose(s)
    BY <2>14 DEF TaskExitClose, CloseWaitCh
  <2>15. CASE TaskExitMark(s)
    BY <2>15 DEF TaskExitMark, MarkError
  <2>16. CASE MarkStarted(s)
    BY <2>16 DEF MarkStarted, MarkHealthy
  <2>17. CASE PcmdExit(s)
    BY <2>17 DEF PcmdExit
  <2>18. CASE ProcExit(s)
    BY <2>18 DEF ProcExit
  <2> QED
    BY <1>2, <2>1, <2>2, <2>3, <2>4, <2>5, <2>6, <2>7, <2>8, <2>9, <2>10, <2>11,
       <2>12, <2>13, <2>14, <2>15, <2>16, <2>17, <2>18 DEF StartCall, Goroutine
<1>3. ASSUME NEW s \in Starts, NEW c \in HealthChecks, Poller(s, c) PROVE waitCh = t
  <2>1. CASE PollCheck(s, c)
    BY <2>1 DEF PollCheck
  <2>2. CASE PollPass(s, c)
    BY <2>2 DEF PollPass
  <2>3. CASE PollFail(s, c)
    BY <2>3 DEF PollFail
  <2> QED
    BY <1>3, <2>1, <2>2, <2>3 DEF Poller
<1>4. ASSUME NEW x \in Stops, StopCall(x) \/ Stopping(x) PROVE waitCh = t
  <2>1. CASE StopNoop(x)
    BY <2>1 DEF StopNoop
  <2>2. CASE StopTask(x)
    BY <2>2 DEF StopTask
  <2>3. CASE StopDaemon(x)
    BY <2>3 DEF StopDaemon
  <2>4. CASE StopSignal(x)
    BY <2>4 DEF StopSignal
  <2>5. CASE StopSignalFails(x)
    BY <2>5 DEF StopSignalFails, ExitedCh
  <2>6. CASE StopTick(x)
    BY <2>6 DEF StopTick
  <2>7. CASE StopDone(x)
    BY <2>7 DEF StopDone
  <2> QED
    BY <1>4, <2>1, <2>2, <2>3, <2>4, <2>5, <2>6, <2>7 DEF StopCall, Stopping
<1> QED
  BY <1>1, <1>2, <1>3, <1>4 DEF Next, Terminating

\* Every step keeps Own.
LEMMA NextOwn == IInv /\ [Next]_vars => Own'
<1> SUFFICES ASSUME Base, Own, [Next]_vars, Apart'
             PROVE  /\ \A t \in Starts : OwnRun(t)'
                    /\ crash' # "close of closed channel"
  BY DEF IInv, Own
<1>z. Apart
  BY ApartBefore
<1>y. ASSUME NEW s \in Starts, Closing(s), CloseWaitCh
      PROVE  /\ Pending(s) /\ s \notin closed /\ Exited(s) /\ s \in collected
             /\ waitCh = s /\ closed' = closed \cup {s} /\ crash' = crash
  <2>1. Pending(s) /\ s \notin closed /\ Exited(s) /\ s \in collected
    BY <1>y, <1>z DEF Closing, Pending, Own, OwnRun, Ending
  <2>2. waitCh = s
    BY <2>1, <1>z DEF Own, OwnRun, Owned, Forked, Exited
  <2> QED
    BY <1>y, <2>1, <2>2 DEF CloseWaitCh, ExitedCh
<1>x. crash' # "close of closed channel"
  <2>1. CASE \E s \in Starts : DaemonExitClose(s) \/ TaskExitClose(s)
    <3>1. PICK s \in Starts : DaemonExitClose(s) \/ TaskExitClose(s)
      BY <2>1
    <3>2. Closing(s) /\ CloseWaitCh
      BY <3>1 DEF DaemonExitClose, TaskExitClose, Closing, Base, Goroutines,
         GoroutinesOf
    <3> QED
      BY <3>2, <1>y, <1>z DEF Own
  <2>2. CASE ~\E s \in Starts : DaemonExitClose(s) \/ TaskExitClose(s)
    <3>1. crash' \in {crash, "nil dereference"}
      BY <2>2 DEF Next, StartCall, Goroutine, Poller, StopCall, Stopping, Terminating,
         StartNoop, StartLogFails, StartForkFails, StartForks, WaitHealthy, StoreVersion,
         LogRead, LogClose, Capture, DaemonExitSeen, DaemonExitMark, TaskExitSeen,
         TaskExitMark, MarkStarted, PcmdExit, ProcExit, PollCheck, PollPass, PollFail,
         StopNoop, StopTask, StopDaemon, StopSignal, StopSignalFails, StopTick, StopDone,
         vars, serviceVars
    <3> QED
      BY <3>1, <1>z DEF Own
  <2> QED
    BY <2>1, <2>2
<1> SUFFICES ASSUME NEW t \in Starts PROVE OwnRun(t)'
  BY <1>x
<1>a. /\ proc \in [Starts -> {"initial", "running", "reaped", "exited"}]
      /\ waiter \in [Starts -> {"none", "capture", "wait", "close", "mark", "health", "done"}]
      /\ cap \in [Starts -> Starts \cup {None}]
      /\ watcher \in [Starts -> {"none", "wait", "close", "mark", "done"}]
      /\ logger \in [Starts -> {"none", "read", "waiting", "closed"}]
      /\ logCh \in [Starts -> Starts \cup {None}]
  BY DEF Base, TypeOK
<1>b. OwnRun(t) /\ GoroutinesOf(t)
  BY <1>z DEF Own, Base, Goroutines
<1>c. \A s \in Starts : start[s] = "idle" => ~Forked(s)
  BY DEF Base, Goroutines, GoroutinesOf
<1>d. \A s \in Starts : Forked(s) /\ s \notin closed => process = s /\ waitCh = s
  BY <1>z DEF Own, OwnRun, Owned
<1>e. \A s \in Starts : OwnRun(s) /\ GoroutinesOf(s)
  BY <1>z DEF Own, Base, Goroutines
<1>f. ~Daemon' => (Forked(t)' => waitCh' = t)
  BY DEF Apart, FirstRun
<1>g. \A x \in Stops : stop[x] \in Signals \cup {"loop"} => Daemon
  BY DEF Base, Current
<1> USE <1>a, <1>b, StartsAssumption
        DEF OwnRun, Ending, Owned, Logged, Pending, Closing, GoroutinesOf, Forked, Exited, Daemon
<1> USE DEF vars, serviceVars, procVars, goroutineVars
<1>1. CASE UNCHANGED vars
  BY <1>1
<1>2. ASSUME NEW s \in Starts, StartCall(s) \/ Goroutine(s) \/ ProcExit(s) PROVE OwnRun(t)'
  <2>1. CASE StartNoop(s)
    BY <2>1 DEF StartNoop, AfterStart
  <2>2. CASE StartLogFails(s)
    BY <2>2, <1>c, <1>f DEF StartLogFails, NewWaitCh, CanStart
  <2>3. CASE StartForkFails(s)
    BY <2>3, <1>c, <1>f DEF StartForkFails, NewWaitCh, CanStart
  <2>4. CASE StartForks(s)
    <3>1. ~Forked(s) /\ s \notin closed
      BY <2>4, <1>c, <1>e DEF StartForks
    <3>2. CASE t = s
      BY <2>4, <3>1, <3>2 DEF StartForks, NewWaitCh, Spawn, CanStart
    <3>3. CASE t # s
      BY <2>4, <3>3, <1>f DEF StartForks, NewWaitCh, CanStart
    <3> QED
      BY <3>2, <3>3
  <2>5. CASE WaitHealthy(s)
    BY <2>5 DEF WaitHealthy
  <2>6. CASE StoreVersion(s)
    BY <2>6 DEF StoreVersion
  <2>7. CASE LogRead(s)
    <3>1. s \notin closed => waitCh = s
      BY <2>7, <1>d, <1>e DEF LogRead
    <3> QED
      BY <2>7, <3>1 DEF LogRead
  <2>8. CASE LogClose(s)
    BY <2>8 DEF LogClose
  <2>9. CASE Capture(s)
    <3>1. process = s
      BY <2>9, <1>d, <1>e DEF Capture
    <3> QED
      BY <2>9, <3>1 DEF Capture
  <2>10. CASE DaemonExitSeen(s)
    <3>1. process = s /\ Exited(s)
      BY <2>10, <1>d, <1>e DEF DaemonExitSeen, WaitDone
    <3> QED
      BY <2>10, <3>1 DEF DaemonExitSeen, AppendSanitizerErrors
  <2>11. CASE DaemonExitClose(s)
    <3>1. Closing(s) /\ CloseWaitCh
      BY <2>11, <1>e DEF DaemonExitClose
    <3>2. Exited(s) /\ s \in collected /\ closed' = closed \cup {s}
      BY <3>1, <1>y
    <3> QED
      BY <2>11, <3>2 DEF DaemonExitClose
  <2>12. CASE DaemonExitMark(s)
    BY <2>12 DEF DaemonExitMark, MarkError
  <2>13. CASE TaskExitSeen(s)
    <3>1. process = s /\ Exited(s)
      BY <2>13, <1>d, <1>e DEF TaskExitSeen, WaitDone
    <3> QED
      BY <2>13, <3>1 DEF TaskExitSeen, AppendSanitizerErrors
  <2>14. CASE TaskExitClose(s)
    <3>1. Closing(s) /\ CloseWaitCh
      BY <2>14, <1>e DEF TaskExitClose
    <3>2. Exited(s) /\ s \in collected /\ closed' = closed \cup {s}
      BY <3>1, <1>y
    <3> QED
      BY <2>14, <3>2 DEF TaskExitClose
  <2>15. CASE TaskExitMark(s)
    BY <2>15 DEF TaskExitMark, MarkError
  <2>16. CASE MarkStarted(s)
    BY <2>16 DEF MarkStarted, MarkHealthy
  <2>17. CASE PcmdExit(s)
    BY <2>17 DEF PcmdExit
  <2>18. CASE ProcExit(s)
    BY <2>18 DEF ProcExit
  <2> QED
    BY <1>2, <2>1, <2>2, <2>3, <2>4, <2>5, <2>6, <2>7, <2>8, <2>9, <2>10, <2>11,
       <2>12, <2>13, <2>14, <2>15, <2>16, <2>17, <2>18 DEF StartCall, Goroutine
<1>3. ASSUME NEW s \in Starts, NEW c \in HealthChecks, Poller(s, c) PROVE OwnRun(t)'
  <2>1. CASE PollCheck(s, c)
    BY <2>1 DEF PollCheck
  <2>2. CASE PollPass(s, c)
    BY <2>2 DEF PollPass
  <2>3. CASE PollFail(s, c)
    BY <2>3 DEF PollFail
  <2> QED
    BY <1>3, <2>1, <2>2, <2>3 DEF Poller
<1>4. ASSUME NEW x \in Stops, StopCall(x) \/ Stopping(x) PROVE OwnRun(t)'
  <2>1. CASE StopNoop(x)
    BY <2>1 DEF StopNoop
  <2>2. CASE StopTask(x)
    BY <2>2 DEF StopTask
  <2>3. CASE StopDaemon(x)
    BY <2>3 DEF StopDaemon
  <2>4. CASE StopSignal(x)
    BY <2>4 DEF StopSignal
  <2>5. CASE StopSignalFails(x)
    BY <2>5, <1>d DEF StopSignalFails, ExitedCh
  <2>6. CASE StopTick(x)
    BY <2>6 DEF StopTick
  <2>7. CASE StopDone(x)
    BY <2>7, <1>d DEF StopDone, ExitedCh
  <2> QED
    BY <1>4, <2>1, <2>2, <2>3, <2>4, <2>5, <2>6, <2>7 DEF StopCall, Stopping
<1> QED
  BY <1>1, <1>2, <1>3, <1>4 DEF Next, Terminating

-----------------------------------------------------------------------------
(* The theorems.                                                          *)

\* A service that was never started satisfies the invariant.
LEMMA InitIInv == Init => IInv
<1> SUFFICES ASSUME Init PROVE IInv
  OBVIOUS
<1> USE StartsAssumption, TypesAssumption DEF Init
<1>1. TypeOK
  <2>1. poll \in [Starts -> Row]
    BY DEF Row
  <2> QED
    BY <2>1 DEF TypeOK, States, Signals, Row
<1>2. Goroutines
  BY DEF Goroutines, GoroutinesOf, Forked
<1>3. Current
  BY DEF Current, Forked, Signals
<1>4. ASSUME NEW s \in Starts PROVE OwnRun(s)
  BY DEF OwnRun, Ending, Owned, Logged, Pending, Closing, Forked, Exited
<1> QED
  BY <1>1, <1>2, <1>3, <1>4 DEF IInv, Base, Own

\* The inductive invariant holds of every behaviour.
THEOREM Inductive == Spec => []IInv
<1>1. IInv /\ [Next]_vars => IInv'
  BY NextTypeOK, NextGoroutines, NextCurrent, NextOwn DEF IInv, Base
<1> QED
  BY InitIInv, <1>1, PTL DEF Spec

\* Type correctness: in particular the status is one of the five that
\* startTask, stopTask and svcctl know, and waitCh is never closed while nil.
THEOREM Typing == Spec => []TypeOK
<1>1. IInv => TypeOK
  BY DEF IInv, Base
<1> QED
  BY <1>1, Inductive, PTL

\* However many calls of Start and stop there are, a daemon has at most one
\* launcher process, and none once it is STOPPED.
THEOREM NeverTwoProcesses == Spec => []OneProcess
<1>1. IInv => OneProcess
  <2> SUFFICES ASSUME IInv, Daemon PROVE OneProcess
    BY DEF OneProcess
  <2>1. ASSUME NEW s \in Starts PROVE Ending(s) /\ Owned(s)
    BY DEF IInv, Own, Apart, OwnRun
  <2> QED
    BY <2>1 DEF OneProcess, Ending, Owned, Forked, Exited
<1> QED
  BY <1>1, Inductive, PTL

\* exited() is never true of a launcher that the Pcmd still holds.
THEOREM ClosedAfterExit == Spec => []WaitChClosedOnExit
<1>1. IInv => WaitChClosedOnExit
  BY DEF IInv, Base, TypeOK, Own, OwnRun, Ending, WaitChClosedOnExit
<1> QED
  BY <1>1, Inductive, PTL

\* The goroutines of a run work on their own process and channel, and no
\* channel of a daemon is closed twice.
THEOREM NeverMixedUp == Spec => []RunsKeepApart
<1>1. IInv => RunsKeepApart
  BY DEF IInv, Own, OwnRun, Owned, RunsKeepApart
<1> QED
  BY <1>1, Inductive, PTL

\* No restart loses the sanitizer reports of the process before it.
THEOREM NoReportLost == Spec => []ReportsCollected
<1>1. IInv => ReportsCollected
  BY DEF IInv, Base, TypeOK, Own, OwnRun, Ending, ReportsCollected
<1> QED
  BY <1>1, Inductive, PTL

\* The log file is closed after the process that writes to it has exited.
THEOREM LogOutlivesProcess == Spec => []LogOpenWhileRunning
<1>1. IInv => LogOpenWhileRunning
  BY DEF IInv, Own, OwnRun, Ending, Logged, LogOpenWhileRunning
<1> QED
  BY <1>1, Inductive, PTL

\* The status follows the life cycle at every step.
THEOREM FollowsLifeCycle == Spec => LifeCycle
<1>1. ASSUME TypeOK, [Next]_vars
      PROVE  [Life!Next]_state
  <2> USE DEF Life!Next
  <2>1. CASE UNCHANGED state
    BY <2>1
  <2>2. ASSUME NEW s \in Starts, StartForkFails(s) \/ StartForks(s)
        PROVE  Life!Next
    BY <2>2 DEF StartForkFails, StartForks, CanStart, Life!Start, Life!StartFails
  <2>3. CASE MarkHealthy
    BY <2>3 DEF MarkHealthy, Life!BecomeHealthy
  <2>4. CASE MarkError
    BY <2>4 DEF MarkError, Life!Die
  <2>5. ASSUME NEW x \in Stops,
               StopTask(x) \/ StopDaemon(x) \/ StopSignalFails(x) \/ StopDone(x)
        PROVE  [Life!Next]_state
    BY <2>5 DEF StopTask, StopDaemon, StopSignalFails, StopDone, Life!BeginStop, Life!EndStop
  <2> SUFFICES ASSUME Next, state' # state,
                      ~\E s \in Starts : StartForkFails(s) \/ StartForks(s),
                      ~(MarkError \/ MarkHealthy)
               PROVE  \E x \in Stops : \/ StopTask(x) \/ StopDaemon(x)
                                       \/ StopSignalFails(x) \/ StopDone(x)
    BY <1>1, <2>1, <2>2, <2>3, <2>4, <2>5 DEF vars, serviceVars
  <2> QED
    BY DEF Next, StartCall, Goroutine, Poller, StopCall, Stopping, Terminating,
         StartNoop, StartLogFails, WaitHealthy, StoreVersion, LogRead, LogClose, Capture,
         DaemonExitSeen, DaemonExitClose, DaemonExitMark, TaskExitSeen, TaskExitClose,
         TaskExitMark, MarkStarted, PcmdExit, ProcExit, PollCheck, PollPass, PollFail,
         StopNoop, StopSignal, StopTick, vars, serviceVars
<1>2. Init => Life!Init
  BY DEF Init, Life!Init
<1> QED
  BY <1>1, <1>2, Typing, PTL DEF Spec, LifeCycle, Life!Spec

-----------------------------------------------------------------------------
(* The first run of a service.                                            *)

\* The pollers and the recorder of a run come with its fork, and only the
\* checks that count are polled.
PolledOf(s) ==
    /\ ~Forked(s) => \A c \in HealthChecks : poll[s][c] = "none"
    /\ \A c \in HealthChecks : poll[s][c] # "none" => c \in Checks
    /\ recorder[s] # "none" => Forked(s)

Polled ==
    /\ verified \subseteq Checks
    /\ \A s \in Starts : PolledOf(s)
    /\ ~Daemon /\ state # "STOPPED" => process \in Starts

\* What the status says of the only run t there has been.
FirstOf(t) ==
    /\ \A c \in HealthChecks : poll[t][c] = "passed" => c \in verified
    /\ state = "STARTED" => \A c \in Checks : poll[t][c] = "passed"
    /\ waiter[t] \in {"capture", "wait", "close"} => state # "STARTED"
    /\ ~Daemon /\ (waiter[t] = "health" \/ state = "STARTED") => Exited(t) /\ ~failed[t]
    /\ watcher[t] = "mark" \/ waiter[t] = "mark" \/ state = "ERROR" => Exited(t)
    /\ recorder[t] = "done" => state # "STARTING"
    /\ recorder[t] = "done" /\ state = "STARTED" => version = t

First ==
    FirstRun =>
        /\ \A t \in Starts : Forked(t) => FirstOf(t)
        /\ state \in {"STARTING", "STARTED"} => \E t \in Starts : Forked(t)

FInv == IInv /\ Polled /\ First

\* What starting the pollers of a run does to the positions of all pollers.
LEMMA PollersStarted ==
    ASSUME TypeOK, NEW s \in Starts, PollersStart(s)
    PROVE  \A t \in Starts : \A c \in HealthChecks :
            poll'[t][c] = IF t # s THEN poll[t][c] ELSE IF c \in Checks THEN "check" ELSE "none"
  BY DEF TypeOK, PollersStart

\* Once a second call of Start has got past the STOPPED test it stays so.
LEMMA FirstRunBefore == Base /\ [Next]_vars /\ FirstRun' => FirstRun
<1> SUFFICES ASSUME Base, [Next]_vars, FirstRun', NEW t \in Starts, Forked(t)
             PROVE  waitCh = t
  BY DEF FirstRun
<1>a. /\ proc \in [Starts -> {"initial", "running", "reaped", "exited"}]
      /\ \A s \in Starts : start[s] = "idle" => ~Forked(s)
      /\ Forked(t)' => waitCh' = t
  BY DEF Base, TypeOK, Goroutines, GoroutinesOf, FirstRun
<1> USE <1>a DEF Forked
<1> USE DEF vars, serviceVars, procVars, goroutineVars
<1>1. CASE UNCHANGED vars
  BY <1>1
<1>2. ASSUME NEW s \in Starts, StartCall(s) \/ Goroutine(s) \/ ProcExit(s) PROVE waitCh = t
  <2>1. CASE StartNoop(s)
    BY <2>1 DEF StartNoop, AfterStart
  <2>2. CASE StartLogFails(s)
    BY <2>2 DEF StartLogFails, NewWaitCh, CanStart
  <2>3. CASE StartForkFails(s)
    BY <2>3 DEF StartForkFails, NewWaitCh, CanStart
  <2>4. CASE StartForks(s)
    BY <2>4 DEF StartForks, NewWaitCh, Spawn, AfterStart, CanStart
  <2>5. CASE WaitHealthy(s)
    BY <2>5 DEF WaitHealthy
  <2>6. CASE StoreVersion(s)
    BY <2>6 DEF StoreVersion, Settled
  <2>7. CASE LogRead(s)
    BY <2>7 DEF LogRead
  <2>8. CASE LogClose(s)
    BY <2>8 DEF LogClose
  <2>9. CASE Capture(s)
    BY <2>9 DEF Capture, PollersStart
  <2>10. CASE DaemonExitSeen(s)
    BY <2>10 DEF DaemonExitSeen, AppendSanitizerErrors
  <2>11. CASE DaemonExitClose(s)
    BY <2>11 DEF DaemonExitClose, CloseWaitCh
  <2>12. CASE DaemonExitMark(s)
    BY <2>12 DEF DaemonExitMark, MarkError
  <2>13. CASE TaskExitSeen(s)
    BY <2>13 DEF TaskExitSeen, AppendSanitizerErrors
  <2>14. CASE TaskExitClose(s)
    BY <2>14 DEF TaskExitClose, CloseWaitCh, PollersStart, TaskFailed
  <2>15. CASE TaskExitMark(s)
    BY <2>15 DEF TaskExitMark, MarkError
  <2>16. CASE MarkStarted(s)
    BY <2>16 DEF MarkStarted, MarkHealthy, HealthChecksPassed
  <2>17. CASE PcmdExit(s)
    BY <2>17 DEF PcmdExit
  <2>18. CASE ProcExit(s)
    BY <2>18 DEF ProcExit
  <2> QED
    BY <1>2, <2>1, <2>2, <2>3, <2>4, <2>5, <2>6, <2>7, <2>8, <2>9, <2>10, <2>11, <2>12, <2>13, <2>14, <2>15, <2>16, <2>17, <2>18 DEF StartCall, Goroutine
<1>3. ASSUME NEW s \in Starts, NEW c \in HealthChecks, Poller(s, c) PROVE waitCh = t
  <2>1. CASE PollCheck(s, c)
    BY <2>1 DEF PollCheck
  <2>2. CASE PollPass(s, c)
    BY <2>2 DEF PollPass
  <2>3. CASE PollFail(s, c)
    BY <2>3 DEF PollFail
  <2> QED
    BY <1>3, <2>1, <2>2, <2>3 DEF Poller
<1>4. ASSUME NEW x \in Stops, StopCall(x) \/ Stopping(x) PROVE waitCh = t
  <2>1. CASE StopNoop(x)
    BY <2>1 DEF StopNoop
  <2>2. CASE StopTask(x)
    BY <2>2 DEF StopTask
  <2>3. CASE StopDaemon(x)
    BY <2>3 DEF StopDaemon
  <2>4. CASE StopSignal(x)
    BY <2>4 DEF StopSignal
  <2>5. CASE StopSignalFails(x)
    BY <2>5 DEF StopSignalFails, ExitedCh
  <2>6. CASE StopTick(x)
    BY <2>6 DEF StopTick
  <2>7. CASE StopDone(x)
    BY <2>7 DEF StopDone, ExitedCh
  <2> QED
    BY <1>4, <2>1, <2>2, <2>3, <2>4, <2>5, <2>6, <2>7 DEF StopCall, Stopping
<1> QED
  BY <1>1, <1>2, <1>3, <1>4 DEF Next, Terminating

LEMMA NextPolled == Base /\ Polled /\ [Next]_vars => Polled'
<1> SUFFICES ASSUME Base, Polled, [Next]_vars PROVE Polled'
  OBVIOUS
<1>0. TypeOK /\ Goroutines
  BY DEF Base
<1>a. /\ proc \in [Starts -> {"initial", "running", "reaped", "exited"}]
      /\ recorder \in [Starts -> {"none", "waiting", "done"}]
      /\ \A s \in Starts : waiter[s] = "none" <=> ~Forked(s)
      /\ \A x \in Stops : stop[x] \in Signals \cup {"loop"} => Daemon
  BY <1>0 DEF TypeOK, Goroutines, GoroutinesOf, Base, Current
<1>p. poll \in [Starts -> [HealthChecks -> {"none", "check", "exec", "passed", "gaveUp"}]]
  BY <1>0 DEF TypeOK
<1> USE <1>0, <1>a DEF Polled, PolledOf, Forked, Checks, Daemon
<1> USE DEF vars, serviceVars, procVars, goroutineVars
<1>1. CASE UNCHANGED vars
  BY <1>1
<1>2. ASSUME NEW s \in Starts, StartCall(s) \/ Goroutine(s) \/ ProcExit(s) PROVE Polled'
  <2>1. CASE StartNoop(s)
    BY <2>1 DEF StartNoop, AfterStart
  <2>2. CASE StartLogFails(s)
    BY <2>2 DEF StartLogFails, NewWaitCh, CanStart
  <2>3. CASE StartForkFails(s)
    BY <2>3 DEF StartForkFails, NewWaitCh, CanStart
  <2>4. CASE StartForks(s)
    BY <2>4 DEF StartForks, NewWaitCh, Spawn, AfterStart, CanStart
  <2>5. CASE WaitHealthy(s)
    BY <2>5 DEF WaitHealthy
  <2>6. CASE StoreVersion(s)
    BY <2>6 DEF StoreVersion, Settled
  <2>7. CASE LogRead(s)
    BY <2>7 DEF LogRead
  <2>8. CASE LogClose(s)
    BY <2>8 DEF LogClose
  <2>9. CASE Capture(s)
    <3>1. \/ poll' = poll
          \/ \A q \in Starts : \A e \in HealthChecks :
            poll'[q][e] = IF q # s THEN poll[q][e] ELSE IF e \in Checks THEN "check" ELSE "none"
      BY <2>9, <1>0, PollersStarted DEF Capture
    <3>2. Forked(s) /\ UNCHANGED <<type, state, process, proc, recorder, verified>>
      BY <2>9 DEF Capture, PollersStart
    <3> QED
      BY <3>1, <3>2
  <2>10. CASE DaemonExitSeen(s)
    BY <2>10 DEF DaemonExitSeen, AppendSanitizerErrors
  <2>11. CASE DaemonExitClose(s)
    BY <2>11 DEF DaemonExitClose, CloseWaitCh
  <2>12. CASE DaemonExitMark(s)
    BY <2>12 DEF DaemonExitMark, MarkError
  <2>13. CASE TaskExitSeen(s)
    BY <2>13 DEF TaskExitSeen, AppendSanitizerErrors
  <2>14. CASE TaskExitClose(s)
    <3>1. \/ poll' = poll
          \/ \A q \in Starts : \A e \in HealthChecks :
            poll'[q][e] = IF q # s THEN poll[q][e] ELSE IF e \in Checks THEN "check" ELSE "none"
      BY <2>14, <1>0, PollersStarted DEF TaskExitClose
    <3>2. Forked(s) /\ UNCHANGED <<type, state, process, proc, recorder, verified>>
      BY <2>14 DEF TaskExitClose, CloseWaitCh, PollersStart, TaskFailed
    <3> QED
      BY <3>1, <3>2
  <2>15. CASE TaskExitMark(s)
    BY <2>15 DEF TaskExitMark, MarkError
  <2>16. CASE MarkStarted(s)
    BY <2>16 DEF MarkStarted, MarkHealthy, HealthChecksPassed
  <2>17. CASE PcmdExit(s)
    BY <2>17 DEF PcmdExit
  <2>18. CASE ProcExit(s)
    BY <2>18 DEF ProcExit
  <2> QED
    BY <1>2, <2>1, <2>2, <2>3, <2>4, <2>5, <2>6, <2>7, <2>8, <2>9, <2>10, <2>11, <2>12, <2>13, <2>14, <2>15, <2>16, <2>17, <2>18 DEF StartCall, Goroutine
<1>3. ASSUME NEW s \in Starts, NEW c \in HealthChecks, Poller(s, c) PROVE Polled'
  <2>1. CASE PollCheck(s, c)
    <3>1. PICK v \in {"exec", "gaveUp"} : poll' = [poll EXCEPT ![s][c] = v]
      BY <2>1 DEF PollCheck
    <3>2. \A q \in Starts : \A e \in HealthChecks :
            poll'[q][e] = IF q = s /\ e = c THEN v ELSE poll[q][e]
      BY <3>1, <1>p
    <3>3. /\ UNCHANGED <<type, state, process, proc, recorder>>
          /\ verified' = verified /\ poll[s][c] # "none"
      BY <2>1 DEF PollCheck
    <3> QED
      BY <3>1, <3>2, <3>3
  <2>2. CASE PollPass(s, c)
    <3>1. PICK v \in {"passed"} : poll' = [poll EXCEPT ![s][c] = v]
      BY <2>2 DEF PollPass
    <3>2. \A q \in Starts : \A e \in HealthChecks :
            poll'[q][e] = IF q = s /\ e = c THEN v ELSE poll[q][e]
      BY <3>1, <1>p
    <3>3. /\ UNCHANGED <<type, state, process, proc, recorder>>
          /\ verified' = verified \cup {c} /\ poll[s][c] # "none"
      BY <2>2 DEF PollPass
    <3> QED
      BY <3>1, <3>2, <3>3
  <2>3. CASE PollFail(s, c)
    <3>1. PICK v \in {"check"} : poll' = [poll EXCEPT ![s][c] = v]
      BY <2>3 DEF PollFail
    <3>2. \A q \in Starts : \A e \in HealthChecks :
            poll'[q][e] = IF q = s /\ e = c THEN v ELSE poll[q][e]
      BY <3>1, <1>p
    <3>3. /\ UNCHANGED <<type, state, process, proc, recorder>>
          /\ verified' = verified /\ poll[s][c] # "none"
      BY <2>3 DEF PollFail
    <3> QED
      BY <3>1, <3>2, <3>3
  <2> QED
    BY <1>3, <2>1, <2>2, <2>3 DEF Poller
<1>4. ASSUME NEW x \in Stops, StopCall(x) \/ Stopping(x) PROVE Polled'
  <2>1. CASE StopNoop(x)
    BY <2>1 DEF StopNoop
  <2>2. CASE StopTask(x)
    BY <2>2 DEF StopTask
  <2>3. CASE StopDaemon(x)
    BY <2>3 DEF StopDaemon
  <2>4. CASE StopSignal(x)
    BY <2>4 DEF StopSignal
  <2>5. CASE StopSignalFails(x)
    BY <2>5 DEF StopSignalFails, ExitedCh
  <2>6. CASE StopTick(x)
    BY <2>6 DEF StopTick
  <2>7. CASE StopDone(x)
    BY <2>7 DEF StopDone, ExitedCh
  <2> QED
    BY <1>4, <2>1, <2>2, <2>3, <2>4, <2>5, <2>6, <2>7 DEF StopCall, Stopping
<1> QED
  BY <1>1, <1>2, <1>3, <1>4 DEF Next, Terminating

LEMMA NextFirst == FInv /\ [Next]_vars => First'
<1> SUFFICES ASSUME IInv, Polled, First, [Next]_vars, FirstRun'
             PROVE  /\ \A t \in Starts : Forked(t)' => FirstOf(t)'
                    /\ state' \in {"STARTING", "STARTED"} => \E t \in Starts : Forked(t)'
  BY DEF FInv, First
<1>z. FirstRun /\ Apart
  BY FirstRunBefore DEF IInv, Apart
<1>0. TypeOK /\ Base /\ Own /\ Goroutines
  BY DEF IInv, Base
<1>e. \A s \in Starts : OwnRun(s) /\ GoroutinesOf(s)
  BY <1>0, <1>z DEF Own, Goroutines
<1>a. /\ proc \in [Starts -> {"initial", "running", "reaped", "exited"}]
      /\ waiter \in [Starts -> {"none", "capture", "wait", "close", "mark", "health", "done"}]
      /\ watcher \in [Starts -> {"none", "wait", "close", "mark", "done"}]
      /\ recorder \in [Starts -> {"none", "waiting", "done"}]
      /\ failed \in [Starts -> BOOLEAN]
      /\ \A s \in Starts : waiter[s] = "none" <=> ~Forked(s)
      /\ \A s \in Starts : start[s] = "idle" => ~Forked(s)
      /\ \A s \in Starts : watcher[s] # "none" => Daemon /\ waiter[s] \notin {"none", "capture"}
      /\ Daemon => \A s \in Starts : waiter[s] \in {"none", "capture", "health", "done"}
  BY <1>0 DEF TypeOK, Goroutines, GoroutinesOf
<1>b. /\ \A t \in Starts : Forked(t) => FirstOf(t) /\ waitCh = t
      /\ state \in {"STARTING", "STARTED"} => \E t \in Starts : Forked(t)
      /\ \A t \in Starts : Forked(t)' => waitCh' = t
      /\ \A s \in Starts : PolledOf(s)
  BY <1>z DEF First, FirstRun, Polled
<1>p. poll \in [Starts -> [HealthChecks -> {"none", "check", "exec", "passed", "gaveUp"}]]
  BY <1>0 DEF TypeOK
<1> DEFINE Goal == /\ \A t \in Starts : Forked(t)' => FirstOf(t)'
                   /\ state' \in {"STARTING", "STARTED"} => \E t \in Starts : Forked(t)'
<1> USE <1>0, <1>a, <1>b DEF Forked, Exited, Checks, Daemon, FirstOf, PolledOf
<1> USE DEF vars, serviceVars, procVars, goroutineVars
<1>1. CASE UNCHANGED vars
  BY <1>1
<1>2. ASSUME NEW s \in Starts, StartCall(s) \/ Goroutine(s) \/ ProcExit(s) PROVE Goal
  <2>1. CASE StartNoop(s)
    BY <2>1 DEF StartNoop, AfterStart
  <2>2. CASE StartLogFails(s)
    BY <2>2 DEF StartLogFails, NewWaitCh, CanStart
  <2>3. CASE StartForkFails(s)
    BY <2>3 DEF StartForkFails, NewWaitCh, CanStart
  <2>4. CASE StartForks(s)
    BY <2>4 DEF StartForks, NewWaitCh, Spawn, AfterStart, CanStart
  <2>5. CASE WaitHealthy(s)
    BY <2>5 DEF WaitHealthy
  <2>6. CASE StoreVersion(s)
    BY <2>6 DEF StoreVersion, Settled
  <2>7. CASE LogRead(s)
    BY <2>7 DEF LogRead
  <2>8. CASE LogClose(s)
    BY <2>8 DEF LogClose
  <2>9. CASE Capture(s)
    <3>1. \/ poll' = poll
          \/ \A q \in Starts : \A e \in HealthChecks :
            poll'[q][e] = IF q # s THEN poll[q][e] ELSE IF e \in Checks THEN "check" ELSE "none"
      BY <2>9, <1>0, PollersStarted DEF Capture
    <3>2. /\ Forked(s) /\ waitCh = s
          /\ UNCHANGED <<type, state, version, process, waitCh, proc, failed, recorder, verified>>
      BY <2>9 DEF Capture
    <3>3. /\ waiter' = [waiter EXCEPT ![s] = IF Daemon THEN "health" ELSE "wait"]
          /\ waiter[s] = "capture" /\ watcher' = [watcher EXCEPT ![s] = IF Daemon THEN "wait" ELSE @]
      BY <2>9 DEF Capture
    <3> QED
      BY <3>1, <3>2, <3>3
  <2>10. CASE DaemonExitSeen(s)
    BY <2>10 DEF DaemonExitSeen, AppendSanitizerErrors
  <2>11. CASE DaemonExitClose(s)
    <3>1. Exited(s)
      BY <2>11, <1>e DEF DaemonExitClose, Closing, Own, OwnRun, Ending
    <3>2. watcher' = [watcher EXCEPT ![s] = "mark"]
      BY <2>11 DEF DaemonExitClose
    <3>3. /\ Forked(s) /\ waitCh = s
          /\ UNCHANGED <<type, state, version, process, waitCh, proc, failed, recorder, verified, poll, waiter>>
      BY <2>11 DEF DaemonExitClose
    <3> QED
      BY <3>1, <3>2, <3>3
  <2>12. CASE DaemonExitMark(s)
    BY <2>12 DEF DaemonExitMark, MarkError
  <2>13. CASE TaskExitSeen(s)
    BY <2>13 DEF TaskExitSeen, AppendSanitizerErrors
  <2>14. CASE TaskExitClose(s)
    <3>1. \/ TaskFailed(s) /\ poll' = poll /\ waiter' = [waiter EXCEPT ![s] = "mark"]
          \/ /\ ~TaskFailed(s) /\ waiter' = [waiter EXCEPT ![s] = "health"]
             /\ \A q \in Starts : \A e \in HealthChecks :
                 poll'[q][e] = IF q # s THEN poll[q][e] ELSE IF e \in Checks THEN "check" ELSE "none"
      BY <2>14, <1>0, PollersStarted DEF TaskExitClose
    <3>2. cap[s] = s /\ Exited(s)
      BY <2>14, <1>e DEF TaskExitClose, Closing, Own, OwnRun, Ending, Owned
    <3>3. /\ Forked(s) /\ waitCh = s
          /\ UNCHANGED <<type, state, version, process, waitCh, proc, failed, recorder, verified, watcher>>
      BY <2>14 DEF TaskExitClose
    <3>4. waiter[s] = "close" /\ state # "STARTED" /\ (TaskFailed(s) <=> failed[s])
      BY <2>14, <3>2 DEF TaskExitClose, TaskFailed
    <3>5. CASE TaskFailed(s)
      BY <3>1, <3>2, <3>3, <3>4, <3>5
    <3>6. CASE ~TaskFailed(s)
      BY <3>1, <3>2, <3>3, <3>4, <3>6
    <3> QED
      BY <3>5, <3>6
  <2>15. CASE TaskExitMark(s)
    BY <2>15 DEF TaskExitMark, MarkError
  <2>16. CASE MarkStarted(s)
    BY <2>16 DEF MarkStarted, MarkHealthy, HealthChecksPassed
  <2>17. CASE PcmdExit(s)
    BY <2>17 DEF PcmdExit
  <2>18. CASE ProcExit(s)
    BY <2>18 DEF ProcExit
  <2> QED
    BY <1>2, <2>1, <2>2, <2>3, <2>4, <2>5, <2>6, <2>7, <2>8, <2>9, <2>10, <2>11, <2>12, <2>13, <2>14, <2>15, <2>16, <2>17, <2>18 DEF StartCall, Goroutine
<1>3. ASSUME NEW s \in Starts, NEW c \in HealthChecks, Poller(s, c) PROVE Goal
  <2>1. CASE PollCheck(s, c)
    <3>1. PICK v \in {"exec", "gaveUp"} : poll' = [poll EXCEPT ![s][c] = v]
      BY <2>1 DEF PollCheck
    <3>2. \A q \in Starts : \A e \in HealthChecks :
            poll'[q][e] = IF q = s /\ e = c THEN v ELSE poll[q][e]
      BY <3>1, <1>p
    <3>3. /\ UNCHANGED <<type, state, version, process, waitCh, proc, failed, recorder, waiter, watcher>>
          /\ verified' = verified /\ poll[s][c] \in {"check", "exec"}
      BY <2>1 DEF PollCheck
    <3> QED
      BY <3>1, <3>2, <3>3
  <2>2. CASE PollPass(s, c)
    <3>1. PICK v \in {"passed"} : poll' = [poll EXCEPT ![s][c] = v]
      BY <2>2 DEF PollPass
    <3>2. \A q \in Starts : \A e \in HealthChecks :
            poll'[q][e] = IF q = s /\ e = c THEN v ELSE poll[q][e]
      BY <3>1, <1>p
    <3>3. /\ UNCHANGED <<type, state, version, process, waitCh, proc, failed, recorder, waiter, watcher>>
          /\ verified' = verified \cup {c} /\ poll[s][c] \in {"check", "exec"}
      BY <2>2 DEF PollPass
    <3> QED
      BY <3>1, <3>2, <3>3
  <2>3. CASE PollFail(s, c)
    <3>1. PICK v \in {"check"} : poll' = [poll EXCEPT ![s][c] = v]
      BY <2>3 DEF PollFail
    <3>2. \A q \in Starts : \A e \in HealthChecks :
            poll'[q][e] = IF q = s /\ e = c THEN v ELSE poll[q][e]
      BY <3>1, <1>p
    <3>3. /\ UNCHANGED <<type, state, version, process, waitCh, proc, failed, recorder, waiter, watcher>>
          /\ verified' = verified /\ poll[s][c] \in {"check", "exec"}
      BY <2>3 DEF PollFail
    <3> QED
      BY <3>1, <3>2, <3>3
  <2> QED
    BY <1>3, <2>1, <2>2, <2>3 DEF Poller
<1>4. ASSUME NEW x \in Stops, StopCall(x) \/ Stopping(x) PROVE Goal
  <2>1. CASE StopNoop(x)
    BY <2>1 DEF StopNoop
  <2>2. CASE StopTask(x)
    BY <2>2 DEF StopTask
  <2>3. CASE StopDaemon(x)
    BY <2>3 DEF StopDaemon
  <2>4. CASE StopSignal(x)
    BY <2>4 DEF StopSignal
  <2>5. CASE StopSignalFails(x)
    BY <2>5 DEF StopSignalFails, ExitedCh
  <2>6. CASE StopTick(x)
    BY <2>6 DEF StopTick
  <2>7. CASE StopDone(x)
    BY <2>7 DEF StopDone, ExitedCh
  <2> QED
    BY <1>4, <2>1, <2>2, <2>3, <2>4, <2>5, <2>6, <2>7 DEF StopCall, Stopping
<1> QED
  BY <1>1, <1>2, <1>3, <1>4 DEF Next, Terminating

LEMMA FInvHolds == Spec => []FInv
<1>1. Init => FInv
  <2> SUFFICES ASSUME Init PROVE Polled /\ First
    BY InitIInv DEF FInv
  <2> QED
    BY DEF Init, Polled, PolledOf, First, Forked, FirstRun
<1>2. FInv /\ [Next]_vars => FInv'
  <2> SUFFICES ASSUME FInv, [Next]_vars PROVE FInv'
    OBVIOUS
  <2>1. IInv'
    BY NextTypeOK, NextGoroutines, NextCurrent, NextOwn DEF FInv, IInv, Base
  <2> QED
    BY <2>1, NextPolled, NextFirst DEF FInv, IInv
<1> QED
  BY <1>1, <1>2, PTL DEF Spec

\* Within the first run STARTED means that every check has passed since the
\* fork and, of a task, that its process ended without an error; ERROR means
\* that a process that was forked has exited.
THEOREM HonestAtFirst == Spec => []FirstRunHonest
<1>1. FInv => FirstRunHonest
  <2> SUFFICES ASSUME IInv, Polled, First, FirstRun PROVE FirstRunHonest
    BY DEF FInv, FirstRunHonest
  <2>1. TypeOK /\ Current
    BY DEF IInv, Base
  <2>2. ASSUME state = "STARTED" PROVE verified = Checks
    <3>1. PICK t \in Starts : Forked(t) /\ FirstOf(t)
      BY <2>2 DEF First
    <3> QED
      BY <2>2, <3>1 DEF FirstOf, Polled, Checks, HealthChecks
  <2>3. ASSUME state = "STARTED", ~Daemon PROVE Exited(process) /\ ~failed[process]
    <3>1. PICK t \in Starts : Forked(t) /\ FirstOf(t)
      BY <2>3 DEF First
    <3>2. process = t
      BY <2>1, <2>3, <3>1 DEF Current, FirstRun
    <3> QED
      BY <2>3, <3>1, <3>2 DEF FirstOf
  <2>4. ASSUME state = "ERROR", Forked(process) PROVE Exited(process)
    <3>1. CASE process \in Starts
      BY <2>4, <3>1 DEF First, FirstOf
    <3>2. process \in Starts
      BY <2>1, <2>4 DEF Current, Polled
    <3> QED
      BY <3>1, <3>2
  <2> QED
    BY <2>2, <2>3, <2>4 DEF FirstRunHonest, StartedOnlyIfVerified
<1> QED
  BY <1>1, FInvHolds, PTL

\* Within the first run the version that needsRestart compares with is the one
\* the healthy run was started from, once its recorder has finished.
THEOREM VersionAtFirst == Spec => []VersionOfHealthyRun
<1>1. FInv => VersionOfHealthyRun
  <2> SUFFICES ASSUME IInv, First, FirstRun, state = "STARTED", recorder[process] = "done"
               PROVE  version = process
    BY DEF FInv, VersionOfHealthyRun
  <2>1. TypeOK /\ Current
    BY DEF IInv, Base
  <2>2. PICK t \in Starts : Forked(t) /\ FirstOf(t)
    BY DEF First
  <2>3. process = t
    BY <2>1, <2>2 DEF Current, FirstRun, TypeOK, Daemon
  <2> QED
    BY <2>2, <2>3 DEF FirstOf
<1> QED
  BY <1>1, FInvHolds, PTL
=============================================================================
