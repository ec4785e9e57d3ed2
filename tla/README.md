# A verification of the service controller of dbx_build_tools

`dbx_build_tools` is what Dropbox builds and tests with on top of Bazel: Starlark
rules, generators of BUILD files in Go and Python, a Python packager, a driver
(`bzl`) with containers for interactive tests, and a service controller
(`svcctl`) that brings up the daemons and tasks an integration test needs, waits
until they are healthy, and takes them down again.  The controller is where the
concurrency, the failures and the timing of the repository are, and nothing else
there decides as much about whether a test result can be believed.  It comes
first here, with the launcher, the commands and the container scripts that use it;
the generation of BUILD files, which is sequential, comes second.

The modules are plain TLA+.  TLC checks small instances of them, and TLAPS
checks proofs for every value of the constants.  `PROJECT.json` lists the runs,
the source lines every definition models (`map`), the hazards with the properties
that cover them, one mutation of the code for every property, and the theorems.

## 1. Inventory

Paths are relative to `src/go/src/dropbox/build_tools` unless they start with
`src/`.

### The service controller, bottom up

**A service: `serviceDef`** (`svcctl/service.go`, with `svcctl/proc/proc.go` and
`svcctl/state_machine/`).  State: the status (`STOPPED`, `STARTING`, `STARTED`,
`ERROR`, `STOPPING`) behind a mutex and a condition variable of its own; under
`svc.lock` the current launcher process (`svc.Process`, a `Pcmd`), the channel
`svc.waitCh` "closed on process exit", the version of the files the service is
made of; the sanitizer reports under a second lock; a log file per run.
Operations: `Start`, `waitTillHealthy`, `Stop` (SIGINT, then SIGKILL every 250 ms),
`StopUnsafe` (SIGKILL to the whole tree at once), `needsRestart` and getters.
A successful `Start` leaves goroutines behind: `waitTillHealthyAndMark`, a poller
for each health check, the watcher of a daemon's exit, the goroutine that closes
the log file, the one that stores the version, and in `Pcmd` the one that reaps
the process.
*Hard:* these goroutines read `svc.Process` and `svc.waitCh` long after `Start`
returned, some of them without the lock, while calls of stop and Start reset the
same fields; `stop` keeps the lock while it waits for a channel another goroutine
must close; a process can die in any status.
*Correct when:* at most one launcher of a daemon runs and none is left once it is
STOPPED; a run's goroutines act on their own process and channel; no channel is
closed twice; STARTED means that every check passed since this fork; a death is
noticed; nobody waits for ever; no report is lost; the log file stays open while
it is written to.

**The worker pool: `topological.Runner`** (`svcctl/topological/runner.go`).
State: the list of tasks not taken, the set of completed keys, the first error,
one condition variable.  Operations: `NewRunner` (list of all reachable tasks),
`NewReversedRunner` (the same tasks with the edges turned round), `Run`,
`CriticalPath`.
*Hard:* lost wakeups, an error while others run or sleep, two workers and one slice.
*Correct when:* every task runs at most once and after its dependencies; `Run`
returns, and tells the truth; the reversed graph is the converse of the graph;
the critical path is the slowest chain.

**Starter and stopper** (`svcctl/topological_starter.go`, `topological_stopper.go`).
No state: `startTask.Run` is `Start` and then `waitTillHealthy`, and `stopTask.Run`
is `Stop`.

**The processor: `SvcCtlProcessor`** (`svcctl/processor.go`, served by
`cmd/svcd/svcd.go`).  State: the map from names to services under a
read-write lock.  Handlers, one goroutine per RPC: `CreateBatch`, `RemoveBatch`,
`Start`, `Stop`, `StopAll` (ordered or unsafe), `Status`, `Diagnostics`.
*Hard:* lookups and use are apart (the lock is given up before services are started
or stopped), `RemoveBatch` holds the write lock over `Stop`, `Start` returns with
the read lock held when a name is unknown, batches fail half-way.
*Correct when:* calls return, a batch creates what can be created and says what it
left out, a removed service does not run, no runner gets tasks that wait for each
other, and a `StopAll` stops users first and leaves nothing running if it returns
no error.

**The client: `svclib`** (`svcctl/svclib/service.go`).  A cached connection under a
mutex; `StartAll` is a `Status` RPC and then a `Start` RPC.
**The command: `svcctl`** (`svcctl/cmd/svcctl`): prints tables; `auto-restart` stops
all outdated services in parallel and then starts them in parallel.

**The test launcher: `svcinit`** (`svcctl/cmd/svcinit`).  Sequential: starts svcd,
waits up to five seconds for its port, creates and starts the services, runs the
test, asks for the health of the services before and after, stops everything and
rewrites the JUnit report.  State: a stack of cleanups and the report files.
*Hard:* which exits skip the cleanups, what an error of svcd turns into, a service
that crashes between the two health reports.
*Correct when:* a failing test or crashed service never yields a passing report, and
nothing that was started is left behind.

**procfs, cputime** (`src/go/src/dropbox/procfs`, `cputime`): walks `/proc` for the
descendants of a process while the table changes under it.

### Interactive tests: `bzl itest`

(`src/build_tools/bzl_lib/itest`.)  A container in which the services of a test
stay up while the test is run again and again.  `bzl-itest-init.sh` runs svcinit
with `--svc.services-only` and leaves its exit code in a file;
`bzl-itest-wait.sh` waits for this file and passes the code on to `bzl`, which then
runs the test in the container; `itest-reload` gives `svcctl auto-restart`.
State: the container, the pid file, the exit code file.
*Hard:* the file is there before the code is in it; the services go on dying, and
other shells go on giving commands, while one process after the other looks at
them.
*Correct when:* the test begins with every service up.

### The generation of BUILD files: `bzl gen`

(`src/build_tools/bzl_lib/gazel.py`, `gen_build_go.py`, `gen_build_py.py`, `build-merge`,
`gen-build-go`.)  Three generators write a file of their own for each directory
they find something to do in: one runs `gen-build-go`, which walks the imports of Go
packages depth first, one follows the deps of Python rules, and the last one sees
to directories that only have a hand-written `BUILD.in`.  They are called again for the
directories that were new in the last round, until there are none.  Then
`build-merge` merges the files of each directory and its `BUILD.in` into `BUILD`.
State: the directories each generator has visited, the list of generated files, the
stack and the processed packages of a walk.
*Hard:* imports have cycles; what one generator finds another one must see to;
each remembers on its own where it has been; merges run one after the other, with
a cleanup of unused loads in between.
*Correct when:* nothing is missing when the rounds converge; the file of a package
is written after those it depends on; the author of `BUILD.in` has the last word and
no rule, licence or load is lost.

### The rest of the repository

| Component | What it is | Worth a model? |
|---|---|---|
| gen-build-go, beyond the walk | build tags as Bazel `select`s, sources grouped into rules | the reduction of tags, as a pure algorithm |
| update-gen-build-go-srcs | rewrites one list in a file | no: I/O |
| build-sqfs, build-tar | write archives from manifests | the order and the removal of duplicates, perhaps |
| junit, gojunit, gocov2cobertura | conversions of XML | no, beyond what svcinit relies on |
| codegen writers, runfiles, gomodlib, logwriter | layout, lookups, parsing | no |
| bzl core, cache, metrics, exec_wrapper, cfg | dispatch and plumbing | no |
| bazel_utils, build_parser | labels and BUILD syntax | no: string handling |
| Python packaging (vpip, build_tar, ...) | sequential scripts around pip | no: I/O |
| Starlark rules | evaluated by Bazel; they fix what a service definition may contain | no, but they bound the inputs of the models |
| vendored and generated code | third party; of the protobuf code only the status codes matter | no |

### How the parts interact

```
 svcinit --exec--> svcd = SvcCtlProcessor --(registry)--> serviceDef --fork--> launcher
    |                 ^     |                                ^  ^
    |            RPC  |     +-- starter / stopper ----------+  |
    +--- svclib ------+              |                          |
 svcctl -- svclib --------           v                goroutines of each run
                              topological.Runner

 bzl itest-run --> bzl-itest-init.sh --> svcinit      (exit code in a file)
        |      --> bzl-itest-wait.sh <-- that file
        +--------> the test, if the code is 0

 bzl gen --> rounds of {gen-build-go, gen_build_py, CopyGenerator} --> build-merge
```

RPC handlers are goroutines.  A start or stop of many services makes a `Runner`,
whose workers call one service each; two handlers may work on one service at the
same time, and only `svc.lock` and the status keep them apart.

## 2. What is modelled

| Module | Models | Role |
|---|---|---|
| `ServiceDef` | `service.go`, `proc.go`, `state_machine.go`, the task of the starter | the detailed specification of one service |
| `ServiceDefMC` | | instances and symmetry for TLC |
| `ServiceDefProofs` | | theorems about `ServiceDef` |
| `ServiceLifeCycle` | the status of `serviceDef` | abstract specification, implemented by `ServiceDef` and by the services of `SvcCtlProcessor` and `SvcCtl` |
| `OrderedTasks` | the promise of `Runner` | abstract specification, implemented by the workers and used by the handlers |
| `TopologicalRunner` | the workers of `runner.go` | implements `OrderedTasks` |
| `TopologicalRunnerMC` | | a graph with shared dependencies, in the order `uniqueDeps` lists it |
| `TopologicalRunnerProofs` | | theorems about `TopologicalRunner`, the refinement included |
| `TaskGraph` | `NewRunner`, `NewReversedRunner` and `uniqueDeps` of `runner.go` | how a runner is made, step by step |
| `CriticalPath` | `CriticalPath`, `highestCost` and `taskCost` of `runner.go` | the report after a start, step by step |
| `TaskGraphMC` | | all acyclic graphs of four tasks as initial states |
| `TaskGraphProofs` | | theorems about `TaskGraph` and `CriticalPath` |
| `SvcCtlProcessor` | `processor.go`, the starter and stopper tasks, `StartAll` of `svclib`; services and runners as the modules above promise them | the RPC handlers over one registry; the runners of each client implement `OrderedTasks` |
| `SvcCtlProcessorMC` | | batches in an awkward order, of invalid and self-dependent services |
| `SvcCtlProcessorProofs` | | theorems about `SvcCtlProcessor` |
| `SvcCtl` | the commands of `svcctl.go` that change something, and what their RPCs do in svcd, over abstract services | commands that overlap, fail and exit while their handlers go on |
| `SvcCtlProofs` | | theorems about `SvcCtl` |
| `SvcInit` | `svcinit.go`, with svcd, the services and the test beside it | the launcher of a test |
| `SvcInitProofs` | | theorems about `SvcInit` |
| `Itest` | the scripts of `bzl itest` and `cmd_itest_run` | composes with `SvcCtl`: the start of svcinit is one of its commands |
| `ItestMC` | | a web service on a database, one other command |
| `ItestProofs` | | theorems about `Itest`, those of `SvcCtl` lifted to it included |
| `BzlGen` | the rounds of `gazel.py`, the walk of `gen-build-go.go`, `gen_build_py.py`'s traversal | bzl gen up to the merges |
| `BzlGenMC` | | every workspace of three directories |
| `BzlGenProofs` | | theorems about `BzlGen` and `BuildMerge` |
| `BuildMerge` | `build-merge/main.go`, the order of merges in `gazel.py` | the merges of a directory, one by one |
| `BuildMergeMC` | | what generators and an author can write of one target |
| `AlgorithmsMC` | | one run for the three sequential models |

### ServiceDef: one service and everything a Start leaves behind

A *run* is a call of `Start` that got past the STOPPED test.  Its name stands for
the `Pcmd` and for the wait channel it made, so that "the goroutine of run s reads
`svc.waitCh`" can give the channel of another run, as it can in Go.

| In the model | In the code |
|---|---|
| `type`, `state` | `svc.ServiceType`, the state machine's state |
| `lock` | `svc.lock`; only `stop` keeps it over several steps, so every other critical section is one action with guard `LockFree` |
| `process`, `waitCh`, `closed`, `version` | `svc.Process`, `svc.waitCh`, the channels that are closed, `svc.version` |
| `collected` | the runs whose reports are in `svc.sanitizerErrors` |
| `proc`, `failed`, `doomed` | the launcher: not forked, running, reaped by `Cmd.Wait`, or marked as exited by `Pcmd`; its exit code; a pending SIGKILL |
| `waiter`, `cap`, `watcher`, `poll` | `waitTillHealthyAndMark`: its position, the `process` it captured, the exit watcher of a daemon, the pollers |
| `logger`, `logCh`, `recorder` | the goroutines that close the log and store the version |
| `start`, `stop` | the callers |
| `crash` | a panic: it ends svcd, hence every step is guarded by `Alive` |
| `verified` | history: the checks that passed since the last fork |

Each early return of the code is an action: `StartNoop`, `StartLogFails`,
`StartForkFails`, `StartForks`; `StopNoop`, `StopTask`, `StopDaemon`, after which
a stop goes through `StopSignal` or `StopSignalFails`, `StopTick` and `StopDone`.
Reads that the code makes without `svc.lock` are actions of their own:
`LogRead` evaluates `svc.waitCh` when the log goroutine is first scheduled, and
`DaemonExitSeen`, `DaemonExitClose` and `DaemonExitMark` separate the reports, the
closing and the locked part of the watcher.  The status has its own lock and is
read and written atomically.

Abstracted: the process tree is its launcher, which is what `Pcmd` waits for.
SIGINT goes to the process group and may succeed after the leader was reaped;
a SIGKILL to the tree fails if a listed process vanished, and both outcomes are
left open where the kernel leaves them open.  Durations, log samples, environment
variables, the content of commands and the getters are left out.  A health check
passes or fails freely, at every attempt.

`ServiceLifeCycle` is what is left of a service when only its status is seen: `Start` or
`StartFails` from STOPPED, `BecomeHealthy`, `Die`, `BeginStop`, `EndStop`.  `ServiceDef` implements it
(`LifeCycle`), and so do the services of `SvcCtlProcessor` and `SvcCtl` (`ServicesLive` in their proof
modules), in which a whole Start or stop is one step: the three models of a service differ
in grain and not in what a service may do.

### TopologicalRunner, OrderedTasks, TaskGraph, CriticalPath

`runner.cv.L` is given up only by `cv.Wait`, around `task.Run()`, and at the end.
So the section in which a worker records a result goes on into the next turn of
its loop, and one action is a whole section: `Enter` (from the start or from a
wakeup), `Succeed` (markDone with its broadcast, then the next turn), `Fail`
(setErr, the worker ends).  `Turn` is the turn of the loop: leave, take the first
ready task of the list, or sleep.  `Rank` is the place in the list, which `nextTask`
scans from the front.

`OrderedTasks` knows nothing of workers, lists or wakeups.  It is about a caller who makes
one runner after the other: `New` brings a set of tasks with their dependencies, tasks
begin when their dependencies succeeded and nothing has failed, and `Return` comes when
nothing runs, with the reply "ok" if and only if all tasks succeeded.  A worker that
succeeds and begins its next task in one section is the single action `SucceedAndBegin`;
`BeginAndEnd` is a task that takes one step, as the abstract stops of `SvcCtlProcessor` do.
It has two implementations: `TopologicalRunner` (`ImplementsOrder`, one runner) and, for each
client, `SvcCtlProcessor` (`Order(c)`, `RunnersKeepOrder`).

`TaskGraph` makes the runner and `CriticalPath` reports on it; both compare a program
with a definition that knows nothing of its steps.

| In the model | In the code |
|---|---|
| `graph`, `roots`, `reversed` | the `Dependents()` of all tasks, the argument, which of the two constructors |
| `at`, `queue` | the loop that is at work, and its queue; a task may be in it more than once, which a set does not tell, as the second one is skipped |
| `allTasks`, `reversedDeps` | of `NewReversedRunner`; `seen` is the range of the list |
| `list` | `deps` of `uniqueDeps`, which becomes `runner.tasks` |
| `duration`, `old`, `completed` | `Duration()`, the tasks with a `StartTime()` before the runner's, `runner.completed` |
| `costs`, `stack` | the memo `runner.costs`; the calls of `taskCost` that have not returned, one inside the other |
| `path` | `criticalPath` |

A step is an iteration (`Collect`, `Unique`, `SkipTwin`, `ExtendPath`) or a call or return of
`taskCost` (`CallTaskCost`, `ReturnTaskCost`), in any order the queues and maps may have.
`highestCost` without calls is the operator `HighestCost`, the set of what it may return.
That the tasks have no cycle is assumed here, and proved of what `SvcCtlProcessor`
gives to runners (`SoundRunners`).

### SvcCtlProcessor: the handlers over one registry

Dependencies are pointers, resolved once in `NewService`, and a removed object lives
on as long as something points to it.  So the registry `services` maps names to
*objects*, and `name`, `dependents` and `status` belong to the objects.

| In the model | In the code |
|---|---|
| `services` | `s.services` |
| `name`, `dependents`, `status` | the fields of each `serviceDef` that was ever made |
| `unwatched`, `stuck` | the objects whose `waitTillHealthyAndMark` has not had `svc.lock` since the fork (354), and those for which a call waits in `stop`, with the lock, or for that lock, for ever |
| `writer`, `leaked` | `s.lock`: the handler that called `Lock`, which from then on keeps new readers out; and whether a read lock was never given back |
| `toAdd`, `toAddNext`, `prevLen` | the locals of the `CreateBatch` that holds the lock |
| `pc`, `op`, `batch`, `names` | each client's call |
| `list`, `todo`, `running`, `completed`, `err` | the `Runner` of the call: its tasks, those that were not begun, those that run, the keys in `ts.completed`, `ts.err` |
| `quiet` | history, for two properties of `StopAll` |

A handler with the write lock goes step by step (`CreateOne` for each service of a
round, `CreateRound`, `CreateReturn`; `RemoveOne`, `RemoveFails`, `RemoveHangs`, `RemoveReturn`), because
services die and runners of other calls go on meanwhile.  A look under the read lock
is one action, since nothing can change the registry during it.  After the look the
handler runs tasks without the lock: `BeginStart` is `svc.Start` and
`EndStart` the return of `waitTillHealthy`; `StopTask` is `svc.Stop`.  `Status` asks for the
lock of each service with the read lock held (`ListServices` is it, and the first half of
`StartAll`); `Diagnostics` is the same.

The services are abstract daemons: a start or stop is one step (they hold `svc.lock`), may
fail, and the service may become healthy or die in between.  The one thing of a stop that a step
cannot be is kept: between a start and `Watch`, where its goroutine has had `svc.lock`, a stop
never returns (`StopHangs`, run `stop_hangs`).  It holds `svc.lock` for ever, with the registry's write
lock if it is one of `RemoveBatch`; later starts (`StartHangs`), stops, the critical path of a start
(`RunnerReturn`) and `Status` wait behind it, the last with the read lock, which `StatusHangs` counts as
`leaked`.  The rest is the concern of `ServiceDef`; what ends svcd itself there, the stop after a
failed fork and the task that panics, is not repeated here.  The runner is abstract as well: a task begins when the keys it needs
are completed and nothing has failed, and `Run` returns when nothing runs: the same
`OrderedTasks` as `TopologicalRunner` implements, which is a refinement mapping (`Order`) and
not only a likeness.  The mapping takes for the dependencies of a task the tasks that
have a name among its `Needs` (`Graph`), and for the broken ones those that are in none of
`todo`, `running` and `completed`.  `StopAllUnsafe` has an errgroup and no runner, and is
no runner in the mapping either.  Keys are names: `Needs` is about names, so
that two objects of one name are one key, as in `tasksByKey`.  `Listing` is the result of
`uniqueDeps`; which of two objects with one name gets into it depends on the order
of a Go map, and stays open.  A request of `RemoveBatch` is a set: a name that
occurs twice would fail as an unknown one does.

### SvcCtl: the commands and what they leave behind

A command is a process; an RPC it sent is a handler in svcd that does not end with it.
`fatalf` ends the process at the first error, so `pc` of a command may be `failed`
while `stopping` and `starting` still hold its work.

| In the model | In the code |
|---|---|
| `status`, `version` | of the services, as svcd sees them |
| `built`, `from` | the version files now, and when the process was forked; `needsRestart` compares `built` with `version` |
| `pc`, `cmd`, `unasked`, `want` | the loop over the services, `toRestart`, the place in the two phases of `cmdAutoRestart` |
| `stopping`, `starting`, `begun`, `bad` | the Stop calls at work; the tasks of the Start calls, those in progress, the calls with an error |
| `forked`, `fresh`, `excused` | history, for the two properties |

A `Start` RPC for `R` has a task for each service of `Closure(R)`, and tasks begin in
order and end as `OrderedTasks` promises (a task dropped after an error and one that
succeeded look the same in `starting`, so that a refinement mapping would need a history of
each request); several Starts of one command work at once on the
services they share, and a task that finds its service up or starting
only waits.  `MissesDependency` is a service on its way up that gives up because one it needs is down.

### SvcInit: the launcher

`pc` is the place in `main`, with one action for each step that can fail or that
others can get in between.  `cleanups` is the stack of deferred cleanups as a set:
they are pushed in one fixed order, `Rank`, and popped by it.  `how` tells which of
the exits was taken: `fatal` (log.Fatal, which runs no cleanup), `crash` (the `os.Exit` at 557),
`kept` (with `-svc.services-only`, which keeps svcd and the services) or `cleaned`.  `asked` is what the results of the two RPCs are wanted for, since four places in `main`
ask for them; `blind` records that they were wanted and not obtained.  A report
is whether it has the test case and of which outcome, and the failing cases of
services.  svcd, the services and the test run on their own: any of them may die
at any step, `TestStops`, `TestCreates` and `TestStarts` are what a test can ask of svcd
through its port.

### Itest: the scripts around the launcher

The container runs `SvcCtl` (`ContainerStep`): svcinit's `StartAll` is the command `Launch`, and
one shell in the container gives another.  `LaunchLooks` is the second look of svcinit at
all services (430-450), the exit file is created and written in two steps,
`ReadExitFile` may come between, and `RunTest` is bzl after an exit code of 0 of
the wait script.  An empty file reads as success (`exit` without a number), which
`misread` records.

### BzlGen and BuildMerge

A directory is one package and one target; the workspace (which directories have Go
sources, a `BUILD.in`, Python rules, and who imports whom) and the command line are
the variable `ws`, which no step changes.

| In the model | In the code |
|---|---|
| `generator`, `targets`, `prev` | the loop of `regenerate_build_files`: `bazel_targets`, `prev_visited_dirs` |
| `generated` | `generated_files`: for each directory, which generators have put a file into its list; `Keys` are its keys |
| `packages`, `unprocessed` | the arguments of `gen-build-go`, and those its main loop has not come to |
| `visitStack`, `toVisit`, `processed`, `lastErr` | `g.visitStack`, the rest of the loops of `visit` on the call stack, `g.processedPkgs`, `lastErr` |
| `goVisited`, `pyVisited` | the `visited_dirs` of the two generators |
| `pyTargets` | what is left of the loops in the recursive calls of `PyBuildGenerator.regenerate` |

`Skipped` is `ValidateGoPkgPath` and the package without Go sources.  A package whose
processing fails takes those that led to it off the stack, and gen-build-go goes on
with its next argument and fails at the end; then bzl gen ends.  Sets are visited in any
order.

`NothingMissed` compares the result with a definition that knows nothing of rounds or generators:
`NothingFollows(A, V)` says that nothing more follows from what is in `A` (directories whose
files are to be made) and `V` (directories whose deps are to be followed), and `Wanted` is the least
such `A`.  Each generator must have left its own file in exactly the directories of `Wanted` that
are its business: the file of another one, or the one `CopyGenerator` leaves where nobody else did, does not count
for it.

`BuildMerge` is one directory.  `gens` are the files its generators left, in the order of
`sorted(set(...))`, `written` is `BUILD.in`, and each step merges the next one into `build`
(`MergeFile`, which cleans up unused loads at its end, too) or fails (`MergeFileFails`,
after which `build` stays as the merges before wrote it).  A file has rules by name, with
their kind, their arguments and the `additional_` ones, sums of lists, globs and selects;
loads by module, symbol and alias; and licences.  `package()` is a rule of that name.  Files
are sets of rules and loads: what a file says twice (`IsFile` excludes it) and the order of its
statements are left out.  A missing `BUILD.in` is an empty one:
that merge changes nothing.

## 3. The runs

| Run | Question | Instance |
|---|---|---|
| `service_safety` | Do the invariants of a service and its life cycle survive every interleaving? | a daemon or a task, 2 Starts, 2 stops, 1 command and 1 HTTP check |
| `service_live` | Do stops return, are deaths noticed, does every starter get an answer? | the same calls, one HTTP check, fairness |
| `runner` | Is the order kept, and does Run return and tell the truth? | 5 tasks, 4 workers, any task may fail |
| `algorithms` | Are the list, the reversed graph and the critical path what their definitions say?  Does `BUILD.in` win, and is nothing lost in a merge?  Is nothing missing when bzl gen converges? | every acyclic graph of 4 tasks with at most 2 roots and durations 0 to 2; at most 2 generators and a `BUILD.in` in a directory; every workspace of 3 directories of which 1 or 2 are asked for (2.7 million states) |
| `processor` | Do batches, starts, stops and removals of several clients keep the registry and the order, as `OrderedTasks` promises? | 2 names, 3 objects, 2 clients |
| `processor_live` | Do calls return that change or stop services or ask for their status? | the same without the batch that fails for ever, with requests for one name and up to the second use of a name, fairness |
| `svcinit` | Does the launcher tell the truth, leave nothing behind and always move on? | every command line, 2 services, one of which must be healthy after the test; everything may die (0.7 million states) |
| `itest` | Does the test meet its services; is a restart complete; does auto-restart fail by its own doing? | a web service on a database, the start-all of svcinit beside one auto-restart, restart, stop or start, 2 builds (3.7 million states) |
| `stop_hangs` | Does every stop call return, as the comment of stop says? | violated |
| `stale_healthy` | Does STARTED mean that this run was verified, as the comment of Start says? | violated |
| `task_panic` | Is a wait channel closed once, on the exit of its process? | violated |
| `removed_runs` | Is a removed service stopped, as the comment of RemoveBatch says? | violated, with one client |

**Bounds.**  Two runs are the least that let a goroutine of an old run meet a new
one, and two stops the least for a stop that competes with another or follows a
restart; every interaction known of three calls already occurs with two.  One check
of each kind separates "some checks passed" from "all of them" and the HTTP checks
that a task never polls from those it does.  `Followed` selects the passive goroutines: the
safety run follows the logger and the recorder, and the liveness run follows the
starter.  These goroutines do not influence one another, and nobody reads what
they write; leaving one out removes states and no behaviour of the others.
Calls are interchangeable, and so are clients, so the safety runs use symmetry; the
liveness runs do not.  The graph of the run `runner` has a diamond and a second root; with fewer
workers than ready tasks, as many, and more, all three cases occur.

In `processor` three objects are the least that let a name be used a second time while
an object of the first life still has a user; two names make a service with a
dependency in each order of a batch; two clients are a handler that changes the
registry and one that works on what it looked up before.  `CallAny` admits a
`CreateBatch` only if the objects suffice, so that the bound never blocks a call half-way.  With them a cycle by name does arise (created `a`, `b` after
`a`, removed `a`, created `a` after `b`), so that `Twins` in the properties is no idle exception.
Deadlock is not checked there: after a `Start` of an unknown name, or behind a stop that hangs, every client may
wait for a lock.  The constraint of `processor_live`, `NoTwins`, takes nothing from what it shows: objects keep
their names, so that `Twins` stays true once it is, and `ManagementReturns` claims nothing of
such a behaviour.

In `svcinit` two services are the least that let one be healthy while another has crashed, and the
one in `FailOn` differ from the one that is not.  In `itest` two services are the least
with a dependency; two commands are svcinit's own and one that meets it; with two
builds a service can become outdated once before and once while a command works.
`MaxBuilds` bounds only the environment: builds stop, nothing waits for them.  Deadlock
is not checked there, because all commands end and services need not die.  In
`algorithms` four tasks are the least with a diamond and a tail, three
directories the least in which a cycle of two hangs on a third one, and in which what one
generator finds makes another one find a third.  The graph of imports and that of deps are the
same in the run, since a directory is seldom of both languages; the proofs do not need this.

**Shape of the safety properties.**  The daemon's invariants hold without a
restriction.  A task can be stopped and started again while its first process
still runs, because `stop` of a task only sets the status (`service.go:682`);
its later runs then share a channel, which run `task_panic` shows.
`Apart == Daemon \/ FirstRun` names the part of the behaviours where that has not
happened yet, and the invariants that fail after it are stated under it:
`FirstRun` says that all forks so far belong to one call of Start.
`FirstRunHonest` and `VersionOfHealthyRun` are stated for the first run of both types,
because a daemon's second run can be marked by the first one's waiter
(run `stale_healthy`) and can be given the first one's version (560-566).

**Fairness.**  `Fairness` of `ServiceDef` says that the Go scheduler runs every
goroutine that can run (weak fairness of the steps of a run, of each poller and
of each stop call), and that a launcher with a pending SIGKILL is reaped.  A
mutex is handed over: weak fairness suffices, as the only long holder is a stop
call and the properties that depend on it hold the moment it blocks for ever.
Nothing is assumed of the callers, of the success of a health check, or of a
launcher that was not killed.  `TopologicalRunner` assumes that workers are
scheduled and that the tasks they run return; for the starter that is
`NoForgottenStarter`, within its limits.

`FairSpec` of `SvcCtlProcessor` has strong fairness for what waits for the lock:
`sync.RWMutex` keeps new readers out once a writer waits, and lets waiting readers in
before the next writer, so nobody waits for ever behind others that come and go.
What has the lock or needs none only needs its goroutine scheduled (weak fairness).
Clients need not call, and no service need become healthy.

`FairSpec` of `SvcInit` schedules the launcher (weak fairness) and lets time pass while it polls
for svcd (strong fairness of `Deadline`, which becomes possible after every poll).  RPCs
return, if only with the error of a dead svcd.  That services become healthy and
that the test ends is not assumed, and `LauncherMovesOn` names these two as the only places
where the launcher may stay for ever.

**Liveness as far as it goes.**  `WatchedStopReturns` excludes the state in which
a waiter has not captured its process yet, since that is the deadlock of `stop_hangs`.
`DeathNoticed` says that a dead daemon's status leaves STARTING and STARTED.
`NoForgottenStarter` says that a waiting starter always has someone working for
it again and again: there is no timeout in the code, so a check that fails for
ever keeps it waiting, and this counts as work.
`ManagementReturns` leaves out `Start` for the same reason, and names the three ways in
which the other calls may wait for ever.  Two are `Blocked`: a stop that never returns, for the call
that made it, for those that ask for the same service, and, if it is one of a `RemoveBatch`, for all that
come to the registry; and a read lock that is never given back (`leaked`), by a `Start` of an unknown name or
by a `Status` that waits behind such a stop, for those that write and those that come behind
them.  The third is a name with two objects (`Twins`), by which the tasks of a runner can wait
for each other.  What is left is that whatever else fails, a call comes to its end, and that a stop
which hangs outside `RemoveBatch` keeps nobody from the other services.

## 4. What the runs found

Four disagreements of the code with its comments are runs of their own:

1. **A stop right after a start hangs** (`stop_hangs`).  `stop` holds `svc.lock`
   (615) until `waitCh` is closed; the goroutine that closes it takes the same lock
   first (354).  If `stop` wins, the launcher is killed, nobody waits for it, and
   the call never returns; neither does any other operation on the service.  In
   svcd this spreads: a `RemoveBatch` that meets it keeps the write lock of the registry for ever
   (`processor.go:85`), and a `Status` waits for the service's lock with the read lock held (185), so that
   the next call that writes waits for ever as well, and all calls behind it.
2. **A stale waiter marks the next run healthy** (`stale_healthy`).  The waiter of
   run 1 has passed its WaitGroup (383) when the service is stopped and started
   again; it then finds STARTING and sets STARTED, with no check of run 2 made.
3. **A restarted task panics svcd** (`task_panic`).  Both waiters close the channel
   `svc.waitCh` holds at that time (393).
4. **A removed service runs** (`removed_runs`).  A service that depends on it still
   points to it (`service.go:141`), so that its start starts the removed one again.
   After the removal of the user too, no call can reach that launcher.

Trial runs and the reading of the code showed more.  Some of it is recorded as hazards,
and a property that holds only apart from one of these names the exception:

- `processor.go:127`: `Start` of an unknown name returns with the read lock held.
  The next `CreateBatch` or `RemoveBatch` waits for ever, and behind it every other
  call.  A `StartAll` gets there by itself if a service is removed between
  its two RPCs.
- `processor.go:88`: a name that is removed and created again with other
  dependencies can close a cycle by name; then all workers of a runner sleep.
- `processor.go:285-294`: the unsafe `StopAll` stops the registered services only, not
  removed ones that they depend on.

- `service.go:373-377`: the watcher of run 1 can put run 2 into ERROR after it.
- `service.go:560-566`: the version stored for run 2 can be that of run 1.
- `service.go:645`: a kill that meets a reaped launcher whose channel is not
  closed yet fails; the status stays STOPPING, and a later stop mends it.
- `service.go:627`: after a failed fork the status is ERROR and the next stop
  dereferences a nil `Cmd.Process`.
- `service.go:408-411`: the HTTP checks of a *task* are never polled.
- `service.go:384`: a daemon without checks is STARTED at once, though 493-494
  describe a start as the wait for its checks.
- `service.go:677-684`: the stop of a task does not wait for its process (613
  says that it does).

Of the launcher and the commands:

- `svcinit.go:72`: the error of the diagnostics RPC is lost, and its empty list counts
  as "no service failed" (`blind`).
- `svcinit.go:180-212`: the report of races is written from scratch, so the test's own
  report, with its failures, is replaced.
- `svcinit.go:557`: `os.Exit` after a crashed service skips the cleanups: svcd and the services
  stay, and the report of the test is not rewritten.
- With `-svc.create-only` no stop is registered, and services that the test started
  outlive svcd.
- `svcctl.go:350`: an auto-restart that exits at the first error leaves its Stops and Starts
  at work in svcd, where they meet the next command; `excused` is about that.
- `bzl-itest-wait.sh:16-20`: an exit file that was created and not yet written gives an empty code, and
  `exit` with an empty code is success (`misread`).

Of the generation of BUILD files:

- `build-merge/main.go:200` takes for granted that two rules of one name are of one kind: a Go
  and a Python rule with the same name merge without an error.
- `main.go:456-463`: a symbol loaded under two names keeps the first only, and rules of a
  later file that use the second have no load (`NothingIsLost` names it).
- An `additional_` dict becomes a call of `update`, whose value is `None` in Starlark, so
  that the argument loses everything.
- `gazel.py:189-213`: a merge that fails leaves a `BUILD` with the header and the files merged
  so far; a later `--reverse-deps-generation` searches these.
- `lib/genbuildgolib.go:289`: the map of build tags is made once for a package
  (`gen-build-go.go:190`) and cut down in place to the sources of each rule as it is written:
  the library's comes first, so that the tags of test files are gone when the rules of
  the tests are written.  Not modelled: found by reading.
- `gen-build-go.go:289`: `%w` is given a string, so that the error it formats is unreadable and
  wraps nothing; the failure is still reported.

## 5. What is proved

### ServiceDef, for any sets of calls and checks

`IInv` is the conjunction of the types (`TypeOK`), what is known of each run from
the position of its goroutines (`Goroutines`), what is known of the current run and
of the lock's holder (`Current`), and `Own`: as long as `Apart` holds, every run is
in order on its own (its goroutines captured its own process, its channel is closed
only by its own watcher and after its exit, its reports are collected before) and
nothing was closed twice.

None of the properties is inductive alone.  That two launchers never overlap
needs that a stop which sets STOPPED has seen the current channel closed, which
needs that this channel belongs to the current run and is closed by its own
watcher only, which needs that this watcher captured the right process; and that
needs to know that no stop can pass between the fork and the capture, which is
what the lock and the status give.  `Own` is guarded by `Apart`, and the proof
uses that `Apart` can only become false (`ApartBefore`): a step that ends in an
apart state began in one.

Each part has its own preservation lemma (`NextTypeOK`, `NextGoroutines`,
`NextCurrent`, `NextOwn`), and in each there is one step per action.  The theorems:
`Typing`, `NeverTwoProcesses`, `ClosedAfterExit`, `NeverMixedUp`, `NoReportLost`,
`LogOutlivesProcess`, and `FollowsLifeCycle`, the refinement of `ServiceLifeCycle`: each
locked section that sets the status is one abstract step.  They assume that
`None` names no call and that the types are the two of the code.

### TopologicalRunner, for any set of tasks and workers

From `IInv` (types, `OnePlace`, `DepsFirst`, `SleepersAreWoken`, and `ErrorSet`, which
ties `err` to the tasks that failed) follow `RunOnce`,
`OrderKept`, `NoLostWakeup` and `Implementation`, the refinement of
`OrderedTasks`: there is an abstract step for each turn of a worker, and when `Run` returns all
workers have left, so that `err`, which `ErrorSet` ties to the broken tasks, is the true reply.  The assumptions are that the list ranks the tasks without ties,
that there is a worker, and `AcyclicAssumption`: every set of tasks contains one
that depends on none of the set.  This is what forbids the last awake worker to
find nothing ready while tasks are left; it is needed and used only there.

### SvcCtlProcessor, for any sets of names, objects, clients and batches

`IInv` has the types; `Heap` (a registered object was created under that name, and
nothing points to an object that was not made, which is why `FreshStopped` can say
that it is STOPPED); `Acyclic` (every set of objects has one that depends on none of
the set and one that none of it depends on); `Runners` (what is in `list`, `todo`,
`running`, `completed`, that without an error no task gets lost between them, that a
stop which is still running is one that never returns, so that only tasks of a starter end, and that a
starter lists what its tasks depend on); `Places` (no task is in two of them, and after an
error one is in none);
`Locking` (who is in a critical section holds the write lock); `Adding` and `Quiet`.

`Acyclic` holds because dependencies are looked up before the service is registered:
the new object points to older ones and nothing points to it.  With the
assumption that no name has two objects, order by pointer becomes order by key, which
is `SoundRunners`, and from it `PoolsGetWhatTheyAssume`: the graph of each call satisfies
`DepsAssumption` and `AcyclicAssumption`, which the proofs about `TopologicalRunner` make.  `BatchesAreTrue` needs `Adding`: every service of the batch is
registered or in one of the two lists, which together are no longer than
the last round's list, and as long as they are exactly as long, nothing was registered
in this round and what was put off still cannot be created.  `StopAllIsComplete`
and `UsersFirst` need `Quiet`: what a `StopAll` stopped stays STOPPED while no
`Start` works (`StoppedStays`), and what was registered later was never started.

`RunnersImplementOrder` is the refinement of `OrderedTasks` for each client, and
`RunnersInOrder` its steps.  `RunnerChanges` says what any step of anyone does to the runner
of one client: nothing, begin it, a step of a task, or return.  While other clients change
the registry the objects of the list keep their names and dependencies, so that `Graph`
stays what it was (`GraphStays`), though the names in it may by then belong to others.
`NeedsAreDeps` is the step from keys to tasks, in both directions: ready by key is ready
by dependency, because the tasks have different names and nothing that is needed is
missing among them.  Thus, twice used names apart, the composition is closed: the handlers hand on what the pool
assumes, the pool does what `OrderedTasks` says, and the handlers are modelled with that.
`ServicesLive` is the refinement of `ServiceLifeCycle` for each object.
The assumptions are that batches consist of services, requests of names, and that
`None` is none of the names, objects and clients.

### The first run of a service

`FirstRunHonest` and `VersionOfHealthyRun` are about `FirstRun`, which can only become false.
While it holds there is one process and one channel, and the invariant (`Polled`, `First`) says
which checks a run's pollers have passed when the waiter passes its WaitGroup, and that
the recorder reads the version of its own run.  The theorems are `HonestAtFirst` and
`VersionAtFirst`.

### SvcInit, for any sets of services

`Stack` says which cleanups are registered at each place of `main`, and from this
`Stopping` concludes where services can be running.  `Crashes`
follows what is known of a crash from the status of the service through the two RPCs to the exit
code.  `Races` and `Verdicts` do the same for races and for the outcome of the test, down to
the final report; they need the order of the stack: the stop of the services
comes before the last look for races, and the copy of the test's report comes before it
too.  The theorems: `Typing`, `LeavesNothing`, `CrashesAreSeen`, `RacesAreReported`,
`VerdictsAreOne`.

### SvcCtl and Itest, for any services, clients and commands

`Phases` says what may be at work at each place of a command.  `Restarting` is the
argument of `RestartsAreComplete`: after the Stops a service that is up was forked since, and
each service wanted has a task left, or an error, or became healthy since.
`FailsForAReason` needs `Smooth`: as long as nothing disturbs an auto-restart, no service is
on the way up during its Stops, and during its Starts every service whose task is
done is up, so that no dependency is missed; and `Alone`: two commands that overlap are
both excused, handlers of exited ones included.  `Awaited` ties a starting service
to a task.  Dependencies need not be acyclic.  `ServicesLive` is the refinement of
`ServiceLifeCycle` for each service, whatever commands and failures there are.

`Itest` steps are `SvcCtl` steps or stutters, so that the invariant of `SvcCtlProofs` holds
unchanged, and with it both of its theorems.  `TestMeetsItsServices` adds
`Launching` (the start-all has one request, for everything), `Settling` (a service
with no task left is up or in `ERROR`) and `ExitCodes`.

### BzlGen, for any workspace

`Walk` is the invariant of a depth-first search with cycles: what a package on the stack imports is
processed, on the stack, or in its list, and what was on the command line is processed, on
the stack, or not yet reached.  So `DependenciesBefore` holds when a package is taken off
the stack, and when the stack is empty all that was asked for is processed.
`PyWalk` is the same for Python.  `FilesLeft` ties what a generator remembers to the files it
left, `Rounds` says what each one has done in the rounds so far: for all
former targets everything, for the current ones as far as the round has come.  When a
round ends, its targets join the former ones, and the new ones are what the loop found, so
that an empty difference leaves a closed pair of sets: the directories with files and those that were asked for,
and the directories the generator for Python has visited (`Converged`).  Hence everything in `Wanted` has its
files.  The other direction is `OnlyNeeded`: targets, files, stacks and lists stay within
every closed pair, whatever the order.  Together they are `MissesNothing`.

### TaskGraph and CriticalPath, for any finite acyclic graph

`MakeInv` ties the loops to `Needed`: everything listed or queued is needed, and what a
listed task depends on is listed or queued, so that an empty queue leaves a closed set, which has all
of `Needed` (`NeededIsLeast`).  `reversedDeps` is the converse of the graph, cut down to the
tasks listed so far.  For the second loop of a reversed runner the queue already has all tasks, and
it only has to be shown that turned around they lead nowhere else.  That the runner can be worked
off is `AcyclicConverse`: a finite graph without a cycle has none turned around.
`RunnersAreComplete` concludes with `Acyclic(Dependents, Needed)`, which is what
`AcyclicAssumption` demands of a `TopologicalRunner`; `SoundRunners` in
`SvcCtlProcessor` gives the premise.  So the three modules agree on what they hand on
to each other.

`PathInv` says that each cost kept is the right one and rests on costs that are kept
(`Memoised`), and that the cost of the path so far and the highest cost of a way to go on add up to
the highest cost there is (`Following`).  `NoChainIsSlower` then needs that no chain is costlier than the
highest cost, which is an induction on its length (`ChainBound`).

The provers have no rule of induction that they could use, so it is proved: a subset of `Nat`
has a smallest member, because the strict subset order of a finite set is well-founded
(`SmallestSet`, `SmallestMember`), and `Induction` is that for the set of
counterexamples.  The same lemma gives the recursive function `Sums` its values (`SumsExist`,
`SumsOf`).

### BuildMerge, for any files and any number of generators

`MergeInv` says of `build`, after the first `merged` files, what the properties say of the result:
the rules (`RulesSoFar`), licences and loads of these files are there, and as long as
only files of generators were merged a rule has, for exactly the arguments given so far, the value of
the last file that gives one, and no `additional_` ones (`ValuesSoFar`).  This last part does not survive
the merge of `BUILD.in`, and need not: `WrittenMerged` says what that merge makes of it.  That a
load once made is never dropped again needs that every load of `build` has a rule that uses it
(`LoadsSoFar`), and that a merge changes no kind.  `failed => Conflict` is half of "for
these reasons and no other"; the other half comes from the licences and the last merge.
The theorems are `AuthorHasTheLastWord` and `MergeLosesNothing`; they assume that only `BUILD.in`
has `additional_` arguments (`FilesAssumption`).

### What stays with TLC

Liveness is out of the prover's reach (`WatchedStopReturns`, `DeathNoticed`,
`NoForgottenStarter`, `Termination`, `ManagementReturns`, `LauncherMovesOn`), and the four runs
that show a disagreement are counterexamples.  Every other property of the runs is the
conclusion of a theorem.

## 6. What is not modelled, and the plan

Modelled are the service, the worker pool and its algorithms, the processor, the commands,
the launcher, the start of an interactive test, the rounds of bzl gen and the
merge.  What is left, in this order:

1. `ProcTree`: the descendants of a launcher while it forks, and the signals of
   `forceSignalProcessTree` with a list made once.
2. The life of containers in `itest.py`: removal by name after an interactive session, the
   symlink to the current one, cleaning.
3. bzl gen that is ended between two merges and run again; the reduction of build tags
   in `gen-build-go`; the search of modules in `gen_build_py.py`.

Left out for good: parsing, formatting, archives, the Starlark rules and third
party code; their reasons are in the table above and in `PROJECT.json`.
