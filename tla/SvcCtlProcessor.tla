---------------------------- MODULE SvcCtlProcessor ----------------------------
(***************************************************************************)
(* The RPC handlers of svcd, svcctl/processor.go: the registry of services *)
(* under a read-write lock, and the start and stop of many services by a   *)
(* topological.Runner.  A service object outlives its registration, and    *)
(* Dependents are pointers to objects, so that the registry is a function  *)
(* from names to objects and the heap of objects only grows.               *)
(*                                                                         *)
(* A service is a daemon as ServiceDef has it: its operations take         *)
(* svc.lock and appear atomic, but for a stop that begins before the       *)
(* goroutine of the last start has had the lock: it never returns, and     *)
(* whatever asks for that lock waits for ever (ServiceDef's StopReturns).  *)
(* What ends svcd itself is left out: a stop after a failed fork, and a    *)
(* task that panics.  A runner keeps the promise of OrderedTasks.          *)
(***************************************************************************)
EXTENDS Naturals, Sequences, FiniteSets

CONSTANTS
    Names,      \* the service names
    Objects,    \* the addresses of serviceDef objects; bounds the creations
    Clients,    \* the clients, each with one call at a time
    Batches,    \* the requests of CreateBatch
    NameSets,   \* the requests of RemoveBatch and Start
    None        \* nil

Services == [name : Names, deps : SUBSET Names, valid : BOOLEAN]

ASSUME BatchesAssumption == Batches \subseteq Seq(Services)
ASSUME NameSetsAssumption == NameSets \subseteq SUBSET Names
ASSUME ObjectsAssumption == Objects \subseteq Nat
ASSUME NoneAssumption == None \notin Names \cup Objects \cup Clients

VARIABLES
    services,   \* services[n]: the object registered under the name n, or None
    name,       \* name[o]: the name of object o, None if it was not created yet
    dependents, \* dependents[o]: the objects it depends on
    status,     \* status[o]: the status of the service
    unwatched,  \* the started objects whose goroutine has not had svc.lock yet
    stuck,      \* stuck[c]: the objects for which the call of c waits for ever
    writer,     \* the client whose handler has called s.lock.Lock, or None
    leaked,     \* a read lock was taken and is never given back
    toAdd,      \* the local variables of the CreateBatch that holds the lock
    toAddNext,
    prevLen,
    pc,         \* pc[c]: where the call of client c is
    op,         \* op[c]: its kind
    batch,      \* batch[c]: the request of CreateBatch
    names,      \* names[c]: that of the others, as far as RemoveBatch has not met it
    list,       \* list[c]: the tasks of the runner of the call
    todo,       \* todo[c]: those not begun yet
    running,    \* running[c]: those that run
    completed,  \* completed[c]: those that succeeded
    err,        \* err[c]: a task returned an error
    quiet       \* history, quiet[c]: no Start was at work since c took its snapshot

registryVars == <<services, name, dependents>>
serviceVars == <<status, unwatched, stuck>>
lockVars == <<writer, leaked>>
batchVars == <<toAdd, toAddNext, prevLen>>
callVars == <<pc, op, batch, names>>
runnerVars == <<list, todo, running, completed, err>>
vars == <<registryVars, serviceVars, lockVars, batchVars, callVars, runnerVars, quiet>>

Ops == {"none", "CreateBatch", "RemoveBatch", "Start", "StartAll",
        "Stop", "StopAll", "StopAllUnsafe", "Status"}
Starting == {"Start", "StartAll"}
Live == {"STARTING", "STARTED"}    \* the launcher runs

Init ==
    /\ services = [n \in Names |-> None]
    /\ name = [o \in Objects |-> None]
    /\ dependents = [o \in Objects |-> {}]
    /\ status = [o \in Objects |-> "STOPPED"]
    /\ unwatched = {}
    /\ stuck = [c \in Clients |-> {}]
    /\ writer = None
    /\ leaked = FALSE
    /\ toAdd = <<>>
    /\ toAddNext = <<>>
    /\ prevLen = 0
    /\ pc = [c \in Clients |-> "idle"]
    /\ op = [c \in Clients |-> "none"]
    /\ batch = [c \in Clients |-> <<>>]
    /\ names = [c \in Clients |-> {}]
    /\ list = [c \in Clients |-> {}]
    /\ todo = [c \in Clients |-> {}]
    /\ running = [c \in Clients |-> {}]
    /\ completed = [c \in Clients |-> {}]
    /\ err = [c \in Clients |-> FALSE]
    /\ quiet = [c \in Clients |-> FALSE]

Fresh == {o \in Objects : name[o] = None}
Registered == {services[n] : n \in Names} \ {None}
NamesOf(S) == {name[o] : o \in S}

Idle(c) == pc[c] \in {"idle", "ok", "error"}

\* RLock is granted: with sync.RWMutex a waiting writer keeps readers out.
RLock == writer = None

\* Lock was granted to c: every reader has left.
Locked(c) == writer = c /\ ~leaked

\* The call returns; what it kept in its variables is gone.
Return(c, reply) ==
    /\ pc' = [pc EXCEPT ![c] = reply]
    /\ op' = [op EXCEPT ![c] = "none"]
    /\ batch' = [batch EXCEPT ![c] = <<>>]
    /\ names' = [names EXCEPT ![c] = {}]
-----------------------------------------------------------------------------
(* The calls.                                                             *)

\* The creations that calls in progress may still make.
Pending ==
    UNION {{c} \X DOMAIN batch[c] : c \in {d \in Clients : ~Idle(d) /\ op[d] = "CreateBatch"}}

Call(c, kind, svcs, requested) ==
    /\ Idle(c)
    /\ op' = [op EXCEPT ![c] = kind]
    /\ batch' = [batch EXCEPT ![c] = svcs]
    /\ names' = [names EXCEPT ![c] = requested]
    /\ pc' = [pc EXCEPT ![c] =
                CASE kind \in {"CreateBatch", "RemoveBatch"} -> "lock"
                  [] kind \in {"StartAll", "Status"} -> "list"
                  [] OTHER -> "lookup"]
    /\ UNCHANGED <<registryVars, serviceVars, lockVars, batchVars, runnerVars, quiet>>

CallAny(c) ==
    \/ \E svcs \in Batches :
        /\ Cardinality(Pending) + Len(svcs) <= Cardinality(Fresh)
        /\ Call(c, "CreateBatch", svcs, {})
    \/ \E kind \in {"RemoveBatch", "Start"}, requested \in NameSets : Call(c, kind, <<>>, requested)
    \/ \E n \in Names : Call(c, "Stop", <<>>, {n})
    \/ \E kind \in {"StartAll", "StopAll", "StopAllUnsafe", "Status"} : Call(c, kind, <<>>, {})
-----------------------------------------------------------------------------
(* CreateBatch, with the write lock held.                                 *)

LockCreate(c) ==
    /\ pc[c] = "lock"
    /\ op[c] = "CreateBatch"
    /\ writer = None
    /\ writer' = c
    /\ toAdd' = batch[c]
    /\ toAddNext' = <<>>
    /\ prevLen' = Len(batch[c])
    /\ pc' = [pc EXCEPT ![c] = "adding"]
    /\ UNCHANGED <<registryVars, serviceVars, leaked, op, batch, names, runnerVars, quiet>>

\* Mutant of Known: the service is registered before its dependencies are resolved.
KnownItself(svc, o) == [services EXCEPT ![svc.name] = o]

\* The map in which NewService looks up the dependencies of svc, to be object o.
Known(svc, o) == services

\* Mutant of Creatable: an unknown dependency is not noticed.
CreatableUnresolved(svc, o) ==
    /\ services[svc.name] = None
    /\ svc.valid

Creatable(svc, o) ==
    /\ services[svc.name] = None
    /\ svc.valid
    /\ \A d \in svc.deps : Known(svc, o)[d] # None

Create(svc, o) ==
    /\ services' = [services EXCEPT ![svc.name] = o]
    /\ name' = [name EXCEPT ![o] = svc.name]
    /\ dependents' = [dependents EXCEPT ![o] = {Known(svc, o)[d] : d \in svc.deps}]

\* A service that cannot be created now is tried again in the next round.
CreateOne(c) ==
    /\ pc[c] = "adding"
    /\ Locked(c)
    /\ toAdd # <<>>
    /\ toAdd' = Tail(toAdd)
    /\ \E o \in Fresh :
        /\ \A p \in Fresh : o <= p
        /\ \/ /\ Creatable(Head(toAdd), o)
              /\ Create(Head(toAdd), o)
              /\ UNCHANGED toAddNext
           \/ /\ ~Creatable(Head(toAdd), o)
              /\ toAddNext' = Append(toAddNext, Head(toAdd))
              /\ UNCHANGED registryVars
    /\ UNCHANGED <<serviceVars, lockVars, prevLen, callVars, runnerVars, quiet>>

\* Mutant of NoProgress: a second round is never made.
OneRound == toAddNext # <<>>

\* The round created nothing.
NoProgress == Len(toAddNext) = prevLen

CreateRound(c) ==
    /\ pc[c] = "adding"
    /\ Locked(c)
    /\ toAdd = <<>>
    /\ toAddNext # <<>>
    /\ ~NoProgress
    /\ toAdd' = toAddNext
    /\ toAddNext' = <<>>
    /\ prevLen' = Len(toAddNext)
    /\ UNCHANGED <<registryVars, serviceVars, lockVars, callVars, runnerVars, quiet>>

CreateReturn(c) ==
    /\ pc[c] = "adding"
    /\ Locked(c)
    /\ toAdd = <<>>
    /\ \/ toAddNext = <<>> /\ Return(c, "ok")
       \/ toAddNext # <<>> /\ NoProgress /\ Return(c, "error")
    /\ writer' = None
    /\ toAddNext' = <<>>
    /\ prevLen' = 0
    /\ UNCHANGED <<registryVars, serviceVars, leaked, toAdd, runnerVars, quiet>>
-----------------------------------------------------------------------------
(* The services, and RemoveBatch, which holds the write lock over Stop.   *)

\* A stop holds svc.lock for ever.
Hung(o) == \E c \in Clients : o \in stuck[c]

\* Stop returned: the launcher is gone, and the goroutine of its start has seen
\* that.  With an error the status stays STOPPING.
StopService(o, ok) ==
    /\ \/ /\ status[o] = "STOPPED"
          /\ ok
          /\ UNCHANGED status
       \/ /\ status[o] # "STOPPED"
          /\ ~Hung(o)
          /\ ok => o \notin unwatched
          /\ status' = [status EXCEPT ![o] = IF ok THEN "STOPPED" ELSE "STOPPING"]
    /\ UNCHANGED <<unwatched, stuck>>

\* The stop waits for what the goroutine says, which waits for svc.lock; or it
\* waits for a stop that does so.
StopHangs(c, o) ==
    /\ status[o] # "STOPPED"
    /\ o \in unwatched
    /\ status' = [status EXCEPT ![o] = "STOPPING"]
    /\ stuck' = [stuck EXCEPT ![c] = @ \cup {o}]
    /\ UNCHANGED unwatched

\* Start returned: the log file or the fork may fail; a service that is not
\* STOPPED is left alone.
StartService(o, ok) ==
    /\ ~Hung(o)
    /\ \/ status[o] # "STOPPED" /\ ok /\ UNCHANGED <<status, unwatched>>
       \/ /\ status[o] = "STOPPED"
          /\ \E s \in IF ok THEN {"STARTING"} ELSE {"STOPPED", "ERROR"} :
               status' = [status EXCEPT ![o] = s]
          /\ unwatched' = IF ok THEN unwatched \cup {o} ELSE unwatched
    /\ UNCHANGED stuck

\* Start waits for svc.lock.
StartHangs(c, o) ==
    /\ Hung(o)
    /\ stuck' = [stuck EXCEPT ![c] = @ \cup {o}]
    /\ UNCHANGED <<status, unwatched>>

\* The goroutine of the start has had svc.lock, and waits for the launcher.
Watch(o) ==
    /\ o \in unwatched
    /\ ~Hung(o)
    /\ unwatched' = unwatched \ {o}
    /\ UNCHANGED <<registryVars, status, stuck, lockVars, batchVars, callVars, runnerVars, quiet>>

GetHealthy(o) ==
    /\ status[o] = "STARTING"
    /\ o \notin unwatched
    /\ status' = [status EXCEPT ![o] = "STARTED"]
    /\ UNCHANGED <<registryVars, unwatched, stuck, lockVars, batchVars, callVars, runnerVars, quiet>>

Die(o) ==
    /\ status[o] \in Live
    /\ o \notin unwatched
    /\ status' = [status EXCEPT ![o] = "ERROR"]
    /\ UNCHANGED <<registryVars, unwatched, stuck, lockVars, batchVars, callVars, runnerVars, quiet>>

LockRemove(c) ==
    /\ pc[c] = "lock"
    /\ op[c] = "RemoveBatch"
    /\ writer = None
    /\ writer' = c
    /\ pc' = [pc EXCEPT ![c] = "removing"]
    /\ UNCHANGED <<registryVars, serviceVars, leaked, batchVars, op, batch, names, runnerVars, quiet>>

\* RemoveBatch has the lock, and the last stop has returned.
Removing(c) ==
    /\ pc[c] = "removing"
    /\ Locked(c)
    /\ stuck[c] = {}

RemoveOne(c, n) ==
    /\ Removing(c)
    /\ n \in names[c]
    /\ services[n] # None
    /\ StopService(services[n], TRUE)
    /\ services' = [services EXCEPT ![n] = None]
    /\ names' = [names EXCEPT ![c] = @ \ {n}]
    /\ UNCHANGED <<name, dependents, lockVars, batchVars, pc, op, batch, runnerVars, quiet>>

\* Mutant of Unlock: an error returns with the lock held.
UnlockNot == UNCHANGED writer

Unlock == writer' = None

\* An unknown name or a stop that failed; what was removed stays removed.
RemoveFails(c, n) ==
    /\ Removing(c)
    /\ n \in names[c]
    /\ IF services[n] = None THEN UNCHANGED serviceVars ELSE StopService(services[n], FALSE)
    /\ Unlock
    /\ Return(c, "error")
    /\ UNCHANGED <<registryVars, leaked, batchVars, runnerVars, quiet>>

\* The write lock is never given back.
RemoveHangs(c, n) ==
    /\ Removing(c)
    /\ n \in names[c]
    /\ services[n] # None
    /\ StopHangs(c, services[n])
    /\ UNCHANGED <<registryVars, lockVars, batchVars, callVars, runnerVars, quiet>>

RemoveReturn(c) ==
    /\ Removing(c)
    /\ names[c] = {}
    /\ writer' = None
    /\ Return(c, "ok")
    /\ UNCHANGED <<registryVars, serviceVars, leaked, batchVars, runnerVars, quiet>>
-----------------------------------------------------------------------------
(* Start, Stop and StopAll: a look at the registry with the read lock,    *)
(* then a runner without it.                                              *)

\* The tasks NewRunner makes of root objects: everything reachable, one object
\* for each name.  (Which one of two with the same name depends on the order.)
Listing(roots) ==
    {S \in SUBSET (Objects \ Fresh) :
        /\ roots \subseteq S
        /\ \A o, p \in S : name[o] = name[p] => o = p
        /\ \A o \in S : NamesOf(dependents[o]) \subseteq NamesOf(S)
        /\ \A o \in S \ roots : \E p \in S : o \in dependents[p]}

NewRunner(c, tasks) ==
    /\ list' = [list EXCEPT ![c] = tasks]
    /\ todo' = [todo EXCEPT ![c] = tasks]
    /\ running' = [running EXCEPT ![c] = {}]
    /\ completed' = [completed EXCEPT ![c] = {}]
    /\ err' = [err EXCEPT ![c] = FALSE]
    /\ pc' = [pc EXCEPT ![c] = "run"]

\* Status, which is also the first RPC of svclib.StartAll; Diagnostics is the
\* same.  It asks each service for its pid, with svc.lock.
ListServices(c) ==
    /\ pc[c] = "list"
    /\ RLock
    /\ stuck[c] = {}
    /\ \A o \in Registered : ~Hung(o)
    /\ IF op[c] = "Status" THEN Return(c, "ok")
       ELSE /\ names' = [names EXCEPT ![c] = {n \in Names : services[n] # None}]
            /\ pc' = [pc EXCEPT ![c] = "lookup"]
            /\ UNCHANGED <<op, batch>>
    /\ UNCHANGED <<registryVars, serviceVars, lockVars, batchVars, runnerVars, quiet>>

\* It waits for ever, with the read lock.
StatusHangs(c) ==
    /\ pc[c] = "list"
    /\ RLock
    /\ stuck[c] = {}
    /\ \E o \in Registered : Hung(o) /\ stuck' = [stuck EXCEPT ![c] = {o}]
    /\ leaked' = TRUE
    /\ UNCHANGED <<registryVars, status, unwatched, writer, batchVars, callVars, runnerVars, quiet>>

StartLookup(c) ==
    /\ pc[c] = "lookup"
    /\ op[c] \in Starting
    /\ RLock
    /\ \A n \in names[c] : services[n] # None
    /\ \E tasks \in Listing({services[n] : n \in names[c]}) : NewRunner(c, tasks)
    /\ quiet' = [d \in Clients |-> FALSE]
    /\ UNCHANGED <<registryVars, serviceVars, lockVars, batchVars, op, batch, names>>

\* An unknown name: the handler returns without RUnlock.
StartLookupFails(c) ==
    /\ pc[c] = "lookup"
    /\ op[c] \in Starting
    /\ RLock
    /\ \E n \in names[c] : services[n] = None
    /\ leaked' = TRUE
    /\ Return(c, "error")
    /\ UNCHANGED <<registryVars, serviceVars, writer, batchVars, runnerVars, quiet>>

StopLookup(c) ==
    /\ pc[c] = "lookup"
    /\ op[c] = "Stop"
    /\ RLock
    /\ \E n \in names[c] :
        /\ services[n] # None
        /\ NewRunner(c, {services[n]})
    /\ UNCHANGED <<registryVars, serviceVars, lockVars, batchVars, op, batch, names, quiet>>

StopLookupFails(c) ==
    /\ pc[c] = "lookup"
    /\ op[c] = "Stop"
    /\ RLock
    /\ \E n \in names[c] : services[n] = None
    /\ Return(c, "error")
    /\ UNCHANGED <<registryVars, serviceVars, lockVars, batchVars, runnerVars, quiet>>

StopAllLookup(c) ==
    /\ pc[c] = "lookup"
    /\ op[c] \in {"StopAll", "StopAllUnsafe"}
    /\ RLock
    /\ \E tasks \in IF op[c] = "StopAll" THEN Listing(Registered) ELSE {Registered} :
        NewRunner(c, tasks)
    /\ quiet' = [quiet EXCEPT ![c] = \A d \in Clients : ~(pc[d] = "run" /\ op[d] \in Starting)]
    /\ UNCHANGED <<registryVars, serviceVars, lockVars, batchVars, op, batch, names>>

\* The tasks of the list of c with o among their Dependents, by name.
Users(c, o) == {u \in list[c] : name[o] \in NamesOf(dependents[u])}

\* Mutant of Needs: the stopper is not reversed.
NeedsForward(c, o) == IF op[c] \in {"Stop", "StopAllUnsafe"} THEN {} ELSE NamesOf(dependents[o])

\* The keys that must be completed before o begins: of its dependents, or of
\* its users under the reversed runner.
Needs(c, o) ==
    CASE op[c] \in Starting -> NamesOf(dependents[o])
      [] op[c] = "StopAll" -> NamesOf(Users(c, o))
      [] OTHER -> {}

\* The errgroup of the unsafe variant runs every stop; a runner none after an error.
GoesOn(c) == op[c] = "StopAllUnsafe" \/ ~err[c]

\* Mutant of Ready: a task is marked done when it begins.
ReadyBegun(c, o) == Needs(c, o) \subseteq NamesOf(completed[c] \cup running[c])

Ready(c, o) == Needs(c, o) \subseteq NamesOf(completed[c])

\* startTask.Run, first half.
BeginStart(c, o) ==
    /\ pc[c] = "run"
    /\ op[c] \in Starting
    /\ o \in todo[c]
    /\ GoesOn(c)
    /\ Ready(c, o)
    /\ todo' = [todo EXCEPT ![c] = @ \ {o}]
    /\ \/ \E ok \in BOOLEAN :
           /\ StartService(o, ok)
           /\ running' = [running EXCEPT ![c] = IF ok THEN @ \cup {o} ELSE @]
           /\ err' = [err EXCEPT ![c] = @ \/ ~ok]
       \/ /\ StartHangs(c, o)
          /\ running' = [running EXCEPT ![c] = @ \cup {o}]
          /\ UNCHANGED err
    /\ UNCHANGED <<registryVars, lockVars, batchVars, callVars, list, completed, quiet>>

\* Its second half: waitTillHealthy.
EndStart(c, o) ==
    /\ pc[c] = "run"
    /\ o \in running[c] \ stuck[c]
    /\ status[o] # "STARTING"
    /\ running' = [running EXCEPT ![c] = @ \ {o}]
    /\ completed' = [completed EXCEPT ![c] = IF status[o] = "STARTED" THEN @ \cup {o} ELSE @]
    /\ err' = [err EXCEPT ![c] = @ \/ status[o] # "STARTED"]
    /\ UNCHANGED <<registryVars, serviceVars, lockVars, batchVars, callVars, list, todo, quiet>>

\* Mutant of TaskFailed: the error of a stop is dropped.
TaskFailedNever(ok) == FALSE

TaskFailed(ok) == ~ok

StopTask(c, o) ==
    /\ pc[c] = "run"
    /\ op[c] \notin Starting
    /\ o \in todo[c]
    /\ GoesOn(c)
    /\ Ready(c, o)
    /\ todo' = [todo EXCEPT ![c] = @ \ {o}]
    /\ \/ /\ \E ok \in BOOLEAN :
               /\ StopService(o, ok)
               /\ completed' = [completed EXCEPT ![c] = IF TaskFailed(ok) THEN @ ELSE @ \cup {o}]
               /\ err' = [err EXCEPT ![c] = @ \/ TaskFailed(ok)]
          /\ UNCHANGED running
       \/ /\ StopHangs(c, o)
          /\ running' = [running EXCEPT ![c] = @ \cup {o}]
          /\ UNCHANGED <<completed, err>>
    /\ UNCHANGED <<registryVars, lockVars, batchVars, callVars, list, quiet>>

\* After a successful start the handler asks each service how long it took,
\* with svc.lock.
RunnerReturn(c) ==
    /\ pc[c] = "run"
    /\ running[c] = {}
    /\ todo[c] = {} \/ ~GoesOn(c)
    /\ op[c] \in Starting /\ ~err[c] => \A o \in list[c] : ~Hung(o)
    /\ Return(c, IF err[c] THEN "error" ELSE "ok")
    /\ list' = [list EXCEPT ![c] = {}]
    /\ todo' = [todo EXCEPT ![c] = {}]
    /\ completed' = [completed EXCEPT ![c] = {}]
    /\ err' = [err EXCEPT ![c] = FALSE]
    /\ quiet' = [quiet EXCEPT ![c] = FALSE]
    /\ UNCHANGED <<registryVars, serviceVars, lockVars, batchVars, running>>
-----------------------------------------------------------------------------
\* What waits for the lock; sync.RWMutex lets everyone in that waits long enough.
Acquire(c) ==
    \/ LockCreate(c)
    \/ LockRemove(c)
    \/ ListServices(c)
    \/ StatusHangs(c)
    \/ StartLookup(c)
    \/ StartLookupFails(c)
    \/ StopLookup(c)
    \/ StopLookupFails(c)
    \/ StopAllLookup(c)

\* What a handler does that has it, or does not need it.
Proceed(c) ==
    \/ CreateOne(c)
    \/ CreateRound(c)
    \/ CreateReturn(c)
    \/ \E n \in Names : RemoveOne(c, n) \/ RemoveFails(c, n) \/ RemoveHangs(c, n)
    \/ RemoveReturn(c)
    \/ \E o \in Objects : BeginStart(c, o) \/ EndStart(c, o) \/ StopTask(c, o)
    \/ RunnerReturn(c)

Next ==
    \/ \E c \in Clients : CallAny(c) \/ Acquire(c) \/ Proceed(c)
    \/ \E o \in Objects : Watch(o) \/ GetHealthy(o) \/ Die(o)

Spec == Init /\ [][Next]_vars

\* Handlers are goroutines; nothing is assumed of the clients and the services.
Fairness == \A c \in Clients : SF_vars(Acquire(c)) /\ WF_vars(Proceed(c))

FairSpec == Spec /\ Fairness
-----------------------------------------------------------------------------
TypeOK ==
    /\ services \in [Names -> Objects \cup {None}]
    /\ name \in [Objects -> Names \cup {None}]
    /\ dependents \in [Objects -> SUBSET Objects]
    /\ status \in [Objects -> {"STOPPED", "STARTING", "STARTED", "ERROR", "STOPPING"}]
    /\ unwatched \in SUBSET Objects
    /\ stuck \in [Clients -> SUBSET Objects]
    /\ writer \in Clients \cup {None}
    /\ leaked \in BOOLEAN
    /\ toAdd \in Seq(Services)
    /\ toAddNext \in Seq(Services)
    /\ prevLen \in Nat
    /\ pc \in [Clients -> {"idle", "lock", "adding", "removing", "list", "lookup", "run",
                           "ok", "error"}]
    /\ op \in [Clients -> Ops]
    /\ batch \in [Clients -> Seq(Services)]
    /\ names \in [Clients -> SUBSET Names]
    /\ list \in [Clients -> SUBSET Objects]
    /\ todo \in [Clients -> SUBSET Objects]
    /\ running \in [Clients -> SUBSET Objects]
    /\ completed \in [Clients -> SUBSET Objects]
    /\ err \in [Clients -> BOOLEAN]
    /\ quiet \in [Clients -> BOOLEAN]

\* CreateBatch leaves out no service that could be created, in whatever order
\* the batch names them, and says so if it left one out: at its return each
\* service that is not registered is invalid or lacks a dependency.
BatchTruth ==
    [][ \A c \in Clients : pc[c] = "adding" /\ pc'[c] \in {"ok", "error"} =>
          LET left == {i \in DOMAIN batch[c] : services[batch[c][i].name] = None}
          IN  /\ pc'[c] = "ok" => left = {}
              /\ \A i \in left : \/ ~batch[c][i].valid
                                 \/ \E d \in batch[c][i].deps : services[d] = None ]_vars

\* A name was registered a second time, after RemoveBatch had removed it.
Twins == \E o, p \in Objects \ Fresh : o # p /\ name[o] = name[p]

\* What a runner needs to return: whatever a task waits for is one of the tasks,
\* and each set of tasks has one that waits for none of the set.  Only a name
\* that is used twice can close a cycle.
RunnersGetSoundGraphs ==
    \A c \in Clients : pc[c] = "run" =>
        /\ \A o \in list[c] : Needs(c, o) \subseteq NamesOf(list[c])
        /\ ~Twins => \A S \in SUBSET list[c] :
                S # {} => \E o \in S : Needs(c, o) \cap NamesOf(S) = {}

\* The call of c has a runner at work; StopAllUnsafe has an errgroup instead.
HasRunner(c) == pc[c] = "run" /\ op[c] # "StopAllUnsafe"

\* The dependencies among the tasks of the call of c.
Graph(c) == [o \in list[c] |-> {p \in list[c] : name[p] \in Needs(c, o)}]

\* The runners that the call of c makes, as what a runner promises.
Order(c) == INSTANCE OrderedTasks WITH
    Tasks <- Objects,
    tasks <- IF HasRunner(c) THEN list[c] ELSE {},
    deps <- Graph(c),
    running <- IF HasRunner(c) THEN running[c] ELSE {},
    succeeded <- IF HasRunner(c) THEN completed[c] ELSE {},
    broken <- IF HasRunner(c) THEN list[c] \ (todo[c] \cup running[c] \cup completed[c]) ELSE {},
    reply <- IF HasRunner(c) THEN "none" ELSE pc[c]

\* The starts and stops of a call keep to that promise while other clients
\* remove and create what they work on.
RunnersKeepOrder ==
    [][ \A c \in Clients : [Order(c)!Next]_(Order(c)!vars) ]_vars

\* After a StopAll without an error no service is up that was registered, nor
\* one that it depends on, unless a Start worked at the same time.
StopAllStops ==
    [][ \A c \in Clients :
          /\ pc[c] = "run" /\ op[c] = "StopAll" /\ quiet[c] /\ pc'[c] = "ok"
          => \A o \in Registered \cup list[c] : status[o] = "STOPPED" ]_vars

\* StopAll stops a service after all services that depend on it, so that none
\* of them fails for the lack of it.
UsersStoppedFirst ==
    [][ \A c \in Clients, o \in Objects :
          /\ pc[c] = "run" /\ op[c] = "StopAll" /\ quiet[c]
          /\ o \in todo[c] /\ o \notin todo'[c] /\ pc'[c] = "run"
          => \A u \in list[c] : o \in dependents[u] => status[u] = "STOPPED" ]_vars

\* The call of c waits for a stop that never returns: one of its own or one it
\* came behind, that of a RemoveBatch, or, with the write lock, for a read lock
\* that a Start of an unknown name or a Status has kept.
Blocked(c) ==
    \/ stuck[c] # {}
    \/ pc[c] \in {"lock", "list", "lookup"} /\ writer # None /\ (leaked \/ stuck[writer] # {})
    \/ pc[c] \in {"adding", "removing"} /\ leaked

\* A call that changes or stops services or asks for their status returns,
\* whatever fails and whatever other clients do, unless one of these waits is
\* its own or a name was used twice: a stop that hangs and a lock that is kept
\* hold up no other call.
ManagementReturns ==
    \A c \in Clients :
        (~Idle(c) /\ op[c] \notin Starting) ~> (Idle(c) \/ Blocked(c) \/ Twins)

\* The comment of RemoveBatch, "stop and remove services": between calls no
\* launcher runs that belongs to a removed service, unless a registered one
\* depends on it.
RemovedIsStopped ==
    (\A c \in Clients : Idle(c)) =>
        \A o \in Objects : status[o] \in Live => \E S \in Listing(Registered) : o \in S
=============================================================================
