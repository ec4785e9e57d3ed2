------------------------- MODULE SvcCtlProcessorProofs -------------------------
(***************************************************************************)
(* Theorems about SvcCtlProcessor, for any sets of names, objects, clients *)
(* and batches.                                                            *)
(***************************************************************************)
EXTENDS SvcCtlProcessor, TLAPS

\* The registry is an injective map to created objects, and no object refers to
\* one that was not created.
Heap ==
    /\ \A n \in Names : services[n] # None => name[services[n]] = n
    /\ \A o \in Objects : dependents[o] \cap Fresh = {}
    /\ \A o \in Fresh : dependents[o] = {} /\ status[o] = "STOPPED"

\* Each set of objects has one that depends on none of the set, and one that
\* none of the set depends on.
Acyclic ==
    \A S \in SUBSET Objects : S # {} =>
        /\ \E o \in S : dependents[o] \cap S = {}
        /\ \E o \in S : \A u \in S : o \notin dependents[u]

\* What the tasks of a starter depend on is listed with them.
NeedsListed(c) ==
    op[c] \in Starting => \A o \in list[c] : NamesOf(dependents[o]) \subseteq NamesOf(list[c])

\* A runner works on created objects, one for each name; without an error it
\* forgets none.  A stop that has not returned in its step never does.
RunnerOK(c) ==
    /\ list[c] \cap Fresh = {}
    /\ \A o, p \in list[c] : name[o] = name[p] => o = p
    /\ todo[c] \subseteq list[c]
    /\ running[c] \subseteq list[c]
    /\ completed[c] \subseteq list[c]
    /\ pc[c] # "run" => running[c] = {}
    /\ op[c] \notin Starting => running[c] \subseteq stuck[c]
    /\ ~err[c] => list[c] = todo[c] \cup running[c] \cup completed[c]
    /\ pc[c] = "run" => NeedsListed(c)

Runners == \A c \in Clients : RunnerOK(c)

\* A task is in one place, and after an error one of them is in none.
PlacesOK(c) ==
    /\ todo[c] \cap (running[c] \cup completed[c]) = {}
    /\ running[c] \cap completed[c] = {}
    /\ err[c] => \E o \in list[c] : o \notin todo[c] \cup running[c] \cup completed[c]

Places == \A c \in Clients : PlacesOK(c)

\* The handler that changes the registry holds the lock.
Locking == \A c \in Clients : pc[c] \in {"adding", "removing"} => writer = c

\* Every service of the batch was created or is still to be tried, and a round
\* that created nothing has found out that nothing can be created.
AddingOK(c) ==
    /\ \A i \in DOMAIN batch[c] :
        \/ services[batch[c][i].name] # None
        \/ \E j \in DOMAIN toAdd : toAdd[j] = batch[c][i]
        \/ \E j \in DOMAIN toAddNext : toAddNext[j] = batch[c][i]
    /\ Len(toAdd) + Len(toAddNext) <= prevLen
    /\ Len(toAdd) + Len(toAddNext) = prevLen =>
        \A j \in DOMAIN toAddNext : ~Creatable(toAddNext[j], None)

Adding == \A c \in Clients : pc[c] = "adding" => AddingOK(c)

\* What a StopAll has stopped stays STOPPED while no Start is at work, and what
\* it has not listed is STOPPED too.
Quiet ==
    \A c \in Clients : pc[c] = "run" /\ op[c] = "StopAll" /\ quiet[c] =>
        /\ \A d \in Clients : ~(pc[d] = "run" /\ op[d] \in Starting)
        /\ \A o \in completed[c] : status[o] = "STOPPED"
        /\ \A o \in Registered : o \in list[c] \/ status[o] = "STOPPED"

IInv == TypeOK /\ Heap /\ Acyclic /\ Runners /\ Places /\ Locking /\ Adding /\ Quiet
-----------------------------------------------------------------------------
\* The type of the variables of the services.
ServicesTyped ==
    /\ status \in [Objects -> {"STOPPED", "STARTING", "STARTED", "ERROR", "STOPPING"}]
    /\ unwatched \in SUBSET Objects
    /\ stuck \in [Clients -> SUBSET Objects]

\* Each operation of a service keeps it.
LEMMA ServiceSteps ==
    ASSUME ServicesTyped, NEW c \in Clients, NEW o \in Objects,
           \/ \E ok \in BOOLEAN : StopService(o, ok) \/ StartService(o, ok)
           \/ StopHangs(c, o) \/ StartHangs(c, o)
    PROVE  ServicesTyped'
<1> USE DEF ServicesTyped
<1>1. ASSUME NEW ok \in BOOLEAN, StopService(o, ok) PROVE ServicesTyped'
  BY <1>1 DEF StopService
<1>2. ASSUME NEW ok \in BOOLEAN, StartService(o, ok) PROVE ServicesTyped'
  <2>1. CASE UNCHANGED <<status, unwatched>>
    BY <1>2, <2>1 DEF StartService
  <2>2. CASE ~UNCHANGED <<status, unwatched>>
    <3>1. PICK s \in {"STARTING", "STOPPED", "ERROR"} : status' = [status EXCEPT ![o] = s]
      BY <1>2, <2>2 DEF StartService
    <3>2. unwatched' \in SUBSET Objects /\ UNCHANGED stuck
      BY <1>2, <2>2 DEF StartService
    <3> QED
      BY <3>1, <3>2
  <2> QED
    BY <2>1, <2>2
<1>3. CASE StopHangs(c, o)
  BY <1>3 DEF StopHangs
<1>4. CASE StartHangs(c, o)
  BY <1>4 DEF StartHangs
<1> QED
  BY <1>1, <1>2, <1>3, <1>4

\* Every variable keeps its type.
LEMMA NextTypeOK == TypeOK /\ [Next]_vars => TypeOK'
<1> SUFFICES ASSUME TypeOK, [Next]_vars PROVE TypeOK'
  OBVIOUS
<1>e. <<>> \in Seq(Services)
  OBVIOUS
<1> USE DEF TypeOK, registryVars, serviceVars, lockVars, batchVars, callVars, runnerVars
<1>1. CASE UNCHANGED vars
  BY <1>1 DEF vars
<1>2. ASSUME NEW c \in Clients, CallAny(c) PROVE TypeOK'
  <2>1. PICK kind \in Ops, svcs \in Seq(Services), requested \in SUBSET Names :
            Call(c, kind, svcs, requested)
    BY <1>2, <1>e, BatchesAssumption, NameSetsAssumption DEF CallAny, Ops
  <2>2. pc' \in [Clients -> {"idle", "lock", "adding", "removing", "list", "lookup", "run",
                            "ok", "error"}]
    BY <2>1 DEF Call
  <2>3. op' \in [Clients -> Ops] /\ batch' \in [Clients -> Seq(Services)]
            /\ names' \in [Clients -> SUBSET Names]
    BY <2>1 DEF Call
  <2> QED
    BY <2>1, <2>2, <2>3 DEF Call
<1>3. ASSUME NEW c \in Clients, Acquire(c) PROVE TypeOK'
  <2>1. CASE LockCreate(c)
    BY <2>1 DEF LockCreate
  <2>2. CASE LockRemove(c)
    BY <2>2 DEF LockRemove
  <2>3. CASE ListServices(c)
    <3>1. /\ pc' \in [Clients -> {"idle", "lock", "adding", "removing", "list", "lookup", "run",
                                 "ok", "error"}]
          /\ op' \in [Clients -> Ops]
          /\ batch' \in [Clients -> Seq(Services)]
          /\ names' \in [Clients -> SUBSET Names]
      <4>1. CASE Return(c, "ok")
        BY <1>e, <4>1, <2>3 DEF Return, Ops
      <4>2. CASE ~Return(c, "ok")
        <5>1. PICK ns \in SUBSET Names :
                /\ names' = [names EXCEPT ![c] = ns]
                /\ pc' = [pc EXCEPT ![c] = "lookup"]
                /\ UNCHANGED <<op, batch>>
          BY <2>3, <4>2 DEF ListServices
        <5> QED
          BY <5>1
      <4> QED
        BY <4>1, <4>2
    <3> QED
      BY <2>3, <3>1 DEF ListServices
  <2>4. CASE StartLookup(c)
    BY <2>4 DEF StartLookup, NewRunner, Listing, Fresh
  <2>5. CASE StartLookupFails(c)
    BY <2>5 DEF StartLookupFails, Return, Ops
  <2>6. CASE StopLookup(c)
    BY <2>6 DEF StopLookup, NewRunner
  <2>7. CASE StopLookupFails(c)
    BY <2>7 DEF StopLookupFails, Return, Ops
  <2>8. CASE StopAllLookup(c)
    BY <2>8 DEF StopAllLookup, NewRunner, Listing, Fresh, Registered
  <2>9. CASE StatusHangs(c)
    <3>1. Registered \subseteq Objects
      BY DEF Registered
    <3> QED
      BY <2>9, <3>1 DEF StatusHangs
  <2> QED
    BY <1>3, <2>1, <2>2, <2>3, <2>4, <2>5, <2>6, <2>7, <2>8, <2>9 DEF Acquire
<1>4. ASSUME NEW c \in Clients, Proceed(c) PROVE TypeOK'
  <2>1. CASE CreateOne(c)
    <3> DEFINE svc == Head(toAdd)
    <3>1. svc \in Services /\ svc.name \in Names /\ svc.deps \subseteq Names
      <4>1. svc \in Services
        BY <2>1 DEF CreateOne
      <4> QED
        BY <4>1 DEF Services
    <3>2. toAdd' \in Seq(Services) /\ Append(toAddNext, svc) \in Seq(Services)
      BY <2>1, <3>1 DEF CreateOne
    <3>3. PICK o \in Fresh : \/ /\ Creatable(svc, o)
                              /\ Create(svc, o)
                              /\ UNCHANGED toAddNext
                           \/ /\ toAddNext' = Append(toAddNext, svc)
                              /\ UNCHANGED registryVars
      BY <2>1 DEF CreateOne
    <3> HIDE DEF svc
    <3>4. CASE Creatable(svc, o) /\ Create(svc, o) /\ UNCHANGED toAddNext
      <4>1. \A d \in svc.deps : services[d] \in Objects
        BY <3>1, <3>4 DEF Creatable, Known
      <4>2. /\ services' \in [Names -> Objects \cup {None}]
            /\ name' \in [Objects -> Names \cup {None}]
            /\ dependents' \in [Objects -> SUBSET Objects]
        BY <3>1, <3>4, <4>1 DEF Create, Known, Fresh
      <4> QED
        BY <2>1, <3>2, <3>4, <4>2 DEF CreateOne
    <3>5. CASE toAddNext' = Append(toAddNext, svc) /\ UNCHANGED registryVars
      BY <2>1, <3>2, <3>5 DEF CreateOne
    <3> QED
      BY <3>3, <3>4, <3>5
  <2>2. CASE CreateRound(c)
    BY <2>2 DEF CreateRound
  <2>3. CASE CreateReturn(c)
    <3>1. PICK reply \in {"ok", "error"} : Return(c, reply)
      BY <2>3 DEF CreateReturn
    <3>2. /\ pc' \in [Clients -> {"idle", "lock", "adding", "removing", "list", "lookup", "run",
                                 "ok", "error"}]
          /\ op' \in [Clients -> Ops]
          /\ batch' \in [Clients -> Seq(Services)]
          /\ names' \in [Clients -> SUBSET Names]
      BY <3>1 DEF Return, Ops
    <3> QED
      BY <2>3, <3>2 DEF CreateReturn
  <2>4. ASSUME NEW n \in Names, RemoveOne(c, n) PROVE TypeOK'
    BY <2>4 DEF RemoveOne, StopService
  <2>5. ASSUME NEW n \in Names, RemoveFails(c, n) PROVE TypeOK'
    BY <2>5 DEF RemoveFails, StopService, Unlock, Return, Ops
  <2>6. CASE RemoveReturn(c)
    BY <2>6 DEF RemoveReturn, Return, Ops
  <2>7. ASSUME NEW o \in Objects, BeginStart(c, o) PROVE TypeOK'
    <3>1. ServicesTyped'
      BY <2>7, ServiceSteps DEF BeginStart, ServicesTyped
    <3>2. running' \in [Clients -> SUBSET Objects]
      <4>1. running[c] \cup {o} \in SUBSET Objects
        OBVIOUS
      <4>2. \/ running' = running
            \/ running' = [running EXCEPT ![c] = running[c] \cup {o}]
            \/ running' = [running EXCEPT ![c] = running[c]]
        BY <2>7 DEF BeginStart
      <4> QED
        BY <4>1, <4>2
    <3>3. todo' \in [Clients -> SUBSET Objects]
      BY <2>7 DEF BeginStart
    <3>4. err' \in [Clients -> BOOLEAN]
      <4>1. CASE UNCHANGED err
        BY <4>1
      <4>2. ASSUME NEW ok \in BOOLEAN, err' = [err EXCEPT ![c] = @ \/ ~ok]
            PROVE  err' \in [Clients -> BOOLEAN]
        BY <4>2, Zenon
      <4> QED
        BY <2>7, <4>1, <4>2 DEF BeginStart
    <3> QED
      BY <2>7, <3>1, <3>2, <3>3, <3>4 DEF BeginStart, ServicesTyped
  <2>8. ASSUME NEW o \in Objects, EndStart(c, o) PROVE TypeOK'
    BY <2>8 DEF EndStart
  <2>9. ASSUME NEW o \in Objects, StopTask(c, o) PROVE TypeOK'
    <3>1. ServicesTyped'
      BY <2>9, ServiceSteps DEF StopTask, ServicesTyped
    <3>2. running' \in [Clients -> SUBSET Objects] /\ completed' \in [Clients -> SUBSET Objects]
      <4>1. running' \in [Clients -> SUBSET Objects]
        <5>1. running[c] \cup {o} \in SUBSET Objects
          OBVIOUS
        <5>2. running' = running \/ running' = [running EXCEPT ![c] = running[c] \cup {o}]
          BY <2>9 DEF StopTask
        <5> QED
          BY <5>1, <5>2
      <4>2. completed' \in [Clients -> SUBSET Objects]
        <5>1. completed[c] \cup {o} \in SUBSET Objects
          OBVIOUS
        <5>2. \/ completed' = completed
              \/ completed' = [completed EXCEPT ![c] = completed[c] \cup {o}]
              \/ completed' = [completed EXCEPT ![c] = completed[c]]
          BY <2>9 DEF StopTask
        <5> QED
          BY <5>1, <5>2
      <4> QED
        BY <4>1, <4>2
    <3>3. todo' \in [Clients -> SUBSET Objects]
      BY <2>9 DEF StopTask
    <3>4. err' \in [Clients -> BOOLEAN]
      <4>1. CASE UNCHANGED err
        BY <4>1
      <4>2. ASSUME NEW ok \in BOOLEAN, err' = [err EXCEPT ![c] = @ \/ TaskFailed(ok)]
            PROVE  err' \in [Clients -> BOOLEAN]
        BY <4>2, Zenon DEF TaskFailed
      <4> QED
        BY <2>9, <4>1, <4>2 DEF StopTask
    <3> QED
      BY <2>9, <3>1, <3>2, <3>3, <3>4 DEF StopTask, ServicesTyped
  <2>10. CASE RunnerReturn(c)
    BY <2>10 DEF RunnerReturn, Return, Ops
  <2>11. ASSUME NEW n \in Names, RemoveHangs(c, n) PROVE TypeOK'
    BY <2>11 DEF RemoveHangs, StopHangs
  <2> QED
    BY <1>4, <2>1, <2>2, <2>3, <2>4, <2>5, <2>6, <2>7, <2>8, <2>9, <2>10, <2>11 DEF Proceed
<1>5. ASSUME NEW o \in Objects, Watch(o) \/ GetHealthy(o) \/ Die(o) PROVE TypeOK'
  <2>1. CASE Watch(o)
    BY <2>1 DEF Watch
  <2>2. CASE GetHealthy(o)
    BY <2>2 DEF GetHealthy
  <2>3. CASE Die(o)
    BY <2>3 DEF Die
  <2> QED
    BY <1>5, <2>1, <2>2, <2>3
<1> QED
  BY <1>1, <1>2, <1>3, <1>4, <1>5 DEF Next

\* Only CreateBatch and RemoveBatch change the registry.
LEMMA RegistryChanges ==
    ASSUME [Next]_vars
    PROVE  \/ UNCHANGED registryVars
           \/ \E c \in Clients : CreateOne(c) \/ \E n \in Names : RemoveOne(c, n)
<1> USE DEF vars, registryVars
<1>1. ASSUME NEW c \in Clients, CallAny(c) PROVE UNCHANGED registryVars
  BY <1>1 DEF CallAny, Call
<1>2. ASSUME NEW c \in Clients, Acquire(c) PROVE UNCHANGED registryVars
  BY <1>2 DEF Acquire, LockCreate, LockRemove, ListServices, StatusHangs, StartLookup, StartLookupFails,
              StopLookup, StopLookupFails, StopAllLookup
<1>3. ASSUME NEW c \in Clients, Proceed(c)
      PROVE  UNCHANGED registryVars \/ CreateOne(c) \/ \E n \in Names : RemoveOne(c, n)
  BY <1>3 DEF Proceed, CreateRound, CreateReturn, RemoveFails, RemoveHangs, RemoveReturn, BeginStart,
              EndStart, StopTask, RunnerReturn
<1>4. ASSUME NEW o \in Objects, Watch(o) \/ GetHealthy(o) \/ Die(o) PROVE UNCHANGED registryVars
  BY <1>4 DEF Watch, GetHealthy, Die
<1> QED
  BY <1>1, <1>2, <1>3, <1>4 DEF Next

\* An object that was created keeps its name.
LEMMA NamesStay ==
    ASSUME TypeOK, [Next]_vars
    PROVE  /\ Fresh' \subseteq Fresh
           /\ \A o \in Objects \ Fresh : name'[o] = name[o] /\ dependents'[o] = dependents[o]
<1>1. CASE UNCHANGED registryVars
  BY <1>1 DEF registryVars, Fresh
<1>2. ASSUME NEW c \in Clients, CreateOne(c)
      PROVE  /\ Fresh' \subseteq Fresh
             /\ \A o \in Objects \ Fresh : name'[o] = name[o] /\ dependents'[o] = dependents[o]
  <2>1. PICK o \in Fresh : UNCHANGED registryVars \/ Create(Head(toAdd), o)
    BY <1>2 DEF CreateOne
  <2>2. \A p \in Objects : p # o => name'[p] = name[p] /\ dependents'[p] = dependents[p]
    BY <2>1 DEF Create, registryVars, TypeOK
  <2> QED
    BY <2>2, NoneAssumption DEF Fresh
<1>3. ASSUME NEW c \in Clients, NEW n \in Names, RemoveOne(c, n) PROVE UNCHANGED <<name, dependents>>
  BY <1>3 DEF RemoveOne
<1> QED
  BY <1>1, <1>2, <1>3, RegistryChanges DEF Fresh

\* An object is stopped, started, or changes by itself only after its creation.
LEMMA FreshStopped ==
    ASSUME TypeOK, Heap, Runners, [Next]_vars, NEW o \in Fresh
    PROVE  status'[o] = "STOPPED"
<1> USE DEF TypeOK
<1>0. /\ o \in Objects /\ status[o] = "STOPPED"
      /\ \A n \in Names : services[n] # o
      /\ \A c \in Clients : o \notin todo[c]
  <2>1. o \in Objects /\ name[o] = None
    BY DEF Fresh
  <2>2. \A n \in Names : services[n] # o
    BY <2>1, NoneAssumption DEF Heap
  <2>3. \A c \in Clients : o \notin todo[c]
    BY DEF Runners, RunnerOK
  <2> QED
    BY <2>1, <2>2, <2>3 DEF Heap
<1>1. CASE UNCHANGED vars
  BY <1>0, <1>1 DEF vars, serviceVars
<1>2. ASSUME NEW c \in Clients, CallAny(c) \/ Acquire(c) PROVE UNCHANGED status
  BY <1>2 DEF CallAny, Call, Acquire, LockCreate, LockRemove, ListServices, StatusHangs, StartLookup,
              StartLookupFails, StopLookup, StopLookupFails, StopAllLookup, serviceVars
<1>3. ASSUME NEW c \in Clients, Proceed(c) PROVE status'[o] = "STOPPED"
  <2>1. CASE CreateOne(c) \/ CreateRound(c) \/ CreateReturn(c) \/ RemoveReturn(c) \/ RunnerReturn(c)
    BY <1>0, <2>1 DEF CreateOne, CreateRound, CreateReturn, RemoveReturn, RunnerReturn, serviceVars
  <2>2. ASSUME NEW n \in Names, RemoveOne(c, n) \/ RemoveFails(c, n) \/ RemoveHangs(c, n) PROVE status'[o] = "STOPPED"
    BY <1>0, <2>2 DEF RemoveOne, RemoveFails, RemoveHangs, StopService, StopHangs, serviceVars
  <2>3. ASSUME NEW p \in Objects, BeginStart(c, p) \/ EndStart(c, p) \/ StopTask(c, p)
        PROVE  status'[o] = "STOPPED"
    BY <1>0, <2>3 DEF BeginStart, EndStart, StopTask, StartService, StopService,
                           StartHangs, StopHangs, serviceVars
  <2> QED
    BY <1>3, <2>1, <2>2, <2>3 DEF Proceed
<1>4. ASSUME NEW p \in Objects, Watch(p) \/ GetHealthy(p) \/ Die(p) PROVE status'[o] = "STOPPED"
  BY <1>0, <1>4 DEF Watch, GetHealthy, Die, Live
<1> QED
  BY <1>0, <1>1, <1>2, <1>3, <1>4 DEF Next

\* The registry stays injective and closed.
LEMMA NextHeap == TypeOK /\ Heap /\ Runners /\ [Next]_vars => Heap'
<1> SUFFICES ASSUME TypeOK, Heap, Runners, [Next]_vars PROVE Heap'
  OBVIOUS
<1> USE DEF TypeOK, Heap
<1>1. \A o \in Fresh' : status'[o] = "STOPPED"
  BY FreshStopped, NamesStay
<1>2. CASE UNCHANGED registryVars
  BY <1>1, <1>2 DEF registryVars, Fresh
<1>3. ASSUME NEW c \in Clients, CreateOne(c) PROVE Heap'
  <2>1. PICK o \in Fresh : \/ UNCHANGED registryVars
                           \/ Creatable(Head(toAdd), o) /\ Create(Head(toAdd), o)
    BY <1>3 DEF CreateOne
  <2>2. Head(toAdd) \in Services
    BY <1>3 DEF CreateOne
  <2> DEFINE svc == Head(toAdd)
  <2>3. CASE Creatable(svc, o) /\ Create(svc, o)
    <3>1. svc.name \in Names /\ svc.deps \subseteq Names
      BY <2>2 DEF Services
    <3> HIDE DEF svc
    <3>2. o \in Objects /\ \A n \in Names : services[n] # o
      <4>1. o \in Objects /\ name[o] = None
        BY DEF Fresh
      <4> QED
        BY <4>1, NoneAssumption
    <3>3. Fresh' = Fresh \ {o}
      BY <2>3, <3>1, NoneAssumption DEF Create, Fresh
    <3>4. \A d \in svc.deps : services[d] \in Objects \ Fresh
      BY <2>3, <3>1, NoneAssumption DEF Creatable, Known, Fresh
    <3>5. \A p \in Objects : dependents'[p] \cap Fresh' = {}
      BY <2>3, <3>2, <3>3, <3>4 DEF Create, Known
    <3>6. \A n \in Names : services'[n] # None => name'[services'[n]] = n
      BY <2>3, <3>1, <3>2 DEF Create
    <3>7. \A p \in Fresh' : dependents'[p] = {}
      BY <2>3, <3>3 DEF Create, Fresh
    <3> QED
      BY <1>1, <3>5, <3>6, <3>7
  <2> QED
    BY <1>2, <2>1, <2>3
<1>4. ASSUME NEW c \in Clients, NEW n \in Names, RemoveOne(c, n) PROVE Heap'
  BY <1>1, <1>4 DEF RemoveOne, Fresh
<1> QED
  BY <1>2, <1>3, <1>4, RegistryChanges

\* A new object depends on older ones only, and none of them on it.
LEMMA NextAcyclic == TypeOK /\ Heap /\ Acyclic /\ [Next]_vars => Acyclic'
<1> SUFFICES ASSUME TypeOK, Heap, Acyclic, [Next]_vars,
                    NEW S \in SUBSET Objects, S # {}
             PROVE  /\ \E o \in S : dependents'[o] \cap S = {}
                    /\ \E o \in S : \A u \in S : o \notin dependents'[u]
  BY DEF Acyclic
<1>1. CASE UNCHANGED dependents
  BY <1>1 DEF Acyclic
<1>2. ASSUME NEW c \in Clients, CreateOne(c), ~UNCHANGED dependents
      PROVE  /\ \E o \in S : dependents'[o] \cap S = {}
             /\ \E o \in S : \A u \in S : o \notin dependents'[u]
  <2> DEFINE svc == Head(toAdd)
  <2>1. PICK o \in Fresh : Creatable(svc, o) /\ Create(svc, o)
    BY <1>2 DEF CreateOne, registryVars
  <2>2. Head(toAdd) \in Services
    BY <1>2 DEF CreateOne, TypeOK
  <2>3. svc.deps \subseteq Names
    BY <2>2 DEF Services
  <2> HIDE DEF svc
  <2>4. /\ o \in Objects
        /\ \A u \in Objects : u # o => dependents'[u] = dependents[u]
        /\ \A u \in Objects : o \notin dependents'[u]
    <3>1. \A d \in svc.deps : services[d] # o
      BY <2>1, <2>3, NoneAssumption DEF Heap, Creatable, Known, Fresh, TypeOK
    <3> QED
      BY <2>1, <3>1 DEF Heap, Create, Known, Fresh, TypeOK
  <2>5. CASE o \notin S
    <3>1. PICK p \in S : dependents[p] \cap S = {}
      BY DEF Acyclic
    <3>2. PICK q \in S : \A u \in S : q \notin dependents[u]
      BY DEF Acyclic
    <3>3. \A u \in S : dependents'[u] = dependents[u]
      BY <2>4, <2>5
    <3> QED
      BY <3>1, <3>2, <3>3
  <2>6. CASE S = {o}
    BY <2>4, <2>6
  <2>7. CASE o \in S /\ S # {o}
    <3>0. S \ {o} \in SUBSET Objects /\ S \ {o} # {}
      BY <2>7
    <3>1. PICK p \in S \ {o} : dependents[p] \cap (S \ {o}) = {}
      BY <3>0 DEF Acyclic
    <3> QED
      BY <2>4, <2>7, <3>1
  <2> QED
    BY <2>5, <2>6, <2>7
<1>3. ASSUME NEW c \in Clients, NEW n \in Names, RemoveOne(c, n) PROVE UNCHANGED dependents
  BY <1>3 DEF RemoveOne
<1> QED
  BY <1>1, <1>2, <1>3, RegistryChanges DEF registryVars

\* A wait for svc.lock that was never given back does not end.
LEMMA StuckStays ==
    ASSUME TypeOK, [Next]_vars, NEW d \in Clients
    PROVE  stuck[d] \subseteq stuck'[d]
<1> USE DEF TypeOK, serviceVars
<1>1. ASSUME NEW c \in Clients, NEW o, stuck' = [stuck EXCEPT ![c] = @ \cup {o}]
      PROVE  stuck[d] \subseteq stuck'[d]
  BY <1>1
<1>2. CASE UNCHANGED vars
  BY <1>2 DEF vars
<1>3. ASSUME NEW c \in Clients, CallAny(c) PROVE UNCHANGED stuck
  BY <1>3 DEF CallAny, Call
<1>4. ASSUME NEW c \in Clients, Acquire(c) PROVE stuck[d] \subseteq stuck'[d]
  <2>1. CASE StatusHangs(c)
    BY <2>1 DEF StatusHangs
  <2>2. CASE ~StatusHangs(c)
    BY <1>4, <2>2 DEF Acquire, LockCreate, LockRemove, ListServices, StartLookup, StartLookupFails,
                      StopLookup, StopLookupFails, StopAllLookup
  <2> QED
    BY <2>1, <2>2
<1>5. ASSUME NEW c \in Clients, Proceed(c) PROVE stuck[d] \subseteq stuck'[d]
  <2>1. CASE CreateOne(c) \/ CreateRound(c) \/ CreateReturn(c) \/ RemoveReturn(c) \/ RunnerReturn(c)
    BY <2>1 DEF CreateOne, CreateRound, CreateReturn, RemoveReturn, RunnerReturn
  <2>2. ASSUME NEW n \in Names, RemoveOne(c, n) \/ RemoveFails(c, n) \/ RemoveHangs(c, n)
        PROVE  stuck[d] \subseteq stuck'[d]
    BY <1>1, <2>2 DEF RemoveOne, RemoveFails, RemoveHangs, StopService, StopHangs
  <2>3. ASSUME NEW o \in Objects, BeginStart(c, o) \/ EndStart(c, o) \/ StopTask(c, o)
        PROVE  stuck[d] \subseteq stuck'[d]
    BY <1>1, <2>3 DEF BeginStart, EndStart, StopTask, StartService, StopService, StartHangs, StopHangs
  <2> QED
    BY <1>5, <2>1, <2>2, <2>3 DEF Proceed
<1>6. ASSUME NEW o \in Objects, Watch(o) \/ GetHealthy(o) \/ Die(o) PROVE UNCHANGED stuck
  BY <1>6 DEF Watch, GetHealthy, Die
<1> QED
  BY <1>2, <1>3, <1>4, <1>5, <1>6 DEF Next

\* A look at the registry ends the call of Status, and leads another to its lookup.
LEMMA ListServicesGoesOn ==
    ASSUME NEW c \in Clients, ListServices(c)
    PROVE  /\ pc[c] = "list"
           /\ UNCHANGED <<registryVars, serviceVars, lockVars, batchVars, runnerVars, quiet>>
           /\ \/ Return(c, "ok")
              \/ /\ pc' = [pc EXCEPT ![c] = "lookup"]
                 /\ \E ns : names' = [names EXCEPT ![c] = ns]
                 /\ UNCHANGED <<op, batch>>
<1>1. CASE op[c] = "Status"
  BY <1>1 DEF ListServices
<1>2. CASE op[c] # "Status"
  BY <1>2 DEF ListServices
<1> QED
  BY <1>1, <1>2

\* The runner of d, and whether it is at work, stay as they are.
RunnerStays(d) ==
    /\ list'[d] = list[d] /\ todo'[d] = todo[d] /\ running'[d] = running[d]
    /\ completed'[d] = completed[d] /\ err'[d] = err[d]
    /\ \/ pc'[d] = pc[d] /\ op'[d] = op[d]
       \/ pc[d] # "run" /\ pc'[d] # "run"

\* A lookup makes a runner of created objects, one for each name.
RunnerStarts(d) ==
    /\ pc[d] # "run"
    /\ op'[d] = op[d]
    /\ \E tasks \in SUBSET (Objects \ Fresh) :
        /\ \A o, p \in tasks : name[o] = name[p] => o = p
        /\ op[d] \in Starting => \A o \in tasks : NamesOf(dependents[o]) \subseteq NamesOf(tasks)
        /\ NewRunner(d, tasks)

\* What a step does to the runner of a client, whoever takes it.
LEMMA RunnerChanges ==
    ASSUME TypeOK, Heap, [Next]_vars, NEW d \in Clients
    PROVE  \/ RunnerStays(d)
           \/ RunnerStarts(d)
           \/ \E o \in Objects : BeginStart(d, o) \/ EndStart(d, o) \/ StopTask(d, o)
           \/ RunnerReturn(d)
<1> USE DEF TypeOK
<1>1. ASSUME UNCHANGED runnerVars, UNCHANGED <<pc, op>> PROVE RunnerStays(d)
  BY <1>1 DEF runnerVars, RunnerStays
<1>2. ASSUME NEW c \in Clients, UNCHANGED runnerVars, pc[c] # "run", pc'[c] # "run",
             c # d => pc'[d] = pc[d] /\ op'[d] = op[d]
      PROVE  RunnerStays(d)
  BY <1>2 DEF runnerVars, RunnerStays
<1>3. CASE UNCHANGED vars
  BY <1>1, <1>3 DEF vars, callVars
<1>4. ASSUME NEW c \in Clients, CallAny(c) PROVE RunnerStays(d)
  <2>1. /\ UNCHANGED runnerVars /\ pc[c] # "run" /\ pc'[c] # "run"
        /\ c # d => pc'[d] = pc[d] /\ op'[d] = op[d]
    BY <1>4 DEF CallAny, Call, Idle
  <2> QED
    BY <1>2, <2>1
<1>5. ASSUME NEW c \in Clients, Acquire(c) PROVE RunnerStays(d) \/ RunnerStarts(d)
  <2>1. ASSUME NEW tasks \in SUBSET (Objects \ Fresh), pc[c] # "run", UNCHANGED op,
               \A o, p \in tasks : name[o] = name[p] => o = p,
               op[c] \in Starting => \A o \in tasks : NamesOf(dependents[o]) \subseteq NamesOf(tasks),
               NewRunner(c, tasks)
        PROVE  RunnerStays(d) \/ RunnerStarts(d)
    <3>1. CASE c = d
      BY <2>1, <3>1 DEF RunnerStarts
    <3>2. CASE c # d
      BY <2>1, <3>2 DEF NewRunner, RunnerStays
    <3> QED
      BY <3>1, <3>2
  <2>2. CASE \/ LockCreate(c) \/ LockRemove(c) \/ ListServices(c) \/ StatusHangs(c)
               \/ StartLookupFails(c) \/ StopLookupFails(c)
    <3>1. /\ UNCHANGED runnerVars /\ pc[c] # "run" /\ pc'[c] # "run"
          /\ c # d => pc'[d] = pc[d] /\ op'[d] = op[d]
      <4>1. CASE ListServices(c)
        BY <4>1, ListServicesGoesOn DEF Return
      <4>2. CASE ~ListServices(c)
        BY <2>2, <4>2 DEF LockCreate, LockRemove, StatusHangs, StartLookupFails, StopLookupFails,
                          Return, callVars
      <4> QED
        BY <4>1, <4>2
    <3> QED
      BY <1>2, <3>1
  <2>3. ASSUME NEW roots, \E tasks \in Listing(roots) : NewRunner(c, tasks), UNCHANGED op,
               pc[c] # "run"
        PROVE  RunnerStays(d) \/ RunnerStarts(d)
    BY <2>1, <2>3 DEF Listing
  <2>4. CASE StartLookup(c)
    BY <2>3, <2>4 DEF StartLookup
  <2>5. CASE StopLookup(c)
    <3>1. PICK n \in Names : services[n] # None /\ NewRunner(c, {services[n]})
      BY <2>5 DEF StopLookup
    <3>2. services[n] \in Objects \ Fresh
      BY <3>1, NoneAssumption DEF Heap, Fresh
    <3> QED
      BY <2>1, <2>5, <3>1, <3>2 DEF StopLookup, Starting
  <2>6. CASE StopAllLookup(c)
    <3>1. Registered \subseteq Objects \ Fresh
      BY NoneAssumption DEF Registered, Heap, Fresh
    <3>2. \A o, p \in Registered : name[o] = name[p] => o = p
      BY DEF Registered, Heap
    <3>3. /\ UNCHANGED op /\ pc[c] # "run" /\ op[c] \notin Starting
          /\ \/ \E tasks \in Listing(Registered) : NewRunner(c, tasks)
             \/ NewRunner(c, Registered)
      BY <2>6 DEF StopAllLookup, Starting
    <3> QED
      BY <2>1, <2>3, <3>1, <3>2, <3>3
  <2> QED
    BY <1>5, <2>2, <2>4, <2>5, <2>6 DEF Acquire
<1>6. ASSUME NEW c \in Clients, Proceed(c)
      PROVE  \/ RunnerStays(d)
             \/ \E o \in Objects : BeginStart(d, o) \/ EndStart(d, o) \/ StopTask(d, o)
             \/ RunnerReturn(d)
  <2>1. CASE CreateOne(c) \/ CreateRound(c)
    BY <1>1, <2>1 DEF CreateOne, CreateRound, callVars
  <2>2. CASE CreateReturn(c) \/ RemoveReturn(c)
    <3>1. /\ UNCHANGED runnerVars /\ pc[c] # "run" /\ pc'[c] # "run"
          /\ c # d => pc'[d] = pc[d] /\ op'[d] = op[d]
      BY <2>2 DEF CreateReturn, RemoveReturn, Removing, Return
    <3> QED
      BY <1>2, <3>1
  <2>3. ASSUME NEW n \in Names, RemoveOne(c, n) PROVE RunnerStays(d)
    BY <1>1, <2>3 DEF RemoveOne, runnerVars
  <2>7. ASSUME NEW n \in Names, RemoveHangs(c, n) PROVE RunnerStays(d)
    BY <1>1, <2>7 DEF RemoveHangs, callVars
  <2>4. ASSUME NEW n \in Names, RemoveFails(c, n) PROVE RunnerStays(d)
    <3>1. /\ UNCHANGED runnerVars /\ pc[c] # "run" /\ pc'[c] # "run"
          /\ c # d => pc'[d] = pc[d] /\ op'[d] = op[d]
      BY <2>4 DEF RemoveFails, Removing, Return
    <3> QED
      BY <1>2, <3>1
  <2>5. ASSUME NEW o \in Objects, BeginStart(c, o) \/ EndStart(c, o) \/ StopTask(c, o), c # d
        PROVE  RunnerStays(d)
    BY <2>5 DEF BeginStart, EndStart, StopTask, callVars, RunnerStays
  <2>6. ASSUME RunnerReturn(c), c # d PROVE RunnerStays(d)
    BY <2>6 DEF RunnerReturn, Return, RunnerStays
  <2> QED
    BY <1>6, <2>1, <2>2, <2>3, <2>4, <2>5, <2>6, <2>7 DEF Proceed
<1>7. ASSUME NEW o \in Objects, Watch(o) \/ GetHealthy(o) \/ Die(o) PROVE RunnerStays(d)
  BY <1>1, <1>7 DEF Watch, GetHealthy, Die, callVars
<1> QED
  BY <1>3, <1>4, <1>5, <1>6, <1>7 DEF Next

\* The task o of d begins and runs, or fails at once.
Begun(d, o) ==
    /\ o \in todo[d] /\ todo'[d] = todo[d] \ {o}
    /\ list'[d] = list[d] /\ completed'[d] = completed[d]
    /\ \/ running'[d] = running[d] \cup {o} /\ (err'[d] <=> err[d])
       \/ running'[d] = running[d] /\ err'[d]

\* The task o of d ends, with success or an error.
Ended(d, o) ==
    /\ o \in running[d] /\ running'[d] = running[d] \ {o}
    /\ list'[d] = list[d] /\ todo'[d] = todo[d]
    /\ \/ completed'[d] = completed[d] \cup {o} /\ (err'[d] <=> err[d])
       \/ completed'[d] = completed[d] /\ err'[d]

\* Both in one step.
BegunAndEnded(d, o) ==
    /\ o \in todo[d] /\ todo'[d] = todo[d] \ {o}
    /\ list'[d] = list[d] /\ running'[d] = running[d]
    /\ \/ completed'[d] = completed[d] \cup {o} /\ (err'[d] <=> err[d])
       \/ completed'[d] = completed[d] /\ err'[d]

\* A start that worked goes on as a running task, the others end at once.
LEMMA BeginStartRunner ==
    ASSUME TypeOK, NEW d \in Clients, NEW o \in Objects, BeginStart(d, o)
    PROVE  Begun(d, o)
<1>0. CASE running' = [running EXCEPT ![d] = @ \cup {o}] /\ UNCHANGED err
  BY <1>0 DEF Begun, BeginStart, TypeOK
<1> SUFFICES ASSUME NEW ok \in BOOLEAN,
                    running' = [running EXCEPT ![d] = IF ok THEN @ \cup {o} ELSE @],
                    err' = [err EXCEPT ![d] = @ \/ ~ok]
             PROVE  Begun(d, o)
  BY <1>0 DEF BeginStart
<1>1. /\ running' = [running EXCEPT ![d] = IF ok THEN @ \cup {o} ELSE @]
      /\ err' = [err EXCEPT ![d] = @ \/ ~ok]
  OBVIOUS
<1>2. CASE ok
  <2>1. err'[d] <=> err[d]
    BY <1>1, <1>2, Zenon DEF TypeOK
  <2> QED
    BY <1>1, <1>2, <2>1 DEF Begun, BeginStart, TypeOK
<1>3. CASE ~ok
  <2>1. err'[d]
    BY <1>1, <1>3, Zenon DEF TypeOK
  <2> QED
    BY <1>1, <1>3, <2>1 DEF Begun, BeginStart, TypeOK
<1> QED
  BY <1>2, <1>3

\* The wait for a start ends with the service up, or with an error.
LEMMA EndStartRunner ==
    ASSUME TypeOK, NEW d \in Clients, NEW o \in Objects, EndStart(d, o)
    PROVE  Ended(d, o)
<1>1. CASE status[o] = "STARTED"
  <2>1. err'[d] <=> err[d]
    BY <1>1, Zenon DEF EndStart, TypeOK
  <2> QED
    BY <1>1, <2>1 DEF Ended, EndStart, TypeOK
<1>2. CASE status[o] # "STARTED"
  <2>1. err'[d]
    BY <1>2, Zenon DEF EndStart, TypeOK
  <2> QED
    BY <1>2, <2>1 DEF Ended, EndStart, TypeOK
<1> QED
  BY <1>1, <1>2

\* A stop begins and ends in one step, or begins and never ends.
LEMMA StopTaskRunner ==
    ASSUME TypeOK, NEW d \in Clients, NEW o \in Objects, StopTask(d, o)
    PROVE  \/ BegunAndEnded(d, o)
           \/ /\ Begun(d, o)
              /\ running'[d] = running[d] \cup {o}
              /\ o \in stuck'[d]
<1>0. CASE /\ StopHangs(d, o)
          /\ running' = [running EXCEPT ![d] = @ \cup {o}]
          /\ UNCHANGED <<completed, err>>
  <2>1. o \in stuck'[d] /\ running'[d] = running[d] \cup {o}
    BY <1>0 DEF StopHangs, TypeOK
  <2> QED
    BY <1>0, <2>1 DEF Begun, StopTask, TypeOK
<1> SUFFICES ASSUME NEW ok \in BOOLEAN, UNCHANGED running,
                    completed' = [completed EXCEPT ![d] = IF TaskFailed(ok) THEN @ ELSE @ \cup {o}],
                    err' = [err EXCEPT ![d] = @ \/ TaskFailed(ok)]
             PROVE  BegunAndEnded(d, o)
  BY <1>0 DEF StopTask
<1>1. /\ completed' = [completed EXCEPT ![d] = IF TaskFailed(ok) THEN @ ELSE @ \cup {o}]
      /\ err' = [err EXCEPT ![d] = @ \/ TaskFailed(ok)]
      /\ running' = running
  OBVIOUS
<1>2. CASE ok
  <2>1. err'[d] <=> err[d]
    BY <1>1, <1>2, Zenon DEF TypeOK, TaskFailed
  <2> QED
    BY <1>1, <1>2, <2>1 DEF BegunAndEnded, StopTask, TypeOK, TaskFailed
<1>3. CASE ~ok
  <2>1. err'[d]
    BY <1>1, <1>3, Zenon DEF TypeOK, TaskFailed
  <2> QED
    BY <1>1, <1>3, <2>1 DEF BegunAndEnded, StopTask, TypeOK, TaskFailed
<1> QED
  BY <1>2, <1>3

\* The runner is gone when its call returned.
LEMMA RunnerReturnRunner ==
    ASSUME TypeOK, NEW d \in Clients, RunnerReturn(d)
    PROVE  /\ list'[d] = {} /\ todo'[d] = {} /\ running'[d] = {} /\ completed'[d] = {}
           /\ ~err'[d]
           /\ pc'[d] = IF err[d] THEN "error" ELSE "ok"
BY DEF RunnerReturn, Return, TypeOK

\* A runner keeps to the tasks it was made for.
LEMMA NextRunners == TypeOK /\ Heap /\ Runners /\ [Next]_vars => Runners'
<1> SUFFICES ASSUME TypeOK, Heap, Runners, [Next]_vars, NEW d \in Clients PROVE RunnerOK(d)'
  BY DEF Runners
<1>0. RunnerOK(d)
  BY DEF Runners
<1>a. ASSUME list'[d] = list[d]
      PROVE  list'[d] \cap Fresh' = {} /\ \A o, p \in list'[d] : name'[o] = name'[p] => o = p
  BY <1>0, <1>a, NamesStay DEF RunnerOK, TypeOK
<1>b. \A S \in SUBSET (Objects \ Fresh) :
        /\ NamesOf(S)' = NamesOf(S)
        /\ \A o \in S : NamesOf(dependents[o])' = NamesOf(dependents[o])
  <2>1. \A S \in SUBSET (Objects \ Fresh) : NamesOf(S)' = NamesOf(S)
    BY NamesStay DEF NamesOf
  <2>2. \A o \in Objects : dependents[o] \in SUBSET (Objects \ Fresh)
    BY DEF Heap, TypeOK
  <2>3. \A o \in Objects \ Fresh : dependents'[o] = dependents[o]
    BY NamesStay
  <2>4. \A o \in Objects \ Fresh : NamesOf(dependents[o])' = NamesOf(dependents[o])
    BY <2>2, <2>3, NamesStay DEF NamesOf
  <2> QED
    BY <2>1, <2>4
<1>c. ASSUME list'[d] = list[d], op'[d] = op[d], pc[d] = "run"
      PROVE  NeedsListed(d)'
  <2>1. list[d] \in SUBSET (Objects \ Fresh)
    BY <1>0 DEF RunnerOK, TypeOK
  <2> QED
    BY <1>0, <1>b, <1>c, <2>1 DEF RunnerOK, NeedsListed
<1>d. stuck[d] \subseteq stuck'[d]
  BY StuckStays
<1>1. CASE RunnerStays(d)
  <2>1. pc[d] # "run" => running[d] = {}
    BY <1>0 DEF RunnerOK
  <2>2. CASE pc'[d] = pc[d] /\ op'[d] = op[d]
    BY <1>0, <1>1, <1>a, <1>c, <1>d, <2>2 DEF RunnerOK, RunnerStays
  <2>3. CASE pc[d] # "run" /\ pc'[d] # "run"
    BY <1>0, <1>1, <1>a, <2>1, <2>3 DEF RunnerOK, RunnerStays
  <2> QED
    BY <1>1, <2>2, <2>3 DEF RunnerStays
<1>2. CASE RunnerStarts(d)
  <2>1. PICK tasks \in SUBSET (Objects \ Fresh) :
            /\ \A o, p \in tasks : name[o] = name[p] => o = p
            /\ op[d] \in Starting => \A o \in tasks : NamesOf(dependents[o]) \subseteq NamesOf(tasks)
            /\ NewRunner(d, tasks)
    BY <1>2 DEF RunnerStarts
  <2>2. /\ list'[d] = tasks /\ todo'[d] = tasks /\ running'[d] = {} /\ completed'[d] = {}
    BY <2>1 DEF NewRunner, TypeOK
  <2>3. list'[d] \cap Fresh' = {} /\ \A o, p \in list'[d] : name'[o] = name'[p] => o = p
    BY <2>1, <2>2, NamesStay
  <2>4. NeedsListed(d)'
    BY <1>2, <1>b, <2>1, <2>2 DEF RunnerStarts, NeedsListed
  <2> QED
    BY <2>2, <2>3, <2>4 DEF RunnerOK
<1>3. ASSUME NEW o \in Objects, BeginStart(d, o) \/ EndStart(d, o) \/ StopTask(d, o)
      PROVE  RunnerOK(d)'
  <2>1. pc[d] = "run" /\ pc'[d] = "run" /\ op'[d] = op[d]
    BY <1>3 DEF BeginStart, EndStart, StopTask, callVars
  <2>2. CASE BeginStart(d, o)
    <3>1. op[d] \in Starting
      BY <2>2 DEF BeginStart
    <3>2. Begun(d, o)
      BY <2>2, BeginStartRunner
    <3> QED
      BY <1>0, <1>a, <1>c, <2>1, <3>1, <3>2 DEF RunnerOK, Begun
  <2>3. CASE EndStart(d, o)
    <3>1. Ended(d, o)
      BY <2>3, EndStartRunner
    <3>2. op[d] \in Starting
      BY <1>0, <2>3 DEF EndStart, RunnerOK
    <3> QED
      BY <1>0, <1>a, <1>c, <2>1, <3>1, <3>2 DEF RunnerOK, Ended
  <2>4. CASE StopTask(d, o)
    <3>1. op[d] \notin Starting
      BY <2>4 DEF StopTask
    <3>2. CASE BegunAndEnded(d, o)
      BY <1>0, <1>a, <1>c, <1>d, <2>1, <3>1, <3>2 DEF RunnerOK, BegunAndEnded
    <3>3. CASE Begun(d, o) /\ running'[d] = running[d] \cup {o} /\ o \in stuck'[d]
      BY <1>0, <1>a, <1>c, <1>d, <2>1, <3>1, <3>3 DEF RunnerOK, Begun
    <3> QED
      BY <2>4, <3>2, <3>3, StopTaskRunner
  <2> QED
    BY <1>3, <2>2, <2>3, <2>4
<1>4. CASE RunnerReturn(d)
  BY <1>4, RunnerReturnRunner DEF RunnerOK, NeedsListed
<1> QED
  BY <1>1, <1>2, <1>3, <1>4, RunnerChanges

\* A task moves on, and only the one that fails gets lost.
LEMMA NextPlaces == TypeOK /\ Heap /\ Runners /\ Places /\ [Next]_vars => Places'
<1> SUFFICES ASSUME TypeOK, Heap, Runners, Places, [Next]_vars, NEW d \in Clients PROVE PlacesOK(d)'
  BY DEF Places
<1>0. PlacesOK(d) /\ RunnerOK(d)
  BY DEF Places, Runners
<1>1. CASE RunnerStays(d)
  BY <1>0, <1>1 DEF PlacesOK, RunnerStays
<1>2. CASE RunnerStarts(d)
  <2>1. PICK tasks \in SUBSET Objects : NewRunner(d, tasks)
    BY <1>2 DEF RunnerStarts
  <2>2. running'[d] = {} /\ completed'[d] = {} /\ ~err'[d]
    BY <2>1 DEF NewRunner, TypeOK
  <2> QED
    BY <2>2 DEF PlacesOK
<1>3. ASSUME NEW o \in Objects, BeginStart(d, o) \/ EndStart(d, o) \/ StopTask(d, o)
      PROVE  PlacesOK(d)'
  <2>1. CASE BeginStart(d, o)
    <3>1. Begun(d, o)
      BY <2>1, BeginStartRunner
    <3> QED
      BY <1>0, <3>1 DEF PlacesOK, RunnerOK, Begun
  <2>2. CASE EndStart(d, o)
    <3>1. Ended(d, o)
      BY <2>2, EndStartRunner
    <3> QED
      BY <1>0, <3>1 DEF PlacesOK, RunnerOK, Ended
  <2>3. CASE StopTask(d, o)
    <3>1. CASE BegunAndEnded(d, o)
      BY <1>0, <3>1 DEF PlacesOK, RunnerOK, BegunAndEnded
    <3>2. CASE Begun(d, o)
      BY <1>0, <3>2 DEF PlacesOK, RunnerOK, Begun
    <3> QED
      BY <2>3, <3>1, <3>2, StopTaskRunner
  <2> QED
    BY <1>3, <2>1, <2>2, <2>3
<1>4. CASE RunnerReturn(d)
  BY <1>4, RunnerReturnRunner DEF PlacesOK
<1> QED
  BY <1>1, <1>2, <1>3, <1>4, RunnerChanges

\* The write lock excludes the other handlers that change the registry.
LEMMA NextLocking == TypeOK /\ Locking /\ [Next]_vars => Locking'
<1> SUFFICES ASSUME TypeOK, Locking, [Next]_vars, NEW d \in Clients,
                    pc'[d] \in {"adding", "removing"}
             PROVE  writer' = d
  BY DEF Locking
<1> USE DEF TypeOK
<1>0. pc[d] \in {"adding", "removing"} => writer = d /\ writer # None
  BY NoneAssumption DEF Locking
<1>1. ASSUME pc'[d] = pc[d], UNCHANGED writer PROVE writer' = d
  BY <1>0, <1>1
<1>2. CASE UNCHANGED vars
  BY <1>1, <1>2 DEF vars, callVars, lockVars
<1>3. ASSUME NEW c \in Clients, CallAny(c) PROVE writer' = d
  BY <1>1, <1>3 DEF CallAny, Call, lockVars
<1>4. ASSUME NEW c \in Clients, Acquire(c) PROVE writer' = d
  <2>1. CASE LockCreate(c) \/ LockRemove(c)
    BY <1>0, <2>1 DEF LockCreate, LockRemove
  <2>2. CASE ListServices(c)
    BY <1>1, <2>2, ListServicesGoesOn DEF Return, lockVars
  <2>3. CASE \/ StatusHangs(c) \/ StartLookup(c) \/ StartLookupFails(c) \/ StopLookup(c)
             \/ StopLookupFails(c) \/ StopAllLookup(c)
    BY <1>1, <2>3 DEF StatusHangs, StartLookup, StartLookupFails, StopLookup, StopLookupFails,
                      StopAllLookup, NewRunner, Return, callVars, lockVars
  <2> QED
    BY <1>4, <2>1, <2>2, <2>3 DEF Acquire
<1>5. ASSUME NEW c \in Clients, Proceed(c) PROVE writer' = d
  <2>1. CASE CreateOne(c) \/ CreateRound(c)
    BY <1>1, <2>1 DEF CreateOne, CreateRound, callVars, lockVars
  <2>2. CASE CreateReturn(c) \/ RemoveReturn(c)
    BY <1>0, <2>2 DEF CreateReturn, RemoveReturn, Removing, Return, Locked
  <2>3. ASSUME NEW n \in Names, RemoveOne(c, n) \/ RemoveFails(c, n) \/ RemoveHangs(c, n) PROVE writer' = d
    BY <1>0, <1>1, <2>3 DEF RemoveOne, RemoveFails, RemoveHangs, Removing, Return, Locked,
                            callVars, lockVars
  <2>4. ASSUME NEW o \in Objects, BeginStart(c, o) \/ EndStart(c, o) \/ StopTask(c, o)
        PROVE  writer' = d
    BY <1>1, <2>4 DEF BeginStart, EndStart, StopTask, callVars, lockVars
  <2>5. CASE RunnerReturn(c)
    BY <1>1, <2>5 DEF RunnerReturn, Return, lockVars
  <2> QED
    BY <1>5, <2>1, <2>2, <2>3, <2>4, <2>5 DEF Proceed
<1>6. ASSUME NEW o \in Objects, Watch(o) \/ GetHealthy(o) \/ Die(o) PROVE writer' = d
  BY <1>1, <1>6 DEF Watch, GetHealthy, Die, callVars, lockVars
<1> QED
  BY <1>2, <1>3, <1>4, <1>5, <1>6 DEF Next

\* The first service to add is created or put off to the next round.
LEMMA CreateOneAdding ==
    ASSUME TypeOK, NEW c \in Clients, AddingOK(c), CreateOne(c)
    PROVE  AddingOK(c)'
<1> DEFINE svc == Head(toAdd)
<1>1. /\ toAdd # <<>> /\ toAdd' = Tail(toAdd)
      /\ UNCHANGED <<prevLen, batch>>
  BY DEF CreateOne, callVars
<1>2. svc \in Services /\ svc = toAdd[1] /\ toAdd \in Seq(Services) /\ toAddNext \in Seq(Services)
  BY <1>1 DEF TypeOK
<1>3. svc.name \in Names
  BY <1>2 DEF Services
<1>4. /\ Len(toAdd') + 1 = Len(toAdd)
      /\ \A j \in DOMAIN toAdd : j # 1 => j - 1 \in DOMAIN toAdd' /\ toAdd'[j - 1] = toAdd[j]
  BY <1>1, <1>2
<1>5. PICK o \in Fresh :
        \/ Creatable(svc, o) /\ Create(svc, o) /\ UNCHANGED toAddNext
        \/ ~Creatable(svc, o) /\ toAddNext' = Append(toAddNext, svc) /\ UNCHANGED registryVars
  BY DEF CreateOne
<1>6. \A i \in DOMAIN batch[c] : batch[c][i].name \in Names
  <2>1. \A i \in DOMAIN batch[c] : batch[c][i] \in Services
    BY DEF TypeOK
  <2> QED
    BY <2>1 DEF Services
<1> HIDE DEF svc
<1>7. CASE Creatable(svc, o) /\ Create(svc, o) /\ UNCHANGED toAddNext
  <2>1. /\ services' = [services EXCEPT ![svc.name] = o] /\ o # None
        /\ services \in [Names -> Objects \cup {None}]
    BY <1>7, NoneAssumption DEF Create, Fresh, TypeOK
  <2>2. ASSUME NEW i \in DOMAIN batch'[c]
        PROVE  \/ services'[batch'[c][i].name] # None
               \/ \E j \in DOMAIN toAdd' : toAdd'[j] = batch'[c][i]
               \/ \E j \in DOMAIN toAddNext' : toAddNext'[j] = batch'[c][i]
    <3>1. CASE services[batch[c][i].name] # None \/ batch[c][i] = svc
      BY <1>1, <1>3, <1>6, <2>1, <3>1
    <3>2. CASE \E j \in DOMAIN toAdd : j # 1 /\ toAdd[j] = batch[c][i]
      BY <1>1, <1>4, <3>2
    <3>3. CASE \E j \in DOMAIN toAddNext : toAddNext[j] = batch[c][i]
      BY <1>1, <1>7, <3>3
    <3> QED
      BY <1>1, <1>2, <3>1, <3>2, <3>3 DEF AddingOK
  <2>3. Len(toAdd') + Len(toAddNext') < prevLen'
    BY <1>1, <1>2, <1>4, <1>7 DEF AddingOK, TypeOK
  <2> QED
    BY <1>1, <1>2, <2>2, <2>3 DEF AddingOK, TypeOK
<1>8. CASE ~Creatable(svc, o) /\ toAddNext' = Append(toAddNext, svc) /\ UNCHANGED registryVars
  <2>1. /\ Len(toAddNext') = Len(toAddNext) + 1
        /\ \A j \in DOMAIN toAddNext : j \in DOMAIN toAddNext' /\ toAddNext'[j] = toAddNext[j]
        /\ Len(toAddNext') \in DOMAIN toAddNext' /\ toAddNext'[Len(toAddNext')] = svc
        /\ \A j \in DOMAIN toAddNext' : j = Len(toAddNext') \/ j \in DOMAIN toAddNext
    BY <1>2, <1>8
  <2>2. UNCHANGED <<services, name>>
    BY <1>8 DEF registryVars
  <2>3. ASSUME NEW i \in DOMAIN batch'[c]
        PROVE  \/ services'[batch'[c][i].name] # None
               \/ \E j \in DOMAIN toAdd' : toAdd'[j] = batch'[c][i]
               \/ \E j \in DOMAIN toAddNext' : toAddNext'[j] = batch'[c][i]
    <3>1. CASE services[batch[c][i].name] # None
      BY <1>1, <2>2, <3>1
    <3>2. CASE batch[c][i] = svc
      BY <1>1, <2>1, <3>2
    <3>3. CASE \E j \in DOMAIN toAdd : j # 1 /\ toAdd[j] = batch[c][i]
      BY <1>1, <1>4, <3>3
    <3>4. CASE \E j \in DOMAIN toAddNext : toAddNext[j] = batch[c][i]
      BY <1>1, <2>1, <3>4
    <3> QED
      BY <1>1, <1>2, <3>1, <3>2, <3>3, <3>4 DEF AddingOK
  <2>4. Len(toAdd') + Len(toAddNext') = Len(toAdd) + Len(toAddNext)
    BY <1>1, <1>2, <1>4, <2>1
  <2>5. ASSUME Len(toAdd') + Len(toAddNext') = prevLen'
        PROVE  \A j \in DOMAIN toAddNext' : ~Creatable(toAddNext'[j], None)
    <3>1. ~Creatable(svc, None)
      BY <1>8 DEF Creatable, Known
    <3>2. \A k \in DOMAIN toAddNext : ~Creatable(toAddNext[k], None)
      BY <1>1, <2>4, <2>5 DEF AddingOK
    <3> QED
      BY <2>1, <3>1, <3>2
  <2>6. (Len(toAdd) + Len(toAddNext) = prevLen =>
            \A j \in DOMAIN toAddNext : ~Creatable(toAddNext[j], None))'
    BY <2>2, <2>5 DEF Creatable, Known
  <2>7. (Len(toAdd) + Len(toAddNext) <= prevLen)'
    BY <1>1, <2>4 DEF AddingOK
  <2> QED
    BY <2>3, <2>6, <2>7 DEF AddingOK
<1> QED
  BY <1>5, <1>7, <1>8

\* The rounds of a CreateBatch that holds the lock lose no service.
LEMMA NextAdding == TypeOK /\ Locking /\ Adding /\ [Next]_vars => Adding'
<1> SUFFICES ASSUME TypeOK, Locking, Adding, [Next]_vars, NEW d \in Clients, pc'[d] = "adding"
             PROVE  AddingOK(d)'
  BY DEF Adding
<1> USE DEF TypeOK
<1>0. pc[d] = "adding" => AddingOK(d) /\ writer = d /\ writer # None
  BY NoneAssumption DEF Adding, Locking
<1>1. ASSUME pc[d] = "adding", UNCHANGED registryVars, UNCHANGED batchVars, batch'[d] = batch[d]
      PROVE  AddingOK(d)'
  BY <1>0, <1>1 DEF AddingOK, registryVars, batchVars, Fresh, Creatable, Known
<1>2. CASE UNCHANGED vars
  BY <1>1, <1>2 DEF vars, callVars
<1>3. ASSUME NEW c \in Clients, CallAny(c) PROVE AddingOK(d)'
  BY <1>1, <1>3 DEF CallAny, Call, Idle
<1>4. ASSUME NEW c \in Clients, Acquire(c) PROVE AddingOK(d)'
  <2>1. CASE LockCreate(c) /\ c # d
    BY <1>0, <2>1 DEF LockCreate
  <2>2. CASE LockCreate(c) /\ c = d
    <3>1. toAdd' = batch[d] /\ batch'[d] = batch[d] /\ toAddNext' = <<>> /\ prevLen' = Len(batch[d])
      BY <2>2 DEF LockCreate
    <3>2. Len(toAddNext') = 0 /\ DOMAIN toAddNext' = {} /\ Len(batch[d]) \in Nat
      BY <3>1
    <3> QED
      BY <3>1, <3>2 DEF AddingOK
  <2>3. CASE LockRemove(c)
    BY <1>0, <2>3 DEF LockRemove
  <2>4. CASE ListServices(c)
    BY <1>1, <2>4, ListServicesGoesOn DEF Return
  <2>5. CASE \/ StatusHangs(c) \/ StartLookup(c) \/ StartLookupFails(c) \/ StopLookup(c)
             \/ StopLookupFails(c) \/ StopAllLookup(c)
    BY <1>1, <2>5 DEF StatusHangs, StartLookup, StartLookupFails, StopLookup, StopLookupFails,
                      StopAllLookup, NewRunner, Return, callVars
  <2> QED
    BY <1>4, <2>1, <2>2, <2>3, <2>4, <2>5 DEF Acquire
<1>5. ASSUME NEW c \in Clients, Proceed(c) PROVE AddingOK(d)'
  <2>1. CASE CreateOne(c)
    BY <1>0, <2>1, CreateOneAdding DEF CreateOne, Locked, callVars
  <2>2. CASE CreateRound(c)
    <3>1. /\ AddingOK(d) /\ toAdd = <<>> /\ toAdd' = toAddNext /\ toAddNext' = <<>>
          /\ prevLen' = Len(toAddNext) /\ batch' = batch /\ services' = services
      BY <1>0, <2>2 DEF CreateRound, callVars, registryVars
    <3>2. Len(toAddNext') = 0 /\ DOMAIN toAddNext' = {} /\ DOMAIN toAdd = {} /\ Len(toAddNext) \in Nat
      BY <3>1
    <3> QED
      BY <3>1, <3>2 DEF AddingOK
  <2>3. CASE CreateReturn(c)
    BY <1>0, <2>3 DEF CreateReturn, Return, Locked
  <2>4. ASSUME NEW n \in Names, RemoveOne(c, n) \/ RemoveFails(c, n) \/ RemoveHangs(c, n) PROVE AddingOK(d)'
    BY <1>0, <2>4 DEF RemoveOne, RemoveFails, RemoveHangs, Removing, Return, Locked, callVars
  <2>5. ASSUME NEW o \in Objects, BeginStart(c, o) \/ EndStart(c, o) \/ StopTask(c, o)
        PROVE  AddingOK(d)'
    BY <1>1, <2>5 DEF BeginStart, EndStart, StopTask, callVars
  <2>6. CASE RemoveReturn(c) \/ RunnerReturn(c)
    BY <1>1, <2>6 DEF RemoveReturn, Removing, RunnerReturn, Return
  <2> QED
    BY <1>5, <2>1, <2>2, <2>3, <2>4, <2>5, <2>6 DEF Proceed
<1>6. ASSUME NEW o \in Objects, Watch(o) \/ GetHealthy(o) \/ Die(o) PROVE AddingOK(d)'
  BY <1>1, <1>6 DEF Watch, GetHealthy, Die, callVars
<1> QED
  BY <1>2, <1>3, <1>4, <1>5, <1>6 DEF Next

\* Only a Start starts a service.
LEMMA StoppedStays ==
    ASSUME TypeOK, [Next]_vars, \A d \in Clients : ~(pc[d] = "run" /\ op[d] \in Starting),
           NEW o \in Objects, status[o] = "STOPPED"
    PROVE  status'[o] = "STOPPED"
<1> USE DEF TypeOK
<1>1. CASE UNCHANGED vars
  BY <1>1 DEF vars, serviceVars
<1>2. ASSUME NEW c \in Clients, CallAny(c) \/ Acquire(c) PROVE UNCHANGED status
  BY <1>2 DEF CallAny, Call, Acquire, LockCreate, LockRemove, ListServices, StatusHangs, StartLookup,
              StartLookupFails, StopLookup, StopLookupFails, StopAllLookup, serviceVars
<1>3. ASSUME NEW c \in Clients, Proceed(c) PROVE status'[o] = "STOPPED"
  <2>1. CASE CreateOne(c) \/ CreateRound(c) \/ CreateReturn(c) \/ RemoveReturn(c) \/ RunnerReturn(c)
    BY <2>1 DEF CreateOne, CreateRound, CreateReturn, RemoveReturn, RunnerReturn, serviceVars
  <2>2. ASSUME NEW n \in Names, RemoveOne(c, n) \/ RemoveFails(c, n) \/ RemoveHangs(c, n) PROVE status'[o] = "STOPPED"
    BY <2>2 DEF RemoveOne, RemoveFails, RemoveHangs, StopService, StopHangs, serviceVars
  <2>3. ASSUME NEW p \in Objects, BeginStart(c, p) \/ EndStart(c, p) \/ StopTask(c, p)
        PROVE  status'[o] = "STOPPED"
    BY <2>3 DEF BeginStart, EndStart, StopTask, StopService, StopHangs, serviceVars
  <2> QED
    BY <1>3, <2>1, <2>2, <2>3 DEF Proceed
<1>4. ASSUME NEW p \in Objects, Watch(p) \/ GetHealthy(p) \/ Die(p) PROVE status'[o] = "STOPPED"
  BY <1>4 DEF Watch, GetHealthy, Die, Live
<1> QED
  BY <1>1, <1>2, <1>3, <1>4 DEF Next

\* A Start that begins its work ends the quiet of all.
LEMMA QuietStays ==
    ASSUME TypeOK, Runners, Quiet, [Next]_vars, NEW c \in Clients,
           pc'[c] = "run", op'[c] = "StopAll", quiet'[c]
    PROVE  /\ \A d \in Clients : ~(pc'[d] = "run" /\ op'[d] \in Starting)
           /\ \/ StopAllLookup(c)
              \/ /\ pc[c] = "run" /\ op[c] = "StopAll" /\ quiet[c] /\ list'[c] = list[c]
                 /\ \/ completed'[c] = completed[c]
                    \/ \E o \in Objects : StopTask(c, o)
<1> DEFINE Calm == \A d \in Clients : ~(pc[d] = "run" /\ op[d] \in Starting)
           Goal == /\ \A d \in Clients : ~(pc'[d] = "run" /\ op'[d] \in Starting)
                   /\ \/ StopAllLookup(c)
                      \/ /\ pc[c] = "run" /\ op[c] = "StopAll" /\ quiet[c] /\ list'[c] = list[c]
                         /\ \/ completed'[c] = completed[c]
                            \/ \E o \in Objects : StopTask(c, o)
<1> SUFFICES Goal
  OBVIOUS
<1> USE DEF TypeOK
<1>0. pc[c] = "run" /\ op[c] = "StopAll" /\ quiet[c] => Calm
  BY DEF Quiet
<1>1. ASSUME UNCHANGED <<list, completed, quiet>>, NEW e \in Clients,
             \A d \in Clients \ {e} : pc'[d] = pc[d] /\ op'[d] = op[d],
             pc'[e] # "run"
      PROVE  Goal
  BY <1>0, <1>1
<1>2. ASSUME UNCHANGED <<pc, op, list, quiet>>,
             \/ completed'[c] = completed[c]
             \/ \E o \in Objects : StopTask(c, o)
      PROVE  Goal
  BY <1>0, <1>2
<1>3. CASE UNCHANGED vars
  BY <1>2, <1>3 DEF vars, callVars, runnerVars
<1>4. ASSUME NEW e \in Clients, CallAny(e) PROVE Goal
  <2>1. /\ UNCHANGED <<list, completed, quiet>>
        /\ \A d \in Clients \ {e} : pc'[d] = pc[d] /\ op'[d] = op[d]
        /\ pc'[e] # "run"
    BY <1>4 DEF CallAny, Call, runnerVars
  <2> QED
    BY <1>1, <2>1
<1>5. ASSUME NEW e \in Clients, Acquire(e) PROVE Goal
  <2>1. CASE \/ LockCreate(e) \/ LockRemove(e) \/ ListServices(e) \/ StatusHangs(e)
             \/ StartLookupFails(e) \/ StopLookupFails(e)
    <3>1. /\ UNCHANGED <<list, completed, quiet>>
          /\ \A d \in Clients \ {e} : pc'[d] = pc[d] /\ op'[d] = op[d]
          /\ pc'[e] # "run"
      <4>1. CASE ListServices(e)
        BY <4>1, ListServicesGoesOn DEF Return, runnerVars
      <4>2. CASE ~ListServices(e)
        BY <2>1, <4>2 DEF LockCreate, LockRemove, StatusHangs, StartLookupFails, StopLookupFails,
                          Return, callVars, runnerVars
      <4> QED
        BY <4>1, <4>2
    <3> QED
      BY <1>1, <3>1
  <2>2. CASE StartLookup(e)
    BY <2>2 DEF StartLookup
  <2>3. CASE StopLookup(e)
    <3>1. /\ op[e] = "Stop" /\ UNCHANGED <<op, quiet>>
          /\ pc' = [pc EXCEPT ![e] = "run"]
          /\ \A d \in Clients \ {e} : list'[d] = list[d] /\ completed'[d] = completed[d]
      BY <2>3 DEF StopLookup, NewRunner
    <3>2. c # e
      BY <3>1
    <3> QED
      BY <1>0, <3>1, <3>2 DEF Starting
  <2>4. CASE StopAllLookup(e)
    <3>1. /\ op[e] \in {"StopAll", "StopAllUnsafe"} /\ UNCHANGED op
          /\ pc' = [pc EXCEPT ![e] = "run"]
          /\ \A d \in Clients \ {e} : list'[d] = list[d] /\ completed'[d] = completed[d]
          /\ quiet' = [quiet EXCEPT ![e] = Calm]
      BY <2>4 DEF StopAllLookup, NewRunner
    <3>2. CASE c = e
      BY <2>4, <3>1, <3>2 DEF Starting
    <3>3. CASE c # e
      <4>1. pc[c] = "run" /\ op[c] = "StopAll" /\ quiet[c]
        BY <3>1, <3>3
      <4> QED
        BY <1>0, <3>1, <3>3, <4>1 DEF Starting
    <3> QED
      BY <3>2, <3>3
  <2> QED
    BY <1>5, <2>1, <2>2, <2>3, <2>4 DEF Acquire
<1>6. ASSUME NEW e \in Clients, Proceed(e) PROVE Goal
  <2>1. CASE CreateOne(e) \/ CreateRound(e)
    BY <1>2, <2>1 DEF CreateOne, CreateRound, callVars, runnerVars
  <2>2. CASE CreateReturn(e) \/ RemoveReturn(e)
    <3>1. /\ UNCHANGED <<list, completed, quiet>>
          /\ \A d \in Clients \ {e} : pc'[d] = pc[d] /\ op'[d] = op[d]
          /\ pc'[e] # "run"
      BY <2>2 DEF CreateReturn, RemoveReturn, Return, runnerVars
    <3> QED
      BY <1>1, <3>1
  <2>3. ASSUME NEW n \in Names, RemoveOne(e, n) \/ RemoveHangs(e, n) PROVE Goal
    BY <1>2, <2>3 DEF RemoveOne, RemoveHangs, callVars, runnerVars
  <2>4. ASSUME NEW n \in Names, RemoveFails(e, n) PROVE Goal
    <3>1. /\ UNCHANGED <<list, completed, quiet>>
          /\ \A d \in Clients \ {e} : pc'[d] = pc[d] /\ op'[d] = op[d]
          /\ pc'[e] # "run"
      BY <2>4 DEF RemoveFails, Return, runnerVars
    <3> QED
      BY <1>1, <3>1
  <2>5. ASSUME NEW o \in Objects, BeginStart(e, o) PROVE Goal
    BY <1>2, <2>5 DEF BeginStart, callVars
  <2>6. ASSUME NEW o \in Objects, EndStart(e, o) PROVE Goal
    <3>1. UNCHANGED <<pc, op, list, quiet>> /\ o \in running[e] /\ o \notin stuck[e]
      BY <2>6 DEF EndStart, callVars
    <3>2. c # e
      BY <3>1 DEF Runners, RunnerOK, Starting
    <3> QED
      BY <1>2, <2>6, <3>1, <3>2 DEF EndStart
  <2>7. ASSUME NEW o \in Objects, StopTask(e, o) PROVE Goal
    <3>1. UNCHANGED <<pc, op, list, quiet>>
      BY <2>7 DEF StopTask, callVars
    <3>2. c = e \/ completed'[c] = completed[c]
      BY <2>7 DEF StopTask
    <3> QED
      BY <1>2, <2>7, <3>1, <3>2
  <2>8. CASE RunnerReturn(e)
    <3>1. /\ \A d \in Clients \ {e} :
                /\ pc'[d] = pc[d] /\ op'[d] = op[d] /\ quiet'[d] = quiet[d]
                /\ list'[d] = list[d] /\ completed'[d] = completed[d]
          /\ pc'[e] # "run"
      BY <2>8 DEF RunnerReturn, Return
    <3> QED
      BY <1>0, <3>1
  <2> QED
    BY <1>6, <2>1, <2>2, <2>3, <2>4, <2>5, <2>6, <2>7, <2>8 DEF Proceed
<1>7. ASSUME NEW o \in Objects, Watch(o) \/ GetHealthy(o) \/ Die(o) PROVE Goal
  BY <1>2, <1>7 DEF Watch, GetHealthy, Die, callVars, runnerVars
<1> QED
  BY <1>3, <1>4, <1>5, <1>6, <1>7 DEF Next

\* What a StopAll stopped or did not list stays STOPPED while it is quiet.
LEMMA NextQuiet == TypeOK /\ Heap /\ Runners /\ Quiet /\ [Next]_vars => Quiet'
<1> SUFFICES ASSUME TypeOK, Heap, Runners, Quiet, [Next]_vars, NEW c \in Clients,
                    pc'[c] = "run", op'[c] = "StopAll", quiet'[c]
             PROVE  /\ \A d \in Clients : ~(pc'[d] = "run" /\ op'[d] \in Starting)
                    /\ \A o \in completed'[c] : status'[o] = "STOPPED"
                    /\ \A o \in Registered' : o \in list'[c] \/ status'[o] = "STOPPED"
  BY DEF Quiet
<1>1. \A d \in Clients : ~(pc'[d] = "run" /\ op'[d] \in Starting)
  BY QuietStays
<1>2. CASE StopAllLookup(c)
  <2>1. op[c] = "StopAll" /\ UNCHANGED registryVars
    BY <1>2 DEF StopAllLookup, TypeOK
  <2>2. PICK tasks \in Listing(Registered) : NewRunner(c, tasks)
    BY <1>2, <2>1 DEF StopAllLookup
  <2>3. completed'[c] = {} /\ list'[c] = tasks /\ Registered \subseteq tasks
    BY <2>2 DEF NewRunner, Listing, TypeOK
  <2> QED
    BY <1>1, <2>1, <2>3 DEF Registered, registryVars
<1>3. CASE ~StopAllLookup(c)
  <2>1. /\ pc[c] = "run" /\ op[c] = "StopAll" /\ quiet[c] /\ list'[c] = list[c]
        /\ \/ completed'[c] = completed[c]
           \/ \E o \in Objects : StopTask(c, o)
    BY <1>3, QuietStays
  <2>2. /\ \A d \in Clients : ~(pc[d] = "run" /\ op[d] \in Starting)
        /\ \A o \in completed[c] : status[o] = "STOPPED"
        /\ \A o \in Registered : o \in list[c] \/ status[o] = "STOPPED"
    BY <2>1 DEF Quiet
  <2>3. \A o \in Objects : status[o] = "STOPPED" => status'[o] = "STOPPED"
    BY <2>2, StoppedStays
  <2>4. \A o \in completed'[c] : status'[o] = "STOPPED"
    <3>1. CASE completed'[c] = completed[c]
      BY <2>2, <2>3, <3>1 DEF TypeOK
    <3>2. ASSUME NEW o \in Objects, StopTask(c, o), ~(completed'[c] = completed[c])
          PROVE  \A p \in completed'[c] : status'[p] = "STOPPED"
      <4>1. PICK ok \in BOOLEAN :
              /\ StopService(o, ok)
              /\ completed'[c] = (IF ok THEN completed[c] \cup {o} ELSE completed[c])
        BY <3>2 DEF StopTask, TaskFailed, TypeOK
      <4>2. ok => status'[o] = "STOPPED"
        BY <4>1 DEF StopService, TypeOK
      <4> QED
        BY <2>2, <2>3, <4>1, <4>2 DEF TypeOK
    <3> QED
      BY <2>1, <3>1, <3>2
  <2>5. \A o \in Registered' : o \in Registered \/ o \in Fresh
    <3>1. ASSUME NEW d \in Clients, CreateOne(d) PROVE \A o \in Registered' : o \in Registered \/ o \in Fresh
      <4>1. PICK o \in Fresh : UNCHANGED registryVars \/ Create(Head(toAdd), o)
        BY <3>1 DEF CreateOne
      <4> QED
        BY <4>1 DEF Create, Registered, registryVars, TypeOK
    <3>2. ASSUME NEW d \in Clients, NEW n \in Names, RemoveOne(d, n)
          PROVE  \A o \in Registered' : o \in Registered
      BY <3>2 DEF RemoveOne, Registered, TypeOK
    <3> QED
      BY <3>1, <3>2, RegistryChanges DEF registryVars, Registered
  <2>6. \A o \in Fresh : status'[o] = "STOPPED"
    BY FreshStopped
  <2>7. Registered \subseteq Objects
    BY DEF Registered, TypeOK
  <2> QED
    BY <1>1, <2>1, <2>2, <2>3, <2>4, <2>5, <2>6, <2>7
<1> QED
  BY <1>2, <1>3
-----------------------------------------------------------------------------
\* The invariant holds at the start.
LEMMA InitIInv == Init => IInv
<1> SUFFICES ASSUME Init PROVE IInv
  OBVIOUS
<1>1. TypeOK
  <2>1. <<>> \in Seq(Services)
    OBVIOUS
  <2> QED
    BY <2>1, NoneAssumption DEF Init, TypeOK, Ops
<1>2. Heap /\ Acyclic
  BY DEF Init, Heap, Acyclic, Fresh
<1>3. Runners
  BY DEF Init, Runners, RunnerOK, Fresh
<1>5. Places
  BY DEF Init, Places, PlacesOK
<1>4. Locking /\ Adding /\ Quiet
  BY DEF Init, Locking, Adding, Quiet
<1> QED
  BY <1>1, <1>2, <1>3, <1>4, <1>5 DEF IInv

\* Every step keeps it.
LEMMA NextIInv == IInv /\ [Next]_vars => IInv'
<1> SUFFICES ASSUME IInv, [Next]_vars PROVE IInv'
  OBVIOUS
<1>1. TypeOK' /\ Heap' /\ Acyclic'
  BY NextTypeOK, NextHeap, NextAcyclic DEF IInv
<1>2. Runners' /\ Places' /\ Locking'
  BY NextRunners, NextPlaces, NextLocking DEF IInv
<1>3. Adding' /\ Quiet'
  BY NextAdding, NextQuiet DEF IInv
<1> QED
  BY <1>1, <1>2, <1>3 DEF IInv

\* The inductive invariant of the registry, its lock and the runners holds in
\* every reachable state.
THEOREM Inductive == Spec => []IInv
  BY InitIInv, NextIInv, PTL DEF Spec

\* Every variable of the handlers has its type.
THEOREM Typing == Spec => []TypeOK
<1>1. IInv => TypeOK
  BY DEF IInv
<1> QED
  BY <1>1, Inductive, PTL

\* Whatever a task waits for is one of the tasks.
LEMMA NeedsAreListed ==
    ASSUME IInv, NEW c \in Clients, pc[c] = "run", NEW o \in list[c]
    PROVE  Needs(c, o) \subseteq NamesOf(list[c])
<1>1. NeedsListed(c)
  BY DEF IInv, Runners, RunnerOK
<1>2. NamesOf(Users(c, o)) \subseteq NamesOf(list[c])
  BY DEF Users, NamesOf
<1>3. CASE op[c] \in Starting
  BY <1>1, <1>3 DEF NeedsListed, Needs, Starting
<1>4. CASE op[c] = "StopAll"
  BY <1>2, <1>4 DEF Needs, Starting
<1>5. CASE op[c] \notin Starting /\ op[c] # "StopAll"
  BY <1>5 DEF Needs
<1> QED
  BY <1>3, <1>4, <1>5

\* A runner of the handlers can always go on: nothing that a task waits for is
\* missing, and no set of its tasks waits for itself, as long as every name was
\* used once.
THEOREM SoundRunners == Spec => []RunnersGetSoundGraphs
<1>1. ASSUME IInv, NEW c \in Clients, pc[c] = "run", ~Twins, NEW S \in SUBSET list[c], S # {}
      PROVE  \E o \in S : Needs(c, o) \cap NamesOf(S) = {}
  <2>1. S \in SUBSET Objects /\ list[c] \subseteq Objects \ Fresh
    BY <1>1 DEF IInv, TypeOK, Runners, RunnerOK
  <2>2. \A o, p \in Objects \ Fresh : name[o] = name[p] => o = p
    BY <1>1 DEF Twins
  <2>3. \A u \in Objects : dependents[u] \subseteq Objects \ Fresh
    BY <1>1 DEF IInv, TypeOK, Heap
  <2>4. CASE op[c] \in Starting
    <3>1. PICK o \in S : dependents[o] \cap S = {}
      BY <1>1, <2>1 DEF IInv, Acyclic
    <3>2. NamesOf(dependents[o]) \cap NamesOf(S) = {}
      BY <2>1, <2>2, <2>3, <3>1 DEF NamesOf
    <3>3. Needs(c, o) = NamesOf(dependents[o])
      BY <2>4 DEF Needs, Starting
    <3> QED
      BY <3>1, <3>2, <3>3
  <2>5. CASE op[c] = "StopAll"
    <3>1. PICK o \in S : \A u \in S : o \notin dependents[u]
      BY <1>1, <2>1 DEF IInv, Acyclic
    <3>2. ASSUME NEW u \in Users(c, o) PROVE u \in list[c] /\ o \in dependents[u]
      BY <2>1, <2>2, <2>3, <3>1, <3>2 DEF Users, NamesOf
    <3>3. NamesOf(Users(c, o)) \cap NamesOf(S) = {}
      BY <2>1, <2>2, <3>1, <3>2 DEF NamesOf
    <3> QED
      BY <2>5, <3>3 DEF Needs, Starting
  <2>6. CASE op[c] \notin Starting /\ op[c] # "StopAll"
    BY <1>1, <2>6 DEF Needs
  <2> QED
    BY <2>4, <2>5, <2>6
<1>2. ASSUME IInv, NEW c \in Clients, pc[c] = "run", NEW o \in list[c]
      PROVE  Needs(c, o) \subseteq NamesOf(list[c])
  BY <1>2, NeedsAreListed
<1>3. IInv => RunnersGetSoundGraphs
  BY <1>1, <1>2 DEF RunnersGetSoundGraphs
<1> QED
  BY <1>3, Inductive, PTL

\* Where the calls of CreateBatch and of the runners return.
LEMMA Returns ==
    ASSUME TypeOK, [Next]_vars, NEW c \in Clients, pc'[c] \in {"ok", "error"}
    PROVE  /\ pc[c] = "adding" => CreateReturn(c)
           /\ pc[c] = "run" => RunnerReturn(c)
<1> SUFFICES ASSUME pc[c] \in {"adding", "run"} PROVE CreateReturn(c) \/ RunnerReturn(c)
  BY DEF CreateReturn, RunnerReturn
<1> USE DEF TypeOK
<1>1. pc'[c] # pc[c] /\ ~Idle(c)
  BY DEF Idle
<1>2. CASE UNCHANGED vars
  BY <1>1, <1>2 DEF vars, callVars
<1>3. ASSUME NEW e \in Clients, CallAny(e) PROVE FALSE
  BY <1>1, <1>3 DEF CallAny, Call
<1>4. ASSUME NEW e \in Clients, Acquire(e) PROVE FALSE
  <2>1. CASE ListServices(e)
    BY <1>1, <2>1, ListServicesGoesOn DEF Return
  <2>2. CASE ~ListServices(e)
    BY <1>1, <1>4, <2>2 DEF Acquire, LockCreate, LockRemove, StatusHangs, StartLookup, StartLookupFails,
                            StopLookup, StopLookupFails, StopAllLookup, NewRunner, Return, callVars
  <2> QED
    BY <2>1, <2>2
<1>5. ASSUME NEW e \in Clients, Proceed(e) PROVE CreateReturn(c) \/ RunnerReturn(c)
  <2>1. CASE CreateReturn(e) \/ RunnerReturn(e)
    <3>1. e = c
      BY <1>1, <2>1 DEF CreateReturn, RunnerReturn, Return
    <3> QED
      BY <2>1, <3>1
  <2>2. CASE CreateOne(e) \/ CreateRound(e) \/ RemoveReturn(e)
    BY <1>1, <2>2 DEF CreateOne, CreateRound, RemoveReturn, Removing, Return, callVars
  <2>3. ASSUME NEW n \in Names, RemoveOne(e, n) \/ RemoveFails(e, n) \/ RemoveHangs(e, n) PROVE FALSE
    BY <1>1, <2>3 DEF RemoveOne, RemoveFails, RemoveHangs, Removing, Return, callVars
  <2>4. ASSUME NEW o \in Objects, BeginStart(e, o) \/ EndStart(e, o) \/ StopTask(e, o) PROVE FALSE
    BY <1>1, <2>4 DEF BeginStart, EndStart, StopTask, callVars
  <2> QED
    BY <1>5, <2>1, <2>2, <2>3, <2>4 DEF Proceed
<1>6. ASSUME NEW o \in Objects, Watch(o) \/ GetHealthy(o) \/ Die(o) PROVE FALSE
  BY <1>1, <1>6 DEF Watch, GetHealthy, Die, callVars
<1> QED
  BY <1>2, <1>3, <1>4, <1>5, <1>6 DEF Next

\* CreateBatch leaves out only what cannot be created, and reports it: each
\* service it leaves out is invalid or lacks a dependency when it returns.
THEOREM BatchesAreTrue == Spec => BatchTruth
<1>1. ASSUME IInv, [Next]_vars, NEW c \in Clients, pc[c] = "adding", pc'[c] \in {"ok", "error"},
             NEW i \in DOMAIN batch[c], services[batch[c][i].name] = None
      PROVE  /\ pc'[c] # "ok"
             /\ ~batch[c][i].valid \/ \E d \in batch[c][i].deps : services[d] = None
  <2>1. CreateReturn(c) /\ AddingOK(c) /\ TypeOK
    BY <1>1, Returns DEF IInv, Adding
  <2>2. toAdd = <<>> /\ pc \in [Clients -> {"idle", "lock", "adding", "removing", "list", "lookup",
                                            "run", "ok", "error"}]
    BY <2>1 DEF CreateReturn, TypeOK
  <2>3. DOMAIN toAdd = {} /\ Len(toAdd) = 0 /\ Len(toAddNext) \in Nat
    BY <2>1, <2>2 DEF TypeOK
  <2>4. PICK j \in DOMAIN toAddNext : toAddNext[j] = batch[c][i]
    BY <1>1, <2>1, <2>3 DEF AddingOK
  <2>5. toAddNext # <<>> /\ NoProgress /\ pc'[c] = "error"
    BY <2>1, <2>2, <2>4 DEF CreateReturn, Return
  <2>6. ~Creatable(batch[c][i], None)
    BY <2>1, <2>3, <2>4, <2>5 DEF AddingOK, NoProgress
  <2> QED
    BY <1>1, <2>5, <2>6 DEF Creatable, Known
<1>2. IInv /\ [Next]_vars =>
        [ \A c \in Clients : pc[c] = "adding" /\ pc'[c] \in {"ok", "error"} =>
            LET left == {i \in DOMAIN batch[c] : services[batch[c][i].name] = None}
            IN  /\ pc'[c] = "ok" => left = {}
                /\ \A i \in left : \/ ~batch[c][i].valid
                                   \/ \E d \in batch[c][i].deps : services[d] = None ]_vars
  BY <1>1
<1> QED
  BY <1>2, Inductive, PTL DEF Spec, BatchTruth

\* A StopAll that returns without an error has stopped all that was registered
\* and all they depend on.
THEOREM StopAllIsComplete == Spec => StopAllStops
<1>1. ASSUME IInv, [Next]_vars, NEW c \in Clients, pc[c] = "run", op[c] = "StopAll", quiet[c],
             pc'[c] = "ok"
      PROVE  \A o \in Registered \cup list[c] : status[o] = "STOPPED"
  <2>1. RunnerReturn(c) /\ TypeOK /\ RunnerOK(c)
    BY <1>1, Returns DEF IInv, Runners
  <2>2. ~err[c]
    BY <1>1, <2>1 DEF RunnerReturn, Return, TypeOK
  <2>3. list[c] = completed[c]
    BY <1>1, <2>1, <2>2 DEF RunnerReturn, RunnerOK, GoesOn
  <2> QED
    BY <1>1, <2>3 DEF IInv, Quiet
<1>2. IInv /\ [Next]_vars =>
        [ \A c \in Clients :
            /\ pc[c] = "run" /\ op[c] = "StopAll" /\ quiet[c] /\ pc'[c] = "ok"
            => \A o \in Registered \cup list[c] : status[o] = "STOPPED" ]_vars
  BY <1>1
<1> QED
  BY <1>2, Inductive, PTL DEF Spec, StopAllStops

\* StopAll stops no service before those that depend on it.
THEOREM UsersFirst == Spec => UsersStoppedFirst
<1>1. ASSUME IInv, [Next]_vars, NEW c \in Clients, NEW o \in Objects,
             pc[c] = "run", op[c] = "StopAll", quiet[c], o \in todo[c], o \notin todo'[c],
             pc'[c] = "run"
      PROVE  StopTask(c, o)
  <2> USE <1>1 DEF IInv, TypeOK
  <2>1. op[c] \notin Starting
    BY DEF Starting
  <2>2. todo' # todo
    OBVIOUS
  <2>3. ASSUME NEW e \in Clients, Acquire(e) PROVE FALSE
    BY <2>3 DEF Acquire, LockCreate, LockRemove, ListServices, StatusHangs, StartLookup, StartLookupFails,
                StopLookup, StopLookupFails, StopAllLookup, NewRunner, runnerVars
  <2>4. ASSUME NEW e \in Clients, Proceed(e) PROVE StopTask(c, o)
    <3>1. CASE CreateOne(e) \/ CreateRound(e) \/ CreateReturn(e) \/ RemoveReturn(e)
      BY <3>1 DEF CreateOne, CreateRound, CreateReturn, RemoveReturn, runnerVars
    <3>2. ASSUME NEW n \in Names, RemoveOne(e, n) \/ RemoveFails(e, n) \/ RemoveHangs(e, n) PROVE FALSE
      BY <3>2 DEF RemoveOne, RemoveFails, RemoveHangs, runnerVars
    <3>3. ASSUME NEW p \in Objects, BeginStart(e, p) \/ EndStart(e, p) PROVE FALSE
      BY <2>1, <3>3 DEF BeginStart, EndStart
    <3>4. ASSUME NEW p \in Objects, StopTask(e, p) PROVE e = c /\ p = o
      BY <3>4 DEF StopTask
    <3>5. CASE RunnerReturn(e)
      BY <3>5 DEF RunnerReturn, Return
    <3> QED
      BY <2>4, <3>1, <3>2, <3>3, <3>4, <3>5 DEF Proceed
  <2> QED
    BY <2>2, <2>3, <2>4 DEF Next, vars, CallAny, Call, Watch, GetHealthy, Die, runnerVars
<1>2. ASSUME IInv, NEW c \in Clients, NEW o \in Objects, op[c] = "StopAll", quiet[c],
             StopTask(c, o), NEW u \in list[c], o \in dependents[u]
      PROVE  status[u] = "STOPPED"
  <2>1. u \in Users(c, o)
    BY <1>2 DEF Users, NamesOf
  <2>2. NamesOf(Users(c, o)) \subseteq NamesOf(completed[c])
    BY <1>2 DEF StopTask, Ready, Needs, Starting
  <2>3. PICK v \in completed[c] : name[v] = name[u]
    BY <2>1, <2>2 DEF NamesOf
  <2>4. u = v
    BY <1>2, <2>3 DEF IInv, Runners, RunnerOK
  <2> QED
    BY <1>2, <2>3, <2>4 DEF IInv, Quiet, StopTask
<1>3. IInv /\ [Next]_vars =>
        [ \A c \in Clients, o \in Objects :
            /\ pc[c] = "run" /\ op[c] = "StopAll" /\ quiet[c]
            /\ o \in todo[c] /\ o \notin todo'[c] /\ pc'[c] = "run"
            => \A u \in list[c] : o \in dependents[u] => status[u] = "STOPPED" ]_vars
  BY <1>1, <1>2
<1> QED
  BY <1>3, Inductive, PTL DEF Spec, UsersStoppedFirst
-----------------------------------------------------------------------------
\* The tasks of a runner keep their dependencies, though other clients change
\* the registry.
LEMMA GraphStays ==
    ASSUME IInv, [Next]_vars, NEW c \in Clients, list'[c] = list[c], op'[c] = op[c]
    PROVE  Graph(c)' = Graph(c)
<1> DEFINE L == list[c]
<1>1. /\ L \subseteq Objects \ Fresh
      /\ \A o \in L : dependents[o] \subseteq Objects \ Fresh
  BY DEF IInv, TypeOK, Heap, Runners, RunnerOK
<1>2. \A o \in Objects \ Fresh : name'[o] = name[o] /\ dependents'[o] = dependents[o]
  BY NamesStay DEF IInv
<1>3. \A o \in L : name'[o] = name[o] /\ NamesOf(dependents[o])' = NamesOf(dependents[o])
  BY <1>1, <1>2 DEF NamesOf
<1>4. ASSUME NEW o \in L PROVE NamesOf(Users(c, o))' = NamesOf(Users(c, o))
  <2>1. Users(c, o)' = Users(c, o) /\ Users(c, o) \subseteq L
    BY <1>3 DEF Users
  <2> QED
    BY <1>3, <2>1 DEF NamesOf
<1>5. \A o \in L : Needs(c, o)' = Needs(c, o)
  BY <1>3, <1>4 DEF Needs
<1> QED
  BY <1>3, <1>5 DEF Graph

\* A task is ready by the names that it needs if and only if the tasks it
\* depends on are completed.
LEMMA NeedsAreDeps ==
    ASSUME IInv, NEW c \in Clients, pc[c] = "run", NEW o \in list[c]
    PROVE  Ready(c, o) <=> Graph(c)[o] \subseteq completed[c]
<1>1. /\ completed[c] \subseteq list[c]
      /\ \A p, q \in list[c] : name[p] = name[q] => p = q
  BY DEF IInv, Runners, RunnerOK
<1>2. Graph(c)[o] = {p \in list[c] : name[p] \in Needs(c, o)}
  BY DEF Graph
<1>3. Ready(c, o) => Graph(c)[o] \subseteq completed[c]
  BY <1>1, <1>2 DEF Ready, NamesOf
<1>4. ASSUME Graph(c)[o] \subseteq completed[c], NEW n \in Needs(c, o)
      PROVE  n \in NamesOf(completed[c])
  <2>1. n \in NamesOf(list[c])
    BY <1>4, NeedsAreListed
  <2>2. PICK p \in list[c] : n = name[p]
    BY <2>1 DEF NamesOf
  <2>3. p \in completed[c]
    BY <1>2, <1>4, <2>2
  <2> QED
    BY <2>2, <2>3 DEF NamesOf
<1> QED
  BY <1>3, <1>4 DEF Ready

\* A new runner has begun nothing.
LEMMA RunnerStartsFresh ==
    ASSUME IInv, NEW c \in Clients, RunnerStarts(c), HasRunner(c)'
    PROVE  \E S \in SUBSET Objects : Order(c)!Fresh(S)'
<1>1. PICK tasks \in SUBSET Objects : NewRunner(c, tasks)
  BY DEF RunnerStarts
<1>2. /\ list'[c] = tasks /\ todo'[c] = tasks /\ running'[c] = {} /\ completed'[c] = {}
  BY <1>1 DEF NewRunner, IInv, TypeOK
<1>3. Graph(c)' \in [tasks -> SUBSET tasks]
  BY <1>2 DEF Graph
<1>4. Order(c)!Fresh(tasks)'
  BY <1>2, <1>3 DEF Order!Fresh
<1> QED
  BY <1>4

\* A step of a runner at work is one of the promise.
LEMMA RunnerSteps ==
    ASSUME IInv, [Next]_vars, NEW c \in Clients, NEW o \in Objects,
           HasRunner(c), BeginStart(c, o) \/ EndStart(c, o) \/ StopTask(c, o)
    PROVE  Order(c)!Next
<1> DEFINE broken(l, t, r, d) == l \ (t \cup r \cup d)
<1>0. TypeOK /\ RunnerOK(c) /\ PlacesOK(c)
  BY DEF IInv, Runners, Places
<1>1. /\ HasRunner(c)'
      /\ op'[c] = op[c]
      /\ list'[c] = list[c]
  BY DEF HasRunner, BeginStart, EndStart, StopTask, callVars
<1>2. Graph(c)' = Graph(c)
  BY <1>1, GraphStays
<1>3. ASSUME o \in todo[c], GoesOn(c), Ready(c, o)
      PROVE  Order(c)!MayBegin(o, completed[c])
  <2>1. broken(list[c], todo[c], running[c], completed[c]) = {}
    BY <1>0, <1>3 DEF RunnerOK, GoesOn, HasRunner
  <2>2. o \in list[c] \ (running[c] \cup completed[c])
    BY <1>0, <1>3 DEF RunnerOK, PlacesOK
  <2>3. Graph(c)[o] \subseteq completed[c]
    BY <1>3, <2>2, NeedsAreDeps DEF HasRunner
  <2> QED
    BY <2>1, <2>2, <2>3 DEF Order!MayBegin
<1>4. CASE BeginStart(c, o)
  <2>1. Order(c)!MayBegin(o, completed[c])
    BY <1>3, <1>4 DEF BeginStart
  <2>2. Begun(c, o)
    BY <1>0, <1>4, BeginStartRunner
  <2>3. CASE running'[c] = running[c] \cup {o}
    <3>1. broken(list'[c], todo'[c], running'[c], completed'[c])
            = broken(list[c], todo[c], running[c], completed[c])
      BY <1>0, <2>2, <2>3 DEF RunnerOK, PlacesOK, Begun
    <3>2. Order(c)!Begin(o)
      BY <1>1, <1>2, <2>1, <2>2, <2>3, <3>1 DEF Order!Begin, Begun
    <3> QED
      BY <3>2 DEF Order!Next
  <2>4. CASE running'[c] = running[c] /\ ~(running'[c] = running[c] \cup {o})
    <3>1. broken(list'[c], todo'[c], running'[c], completed'[c])
            = broken(list[c], todo[c], running[c], completed[c]) \cup {o}
      BY <1>0, <2>2, <2>4 DEF RunnerOK, PlacesOK, Begun
    <3>2. Order(c)!BeginAndEnd(o)
      BY <1>1, <1>2, <2>1, <2>2, <2>4, <3>1 DEF Order!BeginAndEnd, Begun
    <3> QED
      BY <3>2 DEF Order!Next
  <2> QED
    BY <2>2, <2>3, <2>4 DEF Begun
<1>5. CASE EndStart(c, o)
  <2>1. Ended(c, o)
    BY <1>0, <1>5, EndStartRunner
  <2>2. CASE completed'[c] = completed[c] \cup {o}
    <3>1. broken(list'[c], todo'[c], running'[c], completed'[c])
            = broken(list[c], todo[c], running[c], completed[c])
      BY <1>0, <2>1, <2>2 DEF RunnerOK, PlacesOK, Ended
    <3>2. Order(c)!Succeed(o)
      BY <1>1, <1>2, <2>1, <2>2, <3>1 DEF Order!Succeed, Ended
    <3> QED
      BY <3>2 DEF Order!Next
  <2>3. CASE completed'[c] = completed[c] /\ ~(completed'[c] = completed[c] \cup {o})
    <3>1. broken(list'[c], todo'[c], running'[c], completed'[c])
            = broken(list[c], todo[c], running[c], completed[c]) \cup {o}
      BY <1>0, <2>1, <2>3 DEF RunnerOK, PlacesOK, Ended
    <3>2. Order(c)!Fail(o)
      BY <1>1, <1>2, <2>1, <2>3, <3>1 DEF Order!Fail, Ended
    <3> QED
      BY <3>2 DEF Order!Next
  <2> QED
    BY <2>1, <2>2, <2>3 DEF Ended
<1>6. CASE StopTask(c, o)
  <2>1. Order(c)!MayBegin(o, completed[c])
    BY <1>3, <1>6 DEF StopTask
  <2>5. CASE Begun(c, o) /\ running'[c] = running[c] \cup {o}
    <3>1. broken(list'[c], todo'[c], running'[c], completed'[c])
            = broken(list[c], todo[c], running[c], completed[c])
      BY <1>0, <2>5 DEF RunnerOK, PlacesOK, Begun
    <3>2. Order(c)!Begin(o)
      BY <1>1, <1>2, <2>1, <2>5, <3>1 DEF Order!Begin, Begun
    <3> QED
      BY <3>2 DEF Order!Next
  <2> SUFFICES ASSUME BegunAndEnded(c, o) PROVE Order(c)!Next
    BY <1>0, <1>6, <2>5, StopTaskRunner
  <2>2. BegunAndEnded(c, o)
    OBVIOUS
  <2>3. CASE completed'[c] = completed[c] \cup {o}
    <3>1. broken(list'[c], todo'[c], running'[c], completed'[c])
            = broken(list[c], todo[c], running[c], completed[c])
      BY <1>0, <2>2, <2>3 DEF RunnerOK, PlacesOK, BegunAndEnded
    <3>2. Order(c)!BeginAndEnd(o)
      BY <1>1, <1>2, <2>1, <2>2, <2>3, <3>1 DEF Order!BeginAndEnd, BegunAndEnded
    <3> QED
      BY <3>2 DEF Order!Next
  <2>4. CASE completed'[c] = completed[c] /\ ~(completed'[c] = completed[c] \cup {o})
    <3>1. broken(list'[c], todo'[c], running'[c], completed'[c])
            = broken(list[c], todo[c], running[c], completed[c]) \cup {o}
      BY <1>0, <2>2, <2>4 DEF RunnerOK, PlacesOK, BegunAndEnded
    <3>2. Order(c)!BeginAndEnd(o)
      BY <1>1, <1>2, <2>1, <2>2, <2>4, <3>1 DEF Order!BeginAndEnd, BegunAndEnded
    <3> QED
      BY <3>2 DEF Order!Next
  <2> QED
    BY <2>2, <2>3, <2>4 DEF BegunAndEnded
<1> QED
  BY <1>4, <1>5, <1>6

\* The call of a runner that returns says whether a task failed.
LEMMA RunnerReturnsTruth ==
    ASSUME IInv, NEW c \in Clients, HasRunner(c), RunnerReturn(c)
    PROVE  Order(c)!Return
<1>0. TypeOK /\ RunnerOK(c) /\ PlacesOK(c)
  BY DEF IInv, Runners, Places
<1> DEFINE broken == list[c] \ (todo[c] \cup running[c] \cup completed[c])
<1>1. running[c] = {} /\ (broken # {} \/ completed[c] = list[c])
  BY <1>0 DEF RunnerReturn, RunnerOK, PlacesOK, GoesOn, HasRunner
<1>2. broken = {} <=> ~err[c]
  BY <1>0 DEF RunnerOK, PlacesOK
<1>3. pc'[c] = IF err[c] THEN "error" ELSE "ok"
  BY <1>0, RunnerReturnRunner
<1>4. ~HasRunner(c)' /\ pc'[c] # "none"
  BY <1>3 DEF HasRunner
<1>5. Order(c)!Gone'
  BY <1>4 DEF Order!Gone
<1> QED
  BY <1>1, <1>2, <1>3, <1>4, <1>5 DEF Order!Return, Order!AtWork

\* Every step is one of the promise for each of the clients, or none.
LEMMA NextOrder ==
    ASSUME IInv, [Next]_vars, NEW c \in Clients
    PROVE  [Order(c)!Next]_(Order(c)!vars)
<1>0. TypeOK /\ Heap
  BY DEF IInv
<1>1. pc[c] # "none" /\ pc'[c] # "none"
  BY <1>0, NextTypeOK DEF TypeOK
<1>2. CASE ~HasRunner(c) /\ ~HasRunner(c)'
  <2>1. Order(c)!GoOn
    BY <1>1, <1>2 DEF Order!GoOn, Order!Gone, Order!AtWork
  <2> QED
    BY <2>1 DEF Order!Next
<1>3. CASE RunnerStays(c)
  <2>1. CASE HasRunner(c)
    <3>1. HasRunner(c)' /\ op'[c] = op[c]
      BY <1>3, <2>1 DEF RunnerStays, HasRunner
    <3>2. Graph(c)' = Graph(c)
      BY <1>3, <3>1, GraphStays DEF RunnerStays
    <3> QED
      BY <1>3, <2>1, <3>1, <3>2 DEF RunnerStays, Order!vars
  <2>2. CASE ~HasRunner(c)
    <3>1. ~HasRunner(c)'
      BY <1>3, <2>2 DEF RunnerStays, HasRunner
    <3> QED
      BY <1>2, <2>2, <3>1
  <2> QED
    BY <2>1, <2>2
<1>4. CASE RunnerStarts(c)
  <2>1. ~HasRunner(c)
    BY <1>4 DEF RunnerStarts, HasRunner
  <2>2. CASE HasRunner(c)'
    <3>1. \E S \in SUBSET Objects : Order(c)!Fresh(S)'
      BY <1>4, <2>2, RunnerStartsFresh
    <3>2. Order(c)!New
      BY <1>1, <2>1, <3>1 DEF Order!New, Order!AtWork
    <3> QED
      BY <3>2 DEF Order!Next
  <2> QED
    BY <1>2, <2>1, <2>2
<1>5. ASSUME NEW o \in Objects, BeginStart(c, o) \/ EndStart(c, o) \/ StopTask(c, o)
      PROVE  [Order(c)!Next]_(Order(c)!vars)
  <2>1. CASE HasRunner(c)
    BY <1>5, <2>1, RunnerSteps
  <2>2. CASE ~HasRunner(c)
    <3>1. ~HasRunner(c)'
      BY <1>5, <2>2 DEF HasRunner, BeginStart, EndStart, StopTask, callVars
    <3> QED
      BY <1>2, <2>2, <3>1
  <2> QED
    BY <2>1, <2>2
<1>6. CASE RunnerReturn(c)
  <2>1. CASE HasRunner(c)
    <3>1. Order(c)!Return
      BY <1>6, <2>1, RunnerReturnsTruth
    <3> QED
      BY <3>1 DEF Order!Next
  <2>2. CASE ~HasRunner(c)
    <3>1. ~HasRunner(c)'
      BY <1>0, <1>6, RunnerReturnRunner DEF HasRunner
    <3> QED
      BY <1>2, <2>2, <3>1
  <2> QED
    BY <2>1, <2>2
<1> QED
  BY <1>0, <1>3, <1>4, <1>5, <1>6, RunnerChanges

\* The starts and stops of all calls keep the order of the dependencies their
\* runners were made with.
THEOREM RunnersInOrder == Spec => RunnersKeepOrder
<1>1. IInv /\ [Next]_vars => \A c \in Clients : [Order(c)!Next]_(Order(c)!vars)
  BY NextOrder
<1> QED
  BY <1>1, Inductive, PTL DEF Spec, RunnersKeepOrder

\* The runners of each client are as OrderedTasks promises: what the worker
\* pool implements is what the handlers are modelled with.
THEOREM RunnersImplementOrder ==
    ASSUME NEW c \in Clients
    PROVE  Spec => Order(c)!Spec
<1>1. ASSUME Init
      PROVE  Order(c)!Init
  <2>1. ~HasRunner(c) /\ pc[c] # "none"
    BY <1>1 DEF Init, HasRunner
  <2>2. Order(c)!Gone
    BY <2>1 DEF Order!Gone
  <2> QED
    BY <2>2 DEF Order!Init
<1>2. IInv /\ [Next]_vars => [Order(c)!Next]_(Order(c)!vars)
  BY NextOrder
<1> QED
  BY <1>1, <1>2, Inductive, PTL DEF Spec, Order!Spec

\* DepsAssumption and AcyclicAssumption of TopologicalRunner, of the graph that
\* the call of each client hands to its workers.
PoolAssumptions ==
    \A c \in Clients : pc[c] = "run" /\ ~Twins =>
        /\ Graph(c) \in [list[c] -> SUBSET list[c]]
        /\ \A S \in SUBSET list[c] : S # {} => \E o \in S : Graph(c)[o] \cap S = {}

\* The handlers give the worker pool what its own theorems assume, as long as
\* every name was used once.
THEOREM PoolsGetWhatTheyAssume == Spec => []PoolAssumptions
<1>1. ASSUME RunnersGetSoundGraphs, NEW c \in Clients, pc[c] = "run", ~Twins,
             NEW S \in SUBSET list[c], S # {}
      PROVE  \E o \in S : Graph(c)[o] \cap S = {}
  <2>1. PICK o \in S : Needs(c, o) \cap NamesOf(S) = {}
    BY <1>1 DEF RunnersGetSoundGraphs
  <2>2. Graph(c)[o] = {p \in list[c] : name[p] \in Needs(c, o)}
    BY <1>1 DEF Graph
  <2> QED
    BY <2>1, <2>2 DEF NamesOf
<1>2. \A c \in Clients : Graph(c) \in [list[c] -> SUBSET list[c]]
  BY DEF Graph
<1>3. RunnersGetSoundGraphs => PoolAssumptions
  BY <1>1, <1>2 DEF PoolAssumptions
<1> QED
  BY <1>3, SoundRunners, PTL
-----------------------------------------------------------------------------
\* The life of the service o.
Life(o) == INSTANCE ServiceLifeCycle WITH status <- status[o]

\* The services of the handlers only do what a service does.
THEOREM ServicesLive ==
    ASSUME NEW o \in Objects
    PROVE  Spec => Life(o)!Spec
<1>1. ASSUME TypeOK, [Next]_vars
      PROVE  [Life(o)!Next]_(status[o])
  <2>1. ASSUME NEW p \in Objects, NEW v, status' = [status EXCEPT ![p] = v],
               p = o => [Life(o)!Next]_(status[o])
        PROVE  [Life(o)!Next]_(status[o])
    BY <1>1, <2>1 DEF TypeOK
  <2>2. ASSUME NEW p \in Objects, NEW v, status' = [status EXCEPT ![p] = v]
        PROVE  status'[p] = v
    BY <1>1, <2>2 DEF TypeOK
  <2>3. CASE UNCHANGED status
    BY <2>3
  <2>4. ASSUME NEW p \in Objects, NEW ok \in BOOLEAN, StopService(p, ok)
        PROVE  [Life(o)!Next]_(status[o])
    <3>1. CASE UNCHANGED status
      BY <2>3, <3>1
    <3>2. CASE status[p] # "STOPPED" /\ status' = [status EXCEPT ![p] = "STOPPED"]
      BY <2>1, <2>2, <3>2 DEF Life!Next, Life!EndStop
    <3>3. CASE status[p] # "STOPPED" /\ status' = [status EXCEPT ![p] = "STOPPING"]
      BY <2>1, <2>2, <3>3 DEF Life!Next, Life!BeginStop
    <3> QED
      BY <2>4, <3>1, <3>2, <3>3 DEF StopService
  <2>5. ASSUME NEW p \in Objects, NEW ok \in BOOLEAN, StartService(p, ok)
        PROVE  [Life(o)!Next]_(status[o])
    <3>1. CASE UNCHANGED status
      BY <2>3, <3>1
    <3>2. ASSUME NEW s \in {"STARTING", "STOPPED", "ERROR"},
                 status[p] = "STOPPED", status' = [status EXCEPT ![p] = s]
          PROVE  [Life(o)!Next]_(status[o])
      BY <2>1, <2>2, <3>2 DEF Life!Next, Life!Start, Life!StartFails
    <3> QED
      BY <2>5, <3>1, <3>2 DEF StartService
  <2>6. ASSUME NEW c \in Clients, CallAny(c) \/ Acquire(c)
        PROVE  UNCHANGED status
    BY <2>6 DEF CallAny, Call, Acquire, LockCreate, LockRemove, ListServices, StatusHangs, StartLookup,
                StartLookupFails, StopLookup, StopLookupFails, StopAllLookup, serviceVars
  <2>9. ASSUME NEW p \in Objects, NEW c \in Clients, StopHangs(c, p)
        PROVE  [Life(o)!Next]_(status[o])
    BY <2>1, <2>2, <2>9 DEF StopHangs, Life!Next, Life!BeginStop
  <2>7. ASSUME NEW c \in Clients, Proceed(c)
        PROVE  [Life(o)!Next]_(status[o])
    <3>1. CASE CreateOne(c) \/ CreateRound(c) \/ CreateReturn(c) \/ RemoveReturn(c) \/ RunnerReturn(c)
      BY <2>3, <3>1 DEF CreateOne, CreateRound, CreateReturn, RemoveReturn, RunnerReturn, serviceVars
    <3>2. ASSUME NEW n \in Names, RemoveOne(c, n) \/ RemoveFails(c, n) \/ RemoveHangs(c, n)
          PROVE  [Life(o)!Next]_(status[o])
      <4>1. services[n] \in Objects \cup {None}
        BY <1>1 DEF TypeOK
      <4>2. CASE services[n] = None
        BY <2>3, <3>2, <4>2 DEF RemoveOne, RemoveFails, RemoveHangs, serviceVars
      <4>3. CASE services[n] # None
        BY <2>4, <2>9, <3>2, <4>1, <4>3 DEF RemoveOne, RemoveFails, RemoveHangs
      <4> QED
        BY <4>2, <4>3
    <3>3. ASSUME NEW p \in Objects, BeginStart(c, p) \/ EndStart(c, p) \/ StopTask(c, p)
          PROVE  [Life(o)!Next]_(status[o])
      BY <2>3, <2>4, <2>5, <2>9, <3>3 DEF BeginStart, EndStart, StopTask, StartHangs, serviceVars
    <3> QED
      BY <2>7, <3>1, <3>2, <3>3 DEF Proceed
  <2>8. ASSUME NEW p \in Objects, Watch(p) \/ GetHealthy(p) \/ Die(p)
        PROVE  [Life(o)!Next]_(status[o])
    <3>1. CASE GetHealthy(p)
      BY <2>1, <2>2, <3>1 DEF GetHealthy, Life!Next, Life!BecomeHealthy
    <3>2. CASE Die(p)
      BY <2>1, <2>2, <3>2 DEF Die, Live, Life!Next, Life!Die
    <3>3. CASE Watch(p)
      BY <2>3, <3>3 DEF Watch
    <3> QED
      BY <2>8, <3>1, <3>2, <3>3
  <2> QED
    BY <1>1, <2>3, <2>6, <2>7, <2>8 DEF Next, vars, serviceVars
<1>2. Init => Life(o)!Init
  BY DEF Init, Life!Init
<1> QED
  BY <1>1, <1>2, Typing, PTL DEF Spec, Life!Spec
=============================================================================
