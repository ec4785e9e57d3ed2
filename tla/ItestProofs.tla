------------------------------ MODULE ItestProofs ------------------------------
(***************************************************************************)
(* Proofs about bzl itest-run, for any services, dependencies and other    *)
(* commands in the container.                                              *)
(***************************************************************************)
EXTENDS Itest, SvcCtlProofs

\* No other command has been given.
Quiet == \A c \in Clients \ {Launch} : pc[c] = "idle"

Settled(s) == status[s] \in {"STARTED", "ERROR"}

\* The start-all is the first command, and its only request is for everything.
Launching ==
    /\ cmd[Launch] \in {"none", "start-all"}
    /\ cmd[Launch] = "none" => pc[Launch] \in {"idle", "failed"}
    /\ pc[Launch] \in {"idle", "starts", "ok", "failed"}
    /\ stopping[Launch] = {}
    /\ starting[Launch] \subseteq {Services} \X Services
    /\ bad[Launch] \subseteq {Services}

\* A service that no task is left of has settled.
Settling ==
    /\ pc[Launch] = "starts" =>
        \A s \in Services :
            <<Services, s>> \in starting[Launch] \/ Services \in bad[Launch] \/ Settled(s)
    /\ pc[Launch] = "ok" => \A s \in Services : Settled(s)

\* What the exit codes say.
ExitCodes ==
    /\ code = "0" => pc[Launch] = "ok"
    /\ exitFile \in {"absent", "empty", code}
    /\ exitFile # "absent" => code # "none"
    /\ waiter = "0" => misread \/ code = "0"
    /\ code = "0" /\ Quiet /\ ~lost /\ waiter # "1" /\ ~test =>
        \A s \in Services : status[s] = "STARTED"

ItestIInv == IInv /\ ItestTypeOK /\ Launching /\ (Quiet => Settling) /\ ExitCodes
-----------------------------------------------------------------------------
\* A service of the request of the start-all is started.
LEMMA AllIsAsked == Tasks({Services}) = {Services} \X Services
<1>1. Services \in SUBSET Services /\ {Services} \in SUBSET Requests
  BY DEF Requests
<1>2. Closure(Services) = Services
  BY <1>1, ClosureIsClosed
<1> QED
  BY <1>2 DEF Tasks

\* A command that was given never becomes idle.
LEMMA QuietBefore == TypeOK /\ [Next]_vars /\ Quiet' => Quiet
<1> SUFFICES ASSUME TypeOK, [Next]_vars, NEW c \in Clients, pc'[c] = "idle" PROVE pc[c] = "idle"
  BY DEF Quiet
<1> USE DEF TypeOK, serviceVars, clientVars, handlerVars, historyVars
<1>1. CASE UNCHANGED vars
  BY <1>1 DEF vars
<1>2. CASE ServiceStep
  BY <1>2 DEF ServiceStep, Rebuild, GetHealthy, StoreVersion, Dies, MissesDependency
<1>3. CASE HandlerStep
  BY <1>3 DEF HandlerStep, Stop, StopFails, Fatalf, Start, StartFails, TaskSucceeds, TaskFails
<1>4. CASE ClientStep
  BY <1>4 DEF ClientStep, Begin, SendStarts, SendStops, Refuse, Fatalf, Asked, Stopped, Succeed, Ask, RequestFails
<1> QED
  BY <1>1, <1>2, <1>3, <1>4 DEF Next

\* The other commands have nothing at work before they are given.
LEMMA QuietOthers ==
    ASSUME TypeOK, \A c \in Clients : Phases(c), Quiet
    PROVE  \A c \in Clients \ {Launch} :
            pc[c] = "idle" /\ stopping[c] = {} /\ starting[c] = {} /\ begun[c] = {} /\ bad[c] = {}
  BY DEF Quiet, Phases, TypeOK

\* The start-all does not become another command.
LEMMA NextLaunching ==
    ASSUME TypeOK, \A c \in Clients : Phases(c), Launching, [Next]_vars
    PROVE  Launching'
<1> USE LaunchAssumption DEF Launching, TypeOK, Statuses, PCs, Kinds, serviceVars, clientVars, handlerVars, historyVars
<1>1. CASE UNCHANGED vars
  BY <1>1 DEF vars, serviceVars, clientVars, handlerVars, historyVars
<1>2. ASSUME ServiceStep PROVE Launching'
  <2>1. ASSUME NEW s \in Services, Rebuild(s)
        PROVE  Launching'
    BY <2>1 DEF Rebuild
  <2>2. ASSUME NEW s \in Services, GetHealthy(s)
        PROVE  Launching'
    BY <2>2 DEF GetHealthy
  <2>3. ASSUME NEW s \in Services, StoreVersion(s)
        PROVE  Launching'
    BY <2>3 DEF StoreVersion
  <2>4. ASSUME NEW s \in Services, Dies(s)
        PROVE  Launching'
    BY <2>4 DEF Dies, ExcuseBusy
  <2>5. ASSUME NEW s \in Services, MissesDependency(s)
        PROVE  Launching'
    BY <2>5 DEF MissesDependency
  <2> QED
    BY <1>2, <2>1, <2>2, <2>3, <2>4, <2>5 DEF ServiceStep
<1>3. ASSUME HandlerStep PROVE Launching'
  <2>1. ASSUME NEW d \in Clients, NEW s \in Services, Stop(d, s)
        PROVE  Launching'
    BY <2>1 DEF Stop
  <2>2. ASSUME NEW d \in Clients, NEW s \in Services, StopFails(d, s)
        PROVE  Launching'
    BY <2>2 DEF StopFails, ExcuseBusy, Fatalf
  <2>3. ASSUME NEW d \in Clients, NEW t \in starting[d], Start(d, t)
        PROVE  Launching'
    BY <2>3 DEF Start, CanBegin
  <2>4. ASSUME NEW d \in Clients, NEW t \in starting[d], StartFails(d, t)
        PROVE  Launching'
    BY <2>4 DEF StartFails, CanBegin, DropTasks, ExcuseBusy
  <2>5. ASSUME NEW d \in Clients, NEW t \in starting[d], TaskSucceeds(d, t)
        PROVE  Launching'
    BY <2>5 DEF TaskSucceeds
  <2>6. ASSUME NEW d \in Clients, NEW t \in starting[d], TaskFails(d, t)
        PROVE  Launching'
    BY <2>6 DEF TaskFails, DropTasks
  <2> QED
    BY <1>3, <2>1, <2>2, <2>3, <2>4, <2>5, <2>6 DEF HandlerStep
<1>4. ASSUME ClientStep PROVE Launching'
  <2>1. ASSUME NEW d \in Clients, NEW k \in Commands[d], Begin(d, k[1], k[2])
        PROVE  Launching'
    <3>1. CASE d = Launch
      <4>1. k[1] = "start-all"
        BY <3>1, LaunchAssumption
      <4>2. /\ starting'[Launch] = Tasks({Services}) /\ cmd'[Launch] = "start-all"
            /\ pc'[Launch] = "starts" /\ UNCHANGED <<stopping, bad>>
        BY <2>1, <3>1, <4>1 DEF Begin, SendStops, SendStarts
      <4> QED
        BY <4>2, AllIsAsked
    <3>2. CASE d # Launch
      BY <2>1, <3>2 DEF Begin, SendStops, SendStarts
    <3> QED
      BY <3>1, <3>2
  <2>2. ASSUME NEW d \in Clients, Refuse(d)
        PROVE  Launching'
    BY <2>2 DEF Refuse, Fatalf
  <2>3. ASSUME NEW d \in Clients, Asked(d)
        PROVE  Launching'
    BY <2>3 DEF Asked, SendStops
  <2>4. ASSUME NEW d \in Clients, Stopped(d)
        PROVE  Launching'
    <3>1. d # Launch
      BY <2>4 DEF StopsDone, Stopped
    <3> QED
      BY <2>4, <3>1 DEF Stopped, StopsDone, SendStarts
  <2>5. ASSUME NEW d \in Clients, Succeed(d)
        PROVE  Launching'
    BY <2>5 DEF Succeed
  <2>6. ASSUME NEW d \in Clients, NEW s \in Services, Ask(d, s)
        PROVE  Launching'
    BY <2>6 DEF Ask, NeedsRestart
  <2>7. ASSUME NEW d \in Clients, NEW R \in bad[d], RequestFails(d, R)
        PROVE  Launching'
    BY <2>7 DEF RequestFails, Fatalf
  <2> QED
    BY <1>4, <2>1, <2>2, <2>3, <2>4, <2>5, <2>6, <2>7 DEF ClientStep
<1> QED
  BY <1>1, <1>2, <1>3, <1>4 DEF Next

\* A command that succeeded does not fail after all.
LEMMA OkStays ==
    ASSUME TypeOK, Launching, pc[Launch] = "ok", [Next]_vars
    PROVE  pc'[Launch] = "ok"
<1> USE DEF Launching, TypeOK, Statuses, PCs, Kinds, serviceVars, clientVars, handlerVars, historyVars
<1>1. CASE UNCHANGED vars
  BY <1>1 DEF vars, serviceVars, clientVars, handlerVars, historyVars
<1>2. ASSUME ServiceStep PROVE pc'[Launch] = "ok"
  <2>1. ASSUME NEW s \in Services, Rebuild(s)
        PROVE  pc'[Launch] = "ok"
    BY <2>1 DEF Rebuild
  <2>2. ASSUME NEW s \in Services, GetHealthy(s)
        PROVE  pc'[Launch] = "ok"
    BY <2>2 DEF GetHealthy
  <2>3. ASSUME NEW s \in Services, StoreVersion(s)
        PROVE  pc'[Launch] = "ok"
    BY <2>3 DEF StoreVersion
  <2>4. ASSUME NEW s \in Services, Dies(s)
        PROVE  pc'[Launch] = "ok"
    BY <2>4 DEF Dies, ExcuseBusy
  <2>5. ASSUME NEW s \in Services, MissesDependency(s)
        PROVE  pc'[Launch] = "ok"
    BY <2>5 DEF MissesDependency
  <2> QED
    BY <1>2, <2>1, <2>2, <2>3, <2>4, <2>5 DEF ServiceStep
<1>3. ASSUME HandlerStep PROVE pc'[Launch] = "ok"
  <2>1. ASSUME NEW d \in Clients, NEW s \in Services, Stop(d, s)
        PROVE  pc'[Launch] = "ok"
    BY <2>1 DEF Stop
  <2>2. ASSUME NEW d \in Clients, NEW s \in Services, StopFails(d, s)
        PROVE  pc'[Launch] = "ok"
    BY <2>2 DEF StopFails, ExcuseBusy, Fatalf
  <2>3. ASSUME NEW d \in Clients, NEW t \in starting[d], Start(d, t)
        PROVE  pc'[Launch] = "ok"
    BY <2>3 DEF Start, CanBegin
  <2>4. ASSUME NEW d \in Clients, NEW t \in starting[d], StartFails(d, t)
        PROVE  pc'[Launch] = "ok"
    BY <2>4 DEF StartFails, CanBegin, DropTasks, ExcuseBusy
  <2>5. ASSUME NEW d \in Clients, NEW t \in starting[d], TaskSucceeds(d, t)
        PROVE  pc'[Launch] = "ok"
    BY <2>5 DEF TaskSucceeds
  <2>6. ASSUME NEW d \in Clients, NEW t \in starting[d], TaskFails(d, t)
        PROVE  pc'[Launch] = "ok"
    BY <2>6 DEF TaskFails, DropTasks
  <2> QED
    BY <1>3, <2>1, <2>2, <2>3, <2>4, <2>5, <2>6 DEF HandlerStep
<1>4. ASSUME ClientStep PROVE pc'[Launch] = "ok"
  <2>1. ASSUME NEW d \in Clients, NEW k \in Commands[d], Begin(d, k[1], k[2])
        PROVE  pc'[Launch] = "ok"
    <3>1. d # Launch
      BY <2>1 DEF Begin, SendStops, SendStarts
    <3>2. \E p : pc' = [pc EXCEPT ![d] = p]
      BY <2>1 DEF Begin, SendStops, SendStarts
    <3> QED
      BY <3>1, <3>2
  <2>2. ASSUME NEW d \in Clients, Refuse(d)
        PROVE  pc'[Launch] = "ok"
    BY <2>2 DEF Refuse, Fatalf
  <2>3. ASSUME NEW d \in Clients, Asked(d)
        PROVE  pc'[Launch] = "ok"
    BY <2>3 DEF Asked, SendStops
  <2>4. ASSUME NEW d \in Clients, Stopped(d)
        PROVE  pc'[Launch] = "ok"
    <3>1. d # Launch
      BY <2>4 DEF Stopped, StopsDone, SendStarts
    <3>2. \E p : pc' = [pc EXCEPT ![d] = p]
      BY <2>4 DEF Stopped, StopsDone, SendStarts
    <3> QED
      BY <3>1, <3>2
  <2>5. ASSUME NEW d \in Clients, Succeed(d)
        PROVE  pc'[Launch] = "ok"
    BY <2>5 DEF Succeed
  <2>6. ASSUME NEW d \in Clients, NEW s \in Services, Ask(d, s)
        PROVE  pc'[Launch] = "ok"
    BY <2>6 DEF Ask, NeedsRestart
  <2>7. ASSUME NEW d \in Clients, NEW R \in bad[d], RequestFails(d, R)
        PROVE  pc'[Launch] = "ok"
    BY <2>7 DEF RequestFails, Fatalf
  <2> QED
    BY <1>4, <2>1, <2>2, <2>3, <2>4, <2>5, <2>6, <2>7 DEF ClientStep
<1> QED
  BY <1>1, <1>2, <1>3, <1>4 DEF Next

\* Only the start-all is at work.
LEMMA NextSettling ==
    ASSUME TypeOK, \A c \in Clients : Phases(c), Launching, Quiet, Quiet', Settling, [Next]_vars
    PROVE  Settling'
<1> USE LaunchAssumption DEF Launching, Settling, Settled, TypeOK, Statuses, PCs, Kinds, serviceVars, clientVars, handlerVars, historyVars
<1>1. CASE UNCHANGED vars
  BY <1>1 DEF vars, serviceVars, clientVars, handlerVars, historyVars
<1>2. ASSUME ServiceStep PROVE Settling'
  <2>1. ASSUME NEW s \in Services, Rebuild(s)
        PROVE  Settling'
    BY <2>1 DEF Rebuild
  <2>2. ASSUME NEW s \in Services, GetHealthy(s)
        PROVE  Settling'
    BY <2>2 DEF GetHealthy
  <2>3. ASSUME NEW s \in Services, StoreVersion(s)
        PROVE  Settling'
    BY <2>3 DEF StoreVersion
  <2>4. ASSUME NEW s \in Services, Dies(s)
        PROVE  Settling'
    BY <2>4 DEF Dies, ExcuseBusy
  <2>5. ASSUME NEW s \in Services, MissesDependency(s)
        PROVE  Settling'
    BY <2>5 DEF MissesDependency
  <2> QED
    BY <1>2, <2>1, <2>2, <2>3, <2>4, <2>5 DEF ServiceStep
<1>3. ASSUME HandlerStep PROVE Settling'
  <2>1. ASSUME NEW d \in Clients, NEW s \in Services, Stop(d, s)
        PROVE  Settling'
    <3>1. d = Launch
      BY <2>1, QuietOthers DEF Stop
    <3> QED
      BY <2>1, <3>1 DEF Stop
  <2>2. ASSUME NEW d \in Clients, NEW s \in Services, StopFails(d, s)
        PROVE  Settling'
    <3>1. d = Launch
      BY <2>2, QuietOthers DEF StopFails, ExcuseBusy, Fatalf
    <3> QED
      BY <2>2, <3>1 DEF StopFails, ExcuseBusy, Fatalf
  <2>3. ASSUME NEW d \in Clients, NEW t \in starting[d], Start(d, t)
        PROVE  Settling'
    <3>1. d = Launch
      BY <2>3, QuietOthers DEF Start, CanBegin
    <3>2. t[2] \in Services /\ t = <<Services, t[2]>> /\ t \in starting[Launch]
      BY <2>3, <3>1
    <3>3. \A r \in Services : Settled(r) => Settled(r)'
      BY <2>3 DEF Start, CanBegin
    <3>4. UNCHANGED <<pc, starting, bad>>
      BY <2>3 DEF Start, CanBegin
    <3> QED
      BY <3>2, <3>3, <3>4
  <2>4. ASSUME NEW d \in Clients, NEW t \in starting[d], StartFails(d, t)
        PROVE  Settling'
    <3>1. d = Launch
      BY <2>4, QuietOthers DEF StartFails, CanBegin, DropTasks, ExcuseBusy
    <3> QED
      BY <2>4, <3>1 DEF StartFails, CanBegin, DropTasks, ExcuseBusy
  <2>5. ASSUME NEW d \in Clients, NEW t \in starting[d], TaskSucceeds(d, t)
        PROVE  Settling'
    <3>1. d = Launch
      BY <2>5, QuietOthers DEF TaskSucceeds
    <3> QED
      BY <2>5, <3>1 DEF TaskSucceeds
  <2>6. ASSUME NEW d \in Clients, NEW t \in starting[d], TaskFails(d, t)
        PROVE  Settling'
    <3>1. d = Launch
      BY <2>6, QuietOthers DEF TaskFails, DropTasks
    <3> QED
      BY <2>6, <3>1 DEF TaskFails, DropTasks
  <2> QED
    BY <1>3, <2>1, <2>2, <2>3, <2>4, <2>5, <2>6 DEF HandlerStep
<1>4. ASSUME ClientStep PROVE Settling'
  <2>1. ASSUME NEW d \in Clients, NEW k \in Commands[d], Begin(d, k[1], k[2])
        PROVE  Settling'
    <3>1. d = Launch
      BY <2>1, QuietOthers DEF Begin, Quiet, SendStarts, SendStops
    <3>2. k[1] = "start-all"
      BY <3>1, LaunchAssumption
    <3>3. starting'[Launch] = Tasks({Services}) /\ pc'[Launch] = "starts"
      BY <2>1, <3>1, <3>2 DEF Begin, SendStops, SendStarts
    <3>4. \A s \in Services : <<Services, s>> \in starting'[Launch]
      <4>1. starting'[Launch] = {Services} \X Services
        BY <3>3, AllIsAsked
      <4>2. \A s \in Services : <<Services, s>> \in {Services} \X Services
        OBVIOUS
      <4> QED
        BY <4>1, <4>2, Zenon
    <3> QED
      BY <3>3, <3>4
  <2>2. ASSUME NEW d \in Clients, Refuse(d)
        PROVE  Settling'
    BY <2>2 DEF Refuse, Fatalf
  <2>3. ASSUME NEW d \in Clients, Asked(d)
        PROVE  Settling'
    <3>1. d = Launch
      BY <2>3, QuietOthers DEF Asked, SendStops
    <3> QED
      BY <2>3, <3>1 DEF Asked, SendStops
  <2>4. ASSUME NEW d \in Clients, Stopped(d)
        PROVE  Settling'
    <3>1. d = Launch
      BY <2>4, QuietOthers DEF Stopped, StopsDone, SendStarts
    <3> QED
      BY <2>4, <3>1 DEF Stopped, StopsDone, SendStarts
  <2>5. ASSUME NEW d \in Clients, Succeed(d)
        PROVE  Settling'
    <3>1. d = Launch
      BY <2>5, QuietOthers DEF Succeed
    <3> QED
      BY <2>5, <3>1 DEF Succeed
  <2>6. ASSUME NEW d \in Clients, NEW s \in Services, Ask(d, s)
        PROVE  Settling'
    <3>1. d = Launch
      BY <2>6, QuietOthers DEF Ask, NeedsRestart
    <3> QED
      BY <2>6, <3>1 DEF Ask, NeedsRestart
  <2>7. ASSUME NEW d \in Clients, NEW R \in bad[d], RequestFails(d, R)
        PROVE  Settling'
    <3>1. d = Launch
      BY <2>7, QuietOthers DEF RequestFails, Fatalf
    <3> QED
      BY <2>7, <3>1 DEF RequestFails, Fatalf
  <2> QED
    BY <1>4, <2>1, <2>2, <2>3, <2>4, <2>5, <2>6, <2>7 DEF ClientStep
<1> QED
  BY <1>1, <1>2, <1>3, <1>4 DEF Next

-----------------------------------------------------------------------------
LEMMA InitItest == ItestInit => ItestIInv
<1> SUFFICES ASSUME ItestInit PROVE ItestIInv
  OBVIOUS
<1>1. IInv
  BY InitIInv DEF ItestInit
<1>2. ItestTypeOK /\ ExitCodes
  BY <1>1 DEF ItestInit, ItestTypeOK, ExitCodes, IInv, Codes, Files
<1>3. Launching /\ Settling
  BY LaunchAssumption DEF ItestInit, Init, Launching, Settling
<1> QED
  BY <1>1, <1>2, <1>3 DEF ItestIInv

\* The steps of bzl, the scripts and svcinit's exit leave svcd alone.
LEMMA NextExitCodes ==
    ASSUME ItestIInv, UNCHANGED vars,
           LaunchLooks \/ CreateExitFile \/ WriteExitFile \/ MissPid \/ ReadExitFile \/ RunTest
    PROVE  ExitCodes' /\ ItestTypeOK'
<1> USE DEF ItestIInv, IInv, ExitCodes, ItestTypeOK, Codes, Files, Quiet
<1>0. TypeOK'
  BY DEF TypeOK, vars, serviceVars, clientVars, handlerVars, historyVars
<1> USE DEF vars, serviceVars, clientVars, handlerVars, historyVars
<1>1. CASE LaunchLooks
  <2>1. LooksHealthy /\ Quiet => \A s \in Services : status[s] = "STARTED"
    BY DEF LooksHealthy, Settling, Settled
  <2> QED
    BY <1>0, <1>1, <2>1 DEF LaunchLooks, LooksHealthy
<1>2. CASE CreateExitFile
  BY <1>0, <1>2 DEF CreateExitFile
<1>3. CASE WriteExitFile
  BY <1>0, <1>3 DEF WriteExitFile
<1>4. CASE MissPid
  BY <1>0, <1>4 DEF MissPid
<1>5. CASE ReadExitFile
  BY <1>0, <1>5 DEF ReadExitFile
<1>6. CASE RunTest
  BY <1>0, <1>6 DEF RunTest
<1> QED
  BY <1>1, <1>2, <1>3, <1>4, <1>5, <1>6

LEMMA NextItest == ItestIInv /\ [ItestNext]_itVars => ItestIInv'
<1> SUFFICES ASSUME ItestIInv, [ItestNext]_itVars PROVE ItestIInv'
  OBVIOUS
<1>1. /\ IInv /\ TypeOK /\ Launching /\ ExitCodes
      /\ \A c \in Clients : Phases(c)
  BY DEF ItestIInv, IInv, Commanded
<1>2. [Next]_vars
  BY DEF ItestNext, ContainerStep, LaunchLooks, CreateExitFile, WriteExitFile, MissPid, ReadExitFile,
         RunTest, itVars
<1>3. IInv' /\ TypeOK' /\ Launching'
  BY <1>1, <1>2, NextIInv, NextLaunching DEF IInv
<1>4. Quiet' => Quiet
  BY <1>1, <1>2, QuietBefore
<1>5. Quiet' => Settling'
  BY <1>1, <1>2, <1>4, NextSettling DEF ItestIInv
<1>6. ExitCodes' /\ ItestTypeOK'
  <2>1. CASE ContainerStep
    <3>1. code = "0" => pc'[Launch] = "ok"
      BY <1>1, <1>2, OkStays DEF ExitCodes
    <3>2. ItestTypeOK'
      BY <2>1, <1>3 DEF ContainerStep, ItestTypeOK, ItestIInv
    <3>3. code = "0" /\ Quiet' /\ ~lost' /\ waiter # "1" /\ ~test =>
            \A s \in Services : status'[s] = "STARTED"
      BY <2>1, <1>1, <1>4 DEF ContainerStep, ExitCodes, ItestIInv, ItestTypeOK
    <3> QED
      BY <2>1, <1>1, <3>1, <3>2, <3>3 DEF ContainerStep, ExitCodes
  <2>2. CASE LaunchLooks \/ CreateExitFile \/ WriteExitFile \/ MissPid \/ ReadExitFile \/ RunTest
    <3>1. UNCHANGED vars
      BY <2>2 DEF LaunchLooks, CreateExitFile, WriteExitFile, MissPid, ReadExitFile, RunTest
    <3> QED
      BY <2>2, <3>1, NextExitCodes
  <2>3. CASE UNCHANGED itVars
    <3>1. UNCHANGED <<code, exitFile, waiter, test, misread, lost, status, pc>>
      BY <2>3 DEF itVars, itestVars, vars, serviceVars, clientVars
    <3> QED
      BY <1>3, <3>1 DEF ItestIInv, ExitCodes, ItestTypeOK, Quiet
  <2> QED
    BY <2>1, <2>2, <2>3 DEF ItestNext
<1> QED
  BY <1>3, <1>5, <1>6 DEF ItestIInv

LEMMA ItestInductive == ItestSpec => []ItestIInv
  BY InitItest, NextItest, PTL DEF ItestSpec

\* In the container, too, every variable keeps its type, those of the scripts
\* and of bzl included.
THEOREM ItestTyping == ItestSpec => []ItestTypeOK
<1>1. ItestIInv => ItestTypeOK
  BY DEF ItestIInv
<1> QED
  BY <1>1, ItestInductive, PTL

\* In the container, too, a restart that succeeds is complete.
THEOREM ItestRestartsAreComplete == ItestSpec => []RestartIsComplete
<1>1. ItestIInv => RestartIsComplete
  BY DEF ItestIInv, IInv, Commanded, Restarting, RestartIsComplete
<1> QED
  BY <1>1, ItestInductive, PTL

\* In the container, too, an auto-restart fails only for what it met.
THEOREM ItestFailsForAReason == ItestSpec => []NoSelfInflictedFailure
<1>1. ItestIInv => NoSelfInflictedFailure
  BY DEF ItestIInv, IInv, Commanded, Smooth, NoSelfInflictedFailure, TypeOK
<1> QED
  BY <1>1, ItestInductive, PTL

\* bzl itest-run begins the test with every service up, unless a service was lost
\* after svcinit's last look, another command was given, or the wait script read
\* the exit code file before it was written.
THEOREM TestMeetsItsServices == ItestSpec => TestMeetsServices
<1> DEFINE Meets ==
        test' # test =>
            \/ \A s \in Services : status[s] = "STARTED"
            \/ lost
            \/ misread
            \/ \E c \in Clients \ {Launch} : pc[c] # "idle"
<1>1. ItestIInv /\ [ItestNext]_itVars => [Meets]_itVars
  <2> SUFFICES ASSUME ItestIInv, ItestNext, test' # test PROVE Meets
    OBVIOUS
  <2>1. RunTest
    BY DEF ItestNext, ContainerStep, LaunchLooks, CreateExitFile, WriteExitFile, MissPid, ReadExitFile
  <2> QED
    BY <2>1 DEF RunTest, ItestIInv, ExitCodes, ItestTypeOK, Quiet
<1> QED
  BY <1>1, ItestInductive, PTL DEF ItestSpec, TestMeetsServices
=============================================================================
