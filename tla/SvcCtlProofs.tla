------------------------------ MODULE SvcCtlProofs ------------------------------
(***************************************************************************)
(* Proofs about the commands of svcctl, for any services, dependencies,    *)
(* clients and commands.                                                   *)
(***************************************************************************)
EXTENDS SvcCtl, TLAPS

\* What is at work for a command, by the place where it is.
Phases(c) ==
    /\ pc[c] = "idle" =>
        /\ cmd[c] = "none" /\ want[c] = {} /\ unasked[c] = {} /\ stopping[c] = {}
        /\ starting[c] = {} /\ bad[c] = {}
    /\ pc[c] = "ask" =>
        cmd[c] = "auto-restart" /\ stopping[c] = {} /\ starting[c] = {} /\ bad[c] = {}
    /\ pc[c] = "stops" => unasked[c] = {} /\ starting[c] = {} /\ bad[c] = {}
    /\ pc[c] = "starts" => unasked[c] = {} /\ stopping[c] = {}
    /\ pc[c] = "ok" => stopping[c] = {} /\ starting[c] = {} /\ bad[c] = {}

\* A service that c has stopped and that is up again was forked since c asked
\* for it; a task of c is left until it failed or its service was healthy.
Restarting(c) ==
    cmd[c] \in {"auto-restart", "restart"} =>
        /\ pc[c] \in {"stops", "starts"} =>
            \A s \in want[c] \ stopping[c] :
                /\ status[s] \in {"STARTING", "STARTED"} => s \in forked[c]
                /\ status[s] = "STARTED" => s \in fresh[c]
        /\ pc[c] = "starts" =>
            \A s \in want[c] : <<{s}, s>> \in starting[c] \/ {s} \in bad[c] \/ s \in fresh[c]
        /\ pc[c] = "ok" => want[c] \subseteq fresh[c]

\* Commands that overlap are excused.
Alone == \A c, d \in Clients : c # d /\ Busy(c) /\ Busy(d) => excused[c]

\* A service that starts has a task that waits for it.
Awaited ==
    \A s \in Services :
        status[s] = "STARTING" => \E c \in Clients : \E t \in begun[c] : t[2] = s

\* The tasks of a restart.
Wanted(c) == Tasks({{s} : s \in want[c]})

\* While an auto-restart that nothing disturbs stops services, all that are
\* not to be stopped are up or down for good; while it starts them, those that
\* a task is done with are up, so that no task can fail.
Smooth(c) ==
    cmd[c] = "auto-restart" /\ ~excused[c] =>
        /\ bad[c] = {}
        /\ pc[c] # "failed"
        /\ pc[c] = "stops" =>
            \A s \in Services : status[s] \in {"STOPPED", "STARTED"} \/ (s \in stopping[c] /\ status[s] # "STARTING")
        /\ pc[c] = "starts" =>
            /\ \A s \in Services :
                /\ status[s] \in {"STOPPED", "STARTING", "STARTED"}
                /\ status[s] = "STARTING" => \A d \in Deps[s] : status[d] = "STARTED"
            /\ \A t \in begun[c] : status[t[2]] # "STOPPED"
            /\ starting[c] \subseteq Wanted(c)
            /\ \A t \in Wanted(c) : t \in starting[c] \/ status[t[2]] = "STARTED"

Commanded == \A c \in Clients : Phases(c) /\ Restarting(c) /\ Smooth(c)

IInv == TypeOK /\ Commanded /\ Alone /\ Awaited
-----------------------------------------------------------------------------
\* What a Start starts contains what it was asked for and all its dependencies.
LEMMA ClosureIsClosed ==
    ASSUME NEW R \in SUBSET Services
    PROVE  /\ R \subseteq Closure(R)
           /\ Closure(R) \subseteq Services
           /\ \A s \in Closure(R) : Deps[s] \subseteq Closure(R)
<1>1. R \subseteq Closure(R) /\ Closure(R) \subseteq Services
  BY DEF Closure
<1>2. ASSUME NEW s \in Closure(R), NEW d \in Deps[s] PROVE d \in Closure(R)
  <2>1. s \in Services /\ d \in Services
    BY <1>1, <1>2, DepsAssumption
  <2>2. ASSUME NEW S \in SUBSET Services, R \subseteq S, \A t \in S : Deps[t] \subseteq S
        PROVE  d \in S
    <3>1. s \in S
      BY <2>2 DEF Closure
    <3> QED
      BY <2>2, <3>1
  <2> QED
    BY <2>1, <2>2 DEF Closure
<1> QED
  BY <1>1, <1>2

\* The tasks of requests are requests and services.
LEMMA TasksType ==
    ASSUME NEW requests \in SUBSET Requests
    PROVE  /\ Tasks(requests) \in SUBSET (Requests \X Services)
           /\ \A t \in Tasks(requests) : t[1] \in requests /\ t[2] \in Closure(t[1]) /\ t = <<t[1], t[2]>>
           /\ \A R \in requests : \A s \in Closure(R) : <<R, s>> \in Tasks(requests)
  BY ClosureIsClosed DEF Tasks, Requests

\* Every variable keeps its type.
LEMMA NextTypeOK ==
    ASSUME TypeOK, \A c \in Clients : Phases(c), [Next]_vars
    PROVE  TypeOK'
<1> USE DEF TypeOK, Statuses, PCs, Kinds, serviceVars, clientVars, handlerVars, historyVars, Excuse
<1>1. CASE UNCHANGED vars
  BY <1>1 DEF vars, serviceVars, clientVars, handlerVars, historyVars
<1>2. ASSUME ServiceStep PROVE TypeOK'
  <2>1. ASSUME NEW s \in Services, Rebuild(s)
        PROVE  TypeOK'
    <3>1. built[s] + 1 \in 1 .. MaxBuilds
      BY <2>1, MaxBuildsAssumption DEF Rebuild
    <3> QED
      BY <2>1, <3>1 DEF Rebuild
  <2>2. ASSUME NEW s \in Services, GetHealthy(s)
        PROVE  TypeOK'
    BY <2>2 DEF GetHealthy
  <2>3. ASSUME NEW s \in Services, StoreVersion(s)
        PROVE  TypeOK'
    BY <2>3 DEF StoreVersion
  <2>4. ASSUME NEW s \in Services, Dies(s)
        PROVE  TypeOK'
    BY <2>4 DEF Dies, ExcuseBusy
  <2>5. ASSUME NEW s \in Services, MissesDependency(s)
        PROVE  TypeOK'
    BY <2>5 DEF MissesDependency
  <2> QED
    BY <1>2, <2>1, <2>2, <2>3, <2>4, <2>5 DEF ServiceStep
<1>3. ASSUME HandlerStep PROVE TypeOK'
  <2>1. ASSUME NEW d \in Clients, NEW s \in Services, Stop(d, s)
        PROVE  TypeOK'
    BY <2>1 DEF Stop
  <2>2. ASSUME NEW d \in Clients, NEW s \in Services, StopFails(d, s)
        PROVE  TypeOK'
    BY <2>2 DEF StopFails, ExcuseBusy, Fatalf
  <2>3. ASSUME NEW d \in Clients, NEW t \in starting[d], Start(d, t)
        PROVE  TypeOK'
    BY <2>3 DEF Start, CanBegin
  <2>4. ASSUME NEW d \in Clients, NEW t \in starting[d], StartFails(d, t)
        PROVE  TypeOK'
    BY <2>4 DEF StartFails, CanBegin, DropTasks, ExcuseBusy
  <2>5. ASSUME NEW d \in Clients, NEW t \in starting[d], TaskSucceeds(d, t)
        PROVE  TypeOK'
    BY <2>5 DEF TaskSucceeds
  <2>6. ASSUME NEW d \in Clients, NEW t \in starting[d], TaskFails(d, t)
        PROVE  TypeOK'
    BY <2>6 DEF TaskFails, DropTasks
  <2> QED
    BY <1>3, <2>1, <2>2, <2>3, <2>4, <2>5, <2>6 DEF HandlerStep
<1>4. ASSUME ClientStep PROVE TypeOK'
  <2>1. ASSUME NEW d \in Clients, NEW k \in Commands[d], Begin(d, k[1], k[2])
        PROVE  TypeOK'
    <3>0. Commands[d] \subseteq Kinds \X Services
      BY CommandsAssumption
    <3>1. k[1] \in Kinds /\ k[2] \in Services /\ begun[d] = {}
      <4>1. pc[d] = "idle"
        BY <2>1 DEF Begin
      <4>2. starting[d] = {}
        BY <4>1 DEF Phases
      <4> QED
        BY <3>0, <4>2
    <3>2. {{k[2]}} \in SUBSET Requests /\ {Services} \in SUBSET Requests
      BY <3>1 DEF Requests
    <3>3. /\ Tasks({{k[2]}}) \in SUBSET (Requests \X Services)
          /\ Tasks({Services}) \in SUBSET (Requests \X Services)
      BY <3>2, TasksType
    <3>4. starting' \in [Clients -> SUBSET (Requests \X Services)]
      <4>1. \/ starting' = starting
            \/ starting' = [starting EXCEPT ![d] = Tasks({{k[2]}})]
            \/ starting' = [starting EXCEPT ![d] = Tasks({Services})]
        BY <2>1 DEF Begin, SendStops, SendStarts
      <4> QED
        BY <3>3, <4>1
    <3>5. /\ want' \in [Clients -> SUBSET Services]
          /\ unasked' \in [Clients -> SUBSET Services]
          /\ stopping' \in [Clients -> SUBSET Services]
      BY <2>1, <3>1 DEF Begin, SendStops, SendStarts
    <3>6. cmd' \in [Clients -> Kinds \cup {"none"}] /\ pc' \in [Clients -> PCs]
      BY <2>1, <3>1 DEF Begin, SendStops, SendStarts
    <3>7. \A c \in Clients : begun'[c] \subseteq starting'[c]
      BY <2>1, <3>1 DEF Begin, SendStops, SendStarts
    <3>8. excused' \in [Clients -> BOOLEAN]
      BY <2>1 DEF Begin
    <3> QED
      BY <2>1, <3>4, <3>5, <3>6, <3>7, <3>8 DEF Begin
  <2>2. ASSUME NEW d \in Clients, Refuse(d)
        PROVE  TypeOK'
    BY <2>2 DEF Refuse, Fatalf
  <2>3. ASSUME NEW d \in Clients, Asked(d)
        PROVE  TypeOK'
    BY <2>3 DEF Asked, SendStops
  <2>4. ASSUME NEW d \in Clients, Stopped(d)
        PROVE  TypeOK'
    <3>1. {{s} : s \in want[d]} \in SUBSET Requests /\ begun[d] = {}
      BY <2>4 DEF Stopped, StopsDone, Phases, Requests
    <3>2. Tasks({{s} : s \in want[d]}) \in SUBSET (Requests \X Services)
      BY <3>1, TasksType
    <3>3. starting' \in [Clients -> SUBSET (Requests \X Services)]
      BY <2>4, <3>2 DEF Stopped, StopsDone, SendStarts
    <3>4. \A c \in Clients : begun'[c] \subseteq starting'[c]
      BY <2>4, <3>1 DEF Stopped, StopsDone, SendStarts
    <3> QED
      BY <2>4, <3>3, <3>4 DEF Stopped, StopsDone, SendStarts
  <2>5. ASSUME NEW d \in Clients, Succeed(d)
        PROVE  TypeOK'
    BY <2>5 DEF Succeed
  <2>6. ASSUME NEW d \in Clients, NEW s \in Services, Ask(d, s)
        PROVE  TypeOK'
    BY <2>6 DEF Ask, NeedsRestart
  <2>7. ASSUME NEW d \in Clients, NEW R \in bad[d], RequestFails(d, R)
        PROVE  TypeOK'
    BY <2>7 DEF RequestFails, Fatalf
  <2> QED
    BY <1>4, <2>1, <2>2, <2>3, <2>4, <2>5, <2>6, <2>7 DEF ClientStep
<1> QED
  BY <1>1, <1>2, <1>3, <1>4 DEF Next

\* What is at work fits the place of the command.
LEMMA NextPhases ==
    ASSUME NEW c \in Clients, TypeOK, Phases(c), [Next]_vars
    PROVE  Phases(c)'
<1> USE DEF Phases, TypeOK, Statuses, PCs, Kinds, serviceVars, clientVars, handlerVars, historyVars, Excuse
<1>1. CASE UNCHANGED vars
  BY <1>1 DEF vars, serviceVars, clientVars, handlerVars, historyVars
<1>2. ASSUME ServiceStep PROVE Phases(c)'
  <2>1. ASSUME NEW s \in Services, Rebuild(s)
        PROVE  Phases(c)'
    BY <2>1 DEF Rebuild
  <2>2. ASSUME NEW s \in Services, GetHealthy(s)
        PROVE  Phases(c)'
    BY <2>2 DEF GetHealthy
  <2>3. ASSUME NEW s \in Services, StoreVersion(s)
        PROVE  Phases(c)'
    BY <2>3 DEF StoreVersion
  <2>4. ASSUME NEW s \in Services, Dies(s)
        PROVE  Phases(c)'
    BY <2>4 DEF Dies, ExcuseBusy
  <2>5. ASSUME NEW s \in Services, MissesDependency(s)
        PROVE  Phases(c)'
    BY <2>5 DEF MissesDependency
  <2> QED
    BY <1>2, <2>1, <2>2, <2>3, <2>4, <2>5 DEF ServiceStep
<1>3. ASSUME HandlerStep PROVE Phases(c)'
  <2>1. ASSUME NEW d \in Clients, NEW s \in Services, Stop(d, s)
        PROVE  Phases(c)'
    BY <2>1 DEF Stop
  <2>2. ASSUME NEW d \in Clients, NEW s \in Services, StopFails(d, s)
        PROVE  Phases(c)'
    BY <2>2 DEF StopFails, ExcuseBusy, Fatalf
  <2>3. ASSUME NEW d \in Clients, NEW t \in starting[d], Start(d, t)
        PROVE  Phases(c)'
    BY <2>3 DEF Start, CanBegin
  <2>4. ASSUME NEW d \in Clients, NEW t \in starting[d], StartFails(d, t)
        PROVE  Phases(c)'
    BY <2>4 DEF StartFails, CanBegin, DropTasks, ExcuseBusy
  <2>5. ASSUME NEW d \in Clients, NEW t \in starting[d], TaskSucceeds(d, t)
        PROVE  Phases(c)'
    BY <2>5 DEF TaskSucceeds
  <2>6. ASSUME NEW d \in Clients, NEW t \in starting[d], TaskFails(d, t)
        PROVE  Phases(c)'
    BY <2>6 DEF TaskFails, DropTasks
  <2> QED
    BY <1>3, <2>1, <2>2, <2>3, <2>4, <2>5, <2>6 DEF HandlerStep
<1>4. ASSUME ClientStep PROVE Phases(c)'
  <2>1. ASSUME NEW d \in Clients, NEW k \in Commands[d], Begin(d, k[1], k[2])
        PROVE  Phases(c)'
    BY <2>1 DEF Begin, SendStops, SendStarts
  <2>2. ASSUME NEW d \in Clients, Refuse(d)
        PROVE  Phases(c)'
    BY <2>2 DEF Refuse, Fatalf
  <2>3. ASSUME NEW d \in Clients, Asked(d)
        PROVE  Phases(c)'
    BY <2>3 DEF Asked, SendStops
  <2>4. ASSUME NEW d \in Clients, Stopped(d)
        PROVE  Phases(c)'
    BY <2>4 DEF Stopped, StopsDone, SendStarts
  <2>5. ASSUME NEW d \in Clients, Succeed(d)
        PROVE  Phases(c)'
    BY <2>5 DEF Succeed
  <2>6. ASSUME NEW d \in Clients, NEW s \in Services, Ask(d, s)
        PROVE  Phases(c)'
    BY <2>6 DEF Ask, NeedsRestart
  <2>7. ASSUME NEW d \in Clients, NEW R \in bad[d], RequestFails(d, R)
        PROVE  Phases(c)'
    BY <2>7 DEF RequestFails, Fatalf
  <2> QED
    BY <1>4, <2>1, <2>2, <2>3, <2>4, <2>5, <2>6, <2>7 DEF ClientStep
<1> QED
  BY <1>1, <1>2, <1>3, <1>4 DEF Next

\* A restarted service was forked and healthy since it was asked for.
LEMMA NextRestarting ==
    ASSUME NEW c \in Clients, TypeOK, Phases(c), Restarting(c), [Next]_vars
    PROVE  Restarting(c)'
<1> USE DEF Restarting, Phases, TypeOK, Statuses, PCs, Kinds, serviceVars, clientVars, handlerVars, historyVars, Excuse
<1>1. CASE UNCHANGED vars
  BY <1>1 DEF vars, serviceVars, clientVars, handlerVars, historyVars
<1>2. ASSUME ServiceStep PROVE Restarting(c)'
  <2>1. ASSUME NEW s \in Services, Rebuild(s)
        PROVE  Restarting(c)'
    BY <2>1 DEF Rebuild
  <2>2. ASSUME NEW s \in Services, GetHealthy(s)
        PROVE  Restarting(c)'
    BY <2>2 DEF GetHealthy
  <2>3. ASSUME NEW s \in Services, StoreVersion(s)
        PROVE  Restarting(c)'
    BY <2>3 DEF StoreVersion
  <2>4. ASSUME NEW s \in Services, Dies(s)
        PROVE  Restarting(c)'
    BY <2>4 DEF Dies, ExcuseBusy
  <2>5. ASSUME NEW s \in Services, MissesDependency(s)
        PROVE  Restarting(c)'
    BY <2>5 DEF MissesDependency
  <2> QED
    BY <1>2, <2>1, <2>2, <2>3, <2>4, <2>5 DEF ServiceStep
<1>3. ASSUME HandlerStep PROVE Restarting(c)'
  <2>1. ASSUME NEW d \in Clients, NEW s \in Services, Stop(d, s)
        PROVE  Restarting(c)'
    BY <2>1 DEF Stop
  <2>2. ASSUME NEW d \in Clients, NEW s \in Services, StopFails(d, s)
        PROVE  Restarting(c)'
    BY <2>2 DEF StopFails, ExcuseBusy, Fatalf
  <2>3. ASSUME NEW d \in Clients, NEW t \in starting[d], Start(d, t)
        PROVE  Restarting(c)'
    <3>1. t[2] \in Services /\ t[1] \in Requests
      BY <2>3
    <3>2. CASE status[t[2]] # "STOPPED"
      BY <2>3, <3>2 DEF Start, CanBegin
    <3>3. CASE status[t[2]] = "STOPPED"
      <4>1. /\ UNCHANGED <<pc, cmd, want, unasked, stopping, starting, bad, fresh>>
            /\ status' = [status EXCEPT ![t[2]] = "STARTING"]
            /\ forked[c] \subseteq forked'[c]
            /\ pc[c] \in {"stops", "starts"} => t[2] \in forked'[c]
        BY <2>3, <3>1, <3>3 DEF Start, Active
      <4> QED
        BY <3>1, <4>1
    <3> QED
      BY <3>2, <3>3
  <2>4. ASSUME NEW d \in Clients, NEW t \in starting[d], StartFails(d, t)
        PROVE  Restarting(c)'
    <3>1. t[2] \in Services /\ t = <<t[1], t[2]>>
      BY <2>4
    <3>2. \A s \in Services :
            status'[s] \in {"STARTING", "STARTED"} => status'[s] = status[s]
      BY <2>4, <3>1 DEF StartFails
    <3>3. \A s \in Services :
            <<{s}, s>> \in starting[c] => <<{s}, s>> \in starting'[c] \/ {s} \in bad'[c]
      BY <2>4, <3>1 DEF StartFails, DropTasks
    <3>4. bad[c] \subseteq bad'[c] /\ UNCHANGED <<pc, cmd, want, stopping, forked, fresh>>
      BY <2>4 DEF StartFails, DropTasks
    <3> QED
      BY <3>2, <3>3, <3>4
  <2>5. ASSUME NEW d \in Clients, NEW t \in starting[d], TaskSucceeds(d, t)
        PROVE  Restarting(c)'
    BY <2>5 DEF TaskSucceeds
  <2>6. ASSUME NEW d \in Clients, NEW t \in starting[d], TaskFails(d, t)
        PROVE  Restarting(c)'
    BY <2>6 DEF TaskFails, DropTasks
  <2> QED
    BY <1>3, <2>1, <2>2, <2>3, <2>4, <2>5, <2>6 DEF HandlerStep
<1>4. ASSUME ClientStep PROVE Restarting(c)'
  <2>1. ASSUME NEW d \in Clients, NEW k \in Commands[d], Begin(d, k[1], k[2])
        PROVE  Restarting(c)'
    BY <2>1 DEF Begin, SendStops, SendStarts
  <2>2. ASSUME NEW d \in Clients, Refuse(d)
        PROVE  Restarting(c)'
    BY <2>2 DEF Refuse, Fatalf
  <2>3. ASSUME NEW d \in Clients, Asked(d)
        PROVE  Restarting(c)'
    BY <2>3 DEF Asked, SendStops
  <2>4. ASSUME NEW d \in Clients, Stopped(d)
        PROVE  Restarting(c)'
    <3>1. {{s} : s \in want[c]} \in SUBSET Requests
      BY DEF Requests
    <3>2. ASSUME NEW s \in want[c] PROVE <<{s}, s>> \in Tasks({{r} : r \in want[c]})
      <4>1. {s} \in SUBSET Services /\ {s} \in {{r} : r \in want[c]}
        OBVIOUS
      <4>2. s \in Closure({s})
        BY <4>1, ClosureIsClosed
      <4> QED
        BY <3>1, <4>1, <4>2, TasksType
    <3>3. CASE d = c
      <4>1. /\ pc[c] = "stops" /\ pc'[c] \in {"starts", "ok"} /\ stopping[c] = {}
            /\ UNCHANGED <<cmd, want, stopping, status, forked, fresh>>
            /\ cmd[c] # "stop" => pc'[c] = "starts" /\ starting'[c] = Tasks({{r} : r \in want[c]})
        BY <2>4, <3>3 DEF Stopped, StopsDone, SendStarts
      <4> QED
        BY <3>2, <4>1
    <3>4. CASE d # c
      BY <2>4, <3>4 DEF Stopped, StopsDone, SendStarts
    <3> QED
      BY <3>3, <3>4
  <2>5. ASSUME NEW d \in Clients, Succeed(d)
        PROVE  Restarting(c)'
    BY <2>5 DEF Succeed
  <2>6. ASSUME NEW d \in Clients, NEW s \in Services, Ask(d, s)
        PROVE  Restarting(c)'
    BY <2>6 DEF Ask, NeedsRestart
  <2>7. ASSUME NEW d \in Clients, NEW R \in bad[d], RequestFails(d, R)
        PROVE  Restarting(c)'
    BY <2>7 DEF RequestFails, Fatalf
  <2> QED
    BY <1>4, <2>1, <2>2, <2>3, <2>4, <2>5, <2>6, <2>7 DEF ClientStep
<1> QED
  BY <1>1, <1>2, <1>3, <1>4 DEF Next

\* Whoever meets another command is excused.
LEMMA NextAlone ==
    ASSUME TypeOK, \A c \in Clients : Phases(c), Alone, [Next]_vars
    PROVE  Alone'
<1> USE DEF Alone, Phases, Busy, Active, TypeOK, Statuses, PCs, Kinds, serviceVars, clientVars, handlerVars, historyVars, Excuse
<1>1. CASE UNCHANGED vars
  BY <1>1 DEF vars, serviceVars, clientVars, handlerVars, historyVars
<1>2. ASSUME ServiceStep PROVE Alone'
  <2>1. ASSUME NEW s \in Services, Rebuild(s)
        PROVE  Alone'
    BY <2>1 DEF Rebuild
  <2>2. ASSUME NEW s \in Services, GetHealthy(s)
        PROVE  Alone'
    BY <2>2 DEF GetHealthy
  <2>3. ASSUME NEW s \in Services, StoreVersion(s)
        PROVE  Alone'
    BY <2>3 DEF StoreVersion
  <2>4. ASSUME NEW s \in Services, Dies(s)
        PROVE  Alone'
    BY <2>4 DEF Dies, ExcuseBusy
  <2>5. ASSUME NEW s \in Services, MissesDependency(s)
        PROVE  Alone'
    BY <2>5 DEF MissesDependency
  <2> QED
    BY <1>2, <2>1, <2>2, <2>3, <2>4, <2>5 DEF ServiceStep
<1>3. ASSUME HandlerStep PROVE Alone'
  <2>1. ASSUME NEW d \in Clients, NEW s \in Services, Stop(d, s)
        PROVE  Alone'
    BY <2>1 DEF Stop
  <2>2. ASSUME NEW d \in Clients, NEW s \in Services, StopFails(d, s)
        PROVE  Alone'
    BY <2>2 DEF StopFails, ExcuseBusy, Fatalf
  <2>3. ASSUME NEW d \in Clients, NEW t \in starting[d], Start(d, t)
        PROVE  Alone'
    BY <2>3 DEF Start, CanBegin
  <2>4. ASSUME NEW d \in Clients, NEW t \in starting[d], StartFails(d, t)
        PROVE  Alone'
    BY <2>4 DEF StartFails, CanBegin, DropTasks, ExcuseBusy
  <2>5. ASSUME NEW d \in Clients, NEW t \in starting[d], TaskSucceeds(d, t)
        PROVE  Alone'
    BY <2>5 DEF TaskSucceeds
  <2>6. ASSUME NEW d \in Clients, NEW t \in starting[d], TaskFails(d, t)
        PROVE  Alone'
    BY <2>6 DEF TaskFails, DropTasks
  <2> QED
    BY <1>3, <2>1, <2>2, <2>3, <2>4, <2>5, <2>6 DEF HandlerStep
<1>4. ASSUME ClientStep PROVE Alone'
  <2>1. ASSUME NEW d \in Clients, NEW k \in Commands[d], Begin(d, k[1], k[2])
        PROVE  Alone'
    <3>1. \A c \in Clients : Busy(c)' => Busy(c) \/ c = d
      BY <2>1 DEF Begin, SendStops, SendStarts
    <3>2. \A c \in Clients : excused[c] => excused'[c]
      BY <2>1 DEF Begin
    <3>3. ASSUME NEW c \in Clients, c # d, Busy(c)
          PROVE  excused'[c] /\ excused'[d]
      BY <2>1, <3>3 DEF Begin
    <3> QED
      BY <3>1, <3>2, <3>3
  <2>2. ASSUME NEW d \in Clients, Refuse(d)
        PROVE  Alone'
    BY <2>2 DEF Refuse, Fatalf
  <2>3. ASSUME NEW d \in Clients, Asked(d)
        PROVE  Alone'
    BY <2>3 DEF Asked, SendStops
  <2>4. ASSUME NEW d \in Clients, Stopped(d)
        PROVE  Alone'
    BY <2>4 DEF Stopped, StopsDone, SendStarts
  <2>5. ASSUME NEW d \in Clients, Succeed(d)
        PROVE  Alone'
    BY <2>5 DEF Succeed
  <2>6. ASSUME NEW d \in Clients, NEW s \in Services, Ask(d, s)
        PROVE  Alone'
    BY <2>6 DEF Ask, NeedsRestart
  <2>7. ASSUME NEW d \in Clients, NEW R \in bad[d], RequestFails(d, R)
        PROVE  Alone'
    BY <2>7 DEF RequestFails, Fatalf
  <2> QED
    BY <1>4, <2>1, <2>2, <2>3, <2>4, <2>5, <2>6, <2>7 DEF ClientStep
<1> QED
  BY <1>1, <1>2, <1>3, <1>4 DEF Next

\* Whoever forks a service waits for it.
LEMMA NextAwaited ==
    ASSUME TypeOK, \A c \in Clients : Phases(c), Awaited, [Next]_vars
    PROVE  Awaited'
<1> USE DEF Awaited, Phases, TypeOK, Statuses, PCs, Kinds, serviceVars, clientVars, handlerVars, historyVars, Excuse
<1>1. CASE UNCHANGED vars
  BY <1>1 DEF vars, serviceVars, clientVars, handlerVars, historyVars
<1>2. ASSUME ServiceStep PROVE Awaited'
  <2>1. ASSUME NEW s \in Services, Rebuild(s)
        PROVE  Awaited'
    BY <2>1 DEF Rebuild
  <2>2. ASSUME NEW s \in Services, GetHealthy(s)
        PROVE  Awaited'
    BY <2>2 DEF GetHealthy
  <2>3. ASSUME NEW s \in Services, StoreVersion(s)
        PROVE  Awaited'
    BY <2>3 DEF StoreVersion
  <2>4. ASSUME NEW s \in Services, Dies(s)
        PROVE  Awaited'
    BY <2>4 DEF Dies, ExcuseBusy
  <2>5. ASSUME NEW s \in Services, MissesDependency(s)
        PROVE  Awaited'
    BY <2>5 DEF MissesDependency
  <2> QED
    BY <1>2, <2>1, <2>2, <2>3, <2>4, <2>5 DEF ServiceStep
<1>3. ASSUME HandlerStep PROVE Awaited'
  <2>1. ASSUME NEW d \in Clients, NEW s \in Services, Stop(d, s)
        PROVE  Awaited'
    BY <2>1 DEF Stop
  <2>2. ASSUME NEW d \in Clients, NEW s \in Services, StopFails(d, s)
        PROVE  Awaited'
    BY <2>2 DEF StopFails, ExcuseBusy, Fatalf
  <2>3. ASSUME NEW d \in Clients, NEW t \in starting[d], Start(d, t)
        PROVE  Awaited'
    BY <2>3 DEF Start, CanBegin
  <2>4. ASSUME NEW d \in Clients, NEW t \in starting[d], StartFails(d, t)
        PROVE  Awaited'
    BY <2>4 DEF StartFails, CanBegin, DropTasks, ExcuseBusy
  <2>5. ASSUME NEW d \in Clients, NEW t \in starting[d], TaskSucceeds(d, t)
        PROVE  Awaited'
    BY <2>5 DEF TaskSucceeds
  <2>6. ASSUME NEW d \in Clients, NEW t \in starting[d], TaskFails(d, t)
        PROVE  Awaited'
    BY <2>6 DEF TaskFails, DropTasks
  <2> QED
    BY <1>3, <2>1, <2>2, <2>3, <2>4, <2>5, <2>6 DEF HandlerStep
<1>4. ASSUME ClientStep PROVE Awaited'
  <2>1. ASSUME NEW d \in Clients, NEW k \in Commands[d], Begin(d, k[1], k[2])
        PROVE  Awaited'
    BY <2>1 DEF Begin, SendStops, SendStarts
  <2>2. ASSUME NEW d \in Clients, Refuse(d)
        PROVE  Awaited'
    BY <2>2 DEF Refuse, Fatalf
  <2>3. ASSUME NEW d \in Clients, Asked(d)
        PROVE  Awaited'
    BY <2>3 DEF Asked, SendStops
  <2>4. ASSUME NEW d \in Clients, Stopped(d)
        PROVE  Awaited'
    BY <2>4 DEF Stopped, StopsDone, SendStarts
  <2>5. ASSUME NEW d \in Clients, Succeed(d)
        PROVE  Awaited'
    BY <2>5 DEF Succeed
  <2>6. ASSUME NEW d \in Clients, NEW s \in Services, Ask(d, s)
        PROVE  Awaited'
    BY <2>6 DEF Ask, NeedsRestart
  <2>7. ASSUME NEW d \in Clients, NEW R \in bad[d], RequestFails(d, R)
        PROVE  Awaited'
    BY <2>7 DEF RequestFails, Fatalf
  <2> QED
    BY <1>4, <2>1, <2>2, <2>3, <2>4, <2>5, <2>6, <2>7 DEF ClientStep
<1> QED
  BY <1>1, <1>2, <1>3, <1>4 DEF Next

\* Nothing else is at work beside a command that is not excused, and no service
\* starts but for it.
LEMMA Undisturbed ==
    ASSUME NEW c \in Clients, TypeOK, \A d \in Clients : Phases(d), Alone, Awaited, Busy(c), ~excused[c]
    PROVE  /\ \A d \in Clients \ {c} : ~Active(d) /\ stopping[d] = {} /\ starting[d] = {} /\ begun[d] = {}
           /\ \A s \in Services : status[s] = "STARTING" => \E t \in begun[c] : t[2] = s
<1>1. \A d \in Clients \ {c} : ~Busy(d)
  BY DEF Alone
<1>2. \A d \in Clients \ {c} : ~Active(d) /\ stopping[d] = {} /\ starting[d] = {} /\ begun[d] = {}
  BY <1>1 DEF Busy, TypeOK
<1> QED
  BY <1>2 DEF Awaited

\* A step that changes nothing of a command keeps it smooth.
LEMMA SmoothKept ==
    ASSUME NEW c \in Clients, Smooth(c), excused[c] => excused'[c],
           UNCHANGED <<status, pc[c], cmd[c], want[c], stopping[c], starting[c], begun[c], bad[c]>>
    PROVE  Smooth(c)'
  BY DEF Smooth, Wanted

\* The services that the tasks of a command are about.
LEMMA TasksOfWant ==
    ASSUME TypeOK, NEW c \in Clients
    PROVE  \A t \in Wanted(c) :
            /\ t = <<t[1], t[2]>> /\ t[2] \in Services
            /\ \A d \in Deps[t[2]] : d \in Services /\ <<t[1], d>> \in Wanted(c)
<1> DEFINE asked == {{s} : s \in want[c]}
<1>1. asked \in SUBSET Requests
  BY DEF TypeOK, Requests
<1>2. ASSUME NEW t \in Tasks(asked)
      PROVE  /\ t = <<t[1], t[2]>> /\ t[2] \in Services
             /\ \A d \in Deps[t[2]] : d \in Services /\ <<t[1], d>> \in Tasks(asked)
  <2>1. t[1] \in asked /\ t[2] \in Closure(t[1]) /\ t = <<t[1], t[2]>>
    BY <1>1, <1>2, TasksType
  <2>2. /\ t[2] \in Services
        /\ \A d \in Deps[t[2]] : d \in Services /\ d \in Closure(t[1])
    BY <1>1, <2>1, ClosureIsClosed DEF Requests
  <2> QED
    BY <1>1, <2>1, <2>2, TasksType
<1> QED
  BY <1>2 DEF Wanted

\* What nothing disturbs goes smoothly.
LEMMA NextSmooth ==
    ASSUME NEW c \in Clients, TypeOK, \A d \in Clients : Phases(d), Alone, Awaited, Smooth(c), [Next]_vars
    PROVE  Smooth(c)'
<1> USE DEF Smooth, Phases, TypeOK, Statuses, PCs, Kinds, serviceVars, clientVars, handlerVars, historyVars, Excuse
<1>1. CASE UNCHANGED vars
  BY <1>1 DEF vars, serviceVars, clientVars, handlerVars, historyVars, Wanted
<1>2. ASSUME ServiceStep PROVE Smooth(c)'
  <2>1. ASSUME NEW s \in Services, Rebuild(s)
        PROVE  Smooth(c)'
    BY <2>1 DEF Rebuild, Wanted
  <2>2. ASSUME NEW s \in Services, GetHealthy(s)
        PROVE  Smooth(c)'
    <3> SUFFICES ASSUME cmd[c] = "auto-restart", ~excused[c], pc[c] \in {"ask", "stops", "starts"}
                 PROVE  Smooth(c)'
      BY <2>2 DEF GetHealthy
    <3>1. /\ Busy(c)
          /\ \A e \in Clients \ {c} : ~Active(e) /\ stopping[e] = {} /\ starting[e] = {} /\ begun[e] = {}
      BY Undisturbed DEF Busy, Active
    <3>2. \A t \in Wanted(c) : t[2] \in Services
      BY TasksOfWant
    <3>3. CASE pc[c] = "starts"
      <4>1. \A r \in Services : status'[r] = status[r] \/ status'[r] = "STARTED"
        BY <2>2 DEF GetHealthy
      <4>2. UNCHANGED <<pc, cmd, excused, bad, starting, begun, Wanted(c)>>
        BY <2>2 DEF GetHealthy, Wanted
      <4>3. begun[c] \subseteq starting[c] /\ \A r \in Services : Deps[r] \subseteq Services
        BY DepsAssumption
      <4> QED
        BY <3>2, <3>3, <4>1, <4>2, <4>3
    <3> QED
      BY <2>2, <3>3 DEF GetHealthy
  <2>3. ASSUME NEW s \in Services, StoreVersion(s)
        PROVE  Smooth(c)'
    BY <2>3 DEF StoreVersion, Wanted
  <2>4. ASSUME NEW s \in Services, Dies(s)
        PROVE  Smooth(c)'
    <3> SUFFICES ASSUME cmd[c] = "auto-restart", ~excused[c], pc[c] \in {"ask", "stops", "starts"}
                 PROVE  Smooth(c)'
      BY <2>4 DEF Dies, ExcuseBusy
    <3>1. /\ Busy(c)
          /\ \A e \in Clients \ {c} : ~Active(e) /\ stopping[e] = {} /\ starting[e] = {} /\ begun[e] = {}
      BY Undisturbed DEF Busy, Active
    <3> QED
      BY <2>4, <3>1 DEF Dies, ExcuseBusy
  <2>5. ASSUME NEW s \in Services, MissesDependency(s)
        PROVE  Smooth(c)'
    BY <2>5 DEF MissesDependency
  <2> QED
    BY <1>2, <2>1, <2>2, <2>3, <2>4, <2>5 DEF ServiceStep
<1>3. ASSUME HandlerStep PROVE Smooth(c)'
  <2>1. ASSUME NEW d \in Clients, NEW s \in Services, Stop(d, s)
        PROVE  Smooth(c)'
    <3> SUFFICES ASSUME cmd[c] = "auto-restart", ~excused[c], pc[c] \in {"ask", "stops", "starts"}
                 PROVE  Smooth(c)'
      BY <2>1 DEF Stop
    <3>1. /\ Busy(c)
          /\ \A e \in Clients \ {c} : ~Active(e) /\ stopping[e] = {} /\ starting[e] = {} /\ begun[e] = {}
      BY Undisturbed DEF Busy, Active
    <3>2. d = c /\ pc[c] = "stops"
      BY <2>1, <3>1 DEF Stop
    <3> QED
      BY <2>1, <3>2 DEF Stop
  <2>2. ASSUME NEW d \in Clients, NEW s \in Services, StopFails(d, s)
        PROVE  Smooth(c)'
    <3> SUFFICES ASSUME cmd[c] = "auto-restart", ~excused[c], pc[c] \in {"ask", "stops", "starts"}
                 PROVE  Smooth(c)'
      BY <2>2 DEF StopFails, ExcuseBusy, Fatalf
    <3>1. /\ Busy(c)
          /\ \A e \in Clients \ {c} : ~Active(e) /\ stopping[e] = {} /\ starting[e] = {} /\ begun[e] = {}
      BY Undisturbed DEF Busy, Active
    <3> QED
      BY <2>2, <3>1 DEF StopFails, ExcuseBusy, Fatalf
  <2>3. ASSUME NEW d \in Clients, NEW t \in starting[d], Start(d, t)
        PROVE  Smooth(c)'
    <3> SUFFICES ASSUME cmd[c] = "auto-restart", ~excused[c], pc[c] \in {"ask", "stops", "starts"}
                 PROVE  Smooth(c)'
      BY <2>3 DEF Start, CanBegin
    <3>1. /\ Busy(c)
          /\ \A e \in Clients \ {c} : ~Active(e) /\ stopping[e] = {} /\ starting[e] = {} /\ begun[e] = {}
      BY Undisturbed DEF Busy, Active
    <3>2. d = c /\ pc[c] = "starts"
      BY <2>3, <3>1 DEF Start, CanBegin
    <3>3. t \in Wanted(c) /\ t \notin begun[c]
      BY <2>3, <3>2 DEF Start, CanBegin
    <3>4. \A u \in Wanted(c) : u[2] \in Services
      BY TasksOfWant
    <3>5. \A e \in Deps[t[2]] : e \in Services /\ status[e] = "STARTED"
      <4> SUFFICES ASSUME NEW e \in Deps[t[2]] PROVE e \in Services /\ status[e] = "STARTED"
        OBVIOUS
      <4>1. e \in Services /\ <<t[1], e>> \in Wanted(c)
        BY <3>3, TasksOfWant
      <4>2. <<t[1], e>> \notin starting[c]
        BY <2>3, <3>2 DEF Start, CanBegin
      <4> QED
        BY <3>2, <4>1, <4>2
    <3>6. /\ UNCHANGED <<pc, cmd, excused, bad, starting, Wanted(c)>>
          /\ begun'[c] = begun[c] \cup {t}
      BY <2>3, <3>2 DEF Start, Wanted
    <3>7. /\ status'[t[2]] # "STOPPED"
          /\ \A r \in Services \ {t[2]} : status'[r] = status[r]
          /\ status'[t[2]] # status[t[2]] => status[t[2]] = "STOPPED" /\ status'[t[2]] = "STARTING"
      BY <2>3, <3>3, <3>4 DEF Start
    <3>8. \A r \in Services : Deps[r] \subseteq Services
      BY DepsAssumption
    <3> QED
      BY <3>2, <3>3, <3>4, <3>5, <3>6, <3>7, <3>8
  <2>4. ASSUME NEW d \in Clients, NEW t \in starting[d], StartFails(d, t)
        PROVE  Smooth(c)'
    <3>1. CASE Busy(c)
      BY <2>4, <3>1 DEF StartFails, ExcuseBusy
    <3>2. CASE ~Busy(c)
      <4>1. d # c
        BY <2>4, <3>2 DEF Busy
      <4>2. pc[c] \notin {"ask", "stops", "starts"} /\ pc' = pc /\ cmd' = cmd /\ bad'[c] = bad[c]
        BY <2>4, <3>2, <4>1 DEF Busy, Active, StartFails, DropTasks
      <4>3. excused[c] => excused'[c]
        BY <2>4 DEF StartFails, ExcuseBusy
      <4> QED
        BY <4>2, <4>3
    <3> QED
      BY <3>1, <3>2
  <2>5. ASSUME NEW d \in Clients, NEW t \in starting[d], TaskSucceeds(d, t)
        PROVE  Smooth(c)'
    <3>1. CASE d = c
      <4> SUFFICES ASSUME cmd[c] = "auto-restart", ~excused[c] PROVE Smooth(c)'
        BY <2>5 DEF TaskSucceeds
      <4>1. pc[c] = "starts"
        BY <2>5, <3>1
      <4>2. \A u \in Wanted(c) : u[2] \in Services
        BY TasksOfWant
      <4>3. /\ UNCHANGED <<pc, cmd, excused, bad, status, Wanted(c)>>
            /\ begun'[c] \subseteq begun[c] /\ starting'[c] = starting[c] \ {t} /\ status[t[2]] = "STARTED"
        BY <2>5, <3>1 DEF TaskSucceeds, Wanted
      <4> QED
        BY <4>1, <4>2, <4>3
    <3>2. CASE d # c
      <4>1. /\ UNCHANGED <<status, pc[c], cmd[c], want[c], stopping[c], starting[c], begun[c], bad[c]>>
            /\ excused[c] => excused'[c]
        BY <2>5, <3>2 DEF TaskSucceeds
      <4> QED
        BY <4>1, SmoothKept
    <3> QED
      BY <3>1, <3>2
  <2>6. ASSUME NEW d \in Clients, NEW t \in starting[d], TaskFails(d, t)
        PROVE  Smooth(c)'
    <3>1. CASE d = c
      <4> SUFFICES ASSUME cmd[c] = "auto-restart", ~excused[c] PROVE FALSE
        BY <2>6, <3>1 DEF TaskFails
      <4>1. pc[c] = "starts"
        BY <2>6, <3>1 DEF TaskFails
      <4>2. t \in Wanted(c) /\ t \in begun[c]
        BY <2>6, <3>1, <4>1 DEF TaskFails
      <4> QED
        BY <2>6, <4>1, <4>2, TasksOfWant DEF TaskFails
    <3>2. CASE d # c
      <4>1. /\ UNCHANGED <<status, pc[c], cmd[c], want[c], stopping[c], starting[c], begun[c], bad[c]>>
            /\ excused[c] => excused'[c]
        BY <2>6, <3>2 DEF TaskFails, DropTasks
      <4> QED
        BY <4>1, SmoothKept
    <3> QED
      BY <3>1, <3>2
  <2> QED
    BY <1>3, <2>1, <2>2, <2>3, <2>4, <2>5, <2>6 DEF HandlerStep
<1>4. ASSUME ClientStep PROVE Smooth(c)'
  <2>1. ASSUME NEW d \in Clients, NEW k \in Commands[d], Begin(d, k[1], k[2])
        PROVE  Smooth(c)'
    <3>1. CASE d = c
      BY <2>1, <3>1 DEF Begin, SendStops, SendStarts
    <3>2. CASE d # c
      <4>1. UNCHANGED <<pc[c], cmd[c], bad>> /\ (excused[c] => excused'[c])
        BY <2>1, <3>2 DEF Begin, SendStops, SendStarts
      <4>2. CASE Busy(c)
        BY <2>1, <3>2, <4>2 DEF Begin
      <4>3. CASE ~Busy(c)
        BY <4>1, <4>3 DEF Busy, Active
      <4> QED
        BY <4>2, <4>3
    <3> QED
      BY <3>1, <3>2
  <2>2. ASSUME NEW d \in Clients, Refuse(d)
        PROVE  Smooth(c)'
    BY <2>2 DEF Refuse, Fatalf, Wanted
  <2>3. ASSUME NEW d \in Clients, Asked(d)
        PROVE  Smooth(c)'
    <3>1. CASE d = c
      <4> SUFFICES ASSUME cmd[c] = "auto-restart", ~excused'[c] PROVE Smooth(c)'
        BY <2>3 DEF Asked
      <4>1. pc[c] = "ask" /\ ~excused[c]
        BY <2>3, <3>1 DEF Asked
      <4>2. Busy(c) /\ begun[c] = {}
        BY <4>1 DEF Busy, Active
      <4>3. \A s \in Services : status[s] # "STARTING"
        BY <4>1, <4>2, Undisturbed
      <4>4. \A s \in Services : s \in want[c] \/ status[s] \notin {"ERROR", "STOPPING"}
        BY <2>3, <3>1 DEF Asked
      <4>5. /\ pc'[c] = "stops" /\ stopping'[c] = want[c] /\ status' = status
            /\ bad' = bad /\ bad[c] = {}
        BY <2>3, <3>1, <4>1 DEF Asked, SendStops
      <4> QED
        BY <4>3, <4>4, <4>5
    <3>2. CASE d # c
      <4>1. /\ UNCHANGED <<status, pc[c], cmd[c], want[c], stopping[c], starting[c], begun[c], bad[c]>>
            /\ excused[c] => excused'[c]
        BY <2>3, <3>2 DEF Asked, SendStops
      <4> QED
        BY <4>1, SmoothKept
    <3> QED
      BY <3>1, <3>2
  <2>4. ASSUME NEW d \in Clients, Stopped(d)
        PROVE  Smooth(c)'
    <3>1. CASE d = c
      <4> SUFFICES ASSUME cmd[c] = "auto-restart", ~excused[c] PROVE Smooth(c)'
        BY <2>4 DEF Stopped
      <4>1. /\ pc[c] = "stops" /\ stopping[c] = {} /\ pc'[c] = "starts" /\ begun[c] = {}
            /\ starting'[c] = Wanted(c)
            /\ UNCHANGED <<cmd, bad, excused, begun, status, Wanted(c)>>
        BY <2>4, <3>1 DEF Stopped, StopsDone, SendStarts, Wanted
      <4> QED
        BY <4>1
    <3>2. CASE d # c
      <4>1. /\ UNCHANGED <<status, pc[c], cmd[c], want[c], stopping[c], starting[c], begun[c], bad[c]>>
            /\ excused[c] => excused'[c]
        BY <2>4, <3>2 DEF Stopped, StopsDone, SendStarts
      <4> QED
        BY <4>1, SmoothKept
    <3> QED
      BY <3>1, <3>2
  <2>5. ASSUME NEW d \in Clients, Succeed(d)
        PROVE  Smooth(c)'
    BY <2>5 DEF Succeed, Wanted
  <2>6. ASSUME NEW d \in Clients, NEW s \in Services, Ask(d, s)
        PROVE  Smooth(c)'
    <3>1. CASE d = c
      BY <2>6, <3>1 DEF Ask
    <3>2. CASE d # c
      <4>1. /\ UNCHANGED <<status, pc[c], cmd[c], want[c], stopping[c], starting[c], begun[c], bad[c]>>
            /\ excused[c] => excused'[c]
        BY <2>6, <3>2 DEF Ask, NeedsRestart
      <4> QED
        BY <4>1, SmoothKept
    <3> QED
      BY <3>1, <3>2
  <2>7. ASSUME NEW d \in Clients, NEW R \in bad[d], RequestFails(d, R)
        PROVE  Smooth(c)'
    BY <2>7 DEF RequestFails, Fatalf, Wanted
  <2> QED
    BY <1>4, <2>1, <2>2, <2>3, <2>4, <2>5, <2>6, <2>7 DEF ClientStep
<1> QED
  BY <1>1, <1>2, <1>3, <1>4 DEF Next

-----------------------------------------------------------------------------
LEMMA InitIInv == Init => IInv
<1> SUFFICES ASSUME Init PROVE IInv
  OBVIOUS
<1>1. TypeOK
  BY MaxBuildsAssumption DEF Init, TypeOK, Statuses, PCs, Kinds, Requests
<1>2. Commanded
  BY DEF Init, Commanded, Phases, Restarting, Smooth
<1>3. Alone /\ Awaited
  BY DEF Init, Alone, Busy, Active, Awaited
<1> QED
  BY <1>1, <1>2, <1>3 DEF IInv

LEMMA NextIInv == IInv /\ [Next]_vars => IInv'
<1> SUFFICES ASSUME IInv, [Next]_vars PROVE IInv'
  OBVIOUS
<1>1. /\ TypeOK /\ Alone /\ Awaited
      /\ \A c \in Clients : Phases(c)
      /\ \A c \in Clients : Restarting(c)
      /\ \A c \in Clients : Smooth(c)
  BY DEF IInv, Commanded
<1>2. TypeOK'
  BY <1>1, NextTypeOK
<1>3. ASSUME NEW c \in Clients PROVE Phases(c)'
  BY <1>1, NextPhases
<1>4. ASSUME NEW c \in Clients PROVE Restarting(c)'
  BY <1>1, NextRestarting
<1>5. ASSUME NEW c \in Clients PROVE Smooth(c)'
  BY <1>1, NextSmooth
<1>6. Alone'
  BY <1>1, NextAlone
<1>7. Awaited'
  BY <1>1, NextAwaited
<1> QED
  BY <1>2, <1>3, <1>4, <1>5, <1>6, <1>7 DEF IInv, Commanded

\* The invariant holds in every reachable state.
THEOREM Inductive == Spec => []IInv
  BY InitIInv, NextIInv, PTL DEF Spec

\* Whatever commands are given and however their handlers interleave with the
\* services, every variable keeps its type.
THEOREM Typing == Spec => []TypeOK
<1>1. IInv => TypeOK
  BY DEF IInv
<1> QED
  BY <1>1, Inductive, PTL

\* An auto-restart or restart of svcctl that succeeds has restarted all it wanted
\* to: each became healthy in a run forked after the command asked for it.
THEOREM RestartsAreComplete == Spec => []RestartIsComplete
<1>1. IInv => RestartIsComplete
  BY DEF IInv, Commanded, Restarting, RestartIsComplete
<1> QED
  BY <1>1, Inductive, PTL

\* An auto-restart fails only for what it met, never for the order of its own
\* stops and starts.
THEOREM FailsForAReason == Spec => []NoSelfInflictedFailure
<1>1. IInv => NoSelfInflictedFailure
  BY DEF IInv, Commanded, Smooth, NoSelfInflictedFailure, TypeOK
<1> QED
  BY <1>1, Inductive, PTL
-----------------------------------------------------------------------------
\* The life of the service s.
Life(s) == INSTANCE ServiceLifeCycle WITH status <- status[s]

\* Whatever the commands and the failures, a service only does what a service
\* does: no handler starts one that is not STOPPED, and none that an error or a
\* stop ended is STARTED again without a Start.
THEOREM ServicesLive ==
    ASSUME NEW s \in Services
    PROVE  Spec => Life(s)!Spec
<1>1. ASSUME TypeOK, [Next]_vars
      PROVE  [Life(s)!Next]_(status[s])
  <2>1. ASSUME NEW p \in Services, NEW v, status' = [status EXCEPT ![p] = v],
               p = s => [Life(s)!Next]_(status[s])
        PROVE  [Life(s)!Next]_(status[s])
    BY <1>1, <2>1 DEF TypeOK
  <2>2. ASSUME NEW p \in Services, NEW v, status' = [status EXCEPT ![p] = v]
        PROVE  status'[p] = v
    BY <1>1, <2>2 DEF TypeOK
  <2>3. CASE UNCHANGED status
    BY <2>3
  <2>4. ASSUME NEW p \in Services,
               Rebuild(p) \/ GetHealthy(p) \/ StoreVersion(p) \/ Dies(p) \/ MissesDependency(p)
        PROVE  [Life(s)!Next]_(status[s])
    <3>1. CASE Rebuild(p) \/ StoreVersion(p)
      BY <2>3, <3>1 DEF Rebuild, StoreVersion
    <3>2. CASE GetHealthy(p)
      BY <2>1, <2>2, <3>2 DEF GetHealthy, Life!Next, Life!BecomeHealthy
    <3>3. CASE Dies(p) \/ MissesDependency(p)
      BY <2>1, <2>2, <3>3 DEF Dies, MissesDependency, Life!Next, Life!Die
    <3> QED
      BY <2>4, <3>1, <3>2, <3>3
  <2>5. ASSUME NEW c \in Clients, NEW p \in Services, Stop(c, p) \/ StopFails(c, p)
        PROVE  [Life(s)!Next]_(status[s])
    <3>1. CASE Stop(c, p)
      BY <2>1, <2>2, <3>1 DEF Stop, Life!Next, Life!EndStop
    <3>2. CASE StopFails(c, p)
      BY <2>1, <2>2, <3>2 DEF StopFails, Life!Next, Life!BeginStop
    <3> QED
      BY <2>5, <3>1, <3>2
  <2>6. ASSUME NEW c \in Clients, NEW t \in starting[c],
               Start(c, t) \/ StartFails(c, t) \/ TaskSucceeds(c, t) \/ TaskFails(c, t)
        PROVE  [Life(s)!Next]_(status[s])
    <3>1. t[2] \in Services
      BY <1>1, <2>6 DEF TypeOK
    <3>2. CASE UNCHANGED status
      BY <2>3, <3>2
    <3>3. CASE status[t[2]] = "STOPPED" /\ status' = [status EXCEPT ![t[2]] = "STARTING"]
      BY <2>1, <2>2, <3>1, <3>3 DEF Life!Next, Life!Start
    <3>4. ASSUME NEW st \in {"STOPPED", "ERROR"},
                 status[t[2]] = "STOPPED", status' = [status EXCEPT ![t[2]] = st]
          PROVE  [Life(s)!Next]_(status[s])
      BY <2>1, <2>2, <3>1, <3>4 DEF Life!Next, Life!StartFails
    <3> QED
      BY <2>6, <3>2, <3>3, <3>4 DEF Start, StartFails, TaskSucceeds, TaskFails, serviceVars
  <2>7. CASE ClientStep
    BY <2>3, <2>7 DEF ClientStep, Begin, Refuse, Asked, Stopped, Succeed, Ask, RequestFails, serviceVars
  <2> QED
    BY <1>1, <2>3, <2>4, <2>5, <2>6, <2>7 DEF Next, ServiceStep, HandlerStep, vars, serviceVars
<1>2. Init => Life(s)!Init
  BY DEF Init, Life!Init
<1> QED
  BY <1>1, <1>2, Typing, PTL DEF Spec, Life!Spec
=============================================================================
