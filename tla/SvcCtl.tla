-------------------------------- MODULE SvcCtl --------------------------------
(***************************************************************************)
(* The commands of svcctl as clients of svcd: each is a process of its own *)
(* that sends its RPCs and exits, at once when one of them fails.  The     *)
(* handlers of an exited command go on in svcd.                            *)
(*                                                                         *)
(* A Stop of a service is atomic, since it holds svc.lock throughout; a    *)
(* Start RPC keeps the promise of OrderedTasks for what it starts.  A      *)
(* command with several names does for each what it does for one.          *)
(* stop-all is left to SvcCtlProcessor; status and version-check change    *)
(* nothing.                                                                *)
(***************************************************************************)
EXTENDS Naturals

CONSTANTS
    Services,  \* the services svcd has created
    Deps,      \* Deps[s]: those that s depends on
    Clients,   \* the commands that are ever given, one process each
    Commands,  \* Commands[c]: what c may be, a kind and the service it names
    MaxBuilds  \* bounds the builds of a service

Kinds == {"auto-restart", "restart", "start", "stop", "start-all"}

ASSUME DepsAssumption == Deps \in [Services -> SUBSET Services]
ASSUME CommandsAssumption == Commands \in [Clients -> SUBSET (Kinds \X Services)]
ASSUME MaxBuildsAssumption == MaxBuilds \in Nat \ {0}

VARIABLES
    status,    \* status[s]: the status of service s
    built,     \* built[s]: the content of its version files
    from,      \* from[s]: that content when its process was forked
    version,   \* version[s]: svc.version, 0 before the first healthy run
    pc,        \* pc[c]: where command c is
    cmd,       \* cmd[c]: its kind
    unasked,   \* unasked[c]: the listed services it has not asked for yet
    want,      \* want[c]: toRestart, or the service it names
    stopping,  \* stopping[c]: the services that have a Stop of c at work
    starting,  \* starting[c]: the unfinished tasks <<request, service>> of its Starts
    begun,     \* begun[c]: those in progress
    bad,       \* bad[c]: the requests one of whose tasks failed
    forked,    \* history: the services forked since c asked for them
    fresh,     \* history: those that became healthy since then
    excused    \* history: c met a failure or another command

serviceVars == <<status, built, from, version>>
handlerVars == <<stopping, starting, begun, bad>>
historyVars == <<forked, fresh, excused>>
clientVars == <<pc, cmd, unasked, want>>
vars == <<serviceVars, clientVars, handlerVars, historyVars>>

Statuses == {"STOPPED", "STARTING", "STARTED", "ERROR", "STOPPING"}
PCs == {"idle", "ask", "stops", "starts", "ok", "failed"}
Requests == SUBSET Services

Init ==
    /\ status = [s \in Services |-> "STOPPED"]
    /\ built = [s \in Services |-> 1]
    /\ from = [s \in Services |-> 1]
    /\ version = [s \in Services |-> 0]
    /\ pc = [c \in Clients |-> "idle"]
    /\ cmd = [c \in Clients |-> "none"]
    /\ unasked = [c \in Clients |-> {}]
    /\ want = [c \in Clients |-> {}]
    /\ stopping = [c \in Clients |-> {}]
    /\ starting = [c \in Clients |-> {}]
    /\ begun = [c \in Clients |-> {}]
    /\ bad = [c \in Clients |-> {}]
    /\ forked = [c \in Clients |-> {}]
    /\ fresh = [c \in Clients |-> {}]
    /\ excused = [c \in Clients |-> FALSE]

\* What a Start of the services R starts, R and all it depends on: the smallest
\* set of services that contains R and the dependencies of each of its own.
Closure(R) ==
    {s \in Services :
        \A S \in SUBSET Services :
            R \subseteq S /\ (\A t \in S : Deps[t] \subseteq S) => s \in S}

Tasks(requests) == UNION {{R} \X Closure(R) : R \in requests}

Active(c) == pc[c] \in {"ask", "stops", "starts"}

\* The command is running, or handlers of it are.
Busy(c) == Active(c) \/ stopping[c] # {} \/ starting[c] # {}

\* What goes wrong now is not the doing of a command.
Excuse(cs) == excused' = [c \in Clients |-> excused[c] \/ c \in cs]
ExcuseBusy == Excuse({c \in Clients : Busy(c)})

Fatalf(c) == pc' = [pc EXCEPT ![c] = "failed"]
-----------------------------------------------------------------------------
(* The services.                                                          *)

Rebuild(s) ==
    /\ built[s] < MaxBuilds
    /\ built' = [built EXCEPT ![s] = @ + 1]
    /\ UNCHANGED <<status, from, version, clientVars, handlerVars, historyVars>>

\* Its health checks pass.
GetHealthy(s) ==
    /\ status[s] = "STARTING"
    /\ status' = [status EXCEPT ![s] = "STARTED"]
    /\ fresh' = [c \in Clients |-> fresh[c] \cup (forked[c] \cap {s})]
    /\ UNCHANGED <<built, from, version, clientVars, handlerVars, forked, excused>>

\* The goroutine that waits for the service to be healthy comes later.
StoreVersion(s) ==
    /\ status[s] = "STARTED"
    /\ version' = [version EXCEPT ![s] = from[s]]
    /\ UNCHANGED <<status, built, from, clientVars, handlerVars, historyVars>>

Dies(s) ==
    /\ status[s] \in {"STARTING", "STARTED"}
    /\ status' = [status EXCEPT ![s] = "ERROR"]
    /\ ExcuseBusy
    /\ UNCHANGED <<built, from, version, clientVars, handlerVars, forked, fresh>>

\* A service that is not healthy yet may give up when it misses another.
MissesDependency(s) ==
    /\ status[s] = "STARTING"
    /\ \E d \in Deps[s] : status[d] # "STARTED"
    /\ status' = [status EXCEPT ![s] = "ERROR"]
    /\ UNCHANGED <<built, from, version, clientVars, handlerVars, historyVars>>
-----------------------------------------------------------------------------
(* The handlers in svcd.                                                  *)

Stop(c, s) ==
    /\ s \in stopping[c]
    /\ stopping' = [stopping EXCEPT ![c] = @ \ {s}]
    /\ status' = [status EXCEPT ![s] = "STOPPED"]
    /\ UNCHANGED <<built, from, version, clientVars, starting, begun, bad, historyVars>>

\* The signal cannot be sent; the first error ends the command.
StopFails(c, s) ==
    /\ s \in stopping[c]
    /\ status[s] # "STOPPED"
    /\ stopping' = [stopping EXCEPT ![c] = @ \ {s}]
    /\ status' = [status EXCEPT ![s] = "STOPPING"]
    /\ Fatalf(c)
    /\ ExcuseBusy
    /\ UNCHANGED <<built, from, version, cmd, unasked, want, starting, begun, bad, forked, fresh>>

\* A task of a Start begins once what it depends on is done.
CanBegin(c, t) ==
    /\ t \in starting[c] \ begun[c]
    /\ t[1] \notin bad[c]
    /\ \A d \in Deps[t[2]] : <<t[1], d>> \notin starting[c]

\* serviceDef.Start, which only forks what is STOPPED.
Start(c, t) ==
    /\ CanBegin(c, t)
    /\ begun' = [begun EXCEPT ![c] = @ \cup {t}]
    /\ IF status[t[2]] = "STOPPED"
       THEN /\ status' = [status EXCEPT ![t[2]] = "STARTING"]
            /\ from' = [from EXCEPT ![t[2]] = built[t[2]]]
            /\ forked' = [d \in Clients |->
                    IF Active(d) THEN forked[d] \cup ({t[2]} \ unasked[d]) ELSE forked[d]]
       ELSE UNCHANGED <<status, from, forked>>
    /\ UNCHANGED <<built, version, clientVars, stopping, starting, bad, fresh, excused>>

\* The tasks of the request that were not begun are given up.
DropTasks(c, t) ==
    /\ bad' = [bad EXCEPT ![c] = @ \cup {t[1]}]
    /\ starting' = [starting EXCEPT
            ![c] = {u \in @ : u # t /\ (u[1] = t[1] => u \in begun[c])}]
    /\ begun' = [begun EXCEPT ![c] = @ \ {t}]

\* Its log cannot be opened or its process not be forked.
StartFails(c, t) ==
    /\ CanBegin(c, t)
    /\ status[t[2]] = "STOPPED"
    /\ \E st \in {"STOPPED", "ERROR"} : status' = [status EXCEPT ![t[2]] = st]
    /\ DropTasks(c, t)
    /\ ExcuseBusy
    /\ UNCHANGED <<built, from, version, clientVars, stopping, forked, fresh>>

\* Mutant of TaskSucceeds: a finished task is still counted among those in progress.
TaskSucceedsStill(c, t) ==
    /\ t \in begun[c]
    /\ status[t[2]] = "STARTED"
    /\ starting' = [starting EXCEPT ![c] = @ \ {t}]
    /\ UNCHANGED <<serviceVars, clientVars, stopping, begun, bad, historyVars>>

\* waitTillHealthy returns.
TaskSucceeds(c, t) ==
    /\ t \in begun[c]
    /\ status[t[2]] = "STARTED"
    /\ starting' = [starting EXCEPT ![c] = @ \ {t}]
    /\ begun' = [begun EXCEPT ![c] = @ \ {t}]
    /\ UNCHANGED <<serviceVars, clientVars, stopping, bad, historyVars>>

TaskFails(c, t) ==
    /\ t \in begun[c]
    /\ status[t[2]] \notin {"STARTING", "STARTED"}
    /\ DropTasks(c, t)
    /\ UNCHANGED <<serviceVars, clientVars, stopping, historyVars>>
-----------------------------------------------------------------------------
(* The commands.                                                          *)

\* A Start for each service, or one for all of them.
SendStarts(c, requests) ==
    /\ starting' = [starting EXCEPT ![c] = Tasks(requests)]
    /\ pc' = [pc EXCEPT ![c] = "starts"]

SendStops(c, ss) ==
    /\ stopping' = [stopping EXCEPT ![c] = ss]
    /\ pc' = [pc EXCEPT ![c] = "stops"]

\* Two commands that overlap excuse each other.
Begin(c, kind, name) ==
    /\ pc[c] = "idle"
    /\ Excuse(IF \E d \in Clients : Busy(d) THEN {c} \cup {d \in Clients : Busy(d)} ELSE {})
    /\ cmd' = [cmd EXCEPT ![c] = kind]
    /\ \/ /\ kind = "auto-restart"
          /\ unasked' = [unasked EXCEPT ![c] = Services]
          /\ pc' = [pc EXCEPT ![c] = "ask"]
          /\ UNCHANGED <<want, stopping, starting>>
       \/ /\ kind \in {"restart", "stop"}
          /\ want' = [want EXCEPT ![c] = {name}]
          /\ SendStops(c, {name})
          /\ UNCHANGED <<unasked, starting>>
       \/ /\ kind = "start"
          /\ SendStarts(c, {{name}})
          /\ UNCHANGED <<unasked, want, stopping>>
       \/ /\ kind = "start-all"
          /\ SendStarts(c, {Services})
          /\ UNCHANGED <<unasked, want, stopping>>
    /\ UNCHANGED <<serviceVars, begun, bad, forked, fresh>>

\* svcd cannot be reached, or its definitions are not those of the build.
Refuse(c) ==
    /\ pc[c] = "idle"
    /\ Fatalf(c)
    /\ Excuse({c})
    /\ UNCHANGED <<serviceVars, cmd, unasked, want, handlerVars, forked, fresh>>

NeedsRestart(s) == built[s] # version[s]

\* The Status RPCs come one after the other.
Ask(c, s) ==
    /\ pc[c] = "ask"
    /\ s \in unasked[c]
    /\ unasked' = [unasked EXCEPT ![c] = @ \ {s}]
    /\ want' = [want EXCEPT ![c] = IF NeedsRestart(s) THEN @ \cup {s} ELSE @]
    /\ UNCHANGED <<serviceVars, pc, cmd, handlerVars, historyVars>>

\* A service that is broken but up to date is not restarted.
Asked(c) ==
    /\ pc[c] = "ask"
    /\ unasked[c] = {}
    /\ SendStops(c, want[c])
    /\ Excuse(IF \E s \in Services \ want[c] : status[s] \in {"ERROR", "STOPPING"} THEN {c} ELSE {})
    /\ UNCHANGED <<serviceVars, cmd, unasked, want, starting, begun, bad, forked, fresh>>

\* Mutant of StopsDone: the starts do not wait for the stops.
StopsDoneNot(c) == pc[c] = "stops"

\* All stops come before the first start.
StopsDone(c) == pc[c] = "stops" /\ stopping[c] = {}

Stopped(c) ==
    /\ StopsDone(c)
    /\ \/ /\ cmd[c] = "stop"
          /\ pc' = [pc EXCEPT ![c] = "ok"]
          /\ UNCHANGED starting
       \/ /\ cmd[c] # "stop"
          /\ SendStarts(c, {{s} : s \in want[c]})
    /\ UNCHANGED <<serviceVars, cmd, unasked, want, stopping, begun, bad, historyVars>>

\* The handler of request R has returned an error, which ends the command.
RequestFails(c, R) ==
    /\ pc[c] = "starts"
    /\ R \in bad[c]
    /\ \A t \in starting[c] : t[1] # R
    /\ Fatalf(c)
    /\ UNCHANGED <<serviceVars, cmd, unasked, want, handlerVars, historyVars>>

Succeed(c) ==
    /\ pc[c] = "starts"
    /\ starting[c] = {}
    /\ bad[c] = {}
    /\ pc' = [pc EXCEPT ![c] = "ok"]
    /\ UNCHANGED <<serviceVars, cmd, unasked, want, handlerVars, historyVars>>
-----------------------------------------------------------------------------
ServiceStep ==
    \E s \in Services :
        Rebuild(s) \/ GetHealthy(s) \/ StoreVersion(s) \/ Dies(s) \/ MissesDependency(s)

HandlerStep ==
    \E c \in Clients :
        \/ \E s \in Services : Stop(c, s) \/ StopFails(c, s)
        \/ \E t \in starting[c] :
            Start(c, t) \/ StartFails(c, t) \/ TaskSucceeds(c, t) \/ TaskFails(c, t)

ClientStep ==
    \E c \in Clients :
        \/ \E k \in Commands[c] : Begin(c, k[1], k[2])
        \/ Refuse(c) \/ Asked(c) \/ Stopped(c) \/ Succeed(c)
        \/ \E s \in Services : Ask(c, s)
        \/ \E R \in bad[c] : RequestFails(c, R)

Next == ServiceStep \/ HandlerStep \/ ClientStep

Spec == Init /\ [][Next]_vars
-----------------------------------------------------------------------------
TypeOK ==
    /\ status \in [Services -> Statuses]
    /\ built \in [Services -> 1 .. MaxBuilds]
    /\ from \in [Services -> 1 .. MaxBuilds]
    /\ version \in [Services -> 0 .. MaxBuilds]
    /\ pc \in [Clients -> PCs]
    /\ cmd \in [Clients -> Kinds \cup {"none"}]
    /\ unasked \in [Clients -> SUBSET Services]
    /\ want \in [Clients -> SUBSET Services]
    /\ stopping \in [Clients -> SUBSET Services]
    /\ starting \in [Clients -> SUBSET (Requests \X Services)]
    /\ begun \in [Clients -> SUBSET (Requests \X Services)]
    /\ \A c \in Clients : begun[c] \subseteq starting[c]
    /\ bad \in [Clients -> SUBSET Requests]
    /\ forked \in [Clients -> SUBSET Services]
    /\ fresh \in [Clients -> SUBSET Services]
    /\ excused \in [Clients -> BOOLEAN]

\* A restart that reports success has had every service that it wanted to
\* restart become healthy in a run forked after it asked for the service, and
\* so from files at least as new as those it saw.
RestartIsComplete ==
    \A c \in Clients :
        pc[c] = "ok" /\ cmd[c] \in {"auto-restart", "restart"} => want[c] \subseteq fresh[c]

\* svcctl auto-restart does not make its own starts fail: that takes the death
\* of a service, a failed stop or fork, a broken service it does not restart,
\* or another command at the same time, an exited one's handlers included.
NoSelfInflictedFailure ==
    \A c \in Clients :
        pc[c] = "failed" /\ cmd[c] = "auto-restart" => excused[c]
=============================================================================
