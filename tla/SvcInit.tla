-------------------------------- MODULE SvcInit --------------------------------
(***************************************************************************)
(* svcinit, the launcher of a test with services: it starts svcd, has it   *)
(* create and start the services, runs the test, asks for the health of    *)
(* the services before and after, takes everything down by a stack of      *)
(* cleanups, writes the JUnit report and chooses the exit code.  Beside it *)
(* run svcd, the services and the test, any of which may die.              *)
(*                                                                         *)
(* The services are abstract and in no order: ServiceDef and               *)
(* SvcCtlProcessor are about those.  -svc.test-only, which replaces the    *)
(* launcher by the test, is left out.                                      *)
(***************************************************************************)
EXTENDS Naturals, FiniteSets

CONSTANTS
    Services,  \* the services of the definitions file
    FailOn     \* -svc.fail-test-on-crash-services

ASSUME FailOnAssumption == FailOn \subseteq Services

VARIABLES
    flags,     \* the command line, the definitions file and XML_OUTPUT_FILE
    pc,        \* where main is
    cleanups,  \* the stack of cleanups
    code,      \* the exit code, as far as it is decided
    how,       \* how the launcher exited
    asked,     \* what the results of the services are wanted for
    reply,     \* the results: the failed services and those with races
    svcd,      \* the process of svcd
    status,    \* status[s]: svcd's view of service s
    races,     \* the services svcd has sanitizer reports of
    running,   \* the services with a live process
    todo,      \* the start tasks not begun
    doing,     \* those in progress
    startErr,  \* one of them failed
    test,      \* the test process and how it ended
    testXML,   \* the report the test wrote itself
    report,    \* the final report
    blind,     \* history: what results were wanted for and not obtained
    crashed,   \* history: the services in ERROR when the test ended
    stopErr    \* history: StopAll returned an error

processVars == <<svcd, status, races, running>>
startVars == <<todo, doing, startErr>>
testVars == <<test, testXML, crashed>>
exitVars == <<cleanups, code, how>>
askVars == <<asked, reply, blind>>
vars == <<flags, pc, exitVars, askVars, processVars, startVars, testVars, report, stopErr>>

Flags == [servicesOnly : BOOLEAN, createOnly : BOOLEAN, graceful : BOOLEAN, xml : BOOLEAN,
          defs : {"none", "bad", "good"}]
Cleanups == {"killSvcd", "checkRaces", "stopServices", "copyXML"}
Wants == {"startFailed", "before", "after", "races"}
Results == [failed : SUBSET Services, raced : SUBSET Services]
NoResults == [failed |-> {}, raced |-> {}]

\* A report: the test case of the test, and the failing ones of services.
Reports == [test : {"absent", "pass", "fail", "broken"}, services : SUBSET Services]
NoReport == [test |-> "absent", services |-> {}]
Failing(r) == r.test = "fail" \/ r.services # {}

InsideBazelTest == ~flags.servicesOnly

Init ==
    /\ flags \in Flags
    /\ pc = "preflight"
    /\ cleanups = {}
    /\ code = 0
    /\ how = "alive"
    /\ asked = "before"
    /\ reply = NoResults
    /\ svcd = "none"
    /\ status = [s \in Services |-> "NONE"]
    /\ races = {}
    /\ running = {}
    /\ todo = {}
    /\ doing = {}
    /\ startErr = FALSE
    /\ test = "none"
    /\ testXML = "none"
    /\ report = NoReport
    /\ blind = {}
    /\ crashed = {}
    /\ stopErr = FALSE
-----------------------------------------------------------------------------
(* The ways out.                                                          *)

Exit(c, kind) ==
    /\ pc' = "exited"
    /\ code' = c
    /\ how' = kind

\* log.Fatal and os.Exit run no cleanup.
Fatal == Exit(1, "fatal") /\ UNCHANGED cleanups

\* performCleanups, and then os.Exit(c) or the end of main.
PerformCleanups(c) ==
    /\ UNCHANGED cleanups
    /\ \/ InsideBazelTest /\ pc' = "cleanup" /\ code' = c /\ UNCHANGED how
       \/ ~InsideBazelTest /\ Exit(c, "kept")

GoOn(next) == pc' = next /\ UNCHANGED exitVars

Push(cleanup, next) ==
    /\ cleanups' = cleanups \cup {cleanup}
    /\ pc' = next
    /\ UNCHANGED <<code, how>>

Ask(want) ==
    /\ asked' = want
    /\ UNCHANGED <<reply, blind>>
-----------------------------------------------------------------------------
(* svcd comes up.                                                         *)

\* svcd listens already, or the version file cannot be copied or linked.
Refuse ==
    /\ pc = "preflight"
    /\ Fatal
    /\ UNCHANGED <<flags, askVars, processVars, startVars, testVars, report, stopErr>>

StartSvcd ==
    /\ pc = "preflight"
    /\ svcd' = "booting"
    /\ Push("killSvcd", "wait")
    /\ UNCHANGED <<flags, askVars, status, races, running, startVars, testVars, report, stopErr>>

\* The port number is written; svcd accepts connections.
SvcdListens ==
    /\ svcd = "booting"
    /\ svcd' = "listening"
    /\ UNCHANGED <<flags, pc, exitVars, askVars, status, races, running, startVars, testVars, report, stopErr>>

SvcdDies ==
    /\ pc # "exited"
    /\ svcd \in {"booting", "listening"}
    /\ svcd' = "dead"
    /\ UNCHANGED <<flags, pc, exitVars, askVars, status, races, running, startVars, testVars, report, stopErr>>

Listening == svcd = "listening"

Poll ==
    /\ pc = "wait"
    /\ \/ Listening /\ Push("checkRaces", "create")
       \/ ~Listening /\ GoOn("polled")
    /\ UNCHANGED <<flags, askVars, processVars, startVars, testVars, report, stopErr>>

PollAgain ==
    /\ pc = "polled"
    /\ GoOn("wait")
    /\ UNCHANGED <<flags, askVars, processVars, startVars, testVars, report, stopErr>>

\* Mutant of DeadlineExceeded: the deadline is that of a dead process.
DeadlineIfDead == pc = "polled" /\ svcd = "dead"

\* Five seconds may have passed at any turn of the loop; svcd may listen by now.
DeadlineExceeded == pc = "polled"

Deadline ==
    /\ DeadlineExceeded
    /\ PerformCleanups(1)
    /\ UNCHANGED <<flags, askVars, processVars, startVars, testVars, report, stopErr>>
-----------------------------------------------------------------------------
(* The services are created and started.                                  *)

\* Mutant of RegisterStop: the services are to be stopped only if they started.
RegisterStopNot == UNCHANGED cleanups

\* StopAll or StopAllUnsafe is registered before anything is started.
RegisterStop == cleanups' = cleanups \cup {"stopServices"}

NoServices ==
    /\ pc = "create"
    /\ flags.defs = "none"
    /\ GoOn("status")
    /\ Ask("before")
    /\ UNCHANGED <<flags, processVars, startVars, testVars, report, stopErr>>

\* The file cannot be read or parsed, or CreateBatch fails.
CreateFails ==
    /\ pc = "create"
    /\ flags.defs = "bad" \/ (flags.defs = "good" /\ ~Listening)
    /\ Fatal
    /\ UNCHANGED <<flags, askVars, processVars, startVars, testVars, report, stopErr>>

CreateServices ==
    /\ pc = "create"
    /\ flags.defs = "good"
    /\ Listening
    /\ status' = [s \in Services |-> "STOPPED"]
    /\ \/ /\ flags.createOnly
          /\ GoOn("status")
          /\ Ask("before")
          /\ UNCHANGED startVars
       \/ /\ ~flags.createOnly
          /\ RegisterStop
          /\ todo' = Services
          /\ pc' = "starting"
          /\ UNCHANGED <<code, how, askVars, doing, startErr>>
    /\ UNCHANGED <<flags, svcd, races, running, testVars, report, stopErr>>

\* A start task of svcd begins: the fork succeeds, or it fails.
BeginStart(s) ==
    /\ pc = "starting"
    /\ Listening
    /\ s \in todo
    /\ ~startErr
    /\ todo' = todo \ {s}
    /\ \/ /\ status' = [status EXCEPT ![s] = "STARTING"]
          /\ running' = running \cup {s}
          /\ doing' = doing \cup {s}
          /\ UNCHANGED startErr
       \/ /\ \E st \in {"STOPPED", "ERROR"} : status' = [status EXCEPT ![s] = st]
          /\ startErr' = TRUE
          /\ UNCHANGED <<running, doing>>
    /\ UNCHANGED <<flags, pc, exitVars, askVars, svcd, races, testVars, report, stopErr>>

\* waitTillHealthy returns.
EndStart(s) ==
    /\ pc = "starting"
    /\ Listening
    /\ s \in doing
    /\ status[s] \in {"STARTED", "ERROR"}
    /\ doing' = doing \ {s}
    /\ startErr' = (startErr \/ status[s] = "ERROR")
    /\ UNCHANGED <<flags, pc, exitVars, askVars, processVars, todo, testVars, report, stopErr>>

StartAllSucceeds ==
    /\ pc = "starting"
    /\ Listening
    /\ todo = {} /\ doing = {} /\ ~startErr
    /\ GoOn("status")
    /\ Ask("before")
    /\ UNCHANGED <<flags, processVars, startVars, testVars, report, stopErr>>

\* The tasks in progress are waited for, unless svcd is gone.
StartAllFails ==
    /\ pc = "starting"
    /\ ~Listening \/ (startErr /\ doing = {})
    /\ \/ InsideBazelTest /\ GoOn("status") /\ Ask("startFailed")
       \/ ~InsideBazelTest /\ PerformCleanups(1) /\ UNCHANGED askVars
    /\ todo' = {} /\ doing' = {} /\ startErr' = FALSE
    /\ UNCHANGED <<flags, processVars, testVars, report, stopErr>>

GetHealthy(s) ==
    /\ Listening
    /\ status[s] = "STARTING"
    /\ status' = [status EXCEPT ![s] = "STARTED"]
    /\ UNCHANGED <<flags, pc, exitVars, askVars, svcd, races, running, startVars, testVars, report, stopErr>>

\* A service dies, of a race perhaps; without svcd nobody notices.
ServiceDies(s) ==
    /\ pc # "exited"
    /\ s \in running
    /\ running' = running \ {s}
    /\ \/ /\ Listening
          /\ status' = [status EXCEPT ![s] = "ERROR"]
          /\ races' \in {races, races \cup {s}}
       \/ ~Listening /\ UNCHANGED <<status, races>>
    /\ UNCHANGED <<flags, pc, exitVars, askVars, svcd, startVars, testVars, report, stopErr>>
-----------------------------------------------------------------------------
(* getServiceStatusAndDiagnostics and what its four callers make of it.   *)

AskStatus ==
    /\ pc = "status"
    /\ Listening
    /\ reply' = [failed |-> {s \in Services : status[s] = "ERROR"}, raced |-> races]
    /\ GoOn("diagnostics")
    /\ UNCHANGED <<flags, asked, blind, processVars, startVars, testVars, report, stopErr>>

\* If svcd is gone before the second RPC, the results are empty and the error
\* is that of the first, which is nil.
AskDiagnostics ==
    /\ pc = "diagnostics"
    /\ \/ Listening /\ UNCHANGED <<reply, blind>>
       \/ ~Listening /\ reply' = NoResults /\ blind' = blind \cup {asked}
    /\ GoOn(asked)
    /\ UNCHANGED <<flags, asked, processVars, startVars, testVars, report, stopErr>>

StatusFails ==
    /\ pc = "status"
    /\ ~Listening
    /\ blind' = blind \cup {asked}
    /\ \/ asked \in {"startFailed", "before"} /\ PerformCleanups(1)
       \/ asked = "after" /\ PerformCleanups(0)
       \/ asked = "races" /\ GoOn("cleanup")
    /\ UNCHANGED <<flags, asked, reply, processVars, startVars, testVars, report, stopErr>>

\* overwriteJunitForServices
Write(r) == report' = IF flags.xml /\ InsideBazelTest THEN r ELSE report

\* A report from scratch says that the test passed, though it was not begun
\* or its own report is lost.
Scratch(failed) == [test |-> "pass", services |-> failed]

ReportStartFailed ==
    /\ pc = "startFailed"
    /\ Write(Scratch(reply.failed))
    /\ PerformCleanups(1)
    /\ UNCHANGED <<flags, askVars, processVars, startVars, testVars, stopErr>>

Unhealthy ==
    /\ pc = "before"
    /\ reply.failed # {}
    /\ Write(Scratch(reply.failed))
    /\ PerformCleanups(1)
    /\ UNCHANGED <<flags, askVars, processVars, startVars, testVars, stopErr>>

Healthy ==
    /\ pc = "before"
    /\ reply.failed = {}
    /\ \/ InsideBazelTest /\ GoOn("prepare")
       \/ ~InsideBazelTest /\ Exit(0, "kept") /\ UNCHANGED cleanups
    /\ UNCHANGED <<flags, askVars, processVars, startVars, testVars, report, stopErr>>

\* Mutant of FailTest: only the services whose reports show a race fail the test.
FailTestIfRaced == reply.failed \cap reply.raced \cap FailOn # {}

\* A service that has to be healthy after the test is not.
FailTest == reply.failed \cap FailOn # {}

CheckAfterTest ==
    /\ pc = "after"
    /\ \/ FailTest /\ Exit(1, "crash") /\ UNCHANGED cleanups
       \/ ~FailTest /\ PerformCleanups(0)
    /\ UNCHANGED <<flags, askVars, processVars, startVars, testVars, report, stopErr>>

\* overwriteJunitForServicesWithRaces
CheckRaces ==
    /\ pc = "races"
    /\ IF reply.raced # {} THEN Write(Scratch(reply.raced)) ELSE UNCHANGED report
    /\ GoOn("cleanup")
    /\ UNCHANGED <<flags, askVars, processVars, startVars, testVars, stopErr>>
-----------------------------------------------------------------------------
(* The test.                                                              *)

\* TempDir may fail.
Prepare ==
    /\ pc = "prepare"
    /\ \/ Push("copyXML", "launch")
       \/ Fatal
    /\ UNCHANGED <<flags, askVars, processVars, startVars, testVars, report, stopErr>>

LaunchTest ==
    /\ pc = "launch"
    /\ \/ test' = "running" /\ GoOn("testing")
       \/ test' = "failed" /\ PerformCleanups(1)
    /\ UNCHANGED <<flags, askVars, processVars, startVars, testXML, crashed, report, stopErr>>

\* The test may stop, create and start services itself, with the names of Services.
TestStops(s) ==
    /\ pc = "testing"
    /\ Listening
    /\ status[s] \notin {"NONE", "STOPPED"}
    /\ status' = [status EXCEPT ![s] = "STOPPED"]
    /\ running' = running \ {s}
    /\ races' \in {races, races \cup {s}}
    /\ UNCHANGED <<flags, pc, exitVars, askVars, svcd, startVars, testVars, report, stopErr>>

TestCreates(s) ==
    /\ pc = "testing"
    /\ Listening
    /\ status[s] = "NONE"
    /\ status' = [status EXCEPT ![s] = "STOPPED"]
    /\ UNCHANGED <<flags, pc, exitVars, askVars, svcd, races, running, startVars, testVars, report, stopErr>>

TestStarts(s) ==
    /\ pc = "testing"
    /\ Listening
    /\ status[s] = "STOPPED"
    /\ status' = [status EXCEPT ![s] = "STARTING"]
    /\ running' = running \cup {s}
    /\ UNCHANGED <<flags, pc, exitVars, askVars, svcd, races, startVars, testVars, report, stopErr>>

\* The test exits; it may have written a report, whole or not.
TestEnds ==
    /\ pc = "testing"
    /\ testXML' \in {"none", "pass", "fail", "broken"}
    /\ crashed' = {s \in Services : status[s] = "ERROR"}
    /\ \/ test' = "passed" /\ GoOn("status") /\ Ask("after")
       \/ test' = "failed" /\ PerformCleanups(1) /\ UNCHANGED askVars
    /\ UNCHANGED <<flags, processVars, startVars, report, stopErr>>
-----------------------------------------------------------------------------
(* The cleanups, the last registered one first.                           *)

\* Mutant of Rank: the look for races is registered last.
RankRacesLast(c) == CASE c = "killSvcd" -> 1 [] c = "stopServices" -> 2
                      [] c = "copyXML" -> 3 [] c = "checkRaces" -> 4

Rank(c) == CASE c = "killSvcd" -> 1 [] c = "checkRaces" -> 2
             [] c = "stopServices" -> 3 [] c = "copyXML" -> 4

\* Mutant of IsNext: the cleanups run in the order of their registration.
IsFirst(c) == c \in cleanups /\ \A d \in cleanups : Rank(c) <= Rank(d)

IsNext(c) == c \in cleanups /\ \A d \in cleanups : Rank(d) <= Rank(c)

Cleanup(c) ==
    /\ pc = "cleanup"
    /\ IsNext(c)
    /\ cleanups' = cleanups \ {c}
    /\ UNCHANGED <<code, how>>

\* Mutant of TestCase: without a report of its own the test is taken to have passed.
TestCasePassed == IF testXML = "none" THEN "pass" ELSE testXML

\* The test case of the test; a broken report leaves an empty file.
TestCase == IF testXML # "none" THEN testXML
            ELSE IF test = "failed" THEN "fail" ELSE "pass"

\* The services are those of the look before the test, when none had failed.
CopyXML ==
    /\ Cleanup("copyXML")
    /\ Write([test |-> TestCase, services |-> {}])
    /\ UNCHANGED <<flags, pc, askVars, processVars, startVars, testVars, stopErr>>

\* Some services may survive, and a service may race while it shuts down.
\* Errors are ignored.
StopServices ==
    /\ Cleanup("stopServices")
    /\ \/ /\ ~Listening
          /\ stopErr' = TRUE
          /\ UNCHANGED <<status, races, running>>
       \/ /\ Listening
          /\ \E left \in SUBSET running :
                /\ running' = left
                /\ status' = [s \in Services |-> IF s \in left THEN "STOPPING" ELSE "STOPPED"]
                /\ stopErr' \in {left # {}, TRUE}
          /\ \E raced \in SUBSET (IF flags.graceful THEN running ELSE {}) : races' = races \cup raced
    /\ UNCHANGED <<flags, pc, askVars, svcd, startVars, testVars, report>>

CheckServicesFailures ==
    /\ pc = "cleanup"
    /\ IsNext("checkRaces")
    /\ Ask("races")
    /\ cleanups' = cleanups \ {"checkRaces"}
    /\ pc' = "status"
    /\ UNCHANGED <<code, how, flags, processVars, startVars, testVars, report, stopErr>>

KillSvcd ==
    /\ Cleanup("killSvcd")
    /\ svcd' = "dead"
    /\ UNCHANGED <<flags, pc, askVars, status, races, running, startVars, testVars, report, stopErr>>

\* A test that passed is failed after all by a failing report.
Finish ==
    /\ pc = "cleanup"
    /\ cleanups = {}
    /\ Exit(IF code = 0 /\ Failing(report) THEN 1 ELSE code, "cleaned")
    /\ UNCHANGED <<cleanups, flags, askVars, processVars, startVars, testVars, report, stopErr>>
-----------------------------------------------------------------------------
\* What main does by itself.
Launcher ==
    \/ Refuse \/ StartSvcd \/ Poll \/ PollAgain \/ Deadline
    \/ NoServices \/ CreateFails \/ CreateServices \/ StartAllSucceeds \/ StartAllFails
    \/ AskStatus \/ AskDiagnostics \/ StatusFails
    \/ ReportStartFailed \/ Unhealthy \/ Healthy \/ CheckAfterTest \/ CheckRaces
    \/ Prepare \/ LaunchTest
    \/ CopyXML \/ StopServices \/ CheckServicesFailures \/ KillSvcd \/ Finish

\* svcd, the services and the test.
Others ==
    \/ SvcdListens \/ SvcdDies \/ TestEnds
    \/ \E s \in Services :
        BeginStart(s) \/ EndStart(s) \/ GetHealthy(s) \/ ServiceDies(s)
        \/ TestStops(s) \/ TestCreates(s) \/ TestStarts(s)

\* The launcher has exited.
Exited == pc = "exited" /\ UNCHANGED vars

Next == Launcher \/ Others \/ Exited

Spec == Init /\ [][Next]_vars

\* The launcher is scheduled, and time passes while it polls.
FairSpec == Spec /\ WF_vars(Launcher) /\ SF_vars(Deadline)
-----------------------------------------------------------------------------
PCs == {"preflight", "wait", "polled", "create", "starting", "status", "diagnostics", "prepare",
        "launch", "testing", "cleanup", "exited"} \cup Wants

LauncherTypeOK ==
    /\ flags \in Flags
    /\ pc \in PCs
    /\ cleanups \in SUBSET Cleanups
    /\ code \in {0, 1}
    /\ how \in {"alive", "fatal", "crash", "kept", "cleaned"}
    /\ asked \in Wants
    /\ blind \in SUBSET Wants

WorldTypeOK ==
    /\ reply \in Results
    /\ svcd \in {"none", "booting", "listening", "dead"}
    /\ status \in [Services -> {"NONE", "STOPPED", "STARTING", "STARTED", "ERROR", "STOPPING"}]
    /\ races \in SUBSET Services
    /\ running \in SUBSET Services
    /\ todo \in SUBSET Services
    /\ doing \in SUBSET Services
    /\ startErr \in BOOLEAN
    /\ test \in {"none", "running", "passed", "failed"}
    /\ testXML \in {"none", "pass", "fail", "broken"}
    /\ crashed \in SUBSET Services
    /\ report \in Reports
    /\ stopErr \in BOOLEAN

\* Every variable has its type, and svcd is the last thing to be cleaned up.
TypeOK == LauncherTypeOK /\ WorldTypeOK /\ (cleanups # {} => "killSvcd" \in cleanups)

\* The launcher registers a stop of the services.
StopsThem == flags.defs = "good" /\ ~flags.createOnly

\* A launcher that performed its cleanups leaves neither svcd nor, unless
\* StopAll failed, a service that it had started.
NothingLeftBehind ==
    how = "cleaned" =>
        /\ svcd = "dead"
        /\ StopsThem => running = {} \/ stopErr

\* If a service that has to be healthy after the test had crashed when the test
\* ended, the launcher does not exit with 0, unless svcd did not answer.
CrashesFailTheTest ==
    how = "cleaned" /\ code = 0 => crashed \cap FailOn = {} \/ "after" \in blind

\* Every race that svcd knows of, from the run or from the shutdown of the
\* services, is in the final report and fails the test, unless svcd did not
\* answer or the services are still at work.
RacesReachTheReport ==
    how = "cleaned" /\ flags.xml /\ StopsThem /\ ~stopErr /\ "races" \notin blind =>
        races \subseteq report.services /\ (races # {} => code = 1)

\* The exit code and the report agree: 0 only for a test that passed and a
\* report without a failure; a test that failed and left no passing or broken
\* report of its own has a failing final report.
VerdictsAgree ==
    how = "cleaned" =>
        /\ code = 0 => test = "passed" /\ ~Failing(report)
        /\ flags.xml /\ test = "failed" /\ testXML \in {"none", "fail"} => Failing(report)

\* Whatever dies or does not answer, the launcher only ever waits for services
\* to become healthy and for the test to end.
LauncherMovesOn ==
    pc \notin {"starting", "testing"} ~> pc \in {"starting", "testing", "exited"}
=============================================================================
