----------------------------- MODULE SvcInitProofs -----------------------------
(***************************************************************************)
(* Theorems about SvcInit, for any sets of services.                       *)
(***************************************************************************)
EXTENDS SvcInit, TLAPS

Early == {"preflight", "wait", "polled", "create"}

\* The launcher wants the results for this, or has them.
For(want) == pc = want \/ (pc \in {"status", "diagnostics"} /\ asked = want)

\* It is past the creation of the services and before its cleanups.
Working == pc \notin Early \cup {"cleanup", "exited"} /\ ~For("races")

CleaningUp == pc = "cleanup" \/ For("races")

\* Which cleanups are registered where, and where svcd is dead.
Stack ==
    /\ cleanups # {} => "killSvcd" \in cleanups
    /\ pc = "exited" <=> how # "alive"
    /\ how = "cleaned" => cleanups = {} /\ svcd = "dead"
    /\ pc = "preflight" => cleanups = {}
    /\ pc \in {"wait", "polled"} \/ For("races") => cleanups = {"killSvcd"}
    /\ pc = "create" => cleanups = {"killSvcd", "checkRaces"}
    /\ Working => {"killSvcd", "checkRaces"} \subseteq cleanups
    /\ pc = "cleanup" /\ cleanups = {} => svcd = "dead"
    /\ pc = "cleanup" /\ "checkRaces" \notin cleanups => cleanups \subseteq {"killSvcd"}
    /\ CleaningUp \/ For("after") \/ For("startFailed") \/ pc \in {"prepare", "launch", "testing"}
        => InsideBazelTest

\* A service runs only while its stop is registered, unless the stop failed.
Stopping ==
    /\ pc \in Early => running = {} /\ races = {}
    /\ pc = "starting" => "stopServices" \in cleanups
    /\ StopsThem /\ Working => "stopServices" \in cleanups
    /\ StopsThem => running = {} \/ stopErr \/ "stopServices" \in cleanups

\* The crashes that the launcher may still learn of.
Crashes ==
    /\ pc = "status" /\ asked = "after" => \A s \in crashed : status[s] = "ERROR"
    /\ pc = "diagnostics" /\ asked = "after" => crashed \subseteq reply.failed
    /\ pc = "after" => crashed \subseteq reply.failed \/ "after" \in blind
    /\ CleaningUp \/ how = "cleaned" =>
        code = 1 \/ crashed \cap FailOn = {} \/ "after" \in blind

\* Once the services are stopped the set of races is final.
RacesFinal == flags.xml /\ StopsThem /\ ~stopErr /\ "races" \notin blind

Races ==
    /\ RacesFinal /\ pc = "diagnostics" /\ asked = "races" => reply.raced = races
    /\ RacesFinal /\ pc = "races" => reply.raced = races
    /\ RacesFinal /\ pc = "cleanup" /\ "checkRaces" \notin cleanups => races \subseteq report.services

\* A test that failed has its report copied, or it is in the final report.
Verdicts ==
    /\ For("after") => test = "passed"
    /\ pc = "launch" => "copyXML" \in cleanups
    /\ pc = "testing" => "copyXML" \in cleanups
    /\ Working /\ ~For("after") => test # "failed"
    /\ pc \in Early => test = "none"
    /\ CleaningUp /\ code = 0 => test = "passed"
    /\ CleaningUp /\ flags.xml /\ test = "failed" /\ testXML \in {"none", "fail"}
        => "copyXML" \in cleanups \/ Failing(report)

IInv ==
    /\ TypeOK /\ Stack /\ Stopping /\ Crashes /\ Races /\ Verdicts
    /\ RacesReachTheReport /\ VerdictsAgree
-----------------------------------------------------------------------------
\* What is next tells what is left.
LEMMA NextCleanup ==
    ASSUME TypeOK
    PROVE  /\ IsNext("killSvcd") => cleanups = {"killSvcd"}
           /\ IsNext("checkRaces") => cleanups = {"killSvcd", "checkRaces"}
           /\ IsNext("stopServices") => "stopServices" \in cleanups
           /\ IsNext("copyXML") => "copyXML" \in cleanups
  BY DEF TypeOK, LauncherTypeOK, Cleanups, IsNext, Rank

\* The variables of the launcher keep their types.
LEMMA NextLauncherTypeOK == TypeOK /\ Stack /\ [Next]_vars => LauncherTypeOK'
<1> SUFFICES ASSUME TypeOK, Stack, [Next]_vars PROVE LauncherTypeOK'
  OBVIOUS
<1> USE DEF TypeOK, LauncherTypeOK, Flags, Cleanups, Wants, PCs, processVars, startVars, testVars, exitVars, askVars,
        Exit, Fatal, PerformCleanups, GoOn, Push, Ask
<1>1. CASE UNCHANGED vars
  BY <1>1 DEF vars
<1>2. CASE Launcher
  <2>1. CASE Refuse
    BY <2>1 DEF Refuse
  <2>2. CASE StartSvcd
    BY <2>2 DEF StartSvcd
  <2>3. CASE Poll
    <3>1. CASE Listening
      BY <2>3, <3>1 DEF Poll
    <3>2. CASE ~Listening
      BY <2>3, <3>2 DEF Poll
    <3> QED
      BY <3>1, <3>2
  <2>4. CASE PollAgain
    BY <2>4 DEF PollAgain
  <2>5. CASE Deadline
    BY <2>5 DEF Deadline, DeadlineExceeded
  <2>6. CASE NoServices
    BY <2>6 DEF NoServices
  <2>7. CASE CreateFails
    BY <2>7 DEF CreateFails
  <2>8. CASE CreateServices
    BY <2>8 DEF CreateServices, RegisterStop
  <2>9. CASE StartAllSucceeds
    BY <2>9 DEF StartAllSucceeds
  <2>10. CASE StartAllFails
    BY <2>10 DEF StartAllFails
  <2>11. CASE AskStatus
    BY <2>11 DEF AskStatus
  <2>12. CASE AskDiagnostics
    BY <2>12, asked \in Wants DEF AskDiagnostics, TypeOK, LauncherTypeOK, Wants
  <2>13. CASE StatusFails
    BY <2>13 DEF StatusFails
  <2>14. CASE ReportStartFailed
    BY <2>14 DEF ReportStartFailed
  <2>15. CASE Unhealthy
    BY <2>15 DEF Unhealthy
  <2>16. CASE Healthy
    BY <2>16 DEF Healthy
  <2>17. CASE CheckAfterTest
    BY <2>17 DEF CheckAfterTest, FailTest
  <2>18. CASE CheckRaces
    BY <2>18 DEF CheckRaces
  <2>19. CASE Prepare
    BY <2>19 DEF Prepare
  <2>20. CASE LaunchTest
    <3>1. CASE GoOn("testing")
      BY <2>20, <3>1 DEF LaunchTest
    <3>2. CASE PerformCleanups(1)
      BY <2>20, <3>2 DEF LaunchTest
    <3> QED
      BY <2>20, <3>1, <3>2 DEF LaunchTest
  <2>21. CASE CopyXML
    BY <2>21, NextCleanup DEF CopyXML, Cleanup, TestCase
  <2>22. CASE StopServices
    BY <2>22, NextCleanup DEF StopServices, Cleanup
  <2>23. CASE CheckServicesFailures
    BY <2>23, NextCleanup DEF CheckServicesFailures
  <2>24. CASE KillSvcd
    BY <2>24, NextCleanup DEF KillSvcd, Cleanup
  <2>25. CASE Finish
    BY <2>25 DEF Finish
  <2> QED
    BY <1>2, <2>1, <2>2, <2>3, <2>4, <2>5, <2>6, <2>7, <2>8, <2>9, <2>10, <2>11, <2>12, <2>13, <2>14, <2>15, <2>16, <2>17, <2>18, <2>19, <2>20, <2>21, <2>22, <2>23, <2>24, <2>25 DEF Launcher
<1>3. CASE Others
  <2>1. CASE SvcdListens
    BY <2>1 DEF SvcdListens
  <2>2. CASE SvcdDies
    BY <2>2 DEF SvcdDies
  <2>3. CASE TestEnds
    BY <2>3 DEF TestEnds
  <2>4. ASSUME NEW s \in Services, BeginStart(s) PROVE LauncherTypeOK'
    BY <2>4 DEF BeginStart
  <2>5. ASSUME NEW s \in Services, EndStart(s) PROVE LauncherTypeOK'
    BY <2>5 DEF EndStart
  <2>6. ASSUME NEW s \in Services, GetHealthy(s) PROVE LauncherTypeOK'
    BY <2>6 DEF GetHealthy
  <2>7. ASSUME NEW s \in Services, ServiceDies(s) PROVE LauncherTypeOK'
    BY <2>7 DEF ServiceDies
  <2>8. ASSUME NEW s \in Services, TestStops(s) PROVE LauncherTypeOK'
    BY <2>8 DEF TestStops
  <2>9. ASSUME NEW s \in Services, TestCreates(s) PROVE LauncherTypeOK'
    BY <2>9 DEF TestCreates
  <2>10. ASSUME NEW s \in Services, TestStarts(s) PROVE LauncherTypeOK'
    BY <2>10 DEF TestStarts
  <2> QED
    BY <1>3, <2>1, <2>2, <2>3, <2>4, <2>5, <2>6, <2>7, <2>8, <2>9, <2>10 DEF Others
<1> QED
  BY <1>1, <1>2, <1>3 DEF Next, Exited

\* The other variables keep theirs.
LEMMA NextWorldTypeOK == TypeOK /\ [Next]_vars => WorldTypeOK'
<1> SUFFICES ASSUME TypeOK, [Next]_vars PROVE WorldTypeOK'
  OBVIOUS
<1> USE DEF TypeOK, WorldTypeOK, Flags, Results, NoResults, Reports, Scratch, Write,
        processVars, startVars, testVars, exitVars, askVars, Exit, Fatal, PerformCleanups, GoOn, Push, Ask
<1>1. CASE UNCHANGED vars
  BY <1>1 DEF vars
<1>2. CASE Launcher
  <2>1. CASE Refuse
    BY <2>1 DEF Refuse
  <2>2. CASE StartSvcd
    BY <2>2 DEF StartSvcd
  <2>3. CASE Poll
    BY <2>3 DEF Poll
  <2>4. CASE PollAgain
    BY <2>4 DEF PollAgain
  <2>5. CASE Deadline
    BY <2>5 DEF Deadline, DeadlineExceeded
  <2>6. CASE NoServices
    BY <2>6 DEF NoServices
  <2>7. CASE CreateFails
    BY <2>7 DEF CreateFails
  <2>8. CASE CreateServices
    BY <2>8 DEF CreateServices, RegisterStop
  <2>9. CASE StartAllSucceeds
    BY <2>9 DEF StartAllSucceeds
  <2>10. CASE StartAllFails
    BY <2>10 DEF StartAllFails
  <2>11. CASE AskStatus
    BY <2>11 DEF AskStatus
  <2>12. CASE AskDiagnostics
    BY <2>12, asked \in Wants DEF AskDiagnostics, TypeOK, LauncherTypeOK, Wants
  <2>13. CASE StatusFails
    BY <2>13 DEF StatusFails
  <2>14. CASE ReportStartFailed
    BY <2>14 DEF ReportStartFailed
  <2>15. CASE Unhealthy
    BY <2>15 DEF Unhealthy
  <2>16. CASE Healthy
    BY <2>16 DEF Healthy
  <2>17. CASE CheckAfterTest
    BY <2>17 DEF CheckAfterTest, FailTest
  <2>18. CASE CheckRaces
    BY <2>18 DEF CheckRaces
  <2>19. CASE Prepare
    BY <2>19 DEF Prepare
  <2>20. CASE LaunchTest
    BY <2>20 DEF LaunchTest
  <2>21. CASE CopyXML
    BY <2>21, NextCleanup DEF CopyXML, Cleanup, TestCase
  <2>22. CASE StopServices
    BY <2>22, NextCleanup DEF StopServices, Cleanup
  <2>23. CASE CheckServicesFailures
    BY <2>23, NextCleanup DEF CheckServicesFailures
  <2>24. CASE KillSvcd
    BY <2>24, NextCleanup DEF KillSvcd, Cleanup
  <2>25. CASE Finish
    BY <2>25 DEF Finish
  <2> QED
    BY <1>2, <2>1, <2>2, <2>3, <2>4, <2>5, <2>6, <2>7, <2>8, <2>9, <2>10, <2>11, <2>12, <2>13, <2>14, <2>15, <2>16, <2>17, <2>18, <2>19, <2>20, <2>21, <2>22, <2>23, <2>24, <2>25 DEF Launcher
<1>3. CASE Others
  <2>1. CASE SvcdListens
    BY <2>1 DEF SvcdListens
  <2>2. CASE SvcdDies
    BY <2>2 DEF SvcdDies
  <2>3. CASE TestEnds
    BY <2>3 DEF TestEnds
  <2>4. ASSUME NEW s \in Services, BeginStart(s) PROVE WorldTypeOK'
    BY <2>4 DEF BeginStart
  <2>5. ASSUME NEW s \in Services, EndStart(s) PROVE WorldTypeOK'
    BY <2>5 DEF EndStart
  <2>6. ASSUME NEW s \in Services, GetHealthy(s) PROVE WorldTypeOK'
    BY <2>6 DEF GetHealthy
  <2>7. ASSUME NEW s \in Services, ServiceDies(s) PROVE WorldTypeOK'
    BY <2>7 DEF ServiceDies
  <2>8. ASSUME NEW s \in Services, TestStops(s) PROVE WorldTypeOK'
    BY <2>8 DEF TestStops
  <2>9. ASSUME NEW s \in Services, TestCreates(s) PROVE WorldTypeOK'
    BY <2>9 DEF TestCreates
  <2>10. ASSUME NEW s \in Services, TestStarts(s) PROVE WorldTypeOK'
    BY <2>10 DEF TestStarts
  <2> QED
    BY <1>3, <2>1, <2>2, <2>3, <2>4, <2>5, <2>6, <2>7, <2>8, <2>9, <2>10 DEF Others
<1> QED
  BY <1>1, <1>2, <1>3 DEF Next, Exited

\* The stack of cleanups grows and shrinks in its order.
LEMMA NextStack == TypeOK /\ Stack /\ [Next]_vars => Stack'
<1> SUFFICES ASSUME TypeOK, Stack, [Next]_vars PROVE Stack'
  OBVIOUS
<1> USE DEF Stack, For, Working, Early, CleaningUp, InsideBazelTest, processVars, startVars, testVars, exitVars, askVars,
        Exit, Fatal, PerformCleanups, GoOn, Push, Ask
<1>1. CASE UNCHANGED vars
  BY <1>1 DEF vars
<1>2. CASE Launcher
  <2>1. CASE Refuse
    BY <2>1 DEF Refuse
  <2>2. CASE StartSvcd
    BY <2>2 DEF StartSvcd
  <2>3. CASE Poll
    BY <2>3 DEF Poll
  <2>4. CASE PollAgain
    BY <2>4 DEF PollAgain
  <2>5. CASE Deadline
    BY <2>5 DEF Deadline, DeadlineExceeded
  <2>6. CASE NoServices
    BY <2>6 DEF NoServices
  <2>7. CASE CreateFails
    BY <2>7 DEF CreateFails
  <2>8. CASE CreateServices
    BY <2>8 DEF CreateServices, RegisterStop
  <2>9. CASE StartAllSucceeds
    BY <2>9 DEF StartAllSucceeds
  <2>10. CASE StartAllFails
    BY <2>10 DEF StartAllFails
  <2>11. CASE AskStatus
    BY <2>11 DEF AskStatus
  <2>12. CASE AskDiagnostics
    BY <2>12, asked \in Wants DEF AskDiagnostics, TypeOK, LauncherTypeOK, Wants
  <2>13. CASE StatusFails
    BY <2>13 DEF StatusFails
  <2>14. CASE ReportStartFailed
    BY <2>14 DEF ReportStartFailed
  <2>15. CASE Unhealthy
    BY <2>15 DEF Unhealthy
  <2>16. CASE Healthy
    BY <2>16 DEF Healthy
  <2>17. CASE CheckAfterTest
    BY <2>17 DEF CheckAfterTest, FailTest
  <2>18. CASE CheckRaces
    BY <2>18 DEF CheckRaces
  <2>19. CASE Prepare
    BY <2>19 DEF Prepare
  <2>20. CASE LaunchTest
    BY <2>20 DEF LaunchTest
  <2>21. CASE CopyXML
    BY <2>21, NextCleanup DEF CopyXML, Cleanup, TestCase
  <2>22. CASE StopServices
    BY <2>22, NextCleanup DEF StopServices, Cleanup
  <2>23. CASE CheckServicesFailures
    BY <2>23, NextCleanup DEF CheckServicesFailures
  <2>24. CASE KillSvcd
    BY <2>24, NextCleanup DEF KillSvcd, Cleanup
  <2>25. CASE Finish
    BY <2>25 DEF Finish
  <2> QED
    BY <1>2, <2>1, <2>2, <2>3, <2>4, <2>5, <2>6, <2>7, <2>8, <2>9, <2>10, <2>11, <2>12, <2>13, <2>14, <2>15, <2>16, <2>17, <2>18, <2>19, <2>20, <2>21, <2>22, <2>23, <2>24, <2>25 DEF Launcher
<1>3. CASE Others
  <2>1. CASE SvcdListens
    BY <2>1 DEF SvcdListens
  <2>2. CASE SvcdDies
    BY <2>2 DEF SvcdDies
  <2>3. CASE TestEnds
    BY <2>3 DEF TestEnds
  <2>4. ASSUME NEW s \in Services, BeginStart(s) PROVE Stack'
    BY <2>4 DEF BeginStart
  <2>5. ASSUME NEW s \in Services, EndStart(s) PROVE Stack'
    BY <2>5 DEF EndStart
  <2>6. ASSUME NEW s \in Services, GetHealthy(s) PROVE Stack'
    BY <2>6 DEF GetHealthy
  <2>7. ASSUME NEW s \in Services, ServiceDies(s) PROVE Stack'
    BY <2>7 DEF ServiceDies
  <2>8. ASSUME NEW s \in Services, TestStops(s) PROVE Stack'
    BY <2>8 DEF TestStops
  <2>9. ASSUME NEW s \in Services, TestCreates(s) PROVE Stack'
    BY <2>9 DEF TestCreates
  <2>10. ASSUME NEW s \in Services, TestStarts(s) PROVE Stack'
    BY <2>10 DEF TestStarts
  <2> QED
    BY <1>3, <2>1, <2>2, <2>3, <2>4, <2>5, <2>6, <2>7, <2>8, <2>9, <2>10 DEF Others
<1> QED
  BY <1>1, <1>2, <1>3 DEF Next, Exited

\* What runs is going to be stopped.
LEMMA NextStopping == TypeOK /\ Stack /\ Stopping /\ [Next]_vars => Stopping'
<1> SUFFICES ASSUME TypeOK, Stack, Stopping, [Next]_vars PROVE Stopping'
  OBVIOUS
<1> USE DEF Stopping, StopsThem, For, Working, Early, processVars, startVars, testVars, exitVars, askVars,
        Exit, Fatal, PerformCleanups, GoOn, Push, Ask
<1>1. CASE UNCHANGED vars
  BY <1>1 DEF vars
<1>2. CASE Launcher
  <2>1. CASE Refuse
    BY <2>1 DEF Refuse
  <2>2. CASE StartSvcd
    BY <2>2 DEF StartSvcd
  <2>3. CASE Poll
    BY <2>3 DEF Poll
  <2>4. CASE PollAgain
    BY <2>4 DEF PollAgain
  <2>5. CASE Deadline
    BY <2>5 DEF Deadline, DeadlineExceeded
  <2>6. CASE NoServices
    BY <2>6 DEF NoServices
  <2>7. CASE CreateFails
    BY <2>7 DEF CreateFails
  <2>8. CASE CreateServices
    BY <2>8 DEF CreateServices, RegisterStop
  <2>9. CASE StartAllSucceeds
    BY <2>9 DEF StartAllSucceeds
  <2>10. CASE StartAllFails
    BY <2>10 DEF StartAllFails
  <2>11. CASE AskStatus
    BY <2>11 DEF AskStatus
  <2>12. CASE AskDiagnostics
    BY <2>12, asked \in Wants DEF AskDiagnostics, TypeOK, LauncherTypeOK, Wants
  <2>13. CASE StatusFails
    BY <2>13 DEF StatusFails
  <2>14. CASE ReportStartFailed
    BY <2>14 DEF ReportStartFailed
  <2>15. CASE Unhealthy
    BY <2>15 DEF Unhealthy
  <2>16. CASE Healthy
    BY <2>16 DEF Healthy
  <2>17. CASE CheckAfterTest
    BY <2>17 DEF CheckAfterTest, FailTest
  <2>18. CASE CheckRaces
    BY <2>18 DEF CheckRaces
  <2>19. CASE Prepare
    BY <2>19 DEF Prepare
  <2>20. CASE LaunchTest
    BY <2>20 DEF LaunchTest
  <2>21. CASE CopyXML
    BY <2>21, NextCleanup DEF CopyXML, Cleanup, TestCase
  <2>22. CASE StopServices
    BY <2>22, NextCleanup DEF StopServices, Cleanup
  <2>23. CASE CheckServicesFailures
    BY <2>23, NextCleanup DEF CheckServicesFailures
  <2>24. CASE KillSvcd
    BY <2>24, NextCleanup DEF KillSvcd, Cleanup
  <2>25. CASE Finish
    BY <2>25 DEF Finish
  <2> QED
    BY <1>2, <2>1, <2>2, <2>3, <2>4, <2>5, <2>6, <2>7, <2>8, <2>9, <2>10, <2>11, <2>12, <2>13, <2>14, <2>15, <2>16, <2>17, <2>18, <2>19, <2>20, <2>21, <2>22, <2>23, <2>24, <2>25 DEF Launcher
<1>3. CASE Others
  <2>1. CASE SvcdListens
    BY <2>1 DEF SvcdListens
  <2>2. CASE SvcdDies
    BY <2>2 DEF SvcdDies
  <2>3. CASE TestEnds
    BY <2>3 DEF TestEnds
  <2>4. ASSUME NEW s \in Services, BeginStart(s) PROVE Stopping'
    BY <2>4 DEF BeginStart
  <2>5. ASSUME NEW s \in Services, EndStart(s) PROVE Stopping'
    BY <2>5 DEF EndStart
  <2>6. ASSUME NEW s \in Services, GetHealthy(s) PROVE Stopping'
    BY <2>6 DEF GetHealthy
  <2>7. ASSUME NEW s \in Services, ServiceDies(s) PROVE Stopping'
    BY <2>7 DEF ServiceDies
  <2>8. ASSUME NEW s \in Services, TestStops(s) PROVE Stopping'
    BY <2>8 DEF TestStops
  <2>9. ASSUME NEW s \in Services, TestCreates(s) PROVE Stopping'
    BY <2>9 DEF TestCreates
  <2>10. ASSUME NEW s \in Services, TestStarts(s) PROVE Stopping'
    BY <2>10 DEF TestStarts
  <2> QED
    BY <1>3, <2>1, <2>2, <2>3, <2>4, <2>5, <2>6, <2>7, <2>8, <2>9, <2>10 DEF Others
<1> QED
  BY <1>1, <1>2, <1>3 DEF Next, Exited

\* No crash is forgotten but for a lost reply.
LEMMA NextCrashes == TypeOK /\ Stack /\ Crashes /\ [Next]_vars => Crashes'
<1> SUFFICES ASSUME TypeOK, Stack, Crashes, [Next]_vars PROVE Crashes'
  OBVIOUS
<1> USE DEF Crashes, For, CleaningUp, processVars, startVars, testVars, exitVars, askVars,
        Exit, Fatal, PerformCleanups, GoOn, Push, Ask
<1>1. CASE UNCHANGED vars
  BY <1>1 DEF vars
<1>2. CASE Launcher
  <2>1. CASE Refuse
    BY <2>1 DEF Refuse
  <2>2. CASE StartSvcd
    BY <2>2 DEF StartSvcd
  <2>3. CASE Poll
    BY <2>3 DEF Poll
  <2>4. CASE PollAgain
    BY <2>4 DEF PollAgain
  <2>5. CASE Deadline
    BY <2>5 DEF Deadline, DeadlineExceeded
  <2>6. CASE NoServices
    BY <2>6 DEF NoServices
  <2>7. CASE CreateFails
    BY <2>7 DEF CreateFails
  <2>8. CASE CreateServices
    BY <2>8 DEF CreateServices, RegisterStop
  <2>9. CASE StartAllSucceeds
    BY <2>9 DEF StartAllSucceeds
  <2>10. CASE StartAllFails
    BY <2>10 DEF StartAllFails
  <2>11. CASE AskStatus
    BY <2>11 DEF AskStatus, TypeOK, WorldTypeOK
  <2>12. CASE AskDiagnostics
    BY <2>12, asked \in Wants DEF AskDiagnostics, TypeOK, LauncherTypeOK, Wants
  <2>13. CASE StatusFails
    BY <2>13 DEF StatusFails
  <2>14. CASE ReportStartFailed
    BY <2>14 DEF ReportStartFailed
  <2>15. CASE Unhealthy
    BY <2>15 DEF Unhealthy
  <2>16. CASE Healthy
    BY <2>16 DEF Healthy
  <2>17. CASE CheckAfterTest
    BY <2>17 DEF CheckAfterTest, FailTest
  <2>18. CASE CheckRaces
    BY <2>18 DEF CheckRaces
  <2>19. CASE Prepare
    BY <2>19 DEF Prepare
  <2>20. CASE LaunchTest
    BY <2>20 DEF LaunchTest
  <2>21. CASE CopyXML
    BY <2>21, NextCleanup DEF CopyXML, Cleanup, TestCase
  <2>22. CASE StopServices
    BY <2>22, NextCleanup DEF StopServices, Cleanup
  <2>23. CASE CheckServicesFailures
    BY <2>23, NextCleanup DEF CheckServicesFailures
  <2>24. CASE KillSvcd
    BY <2>24, NextCleanup DEF KillSvcd, Cleanup
  <2>25. CASE Finish
    BY <2>25 DEF Finish
  <2> QED
    BY <1>2, <2>1, <2>2, <2>3, <2>4, <2>5, <2>6, <2>7, <2>8, <2>9, <2>10, <2>11, <2>12, <2>13, <2>14, <2>15, <2>16, <2>17, <2>18, <2>19, <2>20, <2>21, <2>22, <2>23, <2>24, <2>25 DEF Launcher
<1>3. CASE Others
  <2>1. CASE SvcdListens
    BY <2>1 DEF SvcdListens
  <2>2. CASE SvcdDies
    BY <2>2 DEF SvcdDies
  <2>3. CASE TestEnds
    <3>1. CASE GoOn("status")
      BY <2>3, <3>1 DEF TestEnds, Stack
    <3>2. CASE PerformCleanups(1)
      BY <2>3, <3>2 DEF TestEnds
    <3> QED
      BY <2>3, <3>1, <3>2 DEF TestEnds
  <2>4. ASSUME NEW s \in Services, BeginStart(s) PROVE Crashes'
    BY <2>4 DEF BeginStart
  <2>5. ASSUME NEW s \in Services, EndStart(s) PROVE Crashes'
    BY <2>5 DEF EndStart
  <2>6. ASSUME NEW s \in Services, GetHealthy(s) PROVE Crashes'
    BY <2>6 DEF GetHealthy
  <2>7. ASSUME NEW s \in Services, ServiceDies(s) PROVE Crashes'
    BY <2>7 DEF ServiceDies, TypeOK, WorldTypeOK
  <2>8. ASSUME NEW s \in Services, TestStops(s) PROVE Crashes'
    BY <2>8 DEF TestStops
  <2>9. ASSUME NEW s \in Services, TestCreates(s) PROVE Crashes'
    BY <2>9 DEF TestCreates
  <2>10. ASSUME NEW s \in Services, TestStarts(s) PROVE Crashes'
    BY <2>10 DEF TestStarts
  <2> QED
    BY <1>3, <2>1, <2>2, <2>3, <2>4, <2>5, <2>6, <2>7, <2>8, <2>9, <2>10 DEF Others
<1> QED
  BY <1>1, <1>2, <1>3 DEF Next, Exited

\* Races are final when they are asked for.
LEMMA NextRaces == TypeOK /\ Stack /\ Stopping /\ Races /\ [Next]_vars => Races'
<1> SUFFICES ASSUME TypeOK, Stack, Stopping, Races, [Next]_vars PROVE Races'
  OBVIOUS
<1> USE DEF Races, RacesFinal, Stack, Stopping, StopsThem, CleaningUp, For, Working, Early, Write, Scratch, InsideBazelTest, processVars, startVars, testVars, exitVars, askVars,
        Exit, Fatal, PerformCleanups, GoOn, Push, Ask
<1>1. CASE UNCHANGED vars
  BY <1>1 DEF vars
<1>2. CASE Launcher
  <2>1. CASE Refuse
    BY <2>1 DEF Refuse
  <2>2. CASE StartSvcd
    BY <2>2 DEF StartSvcd
  <2>3. CASE Poll
    BY <2>3 DEF Poll
  <2>4. CASE PollAgain
    BY <2>4 DEF PollAgain
  <2>5. CASE Deadline
    BY <2>5 DEF Deadline, DeadlineExceeded
  <2>6. CASE NoServices
    BY <2>6 DEF NoServices
  <2>7. CASE CreateFails
    BY <2>7 DEF CreateFails
  <2>8. CASE CreateServices
    BY <2>8 DEF CreateServices, RegisterStop
  <2>9. CASE StartAllSucceeds
    BY <2>9 DEF StartAllSucceeds
  <2>10. CASE StartAllFails
    BY <2>10 DEF StartAllFails
  <2>11. CASE AskStatus
    BY <2>11 DEF AskStatus
  <2>12. CASE AskDiagnostics
    BY <2>12, asked \in Wants DEF AskDiagnostics, TypeOK, LauncherTypeOK, Wants
  <2>13. CASE StatusFails
    BY <2>13 DEF StatusFails
  <2>14. CASE ReportStartFailed
    BY <2>14 DEF ReportStartFailed
  <2>15. CASE Unhealthy
    BY <2>15 DEF Unhealthy
  <2>16. CASE Healthy
    BY <2>16 DEF Healthy
  <2>17. CASE CheckAfterTest
    BY <2>17 DEF CheckAfterTest, FailTest
  <2>18. CASE CheckRaces
    <3>1. CASE reply.raced = {}
      BY <2>18, <3>1 DEF CheckRaces
    <3>2. CASE reply.raced # {}
      <4>1. Scratch(reply.raced).services = reply.raced
        BY DEF Scratch
      <4>2. flags.xml => report' = Scratch(reply.raced)
        BY <2>18, <3>2 DEF CheckRaces
      <4> QED
        BY <2>18, <3>2, <4>1, <4>2 DEF CheckRaces
    <3> QED
      BY <3>1, <3>2
  <2>19. CASE Prepare
    BY <2>19 DEF Prepare
  <2>20. CASE LaunchTest
    BY <2>20 DEF LaunchTest
  <2>21. CASE CopyXML
    BY <2>21, NextCleanup DEF CopyXML, Cleanup, TestCase
  <2>22. CASE StopServices
    BY <2>22, NextCleanup DEF StopServices, Cleanup
  <2>23. CASE CheckServicesFailures
    BY <2>23, NextCleanup DEF CheckServicesFailures
  <2>24. CASE KillSvcd
    BY <2>24, NextCleanup DEF KillSvcd, Cleanup
  <2>25. CASE Finish
    BY <2>25 DEF Finish
  <2> QED
    BY <1>2, <2>1, <2>2, <2>3, <2>4, <2>5, <2>6, <2>7, <2>8, <2>9, <2>10, <2>11, <2>12, <2>13, <2>14, <2>15, <2>16, <2>17, <2>18, <2>19, <2>20, <2>21, <2>22, <2>23, <2>24, <2>25 DEF Launcher
<1>3. CASE Others
  <2>1. CASE SvcdListens
    BY <2>1 DEF SvcdListens
  <2>2. CASE SvcdDies
    BY <2>2 DEF SvcdDies
  <2>3. CASE TestEnds
    BY <2>3 DEF TestEnds
  <2>4. ASSUME NEW s \in Services, BeginStart(s) PROVE Races'
    BY <2>4 DEF BeginStart
  <2>5. ASSUME NEW s \in Services, EndStart(s) PROVE Races'
    BY <2>5 DEF EndStart
  <2>6. ASSUME NEW s \in Services, GetHealthy(s) PROVE Races'
    BY <2>6 DEF GetHealthy
  <2>7. ASSUME NEW s \in Services, ServiceDies(s) PROVE Races'
    BY <2>7 DEF ServiceDies
  <2>8. ASSUME NEW s \in Services, TestStops(s) PROVE Races'
    BY <2>8 DEF TestStops
  <2>9. ASSUME NEW s \in Services, TestCreates(s) PROVE Races'
    BY <2>9 DEF TestCreates
  <2>10. ASSUME NEW s \in Services, TestStarts(s) PROVE Races'
    BY <2>10 DEF TestStarts
  <2> QED
    BY <1>3, <2>1, <2>2, <2>3, <2>4, <2>5, <2>6, <2>7, <2>8, <2>9, <2>10 DEF Others
<1> QED
  BY <1>1, <1>2, <1>3 DEF Next, Exited

\* The verdict of the test is on its way to the report.
LEMMA NextVerdicts == TypeOK /\ Stack /\ Verdicts /\ [Next]_vars => Verdicts'
<1> SUFFICES ASSUME TypeOK, Stack, Verdicts, [Next]_vars PROVE Verdicts'
  OBVIOUS
<1> USE DEF Verdicts, Failing, Stack, For, Working, Early, CleaningUp, Write, Scratch, InsideBazelTest, processVars, startVars, testVars, exitVars, askVars,
        Exit, Fatal, PerformCleanups, GoOn, Push, Ask
<1>1. CASE UNCHANGED vars
  BY <1>1 DEF vars
<1>2. CASE Launcher
  <2>1. CASE Refuse
    BY <2>1 DEF Refuse
  <2>2. CASE StartSvcd
    BY <2>2 DEF StartSvcd
  <2>3. CASE Poll
    BY <2>3 DEF Poll
  <2>4. CASE PollAgain
    BY <2>4 DEF PollAgain
  <2>5. CASE Deadline
    BY <2>5 DEF Deadline, DeadlineExceeded
  <2>6. CASE NoServices
    BY <2>6 DEF NoServices
  <2>7. CASE CreateFails
    BY <2>7 DEF CreateFails
  <2>8. CASE CreateServices
    BY <2>8 DEF CreateServices, RegisterStop
  <2>9. CASE StartAllSucceeds
    BY <2>9 DEF StartAllSucceeds
  <2>10. CASE StartAllFails
    BY <2>10 DEF StartAllFails
  <2>11. CASE AskStatus
    BY <2>11 DEF AskStatus
  <2>12. CASE AskDiagnostics
    BY <2>12, asked \in Wants DEF AskDiagnostics, TypeOK, LauncherTypeOK, Wants
  <2>13. CASE StatusFails
    BY <2>13 DEF StatusFails
  <2>14. CASE ReportStartFailed
    BY <2>14 DEF ReportStartFailed
  <2>15. CASE Unhealthy
    BY <2>15 DEF Unhealthy
  <2>16. CASE Healthy
    BY <2>16 DEF Healthy
  <2>17. CASE CheckAfterTest
    BY <2>17 DEF CheckAfterTest, FailTest
  <2>18. CASE CheckRaces
    BY <2>18 DEF CheckRaces
  <2>19. CASE Prepare
    BY <2>19 DEF Prepare
  <2>20. CASE LaunchTest
    BY <2>20 DEF LaunchTest
  <2>21. CASE CopyXML
    BY <2>21, NextCleanup DEF CopyXML, Cleanup, TestCase
  <2>22. CASE StopServices
    BY <2>22, NextCleanup DEF StopServices, Cleanup
  <2>23. CASE CheckServicesFailures
    BY <2>23, NextCleanup DEF CheckServicesFailures
  <2>24. CASE KillSvcd
    BY <2>24, NextCleanup DEF KillSvcd, Cleanup
  <2>25. CASE Finish
    BY <2>25 DEF Finish
  <2> QED
    BY <1>2, <2>1, <2>2, <2>3, <2>4, <2>5, <2>6, <2>7, <2>8, <2>9, <2>10, <2>11, <2>12, <2>13, <2>14, <2>15, <2>16, <2>17, <2>18, <2>19, <2>20, <2>21, <2>22, <2>23, <2>24, <2>25 DEF Launcher
<1>3. CASE Others
  <2>1. CASE SvcdListens
    BY <2>1 DEF SvcdListens
  <2>2. CASE SvcdDies
    BY <2>2 DEF SvcdDies
  <2>3. CASE TestEnds
    BY <2>3 DEF TestEnds
  <2>4. ASSUME NEW s \in Services, BeginStart(s) PROVE Verdicts'
    BY <2>4 DEF BeginStart
  <2>5. ASSUME NEW s \in Services, EndStart(s) PROVE Verdicts'
    BY <2>5 DEF EndStart
  <2>6. ASSUME NEW s \in Services, GetHealthy(s) PROVE Verdicts'
    BY <2>6 DEF GetHealthy
  <2>7. ASSUME NEW s \in Services, ServiceDies(s) PROVE Verdicts'
    BY <2>7 DEF ServiceDies
  <2>8. ASSUME NEW s \in Services, TestStops(s) PROVE Verdicts'
    BY <2>8 DEF TestStops
  <2>9. ASSUME NEW s \in Services, TestCreates(s) PROVE Verdicts'
    BY <2>9 DEF TestCreates
  <2>10. ASSUME NEW s \in Services, TestStarts(s) PROVE Verdicts'
    BY <2>10 DEF TestStarts
  <2> QED
    BY <1>3, <2>1, <2>2, <2>3, <2>4, <2>5, <2>6, <2>7, <2>8, <2>9, <2>10 DEF Others
<1> QED
  BY <1>1, <1>2, <1>3 DEF Next, Exited

\* The exit is the last step.
LEMMA NextRacesReachTheReport == TypeOK /\ Stack /\ Races /\ RacesReachTheReport /\ [Next]_vars => RacesReachTheReport'
<1> SUFFICES ASSUME TypeOK, Stack, Races, RacesReachTheReport, [Next]_vars PROVE RacesReachTheReport'
  OBVIOUS
<1> USE DEF RacesReachTheReport, Races, RacesFinal, Stack, StopsThem, Failing, processVars, startVars, testVars, exitVars, askVars,
        Exit, Fatal, PerformCleanups, GoOn, Push, Ask
<1>1. CASE UNCHANGED vars
  BY <1>1 DEF vars
<1>2. CASE Launcher
  <2>1. CASE Refuse
    BY <2>1 DEF Refuse
  <2>2. CASE StartSvcd
    BY <2>2 DEF StartSvcd
  <2>3. CASE Poll
    BY <2>3 DEF Poll
  <2>4. CASE PollAgain
    BY <2>4 DEF PollAgain
  <2>5. CASE Deadline
    BY <2>5 DEF Deadline, DeadlineExceeded
  <2>6. CASE NoServices
    BY <2>6 DEF NoServices
  <2>7. CASE CreateFails
    BY <2>7 DEF CreateFails
  <2>8. CASE CreateServices
    BY <2>8 DEF CreateServices, RegisterStop
  <2>9. CASE StartAllSucceeds
    BY <2>9 DEF StartAllSucceeds
  <2>10. CASE StartAllFails
    BY <2>10 DEF StartAllFails
  <2>11. CASE AskStatus
    BY <2>11 DEF AskStatus
  <2>12. CASE AskDiagnostics
    BY <2>12, asked \in Wants DEF AskDiagnostics, TypeOK, LauncherTypeOK, Wants
  <2>13. CASE StatusFails
    BY <2>13 DEF StatusFails
  <2>14. CASE ReportStartFailed
    BY <2>14 DEF ReportStartFailed
  <2>15. CASE Unhealthy
    BY <2>15 DEF Unhealthy
  <2>16. CASE Healthy
    BY <2>16 DEF Healthy
  <2>17. CASE CheckAfterTest
    BY <2>17 DEF CheckAfterTest, FailTest
  <2>18. CASE CheckRaces
    BY <2>18 DEF CheckRaces
  <2>19. CASE Prepare
    BY <2>19 DEF Prepare
  <2>20. CASE LaunchTest
    BY <2>20 DEF LaunchTest
  <2>21. CASE CopyXML
    BY <2>21, NextCleanup DEF CopyXML, Cleanup, TestCase
  <2>22. CASE StopServices
    BY <2>22, NextCleanup DEF StopServices, Cleanup
  <2>23. CASE CheckServicesFailures
    BY <2>23, NextCleanup DEF CheckServicesFailures
  <2>24. CASE KillSvcd
    BY <2>24, NextCleanup DEF KillSvcd, Cleanup
  <2>25. CASE Finish
    BY <2>25 DEF Finish, TypeOK, LauncherTypeOK
  <2> QED
    BY <1>2, <2>1, <2>2, <2>3, <2>4, <2>5, <2>6, <2>7, <2>8, <2>9, <2>10, <2>11, <2>12, <2>13, <2>14, <2>15, <2>16, <2>17, <2>18, <2>19, <2>20, <2>21, <2>22, <2>23, <2>24, <2>25 DEF Launcher
<1>3. CASE Others
  <2>1. CASE SvcdListens
    BY <2>1 DEF SvcdListens
  <2>2. CASE SvcdDies
    BY <2>2 DEF SvcdDies
  <2>3. CASE TestEnds
    BY <2>3 DEF TestEnds
  <2>4. ASSUME NEW s \in Services, BeginStart(s) PROVE RacesReachTheReport'
    BY <2>4 DEF BeginStart
  <2>5. ASSUME NEW s \in Services, EndStart(s) PROVE RacesReachTheReport'
    BY <2>5 DEF EndStart
  <2>6. ASSUME NEW s \in Services, GetHealthy(s) PROVE RacesReachTheReport'
    BY <2>6 DEF GetHealthy
  <2>7. ASSUME NEW s \in Services, ServiceDies(s) PROVE RacesReachTheReport'
    BY <2>7 DEF ServiceDies
  <2>8. ASSUME NEW s \in Services, TestStops(s) PROVE RacesReachTheReport'
    BY <2>8 DEF TestStops
  <2>9. ASSUME NEW s \in Services, TestCreates(s) PROVE RacesReachTheReport'
    BY <2>9 DEF TestCreates
  <2>10. ASSUME NEW s \in Services, TestStarts(s) PROVE RacesReachTheReport'
    BY <2>10 DEF TestStarts
  <2> QED
    BY <1>3, <2>1, <2>2, <2>3, <2>4, <2>5, <2>6, <2>7, <2>8, <2>9, <2>10 DEF Others
<1> QED
  BY <1>1, <1>2, <1>3 DEF Next, Exited

\* And it agrees with the report.
LEMMA NextVerdictsAgree == TypeOK /\ Stack /\ Verdicts /\ VerdictsAgree /\ [Next]_vars => VerdictsAgree'
<1> SUFFICES ASSUME TypeOK, Stack, Verdicts, VerdictsAgree, [Next]_vars PROVE VerdictsAgree'
  OBVIOUS
<1> USE DEF VerdictsAgree, Verdicts, Stack, CleaningUp, processVars, startVars, testVars, exitVars, askVars,
        Exit, Fatal, PerformCleanups, GoOn, Push, Ask
<1>1. CASE UNCHANGED vars
  BY <1>1 DEF vars
<1>2. CASE Launcher
  <2>1. CASE Refuse
    BY <2>1 DEF Refuse
  <2>2. CASE StartSvcd
    BY <2>2 DEF StartSvcd
  <2>3. CASE Poll
    BY <2>3 DEF Poll
  <2>4. CASE PollAgain
    BY <2>4 DEF PollAgain
  <2>5. CASE Deadline
    BY <2>5 DEF Deadline, DeadlineExceeded
  <2>6. CASE NoServices
    BY <2>6 DEF NoServices
  <2>7. CASE CreateFails
    BY <2>7 DEF CreateFails
  <2>8. CASE CreateServices
    BY <2>8 DEF CreateServices, RegisterStop
  <2>9. CASE StartAllSucceeds
    BY <2>9 DEF StartAllSucceeds
  <2>10. CASE StartAllFails
    BY <2>10 DEF StartAllFails
  <2>11. CASE AskStatus
    BY <2>11 DEF AskStatus
  <2>12. CASE AskDiagnostics
    BY <2>12, asked \in Wants DEF AskDiagnostics, TypeOK, LauncherTypeOK, Wants
  <2>13. CASE StatusFails
    BY <2>13 DEF StatusFails
  <2>14. CASE ReportStartFailed
    BY <2>14 DEF ReportStartFailed
  <2>15. CASE Unhealthy
    BY <2>15 DEF Unhealthy
  <2>16. CASE Healthy
    BY <2>16 DEF Healthy
  <2>17. CASE CheckAfterTest
    BY <2>17 DEF CheckAfterTest, FailTest
  <2>18. CASE CheckRaces
    BY <2>18 DEF CheckRaces
  <2>19. CASE Prepare
    BY <2>19 DEF Prepare
  <2>20. CASE LaunchTest
    BY <2>20 DEF LaunchTest
  <2>21. CASE CopyXML
    BY <2>21, NextCleanup DEF CopyXML, Cleanup, TestCase
  <2>22. CASE StopServices
    BY <2>22, NextCleanup DEF StopServices, Cleanup
  <2>23. CASE CheckServicesFailures
    BY <2>23, NextCleanup DEF CheckServicesFailures
  <2>24. CASE KillSvcd
    BY <2>24, NextCleanup DEF KillSvcd, Cleanup
  <2>25. CASE Finish
    BY <2>25 DEF Finish
  <2> QED
    BY <1>2, <2>1, <2>2, <2>3, <2>4, <2>5, <2>6, <2>7, <2>8, <2>9, <2>10, <2>11, <2>12, <2>13, <2>14, <2>15, <2>16, <2>17, <2>18, <2>19, <2>20, <2>21, <2>22, <2>23, <2>24, <2>25 DEF Launcher
<1>3. CASE Others
  <2>1. CASE SvcdListens
    BY <2>1 DEF SvcdListens
  <2>2. CASE SvcdDies
    BY <2>2 DEF SvcdDies
  <2>3. CASE TestEnds
    BY <2>3 DEF TestEnds
  <2>4. ASSUME NEW s \in Services, BeginStart(s) PROVE VerdictsAgree'
    BY <2>4 DEF BeginStart
  <2>5. ASSUME NEW s \in Services, EndStart(s) PROVE VerdictsAgree'
    BY <2>5 DEF EndStart
  <2>6. ASSUME NEW s \in Services, GetHealthy(s) PROVE VerdictsAgree'
    BY <2>6 DEF GetHealthy
  <2>7. ASSUME NEW s \in Services, ServiceDies(s) PROVE VerdictsAgree'
    BY <2>7 DEF ServiceDies
  <2>8. ASSUME NEW s \in Services, TestStops(s) PROVE VerdictsAgree'
    BY <2>8 DEF TestStops
  <2>9. ASSUME NEW s \in Services, TestCreates(s) PROVE VerdictsAgree'
    BY <2>9 DEF TestCreates
  <2>10. ASSUME NEW s \in Services, TestStarts(s) PROVE VerdictsAgree'
    BY <2>10 DEF TestStarts
  <2> QED
    BY <1>3, <2>1, <2>2, <2>3, <2>4, <2>5, <2>6, <2>7, <2>8, <2>9, <2>10 DEF Others
<1> QED
  BY <1>1, <1>2, <1>3 DEF Next, Exited

LEMMA InitIInv == Init => IInv
<1> SUFFICES ASSUME Init PROVE IInv
  OBVIOUS
<1> USE DEF Init, Flags, NoResults, NoReport
<1>1. TypeOK
  BY DEF TypeOK, LauncherTypeOK, WorldTypeOK, PCs, Wants, Cleanups, Results, Reports
<1>2. Stack /\ Stopping
  BY DEF Stack, Stopping, Early, Working, CleaningUp, For
<1>3. Crashes /\ Races /\ Verdicts
  BY DEF Crashes, Races, Verdicts, Early, Working, CleaningUp, For
<1>4. RacesReachTheReport /\ VerdictsAgree
  BY DEF RacesReachTheReport, VerdictsAgree
<1> QED
  BY <1>1, <1>2, <1>3, <1>4 DEF IInv

LEMMA NextIInv == IInv /\ [Next]_vars => IInv'
<1> SUFFICES ASSUME IInv, [Next]_vars PROVE IInv'
  OBVIOUS
<1>1. Stack' /\ LauncherTypeOK' /\ WorldTypeOK'
  BY NextStack, NextLauncherTypeOK, NextWorldTypeOK DEF IInv
<1>2. TypeOK'
  BY <1>1 DEF TypeOK, Stack
<1>3. Stopping' /\ Crashes' /\ Races' /\ Verdicts'
  BY NextStopping, NextCrashes, NextRaces, NextVerdicts DEF IInv
<1>4. RacesReachTheReport' /\ VerdictsAgree'
  BY NextRacesReachTheReport, NextVerdictsAgree DEF IInv
<1> QED
  BY <1>1, <1>2, <1>3, <1>4 DEF IInv

\* Wherever main is and whatever has died, the stack of cleanups, the state of
\* svcd and the services, the report and the exit code fit together.
THEOREM Inductive == Spec => []IInv
<1> QED
  BY InitIInv, NextIInv, PTL DEF Spec
-----------------------------------------------------------------------------
\* svcinit's variables have their types, and svcd is the last to be cleaned up.
THEOREM Typing == Spec => []TypeOK
<1>1. IInv => TypeOK
  BY DEF IInv
<1> QED
  BY <1>1, Inductive, PTL

\* Whatever dies meanwhile, performCleanups leaves neither svcd nor a service
\* that svcinit started, unless StopAll returned an error.
THEOREM LeavesNothing == Spec => []NothingLeftBehind
<1>1. IInv => NothingLeftBehind
  BY DEF IInv, Stack, Stopping, NothingLeftBehind
<1> QED
  BY <1>1, Inductive, PTL

\* svcinit does not exit with 0 if a service of -svc.fail-test-on-crash-services
\* had crashed when the test ended, unless it got no answer when it asked.
THEOREM CrashesAreSeen == Spec => []CrashesFailTheTest
<1>1. IInv => CrashesFailTheTest
  BY DEF IInv, Crashes, CrashesFailTheTest
<1> QED
  BY <1>1, Inductive, PTL

\* Races, of the shutdown too, are in the report and in the exit code.
THEOREM RacesAreReported == Spec => []RacesReachTheReport
<1>1. IInv => RacesReachTheReport
  BY DEF IInv
<1> QED
  BY <1>1, Inductive, PTL

\* svcinit's exit code and its report never contradict each other.
THEOREM VerdictsAreOne == Spec => []VerdictsAgree
<1>1. IInv => VerdictsAgree
  BY DEF IInv
<1> QED
  BY <1>1, Inductive, PTL
=============================================================================
