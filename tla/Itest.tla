--------------------------------- MODULE Itest ---------------------------------
(***************************************************************************)
(* bzl itest-run: the container's bzl-itest-init.sh runs svcinit with      *)
(* --svc.services-only, whose StartAll is one command of SvcCtl, and       *)
(* leaves the exit code in a file; bzl-itest-wait.sh waits for that file   *)
(* and passes the code on; then bzl runs the test.  Meanwhile another bzl  *)
(* or a shell in the container may give commands.                          *)
(*                                                                         *)
(* The container stays: when it is removed, everything ends.               *)
(***************************************************************************)
EXTENDS SvcCtl

CONSTANT Launch  \* the start-all of svcinit

ASSUME LaunchAssumption ==
    /\ Launch \in Clients
    /\ \A k \in Commands[Launch] : k[1] = "start-all"

VARIABLES
    code,      \* the exit code of svcinit, "none" before it has looked at the services
    exitFile,  \* the exit code file of bzl-itest-init.sh
    waiter,    \* the exit code of bzl-itest-wait.sh, "none" while it waits
    test,      \* bzl has begun to run the test
    misread,   \* history: the wait script read a file that was not written yet
    lost       \* history: a service was lost after svcinit had looked at it

itestVars == <<code, exitFile, waiter, test, misread, lost>>
itVars == <<vars, itestVars>>

Codes == {"none", "0", "1"}
Files == {"absent", "empty", "0", "1"}

ItestInit ==
    /\ Init
    /\ code = "none"
    /\ exitFile = "absent"
    /\ waiter = "none"
    /\ test = FALSE
    /\ misread = FALSE
    /\ lost = FALSE
-----------------------------------------------------------------------------
\* A step of svcd, the services and the commands.  No command is given before
\* svcinit has created the services.
ContainerStep ==
    /\ Next
    /\ cmd[Launch] = "none" => \A c \in Clients \ {Launch} : cmd'[c] = "none"
    /\ lost' = \/ lost
               \/ /\ code # "none" /\ waiter # "1" /\ ~test
                  /\ \E s \in Services : status[s] = "STARTED" /\ status'[s] # "STARTED"
    /\ UNCHANGED <<code, exitFile, waiter, test, misread>>

\* Mutant of LooksHealthy: svcinit trusts the success of StartAll.
TrustsStart == pc[Launch] = "ok"

\* svcinit looks at all services once more after StartAll.
LooksHealthy == pc[Launch] = "ok" /\ \A s \in Services : status[s] # "ERROR"

LaunchLooks ==
    /\ pc[Launch] \in {"ok", "failed"}
    /\ code = "none"
    /\ code' = IF LooksHealthy THEN "0" ELSE "1"
    /\ UNCHANGED <<vars, exitFile, waiter, test, misread, lost>>

\* The shell creates the file, and echo writes to it; both are left out once
\* the wait script has gone, since nothing else reads the file.
CreateExitFile ==
    /\ code # "none"
    /\ exitFile = "absent"
    /\ waiter = "none"
    /\ exitFile' = "empty"
    /\ UNCHANGED <<vars, code, waiter, test, misread, lost>>

WriteExitFile ==
    /\ exitFile = "empty"
    /\ waiter = "none"
    /\ exitFile' = code
    /\ UNCHANGED <<vars, code, waiter, test, misread, lost>>

\* tail refuses the pid of a pid file that is not written yet.
MissPid ==
    /\ waiter = "none"
    /\ waiter' = "1"
    /\ UNCHANGED <<vars, code, exitFile, test, misread, lost>>

\* exit without an argument is the exit of the cat before it.
ReadExitFile ==
    /\ waiter = "none"
    /\ exitFile # "absent"
    /\ waiter' = IF exitFile = "empty" THEN "0" ELSE exitFile
    /\ misread' = (exitFile = "empty")
    /\ UNCHANGED <<vars, code, exitFile, test, lost>>

RunTest ==
    /\ waiter = "0"
    /\ ~test
    /\ test' = TRUE
    /\ UNCHANGED <<vars, code, exitFile, waiter, misread, lost>>

ItestNext ==
    ContainerStep \/ LaunchLooks \/ CreateExitFile \/ WriteExitFile \/ MissPid \/ ReadExitFile \/ RunTest

ItestSpec == ItestInit /\ [][ItestNext]_itVars
-----------------------------------------------------------------------------
ItestTypeOK ==
    /\ TypeOK
    /\ code \in Codes
    /\ exitFile \in Files
    /\ waiter \in Codes
    /\ test \in BOOLEAN
    /\ misread \in BOOLEAN
    /\ lost \in BOOLEAN

\* When bzl itest-run begins the test every service is up, unless a service was
\* lost after svcinit's last look, another command was given, or the wait script
\* took an empty file for a success.
TestMeetsServices ==
    [][test' # test =>
        \/ \A s \in Services : status[s] = "STARTED"
        \/ lost
        \/ misread
        \/ \E c \in Clients \ {Launch} : pc[c] # "idle"]_itVars
=============================================================================
