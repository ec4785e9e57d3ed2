--------------------------- MODULE ServiceLifeCycle ---------------------------
(***************************************************************************)
(* The life of a service as its status tells it to others: it leaves       *)
(* STOPPED by a Start alone, is STARTED only from STARTING, and no late    *)
(* goroutine of an old run revives it from ERROR or STOPPING.  What the    *)
(* models of one service, of the handlers and of the commands all keep.    *)
(***************************************************************************)
VARIABLE status

Init == status = "STOPPED"

Start == status = "STOPPED" /\ status' = "STARTING"

\* The process cannot be forked; without a log file it stays STOPPED.
StartFails == status = "STOPPED" /\ status' = "ERROR"

BecomeHealthy == status = "STARTING" /\ status' = "STARTED"

\* The process ended, or the task failed.
Die == status \in {"STARTING", "STARTED"} /\ status' = "ERROR"

BeginStop == status # "STOPPED" /\ status' = "STOPPING"

\* At once, if nobody could see it STOPPING.
EndStop == status # "STOPPED" /\ status' = "STOPPED"

Next == Start \/ StartFails \/ BecomeHealthy \/ Die \/ BeginStop \/ EndStop

Spec == Init /\ [][Next]_status
=============================================================================
