-------------------------------- MODULE ItestMC --------------------------------
(***************************************************************************)
(* A web service that needs a database, and one command beside svcinit.    *)
(***************************************************************************)
EXTENDS Itest, TLC

CONSTANTS db, web, launch, other

MCServices == {db, web}
MCDeps == (web :> {db}) @@ (db :> {})
MCClients == {launch, other}
MCCommands ==
    (launch :> {<<"start-all", db>>})
        @@ (other :> {<<"auto-restart", db>>, <<"restart", db>>, <<"stop", db>>, <<"start", web>>})
=============================================================================
