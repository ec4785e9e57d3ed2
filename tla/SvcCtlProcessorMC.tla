--------------------------- MODULE SvcCtlProcessorMC ---------------------------
(***************************************************************************)
(* SvcCtlProcessor with two names: a batch in an awkward order, one that   *)
(* turns a dependency round after the name was removed, and one with a     *)
(* service that cannot be made and one that depends on itself.             *)
(***************************************************************************)
EXTENDS SvcCtlProcessor, TLC

CONSTANTS a, b

Service(n, deps, valid) == [name |-> n, deps |-> deps, valid |-> valid]

MCBatches == {
    <<Service(b, {a}, TRUE), Service(a, {}, TRUE)>>,
    <<Service(a, {b}, TRUE)>>,
    <<Service(b, {}, FALSE), Service(a, {a}, TRUE)>> }

\* The liveness run leaves out what no CreateBatch can create.
LiveBatches == {svcs \in MCBatches : \A i \in DOMAIN svcs : svcs[i].deps # {svcs[i].name}}

\* Once a name was used twice ManagementReturns claims nothing: the liveness run
\* goes no further.
NoTwins == ~Twins

MCSymmetry == Permutations(Clients)

MCNames == {a, b}
MCNameSets == {{a}, {b}, {a, b}}
=============================================================================
