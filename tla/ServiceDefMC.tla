---------------------------- MODULE ServiceDefMC ----------------------------
(***************************************************************************)
(* Instances of ServiceDef for TLC: the calls, the checks and the symmetry *)
(* of the safety runs (calls and checks are interchangeable).              *)
(***************************************************************************)
EXTENDS ServiceDef, TLC

CallSymmetry == Permutations(Starts) \cup Permutations(Stops)
=============================================================================
