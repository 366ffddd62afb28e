---------------------------- MODULE MCHubAccount ----------------------------
(* A small instance of HubAccount for TLC: two tokens of one machine. *)
EXTENDS HubAccount, TLC

CONSTANTS t1, t2

OneName == t1 :> "laptop" @@ t2 :> "laptop"

Symmetry == Permutations(Calls)
=============================================================================
