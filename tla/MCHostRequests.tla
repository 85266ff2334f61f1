---------------------------- MODULE MCHostRequests ---------------------------
(***************************************************************************)
(* HostRequests on small instances.                                        *)
(***************************************************************************)
EXTENDS HostRequests, TLC

(* Connections, command ids and nonces are interchangeable; only for       *)
(* invariants.                                                             *)
Symmetric == Permutations(Connections) \cup Permutations(Ids) \cup Permutations(Nonces)
==============================================================================
