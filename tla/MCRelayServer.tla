---------------------------- MODULE MCRelayServer ----------------------------
(***************************************************************************)
(* RelayServer on small instances.                                         *)
(***************************************************************************)
EXTENDS RelayServer, TLC

(* Connections, routes and addresses are interchangeable; only for         *)
(* safety properties.                                                      *)
Symmetric == Permutations(Conns) \cup Permutations(Routes) \cup Permutations(Sources)
==============================================================================
