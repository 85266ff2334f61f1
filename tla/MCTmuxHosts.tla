---------------------------- MODULE MCTmuxHosts ----------------------------
(***************************************************************************)
(* Small instances of TmuxHosts for TLC: two phones share the Hosts of one *)
(* tmux session.                                                           *)
(***************************************************************************)
EXTENDS TmuxHosts
=============================================================================
