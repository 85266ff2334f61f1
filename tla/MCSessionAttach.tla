--------------------------- MODULE MCSessionAttach ---------------------------
(***************************************************************************)
(* SessionAttach on a small instance.                                      *)
(***************************************************************************)
EXTENDS SessionAttach
==============================================================================
