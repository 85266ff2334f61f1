--------------------------- MODULE MCSessionJournal ---------------------------
(***************************************************************************)
(* SessionJournal on small instances.                                      *)
(***************************************************************************)
EXTENDS SessionJournal
===============================================================================
