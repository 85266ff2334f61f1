---------------------------- MODULE MCSessionHost ----------------------------
(***************************************************************************)
(* SessionHost on small instances.                                         *)
(***************************************************************************)
EXTENDS SessionHost

(* Every client asks for anything.                                         *)
Anything == [c \in Clients |-> Kinds]

(* One asks for a stop, which takes longest when it is graceful, the       *)
(* others for a stop or for something else, such as input.                 *)
StopsContend ==
  LET first == CHOOSE c \in Clients : TRUE
  IN  [c \in Clients |-> IF c = first THEN {"graceful"} ELSE {"graceful", "other"}]

==============================================================================
