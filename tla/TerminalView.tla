----------------------------- MODULE TerminalView -----------------------------
(***************************************************************************)
(* What attaching to a Session Host promises to whoever looks at the       *)
(* terminal, with no journal, replay limits, connections or retries.       *)
(*                                                                         *)
(* The program prints pieces of output, numbered from 1.  A viewer has     *)
(* applied all of them up to some piece, each once and in order; it only   *)
(* ever moves forward, and never past what was printed.                    *)
(***************************************************************************)
EXTENDS Integers

CONSTANT Viewers

VARIABLES output,   \* how many pieces the terminal was given
          shown     \* for each viewer, the last piece its screen stands for

viewVars == <<output, shown>>

ViewInit == output \in Nat /\ shown = [v \in Viewers |-> 0]

(* The terminal is given one more piece. *)
Emit == output' = output + 1 /\ UNCHANGED shown

(* A viewer moves forward, by a replay or by a snapshot. *)
Advance(v) ==
  /\ \E n \in shown[v]..output : shown' = [shown EXCEPT ![v] = n]
  /\ UNCHANGED output

ViewNext == Emit \/ \E v \in Viewers : Advance(v)

ViewSpec == ViewInit /\ [][ViewNext]_viewVars
===============================================================================
