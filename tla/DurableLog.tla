------------------------------ MODULE DurableLog ------------------------------
(***************************************************************************)
(* What a session journal promises to the Session Host that writes it and  *)
(* to the clients that replay it, with no segments, files or caches.       *)
(*                                                                         *)
(* The log is a set of frames with contiguous sequence numbers above a     *)
(* floor.  Everything at or below the floor is represented by a terminal   *)
(* snapshot.  A watermark says how far the writer was told the log is      *)
(* durable; a failure of the machine spares the frames up to the           *)
(* watermark, unless a snapshot takes their place.  Only a failure that    *)
(* also undoes changes of the session directory goes further back: to      *)
(* where the watermark was when that directory was last synced.            *)
(***************************************************************************)
EXTENDS Integers

CONSTANT Frame      \* the frames, records with a field seq

VARIABLES floor,    \* the boundary of the terminal snapshot, 0 when there is none
          log,      \* the frames above the floor
          durable,  \* the last sequence number reported durable
          anchored  \* durable when the session directory was last synced

logVars == <<floor, log, durable, anchored>>

(* The log is contiguous above its floor. *)
Contiguous(frames, low) ==
  /\ \A f, g \in frames : f.seq = g.seq => f = g
  /\ \A f \in frames : \A n \in (low + 1)..f.seq : \E g \in frames : g.seq = n
  /\ \A f \in frames : f.seq > low

(* The last sequence number the log represents. *)
Tail == IF log = {} THEN floor ELSE (CHOOSE f \in log : \A g \in log : g.seq <= f.seq).seq

LogInit == floor = 0 /\ log = {} /\ durable = 0 /\ anchored = 0

(* One more frame at the end. *)
Record ==
  /\ \E f \in Frame : f.seq = Tail + 1 /\ log' = log \cup {f}
  /\ UNCHANGED <<floor, durable, anchored>>

(* The writer learns that all of the log is on stable storage. *)
Publish ==
  /\ durable' = Tail
  /\ UNCHANGED <<floor, log, anchored>>

(* The session directory is synced. *)
Anchor ==
  /\ anchored' = durable
  /\ UNCHANGED <<floor, log, durable>>

(* A snapshot replaces all of the frames; its directory may be synced. *)
Fold ==
  /\ log # {}
  /\ floor' = Tail
  /\ log' = {}
  /\ anchored' \in {anchored, durable}
  /\ UNCHANGED durable

(* The machine fails: a suffix that was never reported durable goes. *)
Lose ==
  /\ \E n \in floor..Tail : n >= durable /\ log' = {f \in log : f.seq <= n}
  /\ UNCHANGED <<floor, durable, anchored>>

(* The machine fails and takes back changes of the directory: snapshots    *)
(* and frames go, frames a lost snapshot had replaced return, but all that *)
(* is anchored stays.                                                      *)
Undo ==
  /\ floor' \in 0..floor
  /\ log' \in SUBSET Frame /\ Contiguous(log', floor')
  /\ anchored <= Tail'
  /\ \A f \in log : f.seq <= anchored => f \in log' \/ f.seq <= floor'
  /\ durable' = anchored
  /\ UNCHANGED anchored

LogNext == Record \/ Publish \/ Anchor \/ Fold \/ Lose \/ Undo

LogSpec == LogInit /\ [][LogNext]_logVars
===============================================================================
