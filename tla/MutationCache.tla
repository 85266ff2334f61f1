---------------------------- MODULE MutationCache ----------------------------
(***************************************************************************)
(* The outcomes a Session Host remembers of the commands it has applied    *)
(* (MutationCache in multiplex-session-host/src/host.rs), so that a        *)
(* command a client repeats on a new connection is answered and not        *)
(* applied again.                                                          *)
(*                                                                         *)
(* A cache is the sequence of its entries, oldest first: `order` of the    *)
(* code, with the entry of each id in its place.  record only ever adds an *)
(* id that inspect has just not found, so the order of the ids is the      *)
(* order of recorded_at and prune always drops a prefix.  Prune runs at    *)
(* the start of inspect and of record, which is the only time an entry is  *)
(* looked at; dropping the expired prefix when it expires (Pruned) is the  *)
(* same thing.                                                             *)
(***************************************************************************)
EXTENDS Naturals, Sequences

CONSTANT MaxOutcomes     \* MAX_IDEMPOTENCY_OUTCOMES

ASSUME MaxOutcomesAssumption == MaxOutcomes \in Nat \ {0}

(* An outcome: the command's id, and the hash of the payload it came in,  *)
(* for which the kind of the request and what it asks for stand.          *)
Outcome(id, hash) == [id |-> id, hash |-> hash]

Holds(cache, id) == \E i \in DOMAIN cache : cache[i].id = id

(* Inspect answers apply, replay (the same payload) or conflict.          *)
Inspect(cache, id, hash) ==
  IF ~Holds(cache, id) THEN "apply"
  ELSE IF \E i \in DOMAIN cache : cache[i] = Outcome(id, hash) THEN "replay"
  ELSE "conflict"

(* At MaxOutcomes the oldest entry makes room.                            *)
Recorded(cache, id, hash) ==
  Append(IF Len(cache) >= MaxOutcomes THEN Tail(cache) ELSE cache, Outcome(id, hash))

(* The oldest entry has reached IDEMPOTENCY_TTL.                          *)
Pruned(cache) == Tail(cache)
==============================================================================
