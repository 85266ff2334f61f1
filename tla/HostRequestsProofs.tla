------------------------- MODULE HostRequestsProofs --------------------------
(***************************************************************************)
(* The writer lease excludes, commands take effect once and answers are    *)
(* true, for any finite number of connections, any number of command ids,  *)
(* sizes, nonces and faults, and any size of the caches.                   *)
(***************************************************************************)
EXTENDS HostRequests, FiniteSetTheorems, SequenceTheorems, TLAPS

(* What the caches hold.                                                   *)
Entry   == [id : Ids \cup {None}, hash : Hash]
Entries == Seq(Entry)

(* A queue that has dropped its oldest entry holds the others.             *)
LEMMA OldestDropped ==
  ASSUME NEW S, NEW queue \in Seq(S), queue # <<>>
  PROVE  /\ Tail(queue) \in Seq(S)
         /\ 1 \in DOMAIN queue
         /\ \A i \in DOMAIN Tail(queue) : \E j \in DOMAIN queue : queue[j] = Tail(queue)[i]
         /\ \A j \in DOMAIN queue : j # 1 => \E i \in DOMAIN Tail(queue) : Tail(queue)[i] = queue[j]
PROOF
  <1>1. /\ Tail(queue) \in Seq(S) /\ Len(queue) \in Nat \ {0}
        /\ DOMAIN queue = 1..Len(queue) /\ DOMAIN Tail(queue) = 1..(Len(queue) - 1)
        /\ \A i \in 1..(Len(queue) - 1) : Tail(queue)[i] = queue[i + 1]
    OBVIOUS
  <1>2. \A i \in DOMAIN Tail(queue) : i + 1 \in DOMAIN queue /\ Tail(queue)[i] = queue[i + 1]
    BY <1>1
  <1>3. ASSUME NEW j \in DOMAIN queue, j # 1
        PROVE  j - 1 \in DOMAIN Tail(queue) /\ Tail(queue)[j - 1] = queue[j]
    BY <1>1, <1>3
  <1> QED
    BY <1>1, <1>2, <1>3

(* An entry that is appended is added and nothing else is.                 *)
LEMMA NewestAdded ==
  ASSUME NEW S, NEW queue \in Seq(S), NEW e \in S
  PROVE  /\ Append(queue, e) \in Seq(S)
         /\ \E i \in DOMAIN Append(queue, e) : Append(queue, e)[i] = e
         /\ \A i \in DOMAIN queue : i \in DOMAIN Append(queue, e) /\ Append(queue, e)[i] = queue[i]
         /\ \A i \in DOMAIN Append(queue, e) : i \in DOMAIN queue \/ i = Len(queue) + 1
         /\ Len(queue) + 1 \notin DOMAIN queue
         /\ Append(queue, e)[Len(queue) + 1] = e
PROOF
  <1>1. /\ Append(queue, e) \in Seq(S) /\ Len(queue) \in Nat
        /\ DOMAIN queue = 1..Len(queue) /\ DOMAIN Append(queue, e) = 1..(Len(queue) + 1)
        /\ \A i \in 1..Len(queue) : Append(queue, e)[i] = queue[i]
        /\ Append(queue, e)[Len(queue) + 1] = e
    OBVIOUS
  <1> QED
    BY <1>1

(* Every step keeps the types.                                             *)
LEMMA ConnectionsStep ==
  ConnectionsOK /\ [Next]_vars => ConnectionsOK'
PROOF
  <1> SUFFICES ASSUME ConnectionsOK, [Next]_vars
               PROVE  ConnectionsOK'
      OBVIOUS
  <1>1. CASE UNCHANGED <<pc, nonce, req, reply, told>>
      BY <1>1 DEF ConnectionsOK, Serving, Request
  <1>2. ASSUME NEW c \in Connections, CheckWriter(c) PROVE ConnectionsOK'
      BY <1>2 DEF ConnectionsOK, Serving, Request, connVars, CheckWriter, Goes
  <1>3. ASSUME NEW c \in Connections, ReadLease(c) PROVE ConnectionsOK'
      BY <1>3 DEF ConnectionsOK, Serving, Request, connVars, ReadLease, Goes, ClaimWriter,
         ReleaseWriter
  <1>4. ASSUME NEW c \in Connections, SetScreen(c) PROVE ConnectionsOK'
      BY <1>4 DEF ConnectionsOK, Serving, Request, connVars, SetScreen, Goes
  <1>5. ASSUME NEW c \in Connections, End(c) PROVE ConnectionsOK'
      BY <1>5 DEF ConnectionsOK, Serving, Request, connVars, End, Goes, ReleaseWriter
  <1>6. ASSUME NEW c \in Connections, ApplyMutation(c) PROVE ConnectionsOK'
      BY <1>6 DEF ConnectionsOK, Serving, Request, connVars, ApplyMutation, Goes
  <1>7. ASSUME NEW c \in Connections, RepeatMutation(c) PROVE ConnectionsOK'
      BY <1>7 DEF ConnectionsOK, Serving, Request, connVars, RepeatMutation, Goes
  <1>7a. ASSUME NEW c \in Connections, BeginInput(c) PROVE ConnectionsOK'
      BY <1>7a DEF ConnectionsOK, Serving, Request, connVars, BeginInput, Goes
  <1>7b. ASSUME NEW c \in Connections, FinishInput(c) PROVE ConnectionsOK'
      BY <1>7b DEF ConnectionsOK, Serving, Request, connVars, FinishInput, Goes
  <1>8. ASSUME NEW c \in Connections, Welcome(c) PROVE ConnectionsOK'
      BY <1>8 DEF ConnectionsOK, Serving, Request, connVars, Welcome, Goes
  <1>9. ASSUME NEW c \in Connections, Answer(c) PROVE ConnectionsOK'
      BY <1>9 DEF ConnectionsOK, Serving, Request, connVars, Answer, Goes
  <1>10. ASSUME NEW c \in Connections, Refuse(c) PROVE ConnectionsOK'
      BY <1>10 DEF ConnectionsOK, Serving, Request, connVars, Refuse, Goes
  <1>11. ASSUME NEW c \in Connections, Tell(c) PROVE ConnectionsOK'
      BY <1>11 DEF ConnectionsOK, Serving, Request, connVars, Tell, Goes
  <1>12. ASSUME NEW c \in Connections, Accept(c) PROVE ConnectionsOK'
      BY <1>12 DEF ConnectionsOK, Serving, Request, connVars, Accept, Goes
  <1>13. ASSUME NEW c \in Connections, HangUp(c) PROVE ConnectionsOK'
      BY <1>13 DEF ConnectionsOK, Serving, Request, connVars, HangUp, Goes, OnTheWire
  <1>14. ASSUME NEW c \in Connections, Malformed(c) PROVE ConnectionsOK'
      BY <1>14 DEF ConnectionsOK, Serving, Request, connVars, Malformed, Goes, Fault
  <1>15. ASSUME NEW c \in Connections, MutationFails(c) PROVE ConnectionsOK'
      BY <1>15 DEF ConnectionsOK, Serving, Request, connVars, MutationFails, Goes, Fault
  <1>16. ASSUME NEW c \in Connections, NEW n \in Nonces, NEW claim \in BOOLEAN,
                Handshake(c, n, claim)
         PROVE  ConnectionsOK'
    <2>1. pc' \in [Connections -> Serving \cup {"new", "gone"}]
      BY <1>16 DEF ConnectionsOK, Serving, Handshake, Goes
    <2>2. nonce' \in [Connections -> Nonces \cup {None}]
      BY <1>16 DEF ConnectionsOK, Handshake
    <2> QED
      BY <1>16, <2>1, <2>2 DEF ConnectionsOK, Handshake
  <1>17. ASSUME NEW c \in Connections, NEW r \in Requests, Send(c, r) PROVE ConnectionsOK'
    <2>1. pc' \in [Connections -> Serving \cup {"new", "gone"}]
      BY <1>17 DEF ConnectionsOK, Serving, Send, Goes, Dispatch
    <2> QED
      BY <1>17, <2>1 DEF ConnectionsOK, Send, Requests
  <1>18. \/ UNCHANGED <<pc, nonce, req, reply, told>>
         \/ \E c \in Connections : CheckWriter(c) \/ ReadLease(c) \/ SetScreen(c) \/ End(c)
         \/ \E c \in Connections : ApplyMutation(c) \/ BeginInput(c) \/ FinishInput(c) \/ RepeatMutation(c)
         \/ \E c \in Connections : Welcome(c) \/ Answer(c)
         \/ \E c \in Connections : Refuse(c) \/ Tell(c) \/ Accept(c) \/ HangUp(c)
         \/ \E c \in Connections : Malformed(c) \/ MutationFails(c)
         \/ \E c \in Connections, n \in Nonces, claim \in BOOLEAN : Handshake(c, n, claim)
         \/ \E c \in Connections, r \in Requests : Send(c, r)
      BY DEF Next, Handler, Mutate, Written, Client, Exhausted, vars, connVars, Expire
  <1> QED
      BY <1>1, <1>2, <1>3, <1>4, <1>5, <1>6, <1>7, <1>7a, <1>7b, <1>8, <1>9, <1>10, <1>11, <1>12, <1>13,
         <1>14, <1>15, <1>16, <1>17, <1>18

(* Recording an outcome in a full cache drops the oldest, and only that.    *)
LEMMA OutcomeRecorded ==
  ASSUME NEW cache \in Entries, NEW id \in Ids \cup {None}, NEW hash \in Hash
  PROVE  /\ Recorded(cache, id, hash) \in Entries
         /\ \E i \in DOMAIN Recorded(cache, id, hash) : Recorded(cache, id, hash)[i] = Outcome(id, hash)
         /\ \A i \in DOMAIN Recorded(cache, id, hash) :
              \/ Recorded(cache, id, hash)[i] = Outcome(id, hash)
              \/ \E j \in DOMAIN cache : cache[j] = Recorded(cache, id, hash)[i]
         /\ \A j \in DOMAIN cache :
              \/ \E i \in DOMAIN Recorded(cache, id, hash) : Recorded(cache, id, hash)[i] = cache[j]
              \/ Len(cache) >= MaxOutcomes /\ j = 1
PROOF
  <1> DEFINE entry == Outcome(id, hash)
             kept  == IF Len(cache) >= MaxOutcomes THEN Tail(cache) ELSE cache
  <1>1. entry \in Entry
    BY DEF Outcome, Entry
  <1>2. Len(cache) >= MaxOutcomes => cache # <<>>
    BY MaxOutcomesAssumption DEF Entries
  <1>3. /\ kept \in Entries
        /\ \A i \in DOMAIN kept : \E j \in DOMAIN cache : cache[j] = kept[i]
        /\ \A j \in DOMAIN cache :
             \/ \E i \in DOMAIN kept : kept[i] = cache[j]
             \/ Len(cache) >= MaxOutcomes /\ j = 1
    <2>1. CASE Len(cache) >= MaxOutcomes
      BY <2>1, <1>2, OldestDropped DEF Entries
    <2>2. CASE ~(Len(cache) >= MaxOutcomes)
      BY <2>2
    <2> QED
      BY <2>1, <2>2
  <1>4. Recorded(cache, id, hash) = Append(kept, entry)
    BY DEF Recorded
  <1> HIDE DEF kept, entry
  <1>5. /\ Append(kept, entry) \in Entries
        /\ \E i \in DOMAIN Append(kept, entry) : Append(kept, entry)[i] = entry
        /\ \A i \in DOMAIN kept : i \in DOMAIN Append(kept, entry) /\ Append(kept, entry)[i] = kept[i]
        /\ \A i \in DOMAIN Append(kept, entry) :
             Append(kept, entry)[i] = entry \/ (i \in DOMAIN kept /\ Append(kept, entry)[i] = kept[i])
    <2>1. kept \in Seq(Entry)
      BY <1>3 DEF Entries
    <2> QED
      BY <1>1, <2>1, NewestAdded DEF Entries
  <1>6. \A i \in DOMAIN Append(kept, entry) :
          Append(kept, entry)[i] = entry \/ \E j \in DOMAIN cache : cache[j] = Append(kept, entry)[i]
    BY <1>3, <1>5
  <1>7. \A j \in DOMAIN cache :
          \/ \E i \in DOMAIN Append(kept, entry) : Append(kept, entry)[i] = cache[j]
          \/ Len(cache) >= MaxOutcomes /\ j = 1
    BY <1>3, <1>5
  <1> QED
    BY <1>4, <1>5, <1>6, <1>7 DEF entry

(* A nonce that is remembered makes room for itself in the same way.        *)
LEMMA NonceRemembered ==
  ASSUME nonces \in Seq(Nonces), NEW n \in Nonces
  PROVE  /\ Remembered(n) \in Seq(Nonces)
         /\ \E i \in DOMAIN Remembered(n) : Remembered(n)[i] = n
         /\ \A j \in DOMAIN nonces :
              \/ \E i \in DOMAIN Remembered(n) : Remembered(n)[i] = nonces[j]
              \/ Len(nonces) >= MaxOutcomes /\ j = 1
PROOF
  <1> DEFINE kept == IF Len(nonces) >= MaxOutcomes THEN Tail(nonces) ELSE nonces
  <1>1. Len(nonces) >= MaxOutcomes => nonces # <<>>
    BY MaxOutcomesAssumption
  <1>2. /\ kept \in Seq(Nonces)
        /\ \A j \in DOMAIN nonces :
             \/ \E i \in DOMAIN kept : kept[i] = nonces[j]
             \/ Len(nonces) >= MaxOutcomes /\ j = 1
    <2>1. CASE Len(nonces) >= MaxOutcomes
      BY <2>1, <1>1, OldestDropped
    <2>2. CASE ~(Len(nonces) >= MaxOutcomes)
      BY <2>2
    <2> QED
      BY <2>1, <2>2
  <1>3. Remembered(n) = Append(kept, n)
    BY DEF Remembered
  <1> HIDE DEF kept
  <1>4. /\ Append(kept, n) \in Seq(Nonces)
        /\ \E i \in DOMAIN Append(kept, n) : Append(kept, n)[i] = n
        /\ \A i \in DOMAIN kept : i \in DOMAIN Append(kept, n) /\ Append(kept, n)[i] = kept[i]
    BY <1>2, NewestAdded
  <1>5. \A j \in DOMAIN nonces :
          \/ \E i \in DOMAIN Append(kept, n) : Append(kept, n)[i] = nonces[j]
          \/ Len(nonces) >= MaxOutcomes /\ j = 1
    BY <1>2, <1>4
  <1> QED
    BY <1>3, <1>4, <1>5

(* The caches keep their types.                                            *)
LEMMA CachesStep ==
  ConnectionsOK /\ CachesOK /\ [Next]_vars => CachesOK'
PROOF
  <1> SUFFICES ASSUME ConnectionsOK /\ CachesOK, [Next]_vars
               PROVE  CachesOK'
      OBVIOUS
  <1>1. CASE UNCHANGED <<lock, outcomes, effects, nonces>>
      BY <1>1 DEF CachesOK
  <1>2. CASE Expire
    <2>1. outcomes' \in Seq([id : Ids \cup {None}, hash : Hash])
      <3>1. outcomes # <<>> => Tail(outcomes) \in Seq([id : Ids \cup {None}, hash : Hash])
        BY DEF CachesOK
      <3> QED
        BY <1>2, <3>1 DEF CachesOK, Expire, Pruned
    <2>2. nonces' \in Seq(Nonces)
      <3>1. nonces # <<>> => Tail(nonces) \in Seq(Nonces)
        BY DEF CachesOK
      <3> QED
        BY <1>2, <3>1 DEF CachesOK, Expire
    <2> QED
      BY <1>2, <2>1, <2>2 DEF CachesOK, Expire
  <1>3. ASSUME NEW c \in Connections, ApplyMutation(c) \/ FinishInput(c) PROVE CachesOK'
    <2>1. req[c].id \in Ids \cup {None} /\ HashOf(req[c]) \in Hash
      BY DEF ConnectionsOK, Request, HashOf, Hash
    <2>2. outcomes' \in Entries
      <3>1. outcomes' = Recorded(outcomes, req[c].id, HashOf(req[c]))
        BY <1>3 DEF ApplyMutation, FinishInput, Remember
      <3>2. outcomes \in Entries
        BY DEF CachesOK, Entries, Entry
      <3>3. Recorded(outcomes, req[c].id, HashOf(req[c])) \in Entries
        BY <2>1, <3>2, OutcomeRecorded
      <3> QED
        BY <3>1, <3>3
    <2>3. effects' \in Entries
      <3>1. Outcome(req[c].id, HashOf(req[c])) \in Entry /\ effects \in Seq(Entry)
        BY <2>1 DEF CachesOK, Outcome, Entry
      <3> QED
        BY <1>3, <3>1, NewestAdded DEF ApplyMutation, FinishInput, Entries
    <2> QED
      BY <1>3, <2>2, <2>3 DEF CachesOK, ApplyMutation, FinishInput, Remember, Entries, Entry
  <1>4. ASSUME NEW c \in Connections, RepeatMutation(c) PROVE CachesOK'
      BY <1>4 DEF CachesOK, cacheVars, RepeatMutation, Goes
  <1>4a. ASSUME NEW c \in Connections, BeginInput(c) PROVE CachesOK'
      BY <1>4a DEF CachesOK, cacheVars, BeginInput, Goes
  <1>4b. ASSUME NEW c \in Connections, MutationFails(c) PROVE CachesOK'
      BY <1>4b DEF CachesOK, cacheVars, MutationFails, Goes
  <1>5. ASSUME NEW c \in Connections, Answer(c) PROVE CachesOK'
      BY <1>5 DEF CachesOK, cacheVars, Answer, Goes
  <1>6. ASSUME NEW c \in Connections, Refuse(c) PROVE CachesOK'
      BY <1>6 DEF CachesOK, cacheVars, Refuse, Goes
  <1>7. ASSUME NEW c \in Connections, HangUp(c) PROVE CachesOK'
      BY <1>7 DEF CachesOK, cacheVars, HangUp, Goes, OnTheWire
  <1>8. ASSUME NEW c \in Connections, NEW n \in Nonces, NEW claim \in BOOLEAN,
                Handshake(c, n, claim)
         PROVE  CachesOK'
    <2>1. nonces' \in Seq(Nonces)
      BY <1>8, NonceRemembered DEF CachesOK, Handshake
    <2> QED
      BY <1>8, <2>1 DEF CachesOK, Handshake, cacheVars
  <1>9. \/ UNCHANGED <<lock, outcomes, effects, nonces>>
        \/ Expire
        \/ \E c \in Connections : ApplyMutation(c) \/ FinishInput(c) \/ RepeatMutation(c)
        \/ \E c \in Connections : BeginInput(c) \/ MutationFails(c) \/ Answer(c) \/ Refuse(c)
        \/ \E c \in Connections : HangUp(c)
        \/ \E c \in Connections, n \in Nonces, claim \in BOOLEAN : Handshake(c, n, claim)
      BY DEF Next, Handler, Mutate, Written, Client, Exhausted, vars, cacheVars, CheckWriter,
         ReadLease, SetScreen, End, Welcome, Tell, Accept, Malformed, Send
  <1> QED
      BY <1>1, <1>2, <1>3, <1>4, <1>4a, <1>4b, <1>5, <1>6, <1>7, <1>8, <1>9

(* The two halves of EndedReturnsAll.                                       *)
LeaseServed    == lease # None => pc[lease] \in Serving
Live           == {c \in Connections : pc[c] \in Serving}
PermitsCounted == permits + Cardinality(Live) = MaxConnections

(* A connection that is accepted or ends changes the number of the living   *)
(* by one, and any other step leaves it.                                    *)
LEMMA LiveCounted ==
  /\ Cardinality(Live) \in Nat
  /\ \A c \in Connections : c \notin Live => Cardinality(Live \cup {c}) = Cardinality(Live) + 1
  /\ \A c \in Connections :
       c \in Live => Cardinality(Live \ {c}) \in Nat /\ Cardinality(Live \ {c}) = Cardinality(Live) - 1
PROOF
  <1>1. IsFiniteSet(Live)
    BY RequestsAssumption, FS_Subset DEF Live
  <1>2. ASSUME NEW c \in Connections, c \in Live
        PROVE  IsFiniteSet(Live \ {c}) /\ Cardinality(Live \ {c}) = Cardinality(Live) - 1
    BY <1>1, <1>2, FS_RemoveElement
  <1>3. ASSUME NEW c \in Connections, c \notin Live
        PROVE  Cardinality(Live \cup {c}) = Cardinality(Live) + 1
    BY <1>1, <1>3, FS_AddElement
  <1> QED
    BY <1>1, <1>2, <1>3, FS_CardinalityType

(* Only accept_loop and the end of a handler change who is alive.            *)
LEMMA LiveStep ==
  ConnectionsOK /\ [Next]_vars => (Live' = Live \/ (\E d \in Connections : Accept(d) \/ End(d)))
PROOF
  <1> SUFFICES ASSUME ConnectionsOK, [Next]_vars
               PROVE  (Live' = Live \/ (\E d \in Connections : Accept(d) \/ End(d)))
      OBVIOUS
  <1>1. CASE UNCHANGED <<pc>>
      BY <1>1 DEF ConnectionsOK, Live, Serving
  <1>2. ASSUME NEW c \in Connections, CheckWriter(c) PROVE (Live' = Live \/ (\E d \in Connections : Accept(d) \/ End(d)))
      BY <1>2 DEF ConnectionsOK, Live, Serving, connVars, CheckWriter, Goes
  <1>3. ASSUME NEW c \in Connections, ReadLease(c) PROVE (Live' = Live \/ (\E d \in Connections : Accept(d) \/ End(d)))
      BY <1>3 DEF ConnectionsOK, Live, Serving, connVars, ReadLease, Goes, ClaimWriter,
         ReleaseWriter
  <1>4. ASSUME NEW c \in Connections, SetScreen(c) PROVE (Live' = Live \/ (\E d \in Connections : Accept(d) \/ End(d)))
      BY <1>4 DEF ConnectionsOK, Live, Serving, connVars, SetScreen, Goes
  <1>5. ASSUME NEW c \in Connections, End(c) PROVE (Live' = Live \/ (\E d \in Connections : Accept(d) \/ End(d)))
      BY <1>5 DEF ConnectionsOK, Live, Serving, connVars, End, Goes, ReleaseWriter
  <1>6. ASSUME NEW c \in Connections, ApplyMutation(c) PROVE (Live' = Live \/ (\E d \in Connections : Accept(d) \/ End(d)))
      BY <1>6 DEF ConnectionsOK, Live, Serving, connVars, ApplyMutation, Goes
  <1>7. ASSUME NEW c \in Connections, RepeatMutation(c) PROVE (Live' = Live \/ (\E d \in Connections : Accept(d) \/ End(d)))
      BY <1>7 DEF ConnectionsOK, Live, Serving, connVars, RepeatMutation, Goes
  <1>7a. ASSUME NEW c \in Connections, BeginInput(c) PROVE (Live' = Live \/ (\E d \in Connections : Accept(d) \/ End(d)))
      BY <1>7a DEF ConnectionsOK, Live, Serving, connVars, BeginInput, Goes
  <1>7b. ASSUME NEW c \in Connections, FinishInput(c) PROVE (Live' = Live \/ (\E d \in Connections : Accept(d) \/ End(d)))
      BY <1>7b DEF ConnectionsOK, Live, Serving, connVars, FinishInput, Goes
  <1>8. ASSUME NEW c \in Connections, Welcome(c) PROVE (Live' = Live \/ (\E d \in Connections : Accept(d) \/ End(d)))
      BY <1>8 DEF ConnectionsOK, Live, Serving, connVars, Welcome, Goes
  <1>9. ASSUME NEW c \in Connections, Answer(c) PROVE (Live' = Live \/ (\E d \in Connections : Accept(d) \/ End(d)))
      BY <1>9 DEF ConnectionsOK, Live, Serving, connVars, Answer, Goes
  <1>10. ASSUME NEW c \in Connections, Refuse(c) PROVE (Live' = Live \/ (\E d \in Connections : Accept(d) \/ End(d)))
      BY <1>10 DEF ConnectionsOK, Live, Serving, connVars, Refuse, Goes
  <1>11. ASSUME NEW c \in Connections, Tell(c) PROVE (Live' = Live \/ (\E d \in Connections : Accept(d) \/ End(d)))
      BY <1>11 DEF ConnectionsOK, Live, Serving, connVars, Tell, Goes
  <1>12. ASSUME NEW c \in Connections, Accept(c) PROVE (Live' = Live \/ (\E d \in Connections : Accept(d) \/ End(d)))
      BY <1>12 DEF ConnectionsOK, Live, Serving, connVars, Accept, Goes
  <1>13. ASSUME NEW c \in Connections, HangUp(c) PROVE (Live' = Live \/ (\E d \in Connections : Accept(d) \/ End(d)))
      BY <1>13 DEF ConnectionsOK, Live, Serving, connVars, HangUp, Goes, OnTheWire
  <1>14. ASSUME NEW c \in Connections, Malformed(c) PROVE (Live' = Live \/ (\E d \in Connections : Accept(d) \/ End(d)))
      BY <1>14 DEF ConnectionsOK, Live, Serving, connVars, Malformed, Goes, Fault
  <1>15. ASSUME NEW c \in Connections, MutationFails(c) PROVE (Live' = Live \/ (\E d \in Connections : Accept(d) \/ End(d)))
      BY <1>15 DEF ConnectionsOK, Live, Serving, connVars, MutationFails, Goes, Fault
  <1>16. ASSUME NEW c \in Connections, NEW n \in Nonces, NEW claim \in BOOLEAN,
                Handshake(c, n, claim)
         PROVE  (Live' = Live \/ (\E d \in Connections : Accept(d) \/ End(d)))
      BY <1>16 DEF ConnectionsOK, Live, Serving, connVars, Handshake, Goes, ClaimWriter
  <1>17. ASSUME NEW c \in Connections, NEW r \in Requests, Send(c, r) PROVE (Live' = Live \/ (\E d \in Connections : Accept(d) \/ End(d)))
      BY <1>17 DEF ConnectionsOK, Live, Serving, connVars, Send, Goes, Dispatch
  <1>18. \/ UNCHANGED <<pc>>
         \/ \E c \in Connections : CheckWriter(c) \/ ReadLease(c) \/ SetScreen(c) \/ End(c)
         \/ \E c \in Connections : ApplyMutation(c) \/ BeginInput(c) \/ FinishInput(c) \/ RepeatMutation(c)
         \/ \E c \in Connections : Welcome(c) \/ Answer(c)
         \/ \E c \in Connections : Refuse(c) \/ Tell(c) \/ Accept(c) \/ HangUp(c)
         \/ \E c \in Connections : Malformed(c) \/ MutationFails(c)
         \/ \E c \in Connections, n \in Nonces, claim \in BOOLEAN : Handshake(c, n, claim)
         \/ \E c \in Connections, r \in Requests : Send(c, r)
      BY DEF Next, Handler, Mutate, Written, Client, Exhausted, vars, connVars, Expire
  <1> QED
      BY <1>1, <1>2, <1>3, <1>4, <1>5, <1>6, <1>7, <1>7a, <1>7b, <1>8, <1>9, <1>10, <1>11, <1>12, <1>13,
         <1>14, <1>15, <1>16, <1>17, <1>18

(* Every permit is free or with a connection that is being served.          *)
LEMMA PermitsStep ==
  ConnectionsOK /\ permits \in 0..MaxConnections /\ PermitsCounted /\ [Next]_vars
    => permits' \in 0..MaxConnections /\ PermitsCounted'
PROOF
  <1> SUFFICES ASSUME ConnectionsOK, permits \in 0..MaxConnections, PermitsCounted, [Next]_vars
               PROVE  permits' \in 0..MaxConnections /\ PermitsCounted'
      OBVIOUS
  <1>1. ASSUME NEW c \in Connections, Accept(c)
        PROVE  permits' \in 0..MaxConnections /\ PermitsCounted'
    <2>1. CASE permits > 0
      <3>1. Live' = Live \cup {c} /\ c \notin Live /\ permits' = permits - 1
        BY <1>1, <2>1 DEF Accept, Goes, Live, Serving, ConnectionsOK
      <3> QED
        BY <3>1, <2>1, LiveCounted, RequestsAssumption DEF PermitsCounted
    <2>2. CASE permits = 0
      <3>1. Live' = Live /\ permits' = permits
        BY <1>1, <2>2 DEF Accept, Goes, Live, Serving, ConnectionsOK
      <3> QED
        BY <3>1 DEF PermitsCounted
    <2> QED
      BY <2>1, <2>2, RequestsAssumption
  <1>2. ASSUME NEW c \in Connections, End(c)
        PROVE  permits' \in 0..MaxConnections /\ PermitsCounted'
    <2>1. Live' = Live \ {c} /\ c \in Live /\ permits' = permits + 1
      BY <1>2 DEF End, Goes, Live, Serving, ConnectionsOK
    <2> QED
      BY <2>1, LiveCounted, RequestsAssumption DEF PermitsCounted
  <1>3. \/ UNCHANGED permits
        \/ \E c \in Connections : Accept(c) \/ End(c)
      BY DEF Next, Handler, Mutate, Written, Client, Exhausted, vars, leaseVars, Expire,
         CheckWriter, ReadLease, SetScreen, ApplyMutation, BeginInput, FinishInput, RepeatMutation, Welcome, Answer,
         Refuse, Tell, HangUp, Malformed, MutationFails, Handshake, Send
  <1> QED
    BY <1>1, <1>2, <1>3, LiveStep DEF PermitsCounted

(* The lease passes only from a holder that gives it up or is gone.          *)
LEMMA LeaseStep ==
  ConnectionsOK /\ lease \in Connections \cup {None} /\ LeaseServed /\ ToldHolds /\ [Next]_vars => (lease \in Connections \cup {None} /\ LeaseServed /\ ToldHolds)'
PROOF
  <1> SUFFICES ASSUME ConnectionsOK /\ lease \in Connections \cup {None} /\ LeaseServed /\ ToldHolds, [Next]_vars
               PROVE  (lease \in Connections \cup {None} /\ LeaseServed /\ ToldHolds)'
      OBVIOUS
  <1>1. CASE UNCHANGED <<pc, told, lease>>
      BY <1>1 DEF ConnectionsOK, ToldHolds, LeaseServed, Serving
  <1>2. ASSUME NEW c \in Connections, CheckWriter(c) PROVE (lease \in Connections \cup {None} /\ LeaseServed /\ ToldHolds)'
      BY <1>2, RequestsAssumption DEF ConnectionsOK, ToldHolds, LeaseServed, Serving, connVars,
         leaseVars, CheckWriter, Goes
  <1>3. ASSUME NEW c \in Connections, ReadLease(c) PROVE (lease \in Connections \cup {None} /\ LeaseServed /\ ToldHolds)'
      BY <1>3, RequestsAssumption DEF ConnectionsOK, ToldHolds, LeaseServed, Serving, connVars,
         leaseVars, ReadLease, Goes, ClaimWriter, ReleaseWriter
  <1>4. ASSUME NEW c \in Connections, SetScreen(c) PROVE (lease \in Connections \cup {None} /\ LeaseServed /\ ToldHolds)'
      BY <1>4, RequestsAssumption DEF ConnectionsOK, ToldHolds, LeaseServed, Serving, connVars,
         leaseVars, SetScreen, Goes
  <1>5. ASSUME NEW c \in Connections, End(c) PROVE (lease \in Connections \cup {None} /\ LeaseServed /\ ToldHolds)'
      BY <1>5, RequestsAssumption DEF ConnectionsOK, ToldHolds, LeaseServed, Serving, connVars,
         leaseVars, End, Goes, ReleaseWriter
  <1>6. ASSUME NEW c \in Connections, ApplyMutation(c) PROVE (lease \in Connections \cup {None} /\ LeaseServed /\ ToldHolds)'
      BY <1>6, RequestsAssumption DEF ConnectionsOK, ToldHolds, LeaseServed, Serving, connVars,
         leaseVars, ApplyMutation, Goes
  <1>7. ASSUME NEW c \in Connections, RepeatMutation(c) PROVE (lease \in Connections \cup {None} /\ LeaseServed /\ ToldHolds)'
      BY <1>7, RequestsAssumption DEF ConnectionsOK, ToldHolds, LeaseServed, Serving, connVars,
         leaseVars, RepeatMutation, Goes
  <1>7a. ASSUME NEW c \in Connections, BeginInput(c) PROVE (lease \in Connections \cup {None} /\ LeaseServed /\ ToldHolds)'
      BY <1>7a, RequestsAssumption DEF ConnectionsOK, ToldHolds, LeaseServed, Serving, connVars,
         leaseVars, BeginInput, Goes
  <1>7b. ASSUME NEW c \in Connections, FinishInput(c) PROVE (lease \in Connections \cup {None} /\ LeaseServed /\ ToldHolds)'
      BY <1>7b, RequestsAssumption DEF ConnectionsOK, ToldHolds, LeaseServed, Serving, connVars,
         leaseVars, FinishInput, Goes
  <1>8. ASSUME NEW c \in Connections, Welcome(c) PROVE (lease \in Connections \cup {None} /\ LeaseServed /\ ToldHolds)'
      BY <1>8, RequestsAssumption DEF ConnectionsOK, ToldHolds, LeaseServed, Serving, connVars,
         leaseVars, Welcome, Goes
  <1>9. ASSUME NEW c \in Connections, Answer(c) PROVE (lease \in Connections \cup {None} /\ LeaseServed /\ ToldHolds)'
      BY <1>9, RequestsAssumption DEF ConnectionsOK, ToldHolds, LeaseServed, Serving, connVars,
         leaseVars, Answer, Goes
  <1>10. ASSUME NEW c \in Connections, Refuse(c) PROVE (lease \in Connections \cup {None} /\ LeaseServed /\ ToldHolds)'
      BY <1>10, RequestsAssumption DEF ConnectionsOK, ToldHolds, LeaseServed, Serving, connVars,
         leaseVars, Refuse, Goes
  <1>11. ASSUME NEW c \in Connections, Tell(c) PROVE (lease \in Connections \cup {None} /\ LeaseServed /\ ToldHolds)'
      BY <1>11, RequestsAssumption DEF ConnectionsOK, ToldHolds, LeaseServed, Serving, connVars,
         leaseVars, Tell, Goes
  <1>12. ASSUME NEW c \in Connections, Accept(c) PROVE (lease \in Connections \cup {None} /\ LeaseServed /\ ToldHolds)'
      BY <1>12, RequestsAssumption DEF ConnectionsOK, ToldHolds, LeaseServed, Serving, connVars,
         leaseVars, Accept, Goes
  <1>13. ASSUME NEW c \in Connections, HangUp(c) PROVE (lease \in Connections \cup {None} /\ LeaseServed /\ ToldHolds)'
      BY <1>13, RequestsAssumption DEF ConnectionsOK, ToldHolds, LeaseServed, Serving, connVars,
         leaseVars, HangUp, Goes, OnTheWire
  <1>14. ASSUME NEW c \in Connections, Malformed(c) PROVE (lease \in Connections \cup {None} /\ LeaseServed /\ ToldHolds)'
      BY <1>14, RequestsAssumption DEF ConnectionsOK, ToldHolds, LeaseServed, Serving, connVars,
         leaseVars, Malformed, Goes, Fault
  <1>15. ASSUME NEW c \in Connections, MutationFails(c) PROVE (lease \in Connections \cup {None} /\ LeaseServed /\ ToldHolds)'
      BY <1>15, RequestsAssumption DEF ConnectionsOK, ToldHolds, LeaseServed, Serving, connVars,
         leaseVars, MutationFails, Goes, Fault
  <1>16. ASSUME NEW c \in Connections, NEW n \in Nonces, NEW claim \in BOOLEAN,
                Handshake(c, n, claim)
         PROVE  (lease \in Connections \cup {None} /\ LeaseServed /\ ToldHolds)'
      BY <1>16, RequestsAssumption DEF ConnectionsOK, ToldHolds, LeaseServed, Serving, connVars,
         leaseVars, Handshake, Goes, ClaimWriter
  <1>17. ASSUME NEW c \in Connections, NEW r \in Requests, Send(c, r) PROVE (lease \in Connections \cup {None} /\ LeaseServed /\ ToldHolds)'
      BY <1>17, RequestsAssumption DEF ConnectionsOK, ToldHolds, LeaseServed, Serving, connVars,
         leaseVars, Send, Goes, Dispatch
  <1>18. \/ UNCHANGED <<pc, told, lease>>
         \/ \E c \in Connections : CheckWriter(c) \/ ReadLease(c) \/ SetScreen(c) \/ End(c)
         \/ \E c \in Connections : ApplyMutation(c) \/ BeginInput(c) \/ FinishInput(c) \/ RepeatMutation(c)
         \/ \E c \in Connections : Welcome(c) \/ Answer(c)
         \/ \E c \in Connections : Refuse(c) \/ Tell(c) \/ Accept(c) \/ HangUp(c)
         \/ \E c \in Connections : Malformed(c) \/ MutationFails(c)
         \/ \E c \in Connections, n \in Nonces, claim \in BOOLEAN : Handshake(c, n, claim)
         \/ \E c \in Connections, r \in Requests : Send(c, r)
      BY DEF Next, Handler, Mutate, Written, Client, Exhausted, vars, connVars, leaseVars,
         Expire
  <1> QED
      BY <1>1, <1>2, <1>3, <1>4, <1>5, <1>6, <1>7, <1>7a, <1>7b, <1>8, <1>9, <1>10, <1>11, <1>12, <1>13,
         <1>14, <1>15, <1>16, <1>17, <1>18

(* An input keeps the lease it was checked for.                              *)
LEMMA WriterStep ==
  ConnectionsOK /\ lease \in Connections \cup {None} /\ WriterTypes /\ [Next]_vars => WriterTypes'
PROOF
  <1> SUFFICES ASSUME ConnectionsOK /\ lease \in Connections \cup {None} /\ WriterTypes, [Next]_vars
               PROVE  WriterTypes'
      OBVIOUS
  <1>1. CASE UNCHANGED <<pc, req, lease>>
      BY <1>1 DEF ConnectionsOK, WriterTypes
  <1>2. ASSUME NEW c \in Connections, CheckWriter(c) PROVE WriterTypes'
      BY <1>2, RequestsAssumption DEF ConnectionsOK, WriterTypes, connVars, leaseVars,
         CheckWriter, Goes
  <1>3. ASSUME NEW c \in Connections, ReadLease(c) PROVE WriterTypes'
      BY <1>3, RequestsAssumption DEF ConnectionsOK, WriterTypes, connVars, leaseVars,
         ReadLease, Goes, ClaimWriter, ReleaseWriter
  <1>4. ASSUME NEW c \in Connections, SetScreen(c) PROVE WriterTypes'
      BY <1>4, RequestsAssumption DEF ConnectionsOK, WriterTypes, connVars, leaseVars,
         SetScreen, Goes
  <1>5. ASSUME NEW c \in Connections, End(c) PROVE WriterTypes'
      BY <1>5, RequestsAssumption DEF ConnectionsOK, WriterTypes, connVars, leaseVars, End,
         Goes, ReleaseWriter
  <1>6. ASSUME NEW c \in Connections, ApplyMutation(c) PROVE WriterTypes'
      BY <1>6, RequestsAssumption DEF ConnectionsOK, WriterTypes, connVars, leaseVars,
         ApplyMutation, Goes
  <1>7. ASSUME NEW c \in Connections, RepeatMutation(c) PROVE WriterTypes'
      BY <1>7, RequestsAssumption DEF ConnectionsOK, WriterTypes, connVars, leaseVars,
         RepeatMutation, Goes
  <1>7a. ASSUME NEW c \in Connections, BeginInput(c) PROVE WriterTypes'
      BY <1>7a, RequestsAssumption DEF ConnectionsOK, WriterTypes, connVars, leaseVars,
         BeginInput, Goes
  <1>7b. ASSUME NEW c \in Connections, FinishInput(c) PROVE WriterTypes'
      BY <1>7b, RequestsAssumption DEF ConnectionsOK, WriterTypes, connVars, leaseVars,
         FinishInput, Goes
  <1>8. ASSUME NEW c \in Connections, Welcome(c) PROVE WriterTypes'
      BY <1>8, RequestsAssumption DEF ConnectionsOK, WriterTypes, connVars, leaseVars, Welcome,
         Goes
  <1>9. ASSUME NEW c \in Connections, Answer(c) PROVE WriterTypes'
      BY <1>9, RequestsAssumption DEF ConnectionsOK, WriterTypes, connVars, leaseVars, Answer,
         Goes
  <1>10. ASSUME NEW c \in Connections, Refuse(c) PROVE WriterTypes'
      BY <1>10, RequestsAssumption DEF ConnectionsOK, WriterTypes, connVars, leaseVars, Refuse,
         Goes
  <1>11. ASSUME NEW c \in Connections, Tell(c) PROVE WriterTypes'
      BY <1>11, RequestsAssumption DEF ConnectionsOK, WriterTypes, connVars, leaseVars, Tell,
         Goes
  <1>12. ASSUME NEW c \in Connections, Accept(c) PROVE WriterTypes'
      BY <1>12, RequestsAssumption DEF ConnectionsOK, WriterTypes, connVars, leaseVars, Accept,
         Goes
  <1>13. ASSUME NEW c \in Connections, HangUp(c) PROVE WriterTypes'
      BY <1>13, RequestsAssumption DEF ConnectionsOK, WriterTypes, connVars, leaseVars, HangUp,
         Goes, OnTheWire
  <1>14. ASSUME NEW c \in Connections, Malformed(c) PROVE WriterTypes'
      BY <1>14, RequestsAssumption DEF ConnectionsOK, WriterTypes, connVars, leaseVars,
         Malformed, Goes, Fault
  <1>15. ASSUME NEW c \in Connections, MutationFails(c) PROVE WriterTypes'
      BY <1>15, RequestsAssumption DEF ConnectionsOK, WriterTypes, connVars, leaseVars,
         MutationFails, Goes, Fault
  <1>16. ASSUME NEW c \in Connections, NEW n \in Nonces, NEW claim \in BOOLEAN,
                Handshake(c, n, claim)
         PROVE  WriterTypes'
      BY <1>16, RequestsAssumption DEF ConnectionsOK, WriterTypes, connVars, leaseVars,
         Handshake, Goes, ClaimWriter
  <1>17. ASSUME NEW c \in Connections, NEW r \in Requests, Send(c, r) PROVE WriterTypes'
      BY <1>17, RequestsAssumption DEF ConnectionsOK, WriterTypes, connVars, leaseVars, Send,
         Goes, Dispatch
  <1>18. \/ UNCHANGED <<pc, req, lease>>
         \/ \E c \in Connections : CheckWriter(c) \/ ReadLease(c) \/ SetScreen(c) \/ End(c)
         \/ \E c \in Connections : ApplyMutation(c) \/ BeginInput(c) \/ FinishInput(c) \/ RepeatMutation(c)
         \/ \E c \in Connections : Welcome(c) \/ Answer(c)
         \/ \E c \in Connections : Refuse(c) \/ Tell(c) \/ Accept(c) \/ HangUp(c)
         \/ \E c \in Connections : Malformed(c) \/ MutationFails(c)
         \/ \E c \in Connections, n \in Nonces, claim \in BOOLEAN : Handshake(c, n, claim)
         \/ \E c \in Connections, r \in Requests : Send(c, r)
      BY DEF Next, Handler, Mutate, Written, Client, Exhausted, vars, connVars, leaseVars,
         Expire
  <1> QED
      BY <1>1, <1>2, <1>3, <1>4, <1>5, <1>6, <1>7, <1>7a, <1>7b, <1>8, <1>9, <1>10, <1>11, <1>12, <1>13,
         <1>14, <1>15, <1>16, <1>17, <1>18

(* Each handler carries a request of its kind.                               *)
LEMMA DispatchedStep ==
  ConnectionsOK /\ Dispatched /\ [Next]_vars => Dispatched'
PROOF
  <1> SUFFICES ASSUME ConnectionsOK /\ Dispatched, [Next]_vars
               PROVE  Dispatched'
      OBVIOUS
  <1>1. CASE UNCHANGED <<pc, req>>
      BY <1>1 DEF ConnectionsOK, Dispatched, AtMutex, Mutations, Kinds
  <1>2. ASSUME NEW c \in Connections, CheckWriter(c) PROVE Dispatched'
      BY <1>2, RequestsAssumption DEF ConnectionsOK, Dispatched, AtMutex, Mutations, Kinds, connVars,
         CheckWriter, Goes
  <1>3. ASSUME NEW c \in Connections, ReadLease(c) PROVE Dispatched'
      BY <1>3, RequestsAssumption DEF ConnectionsOK, Dispatched, AtMutex, Mutations, Kinds, connVars,
         ReadLease, Goes, ClaimWriter, ReleaseWriter
  <1>4. ASSUME NEW c \in Connections, SetScreen(c) PROVE Dispatched'
      BY <1>4, RequestsAssumption DEF ConnectionsOK, Dispatched, AtMutex, Mutations, Kinds, connVars,
         SetScreen, Goes
  <1>5. ASSUME NEW c \in Connections, End(c) PROVE Dispatched'
      BY <1>5, RequestsAssumption DEF ConnectionsOK, Dispatched, AtMutex, Mutations, Kinds, connVars,
         End, Goes, ReleaseWriter
  <1>6. ASSUME NEW c \in Connections, ApplyMutation(c) PROVE Dispatched'
      BY <1>6, RequestsAssumption DEF ConnectionsOK, Dispatched, AtMutex, Mutations, Kinds, connVars,
         ApplyMutation, Goes
  <1>7. ASSUME NEW c \in Connections, RepeatMutation(c) PROVE Dispatched'
      BY <1>7, RequestsAssumption DEF ConnectionsOK, Dispatched, AtMutex, Mutations, Kinds, connVars,
         RepeatMutation, Goes
  <1>7a. ASSUME NEW c \in Connections, BeginInput(c) PROVE Dispatched'
      BY <1>7a, RequestsAssumption DEF ConnectionsOK, Dispatched, AtMutex, Mutations, Kinds, connVars,
         BeginInput, Goes
  <1>7b. ASSUME NEW c \in Connections, FinishInput(c) PROVE Dispatched'
      BY <1>7b, RequestsAssumption DEF ConnectionsOK, Dispatched, AtMutex, Mutations, Kinds, connVars,
         FinishInput, Goes
  <1>8. ASSUME NEW c \in Connections, Welcome(c) PROVE Dispatched'
      BY <1>8, RequestsAssumption DEF ConnectionsOK, Dispatched, AtMutex, Mutations, Kinds, connVars,
         Welcome, Goes
  <1>9. ASSUME NEW c \in Connections, Answer(c) PROVE Dispatched'
      BY <1>9, RequestsAssumption DEF ConnectionsOK, Dispatched, AtMutex, Mutations, Kinds, connVars,
         Answer, Goes
  <1>10. ASSUME NEW c \in Connections, Refuse(c) PROVE Dispatched'
      BY <1>10, RequestsAssumption DEF ConnectionsOK, Dispatched, AtMutex, Mutations, Kinds, connVars,
         Refuse, Goes
  <1>11. ASSUME NEW c \in Connections, Tell(c) PROVE Dispatched'
      BY <1>11, RequestsAssumption DEF ConnectionsOK, Dispatched, AtMutex, Mutations, Kinds, connVars,
         Tell, Goes
  <1>12. ASSUME NEW c \in Connections, Accept(c) PROVE Dispatched'
      BY <1>12, RequestsAssumption DEF ConnectionsOK, Dispatched, AtMutex, Mutations, Kinds, connVars,
         Accept, Goes
  <1>13. ASSUME NEW c \in Connections, HangUp(c) PROVE Dispatched'
      BY <1>13, RequestsAssumption DEF ConnectionsOK, Dispatched, AtMutex, Mutations, Kinds, connVars,
         HangUp, Goes, OnTheWire
  <1>14. ASSUME NEW c \in Connections, Malformed(c) PROVE Dispatched'
      BY <1>14, RequestsAssumption DEF ConnectionsOK, Dispatched, AtMutex, Mutations, Kinds, connVars,
         Malformed, Goes, Fault
  <1>15. ASSUME NEW c \in Connections, MutationFails(c) PROVE Dispatched'
      BY <1>15, RequestsAssumption DEF ConnectionsOK, Dispatched, AtMutex, Mutations, Kinds, connVars,
         MutationFails, Goes, Fault
  <1>16. ASSUME NEW c \in Connections, NEW n \in Nonces, NEW claim \in BOOLEAN,
                Handshake(c, n, claim)
         PROVE  Dispatched'
      BY <1>16, RequestsAssumption DEF ConnectionsOK, Dispatched, AtMutex, Mutations, Kinds, connVars,
         Handshake, Goes, ClaimWriter
  <1>17. ASSUME NEW c \in Connections, NEW r \in Requests, Send(c, r) PROVE Dispatched'
      BY <1>17, RequestsAssumption DEF ConnectionsOK, Dispatched, AtMutex, Mutations, Kinds, connVars,
         Send, Goes, Dispatch
  <1>18. \/ UNCHANGED <<pc, req>>
         \/ \E c \in Connections : CheckWriter(c) \/ ReadLease(c) \/ SetScreen(c) \/ End(c)
         \/ \E c \in Connections : ApplyMutation(c) \/ BeginInput(c) \/ FinishInput(c) \/ RepeatMutation(c)
         \/ \E c \in Connections : Welcome(c) \/ Answer(c)
         \/ \E c \in Connections : Refuse(c) \/ Tell(c) \/ Accept(c) \/ HangUp(c)
         \/ \E c \in Connections : Malformed(c) \/ MutationFails(c)
         \/ \E c \in Connections, n \in Nonces, claim \in BOOLEAN : Handshake(c, n, claim)
         \/ \E c \in Connections, r \in Requests : Send(c, r)
      BY DEF Next, Handler, Mutate, Written, Client, Exhausted, vars, connVars, Expire
  <1> QED
      BY <1>1, <1>2, <1>3, <1>4, <1>5, <1>6, <1>7, <1>7a, <1>7b, <1>8, <1>9, <1>10, <1>11, <1>12, <1>13,
         <1>14, <1>15, <1>16, <1>17, <1>18

(* The mutex excludes.                                                       *)
LEMMA LockedStep ==
  ConnectionsOK /\ Locked /\ [Next]_vars => Locked'
PROOF
  <1> SUFFICES ASSUME ConnectionsOK /\ Locked, [Next]_vars
               PROVE  Locked'
      OBVIOUS
  <1>1. CASE UNCHANGED <<pc, lock>>
      BY <1>1 DEF ConnectionsOK, Locked
  <1>2. ASSUME NEW c \in Connections, CheckWriter(c) PROVE Locked'
      BY <1>2, RequestsAssumption DEF ConnectionsOK, Locked, connVars, cacheVars, CheckWriter,
         Goes
  <1>3. ASSUME NEW c \in Connections, ReadLease(c) PROVE Locked'
      BY <1>3, RequestsAssumption DEF ConnectionsOK, Locked, connVars, cacheVars, ReadLease,
         Goes, ClaimWriter, ReleaseWriter
  <1>4. ASSUME NEW c \in Connections, SetScreen(c) PROVE Locked'
      BY <1>4, RequestsAssumption DEF ConnectionsOK, Locked, connVars, cacheVars, SetScreen,
         Goes
  <1>5. ASSUME NEW c \in Connections, End(c) PROVE Locked'
      BY <1>5, RequestsAssumption DEF ConnectionsOK, Locked, connVars, cacheVars, End, Goes,
         ReleaseWriter
  <1>6. ASSUME NEW c \in Connections, ApplyMutation(c) PROVE Locked'
      BY <1>6, RequestsAssumption DEF ConnectionsOK, Locked, connVars, cacheVars, ApplyMutation,
         Goes
  <1>7. ASSUME NEW c \in Connections, RepeatMutation(c) PROVE Locked'
      BY <1>7, RequestsAssumption DEF ConnectionsOK, Locked, connVars, cacheVars,
         RepeatMutation, Goes
  <1>7a. ASSUME NEW c \in Connections, BeginInput(c) PROVE Locked'
      BY <1>7a, RequestsAssumption DEF ConnectionsOK, Locked, connVars, cacheVars,
         BeginInput, Goes
  <1>7b. ASSUME NEW c \in Connections, FinishInput(c) PROVE Locked'
      BY <1>7b, RequestsAssumption DEF ConnectionsOK, Locked, connVars, cacheVars,
         FinishInput, Goes
  <1>8. ASSUME NEW c \in Connections, Welcome(c) PROVE Locked'
      BY <1>8, RequestsAssumption DEF ConnectionsOK, Locked, connVars, cacheVars, Welcome, Goes
  <1>9. ASSUME NEW c \in Connections, Answer(c) PROVE Locked'
      BY <1>9, RequestsAssumption DEF ConnectionsOK, Locked, connVars, cacheVars, Answer, Goes
  <1>10. ASSUME NEW c \in Connections, Refuse(c) PROVE Locked'
      BY <1>10, RequestsAssumption DEF ConnectionsOK, Locked, connVars, cacheVars, Refuse, Goes
  <1>11. ASSUME NEW c \in Connections, Tell(c) PROVE Locked'
      BY <1>11, RequestsAssumption DEF ConnectionsOK, Locked, connVars, cacheVars, Tell, Goes
  <1>12. ASSUME NEW c \in Connections, Accept(c) PROVE Locked'
      BY <1>12, RequestsAssumption DEF ConnectionsOK, Locked, connVars, cacheVars, Accept, Goes
  <1>13. ASSUME NEW c \in Connections, HangUp(c) PROVE Locked'
      BY <1>13, RequestsAssumption DEF ConnectionsOK, Locked, connVars, cacheVars, HangUp, Goes,
         OnTheWire
  <1>14. ASSUME NEW c \in Connections, Malformed(c) PROVE Locked'
      BY <1>14, RequestsAssumption DEF ConnectionsOK, Locked, connVars, cacheVars, Malformed,
         Goes, Fault
  <1>15. ASSUME NEW c \in Connections, MutationFails(c) PROVE Locked'
      BY <1>15, RequestsAssumption DEF ConnectionsOK, Locked, connVars, cacheVars,
         MutationFails, Goes, Fault
  <1>16. ASSUME NEW c \in Connections, NEW n \in Nonces, NEW claim \in BOOLEAN,
                Handshake(c, n, claim)
         PROVE  Locked'
      BY <1>16, RequestsAssumption DEF ConnectionsOK, Locked, connVars, cacheVars, Handshake,
         Goes, ClaimWriter
  <1>17. ASSUME NEW c \in Connections, NEW r \in Requests, Send(c, r) PROVE Locked'
      BY <1>17, RequestsAssumption DEF ConnectionsOK, Locked, connVars, cacheVars, Send, Goes,
         Dispatch
  <1>18. \/ UNCHANGED <<pc, lock>>
         \/ \E c \in Connections : CheckWriter(c) \/ ReadLease(c) \/ SetScreen(c) \/ End(c)
         \/ \E c \in Connections : ApplyMutation(c) \/ BeginInput(c) \/ FinishInput(c) \/ RepeatMutation(c)
         \/ \E c \in Connections : Welcome(c) \/ Answer(c)
         \/ \E c \in Connections : Refuse(c) \/ Tell(c) \/ Accept(c) \/ HangUp(c)
         \/ \E c \in Connections : Malformed(c) \/ MutationFails(c)
         \/ \E c \in Connections, n \in Nonces, claim \in BOOLEAN : Handshake(c, n, claim)
         \/ \E c \in Connections, r \in Requests : Send(c, r)
      BY DEF Next, Handler, Mutate, Written, Client, Exhausted, vars, connVars, cacheVars,
         Expire
  <1> QED
      BY <1>1, <1>2, <1>3, <1>4, <1>5, <1>6, <1>7, <1>7a, <1>7b, <1>8, <1>9, <1>10, <1>11, <1>12, <1>13,
         <1>14, <1>15, <1>16, <1>17, <1>18

(* The effect of a mutation and the outcome it leaves.                      *)
LEMMA MutationApplied ==
  ASSUME ConnectionsOK, CachesOK, Remembering, NEW c \in Connections,
         ApplyMutation(c) \/ FinishInput(c)
  PROVE  /\ ~Holds(outcomes, req[c].id)
         /\ \E i \in DOMAIN outcomes' : outcomes'[i] = Outcome(req[c].id, HashOf(req[c]))
         /\ \A i \in DOMAIN outcomes' : \/ outcomes'[i] = Outcome(req[c].id, HashOf(req[c]))
                                       \/ \E j \in DOMAIN outcomes : outcomes[j] = outcomes'[i]
         /\ \A j \in DOMAIN outcomes : \/ \E i \in DOMAIN outcomes' : outcomes'[i] = outcomes[j]
                                      \/ outcomes[j].id \in forgotten'
         /\ \A i \in DOMAIN effects : i \in DOMAIN effects' /\ effects'[i] = effects[i]
         /\ \A i \in DOMAIN effects' : i \in DOMAIN effects \/ i = Len(effects) + 1
         /\ \E i \in DOMAIN effects' : effects'[i] = Outcome(req[c].id, HashOf(req[c]))
         /\ effects'[Len(effects) + 1] = Outcome(req[c].id, HashOf(req[c]))
         /\ forgotten \subseteq forgotten'
PROOF
  <1> DEFINE entry == Outcome(req[c].id, HashOf(req[c]))
  <1>1. /\ req[c].id \in Ids \cup {None} /\ HashOf(req[c]) \in Hash
        /\ outcomes \in Entries /\ effects \in Seq(Entry)
    BY DEF ConnectionsOK, CachesOK, Request, HashOf, Hash, Entries, Entry
  <1>2. entry \in Entry
    BY <1>1 DEF Outcome, Entry
  <1>3. ~Holds(outcomes, req[c].id)
    BY DEF ApplyMutation, FinishInput, Decision, Inspect, Remembering
  <1>4. outcomes' = Recorded(outcomes, req[c].id, HashOf(req[c])) /\ effects' = Append(effects, entry)
    BY DEF ApplyMutation, FinishInput, Remember
  <1>5. /\ \E i \in DOMAIN outcomes' : outcomes'[i] = entry
        /\ \A i \in DOMAIN outcomes' :
             outcomes'[i] = entry \/ \E j \in DOMAIN outcomes : outcomes[j] = outcomes'[i]
        /\ \A j \in DOMAIN outcomes :
             \/ \E i \in DOMAIN outcomes' : outcomes'[i] = outcomes[j]
             \/ Len(outcomes) >= MaxOutcomes /\ j = 1
    <2> DEFINE recorded == Recorded(outcomes, req[c].id, HashOf(req[c]))
    <2>1. /\ \E i \in DOMAIN recorded : recorded[i] = entry
          /\ \A i \in DOMAIN recorded :
               recorded[i] = entry \/ \E j \in DOMAIN outcomes : outcomes[j] = recorded[i]
          /\ \A j \in DOMAIN outcomes :
               \/ \E i \in DOMAIN recorded : recorded[i] = outcomes[j]
               \/ Len(outcomes) >= MaxOutcomes /\ j = 1
      BY <1>1, OutcomeRecorded
    <2>2. outcomes' = recorded
      BY <1>4
    <2> HIDE DEF recorded, entry
    <2> QED
      BY <2>1, <2>2
  <1>6. forgotten \subseteq forgotten' /\ (Len(outcomes) >= MaxOutcomes => outcomes[1].id \in forgotten')
    BY DEF ApplyMutation, FinishInput, Remember
  <1>7. /\ \A i \in DOMAIN effects : i \in DOMAIN effects' /\ effects'[i] = effects[i]
        /\ \A i \in DOMAIN effects' : i \in DOMAIN effects \/ i = Len(effects) + 1
        /\ \E i \in DOMAIN effects' : effects'[i] = entry
        /\ effects'[Len(effects) + 1] = entry
    <2> HIDE DEF entry
    <2> QED
      BY <1>1, <1>2, <1>4, NewestAdded
  <1>8. \A j \in DOMAIN outcomes :
          (\E i \in DOMAIN outcomes' : outcomes'[i] = outcomes[j]) \/ outcomes[j].id \in forgotten'
    BY <1>5, <1>6
  <1> QED
    BY <1>3, <1>5, <1>6, <1>7, <1>8

(* What an expiry leaves of the two caches.                                 *)
LEMMA CachesExpired ==
  ASSUME CachesOK, Expire
  PROVE  /\ \A i \in DOMAIN outcomes' : \E j \in DOMAIN outcomes : outcomes[j] = outcomes'[i]
         /\ \A j \in DOMAIN outcomes : \/ \E i \in DOMAIN outcomes' : outcomes'[i] = outcomes[j]
                                      \/ outcomes[j].id \in forgotten'
         /\ \A j \in DOMAIN nonces : \/ \E i \in DOMAIN nonces' : nonces'[i] = nonces[j]
                                    \/ nonces[j] \in forgotten'
         /\ forgotten \subseteq forgotten'
PROOF
  <1>1. outcomes \in Seq(Entry) /\ nonces \in Seq(Nonces)
    BY DEF CachesOK, Entry
  <1>2. CASE outcomes # <<>> /\ outcomes' = Tail(outcomes) /\ nonces' = nonces
               /\ forgotten' = forgotten \cup {outcomes[1].id}
    <2>1. /\ \A i \in DOMAIN Tail(outcomes) : \E j \in DOMAIN outcomes : outcomes[j] = Tail(outcomes)[i]
          /\ \A j \in DOMAIN outcomes :
               j # 1 => \E i \in DOMAIN Tail(outcomes) : Tail(outcomes)[i] = outcomes[j]
      BY <1>1, <1>2, OldestDropped
    <2> QED
      BY <1>2, <2>1
  <1>3. CASE nonces # <<>> /\ nonces' = Tail(nonces) /\ outcomes' = outcomes
               /\ forgotten' = forgotten \cup {nonces[1]}
    <2>1. \A j \in DOMAIN nonces :
            j # 1 => \E i \in DOMAIN Tail(nonces) : Tail(nonces)[i] = nonces[j]
      BY <1>1, <1>3, OldestDropped
    <2> QED
      BY <1>3, <2>1
  <1> QED
    BY <1>2, <1>3 DEF Expire, Pruned

(* What is remembered was done, and what was done is remembered or forgotten. *)
LEMMA RememberingStep ==
  ConnectionsOK /\ CachesOK /\ Locked /\ Remembering /\ [Next]_vars => Remembering'
PROOF
  <1> SUFFICES ASSUME ConnectionsOK /\ CachesOK /\ Locked /\ Remembering, [Next]_vars
               PROVE  Remembering'
      OBVIOUS
  <1>1. CASE UNCHANGED <<pc, req, outcomes, effects, forgotten>>
      BY <1>1 DEF ConnectionsOK, Remembering, Holds
  <1>2. CASE Expire
    <2>1. UNCHANGED <<pc, req, effects>>
      BY <1>2 DEF Expire, connVars
    <2>2. \A i \in DOMAIN outcomes' : \E j \in DOMAIN effects' : effects'[j] = outcomes'[i]
      BY <1>2, <2>1, CachesExpired DEF Remembering
    <2>3. \A i \in DOMAIN effects' :
            Holds(outcomes', effects'[i].id) \/ effects'[i].id \in forgotten'
      <3>1. \A j \in DOMAIN outcomes :
              (\E i \in DOMAIN outcomes' : outcomes'[i] = outcomes[j]) \/ outcomes[j].id \in forgotten'
        BY <1>2, CachesExpired
      <3>2. forgotten \subseteq forgotten'
        BY <1>2, CachesExpired
      <3> QED
        BY <2>1, <3>1, <3>2 DEF Remembering, Holds
    <2>4. \A c \in Connections : pc'[c] = "typing" => ~Holds(outcomes', req'[c].id)
      <3>1. \A i \in DOMAIN outcomes' : \E j \in DOMAIN outcomes : outcomes[j] = outcomes'[i]
        BY <1>2, CachesExpired
      <3> QED
        BY <2>1, <3>1 DEF Remembering, Holds
    <2> QED
      BY <2>1, <2>2, <2>3, <2>4 DEF Remembering
  <1>3. ASSUME NEW c \in Connections, CheckWriter(c) PROVE Remembering'
      BY <1>3 DEF ConnectionsOK, Remembering, Holds, connVars, cacheVars, CheckWriter, Goes
  <1>4. ASSUME NEW c \in Connections, ReadLease(c) PROVE Remembering'
      BY <1>4 DEF ConnectionsOK, Remembering, Holds, connVars, cacheVars, ReadLease, Goes,
         ClaimWriter, ReleaseWriter
  <1>5. ASSUME NEW c \in Connections, SetScreen(c) PROVE Remembering'
      BY <1>5 DEF ConnectionsOK, Remembering, Holds, connVars, cacheVars, SetScreen, Goes
  <1>6. ASSUME NEW c \in Connections, End(c) PROVE Remembering'
      BY <1>6 DEF ConnectionsOK, Remembering, Holds, connVars, cacheVars, End, Goes,
         ReleaseWriter
  <1>7. ASSUME NEW c \in Connections, ApplyMutation(c) \/ FinishInput(c) PROVE Remembering'
    <2> DEFINE entry == Outcome(req[c].id, HashOf(req[c]))
    <2>0. req' = req /\ pc' = [pc EXCEPT ![c] = "answering"] /\ entry.id = req[c].id
      BY <1>7 DEF ApplyMutation, FinishInput, Goes, Outcome
    <2>1. \A i \in DOMAIN outcomes' : \E j \in DOMAIN effects' : effects'[j] = outcomes'[i]
      BY <1>7, MutationApplied DEF Remembering
    <2>2. \A i \in DOMAIN effects' :
            Holds(outcomes', effects'[i].id) \/ effects'[i].id \in forgotten'
      <3>1. ASSUME NEW i \in DOMAIN effects
            PROVE  Holds(outcomes', effects'[i].id) \/ effects'[i].id \in forgotten'
        <4>1. effects'[i] = effects[i] /\ forgotten \subseteq forgotten'
          BY <1>7, MutationApplied
        <4>2. \A j \in DOMAIN outcomes :
                (\E k \in DOMAIN outcomes' : outcomes'[k] = outcomes[j]) \/ outcomes[j].id \in forgotten'
          BY <1>7, MutationApplied
        <4> QED
          BY <4>1, <4>2 DEF Remembering, Holds
      <3>2. effects'[Len(effects) + 1] = entry /\ \E k \in DOMAIN outcomes' : outcomes'[k] = entry
        BY <1>7, MutationApplied
      <3>3. Holds(outcomes', effects'[Len(effects) + 1].id)
        BY <3>2 DEF Holds
      <3>4. \A i \in DOMAIN effects' : i \in DOMAIN effects \/ i = Len(effects) + 1
        BY <1>7, MutationApplied
      <3> QED
        BY <3>1, <3>3, <3>4
    <2>3. \A d \in Connections : pc'[d] = "answering"
            => \E i \in DOMAIN effects' : effects'[i] = Outcome(req'[d].id, HashOf(req'[d]))
      BY <1>7, <2>0, MutationApplied DEF Remembering, ConnectionsOK
    <2>4. \A d \in Connections : pc'[d] # "typing"
      <3>1. lock \in {c, None}
        BY <1>7 DEF ApplyMutation, FinishInput, Locked
      <3>2. \A d \in Connections : d # c => pc[d] # "typing"
        BY <3>1, RequestsAssumption DEF Locked
      <3> QED
        BY <2>0, <3>2 DEF ConnectionsOK
    <2> QED
      BY <2>1, <2>2, <2>3, <2>4 DEF Remembering
  <1>7a. ASSUME NEW c \in Connections, BeginInput(c) PROVE Remembering'
    <2>1. UNCHANGED <<req, outcomes, effects, forgotten>> /\ pc' = [pc EXCEPT ![c] = "typing"]
      BY <1>7a DEF BeginInput, Goes
    <2>2. ~Holds(outcomes, req[c].id)
      BY <1>7a DEF BeginInput, Decision, Inspect
    <2> QED
      BY <2>1, <2>2 DEF Remembering, ConnectionsOK
  <1>8. ASSUME NEW c \in Connections, RepeatMutation(c) PROVE Remembering'
    <2>1. UNCHANGED <<req, outcomes, effects, forgotten>>
      BY <1>8 DEF RepeatMutation
    <2>2. pc'[c] = "answering"
            => \E i \in DOMAIN outcomes : outcomes[i] = Outcome(req[c].id, HashOf(req[c]))
      BY <1>8 DEF RepeatMutation, Goes, Decision, Inspect, ConnectionsOK
    <2>3. \A d \in Connections : d # c => pc'[d] = pc[d]
      BY <1>8 DEF RepeatMutation, Goes, ConnectionsOK
    <2>4. pc'[c] # "typing"
      BY <1>8 DEF RepeatMutation, Goes, ConnectionsOK
    <2> QED
      BY <2>1, <2>2, <2>3, <2>4 DEF Remembering
  <1>9. ASSUME NEW c \in Connections, Welcome(c) PROVE Remembering'
      BY <1>9 DEF ConnectionsOK, Remembering, Holds, connVars, cacheVars, Welcome, Goes
  <1>10. ASSUME NEW c \in Connections, Answer(c) PROVE Remembering'
      BY <1>10 DEF ConnectionsOK, Remembering, Holds, connVars, cacheVars, Answer, Goes
  <1>11. ASSUME NEW c \in Connections, Refuse(c) PROVE Remembering'
      BY <1>11 DEF ConnectionsOK, Remembering, Holds, connVars, cacheVars, Refuse, Goes
  <1>12. ASSUME NEW c \in Connections, Tell(c) PROVE Remembering'
      BY <1>12 DEF ConnectionsOK, Remembering, Holds, connVars, cacheVars, Tell, Goes
  <1>13. ASSUME NEW c \in Connections, Accept(c) PROVE Remembering'
      BY <1>13 DEF ConnectionsOK, Remembering, Holds, connVars, cacheVars, Accept, Goes
  <1>14. ASSUME NEW c \in Connections, HangUp(c) PROVE Remembering'
      BY <1>14 DEF ConnectionsOK, Remembering, Holds, connVars, cacheVars, HangUp, Goes,
         OnTheWire
  <1>15. ASSUME NEW c \in Connections, Malformed(c) PROVE Remembering'
      BY <1>15 DEF ConnectionsOK, Remembering, Holds, connVars, cacheVars, Malformed, Goes,
         Fault
  <1>16. ASSUME NEW c \in Connections, MutationFails(c) PROVE Remembering'
      BY <1>16 DEF ConnectionsOK, Remembering, Holds, connVars, cacheVars, MutationFails, Goes,
         Fault
  <1>17. ASSUME NEW c \in Connections, NEW n \in Nonces, NEW claim \in BOOLEAN,
                Handshake(c, n, claim)
         PROVE  Remembering'
      BY <1>17 DEF ConnectionsOK, Remembering, Holds, connVars, cacheVars, Handshake, Goes,
         ClaimWriter
  <1>18. ASSUME NEW c \in Connections, NEW r \in Requests, Send(c, r) PROVE Remembering'
      BY <1>18 DEF ConnectionsOK, Remembering, Holds, connVars, cacheVars, Send, Goes, Dispatch
  <1>19. \/ UNCHANGED <<pc, req, outcomes, effects, forgotten>>
         \/ Expire
         \/ \E c \in Connections : CheckWriter(c) \/ ReadLease(c) \/ SetScreen(c) \/ End(c)
         \/ \E c \in Connections : ApplyMutation(c) \/ FinishInput(c) \/ BeginInput(c) \/ RepeatMutation(c)
         \/ \E c \in Connections : Welcome(c) \/ Answer(c)
         \/ \E c \in Connections : Refuse(c) \/ Tell(c) \/ Accept(c) \/ HangUp(c)
         \/ \E c \in Connections : Malformed(c) \/ MutationFails(c)
         \/ \E c \in Connections, n \in Nonces, claim \in BOOLEAN : Handshake(c, n, claim)
         \/ \E c \in Connections, r \in Requests : Send(c, r)
      BY DEF Next, Handler, Mutate, Written, Client, Exhausted, vars, connVars, cacheVars
  <1> QED
      BY <1>1, <1>2, <1>3, <1>4, <1>5, <1>6, <1>7, <1>7a, <1>8, <1>9, <1>10, <1>11, <1>12, <1>13,
         <1>14, <1>15, <1>16, <1>17, <1>18, <1>19

(* A command takes effect again only when its outcome was forgotten.         *)
LEMMA OnceStep ==
  ConnectionsOK /\ CachesOK /\ Remembering /\ AppliedOnce /\ [Next]_vars => AppliedOnce'
PROOF
  <1> SUFFICES ASSUME ConnectionsOK /\ CachesOK /\ Remembering /\ AppliedOnce, [Next]_vars
               PROVE  AppliedOnce'
      OBVIOUS
  <1>1. CASE UNCHANGED <<effects, forgotten>>
      BY <1>1 DEF AppliedOnce
  <1>2. CASE Expire
    <2>1. effects' = effects /\ forgotten \subseteq forgotten'
      BY <1>2, CachesExpired DEF Expire
    <2> QED
      BY <2>1 DEF AppliedOnce
  <1>3. ASSUME NEW c \in Connections, ApplyMutation(c) \/ FinishInput(c) PROVE AppliedOnce'
    <2> DEFINE entry == Outcome(req[c].id, HashOf(req[c]))
    <2>1. /\ forgotten \subseteq forgotten' /\ ~Holds(outcomes, req[c].id)
          /\ \A i \in DOMAIN effects' : i \in DOMAIN effects \/ i = Len(effects) + 1
          /\ \A i \in DOMAIN effects : effects'[i] = effects[i]
      <3>1. forgotten \subseteq forgotten' /\ ~Holds(outcomes, req[c].id)
        BY <1>3, MutationApplied
      <3>2. \A i \in DOMAIN effects' : i \in DOMAIN effects \/ i = Len(effects) + 1
        BY <1>3, MutationApplied
      <3>3. \A i \in DOMAIN effects : effects'[i] = effects[i]
        BY <1>3, MutationApplied
      <3> QED
        BY <3>1, <3>2, <3>3
    <2>3. effects'[Len(effects) + 1].id = req[c].id
      <3>1. effects'[Len(effects) + 1] = entry
        BY <1>3, MutationApplied
      <3>2. entry.id = req[c].id
        BY DEF Outcome
      <3> QED
        BY <3>1, <3>2
    <2>2. \A i \in DOMAIN effects : effects[i].id = req[c].id => req[c].id \in forgotten'
      BY <2>1 DEF Remembering
    <2> QED
      BY <2>1, <2>2, <2>3 DEF AppliedOnce
  <1>4. ASSUME NEW c \in Connections, NEW n \in Nonces, NEW claim \in BOOLEAN,
                Handshake(c, n, claim)
         PROVE  AppliedOnce'
    <2>1. effects' = effects /\ forgotten \subseteq forgotten'
      BY <1>4 DEF Handshake, cacheVars
    <2> QED
      BY <2>1 DEF AppliedOnce
  <1>5. \/ UNCHANGED <<effects, forgotten>>
        \/ Expire
        \/ \E c \in Connections : ApplyMutation(c) \/ FinishInput(c)
        \/ \E c \in Connections, n \in Nonces, claim \in BOOLEAN : Handshake(c, n, claim)
      BY DEF Next, Handler, Mutate, Written, Client, Exhausted, vars, cacheVars, CheckWriter,
         ReadLease, SetScreen, End, BeginInput, RepeatMutation, Welcome, Answer, Refuse, Tell, Accept,
         HangUp, Malformed, MutationFails, Send
  <1> QED
      BY <1>1, <1>2, <1>3, <1>4, <1>5

(* An answer is about an effect, and effects stay.                            *)
LEMMA AnsweredStep ==
  ConnectionsOK /\ CachesOK /\ Dispatched /\ Remembering /\ AnsweredWasDone /\ [Next]_vars => AnsweredWasDone'
PROOF
  <1> SUFFICES ASSUME ConnectionsOK /\ CachesOK /\ Dispatched /\ Remembering /\ AnsweredWasDone, [Next]_vars
               PROVE  AnsweredWasDone'
      OBVIOUS
  <1>1. CASE UNCHANGED <<req, reply, effects>>
      BY <1>1 DEF ConnectionsOK, AnsweredWasDone, Remembering
  <1>2. ASSUME NEW c \in Connections, ApplyMutation(c) \/ FinishInput(c) PROVE AnsweredWasDone'
    <2>1. \A i \in DOMAIN effects : i \in DOMAIN effects' /\ effects'[i] = effects[i]
      BY <1>2, MutationApplied
    <2>2. UNCHANGED <<reply, req>>
      BY <1>2 DEF ApplyMutation, FinishInput
    <2> QED
      BY <2>1, <2>2 DEF AnsweredWasDone
  <1>3. ASSUME NEW c \in Connections, Answer(c) PROVE AnsweredWasDone'
      BY <1>3 DEF ConnectionsOK, AnsweredWasDone, Remembering, connVars, cacheVars, Answer, Goes
  <1>4. ASSUME NEW c \in Connections, Refuse(c) PROVE AnsweredWasDone'
      BY <1>4 DEF ConnectionsOK, AnsweredWasDone, Remembering, connVars, cacheVars, Refuse, Goes
  <1>5. ASSUME NEW c \in Connections, Tell(c) PROVE AnsweredWasDone'
    <2>1. req[c].kind \notin Mutations
      BY <1>5 DEF Tell, Dispatched
    <2> QED
      BY <1>5, <2>1 DEF ConnectionsOK, AnsweredWasDone, Tell, cacheVars
  <1>6. ASSUME NEW c \in Connections, NEW r \in Requests, Send(c, r) PROVE AnsweredWasDone'
      BY <1>6 DEF ConnectionsOK, AnsweredWasDone, Remembering, connVars, cacheVars, Send, Goes,
         Dispatch
  <1>7. \/ UNCHANGED <<req, reply, effects>>
        \/ \E c \in Connections : ApplyMutation(c) \/ FinishInput(c) \/ Answer(c) \/ Refuse(c) \/ Tell(c)
        \/ \E c \in Connections, r \in Requests : Send(c, r)
      BY DEF Next, Handler, Mutate, Written, Client, Exhausted, vars, connVars, cacheVars,
         Expire, CheckWriter, ReadLease, SetScreen, End, BeginInput, RepeatMutation, Welcome, Accept,
         HangUp, Malformed, MutationFails, Handshake
  <1> QED
      BY <1>1, <1>2, <1>3, <1>4, <1>5, <1>6, <1>7

(* A nonce that was accepted is not accepted again until it is forgotten.      *)
LEMMA NoncesStep ==
  ConnectionsOK /\ CachesOK /\ Remembering /\ NoncesKept /\ NonceOnce /\ [Next]_vars => (NoncesKept /\ NonceOnce)'
PROOF
  <1> SUFFICES ASSUME ConnectionsOK /\ CachesOK /\ Remembering /\ NoncesKept /\ NonceOnce, [Next]_vars
               PROVE  (NoncesKept /\ NonceOnce)'
      OBVIOUS
  <1>1. CASE UNCHANGED <<nonce, nonces, forgotten>>
      BY <1>1 DEF NoncesKept, NonceOnce, Known
  <1>2. CASE Expire
    <2>1. nonce' = nonce /\ forgotten \subseteq forgotten'
      BY <1>2, CachesExpired DEF Expire, connVars
    <2>2. \A j \in DOMAIN nonces :
            (\E i \in DOMAIN nonces' : nonces'[i] = nonces[j]) \/ nonces[j] \in forgotten'
      BY <1>2, CachesExpired
    <2> QED
      BY <2>1, <2>2 DEF NoncesKept, NonceOnce, Known
  <1>3. ASSUME NEW c \in Connections, ApplyMutation(c) \/ FinishInput(c) PROVE (NoncesKept /\ NonceOnce)'
    <2>1. UNCHANGED <<nonce, nonces>> /\ forgotten \subseteq forgotten'
      BY <1>3, MutationApplied DEF ApplyMutation, FinishInput
    <2> QED
      BY <2>1 DEF NoncesKept, NonceOnce, Known
  <1>4. ASSUME NEW c \in Connections, NEW n \in Nonces, NEW claim \in BOOLEAN,
                Handshake(c, n, claim)
         PROVE  (NoncesKept /\ NonceOnce)'
    <2>1. CASE Known(n)
      <3>1. UNCHANGED <<nonce, nonces, forgotten>>
        BY <1>4, <2>1 DEF Handshake
      <3> QED
        BY <3>1 DEF NoncesKept, NonceOnce, Known
    <2>2. CASE ~Known(n)
      <3>1. /\ nonce' = [nonce EXCEPT ![c] = n] /\ nonces' = Remembered(n)
            /\ forgotten \subseteq forgotten'
            /\ Len(nonces) >= MaxOutcomes => nonces[1] \in forgotten'
        BY <1>4, <2>2 DEF Handshake
      <3>2. /\ \E i \in DOMAIN nonces' : nonces'[i] = n
            /\ \A j \in DOMAIN nonces :
                 (\E i \in DOMAIN nonces' : nonces'[i] = nonces[j]) \/ nonces[j] \in forgotten'
        <4>1. nonces \in Seq(Nonces)
          BY DEF CachesOK
        <4>2. \E i \in DOMAIN nonces' : nonces'[i] = n
          BY <4>1, <3>1, NonceRemembered
        <4>3. ASSUME NEW j \in DOMAIN nonces
              PROVE  (\E i \in DOMAIN nonces' : nonces'[i] = nonces[j]) \/ nonces[j] \in forgotten'
          <5>1. \/ \E i \in DOMAIN Remembered(n) : Remembered(n)[i] = nonces[j]
                \/ Len(nonces) >= MaxOutcomes /\ j = 1
            BY <4>1, NonceRemembered
          <5> QED
            BY <5>1, <3>1
        <4> QED
          BY <4>2, <4>3
      <3>3. /\ nonce'[c] = n
            /\ \A d \in Connections : d # c => nonce'[d] = nonce[d]
        BY <3>1 DEF ConnectionsOK
      <3>4. NoncesKept'
        BY <3>1, <3>2, <3>3 DEF NoncesKept, Known
      <3>5. \A d \in Connections : nonce[d] # None /\ nonce[d] = n => n \in forgotten
        BY <2>2 DEF NoncesKept
      <3>6. NonceOnce'
        BY <3>1, <3>3, <3>5 DEF NonceOnce
      <3> QED
        BY <3>4, <3>6
    <2> QED
      BY <2>1, <2>2
  <1>5. \/ UNCHANGED <<nonce, nonces, forgotten>>
        \/ Expire
        \/ \E c \in Connections : ApplyMutation(c) \/ FinishInput(c)
        \/ \E c \in Connections, n \in Nonces, claim \in BOOLEAN : Handshake(c, n, claim)
      BY DEF Next, Handler, Mutate, Written, Client, Exhausted, vars, connVars, CheckWriter,
         ReadLease, SetScreen, End, BeginInput, RepeatMutation, Welcome, Answer, Refuse, Tell, Accept,
         HangUp, Malformed, MutationFails, Send
  <1> QED
      BY <1>1, <1>2, <1>3, <1>4, <1>5

(* The sizes and the bounds.                                                  *)
LEMMA SizesStep ==
  ConnectionsOK /\ pty \in Args /\ screen \in Args /\ [Next]_vars => (pty \in Args /\ screen \in Args)'
PROOF
  <1> SUFFICES ASSUME ConnectionsOK /\ pty \in Args /\ screen \in Args, [Next]_vars
               PROVE  (pty \in Args /\ screen \in Args)'
      OBVIOUS
  <1>1. CASE UNCHANGED <<pty, screen>>
      BY <1>1 DEF ConnectionsOK, Request
  <1>2. ASSUME NEW c \in Connections, SetScreen(c) PROVE (pty \in Args /\ screen \in Args)'
      BY <1>2 DEF ConnectionsOK, Request, sizeVars, SetScreen, Goes
  <1>3. ASSUME NEW c \in Connections, ApplyMutation(c) PROVE (pty \in Args /\ screen \in Args)'
      BY <1>3 DEF ConnectionsOK, Request, sizeVars, ApplyMutation, Goes
  <1>4. \/ UNCHANGED <<pty, screen>>
        \/ \E c \in Connections : SetScreen(c) \/ ApplyMutation(c)
      BY DEF Next, Handler, Mutate, Written, Client, Exhausted, vars, sizeVars, Expire,
         CheckWriter, ReadLease, End, BeginInput, FinishInput, RepeatMutation, Welcome, Answer, Refuse, Tell, Accept,
         HangUp, Malformed, MutationFails, Handshake, Send
  <1> QED
      BY <1>1, <1>2, <1>3, <1>4

(* The bounds of the model.                                                   *)
LEMMA BoundsStep ==
  requests \in Nat /\ faults \in Nat /\ [Next]_vars => (requests \in Nat /\ faults \in Nat)'
PROOF
  <1> SUFFICES ASSUME requests \in Nat /\ faults \in Nat, [Next]_vars
               PROVE  (requests \in Nat /\ faults \in Nat)'
      OBVIOUS
  <1>1. CASE UNCHANGED <<requests, faults>>
      BY <1>1
  <1>2. ASSUME NEW c \in Connections, Malformed(c) PROVE (requests \in Nat /\ faults \in Nat)'
      BY <1>2 DEF Malformed, Fault
  <1>3. ASSUME NEW c \in Connections, MutationFails(c) PROVE (requests \in Nat /\ faults \in Nat)'
      BY <1>3 DEF MutationFails, Fault
  <1>4. ASSUME NEW c \in Connections, NEW r \in Requests, Send(c, r) PROVE (requests \in Nat /\ faults \in Nat)'
      BY <1>4 DEF Send
  <1>5. ASSUME NEW c \in Connections, NEW n \in Nonces, NEW claim \in BOOLEAN,
               Handshake(c, n, claim)
        PROVE  (requests \in Nat /\ faults \in Nat)'
      BY <1>5 DEF Handshake, Fault, bounds
  <1>6. \/ UNCHANGED <<requests, faults>>
        \/ \E c \in Connections : Malformed(c) \/ MutationFails(c)
        \/ \E c \in Connections, r \in Requests : Send(c, r)
        \/ \E c \in Connections, n \in Nonces, claim \in BOOLEAN : Handshake(c, n, claim)
      BY DEF Next, Handler, Mutate, Written, Client, Exhausted, vars, bounds, Expire,
         CheckWriter, ReadLease, SetScreen, End, ApplyMutation, BeginInput, FinishInput, RepeatMutation, Welcome, Answer,
         Refuse, Tell, Accept, HangUp
  <1> QED
      BY <1>1, <1>2, <1>3, <1>4, <1>5, <1>6

(* RequestsInv is inductive.                                                *)
LEMMA RequestsInvInductive ==
  /\ Init => RequestsInv
  /\ RequestsInv /\ [Next]_vars => RequestsInv'
PROOF
  <1>1. ASSUME Init PROVE RequestsInv
    <2>1. /\ pc = [c \in Connections |-> "new"] /\ nonce = [c \in Connections |-> None]
          /\ reply = [c \in Connections |-> "none"] /\ told = [c \in Connections |-> FALSE]
          /\ req = [c \in Connections |-> [kind |-> "query", id |-> None, arg |-> FirstSize]]
          /\ lease = None /\ lock = None /\ permits = MaxConnections
          /\ outcomes = <<>> /\ effects = <<>> /\ nonces = <<>> /\ forgotten = {}
          /\ pty = FirstSize /\ screen = FirstSize /\ requests = 0 /\ faults = 0
      BY <1>1 DEF Init
    <2>2. ConnectionsOK
      BY <2>1, RequestsAssumption DEF ConnectionsOK, Request, Kinds
    <2>3. CachesOK
      BY <2>1 DEF CachesOK
    <2>4. /\ permits \in 0..MaxConnections /\ lease \in Connections \cup {None}
          /\ pty \in Args /\ screen \in Args /\ requests \in Nat /\ faults \in Nat
      BY <2>1, RequestsAssumption
    <2>5. Live = {}
      BY <2>1 DEF Live, Serving
    <2>6. Cardinality({}) = 0
      BY FS_EmptySet
    <2>7. PermitsCounted
      BY <2>1, <2>5, <2>6, RequestsAssumption DEF PermitsCounted
    <2>8. EndedReturnsAll
      BY <2>1, <2>7 DEF EndedReturnsAll, PermitsCounted, Live
    <2>9. Locked /\ Dispatched /\ WriterTypes
      BY <2>1, RequestsAssumption DEF Locked, Dispatched, AtMutex, WriterTypes
    <2>10. ToldHolds /\ AnsweredWasDone
      BY <2>1 DEF ToldHolds, AnsweredWasDone
    <2>11. Remembering /\ AppliedOnce
      BY <2>1 DEF Remembering, AppliedOnce
    <2>12. NoncesKept /\ NonceOnce
      BY <2>1 DEF NoncesKept, NonceOnce
    <2> QED
      BY <2>2, <2>3, <2>4, <2>8, <2>9, <2>10, <2>11, <2>12 DEF RequestsInv, TypeOK
  <1>2. ASSUME RequestsInv, [Next]_vars PROVE RequestsInv'
    <2>1. ConnectionsOK' /\ CachesOK'
      BY <1>2, ConnectionsStep, CachesStep DEF RequestsInv, TypeOK
    <2>2. LeaseServed /\ PermitsCounted
      BY <1>2 DEF RequestsInv, EndedReturnsAll, LeaseServed, PermitsCounted, Live
    <2>3. permits' \in 0..MaxConnections /\ PermitsCounted'
      BY <1>2, <2>2, PermitsStep DEF RequestsInv, TypeOK
    <2>4. (lease \in Connections \cup {None} /\ LeaseServed /\ ToldHolds)'
      BY <1>2, <2>2, LeaseStep DEF RequestsInv, TypeOK
    <2>5. EndedReturnsAll'
      BY <2>3, <2>4 DEF EndedReturnsAll, LeaseServed, PermitsCounted, Live
    <2>6. (pty \in Args /\ screen \in Args /\ requests \in Nat /\ faults \in Nat)'
      BY <1>2, SizesStep, BoundsStep DEF RequestsInv, TypeOK
    <2>7. Locked' /\ Dispatched' /\ WriterTypes'
      BY <1>2, LockedStep, DispatchedStep, WriterStep DEF RequestsInv, TypeOK
    <2>8. Remembering' /\ AppliedOnce' /\ AnsweredWasDone'
      BY <1>2, RememberingStep, OnceStep, AnsweredStep DEF RequestsInv, TypeOK
    <2>9. NoncesKept' /\ NonceOnce'
      BY <1>2, NoncesStep DEF RequestsInv, TypeOK
    <2> QED
      BY <2>1, <2>3, <2>4, <2>5, <2>6, <2>7, <2>8, <2>9 DEF RequestsInv, TypeOK
  <1> QED
    BY <1>1, <1>2

(* The invariant of the requests holds whatever the clients send, in any    *)
(* interleaving of their handlers.                                          *)
THEOREM RequestsInvariant == Spec => []RequestsInv
PROOF
  BY RequestsInvInductive, PTL DEF Spec

(* An input is applied only for the holder of the lease, though the lease   *)
(* is checked before the handler waits for the mutex (has_writer, then      *)
(* handle_mutation).                                                        *)
THEOREM OneWriter == Spec => []WriterTypes
PROOF
  <1>1. RequestsInv => WriterTypes
    BY DEF RequestsInv
  <1> QED
    BY <1>1, RequestsInvariant, PTL

(* The lease a client was told of is its own until it gives it up           *)
(* (claim_writer, release_writer).                                          *)
THEOREM LeaseKept == Spec => []ToldHolds
PROOF
  <1>1. RequestsInv => ToldHolds
    BY DEF RequestsInv
  <1> QED
    BY <1>1, RequestsInvariant, PTL

(* However connections end, permits and the lease come back (the end of     *)
(* accept_loop's handler).                                                  *)
THEOREM NothingLeaks == Spec => []EndedReturnsAll
PROOF
  <1>1. RequestsInv => EndedReturnsAll
    BY DEF RequestsInv
  <1> QED
    BY <1>1, RequestsInvariant, PTL

(* A command takes effect once while it is remembered (handle_mutation and  *)
(* MutationCache).                                                          *)
THEOREM CommandsOnce == Spec => []AppliedOnce
PROOF
  <1>1. RequestsInv => AppliedOnce
    BY DEF RequestsInv
  <1> QED
    BY <1>1, RequestsInvariant, PTL

(* Success is answered only for what took effect with the same payload      *)
(* (MutationCache::inspect).                                                *)
THEOREM AnswersTrue == Spec => []AnsweredWasDone
PROOF
  <1>1. RequestsInv => AnsweredWasDone
    BY DEF RequestsInv
  <1> QED
    BY <1>1, RequestsInvariant, PTL

(* A nonce opens one connection while it is remembered (NonceCache::accept). *)
THEOREM NoncesOnce == Spec => []NonceOnce
PROOF
  <1>1. RequestsInv => NonceOnce
    BY DEF RequestsInv
  <1> QED
    BY <1>1, RequestsInvariant, PTL
==============================================================================
