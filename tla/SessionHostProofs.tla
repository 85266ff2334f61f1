-------------------------- MODULE SessionHostProofs --------------------------
(***************************************************************************)
(* What a Session Host says of its exit is true, for any number of clients *)
(* and command ids, any channel and cache size and any number of faults.   *)
(***************************************************************************)
EXTENDS SessionHost, SequenceTheorems, TLAPS

(* The caches of the model: sequences of outcomes.                         *)
Outcomes == Seq([id : Ids \cup {None}, hash : Kinds])

(* What the clients ask for is known.                                      *)
LEMMA AsksKinds == \A c \in Clients : Asks[c] \subseteq Kinds
PROOF
  BY HostAssumption

(* Pruning drops the oldest entry and makes up no other.                   *)
LEMMA CachePruned ==
  ASSUME NEW cache \in Outcomes, cache # <<>>
  PROVE  /\ Pruned(cache) \in Outcomes
         /\ \A i \in DOMAIN Pruned(cache) : \E j \in DOMAIN cache : cache[j] = Pruned(cache)[i]
PROOF
  <1>1. \A i \in DOMAIN Tail(cache) : i + 1 \in DOMAIN cache /\ Tail(cache)[i] = cache[i + 1]
    BY DEF Outcomes
  <1> QED
    BY <1>1 DEF Pruned, Outcomes

(* Recording adds the entry, drops at most the oldest, and makes up no     *)
(* other.                                                                  *)
LEMMA CacheRecorded ==
  ASSUME NEW cache \in Outcomes, NEW id \in Ids \cup {None}, NEW kind \in Kinds
  PROVE  /\ Recorded(cache, id, kind) \in Outcomes
         /\ \A i \in DOMAIN Recorded(cache, id, kind) :
              \/ Recorded(cache, id, kind)[i].hash = kind
              \/ \E j \in DOMAIN cache : cache[j] = Recorded(cache, id, kind)[i]
PROOF
  <1> DEFINE entry == Outcome(id, kind)
             kept  == IF Len(cache) >= MaxOutcomes THEN Pruned(cache) ELSE cache
  <1>1. entry \in [id : Ids \cup {None}, hash : Kinds] /\ entry.hash = kind
    BY DEF Outcome
  <1>2. Len(cache) >= MaxOutcomes => cache # <<>>
    BY MaxOutcomesAssumption DEF Outcomes
  <1>3. kept \in Outcomes /\ \A i \in DOMAIN kept : \E j \in DOMAIN cache : cache[j] = kept[i]
    BY <1>2, CachePruned
  <1>4. Recorded(cache, id, kind) = Append(kept, entry)
    BY DEF Recorded, Pruned
  <1> HIDE DEF kept, entry
  <1>5. /\ Append(kept, entry) \in Outcomes
        /\ \A i \in DOMAIN Append(kept, entry) :
             Append(kept, entry)[i] = entry \/ (i \in DOMAIN kept /\ Append(kept, entry)[i] = kept[i])
    BY <1>1, <1>3 DEF Outcomes
  <1>6. \A i \in DOMAIN Append(kept, entry) :
          \/ Append(kept, entry)[i].hash = kind
          \/ \E j \in DOMAIN cache : cache[j] = Append(kept, entry)[i]
    BY <1>1, <1>3, <1>5
  <1> QED
    BY <1>4, <1>5, <1>6

(* Every step keeps the types, one group of variables at a time.            *)
LEMMA ChildStep ==
  ChildOK /\ [Next]_vars => ChildOK'
PROOF
  <1> SUFFICES ASSUME ChildOK, [Next]_vars
               PROVE  ChildOK'
      OBVIOUS
  <1>1. CASE UNCHANGED childVars
      BY <1>1 DEF ChildOK, childVars
  <1>2. CASE Write
      BY <1>2 DEF ChildOK, childVars, Write
  <1>3. CASE ChildEnds
      BY <1>3 DEF ChildOK, childVars, ChildEnds
  <1>4. CASE SlaveCloses
      BY <1>4 DEF ChildOK, childVars, SlaveCloses
  <1>5. CASE ReadPty
      BY <1>5 DEF ChildOK, childVars, ReadPty
  <1>6. CASE WatchExit
      BY <1>6 DEF ChildOK, childVars, WatchExit
  <1>7. CASE WatchCancel
      BY <1>7 DEF ChildOK, childVars, WatchCancel
  <1>8. CASE WaitKilled
      BY <1>8 DEF ChildOK, childVars, WaitKilled
  <1>9. ASSUME NEW c \in Clients, StopOwned(c) PROVE ChildOK'
      BY <1>9 DEF ChildOK, childVars, StopOwned, Signal, Fault
  <1>10. ASSUME NEW c \in Clients, Escalate(c) PROVE ChildOK'
      BY <1>10 DEF ChildOK, childVars, Escalate, Signal, Fault
  <1>11. \/ UNCHANGED childVars
         \/ Write \/ ChildEnds \/ SlaveCloses \/ ReadPty \/ WatchExit
         \/ WatchCancel \/ WaitKilled
         \/ \E c \in Clients : StopOwned(c) \/ Escalate(c)
      BY DEF Next, Environment, Failures, Reader, OutputLoop, Heartbeat, RunHost, Handler,
         Refusal, Client, Ended, vars, CancelHost, Expire, ReadFails, ProcessOutputFails,
         HeartbeatFails, MainFails, AcceptFails, ReadEof, ProcessOutput, OutputEnds,
         HeartbeatTick, ObserveQuietPrompt, HeartbeatRead, HeartbeatWrite, HeartbeatEnds,
         MarkExited, NoteExited, WaitForStopResponse, WaitGrace, WaitOwed, JoinOutput,
         SubmitExit, RecordExit, CancelTasks, JoinTasks, JoinFails, ProcessEnds, AcceptEnds,
         ReadRequest, WaitForExit, CloseConnection, Inspected, Answer, Malformed, Applied, ApplyFails,
         Connect, HangUp, Send
  <1> QED
      BY <1>1, <1>2, <1>3, <1>4, <1>5, <1>6, <1>7, <1>8, <1>9, <1>10, <1>11

(* The channel is never over its bound.                                    *)
LEMMA OutputStep ==
  OutputOK /\ [Next]_vars => OutputOK'
PROOF
  <1> SUFFICES ASSUME OutputOK, [Next]_vars
               PROVE  OutputOK'
      OBVIOUS
  <1>1. CASE UNCHANGED outVars
      BY <1>1 DEF OutputOK, outVars
  <1>2. CASE ReadFails
      BY <1>2, HostAssumption DEF OutputOK, outVars, ReadFails, Fault
  <1>3. CASE ProcessOutputFails
      BY <1>3, HostAssumption DEF OutputOK, outVars, ProcessOutputFails, Fault
  <1>4. CASE ReadPty
      BY <1>4, HostAssumption DEF OutputOK, outVars, ReadPty
  <1>5. CASE ReadEof
      BY <1>5, HostAssumption DEF OutputOK, outVars, ReadEof
  <1>6. CASE ProcessOutput
      BY <1>6, HostAssumption DEF OutputOK, outVars, ProcessOutput
  <1>7. CASE OutputEnds
      BY <1>7, HostAssumption DEF OutputOK, outVars, OutputEnds
  <1>8. CASE ObserveQuietPrompt
      BY <1>8, HostAssumption DEF OutputOK, outVars, ObserveQuietPrompt
  <1>9. \/ UNCHANGED outVars
        \/ ReadFails \/ ProcessOutputFails \/ ReadPty \/ ReadEof \/ ProcessOutput
        \/ OutputEnds \/ ObserveQuietPrompt
      BY DEF Next, Environment, Failures, Reader, OutputLoop, Heartbeat, RunHost, Handler,
         Refusal, Client, Ended, vars, Write, ChildEnds, SlaveCloses, CancelHost, Expire,
         HeartbeatFails, MainFails, AcceptFails, HeartbeatTick, HeartbeatRead, HeartbeatWrite,
         HeartbeatEnds, WatchExit, WatchCancel, WaitKilled, MarkExited, NoteExited,
         WaitForStopResponse, WaitGrace, WaitOwed, JoinOutput, SubmitExit, RecordExit,
         CancelTasks, JoinTasks, JoinFails, ProcessEnds, AcceptEnds, ReadRequest, StopOwned,
         WaitForExit, Escalate, CloseConnection, Inspected, Answer, Malformed, Applied, ApplyFails,
         Connect, HangUp, Send
  <1> QED
      BY <1>1, <1>2, <1>3, <1>4, <1>5, <1>6, <1>7, <1>8, <1>9

(* The Host's state and host.json.                                         *)
LEMMA MetadataStep ==
  OutputOK /\ MetadataOK /\ [Next]_vars => MetadataOK'
PROOF
  <1> SUFFICES ASSUME OutputOK /\ MetadataOK, [Next]_vars
               PROVE  MetadataOK'
      OBVIOUS
  <1>1. CASE UNCHANGED metaVars
      BY <1>1 DEF OutputOK, MetadataOK, Metadata, metaVars
  <1>2. CASE HeartbeatFails
      BY <1>2 DEF OutputOK, MetadataOK, Metadata, metaVars, HeartbeatFails, Fault, Resting,
         Fresh
  <1>3. CASE ProcessOutput
      BY <1>3 DEF OutputOK, MetadataOK, Metadata, metaVars, ProcessOutput
  <1>4. CASE HeartbeatTick
      BY <1>4 DEF OutputOK, MetadataOK, Metadata, metaVars, HeartbeatTick, Resting, Fresh
  <1>5. CASE ObserveQuietPrompt
      BY <1>5 DEF OutputOK, MetadataOK, Metadata, metaVars, ObserveQuietPrompt
  <1>6. CASE HeartbeatRead
      BY <1>6 DEF OutputOK, MetadataOK, Metadata, metaVars, HeartbeatRead
  <1>7. CASE HeartbeatWrite
      BY <1>7 DEF OutputOK, MetadataOK, Metadata, metaVars, HeartbeatWrite, Resting, Fresh
  <1>8. CASE HeartbeatEnds
      BY <1>8 DEF OutputOK, MetadataOK, Metadata, metaVars, HeartbeatEnds, Resting, Fresh
  <1>9. CASE MarkExited
      BY <1>9 DEF OutputOK, MetadataOK, Metadata, metaVars, MarkExited
  <1>10. CASE NoteExited
      BY <1>10 DEF OutputOK, MetadataOK, Metadata, metaVars, NoteExited
  <1>11. CASE SubmitExit
      BY <1>11 DEF OutputOK, MetadataOK, Metadata, metaVars, SubmitExit
  <1>12. CASE RecordExit
      BY <1>12 DEF OutputOK, MetadataOK, Metadata, metaVars, RecordExit
  <1>13. ASSUME NEW c \in Clients, StopOwned(c) PROVE MetadataOK'
      BY <1>13 DEF OutputOK, MetadataOK, Metadata, metaVars, StopOwned, Signal, Fault
  <1>14. \/ UNCHANGED metaVars
         \/ HeartbeatFails \/ ProcessOutput \/ HeartbeatTick \/ ObserveQuietPrompt \/ HeartbeatRead
         \/ HeartbeatWrite \/ HeartbeatEnds \/ MarkExited \/ NoteExited \/ SubmitExit
         \/ RecordExit
         \/ \E c \in Clients : StopOwned(c)
      BY DEF Next, Environment, Failures, Reader, OutputLoop, Heartbeat, RunHost, Handler,
         Refusal, Client, Ended, vars, Write, ChildEnds, SlaveCloses, CancelHost, Expire,
         ReadFails, ProcessOutputFails, MainFails, AcceptFails, ReadPty, ReadEof, OutputEnds,
         WatchExit, WatchCancel, WaitKilled, WaitForStopResponse, WaitGrace, WaitOwed,
         JoinOutput, CancelTasks, JoinTasks, JoinFails, ProcessEnds, AcceptEnds, ReadRequest,
         WaitForExit, Escalate, CloseConnection, Inspected, Answer, Malformed, Applied, ApplyFails,
         Connect, HangUp, Send
  <1> QED
      BY <1>1, <1>2, <1>3, <1>4, <1>5, <1>6, <1>7, <1>8, <1>9, <1>10, <1>11, <1>12, <1>13, <1>14

(* run_host.                                                               *)
LEMMA MainStep ==
  MainOK /\ [Next]_vars => MainOK'
PROOF
  <1> SUFFICES ASSUME MainOK, [Next]_vars
               PROVE  MainOK'
      OBVIOUS
  <1>1. CASE UNCHANGED mainVars
      BY <1>1 DEF MainOK, Watching, mainVars
  <1>2. CASE CancelHost
      BY <1>2 DEF MainOK, Watching, mainVars, CancelHost
  <1>3. CASE MainFails
      BY <1>3 DEF MainOK, Watching, mainVars, MainFails, Fault
  <1>4. CASE WatchExit
      BY <1>4 DEF MainOK, Watching, mainVars, WatchExit
  <1>5. CASE WatchCancel
      BY <1>5 DEF MainOK, Watching, mainVars, WatchCancel
  <1>6. CASE WaitKilled
      BY <1>6 DEF MainOK, Watching, mainVars, WaitKilled
  <1>7. CASE MarkExited
      BY <1>7 DEF MainOK, Watching, mainVars, MarkExited
  <1>8. CASE NoteExited
      BY <1>8 DEF MainOK, Watching, mainVars, NoteExited
  <1>9. CASE WaitForStopResponse
      BY <1>9 DEF MainOK, Watching, mainVars, WaitForStopResponse, WaitEnds
  <1>10. CASE WaitGrace
      BY <1>10 DEF MainOK, Watching, mainVars, WaitGrace, WaitEnds
  <1>11. CASE WaitOwed
      BY <1>11 DEF MainOK, Watching, mainVars, WaitOwed, WaitEnds
  <1>12. CASE JoinOutput
      BY <1>12 DEF MainOK, Watching, mainVars, JoinOutput
  <1>13. CASE SubmitExit
      BY <1>13 DEF MainOK, Watching, mainVars, SubmitExit
  <1>14. CASE RecordExit
      BY <1>14 DEF MainOK, Watching, mainVars, RecordExit
  <1>15. CASE CancelTasks
      BY <1>15 DEF MainOK, Watching, mainVars, CancelTasks
  <1>16. CASE JoinTasks
      BY <1>16 DEF MainOK, Watching, mainVars, JoinTasks
  <1>17. CASE JoinFails
      BY <1>17 DEF MainOK, Watching, mainVars, JoinFails
  <1>18. CASE ProcessEnds
      BY <1>18 DEF MainOK, Watching, mainVars, ProcessEnds
  <1>19. \/ UNCHANGED mainVars
         \/ CancelHost \/ MainFails \/ WatchExit \/ WatchCancel \/ WaitKilled
         \/ MarkExited \/ NoteExited \/ WaitForStopResponse \/ WaitGrace \/ WaitOwed
         \/ JoinOutput \/ SubmitExit \/ RecordExit \/ CancelTasks \/ JoinTasks
         \/ JoinFails \/ ProcessEnds
      BY DEF Next, Environment, Failures, Reader, OutputLoop, Heartbeat, RunHost, Handler,
         Refusal, Client, Ended, vars, Write, ChildEnds, SlaveCloses, Expire, ReadFails,
         ProcessOutputFails, HeartbeatFails, AcceptFails, ReadPty, ReadEof, ProcessOutput,
         OutputEnds, HeartbeatTick, ObserveQuietPrompt, HeartbeatRead, HeartbeatWrite,
         HeartbeatEnds, AcceptEnds, ReadRequest, StopOwned, WaitForExit, Escalate,
         CloseConnection, Inspected, Answer, Malformed, Applied, ApplyFails, Connect, HangUp, Send
  <1> QED
      BY <1>1, <1>2, <1>3, <1>4, <1>5, <1>6, <1>7, <1>8, <1>9, <1>10, <1>11, <1>12, <1>13,
         <1>14, <1>15, <1>16, <1>17, <1>18, <1>19

(* The connections.                                                        *)
LEMMA ConnectionsStep ==
  ConnectionsOK /\ [Next]_vars => ConnectionsOK'
PROOF
  <1> SUFFICES ASSUME ConnectionsOK, [Next]_vars
               PROVE  ConnectionsOK'
      OBVIOUS
  <1>1. CASE UNCHANGED connVars
      BY <1>1 DEF ConnectionsOK, Signalled, Answering, Request, Kinds, connVars
  <1>2. CASE Expire
    <2>1. outcomes' \in Seq([id : Ids \cup {None}, hash : Kinds])
      BY <1>2, CachePruned DEF Expire, ConnectionsOK, Outcomes
    <2> QED
      BY <1>2, <2>1 DEF ConnectionsOK, Expire
  <1>3. CASE AcceptFails
      BY <1>3 DEF ConnectionsOK, Signalled, Answering, Request, Kinds, connVars, AcceptFails,
         Owed, Unanswered, Fault
  <1>4. CASE ProcessEnds
      BY <1>4 DEF ConnectionsOK, Signalled, Answering, Request, Kinds, connVars, ProcessEnds
  <1>5. CASE AcceptEnds
      BY <1>5 DEF ConnectionsOK, Signalled, Answering, Request, Kinds, connVars, AcceptEnds
  <1>6. ASSUME NEW c \in Clients, ReadRequest(c) PROVE ConnectionsOK'
      BY <1>6 DEF ConnectionsOK, Signalled, Answering, Request, Kinds, connVars, ReadRequest
  <1>7. ASSUME NEW c \in Clients, StopOwned(c) PROVE ConnectionsOK'
      BY <1>7 DEF ConnectionsOK, Signalled, Answering, Request, Kinds, connVars, StopOwned,
         Signal, Fault
  <1>8. ASSUME NEW c \in Clients, WaitForExit(c) PROVE ConnectionsOK'
    <2>1. outcomes' \in Seq([id : Ids \cup {None}, hash : Kinds])
      BY <1>8, CacheRecorded DEF WaitForExit, ConnectionsOK, Outcomes, Request
    <2> QED
      BY <1>8, <2>1 DEF ConnectionsOK, WaitForExit, Signalled, Answering
  <1>8a. ASSUME NEW c \in Clients, Applied(c) PROVE ConnectionsOK'
    <2>1. outcomes' \in Seq([id : Ids \cup {None}, hash : Kinds])
      BY <1>8a, CacheRecorded DEF Applied, ConnectionsOK, Outcomes, Request
    <2> QED
      BY <1>8a, <2>1 DEF ConnectionsOK, Applied, Signalled, Answering
  <1>9. ASSUME NEW c \in Clients, Escalate(c) PROVE ConnectionsOK'
      BY <1>9 DEF ConnectionsOK, Signalled, Answering, Request, Kinds, connVars, Escalate,
         Signal, Fault
  <1>10. ASSUME NEW c \in Clients, CloseConnection(c) PROVE ConnectionsOK'
      BY <1>10 DEF ConnectionsOK, Signalled, Answering, Request, Kinds, connVars,
         CloseConnection, Leave, Unanswered, Owed
  <1>11. ASSUME NEW c \in Clients, Inspected(c) PROVE ConnectionsOK'
    <2>1. outcomes' \in Seq([id : Ids \cup {None}, hash : Kinds])
      BY <1>11, CacheRecorded DEF Inspected, ConnectionsOK, Outcomes, Request
    <2> QED
      BY <1>11, <2>1 DEF ConnectionsOK, Inspected, Signalled, Answering
  <1>12. ASSUME NEW c \in Clients, Answer(c) PROVE ConnectionsOK'
      BY <1>12 DEF ConnectionsOK, Signalled, Answering, Request, Kinds, connVars, Answer, Leave,
         Owed
  <1>13. ASSUME NEW c \in Clients, Malformed(c) PROVE ConnectionsOK'
      BY <1>13 DEF ConnectionsOK, Signalled, Answering, Request, Kinds, connVars, Malformed,
         Leave, Owed, Fault
  <1>14. ASSUME NEW c \in Clients, ApplyFails(c) PROVE ConnectionsOK'
      BY <1>14 DEF ConnectionsOK, Signalled, Answering, Request, Kinds, connVars, ApplyFails,
         Leave, Owed, Fault
  <1>15. ASSUME NEW c \in Clients, Connect(c) PROVE ConnectionsOK'
      BY <1>15 DEF ConnectionsOK, Signalled, Answering, Request, Kinds, connVars, Connect
  <1>16. ASSUME NEW c \in Clients, HangUp(c) PROVE ConnectionsOK'
      BY <1>16 DEF ConnectionsOK, Signalled, Answering, Request, Kinds, connVars, HangUp, Leave,
         Owed
  <1>17. ASSUME NEW c \in Clients, NEW id \in Ids, NEW kind \in Kinds, Send(c, id, kind)
         PROVE  ConnectionsOK'
      BY <1>17 DEF ConnectionsOK, Signalled, Answering, Request, Kinds, connVars, Send
  <1>18. \/ UNCHANGED connVars
         \/ Expire \/ AcceptFails \/ ProcessEnds \/ AcceptEnds
         \/ \E c \in Clients : ReadRequest(c) \/ StopOwned(c) \/ WaitForExit(c) \/ Applied(c) \/ Escalate(c)
         \/ \E c \in Clients : CloseConnection(c) \/ Inspected(c) \/ Answer(c) \/ Malformed(c)
         \/ \E c \in Clients : ApplyFails(c) \/ Connect(c) \/ HangUp(c)
         \/ \E c \in Clients, id \in Ids, kind \in Kinds : Send(c, id, kind)
      BY AsksKinds DEF Next, Environment, Failures, Reader, OutputLoop, Heartbeat, RunHost, Handler,
         Refusal, Client, Ended, vars, Write, ChildEnds, SlaveCloses, CancelHost, ReadFails,
         ProcessOutputFails, HeartbeatFails, MainFails, ReadPty, ReadEof, ProcessOutput,
         OutputEnds, HeartbeatTick, ObserveQuietPrompt, HeartbeatRead, HeartbeatWrite,
         HeartbeatEnds, WatchExit, WatchCancel, WaitKilled, MarkExited, NoteExited,
         WaitForStopResponse, WaitGrace, WaitOwed, JoinOutput, SubmitExit, RecordExit,
         CancelTasks, JoinTasks, JoinFails
  <1> QED
      BY <1>1, <1>2, <1>3, <1>4, <1>5, <1>6, <1>7, <1>8, <1>8a, <1>9, <1>10, <1>11, <1>12, <1>13,
         <1>14, <1>15, <1>16, <1>17, <1>18

(* The bounds.                                                             *)
LEMMA BoundsStep ==
  ticks \in Nat /\ faults \in Nat /\ [Next]_vars => (ticks \in Nat /\ faults \in Nat)'
PROOF
  <1> SUFFICES ASSUME ticks \in Nat /\ faults \in Nat, [Next]_vars
               PROVE  (ticks \in Nat /\ faults \in Nat)'
      OBVIOUS
  <1>1. CASE UNCHANGED bounds
      BY <1>1 DEF bounds
  <1>2. CASE ReadFails
      BY <1>2 DEF bounds, ReadFails, Fault
  <1>3. CASE ProcessOutputFails
      BY <1>3 DEF bounds, ProcessOutputFails, Fault
  <1>4. CASE HeartbeatFails
      BY <1>4 DEF bounds, HeartbeatFails, Fault, Resting, Fresh
  <1>5. CASE MainFails
      BY <1>5 DEF bounds, MainFails, Fault
  <1>6. CASE AcceptFails
      BY <1>6 DEF bounds, AcceptFails, Owed, Unanswered, Fault
  <1>7. CASE HeartbeatTick
      BY <1>7 DEF bounds, HeartbeatTick, Resting, Fresh
  <1>8. ASSUME NEW c \in Clients, StopOwned(c) PROVE (ticks \in Nat /\ faults \in Nat)'
      BY <1>8 DEF bounds, StopOwned, Signal, Fault
  <1>9. ASSUME NEW c \in Clients, Escalate(c) PROVE (ticks \in Nat /\ faults \in Nat)'
      BY <1>9 DEF bounds, Escalate, Signal, Fault
  <1>10. ASSUME NEW c \in Clients, Malformed(c) PROVE (ticks \in Nat /\ faults \in Nat)'
      BY <1>10 DEF bounds, Malformed, Leave, Owed, Fault
  <1>11. ASSUME NEW c \in Clients, ApplyFails(c) PROVE (ticks \in Nat /\ faults \in Nat)'
      BY <1>11 DEF bounds, ApplyFails, Leave, Owed, Fault
  <1>12. \/ UNCHANGED bounds
         \/ ReadFails \/ ProcessOutputFails \/ HeartbeatFails \/ MainFails \/ AcceptFails
         \/ HeartbeatTick
         \/ \E c \in Clients : StopOwned(c) \/ Escalate(c) \/ Malformed(c) \/ ApplyFails(c)
      BY DEF Next, Environment, Failures, Reader, OutputLoop, Heartbeat, RunHost, Handler,
         Refusal, Client, Ended, vars, Write, ChildEnds, SlaveCloses, CancelHost, Expire,
         ReadPty, ReadEof, ProcessOutput, OutputEnds, ObserveQuietPrompt, HeartbeatRead,
         HeartbeatWrite, HeartbeatEnds, WatchExit, WatchCancel, WaitKilled, MarkExited,
         NoteExited, WaitForStopResponse, WaitGrace, WaitOwed, JoinOutput, SubmitExit,
         RecordExit, CancelTasks, JoinTasks, JoinFails, ProcessEnds, AcceptEnds, ReadRequest,
         WaitForExit, CloseConnection, Inspected, Applied, Answer, Connect, HangUp, Send
  <1> QED
      BY <1>1, <1>2, <1>3, <1>4, <1>5, <1>6, <1>7, <1>8, <1>9, <1>10, <1>11, <1>12

(* run_host reaps the child before it marks the exit.                      *)
LEMMA ReapedStep ==
  Reaped /\ [Next]_vars => Reaped'
PROOF
  <1> SUFFICES ASSUME Reaped, [Next]_vars
               PROVE  Reaped'
      OBVIOUS
  <1>1. CASE UNCHANGED <<child, exited, main>>
      BY <1>1 DEF Reaped, Watching, childVars, metaVars, mainVars
  <1>2. CASE ChildEnds
      BY <1>2 DEF Reaped, Watching, childVars, metaVars, mainVars, ChildEnds
  <1>3. CASE MainFails
      BY <1>3 DEF Reaped, Watching, childVars, metaVars, mainVars, MainFails, Fault
  <1>4. CASE WatchExit
      BY <1>4 DEF Reaped, Watching, childVars, metaVars, mainVars, WatchExit
  <1>5. CASE WatchCancel
      BY <1>5 DEF Reaped, Watching, childVars, metaVars, mainVars, WatchCancel
  <1>6. CASE WaitKilled
      BY <1>6 DEF Reaped, Watching, childVars, metaVars, mainVars, WaitKilled
  <1>7. CASE MarkExited
      BY <1>7 DEF Reaped, Watching, childVars, metaVars, mainVars, MarkExited
  <1>8. CASE NoteExited
      BY <1>8 DEF Reaped, Watching, childVars, metaVars, mainVars, NoteExited
  <1>9. CASE WaitForStopResponse
      BY <1>9 DEF Reaped, Watching, childVars, metaVars, mainVars, WaitForStopResponse, WaitEnds
  <1>10. CASE WaitGrace
      BY <1>10 DEF Reaped, Watching, childVars, metaVars, mainVars, WaitGrace, WaitEnds
  <1>11. CASE WaitOwed
      BY <1>11 DEF Reaped, Watching, childVars, metaVars, mainVars, WaitOwed, WaitEnds
  <1>12. CASE JoinOutput
      BY <1>12 DEF Reaped, Watching, childVars, metaVars, mainVars, JoinOutput
  <1>13. CASE SubmitExit
      BY <1>13 DEF Reaped, Watching, childVars, metaVars, mainVars, SubmitExit
  <1>14. CASE RecordExit
      BY <1>14 DEF Reaped, Watching, childVars, metaVars, mainVars, RecordExit
  <1>15. CASE CancelTasks
      BY <1>15 DEF Reaped, Watching, childVars, metaVars, mainVars, CancelTasks
  <1>16. CASE JoinTasks
      BY <1>16 DEF Reaped, Watching, childVars, metaVars, mainVars, JoinTasks
  <1>17. CASE JoinFails
      BY <1>17 DEF Reaped, Watching, childVars, metaVars, mainVars, JoinFails
  <1>18. \/ UNCHANGED <<child, exited, main>>
         \/ ChildEnds \/ MainFails \/ WatchExit \/ WatchCancel \/ WaitKilled
         \/ MarkExited \/ NoteExited \/ WaitForStopResponse \/ WaitGrace \/ WaitOwed
         \/ JoinOutput \/ SubmitExit \/ RecordExit \/ CancelTasks \/ JoinTasks
         \/ JoinFails
      BY DEF Next, Environment, Failures, Reader, OutputLoop, Heartbeat, RunHost, Handler,
         Refusal, Client, Ended, vars, childVars, metaVars, mainVars, Write, SlaveCloses,
         CancelHost, Expire, ReadFails, ProcessOutputFails, HeartbeatFails, AcceptFails,
         ReadPty, ReadEof, ProcessOutput, OutputEnds, HeartbeatTick, ObserveQuietPrompt,
         HeartbeatRead, HeartbeatWrite, HeartbeatEnds, ProcessEnds, AcceptEnds, ReadRequest,
         StopOwned, WaitForExit, Escalate, CloseConnection, Inspected, Applied, Answer, Malformed,
         ApplyFails, Connect, HangUp, Send
  <1> QED
      BY <1>1, <1>2, <1>3, <1>4, <1>5, <1>6, <1>7, <1>8, <1>9, <1>10, <1>11, <1>12, <1>13,
         <1>14, <1>15, <1>16, <1>17, <1>18

(* What a stop's handler is about to answer, it saw or the cache remembers. *)
LEMMA AnswersStep ==
  ConnectionsOK /\ ExitIsTrue /\ AnswersExit /\ [Next]_vars => AnswersExit'
PROOF
  <1> SUFFICES ASSUME ConnectionsOK /\ ExitIsTrue /\ AnswersExit, [Next]_vars
               PROVE  AnswersExit'
      OBVIOUS
  <1>1. CASE UNCHANGED <<exited, pc, req>>
      BY <1>1 DEF ConnectionsOK, AnswersExit, IsStop, Signalled, Answering, metaVars, connVars
  <1>2. CASE AcceptFails
      BY <1>2 DEF ConnectionsOK, AnswersExit, IsStop, Signalled, Answering, metaVars, connVars,
         AcceptFails, Owed, Unanswered, Fault
  <1>3. CASE MarkExited
      BY <1>3 DEF ConnectionsOK, AnswersExit, IsStop, Signalled, Answering, metaVars, connVars,
         MarkExited
  <1>4. CASE ProcessEnds
      BY <1>4 DEF ConnectionsOK, AnswersExit, IsStop, Signalled, Answering, metaVars, connVars,
         ProcessEnds
  <1>5. ASSUME NEW c \in Clients, ReadRequest(c) PROVE AnswersExit'
      BY <1>5 DEF ConnectionsOK, AnswersExit, IsStop, Signalled, Answering, metaVars, connVars,
         ReadRequest
  <1>6. ASSUME NEW c \in Clients, StopOwned(c) PROVE AnswersExit'
      BY <1>6 DEF ConnectionsOK, AnswersExit, IsStop, Signalled, Answering, metaVars, connVars,
         StopOwned, Signal, Fault
  <1>7. ASSUME NEW c \in Clients, WaitForExit(c) PROVE AnswersExit'
      BY <1>7 DEF ConnectionsOK, AnswersExit, IsStop, Signalled, Answering, metaVars, connVars,
         WaitForExit
  <1>7a. ASSUME NEW c \in Clients, Applied(c) PROVE AnswersExit'
      BY <1>7a DEF ConnectionsOK, AnswersExit, IsStop, Signalled, Answering, metaVars, connVars,
         Applied
  <1>8. ASSUME NEW c \in Clients, Escalate(c) PROVE AnswersExit'
      BY <1>8 DEF ConnectionsOK, AnswersExit, IsStop, Signalled, Answering, metaVars, connVars,
         Escalate, Signal, Fault
  <1>9. ASSUME NEW c \in Clients, CloseConnection(c) PROVE AnswersExit'
      BY <1>9 DEF ConnectionsOK, AnswersExit, IsStop, Signalled, Answering, metaVars, connVars,
         CloseConnection, Leave, Unanswered, Owed
  <1>10. ASSUME NEW c \in Clients, Inspected(c) PROVE AnswersExit'
    <2>1. CASE Inspect(outcomes, req[c].id, req[c].kind) = "replay"
      <3>1. \E i \in DOMAIN outcomes : outcomes[i].hash = req[c].kind
        BY <2>1 DEF Inspect, Outcome
      <3>2. IsStop(c) => exited
        BY <3>1 DEF ExitIsTrue, IsStop
      <3> QED
        BY <1>10, <3>2 DEF Inspected, ConnectionsOK, AnswersExit, IsStop, metaVars, connVars
    <2>2. CASE Inspect(outcomes, req[c].id, req[c].kind) # "replay"
      BY <1>10, <2>2 DEF Inspected, ConnectionsOK, AnswersExit, IsStop, metaVars, connVars
    <2> QED
      BY <2>1, <2>2
  <1>11. ASSUME NEW c \in Clients, Answer(c) PROVE AnswersExit'
      BY <1>11 DEF ConnectionsOK, AnswersExit, IsStop, Signalled, Answering, metaVars, connVars,
         Answer, Leave, Owed
  <1>12. ASSUME NEW c \in Clients, Malformed(c) PROVE AnswersExit'
      BY <1>12 DEF ConnectionsOK, AnswersExit, IsStop, Signalled, Answering, metaVars, connVars,
         Malformed, Leave, Owed, Fault
  <1>13. ASSUME NEW c \in Clients, ApplyFails(c) PROVE AnswersExit'
      BY <1>13 DEF ConnectionsOK, AnswersExit, IsStop, Signalled, Answering, metaVars, connVars,
         ApplyFails, Leave, Owed, Fault
  <1>14. ASSUME NEW c \in Clients, Connect(c) PROVE AnswersExit'
      BY <1>14 DEF ConnectionsOK, AnswersExit, IsStop, Signalled, Answering, metaVars, connVars,
         Connect
  <1>15. ASSUME NEW c \in Clients, HangUp(c) PROVE AnswersExit'
      BY <1>15 DEF ConnectionsOK, AnswersExit, IsStop, Signalled, Answering, metaVars, connVars,
         HangUp, Leave, Owed
  <1>16. ASSUME NEW c \in Clients, NEW id \in Ids, NEW kind \in Kinds, Send(c, id, kind)
         PROVE  AnswersExit'
      BY <1>16 DEF ConnectionsOK, AnswersExit, IsStop, Signalled, Answering, metaVars, connVars,
         Send
  <1>17. \/ UNCHANGED <<exited, pc, req>>
         \/ AcceptFails \/ MarkExited \/ ProcessEnds
         \/ \E c \in Clients : ReadRequest(c) \/ StopOwned(c) \/ WaitForExit(c) \/ Applied(c) \/ Escalate(c)
         \/ \E c \in Clients : CloseConnection(c) \/ Inspected(c) \/ Answer(c) \/ Malformed(c)
         \/ \E c \in Clients : ApplyFails(c) \/ Connect(c) \/ HangUp(c)
         \/ \E c \in Clients, id \in Ids, kind \in Kinds : Send(c, id, kind)
      BY AsksKinds DEF Next, Environment, Failures, Reader, OutputLoop, Heartbeat, RunHost, Handler,
         Refusal, Client, Ended, vars, metaVars, connVars, Write, ChildEnds, SlaveCloses,
         CancelHost, Expire, ReadFails, ProcessOutputFails, HeartbeatFails, MainFails, ReadPty,
         ReadEof, ProcessOutput, OutputEnds, HeartbeatTick, ObserveQuietPrompt, HeartbeatRead,
         HeartbeatWrite, HeartbeatEnds, WatchExit, WatchCancel, WaitKilled, NoteExited,
         WaitForStopResponse, WaitGrace, WaitOwed, JoinOutput, SubmitExit, RecordExit,
         CancelTasks, JoinTasks, JoinFails, AcceptEnds
  <1> QED
      BY <1>1, <1>2, <1>3, <1>4, <1>5, <1>6, <1>7, <1>7a, <1>8, <1>9, <1>10, <1>11, <1>12, <1>13,
         <1>14, <1>15, <1>16, <1>17

(* What the Host says of the exit stays true.                              *)
LEMMA ExitStep ==
  MetadataOK /\ ConnectionsOK /\ Reaped /\ Reaped' /\ AnswersExit /\ ExitIsTrue /\ [Next]_vars => ExitIsTrue'
PROOF
  <1> SUFFICES ASSUME MetadataOK /\ ConnectionsOK /\ Reaped /\ Reaped' /\ AnswersExit /\ ExitIsTrue, [Next]_vars
               PROVE  ExitIsTrue'
      OBVIOUS
  <1>1. CASE UNCHANGED <<child, exited, lifecycle, disk, hb, reply, req, outcomes>>
      BY <1>1 DEF MetadataOK, ConnectionsOK, Metadata, Reaped, AnswersExit, ExitIsTrue,
         Watching, IsStop, Answering, childVars, metaVars, mainVars, connVars
  <1>2. CASE ChildEnds
      BY <1>2 DEF MetadataOK, ConnectionsOK, Metadata, Reaped, AnswersExit, ExitIsTrue,
         Watching, IsStop, Answering, childVars, metaVars, mainVars, connVars, ChildEnds
  <1>3. CASE Expire
    <2>1. \A i \in DOMAIN outcomes' : \E j \in DOMAIN outcomes : outcomes[j] = outcomes'[i]
      BY <1>3, CachePruned DEF Expire, ConnectionsOK, Outcomes
    <2> QED
      BY <1>3, <2>1 DEF ExitIsTrue, Expire, IsStop, childVars, metaVars
  <1>4. CASE HeartbeatFails
      BY <1>4 DEF MetadataOK, ConnectionsOK, Metadata, Reaped, AnswersExit, ExitIsTrue,
         Watching, IsStop, Answering, childVars, metaVars, mainVars, connVars, HeartbeatFails,
         Fault, Resting, Fresh
  <1>5. CASE AcceptFails
      BY <1>5 DEF MetadataOK, ConnectionsOK, Metadata, Reaped, AnswersExit, ExitIsTrue,
         Watching, IsStop, Answering, childVars, metaVars, mainVars, connVars, AcceptFails,
         Owed, Unanswered, Fault
  <1>6. CASE HeartbeatTick
      BY <1>6 DEF MetadataOK, ConnectionsOK, Metadata, Reaped, AnswersExit, ExitIsTrue,
         Watching, IsStop, Answering, childVars, metaVars, mainVars, connVars, HeartbeatTick,
         Resting, Fresh
  <1>7. CASE HeartbeatRead
      BY <1>7 DEF MetadataOK, ConnectionsOK, Metadata, Reaped, AnswersExit, ExitIsTrue,
         Watching, IsStop, Answering, childVars, metaVars, mainVars, connVars, HeartbeatRead
  <1>8. CASE HeartbeatWrite
      BY <1>8 DEF MetadataOK, ConnectionsOK, Metadata, Reaped, AnswersExit, ExitIsTrue,
         Watching, IsStop, Answering, childVars, metaVars, mainVars, connVars, HeartbeatWrite,
         Resting, Fresh
  <1>9. CASE HeartbeatEnds
      BY <1>9 DEF MetadataOK, ConnectionsOK, Metadata, Reaped, AnswersExit, ExitIsTrue,
         Watching, IsStop, Answering, childVars, metaVars, mainVars, connVars, HeartbeatEnds,
         Resting, Fresh
  <1>10. CASE WatchExit
      BY <1>10 DEF MetadataOK, ConnectionsOK, Metadata, Reaped, AnswersExit, ExitIsTrue,
         Watching, IsStop, Answering, childVars, metaVars, mainVars, connVars, WatchExit
  <1>11. CASE WaitKilled
      BY <1>11 DEF MetadataOK, ConnectionsOK, Metadata, Reaped, AnswersExit, ExitIsTrue,
         Watching, IsStop, Answering, childVars, metaVars, mainVars, connVars, WaitKilled
  <1>12. CASE MarkExited
      BY <1>12 DEF MetadataOK, ConnectionsOK, Metadata, Reaped, AnswersExit, ExitIsTrue,
         Watching, IsStop, Answering, childVars, metaVars, mainVars, connVars, MarkExited
  <1>13. CASE NoteExited
      BY <1>13 DEF MetadataOK, ConnectionsOK, Metadata, Reaped, AnswersExit, ExitIsTrue,
         Watching, IsStop, Answering, childVars, metaVars, mainVars, connVars, NoteExited
  <1>14. CASE RecordExit
      BY <1>14 DEF MetadataOK, ConnectionsOK, Metadata, Reaped, AnswersExit, ExitIsTrue,
         Watching, IsStop, Answering, childVars, metaVars, mainVars, connVars, RecordExit
  <1>15. CASE ProcessEnds
      BY <1>15 DEF MetadataOK, ConnectionsOK, Metadata, Reaped, AnswersExit, ExitIsTrue,
         Watching, IsStop, Answering, childVars, metaVars, mainVars, connVars, ProcessEnds
  <1>16. ASSUME NEW c \in Clients, StopOwned(c) PROVE ExitIsTrue'
      BY <1>16 DEF MetadataOK, ConnectionsOK, Metadata, Reaped, AnswersExit, ExitIsTrue,
         Watching, IsStop, Answering, childVars, metaVars, mainVars, connVars, StopOwned,
         Signal, Fault
  <1>17. ASSUME NEW c \in Clients, WaitForExit(c) PROVE ExitIsTrue'
      BY <1>17 DEF WaitForExit, Reaped, ExitIsTrue, childVars, metaVars
  <1>17a. ASSUME NEW c \in Clients, Applied(c) PROVE ExitIsTrue'
    <2>1. \A i \in DOMAIN outcomes' :
            outcomes'[i].hash = "other" \/ \E j \in DOMAIN outcomes : outcomes[j] = outcomes'[i]
      <3>1. req[c].id \in Ids \cup {None} /\ req[c].kind = "other" /\ outcomes \in Outcomes
        BY <1>17a DEF Applied, AnswersExit, ConnectionsOK, Outcomes, Request, IsStop
      <3> QED
        BY <1>17a, <3>1, CacheRecorded DEF Applied, Kinds
    <2> QED
      BY <1>17a, <2>1 DEF ExitIsTrue, Applied, IsStop, childVars, metaVars
  <1>18. ASSUME NEW c \in Clients, CloseConnection(c) PROVE ExitIsTrue'
      BY <1>18 DEF MetadataOK, ConnectionsOK, Metadata, Reaped, AnswersExit, ExitIsTrue,
         Watching, IsStop, Answering, childVars, metaVars, mainVars, connVars, CloseConnection,
         Leave, Unanswered, Owed
  <1>19. ASSUME NEW c \in Clients, Inspected(c) PROVE ExitIsTrue'
    <2>1. CASE outcomes' = outcomes
      BY <1>19, <2>1 DEF ExitIsTrue, Inspected, IsStop, childVars, metaVars
    <2>2. CASE IsStop(c) /\ outcomes' # outcomes
      BY <1>19, <2>2 DEF Inspected, Reaped, ExitIsTrue, childVars, metaVars
    <2> QED
      BY <1>19, <2>1, <2>2 DEF Inspected
  <1>20. ASSUME NEW c \in Clients, Answer(c) PROVE ExitIsTrue'
      BY <1>20 DEF MetadataOK, ConnectionsOK, Metadata, Reaped, AnswersExit, ExitIsTrue,
         Watching, IsStop, Answering, childVars, metaVars, mainVars, connVars, Answer, Leave,
         Owed
  <1>21. ASSUME NEW c \in Clients, Malformed(c) PROVE ExitIsTrue'
      BY <1>21 DEF MetadataOK, ConnectionsOK, Metadata, Reaped, AnswersExit, ExitIsTrue,
         Watching, IsStop, Answering, childVars, metaVars, mainVars, connVars, Malformed, Leave,
         Owed, Fault
  <1>22. ASSUME NEW c \in Clients, ApplyFails(c) PROVE ExitIsTrue'
      BY <1>22 DEF MetadataOK, ConnectionsOK, Metadata, Reaped, AnswersExit, ExitIsTrue,
         Watching, IsStop, Answering, childVars, metaVars, mainVars, connVars, ApplyFails,
         Leave, Owed, Fault
  <1>23. ASSUME NEW c \in Clients, Connect(c) PROVE ExitIsTrue'
      BY <1>23 DEF MetadataOK, ConnectionsOK, Metadata, Reaped, AnswersExit, ExitIsTrue,
         Watching, IsStop, Answering, childVars, metaVars, mainVars, connVars, Connect
  <1>24. ASSUME NEW c \in Clients, HangUp(c) PROVE ExitIsTrue'
      BY <1>24 DEF MetadataOK, ConnectionsOK, Metadata, Reaped, AnswersExit, ExitIsTrue,
         Watching, IsStop, Answering, childVars, metaVars, mainVars, connVars, HangUp, Leave,
         Owed
  <1>25. ASSUME NEW c \in Clients, NEW id \in Ids, NEW kind \in Kinds, Send(c, id, kind)
         PROVE  ExitIsTrue'
      BY <1>25 DEF MetadataOK, ConnectionsOK, Metadata, Reaped, AnswersExit, ExitIsTrue,
         Watching, IsStop, Answering, childVars, metaVars, mainVars, connVars, Send
  <1>26. \/ UNCHANGED <<child, exited, lifecycle, disk, hb, reply, req, outcomes>>
         \/ ChildEnds \/ Expire \/ HeartbeatFails \/ AcceptFails \/ HeartbeatTick
         \/ HeartbeatRead \/ HeartbeatWrite \/ HeartbeatEnds \/ WatchExit \/ WaitKilled
         \/ MarkExited \/ NoteExited \/ RecordExit \/ ProcessEnds
         \/ \E c \in Clients : StopOwned(c) \/ WaitForExit(c) \/ Applied(c) \/ CloseConnection(c) \/ Inspected(c)
         \/ \E c \in Clients : Answer(c) \/ Malformed(c) \/ ApplyFails(c) \/ Connect(c)
         \/ \E c \in Clients : HangUp(c)
         \/ \E c \in Clients, id \in Ids, kind \in Kinds : Send(c, id, kind)
      BY AsksKinds DEF Next, Environment, Failures, Reader, OutputLoop, Heartbeat, RunHost, Handler,
         Refusal, Client, Ended, vars, childVars, metaVars, connVars, Write, SlaveCloses,
         CancelHost, ReadFails, ProcessOutputFails, MainFails, ReadPty, ReadEof, ProcessOutput,
         OutputEnds, ObserveQuietPrompt, WatchCancel, WaitForStopResponse, WaitGrace, WaitOwed,
         JoinOutput, SubmitExit, CancelTasks, JoinTasks, JoinFails, AcceptEnds, ReadRequest,
         Escalate
  <1> QED
      BY <1>1, <1>2, <1>3, <1>4, <1>5, <1>6, <1>7, <1>8, <1>9, <1>10, <1>11, <1>12, <1>13,
         <1>14, <1>15, <1>16, <1>17, <1>17a, <1>18, <1>19, <1>20, <1>21, <1>22, <1>23, <1>24, <1>25,
         <1>26

(* No chunk is lost between the terminal and the journal.                   *)
LEMMA AccountedStep ==
  ChildOK /\ OutputOK /\ Accounted /\ [Next]_vars => Accounted'
PROOF
  <1> SUFFICES ASSUME ChildOK /\ OutputOK /\ Accounted, [Next]_vars
               PROVE  Accounted'
      OBVIOUS
  <1>1. CASE UNCHANGED <<slave, unread, written, reader, queue, output, processed, main>>
      BY <1>1 DEF ChildOK, OutputOK, Accounted, Watching, childVars, outVars, mainVars
  <1>2. CASE Write
      BY <1>2 DEF ChildOK, OutputOK, Accounted, Watching, childVars, outVars, mainVars, Write
  <1>3. CASE SlaveCloses
      BY <1>3 DEF ChildOK, OutputOK, Accounted, Watching, childVars, outVars, mainVars,
         SlaveCloses
  <1>4. CASE ReadFails
      BY <1>4 DEF ChildOK, OutputOK, Accounted, Watching, childVars, outVars, mainVars,
         ReadFails, Fault
  <1>5. CASE ProcessOutputFails
      BY <1>5 DEF ChildOK, OutputOK, Accounted, Watching, childVars, outVars, mainVars,
         ProcessOutputFails, Fault
  <1>6. CASE MainFails
      BY <1>6 DEF ChildOK, OutputOK, Accounted, Watching, childVars, outVars, mainVars,
         MainFails, Fault
  <1>7. CASE ReadPty
      BY <1>7 DEF ChildOK, OutputOK, Accounted, Watching, childVars, outVars, mainVars, ReadPty
  <1>8. CASE ReadEof
      BY <1>8 DEF ChildOK, OutputOK, Accounted, Watching, childVars, outVars, mainVars, ReadEof
  <1>9. CASE ProcessOutput
      BY <1>9 DEF ChildOK, OutputOK, Accounted, Watching, childVars, outVars, mainVars,
         ProcessOutput
  <1>10. CASE OutputEnds
      BY <1>10 DEF ChildOK, OutputOK, Accounted, Watching, childVars, outVars, mainVars,
         OutputEnds
  <1>11. CASE WatchExit
      BY <1>11 DEF ChildOK, OutputOK, Accounted, Watching, childVars, outVars, mainVars,
         WatchExit
  <1>12. CASE WatchCancel
      BY <1>12 DEF ChildOK, OutputOK, Accounted, Watching, childVars, outVars, mainVars,
         WatchCancel
  <1>13. CASE WaitKilled
      BY <1>13 DEF ChildOK, OutputOK, Accounted, Watching, childVars, outVars, mainVars,
         WaitKilled
  <1>14. CASE MarkExited
      BY <1>14 DEF ChildOK, OutputOK, Accounted, Watching, childVars, outVars, mainVars,
         MarkExited
  <1>15. CASE NoteExited
      BY <1>15 DEF ChildOK, OutputOK, Accounted, Watching, childVars, outVars, mainVars,
         NoteExited
  <1>16. CASE WaitForStopResponse
      BY <1>16 DEF ChildOK, OutputOK, Accounted, Watching, childVars, outVars, mainVars,
         WaitForStopResponse, WaitEnds
  <1>17. CASE WaitGrace
      BY <1>17 DEF ChildOK, OutputOK, Accounted, Watching, childVars, outVars, mainVars,
         WaitGrace, WaitEnds
  <1>18. CASE WaitOwed
      BY <1>18 DEF ChildOK, OutputOK, Accounted, Watching, childVars, outVars, mainVars,
         WaitOwed, WaitEnds
  <1>19. CASE JoinOutput
      BY <1>19 DEF ChildOK, OutputOK, Accounted, Watching, childVars, outVars, mainVars,
         JoinOutput
  <1>20. CASE SubmitExit
      BY <1>20 DEF ChildOK, OutputOK, Accounted, Watching, childVars, outVars, mainVars,
         SubmitExit
  <1>21. CASE RecordExit
      BY <1>21 DEF ChildOK, OutputOK, Accounted, Watching, childVars, outVars, mainVars,
         RecordExit
  <1>22. CASE CancelTasks
      BY <1>22 DEF ChildOK, OutputOK, Accounted, Watching, childVars, outVars, mainVars,
         CancelTasks
  <1>23. CASE JoinTasks
      BY <1>23 DEF ChildOK, OutputOK, Accounted, Watching, childVars, outVars, mainVars,
         JoinTasks
  <1>24. CASE JoinFails
      BY <1>24 DEF ChildOK, OutputOK, Accounted, Watching, childVars, outVars, mainVars,
         JoinFails
  <1>25. \/ UNCHANGED <<slave, unread, written, reader, queue, output, processed, main>>
         \/ Write \/ SlaveCloses \/ ReadFails \/ ProcessOutputFails \/ MainFails
         \/ ReadPty \/ ReadEof \/ ProcessOutput \/ OutputEnds \/ WatchExit
         \/ WatchCancel \/ WaitKilled \/ MarkExited \/ NoteExited \/ WaitForStopResponse
         \/ WaitGrace \/ WaitOwed \/ JoinOutput \/ SubmitExit \/ RecordExit
         \/ CancelTasks \/ JoinTasks \/ JoinFails
      BY DEF Next, Environment, Failures, Reader, OutputLoop, Heartbeat, RunHost, Handler,
         Refusal, Client, Ended, vars, childVars, outVars, mainVars, ChildEnds, CancelHost,
         Expire, HeartbeatFails, AcceptFails, HeartbeatTick, ObserveQuietPrompt, HeartbeatRead,
         HeartbeatWrite, HeartbeatEnds, ProcessEnds, AcceptEnds, ReadRequest, StopOwned,
         WaitForExit, Escalate, CloseConnection, Inspected, Answer, Malformed, Applied, ApplyFails,
         Connect, HangUp, Send
  <1> QED
      BY <1>1, <1>2, <1>3, <1>4, <1>5, <1>6, <1>7, <1>8, <1>9, <1>10, <1>11, <1>12, <1>13,
         <1>14, <1>15, <1>16, <1>17, <1>18, <1>19, <1>20, <1>21, <1>22, <1>23, <1>24, <1>25

(* The mutex excludes.                                                      *)
LEMMA LockedStep ==
  ConnectionsOK /\ Locked /\ [Next]_vars => Locked'
PROOF
  <1> SUFFICES ASSUME ConnectionsOK /\ Locked, [Next]_vars
               PROVE  Locked'
      OBVIOUS
  <1>1. CASE UNCHANGED <<pc, lock>>
      BY <1>1 DEF ConnectionsOK, Locked, Holding, Signalled, Answering, connVars
  <1>2. CASE AcceptFails
      BY <1>2, HostAssumption DEF ConnectionsOK, Locked, Holding, Signalled, Answering,
         connVars, AcceptFails, Owed, Unanswered, Fault
  <1>3. CASE ProcessEnds
      BY <1>3, HostAssumption DEF ConnectionsOK, Locked, Holding, Signalled, Answering,
         connVars, ProcessEnds
  <1>4. ASSUME NEW c \in Clients, ReadRequest(c) PROVE Locked'
      BY <1>4, HostAssumption DEF ConnectionsOK, Locked, Holding, Signalled, Answering,
         connVars, ReadRequest
  <1>5. ASSUME NEW c \in Clients, StopOwned(c) PROVE Locked'
      BY <1>5, HostAssumption DEF ConnectionsOK, Locked, Holding, Signalled, Answering,
         connVars, StopOwned, Signal, Fault
  <1>6. ASSUME NEW c \in Clients, WaitForExit(c) PROVE Locked'
      BY <1>6, HostAssumption DEF ConnectionsOK, Locked, Holding, Signalled, Answering,
         connVars, WaitForExit
  <1>6a. ASSUME NEW c \in Clients, Applied(c) PROVE Locked'
      BY <1>6a, HostAssumption DEF ConnectionsOK, Locked, Holding, Signalled, Answering,
         connVars, Applied
  <1>7. ASSUME NEW c \in Clients, Escalate(c) PROVE Locked'
      BY <1>7, HostAssumption DEF ConnectionsOK, Locked, Holding, Signalled, Answering,
         connVars, Escalate, Signal, Fault
  <1>8. ASSUME NEW c \in Clients, CloseConnection(c) PROVE Locked'
      BY <1>8, HostAssumption DEF ConnectionsOK, Locked, Holding, Signalled, Answering,
         connVars, CloseConnection, Leave, Unanswered, Owed
  <1>9. ASSUME NEW c \in Clients, Inspected(c) PROVE Locked'
      BY <1>9, HostAssumption DEF ConnectionsOK, Locked, Holding, Signalled, Answering,
         connVars, Inspected
  <1>10. ASSUME NEW c \in Clients, Answer(c) PROVE Locked'
      BY <1>10, HostAssumption DEF ConnectionsOK, Locked, Holding, Signalled, Answering,
         connVars, Answer, Leave, Owed
  <1>11. ASSUME NEW c \in Clients, Malformed(c) PROVE Locked'
      BY <1>11, HostAssumption DEF ConnectionsOK, Locked, Holding, Signalled, Answering,
         connVars, Malformed, Leave, Owed, Fault
  <1>12. ASSUME NEW c \in Clients, ApplyFails(c) PROVE Locked'
      BY <1>12, HostAssumption DEF ConnectionsOK, Locked, Holding, Signalled, Answering,
         connVars, ApplyFails, Leave, Owed, Fault
  <1>13. ASSUME NEW c \in Clients, Connect(c) PROVE Locked'
      BY <1>13, HostAssumption DEF ConnectionsOK, Locked, Holding, Signalled, Answering,
         connVars, Connect
  <1>14. ASSUME NEW c \in Clients, HangUp(c) PROVE Locked'
      BY <1>14, HostAssumption DEF ConnectionsOK, Locked, Holding, Signalled, Answering,
         connVars, HangUp, Leave, Owed
  <1>15. \/ UNCHANGED <<pc, lock>>
         \/ AcceptFails \/ ProcessEnds
         \/ \E c \in Clients : ReadRequest(c) \/ StopOwned(c) \/ WaitForExit(c) \/ Applied(c) \/ Escalate(c)
         \/ \E c \in Clients : CloseConnection(c) \/ Inspected(c) \/ Answer(c) \/ Malformed(c)
         \/ \E c \in Clients : ApplyFails(c) \/ Connect(c) \/ HangUp(c)
      BY DEF Next, Environment, Failures, Reader, OutputLoop, Heartbeat, RunHost, Handler,
         Refusal, Client, Ended, vars, connVars, Write, ChildEnds, SlaveCloses, CancelHost,
         Expire, ReadFails, ProcessOutputFails, HeartbeatFails, MainFails, ReadPty, ReadEof,
         ProcessOutput, OutputEnds, HeartbeatTick, ObserveQuietPrompt, HeartbeatRead,
         HeartbeatWrite, HeartbeatEnds, WatchExit, WatchCancel, WaitKilled, MarkExited,
         NoteExited, WaitForStopResponse, WaitGrace, WaitOwed, JoinOutput, SubmitExit,
         RecordExit, CancelTasks, JoinTasks, JoinFails, AcceptEnds, Send
  <1> QED
      BY <1>1, <1>2, <1>3, <1>4, <1>5, <1>6, <1>6a, <1>7, <1>8, <1>9, <1>10, <1>11, <1>12, <1>13,
         <1>14, <1>15

(* HostInv is inductive: it holds at the start and every step keeps it.     *)
LEMMA HostInvInductive ==
  /\ Init => HostInv
  /\ HostInv /\ [Next]_vars => HostInv'
PROOF
  <1>1. ASSUME Init PROVE HostInv
    <2>a. /\ killed \in BOOLEAN /\ slave \in BOOLEAN
          /\ requested \in BOOLEAN /\ answered \in BOOLEAN
      BY <1>1 DEF Init
    <2>b. /\ child \in {"running", "ended", "reaped"}
          /\ unread \in Nat /\ written \in Nat
      BY <1>1 DEF Init
    <2>1. ChildOK /\ OutputOK
      BY <1>1, <2>a, <2>b, HostAssumption DEF Init, ChildOK, OutputOK
    <2>2. MetadataOK
      BY <1>1 DEF Init, MetadataOK, Metadata, Resting, Fresh
    <2>3. MainOK /\ ticks \in Nat /\ faults \in Nat
      BY <1>1 DEF Init, MainOK, Watching
    <2>c. /\ req \in [Clients -> Request]
          /\ outcomes \in Seq([id : Ids \cup {None}, hash : Kinds])
          /\ sends \in Nat
      BY <1>1 DEF Init, Request, Kinds
    <2>d. /\ server \in {"accepting", "done", "failed"}
          /\ pc \in [Clients -> {"off", "open", "waiting", "marking", "applying"} \cup Signalled \cup Answering]
          /\ reply \in [Clients -> {"none", "sent", "ok", "error", "closed"}]
          /\ lock \in Clients \cup {None}
      BY <1>1 DEF Init
    <2>4. ConnectionsOK
      BY <2>a, <2>c, <2>d DEF ConnectionsOK
    <2>5. Reaped /\ AnswersExit /\ Locked
      BY <1>1 DEF Init, Reaped, AnswersExit, Locked, Watching, Holding, Signalled
    <2>6. ExitIsTrue
      BY <1>1 DEF Init, ExitIsTrue, Resting, Fresh
    <2>7. Accounted
      BY <1>1 DEF Init, Accounted
    <2> QED
      BY <2>1, <2>2, <2>3, <2>4, <2>5, <2>6, <2>7 DEF HostInv, TypeOK
  <1>2. ASSUME HostInv, [Next]_vars PROVE HostInv'
    <2>1. ChildOK' /\ OutputOK' /\ MetadataOK' /\ MainOK' /\ ConnectionsOK'
      BY <1>2, ChildStep, OutputStep, MetadataStep, MainStep, ConnectionsStep DEF HostInv, TypeOK
    <2>2. ticks' \in Nat /\ faults' \in Nat
      BY <1>2, BoundsStep DEF HostInv, TypeOK
    <2>3. Reaped'
      BY <1>2, ReapedStep DEF HostInv
    <2>4. AnswersExit' /\ ExitIsTrue'
      BY <1>2, <2>3, AnswersStep, ExitStep DEF HostInv, TypeOK
    <2>5. Accounted' /\ Locked'
      BY <1>2, AccountedStep, LockedStep DEF HostInv, TypeOK
    <2> QED
      BY <2>1, <2>2, <2>3, <2>4, <2>5 DEF HostInv, TypeOK
  <1> QED
    BY <1>1, <1>2

(* The invariant of the Host's exit holds in every state of every Host,     *)
(* whatever run_host, its tasks, its clients and the child do.              *)
THEOREM HostInvariant == Spec => []HostInv
PROOF
  BY HostInvInductive, PTL DEF Spec

(* host.json, the Host's state, a remembered stop and a stop answered with  *)
(* success say exited only of a child that run_host has reaped.             *)
THEOREM ExitTold == Spec => []ExitIsTrue
PROOF
  <1>1. HostInv => ExitIsTrue
    BY DEF HostInv
  <1> QED
    BY <1>1, HostInvariant, PTL

(* The exit is evidence only when every chunk the terminal held has its     *)
(* sequence number (join_task(output_task) in run_host).                    *)
THEOREM OutputDrained == Spec => []Drained
PROOF
  <1>1. HostInv => Drained
    BY DEF HostInv, TypeOK, ChildOK, OutputOK, Accounted, Drained
  <1> QED
    BY <1>1, HostInvariant, PTL

(* Two handlers never have the child in hand at once (the idempotency mutex *)
(* held across stop_owned and the answer).                                  *)
THEOREM StopsExclude == Spec => []OneStopAtATime
PROOF
  <1>1. HostInv => OneStopAtATime
    BY DEF HostInv, Locked, OneStopAtATime
  <1> QED
    BY <1>1, HostInvariant, PTL
==============================================================================
