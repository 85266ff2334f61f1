-------------------------- MODULE SessionAttachProofs --------------------------
(***************************************************************************)
(* What a viewer shows is the Host's output with nothing missing, repeated *)
(* or out of order, for any number of viewers, pieces, replay limits and   *)
(* lost connections; no viewer meets a gap; and attaching implements       *)
(* TerminalView.                                                           *)
(***************************************************************************)
EXTENDS SessionAttach, FiniteSetTheorems, SequenceTheorems, NaturalsInduction, WellFoundedInduction, TLAPS

(* What a run of pieces is.                                                *)
LEMMA PiecesAre ==
  ASSUME NEW m \in Nat, NEW n \in Nat
  PROVE  /\ Pieces(m, n) \in Seq(Nat)
         /\ Len(Pieces(m, n)) = IF n > m THEN n - m ELSE 0
         /\ \A i \in 1..(n - m) : n > m => Pieces(m, n)[i] = m + i
PROOF
  <1> DEFINE k == IF n > m THEN n - m ELSE 0
  <1>1. k \in Nat
    OBVIOUS
  <1>2. Pieces(m, n) = [i \in 1..k |-> m + i]
    BY DEF Pieces
  <1> HIDE DEF k
  <1>3. Pieces(m, n) \in Seq(Nat) /\ Len(Pieces(m, n)) = k
    BY <1>1, <1>2
  <1>4. \A i \in 1..k : Pieces(m, n)[i] = m + i
    BY <1>2
  <1> QED
    BY <1>3, <1>4 DEF k

LEMMA NoPieces ==
  ASSUME NEW m \in Nat, NEW n \in Nat, n <= m
  PROVE  Pieces(m, n) = <<>>
PROOF
  <1>1. Pieces(m, n) \in Seq(Nat) /\ Len(Pieces(m, n)) = 0
    BY PiecesAre
  <1> QED
    BY <1>1

(* A run that goes on where another one ends.                              *)
LEMMA PiecesJoin ==
  ASSUME NEW lo \in Nat, NEW m \in Nat, NEW n \in Nat, lo <= m, m <= n
  PROVE  Pieces(lo, m) \o Pieces(m, n) = Pieces(lo, n)
PROOF
  <1>1. /\ Pieces(lo, m) = [i \in 1..(m - lo) |-> lo + i]
        /\ Pieces(m, n) = [i \in 1..(n - m) |-> m + i]
        /\ Pieces(lo, n) = [i \in 1..(n - lo) |-> lo + i]
    BY DEF Pieces
  <1>2. /\ Pieces(lo, m) \in Seq(Nat) /\ Len(Pieces(lo, m)) = m - lo
        /\ Pieces(m, n) \in Seq(Nat) /\ Len(Pieces(m, n)) = n - m
    <2>1. ASSUME NEW x \in Nat, NEW y \in Nat, x <= y
          PROVE  Pieces(x, y) \in Seq(Nat) /\ Len(Pieces(x, y)) = y - x
      <3>1. /\ Pieces(x, y) \in Seq(Nat)
            /\ Len(Pieces(x, y)) = IF y > x THEN y - x ELSE 0
        BY PiecesAre
      <3> QED
        BY <2>1, <3>1
    <2> QED
      BY <2>1
  <1> DEFINE s == Pieces(lo, m) \o Pieces(m, n)
  <1>3. /\ s \in Seq(Nat) /\ Len(s) = Len(Pieces(lo, m)) + Len(Pieces(m, n))
        /\ \A i \in 1..(Len(Pieces(lo, m)) + Len(Pieces(m, n))) :
             s[i] = IF i <= Len(Pieces(lo, m)) THEN Pieces(lo, m)[i]
                                               ELSE Pieces(m, n)[i - Len(Pieces(lo, m))]
    BY <1>2, ConcatProperties
  <1> HIDE DEF s
  <1>4. ASSUME NEW i \in 1..(n - lo) PROVE s[i] = lo + i
    <2>1. s[i] = IF i <= m - lo THEN Pieces(lo, m)[i] ELSE Pieces(m, n)[i - (m - lo)]
      BY <1>2, <1>3
    <2>2. CASE i <= m - lo
      BY <1>1, <2>1, <2>2
    <2>3. CASE i > m - lo
      <3>1. i - (m - lo) \in 1..(n - m)
        BY <2>3
      <3>2. Pieces(m, n)[i - (m - lo)] = m + (i - (m - lo))
        BY <1>1, <3>1
      <3> QED
        BY <2>1, <2>3, <3>2
    <2> QED
      BY <2>2, <2>3
  <1>5. s = [i \in 1..(n - lo) |-> s[i]]
    BY <1>2, <1>3
  <1>6. s = Pieces(lo, n)
    BY <1>1, <1>4, <1>5
  <1> QED
    BY <1>6 DEF s

(* A run of at least one piece says where it ends.                         *)
LEMMA PiecesEnd ==
  ASSUME NEW lo \in Nat, NEW n \in Nat, NEW hi \in Nat, NEW m \in Nat,
         Pieces(lo, n) = Pieces(hi, m), lo < n
  PROVE  n = m
PROOF
  <1>1. /\ Len(Pieces(lo, n)) = n - lo /\ \A i \in 1..(n - lo) : Pieces(lo, n)[i] = lo + i
        /\ Len(Pieces(hi, m)) = IF m > hi THEN m - hi ELSE 0
        /\ \A i \in 1..(m - hi) : m > hi => Pieces(hi, m)[i] = hi + i
    BY PiecesAre
  <1>2. m > hi /\ m - hi = n - lo
    BY <1>1
  <1>3. Pieces(lo, n)[1] = lo + 1 /\ Pieces(hi, m)[1] = hi + 1
    BY <1>1, <1>2
  <1> QED
    BY <1>2, <1>3

(* A screen that stands for n began no later than n.                       *)
LEMMA StandsFrom ==
  ASSUME retained \in Nat, NEW s, NEW n \in Nat, StandsFor(s, n)
  PROVE  \E lo \in 0..retained : lo <= n /\ s = Pieces(lo, n)
PROOF
  <1>1. PICK lo \in 0..retained : s = Pieces(lo, n)
    BY DEF StandsFor
  <1>2. CASE lo <= n
    BY <1>1, <1>2
  <1>3. CASE lo > n
    <2>1. s = <<>> /\ Pieces(n, n) = <<>> /\ n \in 0..retained
      BY <1>1, <1>3, NoPieces
    <2> QED
      BY <2>1
  <1> QED
    BY <1>2, <1>3

(* Frames that go on where a screen is make it stand for the last of them. *)
LEMMA StandsLonger ==
  ASSUME retained \in Nat, NEW s, NEW n \in Nat, NEW m \in Nat, n <= m, StandsFor(s, n)
  PROVE  StandsFor(s \o Pieces(n, m), m)
PROOF
  <1>1. PICK lo \in 0..retained : lo <= n /\ s = Pieces(lo, n)
    BY StandsFrom
  <1>2. lo \in Nat
    BY <1>1
  <1>3. s \o Pieces(n, m) = Pieces(lo, m)
    BY <1>1, <1>2, PiecesJoin
  <1> QED
    BY <1>1, <1>3 DEF StandsFor

(* A screen stands for one place only, unless it is empty and stands for   *)
(* any place before this Host's first piece.                               *)
LEMMA StandsOnce ==
  ASSUME retained \in Nat, NEW s, NEW n \in Nat, NEW m \in Nat, StandsFor(s, n), StandsFor(s, m)
  PROVE  n = m \/ s = <<>>
PROOF
  <1>1. PICK lo \in 0..retained : lo <= n /\ s = Pieces(lo, n)
    BY StandsFrom
  <1>2. PICK hi \in 0..retained : s = Pieces(hi, m)
    BY DEF StandsFor
  <1>3. CASE lo < n
    <2>1. lo \in Nat /\ hi \in Nat /\ Pieces(lo, n) = Pieces(hi, m)
      BY <1>1, <1>2
    <2> QED
      BY <1>3, <2>1, PiecesEnd
  <1>4. CASE lo = n
    BY <1>1, <1>4, NoPieces
  <1> QED
    BY <1>1, <1>3, <1>4

(* What stands for something is a sequence of pieces.                      *)
LEMMA StandsIsSeq ==
  ASSUME retained \in Nat, NEW s, NEW n \in Nat, StandsFor(s, n)
  PROVE  s \in Seq(Nat)
PROOF
  BY PiecesAre DEF StandsFor

-----------------------------------------------------------------------------
(* Nothing is recorded once recording has stopped, and it stays so.        *)
LEMMA HostMoves ==
  ASSUME TypeOK, JournalInv, [Next]_vars
  PROVE  /\ retained' = retained
         /\ recorded' \in {recorded, recorded + 1} /\ latest' \in {latest, latest + 1}
         /\ Stopped => Stopped' /\ recorded' = recorded
PROOF
  <1>1. CASE ProcessOutput
    <2>1. /\ retained' = retained /\ recorded' \in {recorded, recorded + 1} /\ latest' = latest + 1
      BY <1>1 DEF ProcessOutput, Journal
    <2>2. Stopped => paused
      BY <1>1 DEF ProcessOutput, Stopped
    <2>3. paused => paused' /\ recorded' = recorded
      BY <1>1 DEF ProcessOutput, Journal
    <2> QED
      BY <2>1, <2>2, <2>3 DEF Stopped
  <1>2. CASE ProgramPrints \/ MarkExited \/ Drained \/ HostEnds
    <2>1. /\ UNCHANGED <<retained, recorded, latest, paused>>
          /\ loop = "failed" => loop' = "failed"
      BY <1>2 DEF ProgramPrints, MarkExited, Drained, HostEnds
    <2> QED
      BY <2>1 DEF Stopped
  <1>3. CASE UNCHANGED hostVars
    BY <1>3 DEF hostVars, Stopped
  <1>4. ASSUME NEW v \in Viewers, ViewerNext(v) PROVE UNCHANGED hostVars
    BY <1>4 DEF ViewerNext, Connect, ReplayRetained, ConnectFails, Tick, ServeAttach, SendState,
       Receive, Recover, GiveUp
  <1>5. CASE UNCHANGED vars
    BY <1>3, <1>5 DEF vars
  <1> QED
    BY <1>1, <1>2, <1>3, <1>4, <1>5 DEF Next, HostNext

(* The Host's own steps leave the viewers alone, and a viewer's step the   *)
(* Host and the other viewers.                                             *)
LEMMA Others ==
  ASSUME TypeOK, [Next]_vars, NEW v \in Viewers
  PROVE  \/ ViewerNext(v) /\ UNCHANGED hostVars
         \/ /\ phase'[v] = phase[v] /\ watermark'[v] = watermark[v] /\ screen'[v] = screen[v]
            /\ recoveries'[v] = recoveries[v] /\ reply'[v] = reply[v]
PROOF
  <1>1. CASE HostNext
    BY <1>1 DEF HostNext, ProgramPrints, ProcessOutput, MarkExited, Drained, HostEnds, viewerVars
  <1>2. ASSUME NEW w \in Viewers, ViewerNext(w)
        PROVE  /\ UNCHANGED hostVars
               /\ w # v => /\ phase'[v] = phase[v] /\ watermark'[v] = watermark[v]
                           /\ screen'[v] = screen[v] /\ recoveries'[v] = recoveries[v]
                           /\ reply'[v] = reply[v]
    <2>1. CASE Connect(w) \/ ReplayRetained(w) \/ ConnectFails(w) \/ Tick(w)
      BY <2>1 DEF Connect, ReplayRetained, ConnectFails, Tick, TypeOK
    <2>2. CASE ServeAttach(w) \/ SendState(w)
      BY <2>2 DEF ServeAttach, SendState, TypeOK
    <2>3. CASE Receive(w)
      BY <2>3 DEF Receive, TypeOK
    <2>4. CASE Recover(w) \/ GiveUp(w)
      BY <2>4 DEF Recover, GiveUp, TypeOK
    <2> QED
      BY <1>2, <2>1, <2>2, <2>3, <2>4 DEF ViewerNext
  <1>3. CASE UNCHANGED vars
    BY <1>3 DEF vars, viewerVars
  <1> QED
    BY <1>1, <1>2, <1>3 DEF Next

(* The journal's invariant, through every way process_output may end.      *)
LEMMA JournalStep ==
  ASSUME TypeOK, JournalInv, [Next]_vars
  PROVE  JournalInv'
PROOF
  <1>1. /\ base \in Nat /\ recorded \in Nat /\ retained \in Nat /\ latest \in Nat
        /\ base <= recorded /\ retained <= recorded /\ recorded <= latest
    BY DEF TypeOK, JournalInv
  <1>2. CASE ProcessOutput
    <2>1. /\ loop = "running" /\ latest' = latest + 1 /\ retained' = retained
          /\ loop' \in {"running", "failed"} /\ Journal
      BY <1>2 DEF ProcessOutput
    <2>2. ~torn /\ (~paused => latest = recorded)
      BY <2>1 DEF JournalInv, Stopped
    <2>3. StandsFor(saved, base)
      BY <2>2 DEF JournalInv, Snapshot
    <2>4. \E lo \in 0..retained' : Pieces(retained, latest') = Pieces(lo, latest')
      BY <1>1, <2>1
    <2>5. CASE /\ paused \/ loop' = "failed"
               /\ UNCHANGED <<recorded, base, saved, torn, paused>>
      <3>1. Stopped' /\ ~torn'
        BY <2>2, <2>5 DEF Stopped
      <3>2. StandsFor(saved, Snapshot.boundary)'
        BY <2>1, <2>3, <2>5, <3>1 DEF StandsFor, Snapshot
      <3>3. base' <= recorded' /\ retained' <= recorded' /\ recorded' <= latest'
        BY <1>1, <2>1, <2>5
      <3> QED
        BY <3>1, <3>2, <3>3 DEF JournalInv
    <2>6. CASE ~paused /\ recorded' = recorded + 1 /\ Compact /\ UNCHANGED <<torn, paused>>
      <3>1. base' = recorded' /\ recorded' = latest' /\ saved' = Pieces(retained, latest') /\ ~torn'
        BY <2>1, <2>2, <2>6 DEF Compact
      <3>2. StandsFor(saved, Snapshot.boundary)'
        <4>1. Snapshot.boundary' = latest'
          BY <3>1 DEF Snapshot
        <4> QED
          BY <2>4, <3>1, <4>1 DEF StandsFor
      <3>3. base' <= recorded' /\ retained' <= recorded' /\ recorded' <= latest'
        BY <1>1, <2>1, <3>1
      <3> QED
        BY <3>1, <3>2, <3>3 DEF JournalInv
    <2>7. CASE ~paused /\ recorded' = recorded + 1 /\ CompactFails /\ UNCHANGED paused
      <3>1. /\ base' = base /\ recorded' = latest' /\ saved' = Pieces(retained, latest')
            /\ torn' = TRUE /\ loop' = "failed"
        BY <2>1, <2>2, <2>7 DEF CompactFails
      <3>2. StandsFor(saved, Snapshot.boundary)'
        <4>1. Snapshot.boundary' = latest'
          BY <3>1 DEF Snapshot
        <4> QED
          BY <2>4, <3>1, <4>1 DEF StandsFor
      <3>3. base' <= recorded' /\ retained' <= recorded' /\ recorded' <= latest'
        BY <1>1, <2>1, <2>7, <3>1
      <3> QED
        BY <3>1, <3>2, <3>3 DEF JournalInv
    <2>8. CASE ~paused /\ recorded' = recorded + 1 /\ UNCHANGED <<base, saved, torn, paused>>
      <3>1. recorded' = latest' /\ ~torn'
        BY <2>1, <2>2, <2>8
      <3>2. StandsFor(saved, Snapshot.boundary)'
        BY <2>1, <2>3, <2>8, <3>1 DEF StandsFor, Snapshot
      <3>3. base' <= recorded' /\ retained' <= recorded' /\ recorded' <= latest'
        BY <1>1, <2>1, <2>8, <3>1
      <3> QED
        BY <3>1, <3>2, <3>3 DEF JournalInv
    <2>9. CASE paused' = TRUE /\ UNCHANGED <<recorded, base, saved, torn>>
      <3>1. Stopped' /\ ~torn'
        BY <2>2, <2>9 DEF Stopped
      <3>2. StandsFor(saved, Snapshot.boundary)'
        BY <2>1, <2>3, <2>9, <3>1 DEF StandsFor, Snapshot
      <3>3. base' <= recorded' /\ retained' <= recorded' /\ recorded' <= latest'
        BY <1>1, <2>1, <2>9
      <3> QED
        BY <3>1, <3>2, <3>3 DEF JournalInv
    <2> QED
      BY <2>1, <2>5, <2>6, <2>7, <2>8, <2>9 DEF Journal
  <1>3. CASE ~ProcessOutput
    <2>1. ASSUME NEW v \in Viewers, ViewerNext(v) PROVE UNCHANGED hostVars
      BY <2>1 DEF ViewerNext, Connect, ReplayRetained, ConnectFails, Tick, ServeAttach, SendState,
         Receive, Recover, GiveUp
    <2>2. /\ UNCHANGED <<retained, recorded, latest, base, saved, torn, paused>>
          /\ loop = "failed" => loop' = "failed"
      BY <1>3, <2>1 DEF Next, HostNext, ProgramPrints, MarkExited, Drained, HostEnds, vars, hostVars
    <2>3. StandsFor(saved, Snapshot.boundary)'
      BY <2>2 DEF JournalInv, StandsFor, Snapshot
    <2>4. Stopped => Stopped'
      BY <2>2 DEF Stopped
    <2> QED
      BY <2>2, <2>3, <2>4 DEF JournalInv
  <1> QED
    BY <1>2, <1>3

(* What is current stays so, whatever the Host does meanwhile.             *)
LEMMA CurrentMoves ==
  ASSUME TypeOK, JournalInv, [Next]_vars, NEW s, NEW b \in Int, Current(s, b)
  PROVE  \/ \E lo \in 0..retained' : s = Pieces(lo, b)
         \/ /\ Stopped' /\ b = recorded'
            /\ \E n \in b..latest' : \E lo \in 0..retained' : s = Pieces(lo, n)
PROOF
  <1>1. /\ retained' = retained /\ latest \in Nat /\ latest' \in {latest, latest + 1}
        /\ Stopped => Stopped' /\ recorded' = recorded
    BY HostMoves DEF TypeOK
  <1>2. \A n \in b..latest : n \in b..latest'
    BY <1>1
  <1>3. \A n : StandsFor(s, n) => \E lo \in 0..retained' : s = Pieces(lo, n)
    BY <1>1 DEF StandsFor
  <1> QED
    BY <1>1, <1>2, <1>3 DEF Current

-----------------------------------------------------------------------------
Snapshots == [boundary : Nat \cup {-1}, screen : Seq(Nat)]

(* Where the frames of an answer begin.                                    *)
StartOf(v, r) == IF r.snapshot = NoSnapshot THEN watermark[v] ELSE r.snapshot.boundary

(* An answer that continues what a viewer shows.                           *)
Continues(v, r) ==
  /\ watermark[v] <= StartOf(v, r)
  /\ \E m \in StartOf(v, r)..recorded : r.frames = Pieces(StartOf(v, r), m)
  /\ \/ StandsFor(screen[v], watermark[v])
     \/ r.snapshot = NoSnapshot /\ r.frames = <<>>
  /\ r.snapshot # NoSnapshot =>
       \/ StandsFor(r.snapshot.screen, StartOf(v, r))
       \/ Current(r.snapshot.screen, StartOf(v, r)) /\ r.frames = <<>>

LEMMA ReplyContinues ==
  ReplyInv <=> \A v \in Viewers : phase[v] \in {"served", "answered"} => Continues(v, reply[v])
PROOF
  BY DEF ReplyInv, Continues, StartOf, TrackerStart

(* What the journal returns above a boundary begins there.                 *)
LEMMA TailOf ==
  ASSUME TypeOK, NEW from \in Nat, from <= recorded, NEW tail \in ReadFrom(from)
  PROVE  /\ \E m \in from..recorded : tail = Pieces(from, m)
         /\ ~torn => tail = Pieces(from, recorded)
PROOF
  <1>1. recorded \in Nat
    BY DEF TypeOK
  <1>2. tail = Pieces(from, recorded) \/ (torn /\ tail = <<>>)
    BY DEF ReadFrom
  <1>3. Pieces(from, from) = <<>>
    BY NoPieces
  <1> QED
    BY <1>1, <1>2, <1>3

(* A viewer that runs ahead has everything that will be recorded.          *)
LEMMA Ahead ==
  ASSUME TypeOK, JournalInv, NEW s, NEW b \in Nat, Current(s, b), ~StandsFor(s, b)
  PROVE  Stopped /\ b = recorded /\ ~torn
PROOF
  <1>1. Stopped /\ b = recorded /\ \E n \in b..latest : StandsFor(s, n)
    BY DEF Current
  <1>2. ASSUME torn PROVE FALSE
    <2>1. latest = recorded
      BY <1>2 DEF JournalInv
    <2>2. \A n \in b..latest : n = b
      BY <1>1, <2>1 DEF TypeOK
    <2> QED
      BY <1>1, <2>2
  <1> QED
    BY <1>1, <1>2

(* Whatever the journal has, an answer of serve_attach continues what the  *)
(* viewer that asked shows.                                                *)
LEMMA Served ==
  ASSUME TypeOK, JournalInv, ViewerInv, NEW v \in Viewers, NEW read \in ReadReplay(watermark[v])
  PROVE  /\ read.snapshot \in Snapshots /\ read.frames \in Seq(Nat)
         /\ Continues(v, read)
PROOF
  <1> DEFINE from == watermark[v]
             b    == Snapshot.boundary
  <1>1. /\ base \in Nat /\ recorded \in Nat /\ retained \in Nat /\ latest \in Nat /\ from \in Nat
        /\ base <= recorded /\ retained <= recorded /\ recorded <= latest /\ from <= recorded
    BY DEF TypeOK, JournalInv, ViewerInv
  <1>2. /\ b = IF torn THEN recorded ELSE base
        /\ Snapshot.screen = saved /\ StandsFor(saved, b) /\ saved \in Seq(Nat)
        /\ Snapshot \in Snapshots
    <2>1. Snapshot.boundary = (IF torn THEN recorded ELSE base) /\ Snapshot.screen = saved
      BY DEF Snapshot
    <2>2. saved \in Seq(Nat) /\ StandsFor(saved, b)
      BY DEF TypeOK, JournalInv
    <2> QED
      BY <1>1, <2>1, <2>2 DEF Snapshot, Snapshots
  <1>3. b \in Nat /\ b <= recorded /\ base <= b
    BY <1>1, <1>2
  <1>4. NoSnapshot \in Snapshots /\ NoSnapshot.boundary = -1
    BY DEF NoSnapshot, Snapshots
  <1>5. Snapshot # NoSnapshot
    BY <1>3, <1>4
  <1> HIDE DEF b
  <1>6. ~StandsFor(screen[v], from) => Stopped /\ from = recorded /\ ~torn
    BY <1>1, Ahead DEF ViewerInv
  <1>7. PICK r \in Readings(from) :
          read = IF TooMany(r)
                   THEN [snapshot |-> [boundary |-> recorded, screen |-> Parser], frames |-> <<>>]
                   ELSE r
    BY DEF ReadReplay
  <1>8. /\ r.snapshot \in Snapshots /\ r.frames \in Seq(Nat)
        /\ Continues(v, r)
    <2>1. CASE \E tail \in ReadFrom(from) :
                 from >= base /\ r = [snapshot |-> NoSnapshot, frames |-> tail]
      <3>1. PICK tail \in ReadFrom(from) : r = [snapshot |-> NoSnapshot, frames |-> tail]
        BY <2>1
      <3>2. r.snapshot = NoSnapshot /\ r.frames = tail /\ StartOf(v, r) = from
        BY <3>1 DEF StartOf
      <3>3. PICK m \in from..recorded : tail = Pieces(from, m)
        BY <1>1, TailOf
      <3>4. StandsFor(screen[v], from) \/ tail = <<>>
        BY <1>1, <1>6, TailOf, NoPieces
      <3>5. m \in Nat
        BY <1>1, <3>3
      <3>6. tail \in Seq(Nat)
        BY <1>1, <3>3, <3>5, PiecesAre
      <3> QED
        BY <1>1, <1>4, <3>2, <3>3, <3>4, <3>6 DEF Continues
    <2>2. CASE \E tail \in ReadFrom(b) :
                 (from < base \/ torn) /\ r = [snapshot |-> Snapshot, frames |-> tail]
      <3>1. PICK tail \in ReadFrom(b) : r = [snapshot |-> Snapshot, frames |-> tail]
        BY <2>2
      <3>2. r.snapshot = Snapshot /\ r.frames = tail /\ StartOf(v, r) = b
        BY <1>5, <3>1 DEF StartOf, b
      <3>3. PICK m \in b..recorded : tail = Pieces(b, m)
        BY <1>3, TailOf
      <3>4. from <= b
        BY <1>1, <1>2, <2>2
      <3>5. StandsFor(screen[v], from)
        BY <1>1, <1>6, <2>2
      <3>6. m \in Nat
        BY <1>1, <1>3, <3>3
      <3>7. tail \in Seq(Nat)
        BY <1>3, <3>3, <3>6, PiecesAre
      <3> QED
        BY <1>2, <3>2, <3>3, <3>4, <3>5, <3>7 DEF Continues
    <2> QED
      BY <2>1, <2>2 DEF Readings, b
  <1>9. CASE ~TooMany(r)
    BY <1>7, <1>8, <1>9
  <1>10. CASE TooMany(r)
    <2> DEFINE now == [boundary |-> recorded, screen |-> Parser]
    <2>1. read = [snapshot |-> now, frames |-> <<>>]
      BY <1>7, <1>10
    <2>2. now.boundary = recorded /\ now.screen = Parser /\ Parser \in Seq(Nat)
      BY <1>1, PiecesAre DEF Parser
    <2>3. now \in Snapshots
      BY <1>1, <2>2 DEF Snapshots
    <2>4. now # NoSnapshot
      BY <1>1, <1>4, <2>2
    <2> HIDE DEF now
    <2>5. read.snapshot = now /\ read.frames = <<>> /\ StartOf(v, read) = recorded
      BY <2>1, <2>2, <2>4 DEF StartOf
    <2>6. StandsFor(screen[v], from)
      <3>1. Len(<<>>) = 0 /\ ReplayRecords \in Nat
        BY AttachAssumption
      <3>2. r.frames # <<>>
        BY <1>10, <3>1 DEF TooMany
      <3> QED
        BY <1>8, <3>2 DEF Continues
    <2>7. StandsFor(Parser, latest)
      BY <1>1 DEF Parser, StandsFor
    <2>8. Current(Parser, recorded)
      BY <1>1, <2>7 DEF Current, JournalInv
    <2>9. Pieces(recorded, recorded) = <<>>
      BY <1>1, NoPieces
    <2> QED
      BY <1>1, <2>2, <2>3, <2>5, <2>6, <2>8, <2>9 DEF Continues
  <1> QED
    BY <1>9, <1>10

(* An answer that is read whole is accepted, and what it shows is current. *)
LEMMA Received ==
  ASSUME TypeOK, JournalInv, ViewerInv, ReplyInv, NEW v \in Viewers, phase[v] = "answered"
  PROVE  /\ Outcome(v) \in {"exited", "idle"} /\ Accepted(v)
         /\ Advanced(v) \in watermark[v]..recorded
         /\ Painted(v) \in Seq(Nat) /\ Current(Painted(v), Advanced(v))
         /\ \/ StandsFor(screen[v], watermark[v])
            \/ Painted(v) = screen[v] /\ Advanced(v) = watermark[v]
PROOF
  <1> DEFINE start == TrackerStart(v)
             frames == reply[v].frames
             shot == reply[v].snapshot
             from == watermark[v]
  <1>1. /\ recorded \in Nat /\ retained \in Nat /\ latest \in Nat /\ from \in Nat
        /\ from <= recorded /\ screen[v] \in Seq(Nat) /\ Current(screen[v], from)
    BY DEF TypeOK, ViewerInv
  <1>2. reply[v] \in Replies
    BY DEF TypeOK
  <1>3. shot.boundary \in Nat \cup {-1} /\ shot.screen \in Seq(Nat) /\ frames \in Seq(Nat)
    BY <1>2 DEF Replies
  <1>4. /\ from <= start
        /\ \E m \in start..recorded : frames = Pieces(start, m)
        /\ StandsFor(screen[v], from) \/ (shot = NoSnapshot /\ frames = <<>>)
        /\ shot # NoSnapshot =>
             \/ StandsFor(shot.screen, start)
             \/ Current(shot.screen, start) /\ frames = <<>>
    BY DEF ReplyInv
  <1>5. start = IF shot = NoSnapshot THEN from ELSE shot.boundary
    BY DEF TrackerStart
  <1>6. start \in Nat
    BY <1>1, <1>3, <1>4, <1>5
  <1> HIDE DEF start
  <1>7. PICK m \in start..recorded : frames = Pieces(start, m)
    BY <1>4
  <1>8. m \in Nat /\ start <= m /\ m <= recorded
    BY <1>1, <1>6, <1>7
  <1>9. /\ Len(frames) = m - start
        /\ \A i \in 1..(m - start) : frames[i] = start + i
    <2>1. /\ Len(frames) = IF m > start THEN m - start ELSE 0
          /\ \A i \in 1..(m - start) : m > start => frames[i] = start + i
      BY <1>6, <1>7, <1>8, PiecesAre
    <2> QED
      BY <1>6, <1>8, <2>1
  <1>10. DOMAIN frames = 1..(m - start)
    BY <1>3, <1>9
  <1>11. ~SnapshotTooOld(v)
    <2>1. shot # NoSnapshot => ~(shot.boundary < from)
      BY <1>1, <1>4, <1>5, <1>6
    <2> QED
      BY <2>1 DEF SnapshotTooOld
  <1>12. Contiguous(v)
    BY <1>9, <1>10 DEF Contiguous, start
  <1>13. Outcome(v) \in {"exited", "idle"} /\ Accepted(v)
    BY <1>11, <1>12 DEF Outcome, Accepted
  <1>14. Delivered(v) = frames
    <2>1. Seen(v) = {}
      BY <1>6, <1>8, <1>9, <1>10 DEF Seen, start
    <2>2. Cardinality(Seen(v)) + 1 = 1
      BY <2>1, FS_EmptySet
    <2>3. SubSeq(frames, 1, Len(frames)) = frames
      BY <1>3, SubSeqFull
    <2> QED
      BY <2>2, <2>3 DEF Delivered
  <1>15. Advanced(v) = m
    BY <1>6, <1>8, <1>9, <1>14 DEF Advanced, start
  <1>16. Painted(v) = (IF shot = NoSnapshot THEN screen[v] ELSE shot.screen) \o frames
    BY <1>14 DEF Painted
  <1>17. frames = <<>> => m = start
    BY <1>6, <1>8, <1>9
  <1>18. frames = <<>> =>
           Painted(v) = IF shot = NoSnapshot THEN screen[v] ELSE shot.screen
    BY <1>1, <1>3, <1>16, ConcatEmptySeq
  <1>19. CASE StandsFor(IF shot = NoSnapshot THEN screen[v] ELSE shot.screen, start)
    <2> DEFINE before == IF shot = NoSnapshot THEN screen[v] ELSE shot.screen
    <2>0. StandsFor(before, start) /\ Painted(v) = before \o Pieces(start, m)
      BY <1>7, <1>16, <1>19
    <2> HIDE DEF before
    <2>1. StandsFor(Painted(v), m)
      <3>1. StandsFor(before \o Pieces(start, m), m)
        BY <1>1, <1>6, <1>8, <2>0, StandsLonger
      <3> QED
        BY <2>0, <3>1
    <2>2. Painted(v) \in Seq(Nat)
      BY <1>1, <1>8, <2>1, StandsIsSeq
    <2>3. Current(Painted(v), m) /\ m \in from..recorded
      BY <1>1, <1>4, <1>6, <1>8, <2>1 DEF Current
    <2>4. StandsFor(screen[v], from) \/ (Painted(v) = screen[v] /\ m = from)
      BY <1>4, <1>5, <1>17, <1>18
    <2> QED
      BY <1>13, <1>15, <2>2, <2>3, <2>4
  <1>20. CASE ~StandsFor(IF shot = NoSnapshot THEN screen[v] ELSE shot.screen, start)
    <2>1. frames = <<>>
      BY <1>4, <1>5, <1>20
    <2>2. Current(IF shot = NoSnapshot THEN screen[v] ELSE shot.screen, start)
      BY <1>1, <1>4, <1>5, <1>20
    <2>3. Painted(v) \in Seq(Nat) /\ Current(Painted(v), m)
      BY <1>1, <1>3, <1>17, <1>18, <2>1, <2>2
    <2>4. StandsFor(screen[v], from) \/ (Painted(v) = screen[v] /\ m = from)
      BY <1>4, <1>5, <1>17, <1>18
    <2> QED
      BY <1>1, <1>4, <1>6, <1>8, <1>13, <1>15, <2>3, <2>4
  <1> QED
    BY <1>19, <1>20

(* What replay_retained_output shows is all that was recorded.             *)
LEMMA Replayed ==
  ASSUME TypeOK, JournalInv
  PROVE  /\ saved \o Pieces(Snapshot.boundary, recorded) \in Seq(Nat)
         /\ StandsFor(saved \o Pieces(Snapshot.boundary, recorded), recorded)
PROOF
  <1>1. base \in Nat /\ recorded \in Nat /\ retained \in Nat /\ base <= recorded
    BY DEF TypeOK, JournalInv
  <1>2. Snapshot.boundary = IF torn THEN recorded ELSE base
    BY DEF Snapshot
  <1>3. Snapshot.boundary \in Nat /\ Snapshot.boundary <= recorded
    BY <1>1, <1>2
  <1>4. StandsFor(saved, Snapshot.boundary)
    BY DEF JournalInv
  <1>5. StandsFor(saved \o Pieces(Snapshot.boundary, recorded), recorded)
    BY <1>1, <1>3, <1>4, StandsLonger
  <1> QED
    BY <1>1, <1>5, StandsIsSeq

-----------------------------------------------------------------------------
(* Every step keeps the types.                                             *)
LEMMA TypeStep ==
  ASSUME AttachInv, [Next]_vars
  PROVE  TypeOK'
PROOF
  <1>1. TypeOK /\ JournalInv /\ ViewerInv /\ ReplyInv
    BY DEF AttachInv
  <1>2. CASE ProcessOutput
    <2>1. latest' = latest + 1 /\ recorded' \in {recorded, recorded + 1}
      BY <1>2 DEF ProcessOutput, Journal
    <2>2. /\ latest' \in Nat /\ recorded' \in Nat
          /\ loop' \in {"running", "drained", "failed"}
          /\ UNCHANGED <<retained, printed, host, lifecycle, viewerVars>>
      BY <1>1, <1>2, <2>1 DEF TypeOK, ProcessOutput
    <2>3. paused' = paused \/ paused' = TRUE
      BY <1>2 DEF ProcessOutput, Journal
    <2>4. paused' \in BOOLEAN
      BY <1>1, <2>3 DEF TypeOK
    <2>5. Pieces(retained, latest') \in Seq(Nat)
      BY <1>1, <2>2, PiecesAre DEF TypeOK
    <2>6. base' \in {base, recorded'} /\ saved' \in {saved, Pieces(retained, latest')}
      BY <1>2 DEF ProcessOutput, Journal, Compact, CompactFails
    <2>7. torn' \in BOOLEAN
      BY <1>1, <1>2 DEF TypeOK, ProcessOutput, Journal, CompactFails
    <2> QED
      BY <1>1, <2>2, <2>5, <2>6, <2>7, <2>4 DEF TypeOK, viewerVars
  <1>3. CASE ProgramPrints \/ MarkExited \/ Drained \/ HostEnds
    BY <1>1, <1>3 DEF TypeOK, ProgramPrints, MarkExited, Drained, HostEnds, viewerVars
  <1>4. CASE UNCHANGED vars
    BY <1>1, <1>4 DEF TypeOK, vars, hostVars, viewerVars
  <1>5. ASSUME NEW v \in Viewers, ViewerNext(v) PROVE TypeOK'
    <2>0. NoReply \in Replies
      BY DEF NoReply, NoSnapshot, Replies
    <2>1. CASE Connect(v) \/ ConnectFails(v) \/ Tick(v)
      BY <1>1, <2>1 DEF TypeOK, hostVars, Connect, ConnectFails, Tick, Phases, Ended
    <2>2. CASE ReplayRetained(v)
      BY <1>1, <2>2, Replayed DEF TypeOK, hostVars, ReplayRetained, Phases, Ended
    <2>3. CASE ServeAttach(v)
      <3>1. PICK read \in ReadReplay(watermark[v]) :
              reply' = [reply EXCEPT ![v] = [snapshot |-> read.snapshot, frames |-> read.frames,
                                             exited |-> FALSE]]
        BY <2>3 DEF ServeAttach
      <3>2. [snapshot |-> read.snapshot, frames |-> read.frames, exited |-> FALSE] \in Replies
        BY <1>1, Served DEF Replies, Snapshots
      <3>3. reply' \in [Viewers -> Replies]
        BY <1>1, <3>1, <3>2 DEF TypeOK
      <3> QED
        BY <1>1, <2>3, <3>3 DEF TypeOK, hostVars, ServeAttach, Phases
    <2>4. CASE SendState(v)
      <3>1. reply[v] \in Replies
        BY <1>1 DEF TypeOK
      <3>2. [reply[v] EXCEPT !.exited = (lifecycle = "exited")] \in Replies
        BY <3>1 DEF Replies
      <3>3. reply' \in [Viewers -> Replies]
        BY <1>1, <2>4, <3>2 DEF TypeOK, SendState
      <3> QED
        BY <1>1, <2>4, <3>3 DEF TypeOK, hostVars, SendState, Phases
    <2>5. CASE Receive(v)
      <3>1. /\ phase[v] = "answered"
            /\ phase' = [phase EXCEPT ![v] = Outcome(v)]
            /\ reply' = [reply EXCEPT ![v] = NoReply] /\ UNCHANGED hostVars
        BY <2>5 DEF Receive
      <3>2. /\ Outcome(v) \in Phases /\ Accepted(v) /\ Painted(v) \in Seq(Nat)
            /\ Advanced(v) \in watermark[v]..recorded
        BY <1>1, <3>1, Received DEF Phases, Ended
      <3>3. Advanced(v) \in Nat
        BY <1>1, <3>2 DEF TypeOK
      <3>4. /\ watermark' = [watermark EXCEPT ![v] = Advanced(v)]
            /\ screen' = [screen EXCEPT ![v] = Painted(v)]
            /\ recoveries' = [recoveries EXCEPT ![v] = 0]
        BY <1>1, <2>5, <3>2 DEF Receive, TypeOK
      <3> QED
        BY <1>1, <2>0, <3>1, <3>2, <3>3, <3>4 DEF TypeOK, hostVars
    <2>6. CASE Recover(v)
      BY <1>1, <2>0, <2>6 DEF TypeOK, hostVars, Recover, Phases
    <2>7. CASE GiveUp(v)
      BY <1>1, <2>0, <2>7 DEF TypeOK, hostVars, GiveUp, Phases, Ended
    <2> QED
      BY <1>5, <2>1, <2>2, <2>3, <2>4, <2>5, <2>6, <2>7 DEF ViewerNext
  <1> QED
    BY <1>2, <1>3, <1>4, <1>5 DEF Next, HostNext

(* What a viewer's own step does to its watermark and its screen.          *)
LEMMA ViewerMoves ==
  ASSUME AttachInv, NEW v \in Viewers, ViewerNext(v)
  PROVE  \/ /\ watermark'[v] = watermark[v] /\ screen'[v] = screen[v]
            /\ phase'[v] \notin {"connecting", "gap"}
         \/ /\ phase[v] = "connecting" /\ phase'[v] = "retained"
            /\ watermark'[v] = recorded /\ StandsFor(screen'[v], recorded)
         \/ /\ Receive(v) /\ phase'[v] \in {"exited", "idle"}
            /\ watermark'[v] = Advanced(v) /\ screen'[v] = Painted(v)
PROOF
  <1>1. TypeOK /\ JournalInv /\ ViewerInv /\ ReplyInv
    BY DEF AttachInv
  <1>2. CASE Connect(v) \/ ConnectFails(v) \/ Tick(v) \/ ServeAttach(v) \/ SendState(v)
    BY <1>1, <1>2 DEF TypeOK, Connect, ConnectFails, Tick, ServeAttach, SendState
  <1>3. CASE Recover(v) \/ GiveUp(v)
    BY <1>1, <1>3 DEF TypeOK, Recover, GiveUp
  <1>4. CASE ReplayRetained(v)
    <2>1. /\ phase[v] = "connecting" /\ phase'[v] = "retained" /\ watermark'[v] = recorded
          /\ screen'[v] = saved \o Pieces(Snapshot.boundary, recorded)
      BY <1>1, <1>4 DEF TypeOK, ReplayRetained
    <2> QED
      BY <1>1, <2>1, Replayed
  <1>5. CASE Receive(v)
    <2>1. Outcome(v) \in {"exited", "idle"} /\ Accepted(v)
      BY <1>1, <1>5, Received DEF Receive
    <2> QED
      BY <1>1, <1>5, <2>1 DEF TypeOK, Receive
  <1> QED
    BY <1>2, <1>3, <1>4, <1>5 DEF ViewerNext

(* A viewer goes on showing what its watermark says.                       *)
LEMMA ViewerStep ==
  ASSUME AttachInv, [Next]_vars
  PROVE  ViewerInv'
PROOF
  <1>1. TypeOK /\ JournalInv /\ ViewerInv /\ ReplyInv
    BY DEF AttachInv
  <1>2. /\ recorded \in Nat /\ recorded' \in {recorded, recorded + 1}
        /\ retained' = retained
    BY <1>1, HostMoves DEF TypeOK
  <1> SUFFICES ASSUME NEW v \in Viewers
               PROVE  /\ watermark'[v] <= recorded'
                      /\ Current(screen[v], watermark[v])'
                      /\ phase'[v] = "connecting" => screen'[v] = <<>> /\ watermark'[v] = 0
                      /\ phase'[v] # "gap"
    BY DEF ViewerInv
  <1>3. /\ watermark[v] \in Nat /\ watermark[v] <= recorded /\ Current(screen[v], watermark[v])
        /\ phase[v] = "connecting" => screen[v] = <<>> /\ watermark[v] = 0
        /\ phase[v] # "gap"
    BY <1>1 DEF TypeOK, ViewerInv
  <1>4. ASSUME watermark'[v] = watermark[v], screen'[v] = screen[v]
        PROVE  watermark'[v] <= recorded' /\ Current(screen[v], watermark[v])'
    <2>1. watermark'[v] <= recorded'
      BY <1>2, <1>3, <1>4
    <2>2. \/ \E lo \in 0..retained' : screen[v] = Pieces(lo, watermark[v])
          \/ /\ Stopped' /\ watermark[v] = recorded'
             /\ \E n \in watermark[v]..latest' : \E lo \in 0..retained' : screen[v] = Pieces(lo, n)
      BY <1>1, <1>3, CurrentMoves
    <2> QED
      BY <1>4, <2>1, <2>2 DEF Current, StandsFor
  <1>5. CASE ~ViewerNext(v)
    BY <1>1, <1>3, <1>4, <1>5, Others
  <1>6. CASE ViewerNext(v)
    <2>1. UNCHANGED hostVars
      BY <1>6 DEF ViewerNext, Connect, ReplayRetained, ConnectFails, Tick, ServeAttach, SendState,
         Receive, Recover, GiveUp
    <2>2. CASE /\ phase[v] = "connecting" /\ phase'[v] = "retained"
               /\ watermark'[v] = recorded /\ StandsFor(screen'[v], recorded)
      <3>1. watermark'[v] <= recorded'
        BY <1>2, <2>1, <2>2 DEF hostVars
      <3>2. Current(screen[v], watermark[v])'
        BY <1>2, <2>2 DEF Current, StandsFor
      <3> QED
        BY <2>2, <3>1, <3>2
    <2>3. CASE /\ Receive(v) /\ phase'[v] \in {"exited", "idle"}
               /\ watermark'[v] = Advanced(v) /\ screen'[v] = Painted(v)
      <3>1. /\ Advanced(v) \in watermark[v]..recorded /\ Current(Painted(v), Advanced(v))
        BY <1>1, <2>3, Received DEF Receive
      <3>2. watermark'[v] <= recorded'
        BY <1>2, <1>3, <2>1, <2>3, <3>1 DEF hostVars
      <3>3. Current(screen[v], watermark[v])'
        BY <2>1, <2>3, <3>1 DEF Current, StandsFor, Stopped, hostVars
      <3> QED
        BY <2>3, <3>2, <3>3
    <2> QED
      BY <1>4, <1>6, <2>2, <2>3, ViewerMoves
  <1> QED
    BY <1>5, <1>6

(* An answer on its way goes on continuing what its viewer shows.          *)
LEMMA ReplyStep ==
  ASSUME AttachInv, [Next]_vars
  PROVE  ReplyInv'
PROOF
  <1>1. TypeOK /\ JournalInv /\ ViewerInv /\ ReplyInv
    BY DEF AttachInv
  <1>2. /\ recorded \in Nat /\ recorded' \in {recorded, recorded + 1}
        /\ retained' = retained
    BY <1>1, HostMoves DEF TypeOK
  <1> SUFFICES ASSUME NEW v \in Viewers, phase'[v] \in {"served", "answered"}
               PROVE  Continues(v, reply[v])'
    BY DEF ReplyInv, Continues, StartOf, TrackerStart
  <1>3. \A s, n : StandsFor(s, n) => \E lo \in 0..retained' : s = Pieces(lo, n)
    BY <1>2 DEF StandsFor
  <1>4. ASSUME NEW r, Continues(v, r), reply'[v].snapshot = r.snapshot, reply'[v].frames = r.frames,
               watermark'[v] = watermark[v], screen'[v] = screen[v], r.snapshot.boundary \in Int
        PROVE  Continues(v, reply[v])'
    <2> DEFINE start == StartOf(v, r)
    <2>1. StartOf(v, reply[v])' = start /\ watermark'[v] <= start /\ start \in Int
      BY <1>1, <1>4 DEF StartOf, Continues, TypeOK
    <2>2. \E m \in start..recorded' : reply'[v].frames = Pieces(start, m)
      <3>1. PICK m \in start..recorded : r.frames = Pieces(start, m)
        BY <1>4 DEF Continues
      <3>2. m \in start..recorded'
        BY <1>2, <2>1
      <3> QED
        BY <1>4, <3>1, <3>2
    <2>3. \/ StandsFor(screen[v], watermark[v])'
          \/ reply'[v].snapshot = NoSnapshot /\ reply'[v].frames = <<>>
      BY <1>2, <1>4 DEF Continues, StandsFor
    <2>4. ASSUME reply'[v].snapshot # NoSnapshot
          PROVE  \/ \E lo \in 0..retained' : r.snapshot.screen = Pieces(lo, start)
                 \/ Current(r.snapshot.screen, start) /\ r.frames = <<>>
      BY <1>3, <1>4, <2>4 DEF Continues
    <2>5. Current(r.snapshot.screen, start) =>
            \/ \E lo \in 0..retained' : r.snapshot.screen = Pieces(lo, start)
            \/ /\ Stopped' /\ start = recorded'
               /\ \E n \in start..latest' : \E lo \in 0..retained' : r.snapshot.screen = Pieces(lo, n)
      BY <1>1, <2>1, CurrentMoves
    <2>6. StandsFor(reply[v].snapshot.screen, StartOf(v, reply[v]))' <=>
            \E lo \in 0..retained' : r.snapshot.screen = Pieces(lo, start)
      BY <1>4, <2>1 DEF StandsFor
    <2>7. (/\ Stopped' /\ start = recorded'
           /\ \E n \in start..latest' : \E lo \in 0..retained' : r.snapshot.screen = Pieces(lo, n))
            => Current(reply[v].snapshot.screen, StartOf(v, reply[v]))'
      BY <1>4, <2>1 DEF Current, StandsFor
    <2> HIDE DEF start
    <2> QED
      BY <1>4, <2>1, <2>2, <2>3, <2>4, <2>5, <2>6, <2>7 DEF Continues
  <1>5. ASSUME NEW r \in Replies PROVE r.snapshot.boundary \in Int
    BY DEF Replies
  <1>6. reply[v] \in Replies /\ reply[v].snapshot.boundary \in Int
    BY <1>1, <1>5 DEF TypeOK
  <1>7. CASE ~ViewerNext(v)
    <2>1. /\ phase'[v] = phase[v] /\ watermark'[v] = watermark[v] /\ screen'[v] = screen[v]
          /\ reply'[v] = reply[v]
      BY <1>1, <1>7, Others
    <2>2. Continues(v, reply[v])
      BY <1>1, <2>1, ReplyContinues
    <2> QED
      BY <1>4, <1>6, <2>1, <2>2
  <1>8. CASE ServeAttach(v)
    <2>1. PICK read \in ReadReplay(watermark[v]) :
            reply' = [reply EXCEPT ![v] = [snapshot |-> read.snapshot, frames |-> read.frames,
                                           exited |-> FALSE]]
      BY <1>8 DEF ServeAttach
    <2>2. read.snapshot \in Snapshots /\ Continues(v, read)
      BY <1>1, Served
    <2>3. read.snapshot.boundary \in Int
      BY <2>2 DEF Snapshots
    <2>4. /\ reply'[v].snapshot = read.snapshot /\ reply'[v].frames = read.frames
          /\ watermark'[v] = watermark[v] /\ screen'[v] = screen[v]
      BY <1>1, <1>8, <2>1 DEF TypeOK, ServeAttach
    <2> QED
      BY <1>4, <2>2, <2>3, <2>4
  <1>9. CASE SendState(v)
    <2>1. reply'[v] = [reply[v] EXCEPT !.exited = (lifecycle = "exited")]
      BY <1>1, <1>9 DEF TypeOK, SendState
    <2>2. /\ reply'[v].snapshot = reply[v].snapshot /\ reply'[v].frames = reply[v].frames
      BY <1>6, <2>1 DEF Replies
    <2>3. watermark'[v] = watermark[v] /\ screen'[v] = screen[v] /\ phase[v] = "served"
      BY <1>9 DEF SendState
    <2>4. Continues(v, reply[v])
      BY <1>1, <2>3, ReplyContinues
    <2> QED
      BY <1>4, <1>6, <2>2, <2>3, <2>4
  <1>10. CASE Receive(v)
    <2>1. Outcome(v) \in {"exited", "idle"} /\ phase'[v] = Outcome(v)
      BY <1>1, <1>10, Received DEF Receive, TypeOK
    <2> QED
      BY <2>1
  <1>11. CASE Connect(v) \/ ReplayRetained(v) \/ ConnectFails(v) \/ Tick(v) \/ Recover(v) \/ GiveUp(v)
    BY <1>1, <1>11 DEF TypeOK, Connect, ReplayRetained, ConnectFails, Tick, Recover, GiveUp
  <1> QED
    BY <1>7, <1>8, <1>9, <1>10, <1>11 DEF ViewerNext

LEMMA AttachInit ==
  Init => AttachInv
PROOF
  <1> SUFFICES ASSUME Init PROVE AttachInv
    OBVIOUS
  <1>1. /\ retained \in Nat /\ base \in Nat /\ base <= retained /\ ~torn
        /\ printed = retained /\ latest = retained /\ recorded = retained
        /\ saved = Pieces(0, base)
    BY AttachAssumption DEF Init
  <1>2. saved \in Seq(Nat) /\ <<>> \in Seq(Nat)
    BY <1>1, PiecesAre
  <1>3. NoReply \in Replies
    BY DEF NoReply, NoSnapshot, Replies
  <1>4. TypeOK
    <2>1. phase \in [Viewers -> Phases]
      BY DEF Init, Phases
    <2>2. screen \in [Viewers -> Seq(Nat)] /\ reply \in [Viewers -> Replies]
      BY <1>2, <1>3 DEF Init
    <2>3. watermark \in [Viewers -> Nat] /\ recoveries \in [Viewers -> Nat]
      BY DEF Init
    <2>4. /\ torn \in BOOLEAN /\ paused \in BOOLEAN /\ loop = "running" /\ host = "running"
          /\ lifecycle = "ready"
      BY DEF Init
    <2> QED
      BY <1>1, <1>2, <2>1, <2>2, <2>3, <2>4 DEF TypeOK
  <1>5. JournalInv
    <2>1. Snapshot.boundary = base
      BY <1>1 DEF Snapshot
    <2>2. StandsFor(saved, Snapshot.boundary)
      BY <1>1, <2>1 DEF StandsFor
    <2> QED
      BY <1>1, <2>2 DEF JournalInv
  <1>6. ASSUME NEW v \in Viewers
        PROVE  phase[v] = "connecting" /\ watermark[v] = 0 /\ screen[v] = <<>>
    BY DEF Init
  <1>7. StandsFor(<<>>, 0)
    <2>1. Pieces(0, 0) = <<>> /\ 0 \in 0..retained
      BY <1>1, NoPieces
    <2> QED
      BY <2>1 DEF StandsFor
  <1>8. ViewerInv
    BY <1>1, <1>6, <1>7 DEF ViewerInv, Current
  <1>9. ReplyInv
    BY <1>6 DEF ReplyInv
  <1> QED
    BY <1>4, <1>5, <1>8, <1>9 DEF AttachInv

(* The invariant of attaching: the journal holds what the terminal was     *)
(* given until recording stops, a viewer shows what its watermark says,    *)
(* and every answer under way continues what the viewer shows.             *)
THEOREM AttachInvariant == Spec => []AttachInv
PROOF
  <1>1. AttachInv /\ [Next]_vars => AttachInv'
    <2> SUFFICES ASSUME AttachInv, [Next]_vars PROVE AttachInv'
      OBVIOUS
    <2>1. JournalInv'
      BY JournalStep DEF AttachInv
    <2> QED
      BY <2>1, TypeStep, ViewerStep, ReplyStep DEF AttachInv
  <1> QED
    BY <1>1, AttachInit, PTL DEF Spec

(* No viewer is turned away with a gap, for any number of pieces, replay   *)
(* limits and compactions.                                                 *)
THEOREM NoGap == Spec => []NeverGap
PROOF
  <1>1. AttachInv => NeverGap
    BY DEF AttachInv, ViewerInv, NeverGap
  <1> QED
    BY <1>1, AttachInvariant, PTL

-----------------------------------------------------------------------------
(* A set of places has a first one.                                        *)
LEMMA HasFirst ==
  ASSUME NEW S \in SUBSET Nat, S # {}
  PROVE  \E i \in S : \A j \in S : i <= j
PROOF
  <1>1. IsWellFoundedOn(OpToRel(<, Nat), Nat)
    BY NatLessThanWellFounded
  <1>2. PICK i \in S : \A j \in S : ~(<<j, i>> \in OpToRel(<, Nat))
    BY <1>1, WFMin
  <1>3. \A j \in S : ~(j < i)
    BY <1>2 DEF OpToRel
  <1> QED
    BY <1>3

(* The piece a screen stands for is the first it can stand for from its    *)
(* watermark on.                                                           *)
ShownInv ==
  \A v \in Viewers :
    /\ Shown(v) \in watermark[v]..latest /\ StandsFor(screen[v], Shown(v))
    /\ \A m \in watermark[v]..latest : StandsFor(screen[v], m) => Shown(v) <= m

LEMMA ShownIs ==
  AttachInv => ShownInv
PROOF
  <1> SUFFICES ASSUME AttachInv, NEW v \in Viewers
               PROVE  /\ Shown(v) \in watermark[v]..latest /\ StandsFor(screen[v], Shown(v))
                      /\ \A m \in watermark[v]..latest : StandsFor(screen[v], m) => Shown(v) <= m
    BY DEF ShownInv
  <1>1. /\ watermark[v] \in Nat /\ latest \in Nat /\ recorded \in Nat
        /\ watermark[v] <= recorded /\ recorded <= latest /\ Current(screen[v], watermark[v])
    BY DEF AttachInv, TypeOK, JournalInv, ViewerInv
  <1> DEFINE S == {n \in watermark[v]..latest : StandsFor(screen[v], n)}
  <1>2. S \in SUBSET Nat
    BY <1>1
  <1>3. S # {}
    <2>1. watermark[v] \in watermark[v]..latest
      BY <1>1
    <2> QED
      BY <1>1, <2>1 DEF Current
  <1>4. PICK i \in S : \A j \in S : i <= j
    BY <1>2, <1>3, HasFirst
  <1>5. /\ i \in watermark[v]..latest /\ StandsFor(screen[v], i)
        /\ \A m \in watermark[v]..latest : StandsFor(screen[v], m) => i <= m
    BY <1>4
  <1> HIDE DEF S
  <1> QED
    BY <1>5 DEF Shown

(* What a viewer shows is the Host's output up to its watermark, with no   *)
(* piece missing, repeated or out of order, or ahead of it once recording  *)
(* has stopped; for any number of viewers and any limits.                  *)
THEOREM CoherentScreens == Spec => []ScreenCoherent
PROOF
  <1>1. AttachInv => ScreenCoherent
    <2> SUFFICES ASSUME AttachInv, NEW v \in Viewers
                 PROVE  /\ watermark[v] <= recorded
                        /\ \/ StandsFor(screen[v], watermark[v])
                           \/ Stopped /\ watermark[v] = recorded /\ Shown(v) # -1
      BY DEF ScreenCoherent
    <2>1. watermark[v] \in Nat /\ latest \in Nat /\ Shown(v) \in watermark[v]..latest
      BY ShownIs DEF ShownInv, AttachInv, TypeOK
    <2>2. Shown(v) # -1
      BY <2>1
    <2> QED
      BY <2>2 DEF AttachInv, ViewerInv, Current
  <1> QED
    BY <1>1, AttachInvariant, PTL

(* A viewer whose screen and watermark stay goes on standing for the same  *)
(* piece, whatever the Host prints.                                        *)
LEMMA ShownStays ==
  ASSUME AttachInv, ShownInv, ShownInv', [Next]_vars, NEW v \in Viewers,
         watermark'[v] = watermark[v], screen'[v] = screen[v]
  PROVE  Shown(v)' = Shown(v)
PROOF
  <1> DEFINE w == watermark[v]
             old == Shown(v)
             new == Shown(v)'
  <1>1. /\ w \in Nat /\ latest \in Nat /\ latest' \in {latest, latest + 1} /\ retained' = retained
    BY HostMoves DEF AttachInv, TypeOK
  <1>2. /\ old \in w..latest /\ StandsFor(screen[v], old)
        /\ \A m \in w..latest : StandsFor(screen[v], m) => old <= m
    BY DEF ShownInv
  <1>3. /\ new \in w..latest' /\ StandsFor(screen[v], new)
        /\ \A m \in w..latest' : StandsFor(screen[v], m) => new <= m
    BY <1>1 DEF ShownInv, StandsFor
  <1> HIDE DEF w, old, new
  <1>4. old \in w..latest' /\ old \in Nat /\ new \in Nat
    BY <1>1, <1>2, <1>3
  <1>5. new <= old
    BY <1>2, <1>3, <1>4
  <1>6. new \in w..latest
    BY <1>1, <1>2, <1>3, <1>4, <1>5
  <1>7. old <= new
    BY <1>2, <1>3, <1>6
  <1>8. new = old
    BY <1>4, <1>5, <1>7
  <1> QED
    BY <1>8 DEF old, new

(* A viewer's step takes it forward along the output, never past it.       *)
LEMMA ShownMoves ==
  ASSUME AttachInv, AttachInv', ShownInv, ShownInv', [Next]_vars, NEW v \in Viewers, ViewerNext(v)
  PROVE  Shown(v)' \in Shown(v)..latest /\ latest' = latest
PROOF
  <1>1. /\ TypeOK /\ TypeOK' /\ JournalInv /\ ViewerInv /\ ReplyInv
    BY DEF AttachInv
  <1>2. UNCHANGED hostVars
    BY DEF ViewerNext, Connect, ReplayRetained, ConnectFails, Tick, ServeAttach, SendState,
       Receive, Recover, GiveUp
  <1>3. latest' = latest /\ retained' = retained /\ latest \in Nat /\ recorded \in Nat
    BY <1>1, <1>2 DEF hostVars, TypeOK
  <1>4. /\ watermark[v] \in Nat /\ watermark[v] <= recorded
        /\ watermark'[v] \in Nat
    BY <1>1 DEF TypeOK, ViewerInv
  <1>5. /\ Shown(v) \in watermark[v]..latest
        /\ StandsFor(screen[v], watermark[v]) => Shown(v) <= watermark[v]
    <2>1. watermark[v] \in watermark[v]..latest
      BY <1>1, <1>3, <1>4 DEF JournalInv
    <2> QED
      BY <2>1 DEF ShownInv
  <1>6. Shown(v)' \in watermark'[v]..latest
    BY <1>3 DEF ShownInv
  <1>7. CASE watermark'[v] = watermark[v] /\ screen'[v] = screen[v]
    <2>1. Shown(v)' = Shown(v)
      BY <1>7, ShownStays
    <2> QED
      BY <1>3, <1>4, <1>5, <2>1
  <1>8. ASSUME StandsFor(screen[v], watermark[v]), watermark[v] <= watermark'[v]
        PROVE  Shown(v)' \in Shown(v)..latest
    BY <1>3, <1>4, <1>5, <1>6, <1>8
  <1>9. CASE phase[v] = "connecting" /\ watermark'[v] = recorded
    <2>1. screen[v] = <<>> /\ watermark[v] = 0
      BY <1>1, <1>9 DEF ViewerInv
    <2>2. Pieces(0, 0) = <<>> /\ 0 \in 0..retained
      BY <1>1, NoPieces DEF TypeOK
    <2>3. StandsFor(screen[v], watermark[v])
      BY <2>1, <2>2 DEF StandsFor
    <2> QED
      BY <1>3, <1>4, <1>8, <1>9, <2>3
  <1>10. CASE Receive(v) /\ watermark'[v] = Advanced(v) /\ screen'[v] = Painted(v)
    <2>1. /\ Advanced(v) \in watermark[v]..recorded
          /\ \/ StandsFor(screen[v], watermark[v])
             \/ Painted(v) = screen[v] /\ Advanced(v) = watermark[v]
      BY <1>1, <1>10, Received DEF Receive
    <2>2. watermark[v] <= watermark'[v]
      BY <1>3, <1>4, <1>10, <2>1
    <2> QED
      BY <1>3, <1>7, <1>8, <1>10, <2>1, <2>2
  <1> QED
    BY <1>3, <1>7, <1>9, <1>10, ViewerMoves

(* Attaching implements TerminalView, for every number of viewers, pieces, *)
(* replay limits and recoveries: each viewer moves forward along the       *)
(* output, never past it, with nothing skipped.                            *)
THEOREM ViewRefinement == Spec => ViewSpec
PROOF
  <1>1. Init => View!ViewInit
    <2> SUFFICES ASSUME Init PROVE View!ViewInit
      OBVIOUS
    <2>1. AttachInv /\ ShownInv
      BY AttachInit, ShownIs
    <2>2. ASSUME NEW v \in Viewers PROVE Shown(v) = 0
      <3>1. screen[v] = <<>> /\ watermark[v] = 0 /\ latest \in Nat /\ retained \in Nat
        BY <2>1 DEF Init, AttachInv, TypeOK
      <3>2. StandsFor(screen[v], 0)
        BY <3>1, NoPieces DEF StandsFor
      <3>3. Shown(v) \in 0..latest /\ Shown(v) <= 0
        BY <2>1, <3>1, <3>2 DEF ShownInv
      <3> QED
        BY <3>1, <3>3
    <2>3. latest \in Nat
      BY <2>1 DEF AttachInv, TypeOK
    <2> QED
      BY <2>2, <2>3 DEF View!ViewInit
  <1>2. AttachInv /\ AttachInv' /\ ShownInv /\ ShownInv' /\ [Next]_vars =>
          [View!ViewNext]_(View!viewVars)
    <2> SUFFICES ASSUME AttachInv, AttachInv', ShownInv, ShownInv', [Next]_vars
                 PROVE  View!ViewNext \/ UNCHANGED View!viewVars
      OBVIOUS
    <2> DEFINE shown == [v \in Viewers |-> Shown(v)]
    <2>1. ASSUME UNCHANGED viewerVars PROVE shown' = shown
      BY <2>1, ShownStays DEF viewerVars
    <2>2. CASE ProcessOutput
      <3>1. UNCHANGED viewerVars /\ latest' = latest + 1
        BY <2>2 DEF ProcessOutput
      <3> QED
        BY <2>1, <3>1 DEF View!ViewNext, View!Emit
    <2>3. CASE ProgramPrints \/ MarkExited \/ Drained \/ HostEnds \/ UNCHANGED vars
      <3>1. UNCHANGED viewerVars /\ latest' = latest
        BY <2>3 DEF ProgramPrints, MarkExited, Drained, HostEnds, vars, hostVars
      <3> QED
        BY <2>1, <3>1 DEF View!viewVars
    <2>4. ASSUME NEW v \in Viewers, ViewerNext(v) PROVE View!ViewNext
      <3>1. Shown(v)' \in Shown(v)..latest /\ latest' = latest
        BY <2>4, ShownMoves
      <3>2. ASSUME NEW w \in Viewers, w # v PROVE Shown(w)' = Shown(w)
        <4>1. watermark'[w] = watermark[w] /\ screen'[w] = screen[w]
          BY <2>4, <3>2 DEF AttachInv, TypeOK, ViewerNext, Connect, ReplayRetained, ConnectFails, Tick,
             ServeAttach, SendState, Receive, Recover, GiveUp
        <4> QED
          BY <4>1, ShownStays
      <3>3. shown' = [shown EXCEPT ![v] = Shown(v)']
        BY <3>2
      <3>4. shown[v] = Shown(v)
        OBVIOUS
      <3>5. View!Advance(v)
        BY <3>1, <3>3, <3>4 DEF View!Advance
      <3> QED
        BY <3>5 DEF View!ViewNext
    <2> QED
      BY <2>2, <2>3, <2>4 DEF Next, HostNext
  <1> QED
    BY <1>1, <1>2, AttachInvariant, ShownIs, PTL DEF Spec, ViewSpec, View!ViewSpec
================================================================================
