------------------------- MODULE JournalContentsProofs -------------------------
(***************************************************************************)
(* For every value of the limits: what a journal holds.  Its reads agree   *)
(* with its disk, its byte counters with its files, and it implements      *)
(* DurableLog.  It pauses only where it must, if its segments are ample.   *)
(***************************************************************************)
EXTENDS SessionJournalProofs, FiniteSetTheorems

(* The provers have no induction; they are shown a least counterexample. *)
LEMMA LeastNat ==
  ASSUME NEW N, N \subseteq Nat, N # {}
  PROVE  \E n \in N : \A m \in N : n <= m
<1> DEFINE Less == OpToRel(<, Nat)
<1>1. IsWellFoundedOn(Less, Nat)
  BY NatLessThanWellFounded
<1>2. \A m, n \in Nat : m < n => <<m, n>> \in Less
  BY DEF OpToRel
<1> HIDE DEF Less
<1>3. PICK n \in N : \A m \in N : ~(<<m, n>> \in Less)
  BY <1>1, WFMin
<1>4. ASSUME NEW m \in N PROVE n <= m
  <2>1. m \in Nat /\ n \in Nat
    OBVIOUS
  <2>2. ~(m < n)
    BY <2>1, <1>2, <1>3
  <2> QED BY <2>1, <2>2
<1> QED BY <1>4

-------------------------------------------------------------------------------
(***************************************************************************)
(* The frames of a chain of files.                                         *)
(***************************************************************************)
LEMMA StoredFacts ==
  ASSUME NEW files, Chain(files), NEW f \in Stored(files)
  PROVE  /\ f \in Frame /\ f.seq \in Nat
         /\ \E i \in DOMAIN files : \E k \in 1..Len(files[i].frames) :
              f = files[i].frames[k] /\ f.seq = files[i].lo + k
<1>1. PICK i \in DOMAIN files : \E k \in 1..Len(files[i].frames) : f = files[i].frames[k]
  BY DEF Stored
<1>2. PICK k \in 1..Len(files[i].frames) : f = files[i].frames[k]
  BY <1>1
<1>3. files[i] \in File /\ NumberedFile(files[i])
  BY DEF Chain, IsFiles, Numbered
<1>4. f \in Frame /\ f.seq \in Nat
  BY <1>2, <1>3, FileFacts
<1>5. f.seq = files[i].lo + k
  BY <1>2, <1>3 DEF NumberedFile
<1> QED BY <1>2, <1>4, <1>5

(* Files in the order of their numbers give no number twice. *)
Ordered(files) ==
  /\ IsFiles(files) /\ Numbered(files)
  /\ \A i, j \in DOMAIN files : i < j => Hi(files[i]) <= files[j].lo

LEMMA StoredOnce ==
  ASSUME NEW files, Ordered(files), NEW f \in Stored(files), NEW g \in Stored(files),
         f.seq = g.seq
  PROVE  f = g
<1>1. PICK i \in DOMAIN files : \E k \in 1..Len(files[i].frames) : f = files[i].frames[k]
  BY DEF Stored
<1>2. PICK k \in 1..Len(files[i].frames) : f = files[i].frames[k]
  BY <1>1
<1>3. PICK j \in DOMAIN files : \E m \in 1..Len(files[j].frames) : g = files[j].frames[m]
  BY DEF Stored
<1>4. PICK m \in 1..Len(files[j].frames) : g = files[j].frames[m]
  BY <1>3
<1>5. /\ i \in Nat /\ j \in Nat
      /\ files[i].lo \in Nat /\ Len(files[i].frames) \in Nat
      /\ files[j].lo \in Nat /\ Len(files[j].frames) \in Nat
  BY FileFacts DEF Ordered, IsFiles
<1>6. f.seq = files[i].lo + k /\ g.seq = files[j].lo + m
  BY <1>2, <1>4 DEF Ordered, Numbered, NumberedFile
<1>7. (i < j => Hi(files[i]) <= files[j].lo) /\ (j < i => Hi(files[j]) <= files[i].lo)
  BY DEF Ordered
<1>8. i = j
  <2>1. files[i].lo < f.seq /\ f.seq <= files[i].lo + Len(files[i].frames)
    BY <1>2, <1>5, <1>6
  <2>2. files[j].lo < f.seq /\ f.seq <= files[j].lo + Len(files[j].frames)
    BY <1>4, <1>5, <1>6
  <2>3. f.seq \in Nat
    BY <1>2, <1>5, <1>6
  <2>4. ~(i < j) /\ ~(j < i)
    BY <2>1, <2>2, <2>3, <1>5, <1>7 DEF Hi
  <2> QED BY <2>4, <1>5
<1>9. k = m
  BY <1>2, <1>4, <1>5, <1>6, <1>8
<1> QED BY <1>2, <1>4, <1>8, <1>9

LEMMA ChainOrdered ==
  ASSUME NEW files, Chain(files) PROVE Ordered(files)
BY DEF Chain, Chained, Ordered

(* The numbers of the frames stored lie between the ends of the chain. *)
LEMMA StoredRange ==
  ASSUME NEW files, Chain(files), NEW t, Top(files, t), NEW f \in Stored(files)
  PROVE  /\ f.seq <= Hi(files[t]) /\ Hi(files[t]) \in Nat
         /\ \A s \in Nat : StartsAt(files, s) => s < f.seq
         /\ \A s \in Nat : Covered(files, s) => f.seq <= s
<1>1. PICK i \in DOMAIN files : \E k \in 1..Len(files[i].frames) :
             f = files[i].frames[k] /\ f.seq = files[i].lo + k
  BY StoredFacts
<1>2. PICK k \in 1..Len(files[i].frames) : f = files[i].frames[k] /\ f.seq = files[i].lo + k
  BY <1>1
<1>3. t \in DOMAIN files
  BY DEF Top
<1>4. /\ i \in Nat /\ t \in Nat
      /\ files[i].lo \in Nat /\ Len(files[i].frames) \in Nat
      /\ files[t].lo \in Nat /\ Len(files[t].frames) \in Nat
  BY <1>3, FileFacts DEF Chain, IsFiles
<1>5. i = t \/ Hi(files[i]) <= files[t].lo
  BY <1>3, <1>4 DEF Chain, Chained, Top
<1>6. f.seq <= Hi(files[t]) /\ Hi(files[t]) \in Nat
  <2>1. f.seq \in Nat /\ f.seq <= files[i].lo + Len(files[i].frames)
    BY <1>2, <1>4
  <2>2. CASE i = t
    BY <2>1, <2>2, <1>4 DEF Hi
  <2>3. CASE Hi(files[i]) <= files[t].lo
    <3>1. f.seq <= files[t].lo
      <4>1. files[i].lo + Len(files[i].frames) <= files[t].lo
        BY <2>3 DEF Hi
      <4> QED BY <4>1, <2>1, <1>4
    <3>2. ASSUME NEW x \in Nat, NEW y \in Nat, NEW z \in Nat, x <= y
          PROVE  y + z \in Nat /\ x <= y + z
      BY <3>2
    <3>3. files[t].lo + Len(files[t].frames) \in Nat
          /\ f.seq <= files[t].lo + Len(files[t].frames)
      BY <3>1, <3>2, <2>1, <1>4
    <3> QED BY <3>3 DEF Hi
  <2> QED BY <2>2, <2>3, <1>5
<1>7. ASSUME NEW s \in Nat, StartsAt(files, s) PROVE s < f.seq
  <2>1. files[i].lo >= s
    BY <1>7, ScanAligned
  <2> QED BY <2>1, <1>2, <1>4
<1>8. ASSUME NEW s \in Nat, Covered(files, s) PROVE f.seq <= s
  <2>1. Hi(files[i]) <= s
    BY <1>8 DEF Covered
  <2> QED BY <2>1, <1>2, <1>4 DEF Hi
<1> QED BY <1>6, <1>7, <1>8

(* The number the last file ends at is the last frame's, if there is one. *)
LEMMA StoredLast ==
  ASSUME NEW files, Chain(files), NEW t, Top(files, t), NEW s \in Nat, StartsAt(files, s)
  PROVE  /\ s <= Hi(files[t])
         /\ Stored(files) = {} <=> Hi(files[t]) = s
         /\ Stored(files) # {} => \E f \in Stored(files) : f.seq = Hi(files[t])
         /\ Stored(files) # {} => \E f \in Stored(files) : f.seq = s + 1
<1>1. t \in DOMAIN files
  BY DEF Top
<1>2. PICK b \in DOMAIN files : Bottom(files, b) /\ files[b].lo = s
  BY <1>1 DEF StartsAt
<1>3. \A j \in DOMAIN files :
        /\ j \in Nat /\ files[j].lo \in Nat /\ Len(files[j].frames) \in Nat
        /\ files[j].frames = << >> <=> Len(files[j].frames) = 0
  BY FileFacts DEF Chain, IsFiles
<1>4. files[t].lo >= s
  BY <1>1, ScanAligned
<1>5. s <= Hi(files[t])
  BY <1>1, <1>3, <1>4 DEF Hi
<1>6. Hi(files[t]) \in {s} \cup {f.seq : f \in Stored(files)}
  <2>1. /\ Hi(files[t]) \in {s} \cup {f.seq : f \in ScanFrames(files, s)}
        /\ ScanFrames(files, s) = Stored(files)
    BY LatestAligned DEF Stored
  <2> QED BY <2>1
<1>7. CASE files[b].frames = << >>
  <2>1. \A j \in DOMAIN files : j = b
    BY <1>2, <1>3, <1>7 DEF Chain, Chained, Bottom
  <2>2. Stored(files) = {}
    BY <2>1, <1>3, <1>7 DEF Stored
  <2>3. Hi(files[t]) = s
    BY <2>1, <1>1, <1>2, <1>3, <1>7 DEF Hi
  <2> QED BY <2>2, <2>3, <1>5
<1>8. CASE files[b].frames # << >>
  <2>1. 1 \in 1..Len(files[b].frames)
    BY <1>2, <1>3, <1>8
  <2>2. files[b].frames[1].seq = s + 1
    BY <2>1, <1>2 DEF Chain, Numbered, NumberedFile
  <2>3. files[b].frames[1] \in Stored(files)
    BY <2>1 DEF Stored
  <2>4. s + 1 <= Hi(files[t])
    BY <2>2, <2>3, StoredRange
  <2>5. Hi(files[t]) # s /\ Stored(files) # {}
    BY <2>3, <2>4, <1>5
  <2> QED BY <2>2, <2>3, <2>5, <1>5, <1>6
<1> QED BY <1>7, <1>8

(* Every number between the ends of the chain is given. *)
LEMMA StoredDense ==
  ASSUME NEW files, Chain(files), NEW t, Top(files, t), NEW s \in Nat, StartsAt(files, s),
         NEW n \in Nat, s < n, n <= Hi(files[t])
  PROVE  \E g \in Stored(files) : g.seq = n
<1> DEFINE N == {i \in DOMAIN files : n <= Hi(files[i])}
<1>1. t \in N /\ N \subseteq Nat
  BY DEF Top, Chain, IsFiles
<1>2. PICK i \in N : \A m \in N : i <= m
  <2> HIDE DEF N
  <2> QED BY <1>1, LeastNat
<1>3. i \in DOMAIN files /\ n <= Hi(files[i]) /\ i \in Nat
  BY <1>1
<1>4. \A j \in DOMAIN files : j \in Nat /\ files[j].lo \in Nat /\ Len(files[j].frames) \in Nat
  BY FileFacts DEF Chain, IsFiles
<1>5. files[i].lo < n
  <2>1. PICK b \in DOMAIN files : Bottom(files, b) /\ files[b].lo = s
    BY <1>3 DEF StartsAt
  <2>2. CASE i = b
    BY <2>1, <2>2
  <2>3. CASE i # b
    <3>1. b < i /\ b \in Nat
      BY <2>1, <2>3, <1>3, <1>4 DEF Bottom
    <3>2. i - 1 \in DOMAIN files /\ files[i].lo = Hi(files[i - 1])
      BY <3>1, <2>1, <1>3 DEF Chain, Chained
    <3>3. ~(n <= Hi(files[i - 1]))
      BY <3>2, <1>2, <1>3
    <3>4. Hi(files[i - 1]) \in Nat
      BY <3>2, <1>3, <1>4
    <3> QED BY <3>2, <3>3, <3>4
  <2> QED BY <2>2, <2>3
<1> DEFINE k == n - files[i].lo
<1>6. k \in 1..Len(files[i].frames) /\ files[i].lo + k = n
  BY <1>3, <1>4, <1>5 DEF Hi
<1> HIDE DEF k
<1>7. files[i].frames[k].seq = n
  BY <1>3, <1>6 DEF Chain, Numbered, NumberedFile
<1>8. files[i].frames[k] \in Stored(files)
  BY <1>3, <1>6 DEF Stored
<1> QED BY <1>7, <1>8

(* Files of which open reads nothing. *)
Unread(files, seq) == Covered(files, seq) \/ Stale(files, seq)

LEMMA ScanUnread ==
  ASSUME NEW files, Chain(files), NEW s \in Nat, Unread(files, s)
  PROVE  /\ ScanFrames(files, s) = {} /\ ScanLatest(files, s) = s
         /\ ScanEarliest(files, s) = s
<1>1. ScanFrames(files, s) = {} /\ ScanLatest(files, s) = s
  BY LatestCovered, ScanStale DEF Unread
<1> QED BY <1>1 DEF ScanEarliest

(* Files that are read or not: the invariant leaves no third case. *)
LEMMA ReadOrNot ==
  ASSUME NEW files, NEW s, NEW mark, Recoverable(files, s, mark)
  PROVE  StartsAt(files, s) \/ Unread(files, s)
BY DEF Recoverable, Unread

LEMMA UnreadMark ==
  ASSUME NEW files, Chain(files), NEW s \in Nat, NEW mark \in Nat,
         Recoverable(files, s, mark), Unread(files, s)
  PROVE  mark <= s
BY CoveredMark, StaleMark DEF Unread, Recoverable

-------------------------------------------------------------------------------
(***************************************************************************)
(* What a journal opened now would hold: all of the frames on disk, or     *)
(* none of them when it stops at the first of them.                        *)
(***************************************************************************)
LEMMA RecoveredIs ==
  ASSUME JournalInv
  PROVE  /\ StartsAt(segs, snap) => Recovered = Stored(segs)
         /\ Unread(segs, snap) => Recovered = {}
<1>1. Chain(segs) /\ snap \in Nat
  BY InvChain DEF JournalInv, TypeOK, StoreTypeOK
<1>2. Unread(segs, snap) => Recovered = {}
  BY <1>1, ScanUnread DEF Recovered
<1>3. ASSUME StartsAt(segs, snap) PROVE Recovered = Stored(segs)
  <2>1. CASE DOMAIN segs = {}
    <3>1. Unread(segs, snap)
      BY <2>1 DEF Unread, Covered
    <3>2. Stored(segs) = {}
      BY <2>1 DEF Stored
    <3> QED BY <3>1, <3>2, <1>2
  <2>2. CASE DOMAIN segs # {}
    <3>1. PICK t \in DOMAIN segs : Top(segs, t)
      BY <1>1, <2>2 DEF Chain, Chained
    <3> QED BY <3>1, <1>1, <1>3, LatestAligned DEF Recovered, Stored
  <2> QED BY <2>1, <2>2
<1> QED BY <1>2, <1>3

(* The last number a journal opened now would reach is that of the log. *)
LEMMA TailIs ==
  ASSUME JournalInv
  PROVE  /\ Log!Tail = RecoveredLatest
         /\ RecoveredLatest \in Nat /\ snap <= RecoveredLatest
         /\ \A f \in Recovered : f.seq \in Nat /\ snap < f.seq /\ f.seq <= RecoveredLatest
<1>1. Chain(segs) /\ snap \in Nat
  BY InvChain DEF JournalInv, TypeOK, StoreTypeOK
<1>2. CASE Unread(segs, snap)
  <2>1. Recovered = {} /\ RecoveredLatest = snap
    BY <1>1, <1>2, ScanUnread DEF Recovered, RecoveredLatest
  <2> QED BY <2>1, <1>1 DEF Log!Tail
<1>3. CASE StartsAt(segs, snap) /\ DOMAIN segs # {}
  <2>1. PICK t \in DOMAIN segs : Top(segs, t)
    BY <1>1, <1>3 DEF Chain, Chained
  <2>2. RecoveredLatest = Hi(segs[t])
    BY <2>1, <1>1, <1>3, LatestAligned DEF RecoveredLatest
  <2>3. Recovered = Stored(segs)
    BY <1>3, RecoveredIs
  <2>4. /\ snap <= Hi(segs[t])
        /\ Stored(segs) = {} <=> Hi(segs[t]) = snap
        /\ Stored(segs) # {} => \E f \in Stored(segs) : f.seq = Hi(segs[t])
    BY <2>1, <1>1, <1>3, StoredLast
  <2>5. \A f \in Stored(segs) : f.seq \in Nat /\ f.seq <= Hi(segs[t]) /\ snap < f.seq
    BY <2>1, <1>1, <1>3, StoredFacts, StoredRange
  <2>6. Hi(segs[t]) \in Nat
    BY <2>1, <1>1, FileFacts DEF Chain, IsFiles, Hi
  <2>7. CASE Stored(segs) = {}
    BY <2>2, <2>3, <2>4, <2>6, <2>7 DEF Log!Tail
  <2>8. CASE Stored(segs) # {}
    <3> DEFINE last == CHOOSE f \in Stored(segs) : \A g \in Stored(segs) : g.seq <= f.seq
    <3>1. PICK m \in Stored(segs) : m.seq = Hi(segs[t])
      BY <2>4, <2>8
    <3>2. \A g \in Stored(segs) : g.seq <= m.seq
      BY <3>1, <2>5
    <3>3. last \in Stored(segs) /\ \A g \in Stored(segs) : g.seq <= last.seq
      BY <3>1, <3>2
    <3>4. last.seq = Hi(segs[t])
      <4>1. last.seq \in Nat /\ last.seq <= Hi(segs[t]) /\ Hi(segs[t]) <= last.seq
        BY <3>1, <3>3, <2>5
      <4> QED BY <4>1, <2>6
    <3>5. Log!Tail = last.seq
      BY <2>3, <2>8 DEF Log!Tail
    <3> QED BY <3>4, <3>5, <2>2, <2>3, <2>4, <2>5, <2>6
  <2> QED BY <2>7, <2>8
<1>4. DOMAIN segs = {} => Unread(segs, snap)
  BY DEF Unread, Covered
<1> QED BY <1>2, <1>3, <1>4, ReadOrNot DEF JournalInv, DiskInv

(* What the memory of an open journal calls its latest frame. *)
LEMMA LatestIs ==
  ASSUME JournalInv, pc \in {"idle", "failed", "compact"}
  PROVE  latest = RecoveredLatest
<1> DEFINE a == active_index
<1>1. Chain(segs) /\ snap \in Nat
  BY InvChain DEF JournalInv, TypeOK, StoreTypeOK
<1>2. /\ \/ StartsAt(segs, snap) /\ latest = Hi(segs[a])
         \/ Unread(segs, snap) /\ latest = snap
      /\ \/ Top(segs, a)
         \/ Top(segs, a + 1) /\ segs[a + 1].frames = << >> /\ a \in DOMAIN segs
  BY DEF JournalInv, MemoryInv, ActiveIntact, Unread
<1>3. ASSUME StartsAt(segs, snap) PROVE RecoveredLatest = Hi(segs[a])
  <2>1. CASE Top(segs, a)
    BY <2>1, <1>1, <1>3, LatestAligned DEF RecoveredLatest
  <2>2. CASE Top(segs, a + 1) /\ segs[a + 1].frames = << >> /\ a \in DOMAIN segs
    <3>1. RecoveredLatest = Hi(segs[a + 1])
      BY <2>2, <1>1, <1>3, LatestAligned DEF RecoveredLatest
    <3>2. a \in Nat /\ a + 1 \in DOMAIN segs /\ segs[a + 1] \in File
      BY <2>2, <1>1 DEF Top, Chain, IsFiles
    <3>3. a < a + 1 /\ (a + 1) - 1 = a
      BY <3>2
    <3>4. segs[a + 1].lo = Hi(segs[a])
      BY <3>2, <3>3, <2>2, <1>1 DEF Chain, Chained
    <3>5. Hi(segs[a + 1]) = segs[a + 1].lo
      <4>1. segs[a + 1].lo \in Nat /\ Len(segs[a + 1].frames) = 0
        BY <3>2, <2>2, FileFacts
      <4> QED BY <4>1 DEF Hi
    <3> QED BY <3>1, <3>4, <3>5
  <2> QED BY <2>1, <2>2, <1>2
<1>4. Unread(segs, snap) => RecoveredLatest = snap
  BY <1>1, ScanUnread DEF RecoveredLatest
<1> QED BY <1>2, <1>3, <1>4

(* Replacing one file replaces its frames. *)
LEMMA StoredReplace ==
  ASSUME NEW files, Chain(files), NEW t, t \in DOMAIN files, NEW file,
         NEW new, new = [files EXCEPT ![t] = file]
  PROVE  file.frames = files[t].frames => Stored(new) = Stored(files)
<1>1. /\ DOMAIN new = DOMAIN files /\ new[t] = file
      /\ \A i \in DOMAIN files : i # t => new[i] = files[i]
  BY DEF Chain, IsFiles
<1>2. ASSUME file.frames = files[t].frames PROVE Stored(new) = Stored(files)
  <2>1. \A i \in DOMAIN files : new[i].frames = files[i].frames
    BY <1>1, <1>2
  <2> QED BY <2>1, <1>1 DEF Stored
<1> QED BY <1>2

LEMMA StoredExtend ==
  ASSUME NEW files, Chain(files), NEW t, t \in DOMAIN files, NEW f, NEW file,
         file.frames = Append(files[t].frames, f)
  PROVE  Stored([files EXCEPT ![t] = file]) = Stored(files) \cup {f}
<1> DEFINE new == [files EXCEPT ![t] = file]
<1>1. /\ DOMAIN new = DOMAIN files /\ new[t] = file
      /\ \A i \in DOMAIN files : i # t => new[i] = files[i]
  BY DEF Chain, IsFiles
<1> DEFINE n == Len(files[t].frames)
<1>2. files[t].frames \in Seq(Frame) /\ n \in Nat
  BY FileFacts DEF Chain, IsFiles
<1>3. /\ Len(file.frames) = n + 1 /\ file.frames[n + 1] = f
      /\ \A k \in 1..n : file.frames[k] = files[t].frames[k]
  BY <1>2
<1>4. {file.frames[k] : k \in 1..Len(file.frames)} =
        {files[t].frames[k] : k \in 1..n} \cup {f}
  <2>1. ASSUME NEW k \in 1..Len(file.frames)
        PROVE  file.frames[k] \in {files[t].frames[m] : m \in 1..n} \cup {f}
    <3>1. k = n + 1 \/ k \in 1..n
      BY <1>2, <1>3
    <3> QED BY <3>1, <1>3
  <2>2. \A k \in 1..n : k \in 1..Len(file.frames) /\ files[t].frames[k] = file.frames[k]
    BY <1>2, <1>3
  <2>3. n + 1 \in 1..Len(file.frames)
    BY <1>2, <1>3
  <2> QED BY <2>1, <2>2, <2>3, <1>3
<1> HIDE DEF new
<1>5. ASSUME NEW g PROVE g \in Stored(new) <=> g \in Stored(files) \cup {f}
  <2>1. g \in Stored(new) <=>
          \/ g \in {file.frames[k] : k \in 1..Len(file.frames)}
          \/ \E i \in DOMAIN files \ {t} :
                g \in {files[i].frames[k] : k \in 1..Len(files[i].frames)}
    <3>1. g \in Stored(new) <=>
            \E i \in DOMAIN new : g \in {new[i].frames[k] : k \in 1..Len(new[i].frames)}
      BY Zenon DEF Stored
    <3> DEFINE N(i) == {new[i].frames[k] : k \in 1..Len(new[i].frames)}
               O(i) == {files[i].frames[k] : k \in 1..Len(files[i].frames)}
               last == {file.frames[k] : k \in 1..Len(file.frames)}
    <3>2. N(t) = last /\ \A i \in DOMAIN files : i # t => N(i) = O(i)
      BY <1>1
    <3>3. g \in Stored(new) <=> \E i \in DOMAIN new : g \in N(i)
      BY <3>1
    <3> HIDE DEF N, O, last
    <3>4. g \in Stored(new) <=> g \in last \/ \E i \in DOMAIN files \ {t} : g \in O(i)
      BY <3>2, <3>3, <1>1
    <3> QED BY <3>4 DEF O, last
  <2>2. g \in Stored(files) <=>
          \/ g \in {files[t].frames[k] : k \in 1..n}
          \/ \E i \in DOMAIN files \ {t} :
                g \in {files[i].frames[k] : k \in 1..Len(files[i].frames)}
    BY DEF Stored
  <2> QED BY <2>1, <2>2, <1>4
<1>6. Stored(new) = Stored(files) \cup {f}
  BY <1>5
<1> QED BY <1>6 DEF new

-------------------------------------------------------------------------------
(***************************************************************************)
(* What each step that writes files makes of the frames.                   *)
(***************************************************************************)
LEMMA RotatedStored ==
  ASSUME JournalInv, pc \notin {"closed", "failed"}, ActiveIntact, active_bytes > 0
  PROVE  Stored(Rotated) = Stored(segs)
<1> DEFINE a == active_index + 1
<1>1. /\ DOMAIN Rotated = DOMAIN segs \cup {a} /\ a \notin DOMAIN segs
      /\ Rotated[a] = EmptyFile(latest)
      /\ \A i \in DOMAIN segs : Rotated[i].frames = segs[i].frames
  BY RotatedFacts
<1>2. Rotated[a].frames = << >>
  BY <1>1 DEF EmptyFile
<1>3. {Rotated[a].frames[k] : k \in 1..Len(Rotated[a].frames)} = {}
  BY <1>2
<1> HIDE DEF a
<1>4. ASSUME NEW g PROVE g \in Stored(Rotated) <=> g \in Stored(segs)
  <2>1. g \in Stored(Rotated) <=>
          \E i \in DOMAIN segs :
            g \in {Rotated[i].frames[k] : k \in 1..Len(Rotated[i].frames)}
    <3>1. g \in Stored(Rotated) <=>
            \E i \in DOMAIN Rotated :
              g \in {Rotated[i].frames[k] : k \in 1..Len(Rotated[i].frames)}
      BY Zenon DEF Stored
    <3> QED BY <3>1, <1>1, <1>3, Zenon
  <2>2. g \in Stored(segs) <=>
          \E i \in DOMAIN segs : g \in {segs[i].frames[k] : k \in 1..Len(segs[i].frames)}
    BY Zenon DEF Stored
  <2> QED BY <2>1, <2>2, <1>1, Zenon
<1> QED BY <1>4

LEMMA TargetStored ==
  ASSUME JournalInv, pc = "idle", ~paused, NEW len \in FrameLens
  PROVE  Stored(TargetFiles(len)) = Stored(segs)
<1>1. ActiveIntact
  BY DEF JournalInv, MemoryInv
<1>2. MustRotate(len) => active_bytes > 0
  BY DEF MustRotate
<1> QED BY <1>1, <1>2, RotatedStored DEF TargetFiles

(* The frame that append writes. *)
NewFrame(len) ==
  [seq |-> latest + 1, len |-> len,
   end |-> FileBytes(TargetFiles(len)[TargetIndex(len)]) + len]

LEMMA AppendStored ==
  ASSUME JournalInv, NEW len \in FrameLens, Append_(len)
  PROVE  /\ NewFrame(len) \in Frame /\ NewFrame(len).seq = latest + 1
         /\ Stored(segs') = Stored(segs) \cup {NewFrame(len)}
         /\ StartsAt(segs, snap) /\ StartsAt(segs', snap') /\ snap' = snap
<1> DEFINE files == TargetFiles(len)
<1> DEFINE t == TargetIndex(len)
<1> DEFINE frame == NewFrame(len)
<1> DEFINE file == [files[t] EXCEPT !.frames = Append(@, frame)]
<1>1. pc = "idle" /\ ~paused /\ latest < MaxSeq /\ snap' = snap
  BY DEF Append_
<1>2. /\ Chain(files) /\ Top(files, t) /\ t \in DOMAIN files
      /\ files[t] \in File /\ NumberedFile(files[t]) /\ files[t].torn = 0
      /\ StartsAt(files, snap) /\ Hi(files[t]) = latest
      /\ FileBytes(files[t]) \in Nat /\ FileBytes(files[t]) + len <= SegmentBytes
      /\ latest \in Nat
  BY <1>1, TargetFacts
<1>3. segs' = [files EXCEPT ![t] = file]
  BY DEF Append_, TargetFiles, TargetIndex, NewFrame
<1>4. len \in Nat \ {0} /\ MaxSeq \in Nat /\ SegmentBytes <= HardBytes
      /\ SegmentBytes \in Nat /\ HardBytes \in Nat
  BY LimitsAssumption
<1>5. frame \in Frame /\ frame.seq = latest + 1 /\ frame.end > FileBytes(files[t])
  <2>1. latest + 1 \in 1..MaxSeq
    BY <1>1, <1>2, <1>4
  <2>2. FileBytes(files[t]) + len \in 1..HardBytes
    BY <1>2, <1>4
  <2> QED BY <2>1, <2>2, <1>2, <1>4 DEF Frame, NewFrame
<1>6. file.frames = Append(files[t].frames, frame) /\ file.lo = files[t].lo
  BY <1>2 DEF File
<1> HIDE DEF files, t, frame
<1>7. file \in File /\ NumberedFile(file)
  BY <1>2, <1>5, AppendedFile, Zenon
<1> HIDE DEF file
<1>8. Stored(segs') = Stored(files) \cup {frame}
  <2>1. Chain(files) /\ t \in DOMAIN files /\ file.frames = Append(files[t].frames, frame)
    BY <1>2, <1>6
  <2>2. Stored([files EXCEPT ![t] = file]) = Stored(files) \cup {frame}
    BY <2>1, StoredExtend
  <2> QED BY <2>2, <1>3
<1>9. Stored(files) = Stored(segs)
  BY <1>1, TargetStored DEF files
<1>10. StartsAt(segs', snap)
  BY <1>2, <1>3, <1>6, <1>7, ReplaceTop, Zenon
<1>11. StartsAt(segs, snap)
  BY <1>1 DEF JournalInv, MemoryInv
<1> QED BY <1>1, <1>5, <1>8, <1>9, <1>10, <1>11 DEF frame

LEMMA AppendFailsStored ==
  ASSUME JournalInv, NEW len \in FrameLens, NEW n \in 0..(len - 1), AppendFails(len, n)
  PROVE  /\ Stored(segs') = Stored(segs) /\ snap' = snap
         /\ StartsAt(segs, snap) /\ StartsAt(segs', snap')
<1> DEFINE files == TargetFiles(len)
<1> DEFINE t == TargetIndex(len)
<1> DEFINE file == [files[t] EXCEPT !.torn = n]
<1>1. pc = "idle" /\ ~paused /\ snap' = snap
  BY DEF AppendFails
<1>2. /\ Chain(files) /\ Top(files, t) /\ t \in DOMAIN files
      /\ files[t] \in File /\ NumberedFile(files[t]) /\ StartsAt(files, snap)
  BY <1>1, TargetFacts
<1>3. segs' = [files EXCEPT ![t] = file]
  BY DEF AppendFails, TargetFiles, TargetIndex
<1>4. n \in Nat
  BY LimitsAssumption
<1> HIDE DEF files, t
<1>5. /\ file \in File /\ file.lo = files[t].lo /\ file.synced = files[t].synced
      /\ file.frames = files[t].frames
  BY <1>2, <1>4 DEF File
<1>6. NumberedFile(file)
  BY <1>2, <1>5 DEF NumberedFile
<1> HIDE DEF file
<1>7. Stored(segs') = Stored(files)
  BY <1>2, <1>3, <1>5, StoredReplace, Zenon
<1>8. Stored(files) = Stored(segs)
  BY <1>1, TargetStored DEF files
<1>9. StartsAt(segs', snap)
  BY <1>2, <1>3, <1>5, <1>6, ReplaceTop, Zenon
<1>10. StartsAt(segs, snap)
  BY <1>1 DEF JournalInv, MemoryInv
<1> QED BY <1>1, <1>7, <1>8, <1>9, <1>10

LEMMA SyncStored ==
  ASSUME JournalInv, Sync
  PROVE  /\ Stored(segs') = Stored(segs) /\ snap' = snap /\ DOMAIN segs' = DOMAIN segs
         /\ StartsAt(segs, snap) => StartsAt(segs', snap')
         /\ Covered(segs, snap) => Covered(segs', snap')
         /\ Stale(segs, snap) => Stale(segs', snap')
<1> DEFINE t == active_index
<1> DEFINE file == SyncedFile(segs[t])
<1>0. CASE segs' = segs
  BY <1>0 DEF Sync
<1>1. CASE Top(segs, t)
  <2>1. /\ Chain(segs) /\ t \in DOMAIN segs /\ segs[t] \in File
        /\ NumberedFile(segs[t])
    BY <1>1, InvChain DEF Top, Chain, IsFiles, Numbered
  <2>2. /\ file \in File /\ NumberedFile(file) /\ file.lo = segs[t].lo
        /\ file.frames = segs[t].frames /\ Hi(file) = Hi(segs[t])
    BY <2>1, SyncedFileFacts
  <2>3. segs' = [segs EXCEPT ![t] = file] /\ snap' = snap
    BY DEF Sync
  <2> HIDE DEF file, t
  <2>4. Stored(segs') = Stored(segs)
    BY <2>1, <2>2, <2>3, StoredReplace, Zenon
  <2>5. /\ \A seq : file.lo = segs[t].lo /\ StartsAt(segs, seq) => StartsAt(segs', seq)
        /\ \A seq : Covered(segs, seq) /\ Hi(file) <= seq => Covered(segs', seq)
    BY <1>1, <2>1, <2>2, <2>3, ReplaceTop, Zenon
  <2>6. Covered(segs, snap) => Hi(segs[t]) <= snap
    BY <2>1 DEF Covered
  <2>7. Stale(segs, snap) => Stale(segs', snap)
    BY <1>1, <2>1, <2>3, ReplaceTopStale
  <2> QED BY <2>2, <2>3, <2>4, <2>5, <2>6, <2>7
<1> QED BY <1>0, <1>1, SyncFiles

(***************************************************************************)
(* The three outcomes of open: all files scanned and the last one cut at   *)
(* its last frame; one file, covered by the snapshot and emptied; several  *)
(* files that begin before the snapshot, left as they are.                 *)
(***************************************************************************)
OpenedWhole(files, t) ==
  /\ StartsAt(files, snap) /\ Scanned(files, snap) = DOMAIN files
  /\ \E file \in File :
       /\ NumberedFile(file) /\ file.frames = files[t].frames /\ file.torn = 0
       /\ file.lo = files[t].lo /\ segs' = [files EXCEPT ![t] = file]

OpenedEmptied(files, t) ==
  /\ Covered(files, snap) /\ DOMAIN files = {t} /\ Scanned(files, snap) = DOMAIN files
  /\ \E file \in File :
       /\ NumberedFile(file) /\ file.frames = << >> /\ file.torn = 0
       /\ file.lo = snap /\ Hi(file) = snap /\ segs' = [files EXCEPT ![t] = file]

OpenedWithGap(files, t) ==
  /\ t \notin Scanned(files, snap) /\ segs' = files
  /\ Covered(files, snap) \/ (undone /\ Stale(files, snap) /\ durable <= snap)

LEMMA OpenOutcomes ==
  ASSUME JournalInv, Open
  PROVE  /\ Chain(OpenFiles)
         /\ \E t \in DOMAIN OpenFiles :
              /\ Top(OpenFiles, t) /\ t = Max(DOMAIN OpenFiles)
              /\ \/ OpenedWhole(OpenFiles, t)
                 \/ OpenedEmptied(OpenFiles, t)
                 \/ OpenedWithGap(OpenFiles, t)
<1> DEFINE files == OpenFiles
<1> DEFINE last == Max(DOMAIN files)
<1> DEFINE complete == last \in Scanned(files, snap)
<1> DEFINE file == Reopened(files[last], Previous(files, snap, last))
<1>1. segs' = IF complete THEN [files EXCEPT ![last] = file] ELSE files
  BY DEF Open
<1>2. Chain(files) /\ snap \in Nat
  BY OpenFilesFacts DEF JournalInv, TypeOK, StoreTypeOK
<1>3. PICK t \in DOMAIN files : Top(files, t)
  BY OpenFilesFacts
<1>4. last = t
  <2>1. DOMAIN files \in SUBSET Int /\ \A j \in DOMAIN files : j <= t
    BY <1>2, <1>3 DEF Chain, IsFiles, Top
  <2> QED BY <2>1, MaxIs
<1>5. /\ t \in Nat /\ files[t] \in File /\ NumberedFile(files[t])
      /\ files[t].lo \in Nat /\ Len(files[t].frames) \in Nat
  BY <1>2, FileFacts DEF Chain, IsFiles, Numbered
<1>6. \/ StartsAt(files, snap) \/ Covered(files, snap)
      \/ undone /\ Stale(files, snap) /\ durable <= snap
  BY OpenFilesFacts
<1> HIDE DEF files, last, file
<1>7. CASE StartsAt(files, snap)
  <2>1. /\ Previous(files, snap, t) = files[t].lo
        /\ Valid(files[t], files[t].lo) = Len(files[t].frames)
    BY <1>2, <1>7, ScanAligned
  <2>2. Scanned(files, snap) = DOMAIN files
    BY <1>2, <1>3, <1>7, LatestAligned
  <2>3. file = Reopened(files[t], files[t].lo)
    BY <2>1, <1>4 DEF file
  <2>4. /\ file \in File /\ NumberedFile(file) /\ file.lo = files[t].lo
        /\ file.torn = 0 /\ file.frames = files[t].frames
    BY <2>1, <2>3, <1>5, ReopenedAligned
  <2>5. segs' = [files EXCEPT ![t] = file]
    BY <2>2, <1>1, <1>4
  <2>6. OpenedWhole(files, t)
    BY <2>2, <2>4, <2>5, <1>7 DEF OpenedWhole
  <2> QED BY <2>6, <1>2, <1>3, <1>4 DEF files, last
<1>8. CASE Covered(files, snap) /\ ~complete
  <2>1. OpenedWithGap(files, t)
    BY <1>1, <1>4, <1>8 DEF OpenedWithGap
  <2> QED BY <2>1, <1>2, <1>3, <1>4 DEF files, last
<1>9. CASE Covered(files, snap) /\ complete
  <2>1. \A i \in DOMAIN files : Previous(files, snap, i) = snap /\ Valid(files[i], snap) = 0
    BY <1>2, <1>9, ScanCovered
  <2>2. DOMAIN files = {t}
    <3>1. ASSUME NEW j \in DOMAIN files, j # t PROVE FALSE
      <4>1. j < t
        BY <3>1, <1>2, <1>3 DEF Top, Chain, IsFiles
      <4>2. ~HasIssue(files, snap, j)
        BY <4>1, <1>4, <1>9 DEF Scanned
      <4>3. files[j].frames # << >> /\ files[j] \in File
        BY <4>1, <1>2 DEF Chain, Chained, IsFiles
      <4>4. Valid(files[j], snap) = 0 /\ Previous(files, snap, j) = snap
        BY <2>1
      <4>5. 0 < Len(files[j].frames)
        BY <4>3, FileFacts
      <4> QED BY <4>2, <4>4, <4>5 DEF HasIssue, Issue
    <3> QED BY <3>1
  <2>3. file = Reopened(files[t], snap)
    BY <2>1, <1>4 DEF file
  <2>4. /\ file \in File /\ NumberedFile(file) /\ file.lo = snap /\ Hi(file) = snap
        /\ file.torn = 0 /\ file.frames = << >>
    BY <2>3, <2>1, <1>2, <1>5, ReopenedCovered
  <2>5. segs' = [files EXCEPT ![t] = file]
    BY <1>1, <1>4, <1>9
  <2>6. Scanned(files, snap) = DOMAIN files
    BY <2>2, <1>4, <1>9 DEF Scanned
  <2>7. OpenedEmptied(files, t)
    BY <2>2, <2>4, <2>5, <2>6, <1>9 DEF OpenedEmptied
  <2> QED BY <2>7, <1>2, <1>3, <1>4 DEF files, last
<1>10. CASE undone /\ Stale(files, snap) /\ durable <= snap
  <2>1. ~complete
    BY <1>2, <1>3, <1>4, <1>10, ScanStale
  <2>2. OpenedWithGap(files, t)
    BY <2>1, <1>1, <1>4, <1>10 DEF OpenedWithGap
  <2> QED BY <2>2, <1>2, <1>3, <1>4 DEF files, last
<1> QED BY <1>6, <1>7, <1>8, <1>9, <1>10

LEMMA OpenStored ==
  ASSUME JournalInv, Open
  PROVE  /\ snap' = snap
         /\ \/ /\ StartsAt(segs, snap) /\ StartsAt(segs', snap')
               /\ Stored(segs') = Stored(segs)
            \/ Unread(segs, snap) /\ Unread(segs', snap')
<1> DEFINE files == OpenFiles
<1>1. Chain(files) /\ snap' = snap /\ snap \in Nat
  BY OpenOutcomes DEF Open, JournalInv, TypeOK, StoreTypeOK
<1>2. PICK t \in DOMAIN files :
        /\ Top(files, t)
        /\ OpenedWhole(files, t) \/ OpenedEmptied(files, t) \/ OpenedWithGap(files, t)
  BY OpenOutcomes
<1>3. /\ StartsAt(files, snap) => StartsAt(segs, snap)
      /\ Unread(files, snap) => Unread(segs, snap)
      /\ Stored(files) = Stored(segs)
  <2>1. CASE DOMAIN segs # {}
    BY <2>1 DEF OpenFiles
  <2>2. CASE DOMAIN segs = {}
    <3>1. StartsAt(segs, snap) /\ Unread(segs, snap) /\ Stored(segs) = {}
      BY <2>2 DEF StartsAt, Unread, Covered, Stored
    <3>2. DOMAIN files = {1} /\ files[1].frames = << >>
      BY <2>2 DEF OpenFiles, EmptyFile
    <3> HIDE DEF files
    <3>3. Stored(files) = {}
      BY <3>2 DEF Stored
    <3> QED BY <3>1, <3>3
  <2> QED BY <2>1, <2>2
<1> HIDE DEF files
<1>4. CASE OpenedWhole(files, t)
  <2>1. PICK file \in File :
          /\ NumberedFile(file) /\ file.frames = files[t].frames
          /\ file.lo = files[t].lo /\ segs' = [files EXCEPT ![t] = file]
    BY <1>4 DEF OpenedWhole
  <2>2. Stored(segs') = Stored(files)
    BY <2>1, <1>1, StoredReplace, Zenon
  <2>3. StartsAt(files, snap)
    BY <1>4 DEF OpenedWhole
  <2>4. StartsAt(segs', snap)
    BY <2>1, <2>3, <1>1, <1>2, ReplaceTop, Zenon
  <2> QED BY <2>2, <2>3, <2>4, <1>1, <1>3
<1>5. CASE OpenedEmptied(files, t)
  <2>1. PICK file \in File : Hi(file) = snap /\ segs' = [files EXCEPT ![t] = file]
    BY <1>5 DEF OpenedEmptied
  <2>2. Covered(files, snap) /\ DOMAIN files = {t}
    BY <1>5 DEF OpenedEmptied
  <2>3. Covered(segs', snap)
    BY <2>1, <2>2, <1>1 DEF Covered, Chain, IsFiles
  <2> QED BY <2>2, <2>3, <1>1, <1>3 DEF Unread
<1>6. CASE OpenedWithGap(files, t)
  BY <1>1, <1>3, <1>6 DEF OpenedWithGap, Unread
<1> QED BY <1>2, <1>4, <1>5, <1>6

(* A power failure takes a suffix of the frames that the directory it      *)
(* leaves names, none of them promised durable in that directory.          *)
LEMMA PowerLossStored ==
  ASSUME JournalInv, NEW d \in images, NEW files, files = Image(d), NEW seq, seq = d.snap,
         NEW i \in DOMAIN files, NEW n \in 0..Len(files[i].frames),
         NEW r \in 0..SegmentBytes, PowerLoss(d, i, n, r),
         NEW mark \in Nat, Recoverable(files, seq, mark)
  PROVE  /\ snap' = seq
         /\ \/ Unread(files, seq) /\ Unread(segs', seq)
            \/ /\ StartsAt(files, seq) /\ StartsAt(segs', seq)
               /\ \E m \in seq..ScanLatest(files, seq) :
                    mark <= m /\ Stored(segs') = {f \in Stored(files) : f.seq <= m}
<1> DEFINE file == CutFile(files[i], n, r)
<1>1. Chain(files) /\ seq \in Nat /\ snap' = seq
  BY ImageFacts DEF PowerLoss
<1>2. /\ segs' = [files EXCEPT ![i] = file] /\ file \in File /\ NumberedFile(file)
      /\ file.lo = files[i].lo /\ Len(file.frames) = n
      /\ \A k \in 1..n : file.frames[k] = files[i].frames[k]
      /\ Hi(file) \in Nat /\ Hi(files[i]) \in Nat /\ Hi(file) <= Hi(files[i])
      /\ files[i].synced <= n /\ n \in Nat
      /\ ~Top(files, i) => segs' = files
  BY PowerLossFile
<1>3. /\ files[i].lo \in Nat /\ Len(files[i].frames) \in Nat /\ files[i].synced \in Nat
      /\ n <= Len(files[i].frames)
  BY <1>1, <1>2, FileFacts DEF Chain, IsFiles
<1> HIDE DEF file
<1>0. ASSUME NEW t \in DOMAIN files, Top(files, t), StartsAt(files, seq)
      PROVE  /\ ScanLatest(files, seq) = Hi(files[t]) /\ Hi(files[t]) \in Nat
             /\ seq <= files[t].lo /\ seq <= Hi(files[t])
             /\ mark <= seq \/ mark <= files[t].lo + files[t].synced
             /\ files[t].synced <= Len(files[t].frames) /\ mark <= Hi(files[t])
  <2>1. ScanLatest(files, seq) = Hi(files[t]) /\ files[t].lo >= seq
    BY <1>0, <1>1, LatestAligned, ScanAligned
  <2>2. /\ files[t].lo \in Nat /\ Len(files[t].frames) \in Nat /\ files[t].synced \in Nat
        /\ files[t].synced <= Len(files[t].frames)
    BY <1>1, FileFacts DEF Chain, IsFiles, Numbered, NumberedFile
  <2>3. mark <= seq \/ mark <= files[t].lo + files[t].synced
    BY <1>0, <1>1, OnDiskTop DEF Recoverable
  <2> QED BY <2>1, <2>2, <2>3, <1>1 DEF Hi
<1>4. CASE ~Top(files, i)
  <2>1. segs' = files
    BY <1>2, <1>4
  <2>2. CASE Unread(files, seq)
    BY <2>1, <2>2, <1>1
  <2>3. CASE StartsAt(files, seq)
    <3> DEFINE m == ScanLatest(files, seq)
    <3>0. PICK t \in DOMAIN files : Top(files, t)
      BY <1>1 DEF Chain, Chained
    <3>1. m = Hi(files[t]) /\ m \in Nat /\ seq <= m
      BY <3>0, <2>3, <1>0
    <3>2. mark <= m
      BY <3>0, <3>1, <2>3, <1>0
    <3>3. m \in seq..ScanLatest(files, seq)
      BY <3>1, <1>1
    <3>4. Stored(segs') = {f \in Stored(files) : f.seq <= m}
      BY <3>0, <3>1, <2>1, <1>1, StoredRange
    <3> QED BY <3>2, <3>3, <3>4, <2>1, <2>3, <1>1
  <2> QED BY <2>2, <2>3, ReadOrNot
<1>5. CASE Top(files, i)
  <2>1. /\ DOMAIN segs' = DOMAIN files /\ segs'[i] = file
        /\ \A q : file.lo = files[i].lo /\ StartsAt(files, q) => StartsAt(segs', q)
        /\ \A q : Covered(files, q) /\ Hi(file) <= q => Covered(segs', q)
    BY <1>1, <1>2, <1>5, ReplaceTop
  <2>2. CASE Unread(files, seq)
    <3>1. CASE Covered(files, seq)
      <4>1. Hi(files[i]) <= seq
        BY <3>1 DEF Covered
      <4>2. Hi(file) <= seq
        BY <4>1, <1>1, <1>2
      <4> QED BY <4>2, <3>1, <2>1, <2>2, <1>1 DEF Unread
    <3>2. CASE Stale(files, seq)
      BY <3>2, <2>2, <1>1, <1>2, <1>5, ReplaceTopStale DEF Unread
    <3> QED BY <3>1, <3>2, <2>2 DEF Unread
  <2>3. CASE StartsAt(files, seq)
    <3> DEFINE m == files[i].lo + n
    <3>1. m \in Nat /\ seq <= m
      <4>1. files[i].lo >= seq
        BY <2>3, <1>1, ScanAligned
      <4> QED BY <4>1, <1>1, <1>2, <1>3
    <3>2. m <= ScanLatest(files, seq)
      <4>1. ScanLatest(files, seq) = Hi(files[i])
        BY <2>3, <1>1, <1>5, LatestAligned
      <4> QED BY <4>1, <1>2, <1>3 DEF Hi
    <3>3. mark <= m
      <4>2. mark <= seq \/ mark <= files[i].lo + files[i].synced
        BY <2>3, <1>0, <1>5
      <4> QED BY <4>2, <3>1, <1>1, <1>2, <1>3
    <3>4. /\ \A j \in DOMAIN files : j # i => segs'[j] = files[j]
          /\ \A j \in DOMAIN files : j \in Nat
      BY <1>1, <1>2 DEF Chain, IsFiles
    <3> HIDE DEF m
    <3>5. ASSUME NEW g \in Stored(segs') PROVE g \in Stored(files) /\ g.seq <= m
      <4>1. PICK j \in DOMAIN files : \E k \in 1..Len(segs'[j].frames) : g = segs'[j].frames[k]
        BY <2>1 DEF Stored
      <4>2. PICK k \in 1..Len(segs'[j].frames) : g = segs'[j].frames[k]
        BY <4>1
      <4>3. CASE j = i
        <5>1. k \in 1..n /\ g = files[i].frames[k] /\ k \in 1..Len(files[i].frames)
          BY <4>2, <4>3, <2>1, <1>2, <1>3
        <5>2. g.seq = files[i].lo + k
          BY <5>1, <1>1 DEF Chain, Numbered, NumberedFile
        <5>3. g \in Stored(files)
          BY <5>1 DEF Stored
        <5>4. g.seq <= m
          BY <5>1, <5>2, <1>2, <1>3 DEF m
        <5> QED BY <5>3, <5>4
      <4>4. CASE j # i
        <5>1. g = files[j].frames[k] /\ k \in 1..Len(files[j].frames)
          BY <4>2, <4>4, <3>4
        <5>2. g \in Stored(files)
          BY <5>1 DEF Stored
        <5>3. g.seq = files[j].lo + k
          BY <5>1, <1>1 DEF Chain, Numbered, NumberedFile
        <5>4. j < i
          BY <4>4, <3>4, <1>5 DEF Top
        <5>5. Hi(files[j]) <= files[i].lo
          BY <5>4, <1>1 DEF Chain, Chained
        <5>6. files[j].lo \in Nat /\ Len(files[j].frames) \in Nat
          BY <1>1, FileFacts DEF Chain, IsFiles
        <5>7. g.seq <= files[i].lo
          BY <5>1, <5>3, <5>5, <5>6, <1>3 DEF Hi
        <5>8. g.seq <= m
          BY <5>3, <5>6, <5>7, <1>2, <1>3 DEF m
        <5> QED BY <5>2, <5>8
      <4> QED BY <4>3, <4>4
    <3>6. ASSUME NEW g \in Stored(files), g.seq <= m PROVE g \in Stored(segs')
      <4>1. PICK j \in DOMAIN files : \E k \in 1..Len(files[j].frames) :
                   g = files[j].frames[k] /\ g.seq = files[j].lo + k
        BY <1>1, StoredFacts
      <4>2. PICK k \in 1..Len(files[j].frames) : g = files[j].frames[k] /\ g.seq = files[j].lo + k
        BY <4>1
      <4>3. CASE j = i
        <5>1. k \in 1..n
          BY <4>2, <4>3, <3>6, <1>2, <1>3 DEF m
        <5>2. g = segs'[i].frames[k] /\ k \in 1..Len(segs'[i].frames)
          BY <5>1, <4>2, <4>3, <2>1, <1>2
        <5> QED BY <5>2, <2>1 DEF Stored
      <4>4. CASE j # i
        BY <4>2, <4>4, <3>4, <2>1 DEF Stored
      <4> QED BY <4>3, <4>4
    <3>7. Stored(segs') = {f \in Stored(files) : f.seq <= m}
      BY <3>5, <3>6
    <3>8. m \in seq..ScanLatest(files, seq)
      BY <3>1, <3>2, <2>3, <1>0, <1>1, <1>5
    <3>9. StartsAt(segs', seq)
      BY <2>1, <2>3, <1>1, <1>2
    <3> QED BY <3>3, <3>7, <3>8, <3>9, <2>3, <1>1
  <2> QED BY <2>2, <2>3, ReadOrNot
<1> QED BY <1>4, <1>5

-------------------------------------------------------------------------------
(***************************************************************************)
(* The refinement of DurableLog.                                           *)
(***************************************************************************)

(* The log as the files show it, before and after a step. *)
RecoveredInv ==
  /\ StartsAt(segs, snap) => Recovered = Stored(segs)
  /\ Unread(segs, snap) => Recovered = {}
  /\ Log!Tail = RecoveredLatest
  /\ RecoveredLatest \in Nat /\ durable <= RecoveredLatest
  /\ \A f \in Recovered : f.seq \in Nat /\ f.seq <= RecoveredLatest

LEMMA RecoveredHolds == JournalInv => RecoveredInv
<1> SUFFICES ASSUME JournalInv PROVE RecoveredInv
  OBVIOUS
<1>1. /\ StartsAt(segs, snap) => Recovered = Stored(segs)
      /\ Unread(segs, snap) => Recovered = {}
  BY RecoveredIs
<1>2. /\ Log!Tail = RecoveredLatest
      /\ RecoveredLatest \in Nat
      /\ \A f \in Recovered : f.seq \in Nat /\ f.seq <= RecoveredLatest
  BY TailIs
<1>3. durable <= RecoveredLatest
  BY InvDurable DEF DurableRecoverable
<1> QED BY <1>1, <1>2, <1>3 DEF RecoveredInv

(* append records a frame. *)
LEMMA AppendRecords ==
  ASSUME JournalInv, RecoveredInv, RecoveredInv', NEW len \in FrameLens, Append_(len)
  PROVE  Log!Record
<1>1. /\ NewFrame(len) \in Frame /\ NewFrame(len).seq = latest + 1
      /\ Stored(segs') = Stored(segs) \cup {NewFrame(len)}
      /\ StartsAt(segs, snap) /\ StartsAt(segs', snap') /\ snap' = snap
  BY AppendStored
<1>2. Recovered' = Recovered \cup {NewFrame(len)}
  BY <1>1 DEF RecoveredInv
<1>3. latest = Log!Tail
  BY LatestIs DEF Append_, RecoveredInv
<1>4. UNCHANGED <<snap, durable, anchored>>
  BY DEF Append_, Relinked
<1> QED BY <1>1, <1>2, <1>3, <1>4 DEF Log!Record

(* sync publishes the end of the log. *)
LEMMA SyncPublishes ==
  ASSUME JournalInv, RecoveredInv, RecoveredInv', Sync
  PROVE  Log!Publish
<1>1. /\ Stored(segs') = Stored(segs) /\ snap' = snap
      /\ StartsAt(segs, snap) => StartsAt(segs', snap')
      /\ Unread(segs, snap) => Unread(segs', snap')
  BY SyncStored DEF Unread
<1>2. StartsAt(segs, snap) \/ Unread(segs, snap)
  BY ReadOrNot DEF JournalInv, DiskInv
<1>3. Recovered' = Recovered
  BY <1>1, <1>2 DEF RecoveredInv
<1>4. latest = Log!Tail /\ durable' = latest /\ anchored' = anchored
  BY LatestIs DEF Sync, RecoveredInv, cutVars
<1> QED BY <1>1, <1>3, <1>4 DEF Log!Publish

(* Publishing the snapshot folds all of the log into it; so does the write *)
(* of a snapshot whose directory sync then fails.                          *)
LEMMA SnapshotFolds ==
  ASSUME JournalInv, RecoveredInv, RecoveredInv', pc = "compact", segs' = segs,
         snap' = latest, durable' = durable, anchored' \in {anchored, durable}
  PROVE  Log!Fold
<1>2. StartsAt(segs, snap) /\ ActiveIntact /\ active_bytes > 0
  BY DEF JournalInv, MemoryInv
<1>3. latest = Log!Tail
  BY LatestIs DEF RecoveredInv
<1>4. Recovered' = {}
  <2>1. Unread(segs', snap')
    BY SnapshotCovers DEF Unread
  <2> QED BY <2>1 DEF RecoveredInv
<1>5. Recovered # {}
  <2>1. active_index \in DOMAIN segs /\ segs[active_index] \in File
    BY ActiveFacts
  <2>2. segs[active_index].frames # << >>
    <3>1. segs[active_index].frames = << >> => FileBytes(segs[active_index]) = 0
      BY <1>2 DEF FileBytes, EndOf, ActiveIntact
    <3> QED BY <3>1, <1>2 DEF ActiveIntact
  <2>3. 1 \in 1..Len(segs[active_index].frames)
    BY <2>1, <2>2, FileFacts
  <2>4. segs[active_index].frames[1] \in Stored(segs)
    BY <2>1, <2>3 DEF Stored
  <2> QED BY <2>4, <1>2 DEF RecoveredInv
<1> QED BY <1>3, <1>4, <1>5 DEF Log!Fold

(* A power failure that undoes nothing loses a suffix of the log at most. *)
LEMMA PowerLossLoses ==
  ASSUME JournalInv, RecoveredInv, RecoveredInv', NEW d \in images, d = Directory,
         NEW i \in d.entries, NEW n \in 0..Len(Image(d)[i].frames),
         NEW r \in 0..SegmentBytes, PowerLoss(d, i, n, r)
  PROVE  Log!Lose \/ UNCHANGED Log!logVars
<1>0. /\ Image(d) = segs /\ d.snap = snap /\ DOMAIN Image(d) = d.entries /\ durable \in Nat
      /\ Recoverable(segs, snap, durable)
  BY ImageDirectory, ImageFacts DEF JournalInv, DiskInv
<1>1. /\ snap' = snap /\ durable' = durable /\ anchored' = anchored
      /\ \/ Unread(segs, snap) /\ Unread(segs', snap)
         \/ /\ StartsAt(segs, snap) /\ StartsAt(segs', snap)
            /\ \E m \in snap..RecoveredLatest :
                 durable <= m /\ Stored(segs') = {f \in Stored(segs) : f.seq <= m}
  <2>1. durable' = durable /\ anchored' = anchored
    BY DEF PowerLoss
  <2> QED BY <2>1, <1>0, PowerLossStored DEF RecoveredLatest
<1>2. CASE Unread(segs, snap) /\ Unread(segs', snap)
  <2>1. Recovered' = Recovered
    BY <1>1, <1>2 DEF RecoveredInv
  <2> QED BY <2>1, <1>1 DEF Log!logVars
<1>3. CASE /\ StartsAt(segs, snap) /\ StartsAt(segs', snap)
           /\ \E m \in snap..RecoveredLatest :
                 durable <= m /\ Stored(segs') = {f \in Stored(segs) : f.seq <= m}
  <2>1. PICK m \in snap..RecoveredLatest :
           durable <= m /\ Stored(segs') = {f \in Stored(segs) : f.seq <= m}
    BY <1>3
  <2>2. Recovered' = {f \in Recovered : f.seq <= m}
    BY <2>1, <1>1, <1>3 DEF RecoveredInv
  <2>3. m \in snap..Log!Tail /\ m >= durable
    <3>1. m \in Nat /\ durable \in Nat
      BY <2>1 DEF JournalInv, TypeOK, StoreTypeOK
    <3> QED BY <3>1, <2>1 DEF RecoveredInv
  <2> QED BY <2>2, <2>3, <1>1 DEF Log!Lose
<1> QED BY <1>1, <1>2, <1>3

(* The files and those that may come back give no number twice. *)
LEMMA EveryOrdered ==
  ASSUME JournalInv PROVE Ordered(Every)
<1>1. /\ Chain(segs) /\ IsFiles(gone) /\ IsFiles(segs)
      /\ \A g \in DOMAIN gone :
           /\ NumberedFile(gone[g]) /\ \A i \in DOMAIN segs : g < i
           /\ \A i \in DOMAIN Every : g < i => Hi(gone[g]) <= Every[i].lo
  BY InvChain DEF JournalInv, TypeOK, StoreTypeOK, CutTypeOK, CutInv
<1>2. IsFiles(Every) /\ DOMAIN Every = DOMAIN segs \cup DOMAIN gone
  BY <1>1 DEF IsFiles, Every
<1>3. Numbered(Every)
  BY <1>1, <1>2 DEF Chain, Numbered, Every
<1>4. ASSUME NEW i \in DOMAIN Every, NEW j \in DOMAIN Every, i < j
      PROVE  Hi(Every[i]) <= Every[j].lo
  <2>1. CASE i \notin DOMAIN segs
    BY <2>1, <1>1, <1>2, <1>4 DEF Every
  <2>2. CASE i \in DOMAIN segs
    <3>1. j \in DOMAIN segs
      <4>1. ASSUME j \in DOMAIN gone PROVE FALSE
        BY <4>1, <2>2, <1>1, <1>4 DEF IsFiles
      <4> QED BY <4>1, <1>2
    <3> QED BY <3>1, <2>2, <1>1, <1>4 DEF Every, Chain, Chained
  <2> QED BY <2>1, <2>2
<1> QED BY <1>2, <1>3, <1>4 DEF Ordered

(* A power failure that undoes changes of the directory goes back to an    *)
(* earlier log, with all that the last directory sync vouches for.         *)
LEMMA PowerLossUndoes ==
  ASSUME JournalInv, JournalInv', RecoveredInv, RecoveredInv', NEW d \in images, d # Directory,
         NEW i \in d.entries, NEW n \in 0..Len(Image(d)[i].frames),
         NEW r \in 0..SegmentBytes, PowerLoss(d, i, n, r)
  PROVE  Log!Undo
<1> DEFINE files == Image(d)
<1>1. /\ DOMAIN files = d.entries /\ anchored \in Nat /\ Recoverable(files, d.snap, anchored)
      /\ Chain(files) /\ d.snap \in Nat /\ d.entries \subseteq DOMAIN Every
  BY ImageFacts
<1>2. snap' = d.snap /\ durable' = anchored /\ anchored' = anchored
  BY DEF PowerLoss
<1>3. d.snap <= snap /\ snap \in Nat
  BY DEF JournalInv, CutInv, TypeOK, StoreTypeOK
<1>4. snap' \in 0..snap
  BY <1>1, <1>2, <1>3
<1>5. anchored <= Log!Tail'
  BY <1>2 DEF RecoveredInv
<1>6. Chain(segs')
  BY DEF JournalInv, TypeOK, StoreTypeOK, DiskInv, Recoverable, Chain
<1>7. CASE Unread(files, d.snap) /\ Unread(segs', snap')
  <2>1. Recovered' = {}
    BY <1>7 DEF RecoveredInv
  <2>2. anchored <= d.snap
    BY <1>1, <1>7, UnreadMark
  <2>3. \A f \in Recovered : f.seq <= anchored => f.seq <= snap'
    <3>1. \A f \in Recovered : f.seq \in Nat
      BY DEF RecoveredInv
    <3> QED BY <3>1, <2>2, <1>1, <1>2
  <2>4. Log!Contiguous(Recovered', snap')
    BY <2>1 DEF Log!Contiguous
  <2> QED BY <2>1, <2>3, <2>4, <1>2, <1>4, <1>5 DEF Log!Undo
<1>8. CASE /\ StartsAt(files, d.snap) /\ StartsAt(segs', snap')
           /\ Stored(segs') \subseteq Stored(files)
  <2>1. Recovered' = Stored(segs') /\ \A f \in Recovered' : f.seq <= RecoveredLatest'
    BY <1>8 DEF RecoveredInv
  <2>2. Recovered' \in SUBSET Frame
    BY <2>1, <1>6, StoredFacts
  <2>3. ASSUME NEW m \in Nat, snap' < m, m <= RecoveredLatest'
        PROVE  \E g \in Stored(segs') : g.seq = m
    <3>1. DOMAIN segs' # {}
      BY <1>1 DEF PowerLoss, Image
    <3>2. PICK t \in DOMAIN segs' : Top(segs', t)
      BY <3>1, <1>6 DEF Chain, Chained
    <3>3. RecoveredLatest' = Hi(segs'[t])
      BY <3>2, <1>1, <1>2, <1>6, <1>8, LatestAligned DEF RecoveredLatest
    <3> QED BY <2>3, <3>2, <3>3, <1>1, <1>2, <1>6, <1>8, StoredDense
  <2>4. Log!Contiguous(Recovered', snap')
    <3>1. ASSUME NEW f \in Recovered', NEW g \in Recovered', f.seq = g.seq PROVE f = g
      BY <3>1, <2>1, <1>6, ChainOrdered, StoredOnce
    <3>2. ASSUME NEW f \in Recovered' PROVE f.seq > snap' /\ f.seq \in Nat
      <4>1. DOMAIN segs' # {}
        BY <1>1 DEF PowerLoss, Image
      <4>2. PICK t \in DOMAIN segs' : Top(segs', t)
        BY <4>1, <1>6 DEF Chain, Chained
      <4>3. f.seq \in Nat /\ snap' < f.seq
        BY <4>2, <2>1, <1>1, <1>2, <1>6, <1>8, StoredFacts, StoredRange
      <4> QED BY <4>3, <1>1, <1>2
    <3>3. ASSUME NEW f \in Recovered', NEW m \in (snap' + 1)..f.seq
          PROVE  \E g \in Recovered' : g.seq = m
      <4>1. f.seq <= RecoveredLatest' /\ f.seq \in Nat /\ RecoveredLatest' \in Nat
        BY <3>2, <2>1 DEF RecoveredInv
      <4>2. m \in Nat /\ snap' < m /\ m <= RecoveredLatest'
        BY <4>1, <1>1, <1>2
      <4> QED BY <4>2, <2>1, <2>3
    <3> QED BY <3>1, <3>2, <3>3 DEF Log!Contiguous
  <2>5. ASSUME NEW f \in Recovered, f.seq <= anchored
        PROVE  f \in Recovered' \/ f.seq <= snap'
    <3>1. SUFFICES ASSUME ~(f.seq <= snap') PROVE f \in Recovered'
      OBVIOUS
    <3>2. f.seq \in Nat /\ snap' < f.seq /\ f.seq <= RecoveredLatest'
      BY <3>1, <2>5, <1>1, <1>2 DEF RecoveredInv
    <3>3. PICK g \in Stored(segs') : g.seq = f.seq
      BY <3>2, <2>3
    <3>4. g \in Stored(Every)
      <4>1. \A j \in DOMAIN files : j \in DOMAIN Every /\ files[j] = Every[j]
        BY <1>1 DEF Image
      <4> HIDE DEF files
      <4>2. Stored(files) \subseteq Stored(Every)
        BY <4>1 DEF Stored
      <4> QED BY <4>2, <3>3, <1>8
    <3>5. f \in Stored(Every)
      <4>1. f \in Stored(segs)
        BY ReadOrNot DEF RecoveredInv, JournalInv, DiskInv
      <4>2. \A j \in DOMAIN segs : j \in DOMAIN Every /\ segs[j] = Every[j]
        BY DEF Every
      <4> QED BY <4>1, <4>2 DEF Stored
    <3>6. f = g
      BY <3>3, <3>4, <3>5, EveryOrdered, StoredOnce
    <3> QED BY <3>3, <3>6, <2>1
  <2> QED BY <2>2, <2>4, <2>5, <1>2, <1>4, <1>5 DEF Log!Undo
<1>9. \/ Unread(files, d.snap) /\ Unread(segs', snap')
      \/ /\ StartsAt(files, d.snap) /\ StartsAt(segs', snap')
         /\ Stored(segs') \subseteq Stored(files)
  <2>1. \/ Unread(files, d.snap) /\ Unread(segs', d.snap)
        \/ /\ StartsAt(files, d.snap) /\ StartsAt(segs', d.snap)
           /\ \E m \in d.snap..ScanLatest(files, d.snap) :
                anchored <= m /\ Stored(segs') = {f \in Stored(files) : f.seq <= m}
    BY <1>1, PowerLossStored
  <2> QED BY <2>1, <1>2
<1> QED BY <1>7, <1>8, <1>9

(* The other steps leave the frames and the snapshot as they are. *)
LEMMA LogStays ==
  ASSUME JournalInv, JournalInv', RecoveredInv, RecoveredInv',
         \/ Open \/ CompactRotate \/ CompactRemove \/ CompactFinish \/ Crash \/ DirectorySynced
         \/ CompactFails /\ (pc = "compact" => snap' = snap)
         \/ \E len \in FrameLens : AppendOverLimit(len)
         \/ \E len \in FrameLens : \E n \in 0..(len - 1) : AppendFails(len, n)
         \/ \E len \in FrameLens : AppendRotateFails(len)
         \/ UNCHANGED vars
  PROVE  /\ Recovered' = Recovered /\ snap' = snap /\ durable' = durable
         /\ anchored' \in {anchored, durable}
<1>0. anchored' \in {anchored, durable} /\ durable' = durable
  BY DEF Open, CompactRotate, CompactRemove, CompactFinish, CompactFails, RotateFails, Crash,
         DirectorySynced, AppendOverLimit, AppendFails, AppendRotateFails, Relinked, Settled,
         vars, cutVars
<1> SUFFICES Recovered' = Recovered /\ snap' = snap
  BY <1>0
<1>1. CASE segs' = segs /\ snap' = snap
  BY <1>1 DEF Recovered
<1>2. CASE Open
  <2>1. /\ snap' = snap
        /\ \/ /\ StartsAt(segs, snap) /\ StartsAt(segs', snap')
              /\ Stored(segs') = Stored(segs)
           \/ Unread(segs, snap) /\ Unread(segs', snap')
    BY <1>2, OpenStored
  <2> QED BY <2>1 DEF RecoveredInv
<1>3. CASE CompactRotate
  <2>1. pc = "rotate" /\ pc' = "remove" /\ snap' = snap
    BY <1>3 DEF CompactRotate
  <2>2. Covered(segs, snap) /\ Covered(segs', snap')
    BY <2>1 DEF JournalInv, MemoryInv
  <2> QED BY <2>1, <2>2 DEF RecoveredInv, Unread
<1>4. CASE CompactRemove
  <2>1. pc = "remove" /\ pc' = pc /\ snap' = snap
    BY <1>4 DEF CompactRemove
  <2>2. Covered(segs, snap) /\ Covered(segs', snap')
    BY <2>1 DEF JournalInv, MemoryInv
  <2> QED BY <2>1, <2>2 DEF RecoveredInv, Unread
<1>5. CASE CompactFinish \/ Crash \/ DirectorySynced \/ UNCHANGED vars
  BY <1>1, <1>5 DEF CompactFinish, Crash, DirectorySynced, vars, diskVars
<1>6. CASE \E len \in FrameLens : AppendOverLimit(len)
  BY <1>1, <1>6 DEF AppendOverLimit, diskVars
<1>7. CASE \E len \in FrameLens : \E n \in 0..(len - 1) : AppendFails(len, n)
  <2>1. PICK len \in FrameLens : \E n \in 0..(len - 1) : AppendFails(len, n)
    BY <1>7
  <2>2. PICK n \in 0..(len - 1) : AppendFails(len, n)
    BY <2>1
  <2>3. /\ Stored(segs') = Stored(segs) /\ snap' = snap
        /\ StartsAt(segs, snap) /\ StartsAt(segs', snap')
    BY <2>2, AppendFailsStored
  <2> QED BY <2>3 DEF RecoveredInv
<1>8. CASE \E len \in FrameLens : AppendRotateFails(len)
  <2>1. PICK len \in FrameLens : AppendRotateFails(len)
    BY <1>8
  <2>2. pc = "idle" /\ ~paused /\ RotateFails /\ active_bytes > 0
    BY <2>1 DEF AppendRotateFails, MustRotate
  <2>3. StartsAt(segs, snap) /\ ActiveIntact
    BY <2>2 DEF JournalInv, MemoryInv
  <2>4. StartsAt(segs', snap) /\ snap' = snap
    BY <2>2, <2>3, RotateFailsFacts
  <2>5. Stored(segs') = Stored(segs)
    BY <2>2, <2>3, RotatedStored DEF RotateFails
  <2> QED BY <2>3, <2>4, <2>5 DEF RecoveredInv
<1>9. CASE CompactFails /\ (pc = "compact" => snap' = snap)
  <2>1. CASE pc # "rotate"
    <3>1. segs' = segs /\ snap' = snap
      BY <2>1, <1>9 DEF CompactFails, diskVars
    <3> QED BY <3>1, <1>1
  <2>2. CASE pc = "rotate"
    <3>1. /\ Covered(segs, snap) /\ ActiveIntact /\ active_bytes > 0 /\ RotateFails
      BY <2>2, <1>9 DEF JournalInv, MemoryInv, CompactFails
    <3>2. Covered(segs', snap) /\ snap' = snap
      BY <3>1, <2>2, RotateFailsFacts
    <3> QED BY <3>1, <3>2 DEF RecoveredInv, Unread
  <2> QED BY <2>1, <2>2
<1> QED BY <1>2, <1>3, <1>4, <1>5, <1>6, <1>7, <1>8, <1>9

LEMMA LogStep ==
  ASSUME JournalInv, JournalInv', RecoveredInv, RecoveredInv', [Next]_vars
  PROVE  Log!LogNext \/ UNCHANGED Log!logVars
<1>1. CASE \E len \in FrameLens : Append_(len)
  BY <1>1, AppendRecords DEF Log!LogNext
<1>2. CASE Sync
  BY <1>2, SyncPublishes DEF Log!LogNext
<1>3. CASE CompactSnapshot
  <2>1. pc = "compact" /\ segs' = segs /\ snap' = latest /\ durable' = durable
        /\ anchored' \in {anchored, durable}
    BY <1>3 DEF CompactSnapshot, Settled
  <2> QED BY <2>1, SnapshotFolds DEF Log!LogNext
<1>4. ASSUME NEW d \in images, NEW i \in d.entries, NEW n \in 0..Len(Image(d)[i].frames),
             NEW r \in 0..SegmentBytes, PowerLoss(d, i, n, r)
      PROVE  Log!LogNext \/ UNCHANGED Log!logVars
  BY <1>4, PowerLossLoses, PowerLossUndoes DEF Log!LogNext
<1>5. CASE CompactFails /\ pc = "compact" /\ snap' # snap
  <2>1. segs' = segs /\ snap' = latest /\ durable' = durable
        /\ anchored' \in {anchored, durable}
    BY <1>5 DEF CompactFails, Relinked
  <2> QED BY <2>1, <1>5, SnapshotFolds DEF Log!LogNext
<1>6. CASE \/ Open \/ CompactRotate \/ CompactRemove \/ CompactFinish \/ Crash \/ DirectorySynced
           \/ CompactFails /\ (pc = "compact" => snap' = snap)
           \/ \E len \in FrameLens : AppendOverLimit(len)
           \/ \E len \in FrameLens : \E n \in 0..(len - 1) : AppendFails(len, n)
           \/ \E len \in FrameLens : AppendRotateFails(len)
           \/ UNCHANGED vars
  <2>1. /\ Recovered' = Recovered /\ snap' = snap /\ durable' = durable
        /\ anchored' \in {anchored, durable}
    BY <1>6, LogStays
  <2> QED BY <2>1 DEF Log!LogNext, Log!Anchor, Log!logVars
<1> QED BY <1>1, <1>2, <1>3, <1>4, <1>5, <1>6 DEF Next

(* JournalStore implements DurableLog, for every value of the limits and   *)
(* frame lengths: append records one frame, sync publishes the end of the  *)
(* log, the write of the snapshot alone folds it, and no other step, crash *)
(* or reopening changes what the journal holds.  A power failure loses at  *)
(* most what was never synced, or, where it undoes changes of the session  *)
(* directory, what was not synced when that directory last was.            *)
THEOREM LogRefinement == Spec => LogSpec
<1>1. Init => Log!LogInit
  <2> SUFFICES ASSUME Init PROVE Log!LogInit
    OBVIOUS
  <2>1. Unread(segs, snap)
    BY DEF Init, Unread, Covered
  <2>2. Recovered = {}
    BY <2>1, InitInv, RecoveredIs
  <2> QED BY <2>2 DEF Init, Log!LogInit
<1>2. JournalInv /\ JournalInv' /\ RecoveredInv /\ RecoveredInv' /\ [Next]_vars
        => [Log!LogNext]_(Log!logVars)
  BY LogStep
<1> QED BY <1>1, <1>2, JournalInvariant, RecoveredHolds, PTL DEF Spec, LogSpec, Log!LogSpec

(* No step of the store, no crash and no reopening drops or rewrites a     *)
(* frame that sync reported durable, until a snapshot covers it; nor does  *)
(* a power failure, as far as it leaves that report standing.              *)
THEOREM DurableFramesKept == Spec => DurableFramesStay
<1> DEFINE Kept == \A f \in Recovered : f.seq <= durable' => f \in Recovered' \/ f.seq <= snap'
<1>1. ASSUME JournalInv, JournalInv', RecoveredInv, RecoveredInv', [Next]_vars PROVE Kept
  <2>1. Log!LogNext \/ UNCHANGED Log!logVars
    BY <1>1, LogStep
  <2>2. CASE Log!Record
    BY <2>2 DEF Log!Record
  <2>3. CASE Log!Publish \/ Log!Anchor
    BY <2>3 DEF Log!Publish, Log!Anchor
  <2>4. CASE Log!Fold
    BY <2>4, <1>1 DEF Log!Fold, RecoveredInv
  <2>5. CASE Log!Lose
    <3>1. PICK m \in snap..Log!Tail : m >= durable /\ Recovered' = {f \in Recovered : f.seq <= m}
      BY <2>5 DEF Log!Lose
    <3>2. \A f \in Recovered : f.seq \in Nat
      BY <1>1 DEF RecoveredInv
    <3>3. m \in Int /\ durable \in Nat /\ durable' = durable
      BY <3>1, <2>5, <1>1 DEF JournalInv, TypeOK, StoreTypeOK, Log!Lose
    <3> QED BY <3>1, <3>2, <3>3
  <2>6. CASE Log!Undo
    BY <2>6 DEF Log!Undo
  <2>7. CASE UNCHANGED Log!logVars
    BY <2>7 DEF Log!logVars
  <2> QED BY <2>1, <2>2, <2>3, <2>4, <2>5, <2>6, <2>7 DEF Log!LogNext
<1>2. JournalInv /\ JournalInv' /\ RecoveredInv /\ RecoveredInv' /\ [Next]_vars => [Kept]_vars
  BY <1>1
<1> QED BY <1>2, JournalInvariant, RecoveredHolds, PTL DEF Spec, DurableFramesStay

-------------------------------------------------------------------------------
(***************************************************************************)
(* Reading.                                                                *)
(***************************************************************************)

(* The first number a scan reports. *)
LEMMA EarliestIs ==
  ASSUME NEW files, Chain(files), NEW s \in Nat, NEW t, Top(files, t),
         StartsAt(files, s) \/ Unread(files, s)
  PROVE  /\ ScanEarliest(files, s) = IF ScanLatest(files, s) = s THEN s ELSE s + 1
         /\ ScanLatest(files, s) \in Nat /\ s <= ScanLatest(files, s)
<1>1. CASE Unread(files, s)
  BY <1>1, ScanUnread DEF ScanEarliest
<1>2. CASE StartsAt(files, s)
  <2>1. ScanLatest(files, s) = Hi(files[t]) /\ ScanFrames(files, s) = Stored(files)
    BY <1>2, LatestAligned DEF Stored
  <2>2. /\ s <= Hi(files[t])
        /\ Stored(files) = {} <=> Hi(files[t]) = s
        /\ Stored(files) # {} => \E f \in Stored(files) : f.seq = s + 1
    BY <1>2, StoredLast
  <2>3. Hi(files[t]) \in Nat
    BY FileFacts DEF Chain, IsFiles, Hi, Top
  <2>4. CASE Stored(files) = {}
    BY <2>1, <2>2, <2>3, <2>4 DEF ScanEarliest
  <2>5. CASE Stored(files) # {}
    <3> DEFINE S == {f.seq : f \in Stored(files)}
    <3>1. S \in SUBSET Int /\ \A y \in S : s + 1 <= y
      <4>1. \A f \in Stored(files) : f.seq \in Nat /\ s < f.seq
        BY <1>2, StoredFacts, StoredRange
      <4> QED BY <4>1
    <3>2. s + 1 \in S
      BY <2>2, <2>5
    <3>3. Min(S) = s + 1
      BY <3>1, <3>2, MinIs
    <3> QED BY <3>3, <2>1, <2>2, <2>3, <2>5 DEF ScanEarliest
  <2> QED BY <2>4, <2>5
<1> QED BY <1>1, <1>2

LEMMA OpenRead ==
  ASSUME JournalInv, Open
  PROVE  ReadInv'
<1> DEFINE files == OpenFiles
<1>1. /\ base' = snap /\ latest' = ScanLatest(files, snap)
      /\ earliest' = ScanEarliest(files, snap)
      /\ live' = << >> /\ live_boundary' = ScanLatest(files, snap)
  BY DEF Open
<1>2. /\ Chain(files) /\ snap \in Nat
      /\ StartsAt(files, snap) \/ Unread(files, snap)
  BY OpenFilesFacts DEF JournalInv, TypeOK, StoreTypeOK, Unread
<1>3. PICK t : Top(files, t)
  BY OpenFilesFacts
<1> HIDE DEF files
<1>4. /\ ScanEarliest(files, snap) = IF ScanLatest(files, snap) = snap THEN snap ELSE snap + 1
      /\ ScanLatest(files, snap) \in Nat /\ snap <= ScanLatest(files, snap)
  BY <1>2, <1>3, EarliestIs
<1> QED BY <1>1, <1>4 DEF ReadInv

LEMMA AppendRead ==
  ASSUME JournalInv, ReadInv, NEW len \in FrameLens, Append_(len)
  PROVE  ReadInv'
<1> DEFINE frame == NewFrame(len)
<1> DEFINE cached == Append(live, frame)
<1>1. /\ pc = "idle" /\ base' = base /\ latest' = latest + 1
      /\ earliest' = IF earliest = 0 \/ latest = base THEN latest + 1 ELSE earliest
  BY DEF Append_
<1>2. /\ base <= latest
      /\ earliest = IF latest = base THEN base ELSE base + 1
      /\ live_boundary + Len(live) = latest
      /\ \A k \in 1..Len(live) : live[k].seq = live_boundary + k /\ live[k] \in Stored(segs)
  BY <1>1 DEF ReadInv
<1>3. /\ base \in Nat /\ latest \in Nat /\ live_boundary \in Nat /\ earliest \in Nat
      /\ live \in Seq(Frame) /\ Len(live) \in Nat
  BY DEF JournalInv, TypeOK, StoreTypeOK
<1>4. /\ frame \in Frame /\ frame.seq = latest + 1
      /\ Stored(segs') = Stored(segs) \cup {frame}
  BY AppendStored
<1>5. base' <= latest' /\ earliest' = IF latest' = base' THEN base' ELSE base' + 1
  BY <1>1, <1>2, <1>3
<1>6. PICK n \in 0..Len(cached) :
        /\ live' = SubSeq(cached, n + 1, Len(cached))
        /\ live_boundary' = IF n = 0 THEN live_boundary ELSE cached[n].seq
  BY DEF Append_, NewFrame, TargetFiles, TargetIndex
<1> HIDE DEF frame
<1>7. /\ cached \in Seq(Frame) /\ Len(cached) = Len(live) + 1
      /\ cached[Len(live) + 1] = frame
      /\ \A k \in 1..Len(live) : cached[k] = live[k]
  BY <1>3, <1>4
<1>8. ASSUME NEW k \in 1..Len(cached)
      PROVE  cached[k].seq = live_boundary + k /\ cached[k] \in Stored(segs')
  <2>1. CASE k \in 1..Len(live)
    BY <2>1, <1>2, <1>4, <1>7
  <2>2. CASE k = Len(live) + 1
    BY <2>2, <1>2, <1>3, <1>4, <1>7
  <2> QED BY <2>1, <2>2, <1>3, <1>7
<1> HIDE DEF cached
<1>9. n \in Nat /\ n <= Len(cached) /\ Len(cached) \in Nat
  BY <1>3, <1>6, <1>7
<1>10. live_boundary' = live_boundary + n
  <2>1. CASE n = 0
    BY <2>1, <1>3, <1>6
  <2>2. CASE n # 0
    BY <2>2, <1>6, <1>8, <1>9
  <2> QED BY <2>1, <2>2
<1>11. /\ Len(live') = Len(cached) - n
       /\ \A k \in 1..(Len(cached) - n) : live'[k] = cached[n + k]
  BY <1>6, <1>7, <1>9
<1>12. live_boundary' + Len(live') = latest'
  <2>1. live_boundary' + Len(live') = (live_boundary + n) + (Len(cached) - n)
    BY <1>10, <1>11
  <2>2. (live_boundary + n) + (Len(cached) - n) = live_boundary + Len(live) + 1
    BY <1>3, <1>7, <1>9
  <2> QED BY <2>1, <2>2, <1>1, <1>2
<1>13. ASSUME NEW k \in 1..Len(live')
       PROVE  live'[k].seq = live_boundary' + k /\ live'[k] \in Stored(segs')
  <2>1. n + k \in 1..Len(cached) /\ live'[k] = cached[n + k]
    BY <1>9, <1>11
  <2> QED BY <2>1, <1>3, <1>8, <1>9, <1>10
<1> QED BY <1>5, <1>12, <1>13 DEF ReadInv

LEMMA ReadStep ==
  ASSUME JournalInv, ReadInv, [Next]_vars
  PROVE  ReadInv'
<1>1. CASE Open
  BY <1>1, OpenRead
<1>2. CASE \E len \in FrameLens : Append_(len)
  BY <1>2, AppendRead
<1>3. CASE \E len \in FrameLens : AppendOverLimit(len)
  BY <1>3 DEF AppendOverLimit, diskVars, ReadInv
<1>4. CASE Sync
  <2>1. Stored(segs') = Stored(segs)
    BY <1>4, SyncStored
  <2> QED BY <2>1, <1>4 DEF Sync, memVars, ReadInv
<1>5. CASE CompactFinish
  <2>1. snap = latest /\ latest \in Nat
    BY <1>5 DEF CompactFinish, JournalInv, TypeOK, StoreTypeOK, MemoryInv
  <2> QED BY <2>1, <1>5 DEF CompactFinish, ReadInv
<1>6. CASE UNCHANGED vars
  BY <1>6 DEF vars, diskVars, memVars, ReadInv
<1>7. CASE \/ CompactSnapshot \/ CompactRotate \/ CompactRemove \/ CompactFails \/ Crash
           \/ \E len \in FrameLens : \E n \in 0..(len - 1) : AppendFails(len, n)
           \/ \E len \in FrameLens : AppendRotateFails(len)
           \/ \E d \in images : \E i \in d.entries : \E n \in 0..Len(Image(d)[i].frames) :
                \E t \in 0..SegmentBytes : PowerLoss(d, i, n, t)
  <2>1. pc' # "idle"
    BY <1>7 DEF CompactSnapshot, CompactRotate, CompactRemove, CompactFails, Crash,
                AppendFails, AppendRotateFails, PowerLoss, Forget
  <2> QED BY <2>1 DEF ReadInv
<1>8. CASE DirectorySynced
  BY <1>8 DEF DirectorySynced, diskVars, memVars, ReadInv
<1> QED BY <1>1, <1>2, <1>3, <1>4, <1>5, <1>6, <1>7, <1>8 DEF Next

(* The bounds and the live window in memory agree with the disk at every   *)
(* point at which a reader can hold the journal lock.                      *)
THEOREM ReadInvariant == Spec => []ReadInv
<1>1. Init => ReadInv
  BY DEF Init, ReadInv
<1>2. JournalInv /\ ReadInv /\ [Next]_vars => ReadInv'
  BY ReadStep
<1> QED BY <1>1, <1>2, JournalInvariant, PTL DEF Spec

LEMMA BoundsAgree ==
  ASSUME JournalInv, ReadInv
  PROVE  BoundsMatchReplay
<1> SUFFICES ASSUME pc = "idle"
             PROVE  earliest = ScanEarliest(segs, base) /\ latest = ScanLatest(segs, base)
  BY DEF BoundsMatchReplay
<1>1. base = snap /\ snap \in Nat /\ Chain(segs) /\ Top(segs, active_index)
  BY ActiveFacts DEF JournalInv, TypeOK, StoreTypeOK, MemoryInv
<1>2. latest = ScanLatest(segs, base)
  BY <1>1, LatestIs DEF RecoveredLatest
<1>3. StartsAt(segs, snap) \/ Unread(segs, snap)
  BY ReadOrNot DEF JournalInv, DiskInv
<1>4. ScanEarliest(segs, base) = IF latest = base THEN base ELSE base + 1
  BY <1>1, <1>2, <1>3, EarliestIs
<1> QED BY <1>2, <1>4 DEF ReadInv

(* sequence_bounds answers from memory what a replay of the disk would.    *)
THEOREM BoundsExact == Spec => []BoundsMatchReplay
<1>1. JournalInv /\ ReadInv => BoundsMatchReplay
  BY BoundsAgree
<1> QED BY <1>1, JournalInvariant, ReadInvariant, PTL

LEMMA LiveAgrees ==
  ASSUME JournalInv, ReadInv
  PROVE  LiveReadsMatchDisk
<1> SUFFICES ASSUME pc = "idle", NEW from \in 0..latest, LiveReadable(from)
             PROVE  ~HistoryUnavailable(from) /\ ReadLiveFrom(from) = ReadFrom(from)
  BY DEF LiveReadsMatchDisk
<1>1. ~gap /\ from >= live_boundary /\ from >= base
  BY DEF LiveReadable
<1>2. /\ base = snap /\ StartsAt(segs, snap) /\ latest = Hi(segs[active_index])
      /\ Chain(segs) /\ Top(segs, active_index)
  BY <1>1, ActiveFacts DEF JournalInv, MemoryInv, ActiveIntact
<1>3. /\ base \in Nat /\ latest \in Nat /\ live_boundary \in Nat /\ earliest \in Nat
      /\ live \in Seq(Frame) /\ Len(live) \in Nat /\ from \in Nat /\ snap \in Nat
  BY DEF JournalInv, TypeOK, StoreTypeOK
<1>4. /\ earliest = IF latest = base THEN base ELSE base + 1
      /\ live_boundary + Len(live) = latest
      /\ \A k \in 1..Len(live) : live[k].seq = live_boundary + k /\ live[k] \in Stored(segs)
  BY DEF ReadInv
<1>5. ~HistoryUnavailable(from)
  <2>1. ScanEarliest(segs, base) = earliest
    BY BoundsAgree DEF BoundsMatchReplay
  <2>2. ~(from < base) /\ ~(from + 1 < earliest)
    BY <1>1, <1>3, <1>4
  <2> QED BY <2>1, <2>2 DEF HistoryUnavailable
<1>6. ScanFrames(segs, base) = Stored(segs)
  BY <1>2, <1>3, LatestAligned DEF Stored
<1>7. Range(live) = {live[k] : k \in 1..Len(live)}
  BY <1>3 DEF Range
<1>8. ASSUME NEW f \in Range(live) PROVE f \in Stored(segs)
  BY <1>4, <1>7, <1>8
<1>9. ASSUME NEW f \in Stored(segs), f.seq > from PROVE f \in Range(live)
  <2>1. f.seq \in Nat /\ f.seq <= latest
    BY <1>2, StoredFacts, StoredRange
  <2> DEFINE k == f.seq - live_boundary
  <2>2. k \in 1..Len(live) /\ live_boundary + k = f.seq
    BY <2>1, <1>1, <1>3, <1>4, <1>9
  <2>3. live[k].seq = f.seq /\ live[k] \in Stored(segs)
    BY <2>2, <1>4
  <2>4. live[k] = f
    BY <2>3, <1>2, ChainOrdered, StoredOnce
  <2> QED BY <2>2, <2>4, <1>7
<1>10. ReadLiveFrom(from) = {f \in Range(live) : f.seq > from}
  BY DEF ReadLiveFrom
<1>11. ReadFrom(from) = {f \in Stored(segs) : f.seq > from}
  BY <1>6 DEF ReadFrom
<1> QED BY <1>5, <1>8, <1>9, <1>10, <1>11

(* read_live_from answers from memory exactly what read_from would find on *)
(* disk, for every size of the live window and every history of appends,   *)
(* evictions, compactions, crashes and reopenings.                         *)
THEOREM LiveReadsExact == Spec => []LiveReadsMatchDisk
<1>1. JournalInv /\ ReadInv => LiveReadsMatchDisk
  BY LiveAgrees
<1> QED BY <1>1, JournalInvariant, ReadInvariant, PTL

-------------------------------------------------------------------------------
(***************************************************************************)
(* Sums over finite sets.  The library's sum takes the elements in an      *)
(* unspecified order; what follows shows that the order does not matter.   *)
(* The provers have no induction, so each argument looks at a smallest     *)
(* counterexample.                                                         *)
(***************************************************************************)
LEMMA SmallestSubset ==
  ASSUME NEW S, IsFiniteSet(S), NEW T \in SUBSET SUBSET S, T # {}
  PROVE  \E u \in T : \A v \in T : Cardinality(u) <= Cardinality(v)
<1>1. \A u \in T : Cardinality(u) \in Nat
  BY FS_Subset, FS_CardinalityType
<1> DEFINE N == {Cardinality(u) : u \in T}
<1>2. N \subseteq Nat /\ N # {}
  BY <1>1
<1> HIDE DEF N
<1>3. PICK n \in N : \A m \in N : n <= m
  BY <1>2, LeastNat
<1> QED BY <1>3 DEF N

(* The element the sum takes first. *)
Taken(s) == CHOOSE x \in s : TRUE

(* g gives the sums of f over the subsets of S. *)
Adds(f, S, g) ==
  g = [s \in SUBSET S |-> IF s = {} THEN 0 ELSE f[Taken(s)] + g[s \ {Taken(s)}]]

LEMMA SumUnfold ==
  ASSUME NEW f, NEW S
  PROVE  SumFunctionOnSet(f, S) = (CHOOSE g : Adds(f, S, g))[S]
BY Zenon DEF SumFunctionOnSet, FoldFunctionOnSet, MapThenFoldSet, Adds, Taken

LEMMA TakenIn ==
  ASSUME NEW s, s # {}
  PROVE  Taken(s) \in s
BY DEF Taken

LEMMA AddsAt ==
  ASSUME NEW f, NEW S, NEW g, Adds(f, S, g), NEW s \in SUBSET S
  PROVE  g[s] = IF s = {} THEN 0 ELSE f[Taken(s)] + g[s \ {Taken(s)}]
BY DEF Adds

(* The sums over a set do not depend on the set they are part of. *)
LEMMA AddsAgree ==
  ASSUME NEW f, NEW S, NEW g, Adds(f, S, g), NEW R, NEW h, Adds(f, R, h),
         NEW s \in SUBSET S, s \subseteq R, IsFiniteSet(s)
  PROVE  g[s] = h[s]
<1> DEFINE T == {u \in SUBSET s : g[u] # h[u]}
<1>1. ASSUME T # {} PROVE FALSE
  <2>1. PICK u \in T : \A v \in T : Cardinality(u) <= Cardinality(v)
    BY <1>1, SmallestSubset
  <2>2. IsFiniteSet(u) /\ Cardinality(u) \in Nat
    BY FS_Subset, FS_CardinalityType
  <2>3. u # {}
    BY AddsAt
  <2> DEFINE v == u \ {Taken(u)}
  <2>4. v \in SUBSET s /\ Cardinality(v) = Cardinality(u) - 1
    <3>1. Taken(u) \in u
      BY <2>3, TakenIn
    <3> QED BY <3>1, <2>2, FS_RemoveElement
  <2>5. v \notin T
    BY <2>1, <2>2, <2>4
  <2>6. g[v] = h[v]
    BY <2>4, <2>5
  <2>7. g[u] = f[Taken(u)] + g[v] /\ h[u] = f[Taken(u)] + h[v]
    <3>1. u \in SUBSET S /\ u \in SUBSET R
      OBVIOUS
    <3> QED BY <3>1, <2>3, AddsAt
  <2> QED BY <2>6, <2>7
<1> QED BY <1>1

LEMMA AddsExists ==
  ASSUME NEW f, NEW S, IsFiniteSet(S)
  PROVE  \E g : Adds(f, S, g)
<1> DEFINE T == {u \in SUBSET S : ~\E g : Adds(f, u, g)}
<1>1. ASSUME T # {} PROVE FALSE
  <2>1. PICK u \in T : \A v \in T : Cardinality(u) <= Cardinality(v)
    BY <1>1, SmallestSubset
  <2>2. IsFiniteSet(u) /\ Cardinality(u) \in Nat
    BY FS_Subset, FS_CardinalityType
  <2> DEFINE G(v) == CHOOSE g : Adds(f, v, g)
  <2>3. ASSUME NEW v \in SUBSET u, v # u PROVE Adds(f, v, G(v)) /\ IsFiniteSet(v)
    <3>1. IsFiniteSet(v) /\ Cardinality(v) \in Nat /\ Cardinality(v) <= Cardinality(u)
          /\ Cardinality(u) # Cardinality(v)
      BY <2>2, <2>3, FS_Subset, FS_CardinalityType
    <3>2. v \notin T
      BY <3>1, <2>1, <2>2
    <3>3. \E g : Adds(f, v, g)
      BY <3>2
    <3> QED BY <3>1, <3>3, Zenon
  <2> HIDE DEF G
  <2> DEFINE Sum(v) == G(v)[v]
  <2> DEFINE g == [s \in SUBSET u |->
                     IF s = {} THEN 0
                     ELSE IF s = u THEN f[Taken(u)] + Sum(u \ {Taken(u)}) ELSE Sum(s)]
  <2>4. ASSUME NEW s \in SUBSET u, s # {}
        PROVE  g[s] = f[Taken(s)] + g[s \ {Taken(s)}]
    <3> DEFINE r == s \ {Taken(s)}
    <3>1. Taken(s) \in s
      BY <2>4, TakenIn
    <3>2. r \in SUBSET u /\ r # u /\ r \in SUBSET s
      BY <3>1
    <3>3. Adds(f, r, G(r)) /\ IsFiniteSet(r)
      BY <3>2, <2>3
    <3>4. g[r] = Sum(r)
      <4>1. CASE r = {}
        BY <4>1, <3>3, AddsAt
      <4>2. CASE r # {}
        BY <4>2, <3>2
      <4> QED BY <4>1, <4>2
    <3>5. CASE s = u
      BY <3>4, <3>5, <2>4
    <3>6. CASE s # u
      <4>1. Adds(f, s, G(s))
        BY <3>6, <2>3
      <4>2. G(s)[s] = f[Taken(s)] + G(s)[r]
        BY <4>1, <2>4, AddsAt
      <4>3. G(s)[r] = G(r)[r]
        BY <4>1, <3>2, <3>3, AddsAgree
      <4> QED BY <4>2, <4>3, <3>4, <3>6, <2>4
    <3> QED BY <3>5, <3>6
  <2>5. Adds(f, u, g)
    <3>1. g = [s \in SUBSET u |-> g[s]]
      OBVIOUS
    <3>2. g[{}] = 0
      OBVIOUS
    <3> HIDE DEF g
    <3>3. g = [s \in SUBSET u |-> IF s = {} THEN 0 ELSE f[Taken(s)] + g[s \ {Taken(s)}]]
      BY <3>1, <3>2, <2>4
    <3> QED BY <3>3 DEF Adds
  <2> QED BY <2>1, <2>5
<1>2. T = {}
  BY <1>1
<1> QED BY <1>2

LEMMA SumTaken ==
  ASSUME NEW f, NEW S, IsFiniteSet(S)
  PROVE  SumFunctionOnSet(f, S) =
           IF S = {} THEN 0 ELSE f[Taken(S)] + SumFunctionOnSet(f, S \ {Taken(S)})
<1> DEFINE G(v) == CHOOSE g : Adds(f, v, g)
<1> DEFINE r == S \ {Taken(S)}
<1>1. Adds(f, S, G(S))
  BY AddsExists, Zenon
<1>2. IsFiniteSet(r) /\ r \in SUBSET S
  BY FS_Subset
<1>3. Adds(f, r, G(r))
  BY <1>2, AddsExists, Zenon
<1>4. SumFunctionOnSet(f, S) = G(S)[S] /\ SumFunctionOnSet(f, r) = G(r)[r]
  BY SumUnfold, Zenon
<1> HIDE DEF G
<1>5. G(S)[S] = IF S = {} THEN 0 ELSE f[Taken(S)] + G(S)[r]
  BY <1>1, AddsAt
<1>6. G(S)[r] = G(r)[r]
  BY <1>1, <1>2, <1>3, AddsAgree
<1> QED BY <1>4, <1>5, <1>6

(* Any element may be taken first. *)
LEMMA SumAny ==
  ASSUME NEW f, NEW S, IsFiniteSet(S), \A x \in S : f[x] \in Nat
  PROVE  /\ SumFunctionOnSet(f, S) \in Nat
         /\ \A x \in S : SumFunctionOnSet(f, S) = f[x] + SumFunctionOnSet(f, S \ {x})
<1> DEFINE Sum(s) == SumFunctionOnSet(f, s)
<1> DEFINE Good(s) == Sum(s) \in Nat /\ \A x \in s : Sum(s) = f[x] + Sum(s \ {x})
<1> DEFINE T == {u \in SUBSET S : ~Good(u)}
<1>1. ASSUME T # {} PROVE FALSE
  <2>1. PICK u \in T : \A v \in T : Cardinality(u) <= Cardinality(v)
    BY <1>1, SmallestSubset
  <2>2. IsFiniteSet(u) /\ Cardinality(u) \in Nat
    BY FS_Subset, FS_CardinalityType
  <2>3. ASSUME NEW x \in u PROVE Good(u \ {x})
    <3>1. Cardinality(u \ {x}) = Cardinality(u) - 1 /\ u \ {x} \in SUBSET S
      BY <2>2, FS_RemoveElement
    <3>2. u \ {x} \notin T
      BY <3>1, <2>1, <2>2
    <3> QED BY <3>1, <3>2
  <2>4. Sum(u) = IF u = {} THEN 0 ELSE f[Taken(u)] + Sum(u \ {Taken(u)})
    BY <2>2, SumTaken
  <2> HIDE DEF Sum
  <2>5. Good(u)
    <3>1. CASE u = {}
      BY <3>1, <2>4
    <3>2. CASE u # {}
      <4> DEFINE p == Taken(u)
      <4>1. p \in u /\ Sum(u) = f[p] + Sum(u \ {p}) /\ f[p] \in Nat /\ Sum(u \ {p}) \in Nat
        BY <3>2, <2>3, <2>4, TakenIn
      <4> HIDE DEF p
      <4>2. ASSUME NEW x \in u PROVE Sum(u) = f[x] + Sum(u \ {x})
        <5>1. CASE x = p
          BY <5>1, <4>1
        <5>2. CASE x # p
          <6>1. Sum(u \ {p}) = f[x] + Sum((u \ {p}) \ {x})
            BY <5>2, <4>1, <2>3
          <6>2. Sum(u \ {x}) = f[p] + Sum((u \ {x}) \ {p})
            BY <5>2, <4>1, <2>3
          <6>3. (u \ {p}) \ {x} = (u \ {x}) \ {p}
            OBVIOUS
          <6> DEFINE c == Sum((u \ {p}) \ {x})
          <6>4. f[x] \in Nat /\ c \in Nat
            <7> DEFINE v == u \ {p}
            <7>1. x \in v /\ v \in SUBSET S /\ IsFiniteSet(v)
                  /\ Cardinality(v) = Cardinality(u) - 1
              BY <5>2, <4>1, <2>2, FS_RemoveElement
            <7> HIDE DEF v
            <7>2. Cardinality(v \ {x}) = Cardinality(v) - 1 /\ v \ {x} \in SUBSET S
              BY <7>1, FS_RemoveElement
            <7>3. v \ {x} \notin T
              <8>1. ~(Cardinality(u) <= Cardinality(v \ {x}))
                BY <7>1, <7>2, <2>2
              <8> HIDE DEF T
              <8> QED BY <8>1, <2>1
            <7>4. Good(v \ {x})
              BY <7>2, <7>3
            <7> QED BY <7>4 DEF v
          <6>5. Sum(u \ {p}) = f[x] + c /\ Sum(u \ {x}) = f[p] + c
            BY <6>1, <6>2, <6>3
          <6> HIDE DEF c
          <6> QED BY <6>4, <6>5, <4>1
        <5> QED BY <5>1, <5>2
      <4> QED BY <4>1, <4>2
    <3> QED BY <3>1, <3>2
  <2> QED BY <2>1, <2>5
<1>2. S \notin T
  BY <1>1
<1> QED BY <1>2

LEMMA SumSame ==
  ASSUME NEW f, NEW g, NEW S, IsFiniteSet(S), \A x \in S : f[x] = g[x]
  PROVE  SumFunctionOnSet(f, S) = SumFunctionOnSet(g, S)
<1> DEFINE T == {u \in SUBSET S : SumFunctionOnSet(f, u) # SumFunctionOnSet(g, u)}
<1>1. ASSUME T # {} PROVE FALSE
  <2>1. PICK u \in T : \A v \in T : Cardinality(u) <= Cardinality(v)
    BY <1>1, SmallestSubset
  <2>2. IsFiniteSet(u) /\ Cardinality(u) \in Nat
    BY FS_Subset, FS_CardinalityType
  <2>3. u # {}
    BY <2>1, <2>2, SumTaken
  <2> DEFINE v == u \ {Taken(u)}
  <2>4. v \in SUBSET S /\ Cardinality(v) = Cardinality(u) - 1 /\ Taken(u) \in u
    BY <2>2, <2>3, TakenIn, FS_RemoveElement
  <2>5. v \notin T
    BY <2>1, <2>2, <2>4
  <2>6. SumFunctionOnSet(f, v) = SumFunctionOnSet(g, v)
    BY <2>4, <2>5
  <2>7. /\ SumFunctionOnSet(f, u) = f[Taken(u)] + SumFunctionOnSet(f, v)
        /\ SumFunctionOnSet(g, u) = g[Taken(u)] + SumFunctionOnSet(g, v)
    BY <2>2, <2>3, SumTaken
  <2>8. f[Taken(u)] = g[Taken(u)]
    BY <2>4
  <2> QED BY <2>1, <2>6, <2>7, <2>8
<1>2. S \notin T
  BY <1>1
<1> QED BY <1>2

-------------------------------------------------------------------------------
(***************************************************************************)
(* The bytes of the files of a chain.                                      *)
(***************************************************************************)
Sizes(files) == [i \in DOMAIN files |-> FileBytes(files[i])]

LEMMA DiskIs ==
  ASSUME NEW files
  PROVE  DiskBytes(files) = SumFunctionOnSet(Sizes(files), DOMAIN files)
BY Zenon DEF DiskBytes, SumFunction, Sizes

LEMMA ChainFinite ==
  ASSUME NEW files, Chain(files)
  PROVE  /\ IsFiniteSet(DOMAIN files)
         /\ \A i \in DOMAIN files : FileBytes(files[i]) \in Nat
         /\ DiskBytes(files) \in Nat
<1>1. IsFiniteSet(DOMAIN files)
  <2>1. CASE DOMAIN files = {}
    BY <2>1, FS_EmptySet
  <2>2. CASE DOMAIN files # {}
    <3>1. PICK t \in DOMAIN files : Top(files, t)
      BY <2>2 DEF Chain, Chained
    <3>2. DOMAIN files \in SUBSET Nat /\ t \in Nat /\ \A i \in DOMAIN files : i <= t
      BY <3>1 DEF Chain, IsFiles, Top
    <3> QED BY <3>2, FS_BoundedSetOfNaturals
  <2> QED BY <2>1, <2>2
<1>2. \A i \in DOMAIN files : FileBytes(files[i]) \in Nat
  BY FileFacts DEF Chain, IsFiles
<1>3. \A i \in DOMAIN files : Sizes(files)[i] \in Nat
  BY <1>2 DEF Sizes
<1> QED BY <1>1, <1>2, <1>3, SumAny, DiskIs

(* One more file adds its bytes. *)
LEMMA DiskAdd ==
  ASSUME NEW files, Chain(files), NEW a, a \notin DOMAIN files,
         NEW new, DOMAIN new = DOMAIN files \cup {a}, FileBytes(new[a]) \in Nat,
         \A i \in DOMAIN files : FileBytes(new[i]) = FileBytes(files[i])
  PROVE  DiskBytes(new) = DiskBytes(files) + FileBytes(new[a])
<1>1. IsFiniteSet(DOMAIN files) /\ \A i \in DOMAIN files : FileBytes(files[i]) \in Nat
  BY ChainFinite
<1>2. IsFiniteSet(DOMAIN new)
  BY <1>1, FS_AddElement
<1>3. (DOMAIN new) \ {a} = DOMAIN files
  OBVIOUS
<1>4. \A i \in DOMAIN new : Sizes(new)[i] = FileBytes(new[i]) /\ Sizes(new)[i] \in Nat
  BY <1>1 DEF Sizes
<1>5. SumFunctionOnSet(Sizes(new), DOMAIN new) =
        Sizes(new)[a] + SumFunctionOnSet(Sizes(new), DOMAIN files)
  <2>1. a \in DOMAIN new
    OBVIOUS
  <2>2. \A x \in DOMAIN new : SumFunctionOnSet(Sizes(new), DOMAIN new) =
          Sizes(new)[x] + SumFunctionOnSet(Sizes(new), (DOMAIN new) \ {x})
    <3> DEFINE f == Sizes(new)
    <3> DEFINE S == DOMAIN new
    <3>1. IsFiniteSet(S) /\ \A x \in S : f[x] \in Nat
      BY <1>2, <1>4
    <3> HIDE DEF f, S
    <3>2. \A x \in S : SumFunctionOnSet(f, S) = f[x] + SumFunctionOnSet(f, S \ {x})
      BY <3>1, SumAny
    <3> QED BY <3>2 DEF f, S
  <2> QED BY <2>1, <2>2, <1>3
<1>6. \A i \in DOMAIN files : Sizes(new)[i] = Sizes(files)[i]
  BY <1>4 DEF Sizes
<1>7. SumFunctionOnSet(Sizes(new), DOMAIN files) = SumFunctionOnSet(Sizes(files), DOMAIN files)
  BY <1>1, <1>6, SumSame
<1>8. Sizes(new)[a] = FileBytes(new[a])
  BY <1>4
<1>9. DiskBytes(files) \in Nat
  BY ChainFinite
<1> QED BY <1>5, <1>7, <1>8, <1>9, DiskIs

(* Replacing a file exchanges its bytes. *)
LEMMA DiskReplace ==
  ASSUME NEW files, Chain(files), NEW t \in DOMAIN files,
         NEW new, DOMAIN new = DOMAIN files, FileBytes(new[t]) \in Nat,
         \A i \in DOMAIN files : i # t => FileBytes(new[i]) = FileBytes(files[i])
  PROVE  /\ DiskBytes(new) + FileBytes(files[t]) = DiskBytes(files) + FileBytes(new[t])
         /\ DiskBytes(new) \in Nat
<1> DEFINE rest == (DOMAIN files) \ {t}
<1>1. IsFiniteSet(DOMAIN files) /\ \A i \in DOMAIN files : FileBytes(files[i]) \in Nat
  BY ChainFinite
<1>2. IsFiniteSet(rest)
  BY <1>1, FS_RemoveElement
<1>3. \A i \in DOMAIN files :
        /\ Sizes(files)[i] = FileBytes(files[i]) /\ Sizes(files)[i] \in Nat
        /\ Sizes(new)[i] = FileBytes(new[i]) /\ Sizes(new)[i] \in Nat
  BY <1>1 DEF Sizes
<1>4. DiskBytes(files) = FileBytes(files[t]) + SumFunctionOnSet(Sizes(files), rest)
  BY <1>1, <1>3, SumAny, DiskIs
<1>5. DiskBytes(new) = FileBytes(new[t]) + SumFunctionOnSet(Sizes(new), rest)
  BY <1>1, <1>3, SumAny, DiskIs
<1>6. SumFunctionOnSet(Sizes(new), rest) = SumFunctionOnSet(Sizes(files), rest)
  BY <1>2, <1>3, SumSame
<1>7. SumFunctionOnSet(Sizes(files), rest) \in Nat
  BY <1>2, <1>3, SumAny
<1> QED BY <1>1, <1>4, <1>5, <1>6, <1>7

LEMMA DiskRemove ==
  ASSUME NEW files, Chain(files), NEW i \in DOMAIN files,
         NEW new, DOMAIN new = DOMAIN files \ {i}, \A j \in DOMAIN new : new[j] = files[j]
  PROVE  DiskBytes(files) = DiskBytes(new) + FileBytes(files[i]) /\ DiskBytes(new) \in Nat
<1> DEFINE rest == (DOMAIN files) \ {i}
<1>1. IsFiniteSet(DOMAIN files) /\ \A j \in DOMAIN files : FileBytes(files[j]) \in Nat
  BY ChainFinite
<1>2. IsFiniteSet(rest)
  BY <1>1, FS_RemoveElement
<1>3. \A j \in DOMAIN files : Sizes(files)[j] = FileBytes(files[j]) /\ Sizes(files)[j] \in Nat
  BY <1>1 DEF Sizes
<1>4. \A j \in rest : Sizes(new)[j] = Sizes(files)[j]
  BY DEF Sizes
<1>5. DiskBytes(files) = FileBytes(files[i]) + SumFunctionOnSet(Sizes(files), rest)
  BY <1>1, <1>3, SumAny, DiskIs
<1>6. DiskBytes(new) = SumFunctionOnSet(Sizes(files), rest)
  BY <1>2, <1>4, SumSame, DiskIs
<1>7. SumFunctionOnSet(Sizes(files), rest) \in Nat
  BY <1>2, <1>3, SumAny
<1> QED BY <1>1, <1>5, <1>6, <1>7

LEMMA RotatedSizes ==
  ASSUME JournalInv, pc \notin {"closed", "failed"}, ActiveIntact, active_bytes > 0
  PROVE  \A i \in DOMAIN segs : FileBytes(Rotated[i]) = FileBytes(segs[i])
<1> SUFFICES ASSUME NEW i \in DOMAIN segs PROVE FileBytes(Rotated[i]) = FileBytes(segs[i])
  OBVIOUS
<1>1. segs[i] \in File
  BY InvChain DEF Chain, IsFiles
<1>2. /\ SyncedFile(segs[i]).frames = segs[i].frames
      /\ SyncedFile(segs[i]).torn = segs[i].torn
  BY <1>1 DEF SyncedFile, File
<1>3. Rotated[i] = segs[i] \/ Rotated[i] = SyncedFile(segs[i])
  <2>1. active_index + 1 \notin DOMAIN segs
    BY RotatedFacts
  <2> QED BY <2>1 DEF Rotated
<1> QED BY <1>2, <1>3 DEF FileBytes

LEMMA RotatedBytes ==
  ASSUME JournalInv, pc \notin {"closed", "failed"}, ActiveIntact, active_bytes > 0
  PROVE  DiskBytes(Rotated) = DiskBytes(segs)
<1> DEFINE a == active_index + 1
<1>1. /\ DOMAIN Rotated = DOMAIN segs \cup {a} /\ a \notin DOMAIN segs
      /\ Rotated[a] = EmptyFile(latest)
  BY RotatedFacts
<1>2. FileBytes(Rotated[a]) = 0
  BY <1>1 DEF EmptyFile, FileBytes, EndOf
<1>3. Chain(segs)
  BY InvChain
<1>4. \A i \in DOMAIN segs : FileBytes(Rotated[i]) = FileBytes(segs[i])
  BY RotatedSizes
<1> HIDE DEF a
<1>5. DiskBytes(Rotated) = DiskBytes(segs) + FileBytes(Rotated[a])
  <2>1. FileBytes(Rotated[a]) \in Nat
    BY <1>2
  <2> QED BY <2>1, <1>1, <1>3, <1>4, DiskAdd
<1>6. DiskBytes(segs) \in Nat
  BY <1>3, ChainFinite
<1> QED BY <1>2, <1>5, <1>6

LEMMA TargetBytes ==
  ASSUME JournalInv, pc = "idle", ~paused, NEW len \in FrameLens
  PROVE  DiskBytes(TargetFiles(len)) = DiskBytes(segs)
<1>1. ActiveIntact
  BY DEF JournalInv, MemoryInv
<1>2. MustRotate(len) => active_bytes > 0
  BY DEF MustRotate
<1> QED BY <1>1, <1>2, RotatedBytes DEF TargetFiles

(* append writes its frame and nothing else. *)
LEMMA AppendBytes ==
  ASSUME JournalInv, NEW len \in FrameLens, Append_(len)
  PROVE  DiskBytes(segs') = DiskBytes(segs) + len
<1> DEFINE files == TargetFiles(len)
<1> DEFINE t == TargetIndex(len)
<1> DEFINE frame == NewFrame(len)
<1> DEFINE file == [files[t] EXCEPT !.frames = Append(@, frame)]
<1>1. pc = "idle" /\ ~paused
  BY DEF Append_
<1>2. /\ Chain(files) /\ t \in DOMAIN files /\ files[t] \in File /\ files[t].torn = 0
      /\ FileBytes(files[t]) \in Nat
  BY <1>1, TargetFacts
<1>3. segs' = [files EXCEPT ![t] = file]
  BY DEF Append_, TargetFiles, TargetIndex, NewFrame
<1>4. len \in Nat
  BY LimitsAssumption
<1>5. frame.end = FileBytes(files[t]) + len
  BY DEF NewFrame
<1>6. files[t].frames \in Seq(Frame) /\ frame \in Frame
  BY <1>2, FileFacts, AppendStored
<1> HIDE DEF files, t, frame
<1>7. file.frames = Append(files[t].frames, frame) /\ file.torn = 0
  BY <1>2 DEF File
<1> HIDE DEF file
<1>8. FileBytes(file) = FileBytes(files[t]) + len
  <2>1. /\ Len(file.frames) = Len(files[t].frames) + 1 /\ Len(files[t].frames) \in Nat
        /\ file.frames[Len(files[t].frames) + 1] = frame
    BY <1>6, <1>7
  <2>2. file.frames # << >>
    BY <2>1
  <2>3. EndOf(file.frames) = frame.end
    BY <2>1, <2>2 DEF EndOf
  <2> QED BY <2>3, <1>2, <1>4, <1>5, <1>7 DEF FileBytes
<1>9. /\ DOMAIN segs' = DOMAIN files /\ segs'[t] = file
      /\ \A i \in DOMAIN files : i # t => segs'[i] = files[i]
  BY <1>2, <1>3 DEF Chain, IsFiles
<1>10. /\ DiskBytes(segs') + FileBytes(files[t]) = DiskBytes(files) + FileBytes(file)
       /\ DiskBytes(segs') \in Nat
  BY <1>2, <1>4, <1>8, <1>9, DiskReplace
<1>11. DiskBytes(files) = DiskBytes(segs) /\ DiskBytes(segs) \in Nat
  BY <1>1, TargetBytes, InvChain, ChainFinite DEF files
<1> QED BY <1>2, <1>4, <1>8, <1>10, <1>11

(* A failed append leaves less than its frame. *)
LEMMA AppendFailsBytes ==
  ASSUME JournalInv, NEW len \in FrameLens, NEW n \in 0..(len - 1), AppendFails(len, n)
  PROVE  DiskBytes(segs') \in Nat /\ DiskBytes(segs') <= DiskBytes(segs) + len
<1> DEFINE files == TargetFiles(len)
<1> DEFINE t == TargetIndex(len)
<1> DEFINE file == [files[t] EXCEPT !.torn = n]
<1>1. pc = "idle" /\ ~paused
  BY DEF AppendFails
<1>2. /\ Chain(files) /\ t \in DOMAIN files /\ files[t] \in File /\ files[t].torn = 0
      /\ FileBytes(files[t]) \in Nat /\ EndOf(files[t].frames) \in Nat
  BY <1>1, TargetFacts, FileFacts
<1>3. segs' = [files EXCEPT ![t] = file]
  BY DEF AppendFails, TargetFiles, TargetIndex
<1>4. len \in Nat /\ n \in Nat /\ n < len
  BY LimitsAssumption
<1> HIDE DEF files, t
<1>5. file.frames = files[t].frames /\ file.torn = n
  BY <1>2 DEF File
<1> HIDE DEF file
<1>6. FileBytes(file) = FileBytes(files[t]) + n
  BY <1>2, <1>4, <1>5 DEF FileBytes
<1>7. /\ DOMAIN segs' = DOMAIN files /\ segs'[t] = file
      /\ \A i \in DOMAIN files : i # t => segs'[i] = files[i]
  BY <1>2, <1>3 DEF Chain, IsFiles
<1>8. /\ DiskBytes(segs') + FileBytes(files[t]) = DiskBytes(files) + FileBytes(file)
      /\ DiskBytes(segs') \in Nat
  BY <1>2, <1>4, <1>6, <1>7, DiskReplace
<1>9. DiskBytes(files) = DiskBytes(segs) /\ DiskBytes(segs) \in Nat
  BY <1>1, TargetBytes, InvChain, ChainFinite DEF files
<1> QED BY <1>2, <1>4, <1>6, <1>8, <1>9

LEMMA SyncBytes ==
  ASSUME JournalInv, Sync
  PROVE  DiskBytes(segs') = DiskBytes(segs)
<1> DEFINE t == active_index
<1>1. Chain(segs) /\ t \in DOMAIN segs /\ segs[t] \in File /\ FileBytes(segs[t]) \in Nat
  BY SyncFiles, InvChain, FileFacts DEF Top, Chain, IsFiles
<1>2. segs' = [segs EXCEPT ![t] = SyncedFile(segs[t])]
  BY DEF Sync
<1>3. /\ SyncedFile(segs[t]).frames = segs[t].frames
      /\ SyncedFile(segs[t]).torn = segs[t].torn
  BY <1>1 DEF SyncedFile, File
<1>4. FileBytes(SyncedFile(segs[t])) = FileBytes(segs[t])
  BY <1>3 DEF FileBytes
<1>5. /\ DOMAIN segs' = DOMAIN segs /\ segs'[t] = SyncedFile(segs[t])
      /\ \A i \in DOMAIN segs : i # t => segs'[i] = segs[i]
  BY <1>1, <1>2 DEF Chain, IsFiles
<1>6. /\ DiskBytes(segs') + FileBytes(segs[t]) = DiskBytes(segs) + FileBytes(segs[t])
      /\ DiskBytes(segs') \in Nat
  BY <1>1, <1>4, <1>5, DiskReplace
<1>7. DiskBytes(segs) \in Nat
  BY <1>1, ChainFinite
<1> QED BY <1>1, <1>6, <1>7

LEMMA RotateBytes ==
  ASSUME JournalInv, CompactRotate
  PROVE  DiskBytes(segs') = DiskBytes(segs)
<1>1. pc = "rotate" /\ (segs' = segs \/ segs' = Rotated)
  BY DEF CompactRotate
<1>2. ActiveIntact /\ active_bytes > 0
  BY <1>1 DEF JournalInv, MemoryInv
<1> QED BY <1>1, <1>2, RotatedBytes

LEMMA RotateFailsBytes ==
  ASSUME JournalInv, pc \in {"idle", "rotate"}, ActiveIntact, active_bytes > 0, RotateFails
  PROVE  DiskBytes(segs') = DiskBytes(segs)
BY RotatedBytes DEF RotateFails

LEMMA RemoveBytes ==
  ASSUME JournalInv, CompactRemove, total_bytes = DiskBytes(segs)
  PROVE  /\ total_bytes' = DiskBytes(segs') /\ DiskBytes(segs') \in Nat
         /\ DiskBytes(segs') <= DiskBytes(segs)
<1> DEFINE i == Min(doomed)
<1>1. /\ pc = "remove" /\ doomed # {} /\ doomed \subseteq DOMAIN segs
      /\ segs' = Restrict(segs, DOMAIN segs \ {i})
      /\ total_bytes' = SaturatingSub(total_bytes, FileBytes(segs[i]))
  BY DEF CompactRemove, JournalInv, TypeOK, StoreTypeOK
<1>2. Chain(segs) /\ DOMAIN segs \subseteq Nat
  BY InvChain DEF Chain, IsFiles
<1>3. i \in DOMAIN segs
  BY <1>1, DoomedFirst
<1> HIDE DEF i
<1>4. /\ DOMAIN segs' = DOMAIN segs \ {i} /\ \A j \in DOMAIN segs' : segs'[j] = segs[j]
  BY <1>1 DEF Restrict
<1>5. FileBytes(segs[i]) \in Nat /\ DiskBytes(segs) \in Nat
  BY <1>2, <1>3, ChainFinite
<1>6. DiskBytes(segs) = DiskBytes(segs') + FileBytes(segs[i]) /\ DiskBytes(segs') \in Nat
  BY <1>2, <1>3, <1>4, DiskRemove
<1> QED BY <1>1, <1>5, <1>6 DEF SaturatingSub

LEMMA PowerLossBytes ==
  ASSUME JournalInv, NEW d \in images, NEW files, files = Image(d),
         NEW i \in DOMAIN files, NEW n \in 0..Len(files[i].frames),
         NEW r \in 0..SegmentBytes, PowerLoss(d, i, n, r)
  PROVE  /\ DiskBytes(segs') \in Nat /\ DiskBytes(segs') <= DiskBytes(files)
         /\ DiskBytes(files) \in Nat
<1> DEFINE file == CutFile(files[i], n, r)
<1>1. /\ segs' = [files EXCEPT ![i] = file] /\ file \in File
      /\ FileBytes(file) <= FileBytes(files[i])
  BY PowerLossFile
<1>0. Chain(files)
  BY ImageFacts
<1>2. Chain(files) /\ FileBytes(files[i]) \in Nat /\ DiskBytes(files) \in Nat
  BY <1>0, ChainFinite
<1>3. FileBytes(file) \in Nat
  BY <1>1, FileFacts
<1> HIDE DEF file
<1>4. /\ DOMAIN segs' = DOMAIN files /\ segs'[i] = file
      /\ \A j \in DOMAIN files : j # i => segs'[j] = files[j]
  BY <1>1, <1>2 DEF Chain, IsFiles
<1>5. /\ DiskBytes(segs') + FileBytes(files[i]) = DiskBytes(files) + FileBytes(file)
      /\ DiskBytes(segs') \in Nat
  BY <1>2, <1>3, <1>4, DiskReplace
<1> QED BY <1>1, <1>2, <1>3, <1>5

(* Stale files do not continue their snapshot. *)
LEMMA StaleAside ==
  ASSUME NEW files, IsFiles(files), NEW seq, Stale(files, seq)
  PROVE  ~StartsAt(files, seq) /\ \A t : DOMAIN files # {t}
<1>1. PICK b \in DOMAIN files, j \in DOMAIN files : Bottom(files, b) /\ b # j /\ files[b].lo # seq
  BY DEF Stale
<1>2. \A i \in DOMAIN files : i \in Nat
  BY DEF IsFiles
<1>3. \A c \in DOMAIN files : Bottom(files, c) => c = b
  BY <1>1, <1>2 DEF Bottom
<1> QED BY <1>1, <1>3 DEF StartsAt

(* open never adds to the disk; it counts all of it, or it finds the gap   *)
(* of an interrupted compaction.                                           *)
LEMMA OpenBytes ==
  ASSUME JournalInv, (undone /\ Stale(segs, snap)) \/ DiskBytes(segs) <= HardBytes, Open
  PROVE  /\ (undone' /\ Stale(segs', snap')) \/ DiskBytes(segs') <= HardBytes
         /\ ~gap' => total_bytes' = DiskBytes(segs')
         /\ gap' => /\ paused' /\ base' = snap'
                    /\ Covered(segs', snap') \/ (undone' /\ Stale(segs', snap'))
<1> DEFINE files == OpenFiles
<1> DEFINE scanned == Scanned(files, snap)
<1>1. PICK t \in DOMAIN files :
        /\ Top(files, t) /\ t = Max(DOMAIN files)
        /\ OpenedWhole(files, t) \/ OpenedEmptied(files, t) \/ OpenedWithGap(files, t)
  BY OpenOutcomes
<1>2. Chain(files) /\ snap' = snap /\ base' = snap
  BY OpenOutcomes DEF Open
<1>3. /\ total_bytes' = SumFunctionOnSet(Sizes(segs'), scanned)
      /\ gap' = (t \notin scanned \/ total_bytes' > HardBytes)
      /\ paused' = (t \notin scanned \/ total_bytes' >= HardBytes)
  <2>1. /\ total_bytes' = SumFunctionOnSet([i \in DOMAIN segs' |-> FileBytes(segs'[i])], scanned)
        /\ gap' = (Max(DOMAIN files) \notin scanned \/ total_bytes' > HardBytes)
        /\ paused' = (Max(DOMAIN files) \notin scanned \/ total_bytes' >= HardBytes)
    BY Zenon DEF Open
  <2> QED BY <2>1, <1>1, Zenon DEF Sizes
<1>4. Chain(segs) /\ DiskBytes(segs) \in Nat /\ HardBytes \in Nat
  BY InvChain, ChainFinite, LimitsAssumption
<1>5. DiskBytes(files) = DiskBytes(segs)
  <2>1. CASE DOMAIN segs # {}
    BY <2>1 DEF OpenFiles
  <2>2. CASE DOMAIN segs = {}
    <3>1. DOMAIN files = {1} /\ FileBytes(files[1]) = 0
      BY <2>2 DEF OpenFiles, EmptyFile, FileBytes, EndOf
    <3> HIDE DEF files
    <3>2. DiskBytes(files) = DiskBytes(segs) + FileBytes(files[1])
      <4>1. /\ 1 \notin DOMAIN segs /\ DOMAIN files = DOMAIN segs \cup {1}
            /\ \A i \in DOMAIN segs : FileBytes(files[i]) = FileBytes(segs[i])
            /\ FileBytes(files[1]) \in Nat
        BY <3>1, <2>2
      <4> QED BY <4>1, <1>4, DiskAdd
    <3> QED BY <3>1, <3>2, <1>4
  <2> QED BY <2>1, <2>2
<1>6. /\ FileBytes(files[t]) \in Nat /\ files[t] \in File
      /\ files[t].torn \in Nat /\ EndOf(files[t].frames) \in Nat
  BY <1>2, FileFacts DEF Chain, IsFiles
<1>a. Stale(segs, snap) => files = segs
  BY DEF OpenFiles, Stale
<1>b. undone' = (undone /\ gap') /\ undone \in BOOLEAN
  BY DEF Open, JournalInv, TypeOK, CutTypeOK
<1> HIDE DEF files
<1>7. CASE OpenedWithGap(files, t)
  <2>1. /\ segs' = files /\ t \notin scanned
        /\ Covered(files, snap) \/ (undone /\ Stale(files, snap))
    BY <1>7 DEF OpenedWithGap
  <2>2. gap' /\ paused' /\ undone' = undone
    BY <2>1, <1>3, <1>b, Zenon
  <2> QED BY <2>1, <2>2, <1>2, <1>5, <1>a
<1>8. CASE OpenedWhole(files, t) \/ OpenedEmptied(files, t)
  <2>1. scanned = DOMAIN files
    BY <1>8 DEF OpenedWhole, OpenedEmptied
  <2>2. PICK file \in File :
          /\ file.torn = 0 /\ (file.frames = files[t].frames \/ file.frames = << >>)
          /\ segs' = [files EXCEPT ![t] = file]
    BY <1>8 DEF OpenedWhole, OpenedEmptied
  <2>3. FileBytes(file) \in Nat /\ FileBytes(file) <= FileBytes(files[t])
    <3>1. EndOf(<< >>) = 0
      BY DEF EndOf
    <3>2. FileBytes(file) = EndOf(file.frames) + 0
      BY <2>2 DEF FileBytes
    <3>3. EndOf(file.frames) \in Nat /\ EndOf(file.frames) <= EndOf(files[t].frames)
      BY <3>1, <2>2, <1>6
    <3> QED BY <3>2, <3>3, <1>6 DEF FileBytes
  <2>4. /\ DOMAIN segs' = DOMAIN files /\ segs'[t] = file
        /\ \A j \in DOMAIN files : j # t => segs'[j] = files[j]
    BY <2>2, <1>2 DEF Chain, IsFiles
  <2>5. /\ DiskBytes(segs') + FileBytes(files[t]) = DiskBytes(files) + FileBytes(file)
        /\ DiskBytes(segs') \in Nat
    BY <2>3, <2>4, <1>2, DiskReplace
  <2>6. DiskBytes(segs') <= HardBytes
    <3>1. ~Stale(files, snap)
      BY <1>2, <1>8, StaleAside DEF OpenedWhole, OpenedEmptied, Chain
    <3>2. DiskBytes(segs) <= HardBytes
      BY <3>1, <1>a
    <3> QED BY <3>2, <2>3, <2>5, <1>4, <1>5, <1>6
  <2>7. total_bytes' = DiskBytes(segs')
    BY <2>1, <2>4, <1>3, DiskIs
  <2>8. ~gap'
    <3>1. ~(total_bytes' > HardBytes)
      BY <2>5, <2>6, <2>7, <1>4
    <3> QED BY <3>1, <2>1, <1>3, Zenon
  <2> QED BY <2>6, <2>7, <2>8
<1> QED BY <1>1, <1>7, <1>8

(***************************************************************************)
(* What a step does to the directories that a power cut may leave.         *)
(***************************************************************************)

(* The files of directory d keep their bytes and their first numbers. *)
SizesKept(d) ==
  \A i \in d.entries : FileBytes(Every'[i]) = FileBytes(Every[i]) /\ Every'[i].lo = Every[i].lo

LEMMA ImageKept ==
  ASSUME JournalInv, NEW d \in images, SizesKept(d)
  PROVE  /\ DiskBytes(Image(d)') = DiskBytes(Image(d))
         /\ \A seq : StartsAt(Image(d)', seq) => StartsAt(Image(d), seq)
         /\ \A seq : Stale(Image(d), seq) => Stale(Image(d)', seq)
<1>1. Chain(Image(d)) /\ DOMAIN Image(d) = d.entries
  BY ImageFacts
<1>2. /\ DOMAIN Image(d)' = d.entries
      /\ \A i \in d.entries : Image(d)[i] = Every[i] /\ Image(d)'[i] = Every'[i]
  BY DEF Image
<1>3. IsFiniteSet(d.entries)
  BY <1>1, ChainFinite
<1> DEFINE old == Image(d)
<1> DEFINE new == Image(d)'
<1>4. \A i \in d.entries : FileBytes(new[i]) = FileBytes(old[i]) /\ new[i].lo = old[i].lo
  BY <1>2 DEF SizesKept
<1>5. DOMAIN old = d.entries /\ DOMAIN new = d.entries
  BY <1>1, <1>2
<1> HIDE DEF old, new
<1>6. \A i \in d.entries : Sizes(new)[i] = Sizes(old)[i]
  BY <1>4, <1>5 DEF Sizes
<1>7. DiskBytes(new) = DiskBytes(old)
  BY <1>3, <1>5, <1>6, SumSame, DiskIs
<1>8. \A i : Bottom(new, i) <=> Bottom(old, i)
  BY <1>5 DEF Bottom
<1>9. ASSUME NEW seq PROVE StartsAt(new, seq) => StartsAt(old, seq)
  BY <1>4, <1>5, <1>8 DEF StartsAt
<1>10. ASSUME NEW seq PROVE Stale(old, seq) => Stale(new, seq)
  BY <1>4, <1>5, <1>8 DEF Stale
<1> QED BY <1>7, <1>9, <1>10 DEF old, new

LEMMA EveryFacts ==
  ASSUME JournalInv
  PROVE  /\ IsFiles(segs) /\ IsFiles(gone) /\ DOMAIN Every = DOMAIN segs \cup DOMAIN gone
         /\ \A g \in DOMAIN gone : \A i \in DOMAIN segs : g < i
         /\ \A d \in images : d.entries \subseteq DOMAIN Every
BY ImageFacts DEF JournalInv, TypeOK, StoreTypeOK, CutTypeOK, CutInv, Every

(* Files that a step leaves alone, and a new one after the last. *)
LEMMA EverySame ==
  ASSUME JournalInv, gone' = gone, NEW a, \A j \in DOMAIN Every : j # a,
         DOMAIN segs' \in {DOMAIN segs, DOMAIN segs \cup {a}}
  PROVE  /\ \A i \in DOMAIN segs : Every[i] = segs[i] /\ Every'[i] = segs'[i]
         /\ \A i \in DOMAIN Every : i \notin DOMAIN segs => Every'[i] = Every[i]
BY EveryFacts DEF Every

LEMMA RotatedSized ==
  ASSUME JournalInv, pc \notin {"closed", "failed"}, ActiveIntact, active_bytes > 0,
         gone' = gone, DOMAIN segs' = DOMAIN Rotated,
         \A i \in DOMAIN segs : segs'[i] = Rotated[i], NEW d \in images
  PROVE  SizesKept(d)
<1> DEFINE a == active_index + 1
<1>1. /\ DOMAIN Rotated = DOMAIN segs \cup {a} /\ a \notin DOMAIN segs
  BY RotatedFacts
<1>2. \A i \in DOMAIN segs : FileBytes(Rotated[i]) = FileBytes(segs[i])
  BY RotatedSizes
<1>3. \A i \in DOMAIN segs : Rotated[i].lo = segs[i].lo
  <2>1. \A i \in DOMAIN segs : SyncedFile(segs[i]).lo = segs[i].lo
    BY InvChain DEF Chain, IsFiles, SyncedFile, File
  <2> QED BY <2>1, <1>1 DEF Rotated
<1>4. \A j \in DOMAIN Every : j # a
  <2>1. active_index \in DOMAIN segs /\ active_index \in Nat
    BY ActiveFacts
  <2>2. ASSUME NEW j \in DOMAIN gone PROVE j # a
    <3>1. j < active_index /\ j \in Nat
      BY <2>1, EveryFacts DEF IsFiles
    <3> QED BY <3>1, <2>1
  <2> QED BY <2>2, <1>1, EveryFacts
<1>5. /\ \A i \in DOMAIN segs : Every[i] = segs[i] /\ Every'[i] = segs'[i]
      /\ \A i \in DOMAIN Every : i \notin DOMAIN segs => Every'[i] = Every[i]
  BY <1>1, <1>4, EverySame
<1>6. d.entries \subseteq DOMAIN Every
  BY EveryFacts
<1> QED BY <1>2, <1>3, <1>5, <1>6 DEF SizesKept

(* Writing to the active file without a rotation: a directory that names   *)
(* that file is the current one, or is not read past its snapshot.         *)
LEMMA TargetSized ==
  ASSUME JournalInv, pc = "idle", ~paused, NEW len \in FrameLens, gone' = gone, snap' = snap,
         NEW file, segs' = [TargetFiles(len) EXCEPT ![TargetIndex(len)] = file],
         file.lo = TargetFiles(len)[TargetIndex(len)].lo, NEW d \in images
  PROVE  SizesKept(d) \/ d = Directory' \/ Stale(Image(d)', d.snap)
<1> DEFINE a == active_index
<1>1. /\ ~gap /\ ActiveIntact /\ a \in DOMAIN segs
      /\ Chain(segs) /\ Top(segs, a)
  BY ActiveFacts DEF JournalInv, MemoryInv
<1>2. CASE MustRotate(len)
  <2>1. segs' = [Rotated EXCEPT ![a + 1] = file] /\ active_bytes > 0
    BY <1>2 DEF TargetFiles, TargetIndex, MustRotate
  <2>2. a + 1 \notin DOMAIN segs /\ DOMAIN Rotated = DOMAIN segs \cup {a + 1}
    BY <2>1, <1>1, RotatedFacts
  <2>3. DOMAIN segs' = DOMAIN Rotated /\ \A i \in DOMAIN segs : segs'[i] = Rotated[i]
    BY <2>1, <2>2
  <2> QED BY <2>1, <2>3, <1>1, RotatedSized
<1>3. CASE ~MustRotate(len)
  <2>1. segs' = [segs EXCEPT ![a] = file] /\ file.lo = segs[a].lo
    BY <1>3 DEF TargetFiles, TargetIndex
  <2>2. DOMAIN segs' = DOMAIN segs /\ Directory' = Directory
    BY <2>1 DEF Directory
  <2>3. d.entries \subseteq DOMAIN Every
    BY EveryFacts
  <2>4. \A i \in DOMAIN Every : Every'[i] = IF i = a THEN file ELSE Every[i]
    BY <2>1, <2>2, <1>1, EveryFacts DEF Every
  <2>5. Every[a] = segs[a]
    BY <1>1 DEF Every
  <2>6. CASE a \notin d.entries
    BY <2>3, <2>4, <2>6 DEF SizesKept
  <2>7. CASE a \in d.entries
    <3>1. d = Directory \/ Stale(Image(d), d.snap)
      BY <2>7, <1>1 DEF JournalInv, CutInv
    <3>2. CASE Stale(Image(d), d.snap)
      <4>1. /\ DOMAIN Image(d)' = d.entries /\ DOMAIN Image(d) = d.entries
            /\ \A i \in d.entries : Image(d)'[i].lo = Image(d)[i].lo
        BY <2>1, <2>3, <2>4, <2>5 DEF Image
      <4> QED BY <4>1, <3>2 DEF Stale, Bottom
    <3> QED BY <3>1, <3>2, <2>2
  <2> QED BY <2>6, <2>7
<1> QED BY <1>2, <1>3

(* A directory that a power cut may leave after a step is the current one, *)
(* or could be left before the step with the same bytes, or is not read.   *)
LEMMA ImageStep ==
  ASSUME JournalInv, [Next]_vars, NEW d \in images'
  PROVE  \/ d = Directory'
         \/ d \in images /\ SizesKept(d)
         \/ Stale(Image(d)', d.snap)
<1>1. ASSUME UNCHANGED <<segs, gone>>, d \in images PROVE SizesKept(d)
  <2>1. Every' = Every
    BY <1>1 DEF Every
  <2> QED BY <2>1 DEF SizesKept
<1>2. Settled => d = Directory'
  BY DEF Settled
<1>3. Relinked => d = Directory' \/ d \in images
  BY DEF Relinked
<1>4. CASE Open \/ CompactSnapshot \/ DirectorySynced
  BY <1>2, <1>4 DEF Open, CompactSnapshot, DirectorySynced
<1>5. ASSUME NEW len \in FrameLens, Append_(len), d \in images
      PROVE  SizesKept(d) \/ d = Directory' \/ Stale(Image(d)', d.snap)
  <2> DEFINE file == [TargetFiles(len)[TargetIndex(len)] EXCEPT !.frames = Append(@, NewFrame(len))]
  <2>1. /\ pc = "idle" /\ ~paused /\ UNCHANGED <<gone, snap>>
        /\ segs' = [TargetFiles(len) EXCEPT ![TargetIndex(len)] = file]
    BY <1>5 DEF Append_, TargetFiles, TargetIndex, NewFrame
  <2>2. TargetFiles(len)[TargetIndex(len)] \in File
    BY <2>1, TargetFacts
  <2>3. file.lo = TargetFiles(len)[TargetIndex(len)].lo
    BY <2>2 DEF File
  <2> HIDE DEF file
  <2> QED BY <2>1, <2>3, <1>5, TargetSized
<1>6. ASSUME NEW len \in FrameLens, NEW n \in 0..(len - 1), AppendFails(len, n), d \in images
      PROVE  SizesKept(d) \/ d = Directory' \/ Stale(Image(d)', d.snap)
  <2> DEFINE file == [TargetFiles(len)[TargetIndex(len)] EXCEPT !.torn = n]
  <2>1. /\ pc = "idle" /\ ~paused /\ UNCHANGED <<gone, snap>>
        /\ segs' = [TargetFiles(len) EXCEPT ![TargetIndex(len)] = file]
    BY <1>6 DEF AppendFails, TargetFiles, TargetIndex
  <2>2. TargetFiles(len)[TargetIndex(len)] \in File
    BY <2>1, TargetFacts
  <2>3. file.lo = TargetFiles(len)[TargetIndex(len)].lo
    BY <2>2 DEF File
  <2> HIDE DEF file
  <2> QED BY <2>1, <2>3, <1>6, TargetSized
<1>7. ASSUME RotateFails, pc \in {"idle", "rotate"}, ActiveIntact, active_bytes > 0,
             gone' = gone, d \in images
      PROVE  SizesKept(d)
  <2>1. CASE segs' = segs
    BY <2>1, <1>1, <1>7
  <2>2. CASE segs' = Rotated
    <3>1. pc \notin {"closed", "failed"}
      BY <1>7
    <3>2. DOMAIN segs' = DOMAIN Rotated /\ \A i \in DOMAIN segs : segs'[i] = Rotated[i]
      BY <2>2
    <3> QED BY <3>1, <3>2, <1>7, RotatedSized
  <2> QED BY <2>1, <2>2, <1>7 DEF RotateFails
<1>8. ASSUME NEW len \in FrameLens, AppendRotateFails(len), d \in images PROVE SizesKept(d)
  <2>1. pc = "idle" /\ ~paused /\ MustRotate(len) /\ RotateFails /\ gone' = gone
    BY <1>8 DEF AppendRotateFails
  <2>2. ActiveIntact /\ active_bytes > 0
    BY <2>1 DEF JournalInv, MemoryInv, MustRotate
  <2> QED BY <2>1, <2>2, <1>7, <1>8
<1>9. CASE Sync
  <2>1. d \in images /\ gone' = gone /\ DOMAIN segs' = DOMAIN segs
    BY <1>9 DEF Sync, cutVars
  <2>2. active_index \in DOMAIN segs /\ segs[active_index] \in File
    BY <1>9, SyncFiles, EveryFacts DEF Top, IsFiles
  <2>3. /\ SyncedFile(segs[active_index]).frames = segs[active_index].frames
        /\ SyncedFile(segs[active_index]).torn = segs[active_index].torn
        /\ SyncedFile(segs[active_index]).lo = segs[active_index].lo
    BY <2>2 DEF SyncedFile, File
  <2>4. \A i \in DOMAIN Every : i # active_index => Every'[i] = Every[i]
    BY <2>1, <1>9, EveryFacts DEF Every, Sync
  <2>5. /\ Every[active_index] = segs[active_index]
        /\ Every'[active_index] = SyncedFile(segs[active_index])
    BY <2>1, <2>2, <1>9 DEF Every, Sync
  <2>6. FileBytes(Every'[active_index]) = FileBytes(Every[active_index])
    BY <2>3, <2>5 DEF FileBytes
  <2> QED BY <2>1, <2>3, <2>4, <2>5, <2>6, EveryFacts DEF SizesKept
<1>10. ASSUME CompactRotate, d \in images PROVE SizesKept(d)
  <2>1. pc = "rotate" /\ gone' = gone /\ (segs' = segs \/ segs' = Rotated)
    BY <1>10 DEF CompactRotate
  <2>2. ActiveIntact /\ active_bytes > 0
    BY <2>1 DEF JournalInv, MemoryInv
  <2>3. CASE segs' = segs
    BY <2>1, <2>3, <1>1, <1>10
  <2>4. CASE segs' = Rotated
    <3>1. pc \notin {"closed", "failed"}
      BY <2>1
    <3>2. DOMAIN segs' = DOMAIN Rotated /\ \A i \in DOMAIN segs : segs'[i] = Rotated[i]
      BY <2>4
    <3> QED BY <3>1, <3>2, <2>1, <2>2, <1>10, RotatedSized
  <2> QED BY <2>1, <2>3, <2>4
<1>11. ASSUME CompactRemove, d \in images PROVE SizesKept(d)
  <2> DEFINE i == Min(doomed)
  <2>1. /\ segs' = Restrict(segs, DOMAIN segs \ {i})
        /\ gone' = [j \in DOMAIN gone \cup {i} |-> IF j = i THEN segs[i] ELSE gone[j]]
        /\ pc = "remove" /\ doomed # {}
    BY <1>11 DEF CompactRemove
  <2>2. i \in DOMAIN segs
    BY <2>1, DoomedFirst
  <2> HIDE DEF i
  <2>3. /\ DOMAIN segs' = DOMAIN segs \ {i} /\ \A j \in DOMAIN segs' : segs'[j] = segs[j]
    BY <2>1 DEF Restrict
  <2>4. \A j \in DOMAIN Every : Every'[j] = Every[j]
    BY <2>1, <2>2, <2>3, EveryFacts DEF Every
  <2> QED BY <2>4, <1>11, EveryFacts DEF SizesKept
<1>12. ASSUME CompactFails, d \in images PROVE SizesKept(d)
  <2>1. gone' = gone /\ (segs' = segs \/ (pc = "rotate" /\ RotateFails))
    BY <1>12 DEF CompactFails, diskVars
  <2>2. CASE pc = "rotate" /\ RotateFails
    BY <2>1, <2>2, <1>7, <1>12 DEF JournalInv, MemoryInv
  <2> QED BY <2>1, <2>2, <1>1, <1>12
<1>13. CASE CompactFinish \/ Crash \/ UNCHANGED vars
  BY <1>1, <1>13 DEF CompactFinish, Crash, vars, diskVars, cutVars
<1>14. ASSUME NEW len \in FrameLens, AppendOverLimit(len) PROVE d \in images /\ SizesKept(d)
  BY <1>1, <1>14 DEF AppendOverLimit, diskVars, cutVars
<1>15. ASSUME NEW e \in images, NEW i \in e.entries, NEW n \in 0..Len(Image(e)[i].frames),
              NEW r \in 0..SegmentBytes, PowerLoss(e, i, n, r)
       PROVE  d = Directory'
  <2>1. d = e /\ snap' = e.snap
    BY <1>15 DEF PowerLoss
  <2>2. /\ e = [entries |-> e.entries, snap |-> e.snap] /\ DOMAIN Image(e) = e.entries
        /\ IsFiles(Image(e))
    BY ImageFacts
  <2>3. DOMAIN segs' = e.entries
    BY <2>2, <1>15, PowerLossFile DEF IsFiles
  <2> QED BY <2>1, <2>2, <2>3 DEF Directory
<1>16. CASE \E len \in FrameLens : Append_(len)
  BY <1>3, <1>5, <1>16 DEF Append_
<1>17. CASE \E len \in FrameLens : \E n \in 0..(len - 1) : AppendFails(len, n)
  BY <1>3, <1>6, <1>17 DEF AppendFails
<1>18. CASE \E len \in FrameLens : AppendRotateFails(len)
  BY <1>3, <1>8, <1>18 DEF AppendRotateFails, RotateFails
<1>19. CASE CompactRotate
  BY <1>3, <1>10, <1>19 DEF CompactRotate
<1>20. CASE CompactRemove
  BY <1>3, <1>11, <1>20 DEF CompactRemove
<1>21. CASE CompactFails
  BY <1>3, <1>12, <1>21 DEF CompactFails, RotateFails
<1> QED BY <1>4, <1>9, <1>13, <1>14, <1>15, <1>16, <1>17, <1>18, <1>19, <1>20, <1>21 DEF Next

(* The current directory is one of those a power cut may leave. *)
LEMMA DirectoryNext ==
  ASSUME JournalInv' PROVE Image(Directory)' = segs' /\ Directory'.snap = snap'
<1>1. segs' = [i \in DOMAIN segs' |-> segs'[i]]
  BY DEF JournalInv, TypeOK, StoreTypeOK, IsFiles
<1>2. Directory'.entries = DOMAIN segs' /\ Directory'.snap = snap'
  BY DEF Directory
<1>3. Image(Directory)' = [i \in DOMAIN segs' |-> Every'[i]]
  BY <1>2 DEF Image
<1>4. \A i \in DOMAIN segs' : Every'[i] = segs'[i]
  BY DEF Every
<1> QED BY <1>1, <1>2, <1>3, <1>4

(* The bytes and the counters of the current directory. *)
CurrentBytes ==
  /\ (undone /\ Stale(segs, snap)) \/ DiskBytes(segs) <= HardBytes
  /\ pc \in {"idle", "compact", "rotate", "remove"} /\ ~gap => total_bytes = DiskBytes(segs)
  /\ gap => /\ pc = "idle" /\ paused /\ base = snap
            /\ Covered(segs, snap) \/ (undone /\ Stale(segs, snap))

LEMMA CurrentStep ==
  ASSUME JournalInv, BytesInv, [Next]_vars
  PROVE  CurrentBytes'
<1>0. undone => pc = "closed" \/ (pc = "idle" /\ gap /\ paused)
  BY DEF JournalInv, MemoryInv
<1>1. /\ (undone /\ Stale(segs, snap)) \/ DiskBytes(segs) <= HardBytes
      /\ pc \in {"idle", "compact", "rotate", "remove"} /\ ~gap => total_bytes = DiskBytes(segs)
      /\ gap => /\ pc = "idle" /\ paused /\ base = snap
                /\ Covered(segs, snap) \/ (undone /\ Stale(segs, snap))
  BY DEF BytesInv
<1>2. /\ DiskBytes(segs) \in Nat /\ HardBytes \in Nat /\ total_bytes \in Nat
      /\ FrameLens \subseteq Nat
  BY InvChain, ChainFinite, LimitsAssumption DEF JournalInv, TypeOK, StoreTypeOK
<1>3. CASE Open
  <2>1. /\ (undone' /\ Stale(segs', snap')) \/ DiskBytes(segs') <= HardBytes
        /\ ~gap' => total_bytes' = DiskBytes(segs')
        /\ gap' => /\ paused' /\ base' = snap'
                   /\ Covered(segs', snap') \/ (undone' /\ Stale(segs', snap'))
    BY <1>1, <1>3, OpenBytes
  <2>2. pc' = "idle"
    BY <1>3 DEF Open
  <2> QED BY <2>1, <2>2 DEF CurrentBytes
<1>4. ASSUME NEW len \in FrameLens, Append_(len) PROVE CurrentBytes'
  <2>1. /\ pc = "idle" /\ ~paused /\ gap' = gap
        /\ total_bytes + len <= HardBytes /\ total_bytes' = total_bytes + len
    BY <1>4 DEF Append_
  <2>2. ~gap /\ total_bytes = DiskBytes(segs)
    BY <2>1, <1>1
  <2>3. DiskBytes(segs') = DiskBytes(segs) + len
    BY <1>4, AppendBytes
  <2> QED BY <2>1, <2>2, <2>3 DEF CurrentBytes
<1>5. ASSUME NEW len \in FrameLens, AppendOverLimit(len) PROVE CurrentBytes'
  BY <1>1, <1>5 DEF AppendOverLimit, diskVars, cutVars, CurrentBytes
<1>6. ASSUME NEW len \in FrameLens, NEW n \in 0..(len - 1), AppendFails(len, n) PROVE CurrentBytes'
  <2>1. /\ pc = "idle" /\ ~paused /\ gap' = gap /\ pc' = "failed"
        /\ total_bytes + len <= HardBytes
    BY <1>6 DEF AppendFails
  <2>2. ~gap /\ total_bytes = DiskBytes(segs)
    BY <2>1, <1>1
  <2>3. DiskBytes(segs') <= DiskBytes(segs) + len
    BY <1>6, AppendFailsBytes
  <2>4. DiskBytes(segs') <= HardBytes
    <3>1. DiskBytes(segs') \in Int
      BY <1>6, AppendFailsBytes
    <3> QED BY <3>1, <2>1, <2>2, <2>3, <1>2
  <2> QED BY <2>1, <2>2, <2>4 DEF CurrentBytes
<1>7. CASE Sync
  <2>1. DiskBytes(segs') = DiskBytes(segs)
    BY <1>7, SyncBytes
  <2>2. /\ Covered(segs, snap) => Covered(segs', snap')
        /\ Stale(segs, snap) => Stale(segs', snap')
    BY <1>7, SyncStored
  <2>3. UNCHANGED <<snap, pc, total_bytes, base, paused, gap, undone>>
    BY <1>7 DEF Sync, memVars, cutVars
  <2> QED BY <2>1, <2>2, <2>3, <1>1 DEF CurrentBytes
<1>8. CASE CompactSnapshot
  <2>1. pc = "compact" /\ UNCHANGED <<segs, total_bytes, gap>>
    BY <1>8 DEF CompactSnapshot, memVars
  <2> QED BY <2>1, <1>0, <1>1 DEF CurrentBytes
<1>9. CASE CompactRotate
  <2>1. pc = "rotate" /\ UNCHANGED <<total_bytes, gap>>
    BY <1>9 DEF CompactRotate
  <2>2. DiskBytes(segs') = DiskBytes(segs)
    BY <1>9, RotateBytes
  <2> QED BY <2>1, <2>2, <1>0, <1>1 DEF CurrentBytes
<1>10. CASE CompactRemove
  <2>1. pc = "remove" /\ gap' = gap
    BY <1>10 DEF CompactRemove
  <2>2. ~gap /\ total_bytes = DiskBytes(segs)
    BY <2>1, <1>1
  <2>3. /\ total_bytes' = DiskBytes(segs') /\ DiskBytes(segs') \in Nat
        /\ DiskBytes(segs') <= DiskBytes(segs)
    BY <2>2, <1>10, RemoveBytes
  <2> QED BY <2>1, <2>2, <2>3, <1>0, <1>1, <1>2 DEF CurrentBytes
<1>11. CASE CompactFinish
  <2>1. pc = "remove" /\ UNCHANGED <<segs, total_bytes, gap>>
    BY <1>11 DEF CompactFinish, diskVars
  <2> QED BY <2>1, <1>0, <1>1 DEF CurrentBytes
<1>12. CASE CompactFails
  <2>1. pc \in {"compact", "rotate", "remove"} /\ pc' = "failed" /\ gap' = gap
    BY <1>12 DEF CompactFails
  <2>2. ~gap /\ ~undone /\ DiskBytes(segs) <= HardBytes
    BY <2>1, <1>0, <1>1
  <2>3. DiskBytes(segs') = DiskBytes(segs)
    <3>1. segs' = segs \/ (pc = "rotate" /\ RotateFails)
      BY <1>12 DEF CompactFails, diskVars
    <3>2. CASE pc = "rotate" /\ RotateFails
      BY <3>2, RotateFailsBytes DEF JournalInv, MemoryInv
    <3> QED BY <3>1, <3>2
  <2> QED BY <2>1, <2>2, <2>3 DEF CurrentBytes
<1>13. CASE Crash
  <2>1. pc' = "closed" /\ ~gap' /\ UNCHANGED <<segs, snap, undone>>
    BY <1>13 DEF Crash, Forget, diskVars, cutVars
  <2> QED BY <2>1, <1>1 DEF CurrentBytes
<1>14. ASSUME NEW d \in images, NEW i \in d.entries, NEW n \in 0..Len(Image(d)[i].frames),
              NEW r \in 0..SegmentBytes, PowerLoss(d, i, n, r)
       PROVE  CurrentBytes'
  <2> DEFINE files == Image(d)
  <2>1. /\ pc' = "closed" /\ ~gap' /\ snap' = d.snap
        /\ undone' = (undone \/ d # Directory) /\ undone \in BOOLEAN
    BY <1>14 DEF PowerLoss, Forget, JournalInv, TypeOK, CutTypeOK
  <2>2. /\ i \in DOMAIN files /\ n \in 0..Len(files[i].frames) /\ Chain(files)
    BY ImageFacts
  <2>3. /\ DiskBytes(segs') \in Nat /\ DiskBytes(segs') <= DiskBytes(files)
        /\ DiskBytes(files) \in Nat
    BY <2>2, <1>14, PowerLossBytes
  <2>4. CASE DiskBytes(files) <= HardBytes
    BY <2>1, <2>3, <2>4, <1>2 DEF CurrentBytes
  <2>5. CASE ~(DiskBytes(files) <= HardBytes)
    <3>1. Stale(files, d.snap)
      BY <2>5 DEF BytesInv
    <3>2. undone'
      BY <2>1, <2>5, <1>1, ImageDirectory
    <3>3. Stale(segs', d.snap)
      <4>1. CASE Top(files, i)
        <5>1. segs' = [files EXCEPT ![i] = CutFile(files[i], n, r)]
          BY <2>2, <1>14, PowerLossFile
        <5> HIDE DEF files
        <5> QED BY <5>1, <4>1, <3>1, <2>2, ReplaceTopStale
      <4>2. CASE ~Top(files, i)
        BY <4>2, <3>1, <2>2, <1>14, PowerLossFile
      <4> QED BY <4>1, <4>2
    <3> QED BY <3>2, <3>3, <2>1 DEF CurrentBytes
  <2> QED BY <2>4, <2>5
<1>16. ASSUME NEW len \in FrameLens, AppendRotateFails(len) PROVE CurrentBytes'
  <2>1. /\ pc = "idle" /\ ~paused /\ gap' = gap /\ pc' = "failed"
        /\ MustRotate(len) /\ RotateFails
    BY <1>16 DEF AppendRotateFails
  <2>2. ~gap /\ ~undone /\ DiskBytes(segs) <= HardBytes
    BY <2>1, <1>0, <1>1
  <2>3. DiskBytes(segs') = DiskBytes(segs)
    BY <2>1, RotateFailsBytes DEF JournalInv, MemoryInv, MustRotate
  <2> QED BY <2>1, <2>2, <2>3 DEF CurrentBytes
<1>17. CASE DirectorySynced
  <2>1. UNCHANGED <<segs, snap, pc, total_bytes, base, paused, gap, undone>>
    BY <1>17 DEF DirectorySynced, diskVars, memVars
  <2> QED BY <2>1, <1>1 DEF CurrentBytes
<1>15. CASE UNCHANGED vars
  <2>1. UNCHANGED <<segs, snap, pc, total_bytes, base, paused, gap, undone>>
    BY <1>15 DEF vars, diskVars, memVars, cutVars
  <2> QED BY <2>1, <1>1 DEF CurrentBytes
<1> QED BY <1>3, <1>4, <1>5, <1>6, <1>7, <1>8, <1>9, <1>10, <1>11, <1>12, <1>13, <1>14, <1>15,
           <1>16, <1>17
        DEF Next

LEMMA BytesStep ==
  ASSUME JournalInv, JournalInv', BytesInv, [Next]_vars
  PROVE  BytesInv'
<1>1. CurrentBytes'
  BY CurrentStep
<1>2. ASSUME NEW d \in images'
      PROVE  Stale(Image(d)', d.snap) \/ DiskBytes(Image(d)') <= HardBytes
  <2>1. CASE d = Directory'
    <3>1. Image(d)' = segs' /\ d.snap = snap'
      BY <2>1, DirectoryNext
    <3> QED BY <3>1, <1>1 DEF CurrentBytes
  <2>2. CASE d \in images /\ SizesKept(d)
    <3>1. Stale(Image(d), d.snap) \/ DiskBytes(Image(d)) <= HardBytes
      BY <2>2 DEF BytesInv
    <3> QED BY <3>1, <2>2, ImageKept
  <2> QED BY <2>1, <2>2, <1>2, ImageStep
<1> QED BY <1>1, <1>2 DEF CurrentBytes, BytesInv

(* The bytes of files that open reads never exceed the hard limit, in any  *)
(* directory that a power cut may leave; total_bytes counts them while the *)
(* journal is open and whole; and a gap is only ever found over files that *)
(* the snapshot covers, or that a power cut put back.                      *)
THEOREM BytesInvariant == Spec => []BytesInv
<1>1. Init => BytesInv
  <2> SUFFICES ASSUME Init PROVE BytesInv
    OBVIOUS
  <2>1. DOMAIN segs = {} /\ ~gap /\ pc = "closed" /\ \A d \in images : d.entries = {}
    BY DEF Init
  <2>2. \A files : DOMAIN files = {} => DiskBytes(files) = 0
    BY DiskIs, SumTaken, FS_EmptySet
  <2>3. \A d \in images : DOMAIN Image(d) = {}
    BY <2>1 DEF Image
  <2> QED BY <2>1, <2>2, <2>3, LimitsAssumption DEF BytesInv
<1>2. JournalInv /\ JournalInv' /\ BytesInv /\ [Next]_vars => BytesInv'
  BY BytesStep
<1> QED BY <1>1, <1>2, JournalInvariant, PTL DEF Spec

(* total_bytes, kept by additions and saturating subtractions, is what is  *)
(* on disk and within the hard limit whenever the journal is idle.         *)
THEOREM BytesExact == Spec => []BytesAccounted
<1>1. ASSUME JournalInv, BytesInv PROVE BytesAccounted
  BY <1>1 DEF JournalInv, MemoryInv, ActiveIntact, BytesInv, BytesAccounted
<1>2. JournalInv /\ BytesInv => BytesAccounted
  BY <1>1
<1> QED BY <1>2, JournalInvariant, BytesInvariant, PTL

(* A gap that open reports hides no output after an interrupted            *)
(* compaction: every frame on disk is covered by the snapshot the journal  *)
(* starts from.  After a power cut that brought removed segments back it   *)
(* hides none of the frames promised durable.                              *)
THEOREM GapHarmless == Spec => []GapHidesNothing
<1>1. ASSUME JournalInv, BytesInv PROVE GapHidesNothing
  <2> SUFFICES ASSUME gap, NEW i \in DOMAIN segs, NEW f \in Range(segs[i].frames)
               PROVE  f.seq <= base \/ (undone /\ f.seq > durable)
    BY DEF GapHidesNothing
  <2>1. /\ base = snap /\ snap \in Nat /\ durable \in Nat
        /\ Covered(segs, snap) \/ (undone /\ Stale(segs, snap))
    BY <1>1 DEF BytesInv, JournalInv, TypeOK, StoreTypeOK
  <2>2. Chain(segs) /\ segs[i] \in File
    BY <1>1, InvChain DEF Chain, IsFiles
  <2>3. PICK t \in DOMAIN segs : Top(segs, t)
    BY <2>2 DEF Chain, Chained
  <2>4. f \in Stored(segs)
    <3>1. segs[i].frames \in Seq(Frame)
      BY <2>2, FileFacts
    <3>2. PICK k \in 1..Len(segs[i].frames) : f = segs[i].frames[k]
      BY <3>1 DEF Range
    <3> QED BY <3>2 DEF Stored
  <2>5. CASE Covered(segs, snap)
    BY <2>1, <2>2, <2>3, <2>4, <2>5, StoredRange
  <2>6. CASE undone /\ Stale(segs, snap)
    <3>1. durable <= snap
      BY <1>1, <2>1, <2>2, <2>6, UnreadMark DEF Unread, JournalInv, DiskInv
    <3>2. f.seq \in Nat
      BY <2>2, <2>4, StoredFacts
    <3> QED BY <3>1, <3>2, <2>1, <2>6
  <2> QED BY <2>1, <2>5, <2>6
<1>2. JournalInv /\ BytesInv => GapHidesNothing
  BY <1>1
<1> QED BY <1>2, JournalInvariant, BytesInvariant, PTL

-------------------------------------------------------------------------------
(***************************************************************************)
(* The pause.                                                              *)
(***************************************************************************)
LEMMA SumAtLeast ==
  ASSUME NEW f, NEW S, IsFiniteSet(S), NEW c \in Nat, \A x \in S : f[x] \in Nat /\ f[x] >= c
  PROVE  SumFunctionOnSet(f, S) >= Cardinality(S) * c
<1> DEFINE Sum(u) == SumFunctionOnSet(f, u)
<1> DEFINE T == {u \in SUBSET S : ~(Sum(u) >= Cardinality(u) * c)}
<1>1. ASSUME T # {} PROVE FALSE
  <2>1. PICK u \in T : \A v \in T : Cardinality(u) <= Cardinality(v)
    BY <1>1, SmallestSubset
  <2>2. IsFiniteSet(u) /\ Cardinality(u) \in Nat
    BY FS_Subset, FS_CardinalityType
  <2>3. u # {}
    <3>1. Sum({}) = 0 /\ Cardinality({}) = 0
      BY SumTaken, FS_EmptySet
    <3> QED BY <3>1, <2>1
  <2>4. PICK x \in u : TRUE
    BY <2>3
  <2> DEFINE v == u \ {x}
  <2>5. /\ v \in SUBSET S /\ IsFiniteSet(v) /\ Cardinality(v) \in Nat
        /\ Cardinality(v) = Cardinality(u) - 1
    BY <2>2, FS_RemoveElement, FS_CardinalityType
  <2>6. Sum(u) = f[x] + Sum(v) /\ f[x] \in Nat /\ f[x] >= c /\ Sum(v) \in Nat
    <3>1. Sum(u) = f[x] + Sum(v)
      BY <2>2, SumAny
    <3>2. Sum(v) \in Nat
      BY <2>5, SumAny
    <3> QED BY <3>1, <3>2
  <2> HIDE DEF Sum, v
  <2>7. Sum(v) >= Cardinality(v) * c
    <3>1. ~(Cardinality(u) <= Cardinality(v))
      BY <2>2, <2>5
    <3>2. v \notin T
      <4> HIDE DEF T
      <4> QED BY <3>1, <2>1
    <3> QED BY <3>2, <2>5
  <2> DEFINE n == Cardinality(v)
  <2>8. (n + 1) * c = n * c + c /\ n * c \in Nat
    <3>1. n \in Nat
      BY <2>5
    <3> HIDE DEF n
    <3> QED BY <3>1
  <2>9. Cardinality(u) = n + 1
    BY <2>2, <2>5
  <2>10. Sum(u) >= Cardinality(u) * c
    BY <2>6, <2>7, <2>8, <2>9
  <2> QED BY <2>1, <2>10
<1>2. S \notin T
  BY <1>1
<1> QED BY <1>2

LEMMA MaxLen ==
  /\ Max(FrameLens) \in FrameLens /\ Max(FrameLens) \in Nat \ {0}
  /\ \A len \in FrameLens : len <= Max(FrameLens)
  /\ Max(FrameLens) <= SegmentBytes /\ SegmentBytes \in Nat
<1>1. /\ FrameLens \subseteq Nat \ {0} /\ FrameLens # {} /\ SegmentBytes \in Nat
      /\ \A len \in FrameLens : len <= SegmentBytes
  BY LimitsAssumption
<1> DEFINE N == {SegmentBytes - len : len \in FrameLens}
<1>2. N \subseteq Nat /\ N # {}
  <2>1. ASSUME NEW len \in FrameLens PROVE SegmentBytes - len \in Nat
    BY <1>1
  <2> QED BY <2>1, <1>1
<1>3. PICK n \in N : \A m \in N : n <= m
  <2> HIDE DEF N
  <2> QED BY <1>2, LeastNat
<1>4. PICK max \in FrameLens : n = SegmentBytes - max
  OBVIOUS
<1>5. \A len \in FrameLens : len <= max
  BY <1>1, <1>3, <1>4
<1>6. Max(FrameLens) = max
  <2>1. FrameLens \in SUBSET Int
    BY <1>1
  <2> QED BY <2>1, <1>5, MaxIs
<1> QED BY <1>1, <1>5, <1>6

(* The snapshot cannot cover files that continue it, unless there is one. *)
LEMMA CoveredAlone ==
  ASSUME NEW files, Chain(files), NEW s \in Nat, StartsAt(files, s), Covered(files, s),
         NEW i \in DOMAIN files, NEW j \in DOMAIN files, i < j
  PROVE  FALSE
<1>1. files[i] \in File /\ files[i].frames # << >> /\ Hi(files[i]) <= s
  BY DEF Chain, Chained, IsFiles, Covered
<1>2. files[i].lo >= s /\ files[i].lo \in Nat
  BY ScanAligned
<1>3. Len(files[i].frames) \in Nat \ {0}
  BY <1>1, FileFacts
<1> QED BY <1>1, <1>2, <1>3 DEF Hi

Sealed(files) ==
  \A i, j \in DOMAIN files : i < j => FileBytes(files[i]) + Max(FrameLens) > SegmentBytes

(* Files stay sealed when the last one is replaced. *)
LEMMA SealedReplace ==
  ASSUME NEW files, Chain(files), NEW t, Top(files, t), Sealed(files),
         NEW new, DOMAIN new = DOMAIN files,
         \A i \in DOMAIN files : i # t => FileBytes(new[i]) = FileBytes(files[i])
  PROVE  Sealed(new)
<1> SUFFICES ASSUME NEW i \in DOMAIN files, NEW j \in DOMAIN files, i < j
             PROVE  FileBytes(new[i]) + Max(FrameLens) > SegmentBytes
  BY DEF Sealed
<1>1. i # t
  BY DEF Top, Chain, IsFiles
<1> QED BY <1>1 DEF Sealed

LEMMA TargetSealed ==
  ASSUME JournalInv, Sealed(segs), pc = "idle", ~paused, NEW len \in FrameLens
  PROVE  Sealed(TargetFiles(len))
<1>1. CASE ~MustRotate(len)
  BY <1>1 DEF TargetFiles
<1>2. CASE MustRotate(len)
  <2> DEFINE a == active_index + 1
  <2>1. /\ Chain(segs) /\ Top(segs, active_index) /\ ActiveIntact
        /\ active_index \in Nat /\ active_index \in DOMAIN segs
    BY ActiveFacts DEF JournalInv, MemoryInv
  <2>2. active_bytes > 0 /\ active_bytes + len > SegmentBytes /\ active_bytes \in Nat
    BY <1>2 DEF MustRotate, JournalInv, TypeOK, StoreTypeOK
  <2>3. /\ DOMAIN Rotated = DOMAIN segs \cup {a} /\ a \notin DOMAIN segs
    BY <2>1, <2>2, RotatedFacts
  <2>4. \A i \in DOMAIN segs : FileBytes(Rotated[i]) = FileBytes(segs[i])
    BY <2>1, <2>2, RotatedSizes
  <2>5. \A i \in DOMAIN segs : i \in Nat /\ FileBytes(segs[i]) \in Nat
    BY <2>1, ChainFinite DEF Chain, IsFiles
  <2>6. FileBytes(segs[active_index]) + Max(FrameLens) > SegmentBytes
    <3>1. len \in Nat /\ len <= Max(FrameLens) /\ Max(FrameLens) \in Nat
      BY MaxLen, LimitsAssumption
    <3>2. active_bytes + Max(FrameLens) > SegmentBytes
      BY <3>1, <2>2, LimitsAssumption
    <3> QED BY <3>2, <2>1 DEF ActiveIntact
  <2>7. ASSUME NEW i \in DOMAIN Rotated, NEW j \in DOMAIN Rotated, i < j
        PROVE  FileBytes(Rotated[i]) + Max(FrameLens) > SegmentBytes
    <3>1. i \in DOMAIN segs /\ i <= active_index
      BY <2>1, <2>3, <2>5, <2>7 DEF Top
    <3>2. CASE i = active_index
      BY <3>2, <2>4, <2>6, <2>1
    <3>3. CASE i # active_index
      <4>1. i < active_index
        BY <3>1, <3>3, <2>1, <2>5
      <4> QED BY <4>1, <3>1, <2>1, <2>4 DEF Sealed
    <3> QED BY <3>2, <3>3
  <2> QED BY <2>7, <1>2 DEF TargetFiles, Sealed
<1> QED BY <1>1, <1>2

(* What SealedInv says of one directory. *)
SealedIn(d) == StartsAt(Image(d), d.snap) => Sealed(Image(d))

LEMMA SealedIs == JournalInv => (SealedInv <=> \A d \in images : SealedIn(d))
<1> SUFFICES ASSUME JournalInv, NEW d \in images
             PROVE  Sealed(Image(d)) <=> \A i, j \in d.entries : i < j =>
                      FileBytes(Every[i]) + Max(FrameLens) > SegmentBytes
  BY DEF SealedInv, SealedIn
<1>1. DOMAIN Image(d) = d.entries /\ \A i \in d.entries : Image(d)[i] = Every[i]
  BY DEF Image
<1> QED BY <1>1 DEF Sealed

LEMMA SealedNow ==
  ASSUME JournalInv, SealedInv PROVE StartsAt(segs, snap) => Sealed(segs)
BY SealedIs, ImageDirectory DEF SealedIn

LEMMA SealedStep ==
  ASSUME JournalInv, JournalInv', SealedInv, [Next]_vars, StartsAt(segs', snap')
  PROVE  Sealed(segs')
<1>1. Chain(segs) /\ snap \in Nat
  BY InvChain DEF JournalInv, TypeOK, StoreTypeOK
<1>2. StartsAt(segs, snap) => Sealed(segs)
  BY SealedNow
<1>3. Chain(segs') /\ snap' \in Nat
  BY DEF JournalInv, TypeOK, StoreTypeOK, DiskInv, Recoverable, Chain
<1>4. Covered(segs', snap') => Sealed(segs')
  BY <1>3, CoveredAlone DEF Sealed
<1>5. CASE segs' = segs /\ snap' = snap
  BY <1>2, <1>5
<1>6. CASE Open
  <2>1. PICK t \in DOMAIN OpenFiles :
          /\ Top(OpenFiles, t)
          /\ \/ OpenedWhole(OpenFiles, t) \/ OpenedEmptied(OpenFiles, t)
             \/ OpenedWithGap(OpenFiles, t)
    BY <1>6, OpenOutcomes
  <2>2. Chain(OpenFiles)
    BY <1>6, OpenOutcomes
  <2>3. StartsAt(OpenFiles, snap) => Sealed(OpenFiles)
    <3>1. CASE DOMAIN segs # {}
      BY <3>1, <1>2 DEF OpenFiles
    <3>2. CASE DOMAIN segs = {}
      <4>1. DOMAIN OpenFiles = {1}
        BY <3>2 DEF OpenFiles
      <4> QED BY <4>1 DEF Sealed
    <3> QED BY <3>1, <3>2
  <2>4. snap' = snap
    BY <1>6 DEF Open
  <2>5. CASE OpenedWhole(OpenFiles, t)
    <3>1. PICK file \in File : segs' = [OpenFiles EXCEPT ![t] = file]
      BY <2>5 DEF OpenedWhole
    <3>2. /\ DOMAIN segs' = DOMAIN OpenFiles
          /\ \A i \in DOMAIN OpenFiles : i # t => segs'[i] = OpenFiles[i]
      BY <3>1, <2>2 DEF Chain, IsFiles
    <3>3. Sealed(OpenFiles)
      BY <2>3, <2>5 DEF OpenedWhole
    <3> QED BY <3>2, <3>3, <2>1, <2>2, SealedReplace
  <2>6. CASE OpenedEmptied(OpenFiles, t)
    <3>1. DOMAIN segs' = {t} /\ t \in Nat
      BY <2>2, <2>6 DEF OpenedEmptied, Chain, IsFiles
    <3> QED BY <3>1 DEF Sealed
  <2>7. CASE OpenedWithGap(OpenFiles, t)
    BY <2>3, <2>4, <2>7 DEF OpenedWithGap
  <2> QED BY <2>1, <2>5, <2>6, <2>7
<1>7. ASSUME NEW len \in FrameLens, NEW file, pc = "idle", ~paused,
             segs' = [TargetFiles(len) EXCEPT ![TargetIndex(len)] = file]
      PROVE  Sealed(segs')
  <2> DEFINE files == TargetFiles(len)
  <2> DEFINE t == TargetIndex(len)
  <2>1. Chain(files) /\ Top(files, t) /\ t \in DOMAIN files
    BY <1>7, TargetFacts
  <2>2. StartsAt(segs, snap)
    BY <1>7 DEF JournalInv, MemoryInv
  <2>3. Sealed(files)
    BY <2>2, <1>2, <1>7, TargetSealed
  <2>4. segs' = [files EXCEPT ![t] = file]
    BY <1>7
  <2> HIDE DEF files, t
  <2>5. /\ DOMAIN segs' = DOMAIN files
        /\ \A i \in DOMAIN files : i # t => segs'[i] = files[i]
    BY <2>1, <2>4 DEF Chain, IsFiles
  <2> QED BY <2>1, <2>3, <2>5, SealedReplace
<1>8. ASSUME NEW len \in FrameLens, Append_(len) PROVE Sealed(segs')
  <2> DEFINE file == [TargetFiles(len)[TargetIndex(len)] EXCEPT !.frames = Append(@, NewFrame(len))]
  <2>1. /\ pc = "idle" /\ ~paused
        /\ segs' = [TargetFiles(len) EXCEPT ![TargetIndex(len)] = file]
    BY <1>8 DEF Append_, TargetFiles, TargetIndex, NewFrame
  <2> HIDE DEF file
  <2> QED BY <2>1, <1>7
<1>9. ASSUME NEW len \in FrameLens, NEW n \in 0..(len - 1), AppendFails(len, n)
      PROVE  Sealed(segs')
  <2> DEFINE file == [TargetFiles(len)[TargetIndex(len)] EXCEPT !.torn = n]
  <2>1. /\ pc = "idle" /\ ~paused
        /\ segs' = [TargetFiles(len) EXCEPT ![TargetIndex(len)] = file]
    BY <1>9 DEF AppendFails, TargetFiles, TargetIndex
  <2> HIDE DEF file
  <2> QED BY <2>1, <1>7
<1>10. CASE Sync
  <2> DEFINE t == active_index
  <2> SUFFICES ASSUME Top(segs, t), segs' # segs PROVE Sealed(segs')
    BY <1>5, <1>10, SyncFiles DEF Sync
  <2>1. Top(segs, t)
    OBVIOUS
  <2>2. segs' = [segs EXCEPT ![t] = SyncedFile(segs[t])] /\ snap' = snap
    BY <1>10 DEF Sync
  <2>3. /\ DOMAIN segs' = DOMAIN segs
        /\ \A i \in DOMAIN segs : i # t => segs'[i] = segs[i]
    BY <2>2, <1>1 DEF Chain, IsFiles
  <2>4. StartsAt(segs, snap) \/ Unread(segs, snap)
    BY ReadOrNot DEF JournalInv, DiskInv
  <2>5. /\ Covered(segs, snap) => Covered(segs', snap')
        /\ Stale(segs, snap) => Stale(segs', snap')
    BY <1>10, SyncStored
  <2>6. StartsAt(segs, snap) => Sealed(segs')
    BY <2>1, <2>3, <1>1, <1>2, SealedReplace
  <2> QED BY <2>4, <2>5, <2>6, <1>3, <1>4, StaleAside DEF Unread, Chain
<1>11. CASE CompactSnapshot \/ CompactRotate \/ CompactRemove
  <2>1. pc' = "rotate" \/ pc' = "remove"
    BY <1>11 DEF CompactSnapshot, CompactRotate, CompactRemove
  <2>2. Covered(segs', snap')
    BY <2>1 DEF JournalInv, MemoryInv
  <2> QED BY <2>2, <1>4
<1>12. ASSUME NEW d \in images, NEW i \in d.entries, NEW n \in 0..Len(Image(d)[i].frames),
              NEW r \in 0..SegmentBytes, PowerLoss(d, i, n, r)
       PROVE  Sealed(segs')
  <2> DEFINE files == Image(d)
  <2>1. /\ i \in DOMAIN files /\ n \in 0..Len(files[i].frames) /\ Chain(files)
        /\ Recoverable(files, d.snap, anchored) /\ anchored \in Nat
    BY ImageFacts
  <2>2. /\ snap' = d.snap
        /\ Unread(segs', d.snap) \/ StartsAt(files, d.snap)
    BY <2>1, <1>12, PowerLossStored
  <2>3. CASE Unread(segs', d.snap)
    BY <2>2, <2>3, <1>3, <1>4, StaleAside DEF Unread, Chain
  <2>4. CASE StartsAt(files, d.snap)
    <3>1. Sealed(files)
      BY <2>4, SealedIs DEF SealedIn
    <3>2. CASE ~Top(files, i)
      BY <3>1, <3>2, <2>1, <1>12, PowerLossFile
    <3>3. CASE Top(files, i)
      <4>1. segs' = [files EXCEPT ![i] = CutFile(files[i], n, r)]
        BY <2>1, <1>12, PowerLossFile
      <4> HIDE DEF files
      <4>2. /\ DOMAIN segs' = DOMAIN files
            /\ \A j \in DOMAIN files : j # i => segs'[j] = files[j]
        BY <4>1, <2>1 DEF Chain, IsFiles
      <4> QED BY <4>2, <3>1, <3>3, <2>1, SealedReplace
    <3> QED BY <3>2, <3>3
  <2> QED BY <2>2, <2>3, <2>4
<1>13. CASE CompactFinish \/ Crash \/ DirectorySynced \/ UNCHANGED vars
  BY <1>5, <1>13 DEF CompactFinish, Crash, DirectorySynced, vars, diskVars
<1>14. ASSUME NEW len \in FrameLens, AppendOverLimit(len) PROVE Sealed(segs')
  BY <1>5, <1>14 DEF AppendOverLimit, diskVars
<1>15. ASSUME NEW len \in FrameLens, AppendRotateFails(len) PROVE Sealed(segs')
  <2>1. pc = "idle" /\ ~paused /\ MustRotate(len) /\ RotateFails /\ snap' = snap
    BY <1>15 DEF AppendRotateFails, RotateFails
  <2>2. StartsAt(segs, snap)
    BY <2>1 DEF JournalInv, MemoryInv
  <2>3. Sealed(Rotated)
    <3>1. Sealed(TargetFiles(len))
      BY <2>1, <2>2, <1>2, TargetSealed
    <3> QED BY <3>1, <2>1 DEF TargetFiles
  <2> QED BY <2>1, <2>3, <1>5 DEF RotateFails
<1>16. CASE CompactFails
  <2>1. CASE segs' = segs /\ snap' = snap
    BY <2>1, <1>5
  <2>2. CASE pc = "compact" /\ segs' = segs /\ snap' = latest
    <3>1. Covered(segs, latest)
      BY <2>2, SnapshotCovers
    <3> QED BY <3>1, <2>2, <1>4
  <2>3. CASE pc = "rotate" /\ RotateFails
    <3>1. Covered(segs', snap')
      BY <2>3, RotateFailsFacts DEF JournalInv, MemoryInv
    <3> QED BY <3>1, <1>4
  <2>4. \/ segs' = segs /\ snap' = snap
        \/ pc = "compact" /\ segs' = segs /\ snap' = latest
        \/ pc = "rotate" /\ RotateFails
    BY <1>16 DEF CompactFails, diskVars
  <2> QED BY <2>1, <2>2, <2>3, <2>4
<1> QED BY <1>6, <1>8, <1>9, <1>10, <1>11, <1>12, <1>13, <1>14, <1>15, <1>16 DEF Next

LEMMA SealedNext ==
  ASSUME JournalInv, JournalInv', SealedInv, [Next]_vars
  PROVE  SealedInv'
<1>1. \A d \in images : SealedIn(d)
  BY SealedIs
<1>2. ASSUME NEW d \in images', StartsAt(Image(d)', d.snap),
             NEW i \in d.entries, NEW j \in d.entries, i < j
      PROVE  FileBytes(Every'[i]) + Max(FrameLens) > SegmentBytes
  <2>1. CASE d = Directory'
    <3>1. Image(d)' = segs' /\ d.snap = snap' /\ d.entries = DOMAIN segs'
      BY <2>1, DirectoryNext DEF Directory
    <3>2. Sealed(segs')
      BY <3>1, <1>2, SealedStep
    <3>3. Every'[i] = segs'[i]
      BY <3>1 DEF Every
    <3> QED BY <3>1, <3>2, <3>3, <1>2 DEF Sealed
  <2>2. CASE d \in images /\ SizesKept(d)
    <3>1. StartsAt(Image(d), d.snap)
      BY <2>2, <1>2, ImageKept
    <3>2. FileBytes(Every[i]) + Max(FrameLens) > SegmentBytes
      BY <3>1, <2>2, <1>2 DEF SealedInv
    <3> QED BY <3>2, <2>2 DEF SizesKept
  <2>3. CASE Stale(Image(d)', d.snap)
    <3>1. IsFiles(Image(d)')
      <4>1. /\ IsFiles(segs') /\ IsFiles(gone') /\ d.entries \subseteq DOMAIN Every'
        BY DEF JournalInv, TypeOK, StoreTypeOK, CutTypeOK
      <4>2. \A k \in DOMAIN Every' : k \in Nat \ {0} /\ Every'[k] \in File
        BY <4>1 DEF Every, IsFiles
      <4>3. Image(d)' = [k \in d.entries |-> Every'[k]]
        BY DEF Image
      <4> QED BY <4>1, <4>2, <4>3 DEF IsFiles
    <3> QED BY <3>1, <2>3, <1>2, StaleAside
  <2> QED BY <2>1, <2>2, <2>3, ImageStep
<1> QED BY <1>2 DEF SealedInv

(* A file is sealed by append only when the next frame does not fit, in    *)
(* the current directory and in every one that a power cut may leave.      *)
THEOREM SealedInvariant == Spec => []SealedInv
<1>1. Init => SealedInv
  BY DEF Init, SealedInv
<1>2. JournalInv /\ JournalInv' /\ SealedInv /\ [Next]_vars => SealedInv'
  BY SealedNext
<1> QED BY <1>1, <1>2, JournalInvariant, PTL DEF Spec

(***************************************************************************)
(* A rotation that pauses recording has made compaction due, or has come   *)
(* within a frame of the hard limit.                                       *)
(***************************************************************************)
LEMMA RetainedFull ==
  ASSUME JournalInv, Sealed(segs), AmpleSegments, pc = "idle", ~paused,
         NEW len \in FrameLens, MustRotate(len), RotatePauses
  PROVE  \/ DiskBytes(segs) >= 3 * SegmentBytes
         \/ DiskBytes(segs) + Max(FrameLens) >= HardBytes
<1> DEFINE least == SegmentBytes + 1 - Max(FrameLens)
<1>1. /\ Max(FrameLens) \in Nat /\ SegmentBytes \in Nat /\ HardBytes \in Nat
      /\ RetainedSegments \in Nat /\ least \in Nat
  BY MaxLen, LimitsAssumption
<1>2. /\ Chain(segs) /\ Top(segs, active_index) /\ ActiveIntact
      /\ active_index \in Nat /\ active_index \in DOMAIN segs
  BY ActiveFacts DEF JournalInv, MemoryInv
<1>3. active_bytes + len > SegmentBytes /\ active_bytes \in Nat
  BY DEF MustRotate, JournalInv, TypeOK, StoreTypeOK
<1>4. IsFiniteSet(DOMAIN segs) /\ \A i \in DOMAIN segs : FileBytes(segs[i]) \in Nat
  BY <1>2, ChainFinite
<1>5. FileBytes(segs[active_index]) + Max(FrameLens) > SegmentBytes
  <2>1. len \in Nat /\ len <= Max(FrameLens)
    BY MaxLen, LimitsAssumption
  <2>2. active_bytes + Max(FrameLens) > SegmentBytes
    BY <2>1, <1>1, <1>3
  <2> QED BY <2>2, <1>2 DEF ActiveIntact
<1>6. ASSUME NEW i \in DOMAIN segs PROVE FileBytes(segs[i]) >= least
  <2>1. FileBytes(segs[i]) + Max(FrameLens) > SegmentBytes
    <3>1. CASE i = active_index
      BY <3>1, <1>5
    <3>2. CASE i # active_index
      <4>1. i < active_index
        BY <3>2, <1>2 DEF Top, Chain, IsFiles
      <4> QED BY <4>1, <1>2 DEF Sealed
    <3> QED BY <3>1, <3>2
  <2> QED BY <2>1, <1>1, <1>4
<1>7. Cardinality(DOMAIN segs) \in Nat /\ Cardinality(DOMAIN segs) >= RetainedSegments
  BY <1>1, <1>4, FS_CardinalityType DEF RotatePauses
<1>8. DiskBytes(segs) \in Nat
  BY <1>2, ChainFinite
<1> HIDE DEF least
<1>9. DiskBytes(segs) >= Cardinality(DOMAIN segs) * least
  <2> DEFINE f == Sizes(segs)
  <2> DEFINE S == DOMAIN segs
  <2>1. IsFiniteSet(S) /\ \A x \in S : f[x] \in Nat /\ f[x] >= least
    BY <1>4, <1>6 DEF Sizes
  <2>2. DiskBytes(segs) = SumFunctionOnSet(f, S)
    BY DiskIs
  <2> HIDE DEF f, S
  <2>3. SumFunctionOnSet(f, S) >= Cardinality(S) * least
    BY <2>1, <1>1, SumAtLeast
  <2> QED BY <2>2, <2>3 DEF S
<1>10. DiskBytes(segs) >= RetainedSegments * least
  <2> DEFINE n == Cardinality(DOMAIN segs)
  <2> DEFINE d == DiskBytes(segs)
  <2>1. n \in Nat /\ n >= RetainedSegments /\ d \in Nat /\ d >= n * least
    BY <1>7, <1>8, <1>9
  <2> HIDE DEF n, d
  <2>2. n * least >= RetainedSegments * least
    <3>1. RetainedSegments * least + (n - RetainedSegments) * least = n * least
      BY <2>1, <1>1
    <3>2. (n - RetainedSegments) * least \in Nat
      <4>1. n - RetainedSegments \in Nat
        BY <2>1, <1>1
      <4> QED BY <4>1, <1>1
    <3> QED BY <3>1, <3>2, <2>1, <1>1
  <2>3. d >= RetainedSegments * least
    BY <2>1, <2>2, <1>1
  <2> QED BY <2>3 DEF d
<1>11. \/ RetainedSegments * least >= 3 * SegmentBytes
       \/ RetainedSegments * least + Max(FrameLens) >= HardBytes
  BY DEF AmpleSegments, least
<1>12. RetainedSegments * least \in Nat
  BY <1>1
<1> QED BY <1>1, <1>8, <1>10, <1>11, <1>12

LEMMA PausedStep ==
  ASSUME JournalInv, BytesInv, BytesInv', SealedInv, AmpleSegments, PausedOnlyAtLimit,
         [Next]_vars
  PROVE  PausedOnlyAtLimit'
<1> SUFFICES ASSUME pc' = "idle", paused', ~gap'
             PROVE  total_bytes' + Max(FrameLens) > HardBytes
  BY DEF PausedOnlyAtLimit
<1>1. /\ Max(FrameLens) \in Nat \ {0} /\ HardBytes \in Nat /\ SegmentBytes \in Nat
      /\ FrameLens \subseteq Nat \ {0} /\ total_bytes \in Nat
      /\ \A len \in FrameLens : len <= Max(FrameLens)
  BY MaxLen, LimitsAssumption DEF JournalInv, TypeOK, StoreTypeOK
<1>2. CASE UNCHANGED <<pc, paused, gap, total_bytes>>
  BY <1>2 DEF PausedOnlyAtLimit
<1>3. CASE Open
  <2>1. total_bytes' \in 0..MaxLength
    BY <1>3, Zenon DEF Open
  <2>2. total_bytes' >= HardBytes
    BY <1>3, Zenon DEF Open
  <2> QED BY <2>1, <2>2, <1>1, LimitsAssumption
<1>4. ASSUME NEW len \in FrameLens, Append_(len) PROVE total_bytes' + Max(FrameLens) > HardBytes
  <2>1. /\ pc = "idle" /\ ~paused /\ gap' = gap /\ total_bytes' = total_bytes + len
        /\ MustRotate(len) /\ RotatePauses
    BY <1>4 DEF Append_
  <2>2. ~(total_bytes + len >= 3 * SegmentBytes)
    BY <1>4 DEF Append_, CompactionDue
  <2>3. StartsAt(segs, snap) /\ Sealed(segs)
    BY <2>1, SealedNow DEF JournalInv, MemoryInv
  <2>4. total_bytes = DiskBytes(segs)
    BY <2>1 DEF BytesInv
  <2>5. \/ DiskBytes(segs) >= 3 * SegmentBytes
        \/ DiskBytes(segs) + Max(FrameLens) >= HardBytes
    BY <2>1, <2>3, RetainedFull
  <2> QED BY <2>1, <2>2, <2>4, <2>5, <1>1
<1>5. ASSUME NEW len \in FrameLens, AppendOverLimit(len)
      PROVE  total_bytes' + Max(FrameLens) > HardBytes
  <2>1. total_bytes + len > HardBytes /\ total_bytes' = total_bytes
    BY <1>5 DEF AppendOverLimit
  <2>2. len <= Max(FrameLens) /\ len \in Nat
    BY <1>1
  <2> QED BY <2>1, <2>2, <1>1
<1>6. CASE CompactFinish
  <2>1. gap' = gap /\ total_bytes' = total_bytes /\ paused' = (paused /\ (gap \/ total_bytes >= HardBytes))
    BY <1>6 DEF CompactFinish
  <2>2. total_bytes >= HardBytes
    BY <2>1
  <2> QED BY <2>1, <2>2, <1>1
<1>7. CASE Sync \/ DirectorySynced \/ UNCHANGED vars
  BY <1>2, <1>7 DEF Sync, DirectorySynced, memVars, vars
<1>8. CASE \/ CompactSnapshot \/ CompactRotate \/ CompactRemove \/ CompactFails \/ Crash
           \/ \E len \in FrameLens : \E n \in 0..(len - 1) : AppendFails(len, n)
           \/ \E len \in FrameLens : AppendRotateFails(len)
           \/ \E d \in images : \E i \in d.entries : \E n \in 0..Len(Image(d)[i].frames) :
                \E t \in 0..SegmentBytes : PowerLoss(d, i, n, t)
  <2>1. pc' # "idle"
    BY <1>8 DEF CompactSnapshot, CompactRotate, CompactRemove, CompactFails, Crash,
                AppendFails, AppendRotateFails, PowerLoss, Forget
  <2> QED BY <2>1
<1> QED BY <1>3, <1>4, <1>5, <1>6, <1>7, <1>8 DEF Next

(* Under limits whose retained segments are ample, as those of             *)
(* JournalLimits::default are, an idle journal is paused for a gap or for  *)
(* the hard limit only: what rotate pauses, the compaction it makes due    *)
(* resumes.                                                                *)
THEOREM PausesOnlyAtLimit ==
  ASSUME AmpleSegments
  PROVE  Spec => []PausedOnlyAtLimit
<1>1. Init => PausedOnlyAtLimit
  BY DEF Init, PausedOnlyAtLimit
<1>2. /\ JournalInv /\ BytesInv /\ BytesInv' /\ SealedInv /\ PausedOnlyAtLimit /\ [Next]_vars
      => PausedOnlyAtLimit'
  BY PausedStep
<1> QED BY <1>1, <1>2, JournalInvariant, BytesInvariant, SealedInvariant, PTL DEF Spec
===============================================================================
