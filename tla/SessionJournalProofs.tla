------------------------- MODULE SessionJournalProofs -------------------------
(***************************************************************************)
(* For every value of the limits: the journal's inductive invariant, and   *)
(* from it that what sync reported durable is never lost.                  *)
(***************************************************************************)
EXTENDS SessionJournal, TLAPS

-------------------------------------------------------------------------------
(* Max of FiniteSetsExt picks the element that bounds the others. *)
LEMMA MaxIs ==
  ASSUME NEW S \in SUBSET Int, NEW m \in S, \A y \in S : y <= m
  PROVE  Max(S) = m
<1>1. \A y \in S : m >= y
  OBVIOUS
<1>2. ASSUME NEW x \in S, \A y \in S : x >= y PROVE x = m
  <2>1. x >= m /\ x <= m /\ x \in Int /\ m \in Int
    BY <1>2
  <2> QED BY <2>1
<1> QED BY <1>1, <1>2, Zenon DEF Max

(* What the type of a file says of its parts. *)
LEMMA FileFacts ==
  ASSUME NEW file \in File
  PROVE  /\ file.frames \in Seq(Frame) /\ Len(file.frames) \in Nat
         /\ file.lo \in Nat /\ file.synced \in Nat /\ file.torn \in Nat
         /\ \A k \in 1..Len(file.frames) :
              /\ file.frames[k] \in Frame
              /\ file.frames[k].seq \in Nat
              /\ file.frames[k].end \in Nat \ {0} /\ file.frames[k].end <= HardBytes
         /\ EndOf(file.frames) \in Nat /\ FileBytes(file) \in Nat
         /\ file.frames = << >> <=> Len(file.frames) = 0
         /\ FileBytes(file) = 0 => file.frames = << >>
<1>1. /\ file.frames \in Seq(Frame) /\ Len(file.frames) \in Nat
      /\ file.lo \in Nat /\ file.synced \in Nat /\ file.torn \in Nat
  BY DEF File
<1>2. ASSUME NEW k \in 1..Len(file.frames)
      PROVE  /\ file.frames[k] \in Frame
             /\ file.frames[k].seq \in Nat
             /\ file.frames[k].end \in Nat \ {0} /\ file.frames[k].end <= HardBytes
  <2>1. file.frames[k] \in Frame
    BY <1>1
  <2> QED BY <2>1, LimitsAssumption DEF Frame
<1>3. file.frames = << >> <=> Len(file.frames) = 0
  BY <1>1
<1>4. EndOf(file.frames) \in Nat
  BY <1>1, <1>2, <1>3 DEF EndOf
<1>5. FileBytes(file) \in Nat
  BY <1>1, <1>4 DEF FileBytes
<1>6. FileBytes(file) = 0 => file.frames = << >>
  BY <1>1, <1>2, <1>3 DEF FileBytes, EndOf
<1> QED BY <1>1, <1>2, <1>3, <1>4, <1>5, <1>6

(* Valid is the one prefix length that cannot be extended. *)
LEMMA ValidIs ==
  ASSUME NEW file \in File, NEW prev \in Nat, NEW n \in 0..Len(file.frames),
         \A k \in 1..n : file.frames[k].seq = prev + k,
         n < Len(file.frames) => file.frames[n + 1].seq # prev + n + 1
  PROVE  Valid(file, prev) = n
<1> DEFINE P(x) == /\ \A k \in 1..x : file.frames[k].seq = prev + k
                   /\ x < Len(file.frames) => file.frames[x + 1].seq # prev + x + 1
<1>0. Len(file.frames) \in Nat
  BY DEF File
<1>1. P(n)
  OBVIOUS
<1>2. ASSUME NEW x \in 0..Len(file.frames), P(x) PROVE x = n
  <2>1. CASE x < n
    <3>1. x + 1 \in 1..n
      BY <2>1, <1>0
    <3>2. file.frames[x + 1].seq = prev + (x + 1)
      BY <3>1, <1>1
    <3> QED BY <3>2, <1>2, <2>1, <1>0
  <2>2. CASE n < x
    <3>1. n + 1 \in 1..x
      BY <2>2, <1>0
    <3>2. file.frames[n + 1].seq = prev + (n + 1)
      BY <3>1, <1>2
    <3> QED BY <3>2, <1>1, <2>2, <1>0
  <2> QED BY <2>1, <2>2, <1>0
<1>3. Valid(file, prev) = CHOOSE x \in 0..Len(file.frames) : P(x)
  BY DEF Valid
<1> QED BY <1>1, <1>2, <1>3

(* A chain of files in the Host's directory. *)
Chain(files) == IsFiles(files) /\ Numbered(files) /\ Chained(files)

(* The files of a chain that continues start scan to their last frame. *)
LEMMA ScanAligned ==
  ASSUME NEW files, Chain(files), NEW start \in Nat, StartsAt(files, start),
         NEW i \in DOMAIN files
  PROVE  /\ Previous(files, start, i) = files[i].lo
         /\ Valid(files[i], files[i].lo) = Len(files[i].frames)
         /\ files[i].lo \in Nat /\ files[i].lo >= start
<1>1. PICK b \in DOMAIN files : Bottom(files, b) /\ files[b].lo = start
  BY DEF StartsAt
<1>2. \A j \in DOMAIN files : j \in Nat /\ files[j] \in File
  BY DEF Chain, IsFiles
<1>3. \A j \in DOMAIN files :
        /\ files[j].lo \in Nat /\ Len(files[j].frames) \in Nat
        /\ DOMAIN files[j].frames = 1..Len(files[j].frames)
  BY <1>2, FileFacts
<1> DEFINE S == {start} \cup UNION {{f.seq : f \in Range(files[j].frames)} :
                                    j \in {j \in DOMAIN files : j < i}}
<1>4. ASSUME NEW j \in DOMAIN files PROVE files[j].lo >= start
  <2>1. CASE j = b
    BY <2>1, <1>1, <1>3
  <2>2. CASE j # b
    <3>1. b < j
      BY <2>2, <1>1, <1>2 DEF Bottom
    <3>2. Hi(files[b]) <= files[j].lo
      BY <3>1 DEF Chain, Chained
    <3> QED BY <3>2, <1>1, <1>3 DEF Hi
  <2> QED BY <2>1, <2>2
<1>5. ASSUME NEW j \in DOMAIN files, NEW k \in 1..Len(files[j].frames)
      PROVE  files[j].frames[k].seq = files[j].lo + k
  BY DEF Chain, Numbered, NumberedFile
<1>6. \A y \in S : y \in Int /\ y <= files[i].lo
  <2>1. ASSUME NEW j \in DOMAIN files, j < i, NEW f \in Range(files[j].frames)
        PROVE  f.seq \in Int /\ f.seq <= files[i].lo
    <3>1. PICK k \in 1..Len(files[j].frames) : f = files[j].frames[k]
      BY <1>3 DEF Range
    <3>2. f.seq = files[j].lo + k
      BY <3>1, <1>5
    <3>3. Hi(files[j]) <= files[i].lo
      BY <2>1 DEF Chain, Chained
    <3> QED BY <3>2, <3>3, <1>3 DEF Hi
  <2>2. start \in Int /\ start <= files[i].lo
    BY <1>4
  <2> QED BY <2>1, <2>2
<1>7. files[i].lo \in S
  <2>1. CASE i = b
    BY <2>1, <1>1
  <2>2. CASE i # b
    <3>1. b < i
      BY <2>2, <1>1, <1>2 DEF Bottom
    <3>2. i - 1 \in DOMAIN files /\ files[i].lo = Hi(files[i - 1])
      BY <3>1 DEF Chain, Chained
    <3>3. i - 1 < i /\ files[i - 1].frames # << >>
      BY <3>2, <1>2 DEF Chain, Chained
    <3> DEFINE n == Len(files[i - 1].frames)
    <3>4. n \in 1..n /\ n \in DOMAIN files[i - 1].frames
      BY <3>2, <3>3, <1>2, <1>3, FileFacts
    <3>5. files[i - 1].frames[n].seq = files[i].lo
      BY <3>2, <3>4, <1>5 DEF Hi
    <3>6. files[i - 1].frames[n] \in Range(files[i - 1].frames)
      BY <3>4 DEF Range
    <3> QED BY <3>2, <3>3, <3>5, <3>6
  <2> QED BY <2>1, <2>2
<1>8. Previous(files, start, i) = files[i].lo
  <2>1. S \in SUBSET Int
    BY <1>6
  <2>2. Max(S) = files[i].lo
    BY <2>1, <1>6, <1>7, MaxIs
  <2> QED BY <2>2 DEF Previous
<1>9. Valid(files[i], files[i].lo) = Len(files[i].frames)
  <2> DEFINE n == Len(files[i].frames)
  <2>1. files[i] \in File /\ files[i].lo \in Nat /\ n \in 0..n
    BY <1>2, <1>3
  <2>2. \A k \in 1..n : files[i].frames[k].seq = files[i].lo + k
    BY <1>5
  <2>3. n < n => files[i].frames[n + 1].seq # files[i].lo + n + 1
    BY <2>1
  <2> QED BY <2>1, <2>2, <2>3, ValidIs
<1> QED BY <1>3, <1>4, <1>8, <1>9

(* The files of a chain that holds nothing beyond start add nothing to it. *)
LEMMA ScanCovered ==
  ASSUME NEW files, Chain(files), NEW start \in Nat, Covered(files, start),
         NEW i \in DOMAIN files
  PROVE  /\ Previous(files, start, i) = start
         /\ Valid(files[i], start) = 0
<1>1. \A j \in DOMAIN files : j \in Nat /\ files[j] \in File
  BY DEF Chain, IsFiles
<1>2. \A j \in DOMAIN files :
        /\ files[j].lo \in Nat /\ Len(files[j].frames) \in Nat
        /\ DOMAIN files[j].frames = 1..Len(files[j].frames)
  BY <1>1, FileFacts
<1>3. ASSUME NEW j \in DOMAIN files, NEW k \in 1..Len(files[j].frames)
      PROVE  files[j].frames[k].seq \in Int /\ files[j].frames[k].seq <= start
  <2>1. files[j].frames[k].seq = files[j].lo + k
    BY DEF Chain, Numbered, NumberedFile
  <2>2. Hi(files[j]) <= start
    BY DEF Covered
  <2> QED BY <2>1, <2>2, <1>2 DEF Hi
<1> DEFINE S == {start} \cup UNION {{f.seq : f \in Range(files[j].frames)} :
                                    j \in {j \in DOMAIN files : j < i}}
<1>4. \A y \in S : y \in Int /\ y <= start
  <2>1. ASSUME NEW j \in DOMAIN files, NEW f \in Range(files[j].frames)
        PROVE  f.seq \in Int /\ f.seq <= start
    <3>1. PICK k \in 1..Len(files[j].frames) : f = files[j].frames[k]
      BY <1>2 DEF Range
    <3> QED BY <3>1, <1>3
  <2> QED BY <2>1
<1>5. Previous(files, start, i) = start
  <2>1. S \in SUBSET Int /\ start \in S
    BY <1>4
  <2>2. Max(S) = start
    BY <2>1, <1>4, MaxIs
  <2> QED BY <2>2 DEF Previous
<1>6. Valid(files[i], start) = 0
  <2>1. 0 < Len(files[i].frames) => files[i].frames[0 + 1].seq # start + 0 + 1
    BY <1>2, <1>3
  <2>2. \A k \in 1..0 : files[i].frames[k].seq = start + k
    OBVIOUS
  <2> QED BY <2>1, <2>2, <1>1, <1>2, ValidIs
<1> QED BY <1>5, <1>6

(* Opening a chain that continues its snapshot reaches its last frame. *)
LEMMA LatestAligned ==
  ASSUME NEW files, Chain(files), NEW start \in Nat, StartsAt(files, start),
         NEW t, Top(files, t)
  PROVE  /\ ScanLatest(files, start) = Hi(files[t])
         /\ Hi(files[t]) \in {start} \cup {f.seq : f \in ScanFrames(files, start)}
         /\ Scanned(files, start) = DOMAIN files
         /\ ScanFrames(files, start) =
              UNION {{files[i].frames[k] : k \in 1..Len(files[i].frames)} : i \in DOMAIN files}
<1>1. \A j \in DOMAIN files : j \in Nat /\ files[j] \in File
  BY DEF Chain, IsFiles
<1>2. \A j \in DOMAIN files :
        /\ files[j].lo \in Nat /\ Len(files[j].frames) \in Nat
        /\ files[j].frames = << >> <=> Len(files[j].frames) = 0
  BY <1>1, FileFacts
<1>3. t \in DOMAIN files
  BY DEF Top
<1>4. ASSUME NEW j \in DOMAIN files, j < t PROVE ~HasIssue(files, start, j)
  <2>1. files[j].torn = 0
    BY <1>3, <1>4 DEF Chain, Chained
  <2>2. Previous(files, start, j) = files[j].lo /\ Valid(files[j], files[j].lo) = Len(files[j].frames)
    BY ScanAligned
  <2> QED BY <2>1, <2>2, <1>2 DEF HasIssue, Issue
<1>5. Scanned(files, start) = DOMAIN files
  <2>1. ASSUME NEW i \in DOMAIN files, NEW j \in DOMAIN files, j < i
        PROVE  ~HasIssue(files, start, j)
    <3>1. j < t
      BY <2>1, <1>1, <1>3 DEF Top
    <3> QED BY <3>1, <1>4
  <2> QED BY <2>1 DEF Scanned
<1> DEFINE S == {start} \cup {f.seq : f \in ScanFrames(files, start)}
<1>6. \A i \in DOMAIN files :
        Valid(files[i], Previous(files, start, i)) = Len(files[i].frames)
  BY ScanAligned
<1>7. ScanFrames(files, start) =
        UNION {{files[i].frames[k] : k \in 1..Len(files[i].frames)} : i \in DOMAIN files}
  BY <1>5, <1>6 DEF ScanFrames
<1>8. \A y \in S : y \in Int /\ y <= Hi(files[t])
  <2>1. ASSUME NEW i \in DOMAIN files, NEW k \in 1..Len(files[i].frames)
        PROVE  files[i].frames[k].seq \in Int /\ files[i].frames[k].seq <= Hi(files[t])
    <3>1. files[i].frames[k].seq = files[i].lo + k
      BY DEF Chain, Numbered, NumberedFile
    <3>2. i = t \/ Hi(files[i]) <= files[t].lo
      BY <1>1, <1>3 DEF Chain, Chained, Top
    <3> QED BY <3>1, <3>2, <1>2, <1>3 DEF Hi
  <2>2. start \in Int /\ start <= Hi(files[t])
    BY <1>2, <1>3, ScanAligned DEF Hi
  <2> QED BY <2>1, <2>2, <1>7
<1>9. Hi(files[t]) \in S
  <2>1. CASE files[t].frames # << >>
    <3> DEFINE n == Len(files[t].frames)
    <3>1. n \in 1..n
      BY <2>1, <1>2, <1>3
    <3>2. files[t].frames[n].seq = Hi(files[t])
      BY <3>1, <1>3 DEF Chain, Numbered, NumberedFile, Hi
    <3> QED BY <3>1, <3>2, <1>3, <1>7
  <2>2. CASE files[t].frames = << >>
    <3>1. Hi(files[t]) = files[t].lo
      BY <2>2, <1>2, <1>3 DEF Hi
    <3>2. PICK b \in DOMAIN files : Bottom(files, b) /\ files[b].lo = start
      BY <1>3 DEF StartsAt
    <3>3. CASE t = b
      BY <3>1, <3>2, <3>3
    <3>4. CASE t # b
      <4>1. b < t
        BY <3>2, <3>4, <1>1, <1>3 DEF Bottom
      <4>2. t - 1 \in DOMAIN files /\ files[t].lo = Hi(files[t - 1])
        BY <4>1, <1>3 DEF Chain, Chained
      <4>3. t - 1 < t /\ files[t - 1].frames # << >>
        BY <4>2, <1>1, <1>3 DEF Chain, Chained
      <4> DEFINE n == Len(files[t - 1].frames)
      <4>4. n \in 1..n
        BY <4>2, <4>3, <1>2
      <4>5. files[t - 1].frames[n].seq = Hi(files[t])
        BY <4>2, <4>4, <3>1 DEF Chain, Numbered, NumberedFile, Hi
      <4> QED BY <4>2, <4>4, <4>5, <1>7
    <3> QED BY <3>3, <3>4
  <2> QED BY <2>1, <2>2
<1>10. S \in SUBSET Int
  BY <1>8
<1>11. Max(S) = Hi(files[t])
  BY <1>8, <1>9, <1>10, MaxIs
<1> QED BY <1>5, <1>7, <1>9, <1>11 DEF ScanLatest

(* Opening a chain that its snapshot covers recovers the snapshot alone. *)
LEMMA LatestCovered ==
  ASSUME NEW files, Chain(files), NEW start \in Nat, Covered(files, start)
  PROVE  ScanFrames(files, start) = {} /\ ScanLatest(files, start) = start
<1>1. \A i \in DOMAIN files : Valid(files[i], Previous(files, start, i)) = 0
  BY ScanCovered
<1>2. ScanFrames(files, start) = {}
  BY <1>1 DEF ScanFrames, Scanned
<1>3. {start} \cup {f.seq : f \in ScanFrames(files, start)} = {start}
  BY <1>2
<1>4. Max({start}) = start
  BY MaxIs
<1> QED BY <1>2, <1>3, <1>4 DEF ScanLatest

(* Files that begin before their snapshot, in a sealed file, stop the scan *)
(* at that file: nothing beyond the snapshot is recovered.                 *)
LEMMA ScanStale ==
  ASSUME NEW files, Chain(files), NEW start \in Nat, Stale(files, start)
  PROVE  /\ ScanFrames(files, start) = {} /\ ScanLatest(files, start) = start
         /\ \A t : Top(files, t) => t \notin Scanned(files, start)
<1>1. PICK b \in DOMAIN files, j \in DOMAIN files :
        Bottom(files, b) /\ b # j /\ files[b].lo # start
  BY DEF Stale
<1>2. \A i \in DOMAIN files : i \in Nat /\ files[i] \in File
  BY DEF Chain, IsFiles
<1>3. b < j
  BY <1>1, <1>2 DEF Bottom
<1>4. /\ files[b].frames # << >> /\ files[b].lo \in Nat /\ Len(files[b].frames) \in Nat
      /\ 1 \in 1..Len(files[b].frames)
  <2>1. files[b].frames # << >>
    BY <1>3 DEF Chain, Chained
  <2> QED BY <2>1, <1>2, FileFacts
<1>5. Previous(files, start, b) = start
  <2>1. {i \in DOMAIN files : i < b} = {}
    BY <1>1, <1>2 DEF Bottom
  <2>2. {start} \cup UNION {{f.seq : f \in Range(files[i].frames)} :
                            i \in {i \in DOMAIN files : i < b}} = {start}
    BY <2>1
  <2>3. Max({start}) = start
    BY MaxIs
  <2> QED BY <2>2, <2>3 DEF Previous
<1>6. Valid(files[b], start) = 0
  <2>1. files[b].frames[1].seq = files[b].lo + 1
    BY <1>4 DEF Chain, Numbered, NumberedFile
  <2>2. 0 < Len(files[b].frames) => files[b].frames[0 + 1].seq # start + 0 + 1
    BY <2>1, <1>1, <1>4
  <2>3. \A k \in 1..0 : files[b].frames[k].seq = start + k
    OBVIOUS
  <2>4. 0 \in 0..Len(files[b].frames)
    BY <1>4
  <2> QED BY <2>2, <2>3, <2>4, <1>2, ValidIs
<1>7. HasIssue(files, start, b)
  BY <1>4, <1>5, <1>6 DEF HasIssue, Issue
<1>8. ASSUME NEW i \in Scanned(files, start) PROVE i = b
  <2>1. i \in DOMAIN files /\ \A k \in DOMAIN files : k < i => ~HasIssue(files, start, k)
    BY DEF Scanned
  <2>2. ~(b < i)
    BY <2>1, <1>7
  <2> QED BY <2>1, <2>2, <1>1, <1>2 DEF Bottom
<1>9. ScanFrames(files, start) = {}
  BY <1>5, <1>6, <1>8 DEF ScanFrames
<1>10. {start} \cup {f.seq : f \in ScanFrames(files, start)} = {start}
  BY <1>9
<1>11. Max({start}) = start
  BY MaxIs
<1>12. ASSUME NEW t, Top(files, t) PROVE t \notin Scanned(files, start)
  <2>1. b < t
    BY <1>2, <1>3, <1>12 DEF Top
  <2> QED BY <2>1, <1>2, <1>8
<1> QED BY <1>9, <1>10, <1>11, <1>12 DEF ScanLatest

-------------------------------------------------------------------------------
(* The last file of a chain may be replaced by another that starts alike. *)
LEMMA ReplaceTop ==
  ASSUME NEW files, Chain(files), NEW t, Top(files, t),
         NEW file \in File, NumberedFile(file),
         file.lo = files[t].lo \/ DOMAIN files = {t},
         NEW new, new = [files EXCEPT ![t] = file]
  PROVE  /\ Chain(new) /\ Top(new, t) /\ DOMAIN new = DOMAIN files /\ new[t] = file
         /\ \A seq : file.lo = files[t].lo /\ StartsAt(files, seq) => StartsAt(new, seq)
         /\ \A seq : Covered(files, seq) /\ Hi(file) <= seq => Covered(new, seq)
<1>1. /\ DOMAIN new = DOMAIN files /\ t \in DOMAIN files /\ new[t] = file
      /\ \A i \in DOMAIN files : i # t => new[i] = files[i]
  BY DEF Top, Chain, IsFiles
<1>2. \A j \in DOMAIN files : j \in Nat /\ files[j] \in File
  BY DEF Chain, IsFiles
<1>3. IsFiles(new)
  BY <1>1, <1>2 DEF Chain, IsFiles
<1>4. Numbered(new)
  BY <1>1 DEF Chain, Numbered
<1>5. Chained(new)
  <2>1. DOMAIN new # {} => \E b, c \in DOMAIN new : Bottom(new, b) /\ Top(new, c)
    BY <1>1 DEF Chain, Chained, Bottom, Top
  <2>2. ASSUME NEW i \in DOMAIN new, NEW j \in DOMAIN new, i < j
        PROVE  /\ Hi(new[i]) <= new[j].lo
               /\ i + 1 \in DOMAIN new
               /\ j - 1 \in DOMAIN new /\ new[j].lo = Hi(new[j - 1])
               /\ new[i].frames # << >> /\ new[i].torn = 0
               /\ new[i].synced = Len(new[i].frames)
    <3>1. i # t /\ j - 1 # t
      BY <2>2, <1>1, <1>2 DEF Top
    <3>2. new[j].lo = files[j].lo
      BY <3>1, <1>1, <2>2
    <3> QED BY <3>1, <3>2, <1>1, <2>2 DEF Chain, Chained
  <2> QED BY <2>1, <2>2 DEF Chained
<1>6. Top(new, t)
  BY <1>1 DEF Top
<1>7. ASSUME NEW seq, file.lo = files[t].lo, StartsAt(files, seq) PROVE StartsAt(new, seq)
  BY <1>7, <1>1 DEF StartsAt, Bottom
<1>8. ASSUME NEW seq, Covered(files, seq), Hi(file) <= seq PROVE Covered(new, seq)
  BY <1>8, <1>1 DEF Covered
<1> QED BY <1>1, <1>3, <1>4, <1>5, <1>6, <1>7, <1>8 DEF Chain

(* Replacing the last file leaves the first one of several in place. *)
LEMMA ReplaceTopStale ==
  ASSUME NEW files, Chain(files), NEW t, Top(files, t), NEW file, NEW seq,
         Stale(files, seq), NEW new, new = [files EXCEPT ![t] = file]
  PROVE  Stale(new, seq)
<1>1. PICK b \in DOMAIN files, j \in DOMAIN files :
        Bottom(files, b) /\ b # j /\ files[b].lo # seq
  BY DEF Stale
<1>2. \A i \in DOMAIN files : i \in Nat
  BY DEF Chain, IsFiles
<1>3. b # t
  BY <1>1, <1>2 DEF Bottom, Top
<1>4. DOMAIN new = DOMAIN files /\ new[b] = files[b]
  BY <1>1, <1>3
<1> QED BY <1>1, <1>4 DEF Stale, Bottom

(* The last file decides whether a sequence number is on disk. *)
LEMMA OnDiskTop ==
  ASSUME NEW files, Chain(files), NEW t, Top(files, t), NEW seq, NEW mark
  PROVE  OnDisk(files, seq, mark) <=> mark <= seq \/ mark <= files[t].lo + files[t].synced
<1>1. t \in DOMAIN files
  BY DEF Top
<1>2. ASSUME NEW u \in DOMAIN files, Top(files, u) PROVE u = t
  BY <1>1, <1>2 DEF Top, Chain, IsFiles
<1> QED BY <1>1, <1>2 DEF OnDisk

(* A snapshot that covers the files covers what was synced in them; files  *)
(* that are stale promise no more than their snapshot.                     *)
LEMMA CoveredMark ==
  ASSUME NEW files, Chain(files), NEW seq \in Nat, NEW mark \in Nat,
         Covered(files, seq), OnDisk(files, seq, mark)
  PROVE  mark <= seq
<1>1. CASE mark <= seq
  BY <1>1
<1>2. ASSUME NEW t \in DOMAIN files, mark <= files[t].lo + files[t].synced PROVE mark <= seq
  <2>1. files[t] \in File /\ NumberedFile(files[t])
    BY DEF Chain, IsFiles, Numbered
  <2>2. /\ files[t].lo \in Nat /\ files[t].synced \in Nat /\ Len(files[t].frames) \in Nat
        /\ files[t].synced <= Len(files[t].frames)
    BY <2>1, FileFacts DEF NumberedFile
  <2>3. files[t].lo + Len(files[t].frames) <= seq
    BY DEF Covered, Hi
  <2> QED BY <2>2, <2>3, <1>2
<1> QED BY <1>1, <1>2 DEF OnDisk

LEMMA StaleMark ==
  ASSUME NEW files, Chain(files), NEW seq \in Nat, NEW mark \in Nat,
         Recoverable(files, seq, mark), Stale(files, seq)
  PROVE  mark <= seq
<1>1. ~StartsAt(files, seq)
  <2>1. SUFFICES ASSUME StartsAt(files, seq) PROVE FALSE
    OBVIOUS
  <2>2. PICK b \in DOMAIN files, j \in DOMAIN files :
          Bottom(files, b) /\ b # j /\ files[b].lo # seq
    BY DEF Stale
  <2>3. PICK c \in DOMAIN files : Bottom(files, c) /\ files[c].lo = seq
    BY <2>1, <2>2 DEF StartsAt
  <2>4. b = c
    BY <2>2, <2>3 DEF Bottom, Chain, IsFiles
  <2> QED BY <2>2, <2>3, <2>4
<1>2. CASE Covered(files, seq)
  BY <1>2, CoveredMark DEF Recoverable
<1>3. CASE Stale(files, seq) /\ mark <= seq
  BY <1>3
<1> QED BY <1>1, <1>2, <1>3 DEF Recoverable

(* Files that can be opened without losing mark, and a lower promise. *)
LEMMA RecoverableLess ==
  ASSUME NEW files, IsFiles(files), NEW seq \in Nat, NEW mark \in Nat, NEW less \in Nat,
         less <= mark, Recoverable(files, seq, mark)
  PROVE  Recoverable(files, seq, less)
<1>1. mark <= seq => less <= seq
  OBVIOUS
<1>2. ASSUME NEW t \in DOMAIN files, mark <= files[t].lo + files[t].synced
      PROVE  less <= files[t].lo + files[t].synced
  <2>1. files[t].lo \in Nat /\ files[t].synced \in Nat
    BY FileFacts DEF IsFiles
  <2> QED BY <2>1, <1>2
<1>3. OnDisk(files, seq, less)
  BY <1>1, <1>2 DEF Recoverable, OnDisk
<1> QED BY <1>1, <1>3 DEF Recoverable

(* The file new has at least the frames and the synced frames of old. *)
Succeeds(new, old) ==
  /\ new \in File /\ NumberedFile(new)
  /\ new.lo = old.lo /\ old.synced <= new.synced

(* Writing to the last file keeps what the others and the snapshot hold.   *)
LEMMA RecoverableTop ==
  ASSUME NEW files, IsFiles(files), NEW seq \in Nat, NEW mark \in Nat,
         Recoverable(files, seq, mark), NEW t, Top(files, t),
         NEW file, Succeeds(file, files[t]),
         \/ Hi(file) <= Hi(files[t])
         \/ StartsAt(files, seq)
         \/ Stale(files, seq),
         NEW new, new = [files EXCEPT ![t] = file]
  PROVE  Recoverable(new, seq, mark)
<1>1. Chain(files) /\ t \in DOMAIN files
  BY DEF Chain, Recoverable, Top
<1>2. file \in File /\ NumberedFile(file) /\ file.lo = files[t].lo /\ files[t].synced <= file.synced
  BY DEF Succeeds
<1>3. /\ Chain(new) /\ Top(new, t) /\ DOMAIN new = DOMAIN files /\ new[t] = file
      /\ \A s : file.lo = files[t].lo /\ StartsAt(files, s) => StartsAt(new, s)
      /\ \A s : Covered(files, s) /\ Hi(file) <= s => Covered(new, s)
  BY <1>1, <1>2, ReplaceTop
<1>4. /\ file.lo \in Nat /\ file.synced \in Nat /\ files[t].synced \in Nat
      /\ Hi(file) \in Nat /\ Hi(files[t]) \in Nat
  <2>1. files[t] \in File
    BY <1>1 DEF IsFiles
  <2>2. /\ files[t].lo \in Nat /\ files[t].synced \in Nat /\ Len(files[t].frames) \in Nat
        /\ file.lo \in Nat /\ file.synced \in Nat /\ Len(file.frames) \in Nat
    BY <2>1, <1>2, FileFacts
  <2> QED BY <2>2 DEF Hi
<1>5. OnDisk(new, seq, mark)
  <2>1. mark <= seq \/ mark <= files[t].lo + files[t].synced
    BY <1>1, OnDiskTop DEF Recoverable
  <2>2. mark <= seq \/ mark <= new[t].lo + new[t].synced
    BY <2>1, <1>2, <1>3, <1>4
  <2> QED BY <2>2, <1>3, OnDiskTop
<1>6. CASE StartsAt(files, seq)
  BY <1>2, <1>3, <1>5, <1>6 DEF Recoverable, Chain
<1>7. CASE Stale(files, seq)
  <2>1. mark <= seq
    BY <1>1, <1>7, StaleMark
  <2>2. Stale(new, seq)
    BY <1>1, <1>7, ReplaceTopStale
  <2> QED BY <2>1, <2>2, <1>3, <1>5 DEF Recoverable, Chain
<1>8. CASE Covered(files, seq) /\ Hi(file) <= Hi(files[t])
  <2>1. Hi(files[t]) <= seq
    BY <1>1, <1>8 DEF Covered
  <2>2. Hi(file) <= seq
    BY <2>1, <1>4, <1>8
  <2> QED BY <2>2, <1>3, <1>5, <1>8 DEF Recoverable, Chain
<1> QED BY <1>6, <1>7, <1>8 DEF Recoverable

(* Sealing the last file of a chain and starting the next one. *)
RotateFiles(files, t, seq) ==
  [i \in DOMAIN files \cup {t + 1} |->
     IF i = t + 1 THEN EmptyFile(seq)
     ELSE IF i = t THEN SyncedFile(files[i])
     ELSE files[i]]

LEMMA EmptyFileFacts ==
  ASSUME NEW seq \in Nat
  PROVE  /\ EmptyFile(seq) \in File /\ NumberedFile(EmptyFile(seq))
         /\ EmptyFile(seq).lo = seq /\ EmptyFile(seq).frames = << >> /\ EmptyFile(seq).torn = 0
         /\ EmptyFile(seq).synced = 0 /\ Hi(EmptyFile(seq)) = seq /\ FileBytes(EmptyFile(seq)) = 0
BY DEF EmptyFile, File, NumberedFile, Hi, FileBytes, EndOf

LEMMA SyncedFileFacts ==
  ASSUME NEW file \in File, NumberedFile(file)
  PROVE  /\ SyncedFile(file) \in File /\ NumberedFile(SyncedFile(file))
         /\ SyncedFile(file).lo = file.lo /\ SyncedFile(file).frames = file.frames
         /\ SyncedFile(file).torn = file.torn /\ SyncedFile(file).synced = Len(file.frames)
         /\ Hi(SyncedFile(file)) = Hi(file) /\ FileBytes(SyncedFile(file)) = FileBytes(file)
<1>1. Len(file.frames) \in Nat
  BY FileFacts
<1> QED BY <1>1 DEF SyncedFile, File, NumberedFile, Hi, FileBytes, EndOf

(* The chain new is files with an empty file after its last file t. *)
Extended(files, t, new) ==
  /\ Chain(new) /\ Top(new, t + 1) /\ DOMAIN new = DOMAIN files \cup {t + 1}
  /\ t + 1 \notin DOMAIN files /\ new[t + 1] = EmptyFile(Hi(files[t]))
  /\ \A s : StartsAt(files, s) => StartsAt(new, s)
  /\ \A s : Covered(files, s) => Covered(new, s)

LEMMA RotateChain ==
  ASSUME NEW files, Chain(files), NEW t, Top(files, t),
         files[t].torn = 0, files[t].frames # << >>
  PROVE  Extended(files, t, RotateFiles(files, t, Hi(files[t])))
<1> DEFINE seq == Hi(files[t])
<1> DEFINE new == RotateFiles(files, t, seq)
<1>1. \A j \in DOMAIN files : j \in Nat \ {0} /\ files[j] \in File /\ NumberedFile(files[j])
  BY DEF Chain, IsFiles, Numbered
<1>2. t \in DOMAIN files /\ \A j \in DOMAIN files : j <= t
  BY DEF Top
<1>3. t + 1 \notin DOMAIN files
  BY <1>1, <1>2
<1>4. /\ DOMAIN new = DOMAIN files \cup {t + 1} /\ new[t + 1] = EmptyFile(seq)
      /\ new[t] = SyncedFile(files[t])
      /\ \A i \in DOMAIN files : i # t => new[i] = files[i]
  BY <1>1, <1>2, <1>3 DEF RotateFiles
<1>5. seq \in Nat
  BY <1>1, <1>2, FileFacts DEF Hi
<1>6. IsFiles(new)
  <2>1. \A i \in DOMAIN new : i \in Nat \ {0} /\ new[i] \in File
    BY <1>1, <1>2, <1>4, <1>5, EmptyFileFacts, SyncedFileFacts
  <2>2. new = [i \in DOMAIN new |-> new[i]]
    BY DEF RotateFiles
  <2> QED BY <2>1, <2>2 DEF IsFiles
<1>7. Numbered(new)
  BY <1>1, <1>2, <1>4, <1>5, EmptyFileFacts, SyncedFileFacts DEF Numbered
<1>8. Top(new, t + 1)
  BY <1>1, <1>2, <1>4 DEF Top
<1>9. Chained(new)
  <2>1. \E b \in DOMAIN new : Bottom(new, b)
    <3>1. PICK b \in DOMAIN files : Bottom(files, b)
      BY <1>2 DEF Chain, Chained
    <3>2. b <= t + 1
      BY <3>1, <1>1, <1>2
    <3> QED BY <3>1, <3>2, <1>4 DEF Bottom
  <2>2. ASSUME NEW i \in DOMAIN new, NEW j \in DOMAIN new, i < j
        PROVE  /\ Hi(new[i]) <= new[j].lo
               /\ i + 1 \in DOMAIN new
               /\ j - 1 \in DOMAIN new /\ new[j].lo = Hi(new[j - 1])
               /\ new[i].frames # << >> /\ new[i].torn = 0
               /\ new[i].synced = Len(new[i].frames)
    <3>1. i \in DOMAIN files /\ i <= t
      BY <2>2, <1>1, <1>2, <1>4
    <3>2. /\ Hi(new[i]) = Hi(files[i]) /\ new[i].frames = files[i].frames
          /\ new[i].torn = files[i].torn /\ new[i].lo = files[i].lo
      BY <3>1, <1>1, <1>4, SyncedFileFacts
    <3>3. Hi(new[t]) = Hi(files[t])
      BY <1>1, <1>2, <1>4, SyncedFileFacts
    <3>4. CASE j = t + 1
      <4>1. new[j].lo = Hi(files[t]) /\ j - 1 = t
        <5>1. new[j] = EmptyFile(seq)
          BY <3>4, <1>4
        <5>2. EmptyFile(seq).lo = seq
          BY <1>5, EmptyFileFacts
        <5>3. j - 1 = t
          BY <3>4, <1>1, <1>2
        <5> QED BY <5>1, <5>2, <5>3
      <4>2. CASE i = t
        <5>1. new[i].synced = Len(new[i].frames)
          BY <4>2, <1>1, <1>2, <1>4, SyncedFileFacts
        <5>2. Hi(new[i]) <= new[j].lo
          BY <4>1, <4>2, <3>2, <1>5
        <5> QED BY <5>1, <5>2, <4>1, <4>2, <3>2, <3>3, <3>4, <1>2, <1>4
      <4>3. CASE i # t
        <5>1. i < t
          BY <4>3, <3>1, <1>1, <1>2
        <5>2. /\ Hi(files[i]) <= files[t].lo /\ i + 1 \in DOMAIN files
              /\ files[i].frames # << >> /\ files[i].torn = 0
              /\ files[i].synced = Len(files[i].frames)
          BY <5>1, <3>1, <1>2 DEF Chain, Chained
        <5>3. Hi(new[i]) <= new[j].lo
          <6>1. files[t].lo \in Nat /\ Len(files[t].frames) \in Nat
            BY <1>1, <1>2, FileFacts
          <6>2. Hi(files[i]) \in Nat
            BY <1>1, <3>1, FileFacts DEF Hi
          <6> QED BY <5>2, <4>1, <3>2, <6>1, <6>2 DEF Hi
        <5> QED BY <5>2, <5>3, <4>1, <4>3, <3>1, <3>2, <3>3, <1>2, <1>4
      <4> QED BY <4>2, <4>3
    <3>5. CASE j # t + 1
      <4>1. j \in DOMAIN files /\ i < t /\ j <= t /\ j - 1 # t
        BY <3>5, <2>2, <1>1, <1>2, <1>4
      <4>2. new[j].lo = files[j].lo /\ new[i] = files[i]
        BY <4>1, <3>1, <1>1, <1>4, SyncedFileFacts
      <4>3. /\ Hi(files[i]) <= files[j].lo
            /\ i + 1 \in DOMAIN files
            /\ j - 1 \in DOMAIN files /\ files[j].lo = Hi(files[j - 1])
            /\ files[i].frames # << >> /\ files[i].torn = 0
            /\ files[i].synced = Len(files[i].frames)
        BY <4>1, <3>1, <2>2 DEF Chain, Chained
      <4>4. new[j - 1] = files[j - 1]
        BY <4>1, <4>3, <1>4
      <4> QED BY <4>2, <4>3, <4>4, <1>4
    <3> QED BY <3>4, <3>5
  <2> QED BY <2>1, <2>2, <1>8 DEF Chained, Top
<1>10. ASSUME NEW s, StartsAt(files, s) PROVE StartsAt(new, s)
  <2>1. PICK b \in DOMAIN files : Bottom(files, b) /\ files[b].lo = s
    BY <1>10, <1>2 DEF StartsAt
  <2>2. Bottom(new, b)
    BY <2>1, <1>1, <1>2, <1>4 DEF Bottom
  <2>3. new[b].lo = s
    BY <2>1, <1>1, <1>4, SyncedFileFacts
  <2> QED BY <2>2, <2>3 DEF StartsAt, Bottom
<1>11. ASSUME NEW s, Covered(files, s) PROVE Covered(new, s)
  <2>1. Hi(new[t + 1]) <= s
    BY <1>2, <1>4, <1>5, <1>11, EmptyFileFacts DEF Covered
  <2>2. ASSUME NEW i \in DOMAIN files PROVE Hi(new[i]) <= s
    BY <1>1, <1>4, <1>11, SyncedFileFacts DEF Covered
  <2> QED BY <2>1, <2>2, <1>4 DEF Covered
<1> HIDE DEF new
<1>12. Extended(files, t, new)
  BY <1>3, <1>4, <1>6, <1>7, <1>8, <1>9, <1>10, <1>11 DEF Chain, Extended
<1> QED BY <1>12 DEF new

(* Removing the first file of a chain leaves a chain. *)
LEMMA RemoveBottom ==
  ASSUME NEW files, Chain(files), NEW b, Bottom(files, b), NEW t, Top(files, t), b # t,
         NEW new, new = Restrict(files, DOMAIN files \ {b})
  PROVE  /\ Chain(new) /\ Top(new, t) /\ DOMAIN new = DOMAIN files \ {b}
         /\ new[t] = files[t]
         /\ \A seq : Covered(files, seq) => Covered(new, seq)
<1>1. \A j \in DOMAIN files : j \in Nat \ {0} /\ files[j] \in File /\ NumberedFile(files[j])
  BY DEF Chain, IsFiles, Numbered
<1>2. /\ t \in DOMAIN files /\ \A j \in DOMAIN files : j <= t
      /\ b \in DOMAIN files /\ \A j \in DOMAIN files : b <= j
  BY DEF Top, Bottom
<1>3. /\ DOMAIN new = DOMAIN files \ {b}
      /\ \A i \in DOMAIN new : new[i] = files[i]
      /\ new = [i \in DOMAIN new |-> new[i]]
  BY DEF Restrict
<1>4. IsFiles(new)
  BY <1>1, <1>3 DEF IsFiles
<1>5. Numbered(new)
  BY <1>1, <1>3 DEF Numbered
<1>6. Top(new, t)
  BY <1>2, <1>3 DEF Top
<1>7. b < t
  BY <1>1, <1>2
<1>8. b + 1 \in DOMAIN files
  BY <1>2, <1>7 DEF Chain, Chained
<1>9. Bottom(new, b + 1)
  <2>1. \A j \in DOMAIN new : b + 1 <= j
    BY <1>1, <1>2, <1>3
  <2>2. b + 1 \in DOMAIN new
    BY <1>1, <1>2, <1>3, <1>8
  <2> QED BY <2>1, <2>2 DEF Bottom
<1>10. ASSUME NEW i \in DOMAIN new, NEW j \in DOMAIN new, i < j
       PROVE  /\ Hi(new[i]) <= new[j].lo
              /\ i + 1 \in DOMAIN new
              /\ j - 1 \in DOMAIN new /\ new[j].lo = Hi(new[j - 1])
              /\ new[i].frames # << >> /\ new[i].torn = 0
              /\ new[i].synced = Len(new[i].frames)
  <2>1. /\ Hi(files[i]) <= files[j].lo
        /\ i + 1 \in DOMAIN files
        /\ j - 1 \in DOMAIN files /\ files[j].lo = Hi(files[j - 1])
        /\ files[i].frames # << >> /\ files[i].torn = 0
        /\ files[i].synced = Len(files[i].frames)
    BY <1>3, <1>10 DEF Chain, Chained
  <2>2. i + 1 # b /\ j - 1 # b
    BY <1>1, <1>2, <1>3, <1>10
  <2> QED BY <2>1, <2>2, <1>3
<1>11. Chained(new)
  BY <1>6, <1>9, <1>10 DEF Chained, Top, Bottom
<1>12. ASSUME NEW seq, Covered(files, seq) PROVE Covered(new, seq)
  BY <1>3, <1>12 DEF Covered
<1> QED BY <1>2, <1>3, <1>4, <1>5, <1>6, <1>11, <1>12 DEF Chain

LEMMA MinIs ==
  ASSUME NEW S \in SUBSET Int, NEW m \in S, \A y \in S : m <= y
  PROVE  Min(S) = m
<1>1. ASSUME NEW x \in S, \A y \in S : x <= y PROVE x = m
  <2>1. x >= m /\ x <= m /\ x \in Int /\ m \in Int
    BY <1>1
  <2> QED BY <2>1
<1> QED BY <1>1, Zenon DEF Min

-------------------------------------------------------------------------------
(* The invariant gives a chain, whatever the Host is doing. *)
LEMMA InvChain ==
  ASSUME JournalInv PROVE Chain(segs)
BY DEF JournalInv, TypeOK, StoreTypeOK, DiskInv, Recoverable, Chain

(* The watermark property follows from the invariant. *)
LEMMA InvDurable ==
  ASSUME JournalInv PROVE DurableRecoverable
<1>1. Chain(segs) /\ snap \in Nat /\ durable \in Nat
  BY InvChain DEF JournalInv, TypeOK, StoreTypeOK
<1>2. CASE DOMAIN segs = {}
  <2>1. Covered(segs, snap)
    BY <1>2 DEF Covered
  <2>2. RecoveredLatest = snap
    BY <2>1, <1>1, LatestCovered DEF RecoveredLatest
  <2>3. durable <= snap
    BY <1>2 DEF JournalInv, DiskInv, Recoverable, OnDisk
  <2> QED BY <2>2, <2>3 DEF DurableRecoverable
<1>3. CASE DOMAIN segs # {}
  <2>1. PICK t \in DOMAIN segs : Top(segs, t)
    BY <1>3, <1>1 DEF Chain, Chained
  <2>2. segs[t].lo \in Nat /\ segs[t].synced \in Nat /\ Len(segs[t].frames) \in Nat
    BY <1>1, FileFacts DEF Chain, IsFiles
  <2>3. segs[t].synced <= Len(segs[t].frames)
    BY <1>1 DEF Chain, Numbered, NumberedFile
  <2>4. durable <= snap \/ durable <= Hi(segs[t])
    <3>1. ASSUME NEW u \in DOMAIN segs, Top(segs, u) PROVE u = t
      BY <3>1, <2>1, <1>1 DEF Top, Chain, IsFiles
    <3> QED BY <3>1, <2>2, <2>3, <1>1 DEF JournalInv, DiskInv, Recoverable, OnDisk, Hi
  <2>5. CASE StartsAt(segs, snap)
    <3>1. RecoveredLatest = Hi(segs[t])
      BY <2>1, <2>5, <1>1, LatestAligned DEF RecoveredLatest
    <3>2. segs[t].lo >= snap
      BY <2>5, <1>1, ScanAligned
    <3> QED BY <3>1, <3>2, <2>2, <2>4, <1>1 DEF DurableRecoverable, Hi
  <2>6. CASE Covered(segs, snap)
    <3>1. RecoveredLatest = snap
      BY <2>6, <1>1, LatestCovered DEF RecoveredLatest
    <3>2. Hi(segs[t]) <= snap
      BY <2>6 DEF Covered
    <3> QED BY <3>1, <3>2, <2>2, <2>4, <1>1 DEF DurableRecoverable, Hi
  <2>7. CASE Stale(segs, snap) /\ durable <= snap
    <3>1. RecoveredLatest = snap
      BY <2>7, <1>1, ScanStale DEF RecoveredLatest
    <3> QED BY <3>1, <2>7 DEF DurableRecoverable
  <2> QED BY <2>5, <2>6, <2>7 DEF JournalInv, DiskInv, Recoverable
<1> QED BY <1>2, <1>3

LEMMA InitInv ==
  ASSUME Init PROVE JournalInv
<1>1. DOMAIN segs = {} /\ segs \in [DOMAIN segs -> File]
  BY DEF Init
<1>2. StoreTypeOK
  <2>1. IsFiles(segs)
    BY <1>1 DEF IsFiles
  <2>2. 0 \in 0..MaxSeq
    BY LimitsAssumption
  <2>3. live \in Seq(Frame)
    BY DEF Init
  <2>4. paused \in BOOLEAN /\ gap \in BOOLEAN
    BY DEF Init
  <2> QED BY <2>1, <2>2, <2>3, <2>4 DEF Init, TypeOK, StoreTypeOK
<1>3. DiskInv
  BY <1>1 DEF Init, DiskInv, Recoverable, Numbered, Chained, StartsAt, OnDisk
<1>4. MemoryInv
  BY DEF Init, MemoryInv
<1>5. CutTypeOK
  <2>1. IsFiles(gone)
    BY DEF Init, IsFiles
  <2>2. 0 \in 0..MaxSeq
    BY LimitsAssumption
  <2>3. undone \in BOOLEAN
    BY DEF Init
  <2> QED BY <2>1, <2>2, <2>3 DEF Init, CutTypeOK
<1>6. CutInv
  <2>1. Directory = [entries |-> {}, snap |-> 0] /\ images = {Directory}
    BY <1>1 DEF Init, Directory
  <2>2. DOMAIN Image(Directory) = {} /\ Directory.snap = 0
    BY <2>1 DEF Image
  <2>3. Recoverable(Image(Directory), Directory.snap, anchored)
    BY <2>2 DEF Init, Recoverable, Numbered, Chained, StartsAt, OnDisk
  <2>4. pc = "closed" /\ anchored <= durable /\ DOMAIN gone = {}
    BY DEF Init
  <2>5. Directory.snap <= snap
    BY <2>2 DEF Init
  <2> QED BY <2>1, <2>3, <2>4, <2>5 DEF CutInv
<1> QED BY <1>2, <1>3, <1>4, <1>5, <1>6 DEF JournalInv, TypeOK

(* The memory of a dead Host has its type, and asks nothing of the disk. *)
LEMMA ForgetFacts ==
  ASSUME Forget, IsFiles(segs'), snap' \in 0..MaxSeq, durable' \in 0..MaxSeq
  PROVE  StoreTypeOK' /\ MemoryInv'
<1>1. 0 \in 0..MaxSeq
  BY LimitsAssumption
<1>2. live' \in Seq(Frame)
  BY DEF Forget
<1>3. paused' \in BOOLEAN /\ gap' \in BOOLEAN
  BY DEF Forget
<1>4. StoreTypeOK'
  BY <1>1, <1>2, <1>3 DEF Forget, StoreTypeOK
<1>5. MemoryInv'
  BY DEF Forget, MemoryInv
<1> QED BY <1>4, <1>5

(* The facts about the active file that the steps of an open journal use. *)
LEMMA ActiveFacts ==
  ASSUME JournalInv, pc \notin {"closed", "failed"}
  PROVE  /\ Chain(segs) /\ Top(segs, active_index) /\ active_index \in DOMAIN segs
         /\ active_index \in Nat \ {0}
         /\ segs[active_index] \in File /\ NumberedFile(segs[active_index])
         /\ durable <= snap \/ durable <= segs[active_index].lo + segs[active_index].synced
<1>1. Chain(segs) /\ Top(segs, active_index)
  BY InvChain DEF JournalInv, MemoryInv
<1>2. active_index \in DOMAIN segs
  BY <1>1 DEF Top
<1>3. /\ active_index \in Nat \ {0} /\ segs[active_index] \in File
      /\ NumberedFile(segs[active_index])
  BY <1>1, <1>2 DEF Chain, IsFiles, Numbered
<1>4. ASSUME NEW u \in DOMAIN segs, Top(segs, u) PROVE u = active_index
  BY <1>4, <1>1 DEF Top, Chain, IsFiles
<1> QED BY <1>1, <1>2, <1>3, <1>4 DEF JournalInv, DiskInv, Recoverable, OnDisk

(* The files, the snapshot and the memory of the Host: all but CutInv. *)
CoreInv == StoreTypeOK /\ DiskInv /\ MemoryInv

LEMMA CrashInv ==
  ASSUME JournalInv, Crash PROVE CoreInv'
<1>1. StoreTypeOK' /\ MemoryInv'
  BY ForgetFacts DEF Crash, diskVars, JournalInv, TypeOK, StoreTypeOK
<1>2. DiskInv'
  BY DEF Crash, diskVars, cutVars, JournalInv, DiskInv, Recoverable, OnDisk
<1> QED BY <1>1, <1>2 DEF CoreInv

(* The watermark has not passed what the Host has recorded. *)
LEMMA LatestDurable ==
  ASSUME JournalInv, pc \in {"idle", "failed"} PROVE durable <= latest
<1>1. Chain(segs) /\ snap \in Nat /\ durable \in Nat /\ latest \in Nat
  BY InvChain DEF JournalInv, TypeOK, StoreTypeOK
<1>2. durable <= RecoveredLatest
  BY InvDurable DEF DurableRecoverable
<1>3. latest = RecoveredLatest
  <2>1. CASE StartsAt(segs, snap) /\ latest = Hi(segs[active_index])
    <3>1. CASE Top(segs, active_index)
      BY <2>1, <3>1, <1>1, LatestAligned DEF RecoveredLatest
    <3>2. CASE /\ active_index \in DOMAIN segs /\ Top(segs, active_index + 1)
               /\ segs[active_index + 1].frames = << >>
      <4>1. active_index \in Nat /\ active_index + 1 \in DOMAIN segs
        BY <3>2, <1>1 DEF Top, Chain, IsFiles
      <4>2. segs[active_index + 1].lo = Hi(segs[active_index])
        <5>1. active_index < active_index + 1 /\ (active_index + 1) - 1 = active_index
          BY <4>1
        <5> QED BY <5>1, <4>1, <3>2, <1>1 DEF Chain, Chained
      <4>3. Hi(segs[active_index + 1]) = segs[active_index + 1].lo
        <5>1. segs[active_index + 1] \in File
          BY <4>1, <1>1 DEF Chain, IsFiles
        <5>2. segs[active_index + 1].lo \in Nat /\ Len(segs[active_index + 1].frames) = 0
          BY <5>1, <3>2, FileFacts
        <5> QED BY <5>2 DEF Hi
      <4> QED BY <4>2, <4>3, <3>2, <2>1, <1>1, LatestAligned DEF RecoveredLatest
    <3> QED BY <3>1, <3>2 DEF JournalInv, MemoryInv
  <2>2. CASE Covered(segs, snap) /\ latest = snap
    BY <2>2, <1>1, LatestCovered DEF RecoveredLatest
  <2>3. CASE Stale(segs, snap) /\ latest = snap
    BY <2>3, <1>1, ScanStale DEF RecoveredLatest
  <2> QED BY <2>1, <2>2, <2>3 DEF JournalInv, MemoryInv, ActiveIntact
<1> QED BY <1>2, <1>3

(* sync finds the active file last, or nothing left to write to it. *)
LEMMA SyncFiles ==
  ASSUME JournalInv, Sync
  PROVE  \/ Top(segs, active_index)
         \/ pc = "failed" /\ segs' = segs /\ Top(segs, active_index + 1)
            /\ segs[active_index + 1].frames = << >> /\ active_index \in DOMAIN segs
<1> DEFINE a == active_index
<1>1. CASE Top(segs, a)
  BY <1>1
<1>2. CASE ~Top(segs, a)
  <2>1. /\ pc = "failed" /\ a \in DOMAIN segs /\ Top(segs, a + 1)
        /\ segs[a + 1].frames = << >>
    BY <1>2 DEF JournalInv, MemoryInv, Sync
  <2>2. Chain(segs)
    BY InvChain
  <2>3. a \in Nat /\ a + 1 \in DOMAIN segs /\ a < a + 1 /\ segs[a] \in File
    BY <2>1, <2>2 DEF Top, Chain, IsFiles
  <2>4. segs[a].synced = Len(segs[a].frames)
    BY <2>1, <2>2, <2>3 DEF Chain, Chained
  <2>5. SyncedFile(segs[a]) = segs[a]
    BY <2>3, <2>4 DEF SyncedFile, File
  <2>6. segs = [j \in DOMAIN segs |-> segs[j]]
    BY <2>2 DEF Chain, IsFiles
  <2>7. segs' = segs
    BY <2>5, <2>6 DEF Sync
  <2> QED BY <2>1, <2>7
<1> QED BY <1>1, <1>2

LEMMA SyncInv ==
  ASSUME JournalInv, Sync PROVE CoreInv'
<1> DEFINE t == active_index
<1> DEFINE file == SyncedFile(segs[t])
<1>1. UNCHANGED <<snap, pc, doomed, active_index, active_bytes, total_bytes, latest, earliest,
                  base, paused, gap, live, live_boundary, undone>> /\ durable' = latest
  BY DEF Sync, memVars, cutVars
<1>2. pc \in {"idle", "failed"} /\ Chain(segs) /\ latest \in Nat /\ snap \in Nat
  BY InvChain DEF Sync, JournalInv, TypeOK, StoreTypeOK
<1>3. CASE Top(segs, t)
  <2>1. t \in DOMAIN segs /\ segs[t] \in File /\ NumberedFile(segs[t])
    BY <1>2, <1>3 DEF Top, Chain, IsFiles, Numbered
  <2>2. /\ file \in File /\ NumberedFile(file) /\ file.lo = segs[t].lo
        /\ file.frames = segs[t].frames /\ file.torn = segs[t].torn
        /\ file.synced = Len(segs[t].frames)
        /\ Hi(file) = Hi(segs[t]) /\ FileBytes(file) = FileBytes(segs[t])
    BY <2>1, SyncedFileFacts
  <2>3. segs' = [segs EXCEPT ![t] = file]
    BY DEF Sync
  <2> HIDE DEF file, t
  <2>4. /\ Chain(segs') /\ Top(segs', t) /\ DOMAIN segs' = DOMAIN segs /\ segs'[t] = file
        /\ \A seq : file.lo = segs[t].lo /\ StartsAt(segs, seq) => StartsAt(segs', seq)
        /\ \A seq : Covered(segs, seq) /\ Hi(file) <= seq => Covered(segs', seq)
    BY <2>1, <2>2, <2>3, <1>2, <1>3, ReplaceTop, Zenon
  <2>5. Stale(segs, snap) => Stale(segs', snap)
    BY <2>3, <1>2, <1>3, ReplaceTopStale
  <2> USE DEF t
  <2>6. \A seq : Covered(segs, seq) => Covered(segs', seq)
    BY <2>1, <2>2, <2>4 DEF Covered
  <2>7. StoreTypeOK'
    BY <2>4, <1>1 DEF JournalInv, TypeOK, StoreTypeOK, Chain
  <2>8. MemoryInv'
    BY <2>1, <2>2, <2>4, <2>5, <2>6, <1>1, <1>2 DEF JournalInv, MemoryInv, ActiveIntact
  <2>9. latest <= snap \/ (StartsAt(segs, snap) /\ latest = Hi(segs[t]))
    BY <1>2 DEF JournalInv, MemoryInv, ActiveIntact
  <2>10. durable' <= snap' \/ durable' <= segs'[t].lo + segs'[t].synced
    BY <2>2, <2>4, <2>9, <1>1, <1>2 DEF Hi
  <2>11. OnDisk(segs, snap, durable)'
    BY <2>1, <2>4, <2>10 DEF OnDisk
  <2>12. CASE StartsAt(segs, snap) \/ Covered(segs, snap)
    <3>1. StartsAt(segs', snap') \/ Covered(segs', snap')
      BY <2>2, <2>4, <2>6, <2>12, <1>1
    <3>2. DiskInv'
      BY <3>1, <2>4, <2>11 DEF DiskInv, Recoverable, Chain
    <3> QED BY <3>2, <2>7, <2>8 DEF CoreInv
  <2>13. CASE ~(StartsAt(segs, snap) \/ Covered(segs, snap))
    <3>1. Stale(segs', snap') /\ durable' <= snap' /\ undone'
      BY <2>5, <2>9, <2>13, <1>1 DEF JournalInv, DiskInv, Recoverable
    <3>2. DiskInv'
      BY <3>1, <2>4, <2>11 DEF DiskInv, Recoverable, Chain
    <3> QED BY <3>2, <2>7, <2>8 DEF CoreInv
  <2> QED BY <2>12, <2>13
<1>4. CASE /\ pc = "failed" /\ segs' = segs /\ Top(segs, t + 1)
           /\ segs[t + 1].frames = << >> /\ t \in DOMAIN segs
  <2>1. StoreTypeOK'
    BY <1>1, <1>4 DEF JournalInv, TypeOK, StoreTypeOK
  <2>2. MemoryInv'
    BY <1>1, <1>4 DEF JournalInv, MemoryInv
  <2>3. t \in Nat /\ t + 1 \in DOMAIN segs /\ t < t + 1 /\ (t + 1) - 1 = t
    BY <1>2, <1>4 DEF Top, Chain, IsFiles
  <2>4. segs[t + 1].lo = Hi(segs[t]) /\ segs[t + 1].lo \in Nat /\ segs[t + 1].synced \in Nat
    <3>1. segs[t + 1] \in File
      BY <2>3, <1>2 DEF Chain, IsFiles
    <3>2. segs[t + 1].lo = Hi(segs[t])
      BY <2>3, <1>2, <1>4 DEF Chain, Chained
    <3> QED BY <3>1, <3>2, FileFacts
  <2>5. latest <= snap \/ latest <= segs[t + 1].lo + segs[t + 1].synced
    BY <2>4, <1>2, <1>4 DEF JournalInv, MemoryInv
  <2>6. OnDisk(segs, snap, durable)'
    BY <2>3, <2>5, <1>1, <1>4 DEF OnDisk
  <2>7. StartsAt(segs, snap) \/ Covered(segs, snap)
    BY <1>4 DEF JournalInv, MemoryInv
  <2>8. DiskInv'
    BY <2>6, <2>7, <1>1, <1>2, <1>4 DEF DiskInv, Recoverable, Chain
  <2> QED BY <2>1, <2>2, <2>8 DEF CoreInv
<1> QED BY <1>3, <1>4, SyncFiles

(* Publishing the snapshot covers every file. *)
LEMMA SnapshotCovers ==
  ASSUME JournalInv, pc = "compact"
  PROVE  Covered(segs, latest) /\ durable <= latest
<1> DEFINE t == active_index
<1>1. /\ Chain(segs) /\ Top(segs, t) /\ t \in DOMAIN segs /\ segs[t] \in File
  BY ActiveFacts
<1>2. StartsAt(segs, snap) /\ latest = Hi(segs[t])
  BY DEF JournalInv, MemoryInv, ActiveIntact
<1>3. Covered(segs, latest)
  <2>1. ASSUME NEW i \in DOMAIN segs PROVE Hi(segs[i]) <= latest
    <3>1. /\ segs[i].lo \in Nat /\ Len(segs[i].frames) \in Nat
          /\ segs[t].lo \in Nat /\ Len(segs[t].frames) \in Nat /\ i \in Nat /\ t \in Nat
      BY <1>1, FileFacts DEF Chain, IsFiles
    <3>2. i = t \/ Hi(segs[i]) <= segs[t].lo
      BY <3>1, <1>1 DEF Chain, Chained, Top
    <3>3. latest = segs[t].lo + Len(segs[t].frames)
      BY <1>2 DEF Hi
    <3>4. Hi(segs[i]) = segs[i].lo + Len(segs[i].frames)
      BY DEF Hi
    <3>5. ASSUME NEW x \in Nat, NEW y \in Nat, NEW z \in Nat, x <= y PROVE x <= y + z
      BY <3>5
    <3>6. Hi(segs[i]) \in Nat /\ latest \in Nat /\ latest <= latest
      BY <3>1, <3>3, <3>4
    <3>7. CASE i = t
      BY <3>3, <3>4, <3>6, <3>7
    <3>8. CASE Hi(segs[i]) <= segs[t].lo
      BY <3>1, <3>3, <3>5, <3>6, <3>8
    <3> QED BY <3>2, <3>7, <3>8
  <2> QED BY <2>1 DEF Covered
<1>4. durable <= latest
  <2>1. segs[t].lo >= snap /\ segs[t].lo \in Nat /\ segs[t].synced \in Nat /\ Len(segs[t].frames) \in Nat
    BY <1>1, <1>2, ScanAligned, FileFacts DEF JournalInv, TypeOK, StoreTypeOK
  <2>2. segs[t].synced <= Len(segs[t].frames)
    BY <1>1 DEF Chain, Numbered, NumberedFile
  <2>3. durable <= snap \/ durable <= segs[t].lo + segs[t].synced
    BY ActiveFacts
  <2>4. durable \in Nat /\ snap \in Nat
    BY DEF JournalInv, TypeOK, StoreTypeOK
  <2>5. latest = segs[t].lo + Len(segs[t].frames)
    BY <1>2 DEF Hi
  <2> QED BY <2>1, <2>2, <2>3, <2>4, <2>5
<1> QED BY <1>3, <1>4

LEMMA CompactSnapshotInv ==
  ASSUME JournalInv, CompactSnapshot PROVE CoreInv'
<1> DEFINE t == active_index
<1>1. /\ Chain(segs) /\ Top(segs, t) /\ t \in DOMAIN segs /\ segs[t] \in File
  BY ActiveFacts DEF CompactSnapshot
<1>2. /\ StartsAt(segs, snap) /\ base = snap /\ latest = Hi(segs[t]) /\ ActiveIntact
      /\ active_bytes > 0 /\ doomed = {}
  BY DEF CompactSnapshot, JournalInv, MemoryInv, ActiveIntact
<1>3. /\ UNCHANGED <<segs, doomed, active_index, active_bytes, total_bytes, latest, earliest,
                     base, paused, gap, live, live_boundary, durable>>
      /\ snap' = latest /\ pc' = "rotate" /\ UNCHANGED undone
  BY DEF CompactSnapshot, memVars
<1>4. StoreTypeOK'
  BY <1>3 DEF JournalInv, TypeOK, StoreTypeOK
<1>5. Covered(segs, latest)
  BY SnapshotCovers DEF CompactSnapshot
<1>6. MemoryInv'
  <2>1. ~undone /\ (gap => paused)
    BY DEF CompactSnapshot, JournalInv, MemoryInv
  <2> QED BY <2>1, <1>1, <1>2, <1>3, <1>5 DEF MemoryInv, ActiveIntact
<1>7. OnDisk(segs, snap, durable)'
  BY <1>3, SnapshotCovers DEF OnDisk, CompactSnapshot
<1>8. DiskInv'
  BY <1>1, <1>3, <1>5, <1>7 DEF DiskInv, Recoverable, Chain
<1> QED BY <1>4, <1>6, <1>8 DEF CoreInv

(* What rotate makes of an intact active file that holds something. *)
LEMMA RotatedFacts ==
  ASSUME JournalInv, pc \notin {"closed", "failed"}, ActiveIntact, active_bytes > 0
  PROVE  /\ Chain(Rotated) /\ Top(Rotated, active_index + 1)
         /\ DOMAIN Rotated = DOMAIN segs \cup {active_index + 1}
         /\ active_index + 1 \notin DOMAIN segs /\ Rotated[active_index + 1] = EmptyFile(latest)
         /\ \A s : StartsAt(segs, s) => StartsAt(Rotated, s)
         /\ \A s : Covered(segs, s) => Covered(Rotated, s)
         /\ \A i \in DOMAIN segs : Rotated[i].frames = segs[i].frames
<1>1. Chain(segs) /\ Top(segs, active_index)
  BY ActiveFacts
<1>2. /\ latest = Hi(segs[active_index]) /\ segs[active_index].torn = 0
      /\ active_bytes = FileBytes(segs[active_index])
  BY DEF ActiveIntact
<1>3. segs[active_index].frames # << >>
  <2>1. segs[active_index].frames = << >> => FileBytes(segs[active_index]) = 0
    BY <1>2 DEF FileBytes, EndOf
  <2> QED BY <2>1, <1>2
<1>4. Rotated = RotateFiles(segs, active_index, Hi(segs[active_index]))
  BY <1>2 DEF Rotated, RotateFiles
<1>5. Extended(segs, active_index, Rotated)
  BY <1>1, <1>2, <1>3, <1>4, RotateChain
<1>6. \A i \in DOMAIN segs : Rotated[i].frames = segs[i].frames
  <2>1. \A i \in DOMAIN segs : segs[i] \in File /\ NumberedFile(segs[i])
    BY <1>1 DEF Chain, IsFiles, Numbered
  <2> QED BY <2>1, <1>5, SyncedFileFacts DEF Rotated, Extended
<1> QED BY <1>2, <1>5, <1>6 DEF Extended

(* The file an append writes to, after a rotation if one is due. *)
TargetFiles(len) == IF MustRotate(len) THEN Rotated ELSE segs

TargetIndex(len) == IF MustRotate(len) THEN active_index + 1 ELSE active_index

LEMMA TargetFacts ==
  ASSUME JournalInv, pc = "idle", ~paused, NEW len \in FrameLens,
         NEW files, files = TargetFiles(len), NEW t, t = TargetIndex(len)
  PROVE  /\ Chain(files) /\ Top(files, t) /\ t \in DOMAIN files /\ t \in Nat
         /\ files[t] \in File /\ NumberedFile(files[t]) /\ files[t].torn = 0
         /\ StartsAt(files, snap) /\ Hi(files[t]) = latest
         /\ FileBytes(files[t]) = IF MustRotate(len) THEN 0 ELSE active_bytes
         /\ FileBytes(files[t]) \in Nat /\ FileBytes(files[t]) + len <= SegmentBytes
         /\ durable <= snap \/ durable <= files[t].lo + files[t].synced
         /\ latest \in Nat /\ doomed = {} /\ base = snap
<1>1. /\ Chain(segs) /\ Top(segs, active_index) /\ active_index \in DOMAIN segs
      /\ active_index \in Nat \ {0}
      /\ segs[active_index] \in File /\ NumberedFile(segs[active_index])
      /\ durable <= snap \/ durable <= segs[active_index].lo + segs[active_index].synced
  BY ActiveFacts
<1>2. StartsAt(segs, snap) /\ ActiveIntact /\ doomed = {} /\ base = snap
  BY DEF JournalInv, MemoryInv
<1>3. /\ latest = Hi(segs[active_index]) /\ segs[active_index].torn = 0
      /\ active_bytes = FileBytes(segs[active_index])
  BY <1>2 DEF ActiveIntact
<1>4. active_bytes \in Nat /\ latest \in Nat /\ durable \in Nat /\ snap \in Nat
  BY DEF JournalInv, TypeOK, StoreTypeOK
<1>5. len \in Nat /\ len <= SegmentBytes /\ SegmentBytes \in Nat
  BY LimitsAssumption
<1>6. CASE ~MustRotate(len)
  <2>1. files = segs /\ t = active_index
    BY <1>6 DEF TargetFiles, TargetIndex
  <2>2. FileBytes(segs[active_index]) + len <= SegmentBytes
    BY <1>3, <1>4, <1>5, <1>6 DEF MustRotate
  <2>3. FileBytes(segs[active_index]) \in Nat
    BY <1>3, <1>4
  <2> QED BY <2>1, <2>2, <2>3, <1>1, <1>2, <1>3, <1>4, <1>6
<1>7. CASE MustRotate(len)
  <2>1. files = Rotated /\ t = active_index + 1
    BY <1>7 DEF TargetFiles, TargetIndex
  <2>2. active_bytes > 0
    BY <1>7 DEF MustRotate
  <2>3. /\ Chain(files) /\ Top(files, active_index + 1)
        /\ DOMAIN files = DOMAIN segs \cup {active_index + 1}
        /\ files[active_index + 1] = EmptyFile(latest)
        /\ \A s : StartsAt(segs, s) => StartsAt(files, s)
    BY <2>1, <2>2, <1>2, RotatedFacts
  <2>4. /\ files[t] \in File /\ NumberedFile(files[t]) /\ files[t].torn = 0
        /\ Hi(files[t]) = latest /\ FileBytes(files[t]) = 0
        /\ files[t].lo = latest /\ files[t].synced = 0
    BY <2>1, <2>3, <1>4, EmptyFileFacts
  <2>5. durable <= snap \/ durable <= latest
    <3>1. /\ segs[active_index].lo \in Nat /\ segs[active_index].synced \in Nat
          /\ Len(segs[active_index].frames) \in Nat
          /\ segs[active_index].synced <= Len(segs[active_index].frames)
      BY <1>1, FileFacts DEF NumberedFile
    <3> QED BY <3>1, <1>1, <1>3, <1>4 DEF Hi
  <2> QED BY <2>1, <2>3, <2>4, <2>5, <1>1, <1>2, <1>4, <1>5, <1>7
<1> QED BY <1>6, <1>7

(* Writing to the last file: frames and torn bytes follow what is there. *)
LEMMA AppendedFile ==
  ASSUME NEW file \in File, NumberedFile(file), file.torn = 0,
         NEW frame \in Frame, frame.seq = Hi(file) + 1, frame.end > FileBytes(file),
         NEW new, new = [file EXCEPT !.frames = Append(@, frame)]
  PROVE  /\ new \in File /\ NumberedFile(new) /\ new.lo = file.lo /\ new.torn = 0
         /\ new.synced = file.synced /\ Hi(new) = Hi(file) + 1 /\ FileBytes(new) = frame.end
         /\ new.frames # << >>
<1> DEFINE n == Len(file.frames)
<1>1. /\ file.frames \in Seq(Frame) /\ n \in Nat /\ file.lo \in Nat /\ file.synced \in Nat
      /\ \A k \in 1..n : file.frames[k].end \in Nat
      /\ file.frames = << >> <=> n = 0
      /\ EndOf(file.frames) \in Nat
  BY FileFacts
<1>2. /\ new.frames = Append(file.frames, frame) /\ new.lo = file.lo /\ new.torn = 0
      /\ new.synced = file.synced
  BY DEF File
<1>3. /\ new.frames \in Seq(Frame) /\ Len(new.frames) = n + 1 /\ new.frames[n + 1] = frame
      /\ \A k \in 1..n : new.frames[k] = file.frames[k]
  BY <1>1, <1>2
<1>4. new \in File
  BY <1>2, <1>3 DEF File
<1>5. Hi(new) = Hi(file) + 1 /\ new.frames # << >>
  <2>1. Hi(new) = file.lo + (n + 1) /\ Hi(file) = file.lo + n
    BY <1>2, <1>3 DEF Hi
  <2>2. file.lo + (n + 1) = (file.lo + n) + 1
    BY <1>1
  <2>3. new.frames # << >>
    BY <1>1, <1>3
  <2> QED BY <2>1, <2>2, <2>3
<1>6. FileBytes(new) = frame.end
  <2>1. frame.end \in Nat
    BY LimitsAssumption DEF Frame
  <2> QED BY <2>1, <1>1, <1>2, <1>3, <1>5 DEF FileBytes, EndOf
<1>7. NumberedFile(new)
  <2>1. new.synced <= Len(new.frames)
    BY <1>1, <1>2, <1>3 DEF NumberedFile
  <2>2. ASSUME NEW k \in 1..Len(new.frames) PROVE new.frames[k].seq = new.lo + k
    <3>1. CASE k = n + 1
      BY <3>1, <1>1, <1>2, <1>3 DEF Hi
    <3>2. CASE k # n + 1
      <4>1. k \in 1..n
        BY <3>2, <1>1, <1>3
      <4> QED BY <4>1, <1>2, <1>3 DEF NumberedFile
    <3> QED BY <3>1, <3>2
  <2>3. ASSUME NEW k \in 1..n PROVE file.frames[k].end < frame.end
    <3>0. file.frames # << >> /\ n \in 1..n
      BY <1>1
    <3>1. file.frames[n].end < frame.end
      <4>1. FileBytes(file) = file.frames[n].end
        BY <3>0, <1>1 DEF FileBytes, EndOf
      <4> QED BY <4>1, <3>0, <1>1, LimitsAssumption DEF Frame
    <3>2. k = n \/ file.frames[k].end < file.frames[n].end
      <4>1. k = n \/ k < n
        BY <1>1
      <4> QED BY <4>1, <3>0 DEF NumberedFile
    <3>3. file.frames[n].end \in Nat /\ file.frames[k].end \in Nat
      BY <3>0, <1>1
    <3>4. frame.end \in Nat
      BY LimitsAssumption DEF Frame
    <3> QED BY <3>1, <3>2, <3>3, <3>4
  <2>4. ASSUME NEW k \in 1..Len(new.frames), NEW m \in 1..Len(new.frames), k < m
        PROVE  new.frames[k].end < new.frames[m].end
    <3>1. k \in 1..n
      BY <2>4, <1>1, <1>3
    <3>2. CASE m = n + 1
      BY <3>1, <3>2, <2>3, <1>3
    <3>3. CASE m # n + 1
      <4>1. m \in 1..n
        BY <3>3, <1>1, <1>3
      <4> QED BY <3>1, <4>1, <2>4, <1>3 DEF NumberedFile
    <3> QED BY <3>2, <3>3
  <2> QED BY <2>1, <2>2, <2>4 DEF NumberedFile
<1> QED BY <1>2, <1>4, <1>5, <1>6, <1>7

LEMMA AppendInv ==
  ASSUME JournalInv, NEW len \in FrameLens, Append_(len) PROVE CoreInv'
<1> DEFINE files == TargetFiles(len)
<1> DEFINE t == TargetIndex(len)
<1> DEFINE frame == [seq |-> latest + 1, len |-> len, end |-> FileBytes(files[t]) + len]
<1> DEFINE active == (IF MustRotate(len) THEN 0 ELSE active_bytes) + len
<1> DEFINE cached == Append(live, frame)
<1>0. pc = "idle" /\ ~paused /\ latest < MaxSeq
  BY DEF Append_
<1>1. /\ Chain(files) /\ Top(files, t) /\ t \in DOMAIN files /\ t \in Nat
      /\ files[t] \in File /\ NumberedFile(files[t]) /\ files[t].torn = 0
      /\ StartsAt(files, snap) /\ Hi(files[t]) = latest
      /\ FileBytes(files[t]) = IF MustRotate(len) THEN 0 ELSE active_bytes
      /\ FileBytes(files[t]) \in Nat /\ FileBytes(files[t]) + len <= SegmentBytes
      /\ durable <= snap \/ durable <= files[t].lo + files[t].synced
      /\ latest \in Nat /\ doomed = {} /\ base = snap
  BY <1>0, TargetFacts
<1>2. /\ segs' = [files EXCEPT ![t].frames = Append(@, frame)]
      /\ active_index' = t /\ active_bytes' = active /\ total_bytes' = total_bytes + len
      /\ paused' = (MustRotate(len) /\ RotatePauses)
      /\ earliest' = IF earliest = 0 \/ latest = base THEN frame.seq ELSE earliest
      /\ latest' = frame.seq
      /\ \E n \in 0..Len(cached) :
           /\ live' = SubSeq(cached, n + 1, Len(cached))
           /\ live_boundary' = IF n = 0 THEN live_boundary ELSE cached[n].seq
      /\ pc' = IF CompactionDue(active, total_bytes + len) THEN "compact" ELSE "idle"
      /\ UNCHANGED <<snap, doomed, base, gap, durable, undone>>
  BY DEF Append_, TargetFiles, TargetIndex, Relinked
<1>3. len \in Nat \ {0} /\ MaxSeq \in Nat /\ SegmentBytes <= HardBytes /\ SegmentBytes \in Nat
      /\ HardBytes \in Nat
  BY LimitsAssumption
<1>4. frame \in Frame /\ frame.seq = Hi(files[t]) + 1 /\ frame.end > FileBytes(files[t])
      /\ frame.seq = latest + 1 /\ frame.end = active /\ frame.seq \in 1..MaxSeq
  <2>1. latest + 1 \in 1..MaxSeq
    BY <1>0, <1>1, <1>3
  <2>2. FileBytes(files[t]) + len \in 1..HardBytes
    BY <1>1, <1>3
  <2> QED BY <2>1, <2>2, <1>1, <1>3 DEF Frame
<1> DEFINE file == [files[t] EXCEPT !.frames = Append(@, frame)]
<1>5. segs' = [files EXCEPT ![t] = file]
  BY <1>2
<1> HIDE DEF files, t, frame
<1>6. /\ file \in File /\ NumberedFile(file) /\ file.lo = files[t].lo /\ file.torn = 0
      /\ file.synced = files[t].synced /\ Hi(file) = Hi(files[t]) + 1 /\ FileBytes(file) = frame.end
      /\ file.frames # << >>
  BY <1>1, <1>4, AppendedFile, Zenon
<1> HIDE DEF file
<1>7. /\ Chain(segs') /\ Top(segs', t) /\ DOMAIN segs' = DOMAIN files /\ segs'[t] = file
      /\ \A seq : file.lo = files[t].lo /\ StartsAt(files, seq) => StartsAt(segs', seq)
  BY <1>1, <1>5, <1>6, ReplaceTop, Zenon
<1>8. active \in Nat /\ active > 0
  BY <1>1, <1>3 DEF JournalInv, TypeOK, StoreTypeOK
<1>9. StoreTypeOK'
  <2>1. live \in Seq(Frame) /\ cached \in Seq(Frame) /\ Len(cached) \in Nat
    BY <1>4 DEF JournalInv, TypeOK, StoreTypeOK
  <2>2. PICK n \in 0..Len(cached) :
           /\ live' = SubSeq(cached, n + 1, Len(cached))
           /\ live_boundary' = IF n = 0 THEN live_boundary ELSE cached[n].seq
    BY <1>2
  <2>3. live' \in Seq(Frame)
    BY <2>1, <2>2
  <2>4. live_boundary' \in 0..MaxSeq
    <3>1. CASE n = 0
      BY <3>1, <2>2 DEF JournalInv, TypeOK, StoreTypeOK
    <3>2. CASE n # 0
      <4>1. cached[n] \in Frame
        BY <3>2, <2>1, <2>2
      <4> QED BY <4>1, <3>2, <2>2, <1>3 DEF Frame
    <3> QED BY <3>1, <3>2
  <2>5. latest' \in 0..MaxSeq /\ earliest' \in 0..MaxSeq
    BY <1>2, <1>4, <1>3 DEF JournalInv, TypeOK, StoreTypeOK
  <2>6. active_bytes' \in Nat /\ total_bytes' \in Nat /\ active_index' \in Nat
    <3>1. total_bytes \in Nat
      BY DEF JournalInv, TypeOK, StoreTypeOK
    <3>2. total_bytes' = total_bytes + len /\ active_bytes' = active /\ active_index' = t
      BY <1>2
    <3> QED BY <3>1, <3>2, <1>1, <1>3, <1>8
  <2>7. pc' \in {"closed", "idle", "compact", "rotate", "remove", "failed"}
    BY <1>2
  <2>8. paused' \in BOOLEAN
    BY <1>2 DEF RotatePauses, MustRotate
  <2>9. doomed' \subseteq DOMAIN segs'
    BY <1>1, <1>2
  <2>10. IsFiles(segs')
    BY <1>7 DEF Chain
  <2> QED BY <2>3, <2>4, <2>5, <2>6, <2>7, <2>8, <2>9, <2>10, <1>2 DEF JournalInv, TypeOK, StoreTypeOK
<1>10. StartsAt(segs', snap')
  BY <1>1, <1>2, <1>6, <1>7
<1>11. ActiveIntact' /\ active_bytes' > 0
  <2>1. latest' = Hi(file) /\ active_bytes' = FileBytes(file) /\ active_index' = t
    BY <1>1, <1>2, <1>4, <1>6
  <2> QED BY <2>1, <1>2, <1>6, <1>7, <1>8 DEF ActiveIntact
<1>12. MemoryInv'
  <2>1. ~undone /\ ~gap
    BY <1>0 DEF JournalInv, MemoryInv
  <2> QED BY <2>1, <1>1, <1>2, <1>7, <1>10, <1>11 DEF MemoryInv
<1>13. DiskInv'
  <2>1. durable' <= snap' \/ durable' <= segs'[t].lo + segs'[t].synced
    BY <1>1, <1>2, <1>6, <1>7
  <2>2. t \in DOMAIN segs'
    BY <1>1, <1>7
  <2> QED BY <2>1, <2>2, <1>7, <1>10 DEF DiskInv, Recoverable, OnDisk, Chain
<1> QED BY <1>9, <1>12, <1>13 DEF CoreInv

LEMMA AppendOverLimitInv ==
  ASSUME JournalInv, NEW len \in FrameLens, AppendOverLimit(len) PROVE CoreInv'
<1>1. /\ UNCHANGED <<segs, snap, pc, doomed, active_index, active_bytes, total_bytes,
                     latest, earliest, base, gap, live, live_boundary, durable, undone>>
      /\ paused' = TRUE /\ pc = "idle"
  BY DEF AppendOverLimit, diskVars, cutVars
<1>2. StoreTypeOK'
  BY <1>1 DEF JournalInv, TypeOK, StoreTypeOK
<1>3. DiskInv'
  BY <1>1 DEF JournalInv, DiskInv, Recoverable, OnDisk
<1>4. MemoryInv'
  BY <1>1 DEF JournalInv, MemoryInv, ActiveIntact
<1> QED BY <1>2, <1>3, <1>4 DEF CoreInv

LEMMA AppendFailsInv ==
  ASSUME JournalInv, NEW len \in FrameLens, NEW n \in 0..(len - 1), AppendFails(len, n)
  PROVE  CoreInv'
<1> DEFINE files == TargetFiles(len)
<1> DEFINE t == TargetIndex(len)
<1>0. pc = "idle" /\ ~paused
  BY DEF AppendFails
<1>1. /\ Chain(files) /\ Top(files, t) /\ t \in DOMAIN files /\ t \in Nat
      /\ files[t] \in File /\ NumberedFile(files[t])
      /\ StartsAt(files, snap) /\ Hi(files[t]) = latest
      /\ durable <= snap \/ durable <= files[t].lo + files[t].synced
      /\ latest \in Nat /\ doomed = {}
  BY <1>0, TargetFacts
<1>2. /\ segs' = [files EXCEPT ![t].torn = n]
      /\ active_index' = t /\ active_bytes' = IF MustRotate(len) THEN 0 ELSE active_bytes
      /\ paused' = (MustRotate(len) /\ RotatePauses) /\ pc' = "failed"
      /\ UNCHANGED <<snap, doomed, total_bytes, latest, earliest, base, gap, live,
                     live_boundary, durable, undone>>
  BY DEF AppendFails, TargetFiles, TargetIndex, Relinked
<1> DEFINE file == [files[t] EXCEPT !.torn = n]
<1>3. segs' = [files EXCEPT ![t] = file]
  BY <1>2
<1> HIDE DEF files, t
<1>4. n \in Nat
  BY LimitsAssumption
<1>5. /\ file \in File /\ file.lo = files[t].lo /\ file.synced = files[t].synced
      /\ file.frames = files[t].frames
  BY <1>1, <1>4 DEF File
<1>6. NumberedFile(file) /\ Hi(file) = latest
  BY <1>1, <1>5 DEF NumberedFile, Hi
<1> HIDE DEF file
<1>7. /\ Chain(segs') /\ Top(segs', t) /\ DOMAIN segs' = DOMAIN files /\ segs'[t] = file
      /\ \A seq : file.lo = files[t].lo /\ StartsAt(files, seq) => StartsAt(segs', seq)
  BY <1>1, <1>3, <1>5, <1>6, ReplaceTop, Zenon
<1>8. StoreTypeOK'
  <2>1. active_bytes' \in Nat /\ active_index' \in Nat
    BY <1>1, <1>2 DEF JournalInv, TypeOK, StoreTypeOK
  <2>2. paused' \in BOOLEAN
    BY <1>2 DEF RotatePauses, MustRotate
  <2>3. doomed' \subseteq DOMAIN segs'
    BY <1>1, <1>2
  <2>4. IsFiles(segs')
    BY <1>7 DEF Chain
  <2> QED BY <2>1, <2>2, <2>3, <2>4, <1>2 DEF JournalInv, TypeOK, StoreTypeOK
<1>9. StartsAt(segs', snap')
  BY <1>1, <1>2, <1>5, <1>7
<1>10. MemoryInv'
  <2>1. ~undone /\ ~gap
    BY <1>0 DEF JournalInv, MemoryInv
  <2>2. t \in DOMAIN segs'
    BY <1>1, <1>7
  <2> QED BY <2>1, <2>2, <1>1, <1>2, <1>6, <1>7, <1>9 DEF MemoryInv
<1>11. DiskInv'
  <2>1. durable' <= snap' \/ durable' <= segs'[t].lo + segs'[t].synced
    BY <1>1, <1>2, <1>5, <1>7
  <2>2. t \in DOMAIN segs'
    BY <1>1, <1>7
  <2> QED BY <2>1, <2>2, <1>7, <1>9 DEF DiskInv, Recoverable, OnDisk, Chain
<1> QED BY <1>8, <1>10, <1>11 DEF CoreInv

(* Once a snapshot covers the active file, it covers the watermark. *)
LEMMA SnapshotDurable ==
  ASSUME JournalInv, pc \notin {"closed", "failed"}, Covered(segs, snap) PROVE durable <= snap
<1>1. /\ active_index \in DOMAIN segs /\ segs[active_index] \in File
      /\ NumberedFile(segs[active_index])
      /\ durable <= snap \/ durable <= segs[active_index].lo + segs[active_index].synced
  BY ActiveFacts
<1>2. /\ segs[active_index].lo \in Nat /\ segs[active_index].synced \in Nat
      /\ Len(segs[active_index].frames) \in Nat
      /\ segs[active_index].synced <= Len(segs[active_index].frames)
  BY <1>1, FileFacts DEF NumberedFile
<1>3. Hi(segs[active_index]) <= snap
  BY <1>1 DEF Covered
<1>4. durable \in Nat /\ snap \in Nat
  BY DEF JournalInv, TypeOK, StoreTypeOK
<1> QED BY <1>1, <1>2, <1>3, <1>4 DEF Hi

(* A failed rotation leaves the files as they were, or with an empty file  *)
(* after the last that the Host may not have turned to.                    *)
LEMMA RotateFailsFacts ==
  ASSUME JournalInv, pc \in {"idle", "rotate"}, RotateFails, ActiveIntact, active_bytes > 0
  PROVE  /\ Chain(segs') /\ active_index' \in DOMAIN segs' /\ active_bytes' \in Nat
         /\ \/ Top(segs', active_index')
            \/ /\ Top(segs', active_index' + 1)
               /\ segs'[active_index' + 1].frames = << >>
         /\ Hi(segs'[active_index']) = latest
         /\ \A s : StartsAt(segs, s) => StartsAt(segs', s)
         /\ \A s : Covered(segs, s) => Covered(segs', s)
         /\ OnDisk(segs', snap, durable)
         /\ snap' = snap /\ undone' = undone
<1> DEFINE a == active_index
<1>1. /\ Chain(segs) /\ Top(segs, a) /\ a \in DOMAIN segs /\ a \in Nat \ {0}
      /\ segs[a] \in File /\ NumberedFile(segs[a])
      /\ durable <= snap \/ durable <= segs[a].lo + segs[a].synced
  BY ActiveFacts
<1>2. /\ Chain(Rotated) /\ Top(Rotated, a + 1)
      /\ DOMAIN Rotated = DOMAIN segs \cup {a + 1}
      /\ a + 1 \notin DOMAIN segs /\ Rotated[a + 1] = EmptyFile(latest)
      /\ \A s : StartsAt(segs, s) => StartsAt(Rotated, s)
      /\ \A s : Covered(segs, s) => Covered(Rotated, s)
  BY RotatedFacts
<1>3. latest = Hi(segs[a]) /\ latest \in Nat /\ active_bytes \in Nat /\ durable \in Nat
      /\ snap \in Nat /\ snap' = snap /\ undone' = undone
  BY DEF ActiveIntact, JournalInv, TypeOK, StoreTypeOK, RotateFails, Relinked
<1>4. /\ EmptyFile(latest).lo = latest /\ EmptyFile(latest).synced = 0
      /\ EmptyFile(latest).frames = << >> /\ Hi(EmptyFile(latest)) = latest
  BY <1>3, EmptyFileFacts
<1>5. Hi(Rotated[a]) = latest
  <2>1. Rotated[a] = SyncedFile(segs[a])
    BY <1>1, <1>2 DEF Rotated
  <2> QED BY <2>1, <1>1, <1>3, SyncedFileFacts
<1>6. OnDisk(segs, snap, durable) /\ OnDisk(Rotated, snap, durable)
  <2>1. OnDisk(segs, snap, durable)
    BY DEF JournalInv, DiskInv, Recoverable
  <2>2. segs[a].lo \in Nat /\ segs[a].synced \in Nat /\ Len(segs[a].frames) \in Nat
        /\ segs[a].synced <= Len(segs[a].frames)
    BY <1>1, FileFacts DEF NumberedFile
  <2>3. durable <= snap \/ durable <= latest + 0
    BY <2>2, <1>1, <1>3 DEF Hi
  <2>4. OnDisk(Rotated, snap, durable)
    BY <2>3, <1>2, <1>4, OnDiskTop
  <2> QED BY <2>1, <2>4
<1>7. CASE UNCHANGED <<segs, active_index, active_bytes>>
  BY <1>1, <1>3, <1>6, <1>7
<1>8. CASE segs' = Rotated /\ UNCHANGED <<active_index, active_bytes>>
  BY <1>1, <1>2, <1>3, <1>4, <1>5, <1>6, <1>8
<1>9. CASE segs' = Rotated /\ active_index' = a + 1 /\ active_bytes' = 0
  BY <1>2, <1>3, <1>4, <1>6, <1>9
<1> QED BY <1>7, <1>8, <1>9 DEF RotateFails

LEMMA AppendRotateFailsInv ==
  ASSUME JournalInv, NEW len \in FrameLens, AppendRotateFails(len) PROVE CoreInv'
<1>1. /\ pc = "idle" /\ ~paused /\ RotateFails /\ pc' = "failed" /\ active_bytes > 0
      /\ UNCHANGED <<doomed, total_bytes, latest, earliest, base, paused, gap,
                     live, live_boundary, durable>>
  BY DEF AppendRotateFails, MustRotate
<1>2. StartsAt(segs, snap) /\ ActiveIntact /\ doomed = {} /\ ~undone /\ ~gap
  BY <1>1 DEF JournalInv, MemoryInv
<1>3. /\ Chain(segs') /\ active_index' \in DOMAIN segs' /\ active_bytes' \in Nat
      /\ \/ Top(segs', active_index')
         \/ /\ Top(segs', active_index' + 1)
            /\ segs'[active_index' + 1].frames = << >>
      /\ Hi(segs'[active_index']) = latest
      /\ StartsAt(segs', snap) /\ OnDisk(segs', snap, durable)
      /\ snap' = snap /\ undone' = undone
  BY <1>1, <1>2, RotateFailsFacts
<1>4. StoreTypeOK'
  <2>1. IsFiles(segs') /\ active_index' \in Nat
    BY <1>3 DEF Chain, IsFiles
  <2> QED BY <2>1, <1>1, <1>2, <1>3 DEF JournalInv, TypeOK, StoreTypeOK
<1>5. DiskInv'
  BY <1>1, <1>3 DEF DiskInv, Recoverable, Chain
<1>6. MemoryInv'
  BY <1>1, <1>2, <1>3 DEF MemoryInv
<1> QED BY <1>4, <1>5, <1>6 DEF CoreInv

LEMMA CompactFailsInv ==
  ASSUME JournalInv, CompactFails PROVE CoreInv'
<1>1. /\ UNCHANGED <<total_bytes, latest, earliest, base, paused, gap, live, live_boundary,
                     durable>>
      /\ pc' = "failed" /\ doomed' = {} /\ pc \in {"compact", "rotate", "remove"}
  BY DEF CompactFails
<1>2. ~undone /\ (gap => paused)
  BY <1>1 DEF JournalInv, MemoryInv
<1>3. Chain(segs) /\ Top(segs, active_index) /\ active_index \in DOMAIN segs
  BY <1>1, ActiveFacts
\* whatever step fails, the invariant asks this of the disk it leaves
<1>4. ASSUME Chain(segs'), active_index' \in DOMAIN segs', active_bytes' \in Nat,
             snap' \in 0..MaxSeq, undone' = undone,
             \/ Top(segs', active_index')
             \/ /\ Top(segs', active_index' + 1)
                /\ segs'[active_index' + 1].frames = << >>,
             \/ StartsAt(segs', snap') /\ latest = Hi(segs'[active_index'])
             \/ Covered(segs', snap') /\ latest = snap',
             OnDisk(segs', snap', durable)
      PROVE  CoreInv'
  <2>1. StoreTypeOK'
    <3>1. IsFiles(segs') /\ active_index' \in Nat
      BY <1>4 DEF Chain, IsFiles
    <3> QED BY <3>1, <1>1, <1>4 DEF JournalInv, TypeOK, StoreTypeOK
  <2>2. DiskInv'
    BY <1>1, <1>4 DEF DiskInv, Recoverable, Chain
  <2>3. MemoryInv'
    BY <1>1, <1>2, <1>4 DEF MemoryInv
  <2> QED BY <2>1, <2>2, <2>3 DEF CoreInv
<1>5. /\ active_bytes \in Nat /\ snap \in 0..MaxSeq /\ latest \in 0..MaxSeq
      /\ OnDisk(segs, snap, durable)
  BY DEF JournalInv, TypeOK, StoreTypeOK, DiskInv, Recoverable
<1>6. CASE pc = "compact"
  <2>1. /\ UNCHANGED <<segs, active_index, active_bytes, undone>> /\ snap' \in {snap, latest}
    BY <1>6 DEF CompactFails, Relinked
  <2>2. StartsAt(segs, snap) /\ latest = Hi(segs[active_index])
    BY <1>6 DEF JournalInv, MemoryInv, ActiveIntact
  <2>3. CASE snap' = snap
    BY <2>1, <2>2, <2>3, <1>3, <1>4, <1>5
  <2>4. CASE snap' = latest
    <3>1. Covered(segs, latest) /\ OnDisk(segs, latest, durable)
      BY <1>6, SnapshotCovers DEF OnDisk
    <3> QED BY <3>1, <2>1, <2>4, <1>3, <1>4, <1>5
  <2> QED BY <2>1, <2>3, <2>4
<1>7. CASE pc = "rotate"
  <2>1. RotateFails
    BY <1>7 DEF CompactFails
  <2>2. /\ snap = latest /\ Covered(segs, snap) /\ ActiveIntact /\ active_bytes > 0
    BY <1>7 DEF JournalInv, MemoryInv
  <2>3. /\ Chain(segs') /\ active_index' \in DOMAIN segs' /\ active_bytes' \in Nat
        /\ \/ Top(segs', active_index')
           \/ /\ Top(segs', active_index' + 1)
              /\ segs'[active_index' + 1].frames = << >>
        /\ Covered(segs', snap) /\ OnDisk(segs', snap, durable)
        /\ snap' = snap /\ undone' = undone
    BY <2>1, <2>2, <1>7, RotateFailsFacts
  <2> QED BY <2>2, <2>3, <1>4, <1>5
<1>8. CASE pc = "remove"
  <2>1. UNCHANGED <<segs, snap, active_index, active_bytes, undone>>
    BY <1>8 DEF CompactFails, diskVars, Relinked
  <2>2. Covered(segs, snap) /\ latest = snap
    BY <1>8 DEF JournalInv, MemoryInv
  <2> QED BY <2>1, <2>2, <1>3, <1>4, <1>5
<1> QED BY <1>1, <1>6, <1>7, <1>8

LEMMA CompactRotateInv ==
  ASSUME JournalInv, CompactRotate PROVE CoreInv'
<1> DEFINE a == active_index + 1
<1>1. /\ pc = "rotate" /\ snap = latest /\ StartsAt(segs, base) /\ Covered(segs, snap)
      /\ ActiveIntact /\ active_bytes > 0
  BY DEF CompactRotate, JournalInv, MemoryInv
<1>2. /\ Chain(Rotated) /\ Top(Rotated, a) /\ DOMAIN Rotated = DOMAIN segs \cup {a}
      /\ a \notin DOMAIN segs /\ Rotated[a] = EmptyFile(latest)
      /\ StartsAt(Rotated, base) /\ Covered(Rotated, snap)
  BY <1>1, RotatedFacts
<1>3. /\ segs' = Rotated /\ active_index' = a /\ active_bytes' = 0
      /\ paused' = (paused \/ RotatePauses) /\ doomed' = Removable(Rotated, a)
      /\ pc' = "remove"
      /\ UNCHANGED <<snap, total_bytes, latest, earliest, base, gap, live, live_boundary, durable,
                     undone>>
  BY <1>1 DEF CompactRotate, Relinked
<1>4. latest \in Nat /\ base \in Nat /\ snap \in Nat /\ active_index \in Nat \ {0}
  BY <1>1, ActiveFacts DEF JournalInv, TypeOK, StoreTypeOK
<1>5. ASSUME NEW i \in DOMAIN segs PROVE i \in Removable(Rotated, a)
  <2> DEFINE n == Len(Rotated[i].frames)
  <2>1. i \in DOMAIN Rotated /\ a \in DOMAIN Rotated /\ i # a
    BY <1>2
  <2>2. i < a /\ Rotated[i] \in File
    BY <2>1, <1>2 DEF Top, Chain, IsFiles
  <2>3. Rotated[i].frames # << >> /\ Rotated[i].torn = 0
    BY <2>1, <2>2, <1>2 DEF Chain, Chained
  <2>4. Previous(Rotated, base, i) = Rotated[i].lo /\ Valid(Rotated[i], Rotated[i].lo) = n
    BY <2>1, <1>2, <1>4, ScanAligned
  <2>5. n \in Nat /\ n \in 1..n /\ Rotated[i].lo \in Nat
    BY <2>2, <2>3, FileFacts
  <2>6. ~HasIssue(Rotated, base, i)
    BY <2>3, <2>4, <2>5 DEF HasIssue, Issue
  <2>7. Rotated[i].frames[n].seq = Hi(Rotated[i])
    BY <2>1, <2>5, <1>2 DEF Chain, Numbered, NumberedFile, Hi
  <2>8. Hi(Rotated[i]) <= snap
    BY <2>1, <1>2 DEF Covered
  <2> QED BY <2>1, <2>3, <2>6, <2>7, <2>8 DEF Removable
<1>6. doomed' = DOMAIN segs' \ {a}
  BY <1>2, <1>3, <1>5 DEF Removable
<1>7. /\ segs'[a].frames = << >> /\ segs'[a].torn = 0 /\ Hi(segs'[a]) = latest
      /\ FileBytes(segs'[a]) = 0
  BY <1>2, <1>3, <1>4, EmptyFileFacts
<1>8. StoreTypeOK'
  <2>1. paused' \in BOOLEAN
    BY <1>3 DEF RotatePauses, JournalInv, TypeOK, StoreTypeOK
  <2>2. active_index' \in Nat /\ active_bytes' \in Nat
    BY <1>3, <1>4
  <2>3. doomed' \subseteq DOMAIN segs'
    BY <1>6
  <2>4. IsFiles(segs')
    BY <1>2, <1>3 DEF Chain
  <2> QED BY <2>1, <2>2, <2>3, <2>4, <1>3 DEF JournalInv, TypeOK, StoreTypeOK
<1>9. ActiveIntact'
  BY <1>3, <1>7 DEF ActiveIntact
<1>10. MemoryInv'
  <2>1. ~undone /\ (gap => paused)
    BY <1>1 DEF JournalInv, MemoryInv
  <2> QED BY <2>1, <1>1, <1>2, <1>3, <1>6, <1>7, <1>9 DEF MemoryInv
<1>11. durable <= snap
  BY <1>1, SnapshotDurable
<1>12. DiskInv'
  BY <1>2, <1>3, <1>11 DEF DiskInv, Recoverable, OnDisk, Chain
<1> QED BY <1>8, <1>10, <1>12 DEF CoreInv

(* compact removes the files in order. *)
LEMMA DoomedFirst ==
  ASSUME JournalInv, pc = "remove", doomed # {}
  PROVE  /\ Bottom(segs, Min(doomed)) /\ Min(doomed) # active_index
         /\ Min(doomed) \in DOMAIN segs
<1> DEFINE t == active_index
<1>1. doomed = DOMAIN segs \ {t}
  BY DEF JournalInv, MemoryInv
<1>2. Chain(segs) /\ Top(segs, t) /\ t \in DOMAIN segs
  BY ActiveFacts
<1>3. DOMAIN segs \subseteq Int
  BY <1>2 DEF Chain, IsFiles
<1>4. PICK b \in DOMAIN segs : Bottom(segs, b)
  BY <1>2 DEF Chain, Chained
<1>5. b # t
  <2>1. PICK j \in DOMAIN segs : j # t
    BY <1>1
  <2> QED BY <2>1, <1>2, <1>3, <1>4 DEF Bottom, Top
<1>6. Min(doomed) = b
  <2>1. doomed \in SUBSET Int /\ b \in doomed /\ \A y \in doomed : b <= y
    BY <1>1, <1>3, <1>4, <1>5 DEF Bottom
  <2> QED BY <2>1, MinIs
<1> QED BY <1>4, <1>5, <1>6

LEMMA CompactRemoveInv ==
  ASSUME JournalInv, CompactRemove PROVE CoreInv'
<1> DEFINE t == active_index
<1> DEFINE i == Min(doomed)
<1>1. /\ pc = "remove" /\ doomed # {} /\ snap = latest /\ Covered(segs, snap)
      /\ ActiveIntact /\ segs[t].frames = << >> /\ doomed = DOMAIN segs \ {t}
  BY DEF CompactRemove, JournalInv, MemoryInv
<1>2. Chain(segs) /\ Top(segs, t) /\ t \in DOMAIN segs
  BY <1>1, ActiveFacts
<1>3. DOMAIN segs \subseteq Int
  BY <1>2 DEF Chain, IsFiles
<1>4. Bottom(segs, i) /\ i # t /\ i \in DOMAIN segs
  BY <1>1, DoomedFirst
<1>5. /\ segs' = Restrict(segs, DOMAIN segs \ {i})
      /\ total_bytes' = SaturatingSub(total_bytes, FileBytes(segs[i]))
      /\ doomed' = doomed \ {i}
      /\ UNCHANGED <<snap, pc, active_index, active_bytes, latest, earliest, base, paused, gap,
                     live, live_boundary, durable, undone>>
  BY DEF CompactRemove, Relinked
<1> HIDE DEF i, t
<1>6. /\ Chain(segs') /\ Top(segs', t) /\ DOMAIN segs' = DOMAIN segs \ {i}
      /\ segs'[t] = segs[t]
      /\ \A seq : Covered(segs, seq) => Covered(segs', seq)
  BY <1>2, <1>4, <1>5, RemoveBottom
<1> USE DEF t
<1>7. StoreTypeOK'
  <2>1. total_bytes' \in Nat
    <3>1. FileBytes(segs[i]) \in Nat
      BY <1>2, <1>4, FileFacts DEF Chain, IsFiles
    <3>2. total_bytes \in Nat
      BY DEF JournalInv, TypeOK, StoreTypeOK
    <3> QED BY <3>1, <3>2, <1>5 DEF SaturatingSub
  <2>2. doomed' \subseteq DOMAIN segs'
    BY <1>1, <1>5, <1>6
  <2>3. IsFiles(segs')
    BY <1>6 DEF Chain
  <2> QED BY <2>1, <2>2, <2>3, <1>5 DEF JournalInv, TypeOK, StoreTypeOK
<1>8. ActiveIntact'
  BY <1>1, <1>5, <1>6 DEF ActiveIntact
<1>9. doomed' = DOMAIN segs' \ {t}
  BY <1>1, <1>5, <1>6
<1>10. MemoryInv'
  <2>1. ~undone /\ (gap => paused)
    BY <1>1 DEF JournalInv, MemoryInv
  <2> QED BY <2>1, <1>1, <1>5, <1>6, <1>8, <1>9 DEF MemoryInv
<1>11. durable <= snap
  BY <1>1, SnapshotDurable
<1>12. DiskInv'
  BY <1>1, <1>5, <1>6, <1>11 DEF DiskInv, Recoverable, OnDisk, Chain
<1> QED BY <1>7, <1>10, <1>12 DEF CoreInv

LEMMA CompactFinishInv ==
  ASSUME JournalInv, CompactFinish PROVE CoreInv'
<1> DEFINE t == active_index
<1>1. /\ pc = "remove" /\ doomed = {} /\ snap = latest /\ Covered(segs, snap)
      /\ ActiveIntact /\ segs[t].frames = << >> /\ doomed = DOMAIN segs \ {t}
  BY DEF CompactFinish, JournalInv, MemoryInv
<1>2. Chain(segs) /\ Top(segs, t) /\ t \in DOMAIN segs /\ segs[t] \in File /\ t \in Nat
  BY <1>1, ActiveFacts
<1>3. /\ base' = snap /\ earliest' = snap /\ live' = << >> /\ live_boundary' = snap
      /\ paused' = (paused /\ (gap \/ total_bytes >= HardBytes)) /\ pc' = "idle"
      /\ UNCHANGED <<segs, snap, doomed, active_index, active_bytes, total_bytes, latest, gap,
                     durable, undone>>
  BY DEF CompactFinish, diskVars, cutVars
<1>4. StartsAt(segs, snap)
  <2>1. DOMAIN segs = {t}
    BY <1>1, <1>2
  <2>2. segs[t].lo = snap
    <3>1. segs[t].lo \in Nat /\ Len(segs[t].frames) = 0
      BY <1>1, <1>2, FileFacts
    <3> QED BY <3>1, <1>1 DEF ActiveIntact, Hi
  <2> QED BY <2>1, <2>2, <1>2 DEF StartsAt, Bottom
<1>5. StoreTypeOK'
  <2>1. live' \in Seq(Frame)
    BY <1>3
  <2>2. paused' \in BOOLEAN
    BY <1>3 DEF JournalInv, TypeOK, StoreTypeOK
  <2> QED BY <2>1, <2>2, <1>3 DEF JournalInv, TypeOK, StoreTypeOK
<1>6. ActiveIntact'
  BY <1>1, <1>3 DEF ActiveIntact
<1>7. MemoryInv'
  <2>1. ~undone /\ (gap => paused)
    BY <1>1 DEF JournalInv, MemoryInv
  <2> QED BY <2>1, <1>1, <1>2, <1>3, <1>4, <1>6 DEF MemoryInv
<1>8. DiskInv'
  BY <1>3, <1>4 DEF JournalInv, DiskInv, Recoverable, OnDisk
<1> QED BY <1>5, <1>7, <1>8 DEF CoreInv

-------------------------------------------------------------------------------
(* The directories a power cut may leave.                                  *)
LEMMA ImageFacts ==
  ASSUME JournalInv, NEW d \in images
  PROVE  /\ d = [entries |-> d.entries, snap |-> d.snap]
         /\ d.entries \subseteq DOMAIN Every /\ d.snap \in 0..MaxSeq /\ d.snap \in Nat
         /\ IsFiles(Every) /\ IsFiles(Image(d)) /\ DOMAIN Image(d) = d.entries
         /\ Recoverable(Image(d), d.snap, anchored) /\ Chain(Image(d))
         /\ anchored \in Nat /\ durable \in Nat
<1>1. /\ d \in [entries : SUBSET DOMAIN Every, snap : 0..MaxSeq]
      /\ IsFiles(gone) /\ IsFiles(segs) /\ anchored \in Nat /\ durable \in Nat
  BY DEF JournalInv, TypeOK, CutTypeOK, StoreTypeOK
<1>2. /\ d = [entries |-> d.entries, snap |-> d.snap]
      /\ d.entries \subseteq DOMAIN Every /\ d.snap \in 0..MaxSeq
  BY <1>1
<1>3. d.snap \in Nat
  BY <1>2, LimitsAssumption
<1>4. IsFiles(Every)
  BY <1>1 DEF IsFiles, Every
<1>5. IsFiles(Image(d)) /\ DOMAIN Image(d) = d.entries
  BY <1>2, <1>4 DEF IsFiles, Image
<1>6. Recoverable(Image(d), d.snap, anchored)
  BY DEF JournalInv, CutInv
<1> QED BY <1>1, <1>2, <1>3, <1>4, <1>5, <1>6 DEF Chain, Recoverable

LEMMA ImageDirectory ==
  ASSUME JournalInv PROVE Image(Directory) = segs /\ Directory \in images /\ Directory.snap = snap
<1>1. segs = [i \in DOMAIN segs |-> segs[i]]
  BY DEF JournalInv, TypeOK, StoreTypeOK, IsFiles
<1>2. Image(Directory) = [i \in DOMAIN segs |-> segs[i]]
  BY DEF Image, Directory, Every
<1> QED BY <1>1, <1>2 DEF JournalInv, CutInv, Directory

(* A directory that is all a power cut can leave. *)
LEMMA CutAlone ==
  ASSUME CoreInv', images' = {Directory'}, gone' = << >>,
         anchored' \in 0..MaxSeq, undone' \in BOOLEAN, anchored' <= durable'
  PROVE  CutTypeOK' /\ CutInv'
<1>1. /\ IsFiles(segs') /\ snap' \in 0..MaxSeq /\ durable' \in 0..MaxSeq
      /\ Recoverable(segs', snap', durable')
  BY DEF CoreInv, StoreTypeOK, DiskInv
<1>2. DOMAIN gone' = {} /\ IsFiles(gone')
  BY DEF IsFiles
<1>3. DOMAIN Every' = DOMAIN segs'
  BY <1>2 DEF Every
<1>4. Directory' = [entries |-> DOMAIN segs', snap |-> snap']
  BY DEF Directory
<1>5. Directory' \in [entries : SUBSET DOMAIN Every', snap : 0..MaxSeq]
  BY <1>1, <1>3, <1>4
<1>6. CutTypeOK'
  BY <1>2, <1>5 DEF CutTypeOK
<1>7. Image(Directory)' = segs'
  <2>1. segs' = [i \in DOMAIN segs' |-> segs'[i]]
    BY <1>1 DEF IsFiles
  <2>2. Image(Directory)' = [i \in DOMAIN segs' |-> Every'[i]]
    BY <1>4 DEF Image
  <2>3. \A i \in DOMAIN segs' : Every'[i] = segs'[i]
    BY DEF Every
  <2> QED BY <2>1, <2>2, <2>3
<1>8. Recoverable(segs', snap', anchored')
  BY <1>1, RecoverableLess, LimitsAssumption
<1>9. ASSUME NEW d \in images'
      PROVE  Recoverable(Image(d)', d.snap, anchored') /\ d = Directory' /\ d.snap <= snap'
  <2>1. d = Directory' /\ d.entries = DOMAIN segs' /\ d.snap = snap'
    BY <1>4
  <2>2. Image(d)' = segs'
    BY <2>1, <1>7, <1>4 DEF Image
  <2>3. snap' <= snap'
    BY <1>1
  <2> QED BY <2>1, <2>2, <2>3, <1>8
<1> QED BY <1>2, <1>6, <1>9 DEF CutInv

(* A step of the Host writes to the active file, the last one, and may     *)
(* create the next.                                                        *)
TopWritten ==
  /\ gone' = gone
  /\ \/ segs' = segs
     \/ /\ Top(segs, active_index)
        /\ DOMAIN segs' \in {DOMAIN segs, DOMAIN segs \cup {active_index + 1}}
        /\ \A i \in DOMAIN segs : i # active_index => segs'[i] = segs[i]
        /\ Succeeds(segs'[active_index], segs[active_index])
        /\ \/ Hi(segs'[active_index]) <= Hi(segs[active_index])
           \/ pc \in {"idle", "compact", "remove"} /\ ~gap /\ StartsAt(segs, snap)

(* Every directory that a cut could leave before the step is as good after *)
(* it: the file that is written to is the last of those that name it.      *)
LEMMA ImagesKept ==
  ASSUME JournalInv, pc # "closed", TopWritten, IsFiles(segs'), NEW d \in images
  PROVE  /\ DOMAIN Every \subseteq DOMAIN Every'
         /\ Recoverable(Image(d)', d.snap, anchored)
         /\ Stale(Image(d), d.snap) => Stale(Image(d)', d.snap)
<1> DEFINE a == active_index
<1>1. /\ d = [entries |-> d.entries, snap |-> d.snap]
      /\ d.entries \subseteq DOMAIN Every /\ d.snap \in Nat
      /\ IsFiles(Every) /\ IsFiles(Image(d)) /\ DOMAIN Image(d) = d.entries
      /\ Recoverable(Image(d), d.snap, anchored) /\ Chain(Image(d))
      /\ anchored \in Nat
  BY ImageFacts
<1>2. /\ IsFiles(segs) /\ IsFiles(gone) /\ DOMAIN Every = DOMAIN segs \cup DOMAIN gone
      /\ \A g \in DOMAIN gone : \A i \in DOMAIN segs : g < i
  BY DEF JournalInv, TypeOK, StoreTypeOK, CutTypeOK, CutInv, Every
<1>3. CASE segs' = segs
  <2>1. Every' = Every
    BY <1>3 DEF TopWritten, Every
  <2>2. Image(d)' = Image(d)
    BY <2>1 DEF Image
  <2> QED BY <2>1, <2>2, <1>1
<1>4. CASE segs' # segs
  <2>1. /\ Top(segs, a) /\ gone' = gone
        /\ DOMAIN segs' \in {DOMAIN segs, DOMAIN segs \cup {a + 1}}
        /\ \A i \in DOMAIN segs : i # a => segs'[i] = segs[i]
        /\ Succeeds(segs'[a], segs[a])
        /\ \/ Hi(segs'[a]) <= Hi(segs[a])
           \/ pc \in {"idle", "compact", "remove"} /\ ~gap /\ StartsAt(segs, snap)
    BY <1>4 DEF TopWritten
  <2>2. a \in DOMAIN segs /\ a \in Nat
    BY <2>1, <1>2 DEF Top, IsFiles
  <2>3. DOMAIN Every' = DOMAIN segs' \cup DOMAIN gone /\ DOMAIN Every \subseteq DOMAIN Every'
    BY <2>1, <1>2 DEF Every
  <2>4. ASSUME NEW i \in d.entries PROVE i \in Nat /\ i <= a
    <3>1. i \in DOMAIN segs \/ i \in DOMAIN gone
      BY <1>1, <1>2
    <3> QED BY <3>1, <2>1, <2>2, <1>2 DEF Top, IsFiles
  <2>5. ASSUME NEW i \in d.entries, i # a PROVE Every'[i] = Every[i]
    <3>1. CASE i \in DOMAIN segs
      BY <3>1, <2>1, <2>5 DEF Every
    <3>2. CASE i \notin DOMAIN segs
      <4>1. i \in DOMAIN gone /\ i < a
        BY <3>2, <1>1, <1>2, <2>2
      <4>2. i # a + 1
        BY <2>2, <4>1, <1>2 DEF IsFiles
      <4>3. i \notin DOMAIN segs'
        BY <3>2, <4>2, <2>1
      <4> QED BY <3>2, <4>1, <4>3, <2>1 DEF Every
    <3> QED BY <3>1, <3>2
  <2>6. CASE a \notin d.entries
    <3>1. Image(d)' = Image(d)
      BY <2>5, <2>6 DEF Image
    <3> QED BY <3>1, <2>3, <1>1
  <2>7. CASE a \in d.entries
    <3>1. Top(Image(d), a) /\ Image(d)[a] = segs[a]
      BY <2>2, <2>4, <2>7, <1>1 DEF Top, Image, Every
    <3>2. Every'[a] = segs'[a]
      BY <2>1, <2>2 DEF Every
    <3>3. Image(d)' = [Image(d) EXCEPT ![a] = segs'[a]]
      <4>1. \A i \in d.entries : Image(d)'[i] = [Image(d) EXCEPT ![a] = segs'[a]][i]
        BY <3>2, <2>5, <2>7, <1>1 DEF Image
      <4>2. Image(d)' = [i \in d.entries |-> Image(d)'[i]]
        BY DEF Image
      <4>3. [Image(d) EXCEPT ![a] = segs'[a]] =
              [i \in d.entries |-> [Image(d) EXCEPT ![a] = segs'[a]][i]]
        BY <1>1
      <4> QED BY <4>1, <4>2, <4>3
    <3>4. \/ Hi(segs'[a]) <= Hi(Image(d)[a])
          \/ StartsAt(Image(d), d.snap)
          \/ Stale(Image(d), d.snap)
      <4>1. CASE Hi(segs'[a]) <= Hi(segs[a])
        BY <4>1, <3>1
      <4>2. CASE pc \in {"idle", "compact", "remove"} /\ ~gap /\ StartsAt(segs, snap)
        <5>1. d = Directory \/ Stale(Image(d), d.snap)
          BY <4>2, <2>7 DEF JournalInv, CutInv
        <5>2. CASE d = Directory
          BY <5>2, <4>2, ImageDirectory
        <5> QED BY <5>1, <5>2
      <4> QED BY <4>1, <4>2, <2>1
    <3>5. Succeeds(segs'[a], Image(d)[a])
      BY <3>1, <2>1
    <3>6. Recoverable(Image(d)', d.snap, anchored)
      BY <3>1, <3>3, <3>4, <3>5, <1>1, RecoverableTop
    <3>7. Stale(Image(d), d.snap) => Stale(Image(d)', d.snap)
      BY <3>1, <3>3, <1>1, ReplaceTopStale
    <3> QED BY <3>6, <3>7, <2>3
  <2> QED BY <2>6, <2>7
<1> QED BY <1>3, <1>4

LEMMA CutRelinked ==
  ASSUME JournalInv, CoreInv', pc # "closed", TopWritten,
         images' \subseteq images \cup {Directory'}, Directory' \in images',
         UNCHANGED <<anchored, undone>>, durable <= durable', snap <= snap',
         \/ pc' = "failed"
         \/ active_index' = active_index + 1 /\ Top(segs, active_index)
         \/ /\ pc \in {"idle", "compact", "remove"} /\ UNCHANGED <<active_index, gap, snap>>
            /\ DOMAIN segs' = DOMAIN segs
  PROVE  CutTypeOK' /\ CutInv'
<1> DEFINE a == active_index
<1>1. /\ IsFiles(segs') /\ snap' \in 0..MaxSeq /\ durable' \in Nat
      /\ Recoverable(segs', snap', durable')
  BY LimitsAssumption DEF CoreInv, StoreTypeOK, DiskInv
<1>2. /\ IsFiles(segs) /\ IsFiles(gone) /\ DOMAIN Every = DOMAIN segs \cup DOMAIN gone
      /\ \A g \in DOMAIN gone : \A i \in DOMAIN segs : g < i
      /\ anchored \in Nat /\ durable \in Nat /\ anchored <= durable
      /\ anchored \in 0..MaxSeq /\ undone \in BOOLEAN
      /\ images \subseteq [entries : SUBSET DOMAIN Every, snap : 0..MaxSeq]
  BY LimitsAssumption DEF JournalInv, TypeOK, StoreTypeOK, CutTypeOK, CutInv, Every
<1>3. gone' = gone /\ DOMAIN segs' \subseteq DOMAIN Every'
  BY DEF TopWritten, Every
<1>4. Directory' = [entries |-> DOMAIN segs', snap |-> snap']
  BY DEF Directory
<1>5. ASSUME NEW d \in images'
      PROVE  d \in [entries : SUBSET DOMAIN Every', snap : 0..MaxSeq]
  <2>1. CASE d = Directory'
    BY <2>1, <1>1, <1>3, <1>4
  <2>2. CASE d \in images
    BY <2>2, <1>1, <1>2, ImagesKept
  <2> QED BY <2>1, <2>2
<1>6. CutTypeOK'
  BY <1>2, <1>3, <1>5 DEF CutTypeOK
<1>7. ASSUME NEW g \in DOMAIN gone', NEW i \in DOMAIN segs' PROVE g < i
  <2>1. CASE i \in DOMAIN segs
    BY <2>1, <1>2, <1>3
  <2>2. CASE i \notin DOMAIN segs
    <3>1. Top(segs, a) /\ i = a + 1
      BY <2>2 DEF TopWritten
    <3>2. a \in DOMAIN segs /\ a \in Nat /\ g \in Nat
      BY <3>1, <1>2, <1>3 DEF Top, IsFiles
    <3> QED BY <3>1, <3>2, <1>2, <1>3
  <2> QED BY <2>1, <2>2
<1>8. Image(Directory)' = segs'
  <2>1. segs' = [i \in DOMAIN segs' |-> segs'[i]]
    BY <1>1 DEF IsFiles
  <2>2. Image(Directory)' = [i \in DOMAIN segs' |-> Every'[i]]
    BY <1>4 DEF Image
  <2>3. \A i \in DOMAIN segs' : Every'[i] = segs'[i]
    BY DEF Every
  <2> QED BY <2>1, <2>2, <2>3
<1>9. Recoverable(segs', snap', anchored)
  BY <1>1, <1>2, RecoverableLess, LimitsAssumption
<1>10. ASSUME NEW d \in images' PROVE Recoverable(Image(d)', d.snap, anchored')
  <2>1. CASE d = Directory'
    <3>1. d.snap = snap' /\ Image(d)' = segs'
      BY <2>1, <1>4, <1>8 DEF Image
    <3> QED BY <3>1, <1>9
  <2>2. CASE d \in images
    BY <2>2, <1>1, ImagesKept
  <2> QED BY <2>1, <2>2
<1>11. ASSUME NEW d \in images', pc' \in {"idle", "compact", "remove"}, ~gap',
              active_index' \in d.entries, d # Directory'
       PROVE  Stale(Image(d)', d.snap)
  <2>1. d \in images
    BY <1>11
  <2>2. CASE active_index' = a + 1 /\ Top(segs, a)
    <3>1. a \in DOMAIN segs /\ a \in Nat /\ \A i \in DOMAIN segs : i \in Nat /\ i <= a
      BY <2>2, <1>2 DEF Top, IsFiles
    <3>2. a + 1 \notin DOMAIN segs /\ a + 1 \notin DOMAIN gone
      <4>1. a + 1 \notin DOMAIN segs
        BY <3>1
      <4>2. ASSUME a + 1 \in DOMAIN gone PROVE FALSE
        <5>1. a + 1 < a
          BY <4>2, <3>1, <1>2
        <5> QED BY <5>1, <3>1
      <4> QED BY <4>1, <4>2
    <3>3. d.entries \subseteq DOMAIN Every
      BY <2>1, <1>2
    <3> QED BY <3>2, <3>3, <2>2, <1>2, <1>11
  <2>3. CASE /\ pc \in {"idle", "compact", "remove"} /\ UNCHANGED <<active_index, gap, snap>>
             /\ DOMAIN segs' = DOMAIN segs
    <3>1. Directory' = Directory
      BY <2>3 DEF Directory
    <3>2. Stale(Image(d), d.snap)
      BY <3>1, <2>1, <2>3, <1>11 DEF JournalInv, CutInv
    <3> QED BY <3>2, <2>1, <1>1, ImagesKept
  <2> QED BY <2>2, <2>3, <1>11
<1>12. anchored' <= durable'
  BY <1>1, <1>2
<1>13. ASSUME NEW d \in images' PROVE d.snap <= snap'
  <2>1. CASE d = Directory'
    BY <2>1, <1>1, <1>4
  <2>2. CASE d \in images
    <3>1. d.snap <= snap /\ d.snap \in Int /\ snap \in Int
      BY <2>2, ImageFacts DEF JournalInv, CutInv, TypeOK, StoreTypeOK
    <3> QED BY <3>1, <1>1
  <2> QED BY <2>1, <2>2
<1>14. ASSUME NEW g \in DOMAIN gone'
       PROVE  /\ NumberedFile(gone'[g])
              /\ \A i \in DOMAIN Every' : g < i => Hi(gone'[g]) <= Every'[i].lo
  <2>1. /\ NumberedFile(gone[g]) /\ gone[g] \in File /\ g \in Nat
        /\ \A i \in DOMAIN Every : g < i => Hi(gone[g]) <= Every[i].lo
    BY <1>2, <1>3 DEF JournalInv, CutInv, IsFiles
  <2>2. ASSUME NEW i \in DOMAIN Every', g < i PROVE Hi(gone[g]) <= Every'[i].lo
    <3>1. DOMAIN segs \subseteq DOMAIN segs'
      BY DEF TopWritten
    <3>2. CASE i \in DOMAIN segs
      <4>1. segs'[i].lo = segs[i].lo
        BY <3>2 DEF TopWritten, Succeeds
      <4> QED BY <4>1, <3>1, <3>2, <2>1, <2>2 DEF Every
    <3>3. CASE i \notin DOMAIN segs /\ i \in DOMAIN segs'
      <4>1. Top(segs, a) /\ i = a + 1 /\ a \in DOMAIN segs /\ segs'[a].lo = segs[a].lo
        BY <3>3 DEF TopWritten, Top, Succeeds
      <4>2. a \in Nat /\ a \in DOMAIN segs' /\ g < a
        BY <4>1, <3>1, <1>2, <1>3 DEF IsFiles
      <4>3. Hi(segs'[a]) <= segs'[i].lo
        BY <4>1, <4>2, <3>3, <1>1 DEF Recoverable, Chained
      <4>4. Hi(gone[g]) <= segs[a].lo
        BY <4>1, <4>2, <2>1, <1>2 DEF Every
      <4>5. /\ segs'[a].lo \in Nat /\ Len(segs'[a].frames) \in Nat /\ segs'[i].lo \in Nat
            /\ gone[g].lo \in Nat /\ Len(gone[g].frames) \in Nat
        BY <4>2, <3>3, <2>1, <1>1, FileFacts DEF IsFiles
      <4>6. Hi(gone[g]) \in Nat /\ Hi(segs'[a]) \in Nat /\ segs'[a].lo <= Hi(segs'[a])
        BY <4>5 DEF Hi
      <4>7. Hi(gone[g]) <= segs'[i].lo
        BY <4>1, <4>3, <4>4, <4>5, <4>6
      <4> QED BY <4>7, <3>3 DEF Every
    <3>4. CASE i \notin DOMAIN segs'
      <4>1. i \in DOMAIN gone /\ i \notin DOMAIN segs
        BY <3>1, <3>4, <1>3 DEF Every
      <4> QED BY <4>1, <3>4, <2>1, <2>2, <1>2, <1>3 DEF Every
    <3> QED BY <3>2, <3>3, <3>4
  <2> QED BY <2>1, <2>2, <1>3
<1>15. ASSUME NEW g \in DOMAIN gone'
       PROVE  /\ NumberedFile(gone'[g]) /\ \A i \in DOMAIN segs' : g < i
              /\ \A i \in DOMAIN Every' : g < i => Hi(gone'[g]) <= Every'[i].lo
  BY <1>7, <1>14
<1>16. ASSUME NEW d \in images'
       PROVE  /\ d.snap <= snap'
              /\ Recoverable(Image(d)', d.snap, anchored')
              /\ pc' \in {"idle", "compact", "remove"} /\ ~gap' /\ active_index' \in d.entries =>
                   d = Directory' \/ Stale(Image(d)', d.snap)
  BY <1>10, <1>11, <1>13
<1> QED BY <1>6, <1>12, <1>15, <1>16 DEF CutInv

(* What a power failure leaves of a file: the last may be cut, the others   *)
(* are on stable storage.                                                  *)
CutFile(file, n, r) == [file EXCEPT !.frames = SubSeq(@, 1, n), !.torn = r]

LEMMA PowerLossFile ==
  ASSUME JournalInv, NEW d \in images, NEW files, files = Image(d),
         NEW i \in DOMAIN files, NEW n \in 0..Len(files[i].frames),
         NEW r \in 0..SegmentBytes, PowerLoss(d, i, n, r)
  PROVE  /\ segs' = [files EXCEPT ![i] = CutFile(files[i], n, r)]
         /\ CutFile(files[i], n, r) \in File /\ NumberedFile(CutFile(files[i], n, r))
         /\ CutFile(files[i], n, r).lo = files[i].lo
         /\ CutFile(files[i], n, r).synced = files[i].synced
         /\ Len(CutFile(files[i], n, r).frames) = n
         /\ \A k \in 1..n : CutFile(files[i], n, r).frames[k] = files[i].frames[k]
         /\ Hi(CutFile(files[i], n, r)) \in Nat /\ Hi(files[i]) \in Nat
         /\ Hi(CutFile(files[i], n, r)) <= Hi(files[i])
         /\ FileBytes(CutFile(files[i], n, r)) <= FileBytes(files[i])
         /\ files[i].synced <= n /\ n \in Nat
         /\ ~Top(files, i) => segs' = files
<1> DEFINE file == CutFile(files[i], n, r)
<1>1. Chain(files)
  BY ImageFacts
<1>2. /\ segs' = [files EXCEPT ![i].frames = SubSeq(@, 1, n), ![i].torn = r]
      /\ files[i].synced <= n /\ r <= FileBytes(files[i]) - EndOf(SubSeq(files[i].frames, 1, n))
  BY DEF PowerLoss
<1>3. /\ files[i] \in File /\ files[i].frames \in Seq(Frame) /\ Len(files[i].frames) \in Nat
      /\ files[i].lo \in Nat /\ files[i].synced \in Nat /\ files[i].torn \in Nat
      /\ EndOf(files[i].frames) \in Nat /\ NumberedFile(files[i]) /\ FileBytes(files[i]) \in Nat
  BY <1>1, FileFacts DEF Chain, IsFiles, Numbered
<1>4. n \in Nat /\ n <= Len(files[i].frames) /\ r \in Nat
  BY <1>3, LimitsAssumption
<1>5. segs' = [files EXCEPT ![i] = file]
  BY <1>2 DEF CutFile
<1>6. /\ file.frames = SubSeq(files[i].frames, 1, n) /\ file.torn = r
      /\ file.lo = files[i].lo /\ file.synced = files[i].synced
  BY <1>3 DEF File, CutFile
<1> HIDE DEF file
<1>7. /\ file.frames \in Seq(Frame) /\ Len(file.frames) = n
      /\ \A k \in 1..n : file.frames[k] = files[i].frames[k]
  <2>1. /\ SubSeq(files[i].frames, 1, n) \in Seq(Frame)
        /\ Len(SubSeq(files[i].frames, 1, n)) = n
        /\ \A k \in 1..n : SubSeq(files[i].frames, 1, n)[k] = files[i].frames[k]
    BY <1>3, <1>4
  <2> QED BY <2>1, <1>6
<1>8. file \in File
  BY <1>3, <1>4, <1>6, <1>7 DEF File, file, CutFile
<1>9. NumberedFile(file)
  <2>1. 1..n \subseteq 1..Len(files[i].frames)
    BY <1>3, <1>4
  <2>2. \A k \in 1..n : file.frames[k].seq = file.lo + k
    BY <2>1, <1>3, <1>6, <1>7 DEF NumberedFile
  <2>3. ASSUME NEW k \in 1..n, NEW m \in 1..n, k < m
        PROVE  file.frames[k].end < file.frames[m].end
    <3>1. files[i].frames[k].end < files[i].frames[m].end
      BY <2>1, <2>3, <1>3 DEF NumberedFile
    <3> QED BY <3>1, <1>7
  <2> QED BY <2>2, <2>3, <1>2, <1>6, <1>7 DEF NumberedFile
<1>10. Hi(file) \in Nat /\ Hi(files[i]) \in Nat /\ Hi(file) <= Hi(files[i])
  BY <1>3, <1>4, <1>6, <1>7 DEF Hi
<1>11. FileBytes(file) <= FileBytes(files[i])
  <2>1. EndOf(file.frames) \in Nat /\ FileBytes(file) = EndOf(file.frames) + r
    BY <1>6, <1>8, FileFacts DEF FileBytes
  <2>2. r <= FileBytes(files[i]) - EndOf(file.frames)
    BY <1>2, <1>6
  <2> QED BY <2>1, <2>2, <1>3, <1>4
<1>12. ASSUME ~Top(files, i) PROVE segs' = files
  <2>1. PICK t \in DOMAIN files : Top(files, t)
    BY <1>1 DEF Chain, Chained
  <2>2. i < t
    BY <2>1, <1>1, <1>12 DEF Top, Chain, IsFiles
  <2>3. files[i].synced = Len(files[i].frames) /\ files[i].torn = 0
    BY <2>1, <2>2, <1>1 DEF Chain, Chained
  <2>4. n = Len(files[i].frames)
    BY <2>3, <1>2, <1>3, <1>4
  <2>5. file.frames = files[i].frames
    BY <2>4, <1>3, <1>6
  <2>6. file.torn = files[i].torn
    <3>1. FileBytes(files[i]) = EndOf(files[i].frames)
      BY <2>3, <1>3 DEF FileBytes
    <3>2. r <= EndOf(files[i].frames) - EndOf(files[i].frames)
      BY <3>1, <2>5, <1>2, <1>6
    <3> QED BY <3>2, <2>3, <1>3, <1>4, <1>6
  <2>7. file = files[i]
    <3>1. files[i] = [frames |-> files[i].frames, torn |-> files[i].torn,
                     synced |-> files[i].synced, lo |-> files[i].lo]
      BY <1>3 DEF File
    <3>2. file = [frames |-> file.frames, torn |-> file.torn,
                  synced |-> file.synced, lo |-> file.lo]
      BY <1>8 DEF File
    <3> QED BY <3>1, <3>2, <2>5, <2>6, <1>6
  <2>8. files = [j \in DOMAIN files |-> files[j]]
    BY <1>1 DEF Chain, IsFiles
  <2> QED BY <2>7, <2>8, <1>5
<1> QED BY <1>2, <1>4, <1>5, <1>6, <1>7, <1>8, <1>9, <1>10, <1>11, <1>12 DEF file

LEMMA PowerLossInv ==
  ASSUME JournalInv, NEW d \in images, NEW i \in d.entries, NEW n \in 0..Len(Image(d)[i].frames),
         NEW r \in 0..SegmentBytes, PowerLoss(d, i, n, r)
  PROVE  JournalInv'
<1> DEFINE files == Image(d)
<1> DEFINE file == CutFile(files[i], n, r)
<1> DEFINE mark == IF d = Directory THEN durable ELSE anchored
<1>1. /\ d = [entries |-> d.entries, snap |-> d.snap] /\ d.snap \in 0..MaxSeq /\ d.snap \in Nat
      /\ IsFiles(files) /\ DOMAIN files = d.entries /\ Chain(files)
      /\ Recoverable(files, d.snap, anchored) /\ anchored \in Nat /\ durable \in Nat
  BY ImageFacts
<1>2. /\ Forget /\ snap' = d.snap /\ durable' = mark /\ undone' = (undone \/ d # Directory)
      /\ images' = {d} /\ gone' = << >> /\ anchored' = anchored
  BY DEF PowerLoss
<1>3. /\ segs' = [files EXCEPT ![i] = file] /\ file \in File /\ NumberedFile(file)
      /\ file.lo = files[i].lo /\ file.synced = files[i].synced
      /\ Hi(file) \in Nat /\ Hi(files[i]) \in Nat /\ Hi(file) <= Hi(files[i])
      /\ ~Top(files, i) => segs' = files
  BY <1>1, PowerLossFile
<1>4. mark \in Nat /\ mark \in 0..MaxSeq /\ anchored \in 0..MaxSeq /\ anchored <= mark
  BY <1>1 DEF JournalInv, TypeOK, StoreTypeOK, CutTypeOK, CutInv
<1>5. Recoverable(files, d.snap, mark)
  <2>1. CASE d = Directory
    BY <2>1, ImageDirectory DEF JournalInv, DiskInv
  <2>2. CASE d # Directory
    BY <2>2, <1>1
  <2> QED BY <2>1, <2>2
<1>6. d # Directory \/ undone \/ StartsAt(files, d.snap) \/ Covered(files, d.snap)
  BY ImageDirectory DEF JournalInv, DiskInv
<1> HIDE DEF file, files, mark
<1>7. /\ IsFiles(segs') /\ DOMAIN segs' = DOMAIN files
      /\ Recoverable(segs', d.snap, mark)
      /\ StartsAt(files, d.snap) => StartsAt(segs', d.snap)
      /\ Covered(files, d.snap) => Covered(segs', d.snap)
  <2>1. CASE Top(files, i)
    <3>1. /\ Chain(segs') /\ Top(segs', i) /\ DOMAIN segs' = DOMAIN files /\ segs'[i] = file
          /\ \A seq : file.lo = files[i].lo /\ StartsAt(files, seq) => StartsAt(segs', seq)
          /\ \A seq : Covered(files, seq) /\ Hi(file) <= seq => Covered(segs', seq)
      BY <2>1, <1>1, <1>3, ReplaceTop
    <3>2. Covered(files, d.snap) => Hi(file) <= d.snap
      <4>1. Covered(files, d.snap) => Hi(files[i]) <= d.snap
        BY <1>1 DEF Covered
      <4> QED BY <4>1, <1>1, <1>3
    <3>3. Succeeds(file, files[i])
      <4>1. files[i] \in File
        BY <1>1 DEF IsFiles
      <4>2. files[i].synced \in Nat
        BY <4>1, FileFacts
      <4> QED BY <4>2, <1>3 DEF Succeeds
    <3>4. Recoverable(segs', d.snap, mark)
      BY <3>3, <2>1, <1>1, <1>3, <1>4, <1>5, RecoverableTop
    <3> QED BY <3>1, <3>2, <3>4, <1>3 DEF Chain
  <2>2. CASE ~Top(files, i)
    BY <2>2, <1>1, <1>3, <1>5
  <2> QED BY <2>1, <2>2
<1>8. StoreTypeOK' /\ MemoryInv'
  BY <1>1, <1>2, <1>4, <1>7, ForgetFacts
<1>9. DiskInv'
  BY <1>2, <1>6, <1>7 DEF DiskInv
<1>10. CoreInv'
  BY <1>8, <1>9 DEF CoreInv
<1>11. images' = {Directory'}
  BY <1>1, <1>2, <1>7 DEF Directory
<1>12. undone' \in BOOLEAN
  BY <1>2 DEF JournalInv, TypeOK, CutTypeOK
<1>13. CutTypeOK' /\ CutInv'
  BY <1>2, <1>4, <1>10, <1>11, <1>12, CutAlone
<1> QED BY <1>10, <1>13 DEF JournalInv, CoreInv, TypeOK

-------------------------------------------------------------------------------
(* The files open reads: never none. *)
LEMMA OpenFilesFacts ==
  ASSUME JournalInv
  PROVE  /\ Chain(OpenFiles)
         /\ \E t \in DOMAIN OpenFiles :
              /\ Top(OpenFiles, t)
              /\ durable <= snap \/ durable <= OpenFiles[t].lo + OpenFiles[t].synced
         /\ \/ StartsAt(OpenFiles, snap) \/ Covered(OpenFiles, snap)
            \/ undone /\ Stale(OpenFiles, snap) /\ durable <= snap
<1>1. Chain(segs) /\ snap \in Nat
  BY InvChain DEF JournalInv, TypeOK, StoreTypeOK
<1>2. CASE DOMAIN segs # {}
  <2>1. PICK t \in DOMAIN segs : Top(segs, t)
    BY <1>1, <1>2 DEF Chain, Chained
  <2>2. ASSUME NEW u \in DOMAIN segs, Top(segs, u) PROVE u = t
    BY <2>2, <2>1, <1>1 DEF Top, Chain, IsFiles
  <2>3. durable <= snap \/ durable <= segs[t].lo + segs[t].synced
    BY <2>1, <2>2 DEF JournalInv, DiskInv, Recoverable, OnDisk
  <2>4. OpenFiles = segs
    BY <1>2 DEF OpenFiles
  <2> QED BY <2>1, <2>3, <2>4, <1>1 DEF JournalInv, DiskInv, Recoverable
<1>3. CASE DOMAIN segs = {}
  <2> DEFINE files == [i \in {1} |-> EmptyFile(snap)]
  <2>1. OpenFiles = files
    BY <1>3 DEF OpenFiles
  <2>2. DOMAIN files = {1} /\ files[1] = EmptyFile(snap)
    OBVIOUS
  <2>3. EmptyFile(snap) \in File /\ NumberedFile(EmptyFile(snap)) /\ EmptyFile(snap).lo = snap
    BY <1>1, EmptyFileFacts
  <2>4. IsFiles(files)
    BY <2>3 DEF IsFiles
  <2> HIDE DEF files
  <2>5. Top(files, 1) /\ Bottom(files, 1)
    BY <2>2 DEF Top, Bottom
  <2>6. Chain(files)
    BY <2>2, <2>3, <2>4, <2>5 DEF Chain, Numbered, Chained
  <2>7. StartsAt(files, snap)
    BY <2>2, <2>3, <2>5 DEF StartsAt
  <2>8. durable <= snap
    BY <1>3 DEF JournalInv, DiskInv, Recoverable, OnDisk
  <2> QED BY <2>1, <2>2, <2>5, <2>6, <2>7, <2>8
<1> QED BY <1>2, <1>3

(* What a scan returns are frames, and its bounds are sequence numbers. *)
LEMMA ScanTypes ==
  ASSUME NEW files, Chain(files), NEW start \in 0..MaxSeq, StartsAt(files, start),
         NEW t, Top(files, t)
  PROVE  ScanLatest(files, start) \in 0..MaxSeq /\ ScanEarliest(files, start) \in 0..MaxSeq
<1>0. start \in Nat /\ MaxSeq \in Nat
  BY LimitsAssumption
<1>1. /\ ScanLatest(files, start) = Hi(files[t])
      /\ Hi(files[t]) \in {start} \cup {f.seq : f \in ScanFrames(files, start)}
      /\ ScanFrames(files, start) =
           UNION {{files[i].frames[k] : k \in 1..Len(files[i].frames)} : i \in DOMAIN files}
  BY <1>0, LatestAligned
<1>2. \A j \in DOMAIN files : j \in Nat /\ files[j] \in File
  BY DEF Chain, IsFiles
<1>3. \A f \in ScanFrames(files, start) : f \in Frame
  <2>1. ASSUME NEW i \in DOMAIN files, NEW k \in 1..Len(files[i].frames)
        PROVE  files[i].frames[k] \in Frame
    BY <1>2, FileFacts
  <2> QED BY <2>1, <1>1
<1>4. \A f \in Frame : f.seq \in 0..MaxSeq /\ f.seq \in Int
  BY <1>0 DEF Frame
<1>5. ScanLatest(files, start) \in 0..MaxSeq
  BY <1>1, <1>3, <1>4
<1>6. CASE ScanFrames(files, start) = {}
  BY <1>5, <1>6 DEF ScanEarliest
<1>7. CASE ScanFrames(files, start) # {}
  <2> DEFINE S == {f.seq : f \in ScanFrames(files, start)}
  <2>1. t \in DOMAIN files
    BY DEF Top
  <2>2. PICK b \in DOMAIN files : Bottom(files, b) /\ files[b].lo = start
    BY <2>1 DEF StartsAt
  <2>3. \A j \in DOMAIN files :
          /\ files[j].lo \in Nat /\ Len(files[j].frames) \in Nat
          /\ files[j].frames = << >> <=> Len(files[j].frames) = 0
    BY <1>2, FileFacts
  <2>4. files[b].frames # << >>
    <3>1. SUFFICES ASSUME files[b].frames = << >> PROVE FALSE
      OBVIOUS
    <3>2. \A j \in DOMAIN files : j = b
      BY <3>1, <2>2, <1>2 DEF Chain, Chained, Bottom
    <3>3. ScanFrames(files, start) = {}
      BY <3>1, <3>2, <2>2, <2>3, <1>1
    <3> QED BY <3>3, <1>7
  <2>5. 1 \in 1..Len(files[b].frames)
    BY <2>2, <2>3, <2>4
  <2>6. files[b].frames[1].seq = start + 1
    BY <2>2, <2>5 DEF Chain, Numbered, NumberedFile
  <2>7. start + 1 \in S
    BY <2>2, <2>5, <2>6, <1>1
  <2>8. ASSUME NEW y \in S PROVE start + 1 <= y
    <3>1. PICK i \in DOMAIN files : \E k \in 1..Len(files[i].frames) : y = files[i].frames[k].seq
      BY <1>1
    <3>2. PICK k \in 1..Len(files[i].frames) : y = files[i].frames[k].seq
      BY <3>1
    <3>3. y = files[i].lo + k
      BY <3>2 DEF Chain, Numbered, NumberedFile
    <3>4. files[i].lo >= start
      BY <1>0, ScanAligned
    <3> QED BY <3>3, <3>4, <2>3, <1>0
  <2>9. S \in SUBSET Int
    BY <1>3, <1>4
  <2>10. Min(S) = start + 1
    <3> HIDE DEF S
    <3> QED BY <2>7, <2>8, <2>9, MinIs
  <2>11. start + 1 \in 0..MaxSeq
    BY <2>7, <1>3, <1>4
  <2> QED BY <2>10, <2>11, <1>5, <1>7 DEF ScanEarliest
<1> QED BY <1>5, <1>6, <1>7

(* open cuts the last file at its valid prefix. *)
LEMMA ReopenedAligned ==
  ASSUME NEW file \in File, NumberedFile(file), Valid(file, file.lo) = Len(file.frames),
         NEW new, new = Reopened(file, file.lo)
  PROVE  /\ new \in File /\ NumberedFile(new) /\ new.lo = file.lo /\ Hi(new) = Hi(file)
         /\ new.torn = 0 /\ file.synced <= new.synced /\ new.frames = file.frames
<1>1. /\ file.frames \in Seq(Frame) /\ Len(file.frames) \in Nat
      /\ file.lo \in Nat /\ file.synced \in Nat /\ file.torn \in Nat
  BY FileFacts
<1>2. SubSeq(file.frames, 1, Len(file.frames)) = file.frames
  BY <1>1
<1>3. CASE Issue(file, file.lo)
  <2>1. new = [frames |-> file.frames, torn |-> 0, synced |-> Len(file.frames),
               lo |-> file.lo]
    BY <1>2, <1>3 DEF Reopened, Truncated
  <2>2. new \in File
    BY <2>1, <1>1 DEF File
  <2> QED BY <2>1, <2>2, <1>1 DEF NumberedFile, Hi
<1>4. CASE ~Issue(file, file.lo)
  <2>1. file = [frames |-> file.frames, torn |-> file.torn,
                synced |-> file.synced, lo |-> file.lo]
    BY DEF File
  <2>2. file.torn = 0
    BY <1>1, <1>4 DEF Issue
  <2>3. new = file
    BY <2>1, <1>4 DEF Reopened
  <2> QED BY <2>2, <2>3, <1>1
<1> QED BY <1>3, <1>4

LEMMA ReopenedCovered ==
  ASSUME NEW file \in File, NumberedFile(file), NEW seq \in Nat, Valid(file, seq) = 0,
         NEW new, new = Reopened(file, seq)
  PROVE  /\ new \in File /\ NumberedFile(new) /\ new.lo = seq /\ Hi(new) = seq
         /\ new.torn = 0 /\ new.frames = << >>
<1>1. /\ file.frames \in Seq(Frame) /\ Len(file.frames) \in Nat
      /\ file.lo \in Nat /\ file.synced \in Nat /\ file.torn \in Nat
      /\ file.frames = << >> <=> Len(file.frames) = 0
  BY FileFacts
<1>2. new.frames = << >> /\ new.torn = 0 /\ new.lo = seq /\ new.synced = 0
      /\ new = [frames |-> << >>, torn |-> 0, synced |-> 0, lo |-> seq]
  <2>1. CASE Issue(file, seq)
    <3>1. SubSeq(file.frames, 1, 0) = << >>
      BY <1>1
    <3> QED BY <2>1, <3>1 DEF Reopened, Truncated
  <2>2. CASE ~Issue(file, seq)
    <3>1. file.torn = 0 /\ file.frames = << >>
      BY <2>2, <1>1 DEF Issue
    <3>2. file.synced = 0
      BY <3>1, <1>1 DEF NumberedFile
    <3>3. file = [frames |-> file.frames, torn |-> file.torn,
                  synced |-> file.synced, lo |-> file.lo]
      BY DEF File
    <3> QED BY <2>2, <3>1, <3>2, <3>3 DEF Reopened
  <2> QED BY <2>1, <2>2
<1>3. new \in File
  BY <1>2 DEF File
<1> QED BY <1>2, <1>3 DEF NumberedFile, Hi

LEMMA OpenInv ==
  ASSUME JournalInv, Open PROVE CoreInv'
<1> DEFINE files == OpenFiles
<1> DEFINE last == Max(DOMAIN files)
<1> DEFINE complete == last \in Scanned(files, snap)
<1> DEFINE file == Reopened(files[last], Previous(files, snap, last))
<1> DEFINE total == SumFunctionOnSet([i \in DOMAIN segs' |-> FileBytes(segs'[i])],
                                     Scanned(files, snap))
<1>1. /\ segs' = IF complete THEN [files EXCEPT ![last] = file] ELSE files
      /\ total \in 0..MaxLength /\ FileBytes(segs'[last]) \in 0..MaxLength
      /\ pc = "closed" /\ pc' = "idle"
      /\ active_index' = last /\ active_bytes' = FileBytes(segs'[last])
      /\ total_bytes' = total
      /\ base' = snap
      /\ latest' = ScanLatest(files, snap)
      /\ earliest' = ScanEarliest(files, snap)
      /\ gap' = (~complete \/ total > HardBytes)
      /\ paused' = (~complete \/ total >= HardBytes)
      /\ live' = << >> /\ live_boundary' = ScanLatest(files, snap)
      /\ UNCHANGED <<snap, doomed, durable>>
      /\ undone' = (undone /\ gap')
  BY DEF Open
<1>2. Chain(files) /\ snap \in Nat /\ snap \in 0..MaxSeq /\ doomed = {}
  BY <1>1, OpenFilesFacts DEF JournalInv, TypeOK, StoreTypeOK, MemoryInv
<1>3. PICK t \in DOMAIN files :
        /\ Top(files, t)
        /\ durable <= snap \/ durable <= files[t].lo + files[t].synced
  BY OpenFilesFacts
<1>4. last = t
  <2>1. DOMAIN files \in SUBSET Int /\ \A j \in DOMAIN files : j <= t
    BY <1>2, <1>3 DEF Chain, IsFiles, Top
  <2> QED BY <2>1, MaxIs
<1>5. /\ t \in Nat /\ files[t] \in File /\ NumberedFile(files[t])
      /\ files[t].lo \in Nat /\ files[t].synced \in Nat /\ Len(files[t].frames) \in Nat
      /\ files[t].synced <= Len(files[t].frames)
  BY <1>2, FileFacts DEF Chain, IsFiles, Numbered, NumberedFile
<1>6. \/ StartsAt(files, snap) \/ Covered(files, snap)
      \/ undone /\ Stale(files, snap) /\ durable <= snap
  BY OpenFilesFacts
<1>7. durable \in Nat /\ MaxSeq \in Nat
  BY LimitsAssumption DEF JournalInv, TypeOK, StoreTypeOK
<1>8. active_bytes' \in Nat /\ total_bytes' \in Nat /\ active_index' \in Nat
  BY <1>1, <1>4, <1>5, LimitsAssumption
<1> HIDE DEF files, last, file, total
\* whatever the files are, the invariant asks this of what open returns
<1>9. ASSUME Chain(segs'), Top(segs', t), latest' \in 0..MaxSeq, earliest' \in 0..MaxSeq,
             \/ StartsAt(segs', snap) /\ segs'[t].torn = 0 /\ latest' = Hi(segs'[t])
             \/ /\ gap' /\ paused' /\ latest' = snap
                /\ \/ Covered(segs', snap)
                   \/ undone /\ Stale(segs', snap) /\ durable <= snap,
             durable <= snap \/ durable <= segs'[t].lo + segs'[t].synced
      PROVE  CoreInv'
  <2>1. live_boundary' \in 0..MaxSeq /\ live' \in Seq(Frame) /\ live' = << >>
    BY <1>1, <1>9
  <2>2. paused' \in BOOLEAN /\ gap' \in BOOLEAN
    BY <1>1
  <2>3. IsFiles(segs') /\ t \in DOMAIN segs'
    BY <1>9 DEF Chain, Top
  <2>4. StoreTypeOK'
    BY <2>1, <2>2, <2>3, <1>1, <1>2, <1>8, <1>9 DEF JournalInv, TypeOK, StoreTypeOK
  <2>5. DiskInv'
    BY <2>3, <1>1, <1>9 DEF DiskInv, Recoverable, OnDisk, Chain
  <2>6. active_index' = t /\ active_bytes' = FileBytes(segs'[t])
    BY <1>1, <1>4
  <2>7. MemoryInv'
    <3>0. total \in Nat /\ HardBytes \in Nat
      BY <1>1, <1>8, LimitsAssumption
    <3>1. gap' => paused'
      <4>1. total > HardBytes => total >= HardBytes
        BY <3>0
      <4> QED BY <4>1, <1>1, Zenon
    <3>2. undone' => gap' /\ paused'
      BY <3>1, <1>1
    <3> QED BY <3>1, <3>2, <2>6, <1>1, <1>2, <1>9 DEF MemoryInv, ActiveIntact
  <2> QED BY <2>4, <2>5, <2>7 DEF CoreInv
<1>10. CASE StartsAt(files, snap)
  <2>1. /\ Previous(files, snap, t) = files[t].lo
        /\ Valid(files[t], files[t].lo) = Len(files[t].frames)
    BY <1>2, <1>10, ScanAligned
  <2>2. ScanLatest(files, snap) = Hi(files[t]) /\ Scanned(files, snap) = DOMAIN files
    BY <1>2, <1>3, <1>10, LatestAligned
  <2>3. file = Reopened(files[t], files[t].lo)
    BY <2>1, <1>4 DEF file
  <2>4. /\ file \in File /\ NumberedFile(file) /\ file.lo = files[t].lo /\ Hi(file) = Hi(files[t])
        /\ file.torn = 0 /\ files[t].synced <= file.synced
    BY <2>1, <2>3, <1>5, ReopenedAligned
  <2>5. segs' = [files EXCEPT ![t] = file]
    BY <2>2, <1>1, <1>4
  <2>6. /\ Chain(segs') /\ Top(segs', t) /\ DOMAIN segs' = DOMAIN files /\ segs'[t] = file
        /\ \A seq : file.lo = files[t].lo /\ StartsAt(files, seq) => StartsAt(segs', seq)
        /\ \A seq : Covered(files, seq) /\ Hi(file) <= seq => Covered(segs', seq)
    BY <2>4, <2>5, <1>2, <1>3, ReplaceTop, Zenon
  <2>7. latest' \in 0..MaxSeq /\ earliest' \in 0..MaxSeq
    BY <1>1, <1>2, <1>3, <1>10, ScanTypes
  <2>8. durable <= snap \/ durable <= segs'[t].lo + segs'[t].synced
    <3>1. file.synced \in Nat
      BY <2>4, FileFacts
    <3> QED BY <3>1, <2>4, <2>6, <1>3, <1>5, <1>7
  <2>9. StartsAt(segs', snap) /\ segs'[t].torn = 0 /\ latest' = Hi(segs'[t])
    BY <2>2, <2>4, <2>6, <1>1, <1>10
  <2> QED BY <2>6, <2>7, <2>8, <2>9, <1>9
<1>11. CASE Covered(files, snap)
  <2>1. \A i \in DOMAIN files : Previous(files, snap, i) = snap /\ Valid(files[i], snap) = 0
    BY <1>2, <1>11, ScanCovered
  <2>2. ScanLatest(files, snap) = snap /\ ScanEarliest(files, snap) = snap
    BY <1>2, <1>11, LatestCovered DEF ScanEarliest
  <2>3. latest' = snap /\ earliest' = snap
    BY <2>2, <1>1
  <2>4. durable <= snap
    <3>1. Hi(files[t]) <= snap
      BY <1>11 DEF Covered
    <3> QED BY <3>1, <1>2, <1>3, <1>5, <1>7 DEF Hi
  <2>5. CASE ~complete
    <3>1. segs' = files /\ paused' /\ gap'
      BY <2>5, <1>1
    <3> QED BY <3>1, <2>3, <2>4, <1>2, <1>3, <1>9, <1>11
  <2>6. CASE complete
    <3>1. DOMAIN files = {t}
      <4>1. ASSUME NEW j \in DOMAIN files, j # t PROVE FALSE
        <5>1. j < t
          BY <4>1, <1>2, <1>3 DEF Top, Chain, IsFiles
        <5>2. ~HasIssue(files, snap, j)
          BY <5>1, <2>6, <1>4 DEF Scanned
        <5>3. files[j].frames # << >> /\ files[j] \in File
          BY <5>1, <1>2 DEF Chain, Chained, IsFiles
        <5>4. Valid(files[j], snap) = 0 /\ Previous(files, snap, j) = snap
          BY <2>1
        <5>5. 0 < Len(files[j].frames)
          BY <5>3, FileFacts
        <5> QED BY <5>2, <5>4, <5>5 DEF HasIssue, Issue
      <4> QED BY <4>1
    <3>2. file = Reopened(files[t], snap)
      BY <2>1, <1>4 DEF file
    <3>3. /\ file \in File /\ NumberedFile(file) /\ file.lo = snap /\ Hi(file) = snap
          /\ file.torn = 0 /\ file.frames = << >>
      BY <3>2, <2>1, <1>2, <1>5, ReopenedCovered
    <3>4. segs' = [files EXCEPT ![t] = file]
      BY <2>6, <1>1, <1>4
    <3>5. /\ Chain(segs') /\ Top(segs', t) /\ DOMAIN segs' = DOMAIN files /\ segs'[t] = file
          /\ \A seq : file.lo = files[t].lo /\ StartsAt(files, seq) => StartsAt(segs', seq)
          /\ \A seq : Covered(files, seq) /\ Hi(file) <= seq => Covered(segs', seq)
      BY <3>1, <3>3, <3>4, <1>2, <1>3, ReplaceTop, Zenon
    <3>6. StartsAt(segs', snap)
      BY <3>1, <3>3, <3>5, <1>5 DEF StartsAt, Bottom
    <3> QED BY <3>3, <3>5, <3>6, <2>3, <2>4, <1>2, <1>9
  <2> QED BY <2>5, <2>6
<1>12. CASE undone /\ Stale(files, snap) /\ durable <= snap
  <2>1. /\ ScanFrames(files, snap) = {} /\ ScanLatest(files, snap) = snap
        /\ t \notin Scanned(files, snap)
    BY <1>2, <1>3, <1>12, ScanStale
  <2>2. latest' = snap /\ earliest' = snap
    BY <2>1, <1>1 DEF ScanEarliest
  <2>3. segs' = files /\ paused' /\ gap'
    BY <2>1, <1>1, <1>4
  <2> QED BY <2>2, <2>3, <1>2, <1>3, <1>9, <1>12
<1> QED BY <1>6, <1>10, <1>11, <1>12


-------------------------------------------------------------------------------
(* What each step does to the directories a power cut may leave.           *)

(* Steps that leave the session directory alone. *)
LEMMA CutUnchanged ==
  ASSUME JournalInv, UNCHANGED <<segs, snap, gone, images, anchored, undone, durable>>,
         \/ pc' \in {"closed", "failed"}
         \/ /\ UNCHANGED <<active_index, gap>>
            /\ pc \in {"idle", "compact", "remove"} \/ pc' = pc
  PROVE  CutTypeOK' /\ CutInv'
<1>1. Directory' = Directory /\ Every' = Every
  BY DEF Directory, Every
<1>2. \A d : Image(d)' = Image(d)
  BY <1>1 DEF Image
<1>3. CutTypeOK'
  BY <1>1 DEF JournalInv, TypeOK, CutTypeOK
<1>4. CutInv'
  BY <1>1, <1>2 DEF JournalInv, CutInv
<1> QED BY <1>3, <1>4

(* Steps after which the directory is synced. *)
LEMMA CutSettled ==
  ASSUME CoreInv', Settled, undone' \in BOOLEAN PROVE CutTypeOK' /\ CutInv'
<1>1. durable' \in 0..MaxSeq /\ durable' <= durable'
  BY LimitsAssumption DEF CoreInv, StoreTypeOK
<1> QED BY <1>1, CutAlone DEF Settled

LEMMA SyncCut ==
  ASSUME JournalInv, Sync PROVE CutTypeOK' /\ CutInv'
<1>1. CoreInv' /\ pc \in {"idle", "failed"} /\ durable <= durable'
  BY SyncInv, LatestDurable DEF Sync
<1>2. UNCHANGED <<snap, pc, active_index, gap, images, gone, anchored, undone>>
  BY DEF Sync, memVars, cutVars
<1>3. DOMAIN segs' = DOMAIN segs
  BY DEF Sync
<1>4. Directory' = Directory
  BY <1>2, <1>3 DEF Directory
<1>6. snap <= snap'
  BY <1>2 DEF JournalInv, TypeOK, StoreTypeOK
<1>5. TopWritten
  <2>1. CASE segs' = segs
    BY <2>1, <1>2 DEF TopWritten
  <2>2. CASE Top(segs, active_index)
    <3>1. /\ active_index \in DOMAIN segs /\ segs[active_index] \in File
          /\ NumberedFile(segs[active_index])
      BY <2>2, InvChain DEF Top, Chain, IsFiles, Numbered
    <3> DEFINE file == SyncedFile(segs[active_index])
    <3>2. /\ file \in File /\ NumberedFile(file) /\ file.lo = segs[active_index].lo
          /\ file.synced = Len(segs[active_index].frames) /\ Hi(file) = Hi(segs[active_index])
      BY <3>1, SyncedFileFacts
    <3>3. /\ segs'[active_index] = file
          /\ \A i \in DOMAIN segs : i # active_index => segs'[i] = segs[i]
      BY <3>1 DEF Sync
    <3>4. Succeeds(file, segs[active_index])
      BY <3>1, <3>2 DEF Succeeds, NumberedFile
    <3>5. Hi(file) <= Hi(segs[active_index])
      <4>1. Hi(segs[active_index]) \in Nat
        BY <3>1, FileFacts DEF Hi
      <4> QED BY <4>1, <3>2
    <3> QED BY <3>3, <3>4, <3>5, <2>2, <1>2, <1>3 DEF TopWritten
  <2> QED BY <2>1, <2>2, SyncFiles
<1> QED BY <1>1, <1>2, <1>3, <1>4, <1>5, <1>6, CutRelinked DEF JournalInv, CutInv

(* rotate seals the active file, whatever is written to the next one. *)
LEMMA RotatedWritten ==
  ASSUME JournalInv, pc \notin {"closed", "failed"}, gone' = gone,
         DOMAIN segs' = DOMAIN Rotated,
         \A i \in DOMAIN segs : segs'[i] = Rotated[i]
  PROVE  TopWritten
<1> DEFINE a == active_index
<1>1. /\ Top(segs, a) /\ a \in DOMAIN segs /\ a \in Nat
      /\ segs[a] \in File /\ NumberedFile(segs[a])
  BY ActiveFacts
<1>2. /\ DOMAIN Rotated = DOMAIN segs \cup {a + 1}
      /\ Rotated[a] = SyncedFile(segs[a])
      /\ \A i \in DOMAIN segs : i # a => Rotated[i] = segs[i]
  <2>1. \A i \in DOMAIN segs : i \in Nat /\ i <= a
    BY <1>1, InvChain DEF Top, Chain, IsFiles
  <2> QED BY <2>1, <1>1 DEF Rotated
<1>3. /\ SyncedFile(segs[a]) \in File /\ NumberedFile(SyncedFile(segs[a]))
      /\ SyncedFile(segs[a]).lo = segs[a].lo
      /\ SyncedFile(segs[a]).synced = Len(segs[a].frames)
      /\ Hi(SyncedFile(segs[a])) = Hi(segs[a])
  BY <1>1, SyncedFileFacts
<1>4. Succeeds(segs'[a], segs[a])
  BY <1>1, <1>2, <1>3 DEF Succeeds, NumberedFile
<1>5. Hi(segs'[a]) <= Hi(segs[a])
  <2>1. Hi(segs[a]) \in Nat
    BY <1>1, FileFacts DEF Hi
  <2> QED BY <2>1, <1>1, <1>2, <1>3
<1> QED BY <1>1, <1>2, <1>4, <1>5 DEF TopWritten

LEMMA RotateFailsWritten ==
  ASSUME JournalInv, pc \notin {"closed", "failed"}, gone' = gone, RotateFails
  PROVE  TopWritten
<1>1. CASE segs' = segs
  BY <1>1 DEF TopWritten
<1>2. CASE segs' = Rotated
  BY <1>2, RotatedWritten
<1> QED BY <1>1, <1>2 DEF RotateFails

(* An append writes to the active file, or to a new one after it. *)
LEMMA TargetWritten ==
  ASSUME JournalInv, pc = "idle", ~paused, NEW len \in FrameLens, gone' = gone,
         NEW file, segs' = [TargetFiles(len) EXCEPT ![TargetIndex(len)] = file],
         Succeeds(file, TargetFiles(len)[TargetIndex(len)]), ~gap
  PROVE  TopWritten
<1> DEFINE a == active_index
<1>1. /\ Top(segs, a) /\ a \in DOMAIN segs /\ a \in Nat
  BY ActiveFacts
<1>2. CASE MustRotate(len)
  <2>1. segs' = [Rotated EXCEPT ![a + 1] = file]
    BY <1>2 DEF TargetFiles, TargetIndex
  <2>2. a + 1 \notin DOMAIN segs /\ DOMAIN Rotated = DOMAIN segs \cup {a + 1}
    BY <1>1, InvChain DEF Top, Chain, IsFiles, Rotated
  <2>3. DOMAIN segs' = DOMAIN Rotated /\ \A i \in DOMAIN segs : segs'[i] = Rotated[i]
    BY <2>1, <2>2
  <2> QED BY <2>3, RotatedWritten
<1>3. CASE ~MustRotate(len)
  <2>1. segs' = [segs EXCEPT ![a] = file] /\ Succeeds(file, segs[a])
    BY <1>3 DEF TargetFiles, TargetIndex
  <2>2. StartsAt(segs, snap)
    BY DEF JournalInv, MemoryInv
  <2> QED BY <2>1, <2>2, <1>1 DEF TopWritten
<1> QED BY <1>2, <1>3

LEMMA AppendCut ==
  ASSUME JournalInv, NEW len \in FrameLens, Append_(len) PROVE CutTypeOK' /\ CutInv'
<1> DEFINE files == TargetFiles(len)
<1> DEFINE t == TargetIndex(len)
<1> DEFINE frame == [seq |-> latest + 1, len |-> len, end |-> FileBytes(files[t]) + len]
<1> DEFINE file == [files[t] EXCEPT !.frames = Append(@, frame)]
<1>1. /\ pc = "idle" /\ ~paused /\ latest < MaxSeq /\ UNCHANGED <<snap, gap, durable, gone>>
      /\ segs' = [files EXCEPT ![t].frames = Append(@, frame)] /\ active_index' = t
      /\ Relinked
  BY DEF Append_, TargetFiles, TargetIndex
<1>2. ~gap
  BY <1>1 DEF JournalInv, MemoryInv
<1>3. /\ Chain(files) /\ Top(files, t) /\ t \in DOMAIN files
      /\ files[t] \in File /\ NumberedFile(files[t]) /\ files[t].torn = 0
      /\ Hi(files[t]) = latest /\ FileBytes(files[t]) \in Nat
      /\ FileBytes(files[t]) + len <= SegmentBytes /\ latest \in Nat
  BY <1>1, TargetFacts
<1>4. segs' = [files EXCEPT ![t] = file] /\ CoreInv'
  BY <1>1, AppendInv
<1> HIDE DEF files, t
<1>5. frame \in Frame /\ frame.seq = latest + 1 /\ frame.end > FileBytes(files[t])
  BY <1>1, <1>3, LimitsAssumption DEF Frame
<1> HIDE DEF frame
<1>6. file \in File /\ NumberedFile(file) /\ file.lo = files[t].lo
      /\ file.synced = files[t].synced
  BY <1>3, <1>5, AppendedFile
<1>7. files[t].synced \in Nat
  BY <1>3, FileFacts
<1>8. Succeeds(file, files[t])
  BY <1>6, <1>7 DEF Succeeds
<1> HIDE DEF file
<1> USE DEF files, t
<1>9. TopWritten
  BY <1>1, <1>2, <1>4, <1>8, TargetWritten
<1>10. /\ images' \subseteq images \cup {Directory'} /\ Directory' \in images'
       /\ UNCHANGED <<anchored, undone>> /\ durable <= durable' /\ snap <= snap'
  <2>1. durable \in Nat /\ snap \in Int
    BY DEF JournalInv, TypeOK, StoreTypeOK
  <2> QED BY <2>1, <1>1 DEF Relinked
<1>11. \/ active_index' = active_index + 1 /\ Top(segs, active_index)
       \/ /\ pc \in {"idle", "compact", "remove"} /\ UNCHANGED <<active_index, gap, snap>>
          /\ DOMAIN segs' = DOMAIN segs
  <2>1. Top(segs, active_index)
    BY <1>1, ActiveFacts
  <2>2. CASE MustRotate(len)
    BY <2>1, <2>2, <1>1 DEF TargetIndex
  <2>3. CASE ~MustRotate(len)
    <3>1. files = segs /\ t = active_index
      BY <2>3 DEF TargetFiles, TargetIndex
    <3> QED BY <3>1, <1>1, <1>4
  <2> QED BY <2>2, <2>3
<1> QED BY <1>1, <1>4, <1>9, <1>10, <1>11, CutRelinked

(* Steps that end output_loop. *)
LEMMA CutFailed ==
  ASSUME JournalInv, CoreInv', pc # "closed", pc' = "failed", TopWritten, Relinked,
         durable' = durable, snap <= snap'
  PROVE  CutTypeOK' /\ CutInv'
<1>1. /\ images' \subseteq images \cup {Directory'} /\ Directory' \in images'
      /\ UNCHANGED <<anchored, undone>> /\ durable <= durable'
  <2>1. durable \in Nat
    BY DEF JournalInv, TypeOK, StoreTypeOK
  <2> QED BY <2>1 DEF Relinked
<1> QED BY <1>1, CutRelinked

LEMMA AppendFailsCut ==
  ASSUME JournalInv, NEW len \in FrameLens, NEW n \in 0..(len - 1), AppendFails(len, n)
  PROVE  CutTypeOK' /\ CutInv'
<1> DEFINE files == TargetFiles(len)
<1> DEFINE t == TargetIndex(len)
<1> DEFINE file == [files[t] EXCEPT !.torn = n]
<1>1. /\ pc = "idle" /\ ~paused /\ pc' = "failed" /\ UNCHANGED <<durable, gone>>
      /\ segs' = [files EXCEPT ![t].torn = n] /\ Relinked /\ snap <= snap'
  BY DEF AppendFails, TargetFiles, TargetIndex, JournalInv, TypeOK, StoreTypeOK
<1>2. ~gap
  BY <1>1 DEF JournalInv, MemoryInv
<1>3. /\ t \in DOMAIN files /\ files[t] \in File /\ NumberedFile(files[t])
  BY <1>1, TargetFacts
<1>4. segs' = [files EXCEPT ![t] = file] /\ CoreInv'
  BY <1>1, AppendFailsInv
<1> HIDE DEF files, t
<1>5. /\ n \in Nat /\ files[t].synced \in Nat
  BY <1>3, FileFacts, LimitsAssumption
<1>6. /\ file \in File /\ file.lo = files[t].lo /\ file.synced = files[t].synced
      /\ file.frames = files[t].frames
  BY <1>3, <1>5 DEF File
<1>7. Succeeds(file, files[t])
  BY <1>3, <1>5, <1>6 DEF Succeeds, NumberedFile
<1> HIDE DEF file
<1> USE DEF files, t
<1>8. TopWritten
  BY <1>1, <1>2, <1>4, <1>7, TargetWritten
<1> QED BY <1>1, <1>4, <1>8, CutFailed

LEMMA AppendRotateFailsCut ==
  ASSUME JournalInv, NEW len \in FrameLens, AppendRotateFails(len)
  PROVE  CutTypeOK' /\ CutInv'
<1>1. /\ pc = "idle" /\ pc' = "failed" /\ UNCHANGED <<durable, gone>>
      /\ RotateFails /\ Relinked /\ CoreInv' /\ snap <= snap'
  BY AppendRotateFailsInv DEF AppendRotateFails, RotateFails, JournalInv, TypeOK, StoreTypeOK
<1>2. TopWritten
  BY <1>1, RotateFailsWritten
<1> QED BY <1>1, <1>2, CutFailed

LEMMA CompactFailsCut ==
  ASSUME JournalInv, CompactFails PROVE CutTypeOK' /\ CutInv'
<1>1. /\ pc \in {"compact", "rotate", "remove"} /\ pc' = "failed"
      /\ UNCHANGED <<durable, gone>> /\ Relinked /\ CoreInv'
  BY CompactFailsInv DEF CompactFails, RotateFails
<1>2. TopWritten
  <2>1. CASE pc = "rotate"
    BY <2>1, <1>1, RotateFailsWritten DEF CompactFails
  <2>2. CASE pc # "rotate"
    <3>1. segs' = segs
      BY <2>2 DEF CompactFails, diskVars
    <3> QED BY <3>1, <1>1 DEF TopWritten
  <2> QED BY <2>1, <2>2
<1>3. snap <= snap'
  <2>1. snap \in Nat /\ latest \in Nat
    BY DEF JournalInv, TypeOK, StoreTypeOK
  <2>2. CASE pc = "compact"
    <3>1. snap' \in {snap, latest} /\ StartsAt(segs, snap) /\ latest = Hi(segs[active_index])
      BY <2>2 DEF CompactFails, JournalInv, MemoryInv, ActiveIntact
    <3>2. /\ Chain(segs) /\ active_index \in DOMAIN segs /\ segs[active_index] \in File
      BY <1>1, ActiveFacts
    <3>3. segs[active_index].lo >= snap
      BY <3>1, <3>2, <2>1, ScanAligned
    <3>4. segs[active_index].lo \in Nat /\ Len(segs[active_index].frames) \in Nat
      BY <3>2, FileFacts
    <3>5. snap <= latest
      BY <3>1, <3>3, <3>4, <2>1 DEF Hi
    <3> QED BY <3>1, <3>5, <2>1
  <2>3. CASE pc # "compact"
    BY <2>1, <2>3 DEF CompactFails, RotateFails, diskVars
  <2> QED BY <2>2, <2>3
<1> QED BY <1>1, <1>2, <1>3, CutFailed

LEMMA CompactRotateCut ==
  ASSUME JournalInv, CompactRotate PROVE CutTypeOK' /\ CutInv'
<1>1. pc = "rotate" /\ active_bytes > 0
  BY DEF CompactRotate, JournalInv, MemoryInv
<1>2. /\ segs' = Rotated /\ active_index' = active_index + 1
      /\ UNCHANGED <<snap, durable, gone>> /\ Relinked /\ CoreInv'
  BY <1>1, CompactRotateInv DEF CompactRotate
<1>3. TopWritten
  BY <1>1, <1>2, RotatedWritten
<1>4. Top(segs, active_index) /\ durable \in Nat /\ snap \in Int
  BY <1>1, ActiveFacts DEF JournalInv, TypeOK, StoreTypeOK
<1>5. /\ images' \subseteq images \cup {Directory'} /\ Directory' \in images'
      /\ UNCHANGED <<anchored, undone>> /\ durable <= durable' /\ snap <= snap'
  BY <1>2, <1>4 DEF Relinked
<1> QED BY <1>1, <1>2, <1>3, <1>4, <1>5, CutRelinked

(* compact removes the first file: until a directory sync it may come      *)
(* back, and then it begins before the snapshot.                           *)
LEMMA CompactRemoveCut ==
  ASSUME JournalInv, CompactRemove PROVE CutTypeOK' /\ CutInv'
<1> DEFINE t == active_index
<1> DEFINE i == Min(doomed)
<1>1. /\ pc = "remove" /\ pc' = pc /\ doomed = DOMAIN segs \ {t} /\ doomed # {}
      /\ Covered(segs, snap)
      /\ segs' = Restrict(segs, DOMAIN segs \ {i})
      /\ gone' = [j \in DOMAIN gone \cup {i} |-> IF j = i THEN segs[i] ELSE gone[j]]
      /\ UNCHANGED <<snap, active_index, gap, durable, anchored, undone>>
      /\ images' = images \cup {Directory'}
  BY DEF CompactRemove, JournalInv, MemoryInv, Relinked
<1>2. Chain(segs) /\ Top(segs, t) /\ t \in DOMAIN segs /\ IsFiles(segs) /\ IsFiles(gone)
  BY <1>1, ActiveFacts DEF JournalInv, TypeOK, CutTypeOK, Chain
<1>3. Bottom(segs, i) /\ i # t /\ i \in DOMAIN segs /\ CoreInv'
  BY <1>1, CompactRemoveInv, DoomedFirst
<1>4. /\ snap \in 0..MaxSeq /\ snap \in Nat /\ anchored \in 0..MaxSeq /\ undone \in BOOLEAN
      /\ anchored <= durable /\ anchored \in Nat /\ durable \in 0..MaxSeq
      /\ images \subseteq [entries : SUBSET DOMAIN Every, snap : 0..MaxSeq]
      /\ \A g \in DOMAIN gone : \A j \in DOMAIN segs : g < j
  BY LimitsAssumption DEF JournalInv, TypeOK, StoreTypeOK, CutTypeOK, CutInv
<1> HIDE DEF i, t
<1>5. DOMAIN segs' = DOMAIN segs \ {i} /\ \A j \in DOMAIN segs' : segs'[j] = segs[j]
  BY <1>1 DEF Restrict
<1>6. /\ DOMAIN gone' = DOMAIN gone \cup {i} /\ gone'[i] = segs[i]
      /\ \A g \in DOMAIN gone : g # i /\ gone'[g] = gone[g]
  <2>1. \A g \in DOMAIN gone : g # i
    BY <1>2, <1>3, <1>4 DEF IsFiles
  <2> QED BY <2>1, <1>1
<1>7. IsFiles(gone')
  <2>1. DOMAIN gone' \subseteq Nat \ {0}
    BY <1>2, <1>3, <1>6 DEF IsFiles
  <2>2. ASSUME NEW g \in DOMAIN gone' PROVE gone'[g] \in File
    BY <1>2, <1>3, <1>6 DEF IsFiles
  <2>3. gone' = [g \in DOMAIN gone' |-> gone'[g]]
    BY <1>1, <1>6
  <2> QED BY <2>1, <2>2, <2>3 DEF IsFiles
<1>8. Every' = Every
  <2>1. DOMAIN segs' \cup DOMAIN gone' = DOMAIN segs \cup DOMAIN gone
    BY <1>3, <1>5, <1>6
  <2>2. ASSUME NEW j \in DOMAIN segs \cup DOMAIN gone
        PROVE  (IF j \in DOMAIN segs' THEN segs'[j] ELSE gone'[j]) =
               (IF j \in DOMAIN segs THEN segs[j] ELSE gone[j])
    <3>1. CASE j = i
      BY <3>1, <1>3, <1>5, <1>6
    <3>2. CASE j # i
      BY <3>2, <1>5, <1>6
    <3> QED BY <3>1, <3>2
  <2> QED BY <2>1, <2>2 DEF Every
<1>9. \A d : Image(d)' = Image(d)
  BY <1>8 DEF Image
<1>10. Directory' = [entries |-> DOMAIN segs', snap |-> snap]
  BY <1>1 DEF Directory
<1>11. CutTypeOK'
  <2>1. DOMAIN segs' \subseteq DOMAIN Every
    BY <1>5 DEF Every
  <2>2. Directory' \in [entries : SUBSET DOMAIN Every, snap : 0..MaxSeq]
    BY <2>1, <1>4, <1>10
  <2> QED BY <2>2, <1>1, <1>4, <1>7, <1>8 DEF CutTypeOK
<1>12. ASSUME NEW g \in DOMAIN gone', NEW j \in DOMAIN segs' PROVE g < j
  <2>1. CASE g = i
    BY <2>1, <1>2, <1>3, <1>5 DEF Bottom, IsFiles
  <2>2. CASE g # i
    BY <2>2, <1>4, <1>5, <1>6
  <2> QED BY <2>1, <2>2
<1>13. Stale(segs, snap)
  <2>1. i < t
    BY <1>2, <1>3 DEF Bottom, IsFiles
  <2>2. segs[i].frames # << >> /\ segs[i] \in File /\ Hi(segs[i]) <= snap
    BY <2>1, <1>1, <1>2, <1>3 DEF Chain, Chained, IsFiles, Covered
  <2>3. segs[i].lo \in Nat /\ Len(segs[i].frames) \in Nat /\ Len(segs[i].frames) > 0
    BY <2>2, FileFacts
  <2>4. segs[i].lo # snap
    BY <2>2, <2>3, <1>4 DEF Hi
  <2> QED BY <2>4, <1>2, <1>3 DEF Stale
<1>14. ASSUME NEW d \in images'
       PROVE  /\ Recoverable(Image(d)', d.snap, anchored')
              /\ pc' \in {"idle", "compact", "remove"} /\ ~gap' /\ active_index' \in d.entries =>
                   d = Directory' \/ Stale(Image(d)', d.snap)
  <2>1. CASE d = Directory'
    <3>1. segs' = [j \in DOMAIN segs' |-> segs'[j]] /\ Recoverable(segs', snap, durable)
          /\ IsFiles(segs')
      BY <1>1, <1>3 DEF CoreInv, StoreTypeOK, IsFiles, DiskInv
    <3>2. \A j \in DOMAIN segs' : Every[j] = segs'[j]
      BY <1>5 DEF Every
    <3>3. d.entries = DOMAIN segs' /\ d.snap = snap
      BY <2>1, <1>10
    <3>4. Image(d) = segs'
      BY <3>1, <3>2, <3>3 DEF Image
    <3>5. Recoverable(segs', snap, anchored)
      BY <3>1, <1>4, RecoverableLess, LimitsAssumption
    <3> QED BY <3>3, <3>4, <3>5, <2>1, <1>1, <1>9
  <2>2. CASE d \in images
    <3>1. Recoverable(Image(d), d.snap, anchored)
      BY <2>2 DEF JournalInv, CutInv
    <3>2. ASSUME ~gap, active_index \in d.entries PROVE Stale(Image(d), d.snap)
      <4>1. d = Directory \/ Stale(Image(d), d.snap)
        BY <3>2, <2>2, <1>1 DEF JournalInv, CutInv
      <4>2. CASE d = Directory
        BY <4>2, <1>13, ImageDirectory
      <4> QED BY <4>1, <4>2
    <3> QED BY <3>1, <3>2, <1>1, <1>9
  <2> QED BY <2>1, <2>2, <1>1
<1>15. ASSUME NEW d \in images' PROVE d.snap <= snap'
  <2>1. CASE d = Directory'
    BY <2>1, <1>1, <1>4, <1>10
  <2>2. CASE d \in images
    BY <2>2, <1>1 DEF JournalInv, CutInv
  <2> QED BY <2>1, <2>2, <1>1
<1>16. ASSUME NEW g \in DOMAIN gone'
       PROVE  /\ NumberedFile(gone'[g])
              /\ \A j \in DOMAIN Every : g < j => Hi(gone'[g]) <= Every[j].lo
  <2>1. CASE g # i
    BY <2>1, <1>6 DEF JournalInv, CutInv
  <2>2. CASE g = i
    <3>1. gone'[g] = segs[i] /\ NumberedFile(segs[i]) /\ i \in Nat
      BY <2>2, <1>2, <1>3, <1>6 DEF Chain, Numbered, IsFiles
    <3>2. ASSUME NEW j \in DOMAIN Every, i < j PROVE Hi(segs[i]) <= Every[j].lo
      <4>1. j \in DOMAIN segs
        <5>1. j \in DOMAIN gone => j < i /\ j \in Nat
          BY <1>2, <1>3, <1>4 DEF IsFiles
        <5>2. j \in DOMAIN segs \/ j \in DOMAIN gone
          BY DEF Every
        <5> QED BY <5>1, <5>2, <3>1, <3>2
      <4> QED BY <4>1, <3>2, <1>2, <1>3 DEF Every, Chain, Chained
    <3> QED BY <3>1, <3>2, <2>2
  <2> QED BY <2>1, <2>2
<1>17. /\ Directory' \in images' /\ anchored' <= durable'
  BY <1>1, <1>4
<1>18. ASSUME NEW g \in DOMAIN gone'
       PROVE  /\ NumberedFile(gone'[g]) /\ \A j \in DOMAIN segs' : g < j
              /\ \A j \in DOMAIN Every' : g < j => Hi(gone'[g]) <= Every'[j].lo
  BY <1>8, <1>12, <1>16
<1> QED BY <1>11, <1>14, <1>15, <1>17, <1>18 DEF CutInv

LEMMA DirectorySyncedInv ==
  ASSUME JournalInv, DirectorySynced PROVE JournalInv'
<1>1. /\ UNCHANGED <<segs, snap, pc, doomed, active_index, active_bytes, total_bytes, latest,
                     earliest, base, paused, gap, live, live_boundary, durable, undone>>
      /\ Settled
  BY DEF DirectorySynced, diskVars, memVars
<1>2. CoreInv'
  <2>1. StoreTypeOK'
    BY <1>1 DEF JournalInv, TypeOK, StoreTypeOK
  <2>2. DiskInv'
    BY <1>1 DEF JournalInv, DiskInv
  <2>3. MemoryInv'
    BY <1>1 DEF JournalInv, MemoryInv, ActiveIntact
  <2> QED BY <2>1, <2>2, <2>3 DEF CoreInv
<1>3. undone' \in BOOLEAN
  BY <1>1 DEF JournalInv, TypeOK, CutTypeOK
<1> QED BY <1>1, <1>2, <1>3, CutSettled DEF JournalInv, CoreInv, TypeOK

LEMMA NextInv ==
  ASSUME JournalInv, [Next]_vars PROVE JournalInv'
<1>0. undone \in BOOLEAN
  BY DEF JournalInv, TypeOK, CutTypeOK
<1>a. ASSUME CoreInv', CutTypeOK' /\ CutInv' PROVE JournalInv'
  BY <1>a DEF JournalInv, CoreInv, TypeOK
<1>1. CASE UNCHANGED vars
  <2>1. UNCHANGED <<segs, snap, pc, doomed, active_index, active_bytes, total_bytes, latest,
                    earliest, base, paused, gap, live, live_boundary, durable,
                    images, gone, anchored, undone>>
    BY <1>1 DEF vars, diskVars, memVars, cutVars
  <2>2. StoreTypeOK'
    BY <2>1 DEF JournalInv, TypeOK, StoreTypeOK
  <2>3. DiskInv'
    BY <2>1 DEF JournalInv, DiskInv
  <2>4. MemoryInv'
    BY <2>1 DEF JournalInv, MemoryInv, ActiveIntact
  <2>5. CutTypeOK' /\ CutInv'
    BY <2>1, CutUnchanged
  <2> QED BY <2>2, <2>3, <2>4, <2>5, <1>a DEF CoreInv
<1>2. CASE Open
  <2>1. CoreInv' /\ Settled /\ undone' \in BOOLEAN
    BY <1>2, <1>0, OpenInv DEF Open
  <2> QED BY <2>1, CutSettled, <1>a
<1>3. ASSUME NEW len \in FrameLens, Append_(len) PROVE JournalInv'
  BY <1>3, AppendInv, AppendCut, <1>a
<1>4. ASSUME NEW len \in FrameLens, AppendOverLimit(len) PROVE JournalInv'
  <2>1. UNCHANGED <<segs, snap, gone, images, anchored, undone, durable, active_index, gap, pc>>
    BY <1>4 DEF AppendOverLimit, diskVars, cutVars
  <2> QED BY <2>1, <1>4, AppendOverLimitInv, CutUnchanged, <1>a
<1>5. ASSUME NEW len \in FrameLens, NEW n \in 0..(len - 1), AppendFails(len, n)
      PROVE  JournalInv'
  BY <1>5, AppendFailsInv, AppendFailsCut, <1>a
<1>6. ASSUME NEW len \in FrameLens, AppendRotateFails(len) PROVE JournalInv'
  BY <1>6, AppendRotateFailsInv, AppendRotateFailsCut, <1>a
<1>7. CASE Sync
  BY <1>7, SyncInv, SyncCut, <1>a
<1>8. CASE CompactSnapshot
  <2>1. CoreInv' /\ Settled /\ undone' \in BOOLEAN
    BY <1>8, <1>0, CompactSnapshotInv DEF CompactSnapshot
  <2> QED BY <2>1, CutSettled, <1>a
<1>9. CASE CompactRotate
  BY <1>9, CompactRotateInv, CompactRotateCut, <1>a
<1>10. CASE CompactRemove
  BY <1>10, CompactRemoveInv, CompactRemoveCut, <1>a
<1>11. CASE CompactFinish
  <2>1. /\ UNCHANGED <<segs, snap, gone, images, anchored, undone, durable, active_index, gap>>
        /\ pc = "remove"
    BY <1>11 DEF CompactFinish, diskVars, cutVars
  <2> QED BY <2>1, <1>11, CompactFinishInv, CutUnchanged, <1>a
<1>12. CASE CompactFails
  BY <1>12, CompactFailsInv, CompactFailsCut, <1>a
<1>13. CASE Crash
  <2>1. UNCHANGED <<segs, snap, gone, images, anchored, undone, durable>> /\ pc' = "closed"
    BY <1>13 DEF Crash, diskVars, cutVars, Forget
  <2> QED BY <2>1, <1>13, CrashInv, CutUnchanged, <1>a
<1>14. CASE DirectorySynced
  BY <1>14, DirectorySyncedInv
<1>15. ASSUME NEW d \in images, NEW i \in d.entries, NEW n \in 0..Len(Image(d)[i].frames),
              NEW r \in 0..SegmentBytes, PowerLoss(d, i, n, r)
       PROVE  JournalInv'
  BY <1>15, PowerLossInv
<1> QED BY <1>1, <1>2, <1>3, <1>4, <1>5, <1>6, <1>7, <1>8, <1>9, <1>10, <1>11, <1>12, <1>13,
           <1>14, <1>15
        DEF Next

-------------------------------------------------------------------------------
(* The invariant holds at every point at which a crash, a power failure or *)
(* an I/O error can interrupt append, sync, compact and open of            *)
(* JournalStore, whatever the limits and the frame lengths are; the power  *)
(* failure may undo every unsynced creation and removal of a segment.      *)
THEOREM JournalInvariant == Spec => []JournalInv
<1>1. Init => JournalInv
  BY InitInv
<1>2. JournalInv /\ [Next]_vars => JournalInv'
  BY NextInv
<1> QED BY <1>1, <1>2, PTL DEF Spec

(* Every field of JournalStore, and every file, keeps its type. *)
THEOREM TypeCorrect == Spec => []TypeOK
<1>1. JournalInv => TypeOK
  BY DEF JournalInv
<1> QED BY <1>1, JournalInvariant, PTL

(* What JournalStore::sync returned stays recoverable by open, for every   *)
(* value of the limits; after a power cut that undoes the creation or the  *)
(* removal of segments, what it had returned by the last directory sync.   *)
THEOREM DurableNeverLost == Spec => []DurableRecoverable
<1>1. JournalInv => DurableRecoverable
  BY InvDurable
<1> QED BY <1>1, JournalInvariant, PTL
===============================================================================
