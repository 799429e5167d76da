---------------------------- MODULE RetentionProofs ----------------------------
(***************************************************************************)
(* What is due goes and nothing else, for any rounds, days, limits and     *)
(* number of crashes.  The invariants relate what the writes left of the   *)
(* running handler will do to what the files say already.                  *)
(***************************************************************************)
EXTENDS Retention, FiniteNaturals, SequenceTheorems

-----------------------------------------------------------------------------
Modes == {"details", "round"}
Deletings == [round : Rounds, mode : Modes, marked : BOOLEAN]
Works == [day : Days, after : Nat, updates : SUBSET [round : Rounds, mode : Modes],
          deleting : Deletings \cup {None}]
Cycles == [days : (SUBSET Days) \cup {None}, work : Works \cup {None}]
Writes ==
    [file : {"manifest"}, round : Rounds, value : Manifests \cup {None}]
    \cup [file : {"part", "parts"}, round : Rounds]
    \cup [file : {"queue"}, round : Rounds, value : BOOLEAN]
    \cup [file : {"index"}, day : Days, rows : SUBSET IndexRows, cache : Caches \cup {None}]
    \cup [file : {"expiry"}, days : SUBSET Days, value : Int]
    \cup [file : {"state"}]

(* Days are listed before one is scanned, and for their rows only.         *)
Listed(c) ==
    c # None => /\ c.days \notin {None, {}} => Rounds # {}
                /\ c.work # None => c.days # None

Types ==
    /\ clock \in Nat
    /\ manifest \in [Rounds -> Manifests \cup {None}]
    /\ parts \in [Rounds -> Int] /\ queued \subseteq Rounds
    /\ index \in [Days -> SUBSET IndexRows] /\ expiry \in [Days -> Int]
    /\ stored \in Cycles \cup {None} /\ Listed(stored)
    /\ cycle \in Cycles \cup {None} /\ Listed(cycle)
    /\ cached \in Caches \cup {None}
    /\ run \in {"off", "fresh", "on"}
    /\ todo \in Seq(Writes)
    /\ done \in [Rounds -> Nat \cup {None}]

-----------------------------------------------------------------------------
(* Expiries.  Value e scans a day with these rows in time.                 *)
InTime(rows, e) ==
    \A w \in rows : w.at # None => e <= w.at + (IF w.detail THEN Detail ELSE Whole) + 1

(* The cache is what the file says.                                        *)
Cached == cached # None => cached.rows = index[cached.day]
CachedWrites(s) ==
    \A i \in 1..Len(s) : s[i].file = "index" /\ s[i].cache # None =>
        s[i].cache = [day |-> s[i].day, rows |-> s[i].rows]

(* An index file is written when its day is scanned in time already or an  *)
(* expiry is written before; no expiry is written that is late for what    *)
(* the index says then.                                                    *)
IndexWritesInTime(s) ==
    \A i \in 1..Len(s) : s[i].file = "index" =>
        \/ InTime(s[i].rows, expiry[s[i].day])
        \/ \E k \in 1..(i - 1) : s[k].file = "expiry" /\ s[i].day \in s[k].days
ExpiryWritesInTime(s) ==
    \A k \in 1..Len(s) : s[k].file = "expiry" => \A d \in s[k].days :
        /\ \/ InTime(index[d], s[k].value)
           \/ \E i \in 1..(k - 1) : s[i].file = "index" /\ s[i].day = d
        /\ \A i \in 1..Len(s) : s[i].file = "index" /\ s[i].day = d
                              => InTime(s[i].rows, s[k].value)
Planned(s) == CachedWrites(s) /\ IndexWritesInTime(s) /\ ExpiryWritesInTime(s)
Scheduled == ExpiryScheduled /\ Cached /\ Planned(todo)

-----------------------------------------------------------------------------
(* Deletions.  The time of round r has come.                               *)
Limit(mode) == IF mode = "round" THEN Whole ELSE Detail
Over(r, mode) == r \notin queued /\ done[r] # None /\ clock - done[r] > Limit(mode)
Unfinished(m) == m # None /\ m.at = None
Finished(m) == m # None /\ m.at # None

Completion ==
    \A r \in Rounds :
        /\ Unfinished(manifest[r]) => done[r] = None /\ manifest[r].detail
        /\ Finished(manifest[r]) => done[r] = manifest[r].at
RowsOfCompleted ==
    \A d \in Days : \A w \in index[d] : w.at # None => done[w.round] # None

(* What the cursor in memory and the one on disk are about to delete.      *)
Cursor(c) == c # None /\ c.work # None /\ c.work.deleting # None
Justified(c) ==
    Cursor(c) => /\ done[c.work.deleting.round] # None
                 /\ c.work.deleting.marked => Over(c.work.deleting.round, c.work.deleting.mode)
ForDetails(c) == Cursor(c) /\ c.work.deleting.marked /\ c.work.deleting.mode = "details"
Withdrawn(r) == manifest[r] # None => ~manifest[r].detail
MarkPending(r) ==
    /\ run = "on" /\ Len(todo) = 1 /\ todo[1].file = "manifest" /\ todo[1].round = r
    /\ todo[1].value # None /\ ~todo[1].value.detail
Cursors ==
    /\ Justified(stored) /\ Justified(cycle)
    /\ ForDetails(stored) => Withdrawn(stored.work.deleting.round)
    /\ ForDetails(cycle) =>
         Withdrawn(cycle.work.deleting.round) \/ MarkPending(cycle.work.deleting.round)

(* What the manifest m, when it is the next write, says of round r.        *)
Rightful(r, m) ==
    /\ m = None => Over(r, "round")
    /\ Unfinished(m) => done[r] = None /\ m.detail
    /\ Finished(m) => IF m.detail THEN done[r] = None ELSE done[r] = m.at /\ Over(r, "details")
ManifestWrites(s) ==
    \A i \in 1..Len(s) : s[i].file = "manifest" =>
        /\ Rightful(s[i].round, s[i].value)
        /\ Finished(s[i].value) /\ s[i].value.detail =>
             \/ parts[s[i].round] = Parts
             \/ i = 2 /\ s[1].file = "parts" /\ s[1].round = s[i].round
        /\ \A k \in 1..Len(s) : s[k].file = "manifest" => k = i
RowWrites(s) ==
    \A i \in 1..Len(s) : s[i].file = "index" =>
        \A w \in s[i].rows : w.at # None =>
            \/ done[w.round] # None
            \/ \E k \in 1..(i - 1) : /\ s[k].file = "manifest" /\ s[k].round = w.round
                                     /\ Finished(s[k].value)
OtherWrites(s) ==
    \A i \in 1..Len(s) :
        /\ s[i].file = "queue" /\ s[i].value =>
             /\ done[s[i].round] = None
             /\ \A k \in 1..Len(s) : s[k].file = "manifest" => Unfinished(s[k].value)
        /\ s[i].file = "part" =>
             Len(s) = 1 /\ Over(s[i].round, "details") /\ Withdrawn(s[i].round)
Rightly(s) == ManifestWrites(s) /\ RowWrites(s) /\ OtherWrites(s)
Careful ==
    /\ Completion /\ NothingEarly /\ MarkedFirst /\ RowsOfCompleted /\ Cursors
    /\ Rightly(todo)

-----------------------------------------------------------------------------
(* Numbers and sequences of writes.                                        *)

LEMMA Earliest ==
    ASSUME NEW S \in SUBSET Nat, S # {}
    PROVE  Min(S) \in S /\ \A x \in S : Min(S) <= x
  <1>1. PICK a \in S : TRUE
    OBVIOUS
  <1> DEFINE D == {y \in S : y <= a}
  <1>2. a \in D /\ D \subseteq 0..a
    <2>1. a \in D
      OBVIOUS
    <2>2. \A y \in D : y \in 0..a
      OBVIOUS
    <2> HIDE DEF D
    <2> QED
      BY <2>1, <2>2
  <1>6. IsFiniteSet(0..a)
    BY FS_Interval
  <1> HIDE DEF D
  <1>3. D \in SUBSET Nat /\ IsFiniteSet(D) /\ D # {}
    <2>1. 0..a \subseteq Nat
      OBVIOUS
    <2> QED
      BY <1>2, <1>6, <2>1, FS_Subset
  <1>4. PICK x \in D : \A y \in D : x <= y
    BY <1>3, Extremes
  <1>5. x \in S /\ \A y \in S : x <= y
    BY <1>4 DEF D
  <1> QED
    BY <1>5 DEF Min

LEMMA KindsOfWrites ==
    /\ \A r \in Rounds, m \in Manifests \cup {None} :
         [file |-> "manifest", round |-> r, value |-> m] \in Writes
    /\ \A r \in Rounds : /\ [file |-> "part", round |-> r] \in Writes
                         /\ [file |-> "parts", round |-> r] \in Writes
    /\ \A r \in Rounds, b \in BOOLEAN : [file |-> "queue", round |-> r, value |-> b] \in Writes
    /\ \A d \in Days, R \in SUBSET IndexRows, c \in Caches \cup {None} :
         [file |-> "index", day |-> d, rows |-> R, cache |-> c] \in Writes
    /\ \A D \in SUBSET Days, e \in Int : [file |-> "expiry", days |-> D, value |-> e] \in Writes
    /\ [file |-> "state"] \in Writes
  BY DEF Writes

LEMMA WrittenIs ==
    ASSUME NEW w \in Writes
    PROVE  /\ w.file = "manifest" => w.round \in Rounds /\ w.value \in Manifests \cup {None}
           /\ w.file \in {"part", "parts"} => w.round \in Rounds
           /\ w.file = "queue" => w.round \in Rounds /\ w.value \in BOOLEAN
           /\ w.file = "index" => /\ w.day \in Days /\ w.rows \in SUBSET IndexRows
                                  /\ w.cache \in Caches \cup {None}
           /\ w.file = "expiry" => w.days \in SUBSET Days /\ w.value \in Int
           /\ w.file \in {"manifest", "part", "parts", "queue", "index", "expiry", "state"}
  BY DEF Writes

LEMMA Joined ==
    ASSUME NEW s \in Seq(Writes), NEW t \in Seq(Writes)
    PROVE  /\ s \o t \in Seq(Writes) /\ Len(s \o t) = Len(s) + Len(t)
           /\ \A i \in 1..Len(s) : i \in 1..Len(s \o t) /\ (s \o t)[i] = s[i]
           /\ \A i \in 1..Len(t) : i + Len(s) \in 1..Len(s \o t) /\ (s \o t)[i + Len(s)] = t[i]
           /\ \A i \in 1..Len(s \o t) :
                \/ i \in 1..Len(s) /\ (s \o t)[i] = s[i]
                \/ /\ i > Len(s) /\ i - Len(s) \in 1..Len(t)
                   /\ (s \o t)[i] = t[i - Len(s)]
  <1>1. /\ s \o t \in Seq(Writes) /\ Len(s \o t) = Len(s) + Len(t)
        /\ \A i \in 1..Len(s) + Len(t) :
             (s \o t)[i] = IF i <= Len(s) THEN s[i] ELSE t[i - Len(s)]
    BY ConcatProperties
  <1>2. Len(s) \in Nat /\ Len(t) \in Nat
    OBVIOUS
  <1> DEFINE u == s \o t
  <1> HIDE DEF u
  <1>3. /\ Len(u) = Len(s) + Len(t)
        /\ \A i \in 1..Len(s) + Len(t) : u[i] = IF i <= Len(s) THEN s[i] ELSE t[i - Len(s)]
    BY <1>1 DEF u
  <1>4. \A i \in 1..Len(s) : i \in 1..Len(u) /\ u[i] = s[i]
    BY <1>2, <1>3
  <1>5. \A i \in 1..Len(t) : i + Len(s) \in 1..Len(u) /\ u[i + Len(s)] = t[i]
    BY <1>2, <1>3
  <1>6. \A i \in 1..Len(u) :
          \/ i \in 1..Len(s) /\ u[i] = s[i]
          \/ i > Len(s) /\ i - Len(s) \in 1..Len(t) /\ u[i] = t[i - Len(s)]
    BY <1>2, <1>3
  <1> QED
    BY <1>1, <1>4, <1>5, <1>6 DEF u

LEMMA NextWrite ==
    ASSUME NEW s \in Seq(Writes), s # <<>>
    PROVE  /\ Head(s) = s[1] /\ s[1] \in Writes /\ 1 \in 1..Len(s)
           /\ Tail(s) \in Seq(Writes) /\ Len(Tail(s)) = Len(s) - 1
           /\ \A i \in 1..Len(Tail(s)) : i + 1 \in 1..Len(s) /\ Tail(s)[i] = s[i + 1]
  BY HeadTailProperties

(* When the rows of a day are scanned in time.                             *)

LEMMA DueInTime ==
    ASSUME NEW rows \in SUBSET IndexRows
    PROVE  Due(rows) \in Nat /\ InTime(rows, Due(rows))
  <1> DEFINE T == {w.at + 1 + (IF w.detail THEN Detail ELSE Whole) : w \in {v \in rows : v.at # None}}
             S == {Never} \cup T
  <1>1. \A w \in rows : w.at # None => w.at \in Nat /\ w.detail \in BOOLEAN
    BY DEF IndexRows
  <1>2. S \in SUBSET Nat /\ S # {}
    BY <1>1, RetentionConstants DEF Never
  <1>3. \A w \in rows : w.at # None => w.at + 1 + (IF w.detail THEN Detail ELSE Whole) \in S
    OBVIOUS
  <1>4. Due(rows) = Min(S)
    BY DEF Due
  <1> HIDE DEF S
  <1>5. Due(rows) \in S /\ \A x \in S : Due(rows) <= x
    BY <1>2, <1>4, Earliest
  <1>6. Due(rows) \in Nat
    BY <1>2, <1>5
  <1>7. ASSUME NEW w \in rows, w.at # None
        PROVE  Due(rows) <= w.at + (IF w.detail THEN Detail ELSE Whole) + 1
    <2>1. Due(rows) <= w.at + 1 + (IF w.detail THEN Detail ELSE Whole)
      BY <1>3, <1>5, <1>7
    <2> QED
      BY <1>1, <1>6, <1>7, <2>1, RetentionConstants
  <1> QED
    BY <1>6, <1>7 DEF InTime

LEMMA EntryInTime ==
    ASSUME NEW rows \in SUBSET IndexRows
    PROVE  Entry(rows) \in Int /\ InTime(rows, Entry(rows))
  <1>1. CASE rows = {}
    BY <1>1 DEF Entry, Absent, InTime
  <1>2. CASE rows # {}
    BY <1>2, DueInTime DEF Entry
  <1> QED
    BY <1>1, <1>2

(* An earlier scan is in time, too.                                        *)
LEMMA EarlierInTime ==
    ASSUME NEW rows \in SUBSET IndexRows, NEW e \in Int, NEW f \in Int, e <= f, InTime(rows, f)
    PROVE  InTime(rows, e)
  <1>1. ASSUME NEW w \in rows, w.at # None
        PROVE  e <= w.at + (IF w.detail THEN Detail ELSE Whole) + 1
    <2>1. w.at \in Nat /\ w.detail \in BOOLEAN
      BY <1>1 DEF IndexRows
    <2>2. f <= w.at + (IF w.detail THEN Detail ELSE Whole) + 1
      BY <1>1 DEF InTime
    <2> QED
      BY <2>1, <2>2, RetentionConstants
  <1> QED
    BY <1>1 DEF InTime

LEMMA NoteIs ==
    ASSUME NEW d \in Days, NEW rows \in SUBSET IndexRows, NEW e
    PROVE  /\ Note(d, rows, e) \in Seq(Writes)
           /\ \/ Note(d, rows, e) = <<>>
              \/ \E v \in Int : /\ InTime(rows, v)
                                /\ Note(d, rows, e) = <<[file |-> "expiry", days |-> {d}, value |-> v]>>
  <1>1. [file |-> "expiry", days |-> {d}, value |-> Entry(rows)] \in Writes
    BY EntryInTime, KindsOfWrites
  <1>2. Entry(rows) \in Int /\ InTime(rows, Entry(rows))
    BY EntryInTime
  <1>3. CASE Entry(rows) = e
    BY <1>3 DEF Note
  <1>4. CASE Entry(rows) # e
    <2>1. Note(d, rows, e) = <<[file |-> "expiry", days |-> {d}, value |-> Entry(rows)]>>
      BY <1>4 DEF Note, Schedule
    <2> HIDE DEF Entry
    <2> QED
      BY <1>1, <1>2, <2>1
  <1> QED
    BY <1>3, <1>4

LEMMA AnnouncedIs ==
    ASSUME NEW d \in Days, NEW rows \in SUBSET IndexRows, expiry[d] \in Int
    PROVE  /\ BeforeIndex(d, rows) \in Seq(Writes)
           /\ \/ BeforeIndex(d, rows) = <<>> /\ InTime(rows, expiry[d])
              \/ BeforeIndex(d, rows) = <<[file |-> "expiry", days |-> {d}, value |-> 0]>>
  <1>1. [file |-> "expiry", days |-> {d}, value |-> 0] \in Writes
    BY KindsOfWrites
  <1>2. Due(rows) \in Nat /\ InTime(rows, Due(rows))
    BY DueInTime
  <1>3. CASE Due(rows) < expiry[d]
    BY <1>1, <1>3 DEF BeforeIndex, Schedule
  <1>4. CASE ~(Due(rows) < expiry[d])
    <2>1. expiry[d] <= Due(rows)
      BY <1>2, <1>4
    <2>2. InTime(rows, expiry[d])
      BY <1>2, <2>1, EarlierInTime
    <2> QED
      BY <1>4, <2>2 DEF BeforeIndex
  <1> QED
    BY <1>3, <1>4

-----------------------------------------------------------------------------
(* Types.                                                                  *)

LEMMA RowTyped ==
    ASSUME NEW r \in Rounds, NEW m \in Manifests
    PROVE  /\ Row(r, m) \in IndexRows /\ Row(r, m).round = r
           /\ Row(r, m).at = m.at
  BY DEF Row, IndexRows, Manifests

(* What the index file of a round becomes.                                 *)
NewRows(r, m) == {w \in index[DayOf[r]] : w.round # r} \cup {Row(r, m)}
IndexWrite(d, rows, cache) == [file |-> "index", day |-> d, rows |-> rows, cache |-> cache]

LEMMA IndexWritesAre ==
    ASSUME Types, NEW r \in Rounds, NEW m \in Manifests
    PROVE  /\ DayOf[r] \in Days /\ NewRows(r, m) \in SUBSET IndexRows
           /\ IndexWrites(r, m) \in Seq(Writes)
           /\ \/ IndexWrites(r, m) = <<>>
              \/ \E e : IndexWrites(r, m) =
                        BeforeIndex(DayOf[r], NewRows(r, m))
                        \o <<IndexWrite(DayOf[r], NewRows(r, m), None)>>
                        \o Note(DayOf[r], NewRows(r, m), e)
  <1> DEFINE d == DayOf[r]
             rows == NewRows(r, m)
             x == <<IndexWrite(d, rows, None)>>
             entry == IF BeforeIndex(d, rows) = <<>> THEN expiry[d] ELSE 0
  <1>1. d \in Days /\ index[d] \in SUBSET IndexRows /\ expiry[d] \in Int
    BY RetentionConstants DEF Types
  <1>2. rows \in SUBSET IndexRows
    BY <1>1, RowTyped DEF NewRows
  <1>3. IndexWrites(r, m) = IF rows = index[d] THEN <<>>
                            ELSE BeforeIndex(d, rows) \o x \o Note(d, rows, entry)
    BY DEF IndexWrites, NewRows, IndexWrite
  <1> HIDE DEF d, rows, entry
  <1>4. x \in Seq(Writes)
    BY <1>1, <1>2, KindsOfWrites DEF IndexWrite
  <1>5. BeforeIndex(d, rows) \in Seq(Writes) /\ Note(d, rows, entry) \in Seq(Writes)
    BY <1>1, <1>2, AnnouncedIs, NoteIs
  <1> HIDE DEF x
  <1>6. IndexWrites(r, m) \in Seq(Writes)
    BY <1>3, <1>4, <1>5, Joined
  <1> QED
    BY <1>1, <1>2, <1>3, <1>6 DEF d, rows, x

LEMMA CreateWrites ==
    ASSUME Types, NEW r \in Rounds, NEW m \in Manifests, NEW b \in BOOLEAN
    PROVE  /\ ManifestWrite(r, m) \in Seq(Writes) /\ QueueWrite(r, b) \in Seq(Writes)
           /\ IndexWrites(r, m) \in Seq(Writes)
           /\ ManifestWrite(r, m) \o IndexWrites(r, m) \o QueueWrite(r, b) \in Seq(Writes)
  <1>1. ManifestWrite(r, m) \in Seq(Writes)
    BY KindsOfWrites DEF ManifestWrite
  <1>2. QueueWrite(r, b) \in Seq(Writes)
    BY KindsOfWrites DEF QueueWrite
  <1> QED
    BY <1>1, <1>2, IndexWritesAre, Joined

(* The manifest of a round when it is created and when it is completed.    *)
NewManifest == [at |-> None, detail |-> TRUE]
CompletedManifest(r) == [manifest[r] EXCEPT !.at = IF @ = None THEN clock ELSE @]
PartsWrite(r) == IF parts[r] = Parts THEN <<>> ELSE <<[file |-> "parts", round |-> r]>>

LEMMA CompletedTyped ==
    ASSUME Types, NEW r \in Rounds, manifest[r] # None
    PROVE  /\ CompletedManifest(r) \in Manifests
           /\ CompletedManifest(r).detail = manifest[r].detail
           /\ CompletedManifest(r).at = IF manifest[r].at = None THEN clock ELSE manifest[r].at
           /\ manifest[r].at # None => CompletedManifest(r) = manifest[r]
           /\ CompletedManifest(r).at # None
  <1>1. manifest[r] \in Manifests /\ clock \in Nat /\ clock # None
    BY RetentionConstants DEF Types
  <1> QED
    BY <1>1 DEF CompletedManifest, Manifests

LEMMA CreateIs ==
    ASSUME Types, NEW r \in Rounds, Create(r)
    PROVE  /\ r \notin queued /\ done[r] = None /\ NewManifest \in Manifests
           /\ todo' = ManifestWrite(r, NewManifest) \o IndexWrites(r, NewManifest) \o QueueWrite(r, TRUE)
           /\ Begin(todo')
  BY DEF Create, NewManifest, Manifests, Begin

LEMMA CompleteIs ==
    ASSUME Types, NEW r \in Rounds, Complete(r)
    PROVE  /\ r \in queued /\ manifest[r] # None
           /\ todo' = PartsWrite(r) \o ManifestWrite(r, CompletedManifest(r))
                      \o IndexWrites(r, CompletedManifest(r)) \o QueueWrite(r, FALSE)
           /\ Begin(todo')
  BY DEF Complete, CompletedManifest, PartsWrite, Begin

LEMMA ScanTyped ==
    ASSUME Types, Scanning
    PROVE  /\ cycle \in Cycles /\ Work \in Works /\ Work.day \in Days
           /\ Rows \in SUBSET IndexRows /\ index[Work.day] \in SUBSET IndexRows
           /\ Updated \in SUBSET IndexRows
  <1>1. cycle \in Cycles /\ Work \in Works /\ Work.day \in Days
    BY DEF Types, Scanning, Cycles, Works, Work
  <1>2. index[Work.day] \in SUBSET IndexRows
    BY <1>1 DEF Types
  <1>3. Rows \in SUBSET IndexRows
    BY <1>2 DEF Types, Rows, Caches
  <1>4. \A w \in IndexRows : [w EXCEPT !.detail = FALSE] \in IndexRows
    BY DEF IndexRows
  <1>5. Updated \in SUBSET IndexRows
    BY <1>2, <1>4 DEF Updated
  <1> QED
    BY <1>1, <1>2, <1>3, <1>5

LEMMA CommitIs ==
    ASSUME Types, Scanning, NEW c \in Caches \cup {None}
    PROVE  /\ Commit(c) \in Seq(Writes)
           /\ \/ Commit(c) = <<>>
              \/ \E e : Commit(c) = <<IndexWrite(Work.day, Updated, c)>> \o Note(Work.day, Updated, e)
  <1>1. Work.day \in Days /\ Updated \in SUBSET IndexRows
    BY ScanTyped
  <1> DEFINE x == <<IndexWrite(Work.day, Updated, c)>>
             n == Note(Work.day, Updated, expiry[Work.day])
  <1>2. x \in Seq(Writes)
    BY <1>1, KindsOfWrites DEF IndexWrite
  <1>3. n \in Seq(Writes)
    BY <1>1, NoteIs
  <1>4. Commit(c) = IF Work.updates = {} THEN <<>> ELSE x \o n
    BY DEF Commit, IndexWrite
  <1> HIDE DEF x, n
  <1>5. Commit(c) \in Seq(Writes)
    BY <1>2, <1>3, <1>4, Joined
  <1> QED
    BY <1>4, <1>5 DEF x, n

LEMMA AfterTyped ==
    ASSUME Types, Scanning, NEW R \in SUBSET IndexRows
    PROVE  After(R) \in Caches
  BY ScanTyped DEF After, Caches

(* The row that is next is a row of the day.                               *)
LEMMA NextRow ==
    ASSUME Types, Scanning, Left # {}
    PROVE  Next1 \in Rows /\ Next1 \in IndexRows
  <1>1. Rows \in SUBSET IndexRows
    BY ScanTyped
  <1>2. Left \subseteq Rows
    BY DEF Left
  <1> DEFINE D == {w.round : w \in Left}
  <1>3. D \subseteq Rounds /\ D # {}
    BY <1>1, <1>2 DEF IndexRows
  <1>4. \A w \in Left : w.round \in D
    OBVIOUS
  <1>5. \A m \in D : \E w \in Left : w.round = m
    OBVIOUS
  <1> HIDE DEF D
  <1>6. D \in SUBSET Nat /\ IsFiniteSet(D)
    BY <1>3, RetentionConstants, FS_Subset
  <1>7. PICK m \in D : \A j \in D : j <= m
    BY <1>3, <1>6, Extremes
  <1>8. \E w \in Left : \A v \in Left : v.round <= w.round
    BY <1>4, <1>5, <1>7
  <1>9. Next1 \in Left
    BY <1>8 DEF Next1
  <1> QED
    BY <1>1, <1>2, <1>9

LEMMA CursorTyped ==
    ASSUME Types, cycle \in Cycles, cycle # None, cycle.days # None, NEW k \in Works, NEW s \in Seq(Writes), Step(k, s),
           cached' \in Caches \cup {None}
    PROVE  Types'
  <1>1. cycle \in Cycles /\ Listed(cycle)
    BY DEF Types
  <1>2. cycle' \in Cycles /\ cycle'.days = cycle.days
    BY <1>1 DEF Step, Cycles
  <1>3. Listed(cycle')
    BY <1>1, <1>2 DEF Listed
  <1> HIDE DEF Listed
  <1>4. /\ run' = "on" /\ todo' = s
        /\ UNCHANGED <<clock, manifest, parts, queued, index, expiry, stored, done, faults>>
    BY DEF Step, disk
  <1>5. Listed(stored')
    BY <1>4 DEF Types
  <1>6. Listed(cycle)' /\ Listed(stored)'
    BY <1>3, <1>5 DEF Listed
  <1> QED
    BY <1>2, <1>4, <1>6 DEF Types

LEMMA StepTyped ==
    ASSUME Types, Scanning, NEW k \in Works, NEW s \in Seq(Writes), Step(k, s),
           cached' \in Caches \cup {None}
    PROVE  Types'
  <1>1. cycle \in Cycles /\ cycle # None /\ cycle.days # None
    BY ScanTyped DEF Scanning, Types, Listed
  <1> QED
    BY <1>1, CursorTyped

LEMMA DeletionTyped ==
    ASSUME Types, Deleting
    PROVE  /\ Scanning /\ Work \in Works
           /\ Work.deleting \in Deletings /\ Victim \in Rounds
           /\ Skip(Victim) \in Works
           /\ \A b \in BOOLEAN : [Work EXCEPT !.deleting.marked = b] \in Works
           /\ Pruned \in Works
           /\ manifest[Victim] \in Manifests \cup {None}
  <1>1. Scanning /\ Work \in Works
    BY ScanTyped DEF Deleting
  <1>2. Work.deleting \in Deletings
    BY <1>1 DEF Deleting, Works
  <1>3. Victim \in Rounds /\ Victim \in Nat
    BY <1>2, RetentionConstants DEF Victim, Deletings
  <1>4. Skip(Victim) \in Works
    BY <1>1, <1>3 DEF Skip, Works
  <1>5. Pruned \in Works
    <2>1. [round |-> Victim, mode |-> Work.deleting.mode] \in [round : Rounds, mode : Modes]
      BY <1>2, <1>3 DEF Deletings
    <2> DEFINE u == [round |-> Victim, mode |-> Work.deleting.mode]
               k == Skip(Victim)
    <2>2. Pruned = [k EXCEPT !.updates = @ \cup {u}]
      BY DEF Pruned
    <2> HIDE DEF u, k
    <2>3. u \in [round : Rounds, mode : Modes] /\ k \in Works
      BY <2>1, <1>4 DEF u, k
    <2> QED
      BY <2>2, <2>3 DEF Works
  <1>6. ASSUME NEW b \in BOOLEAN PROVE [Work EXCEPT !.deleting.marked = b] \in Works
    <2> DEFINE k == Work
               x == [Work.deleting EXCEPT !.marked = b]
    <2>1. x \in Deletings
      BY <1>2 DEF Deletings
    <2>2. [Work EXCEPT !.deleting.marked = b] = [k EXCEPT !.deleting = x]
      BY <1>1 DEF Works
    <2> HIDE DEF k, x
    <2>3. k \in Works
      BY <1>1 DEF k
    <2> QED
      BY <2>1, <2>2, <2>3 DEF Works
  <1> QED
    BY <1>1, <1>2, <1>3, <1>4, <1>5, <1>6 DEF Types

LEMMA Singletons ==
    /\ <<>> \in Seq(Writes) /\ <<[file |-> "state"]>> \in Seq(Writes)
    /\ \A r \in Rounds, m \in Manifests \cup {None} :
         <<[file |-> "manifest", round |-> r, value |-> m]>> \in Seq(Writes)
    /\ \A r \in Rounds : <<[file |-> "part", round |-> r]>> \in Seq(Writes)
    /\ \A r \in Rounds : <<[file |-> "parts", round |-> r]>> \in Seq(Writes)
    /\ \A D \in SUBSET Days, e \in Int : <<[file |-> "expiry", days |-> D, value |-> e]>> \in Seq(Writes)
  <1>1. <<>> \in Seq(Writes) /\ \A w \in Writes : <<w>> \in Seq(Writes)
    OBVIOUS
  <1> QED
    BY <1>1, KindsOfWrites

LEMMA MarkTyped ==
    ASSUME Types, StepMark
    PROVE  Types'
  <1>1. Deleting /\ cached' = cached
    BY DEF StepMark, Keep
  <1>2. CASE Unwanted
    BY <1>1, <1>2, DeletionTyped, Singletons, StepTyped DEF StepMark, Abandon, Types
  <1>3. CASE ~Unwanted
    <2> DEFINE m == manifest[Victim]
               k == [Work EXCEPT !.deleting.marked = TRUE]
    <2>1. Victim \in Rounds /\ m \in Manifests \cup {None} /\ k \in Works /\ Scanning
      BY <1>1, DeletionTyped
    <2>2. m # None => [m EXCEPT !.detail = FALSE] \in Manifests
      BY <2>1 DEF Manifests
    <2>3. Step(k, MarkWrites(m))
      BY <1>3 DEF StepMark
    <2> HIDE DEF m, k
    <2>4. MarkWrites(m) \in Seq(Writes)
      BY <2>1, <2>2, Singletons DEF MarkWrites, ManifestWrite
    <2> QED
      BY <1>1, <2>1, <2>3, <2>4, StepTyped DEF Types
  <1> QED
    BY <1>2, <1>3

LEMMA PruneTyped ==
    ASSUME Types, StepPrune
    PROVE  Types'
  <1>1. Deleting /\ cached' = cached /\ cached' \in Caches \cup {None}
    BY DEF StepPrune, Keep, Types
  <1>2. CASE Unwanted
    BY <1>1, <1>2, DeletionTyped, Singletons, StepTyped DEF StepPrune, Abandon
  <1>3. CASE ~Unwanted /\ Remains
    <2>1. Removal \in Seq(Writes)
      BY <1>1, DeletionTyped, Singletons DEF Removal, ManifestWrite
    <2>2. Step(Work, Removal)
      BY <1>3 DEF StepPrune
    <2> QED
      BY <1>1, <2>1, <2>2, DeletionTyped, StepTyped
  <1>4. CASE ~Unwanted /\ ~Remains
    <2>1. Step(Pruned, <<>>)
      BY <1>4 DEF StepPrune
    <2> QED
      BY <1>1, <2>1, DeletionTyped, Singletons, StepTyped
  <1> QED
    BY <1>2, <1>3, <1>4

LEMMA RowStepsTyped ==
    ASSUME Types, StepSkip \/ StepDelete
    PROVE  Types'
  <1>1. Scanning /\ Left # {} /\ Work \in Works /\ Rows \in SUBSET IndexRows
    BY ScanTyped DEF StepSkip, StepDelete, AtRow
  <1>2. Next1 \in IndexRows
    BY <1>1, NextRow
  <1>3. After(Rows) \in Caches
    BY <1>1, AfterTyped
  <1>4. CASE StepSkip
    <2>1. [Work EXCEPT !.after = Next1.round] \in Works
      BY <1>1, <1>2, RetentionConstants DEF Works, IndexRows
    <2> QED
      BY <1>1, <1>3, <1>4, <2>1, Singletons, StepTyped DEF StepSkip
  <1>5. CASE StepDelete
    <2> DEFINE u == [round |-> Next1.round, mode |-> WrittenOff(Next1), marked |-> FALSE]
    <2>1. u \in Deletings
      BY <1>2 DEF Deletings, IndexRows, WrittenOff, Modes
    <2>2. Step([Work EXCEPT !.deleting = u], WriteAhead) /\ cached' = After(Rows)
      BY <1>5 DEF StepDelete
    <2> HIDE DEF u
    <2>3. [Work EXCEPT !.deleting = u] \in Works
      BY <1>1, <2>1 DEF Works
    <2>4. WriteAhead \in Seq(Writes)
      BY Singletons DEF WriteAhead
    <2> QED
      BY <1>1, <1>3, <2>2, <2>3, <2>4, StepTyped
  <1> QED
    BY <1>4, <1>5

LEMMA DayDoneIs ==
    ASSUME Types, StepDayDone
    PROVE  /\ Scanning /\ todo' \in Seq(Writes)
           /\ \/ todo' = <<>>
              \/ \E e : todo' = Note(Work.day, Rows, e)
              \/ todo' = Commit(None)
  <1>1. Scanning
    BY DEF StepDayDone
  <1>2. todo' = Note(Work.day, Rows, expiry[Work.day]) \/ todo' = Commit(None)
    BY DEF StepDayDone
  <1>3. /\ Note(Work.day, Rows, expiry[Work.day]) \in Seq(Writes)
        /\ Commit(None) \in Seq(Writes)
    BY <1>1, ScanTyped, NoteIs, CommitIs
  <1> QED
    BY <1>1, <1>2, <1>3

LEMMA CycleStepsTyped ==
    ASSUME Types, StepDayDone \/ StepList \/ StepDay \/ StepCycleDone \/ StartRun
    PROVE  Types'
  <1>1. CASE StepDayDone
    <2>1. Scanning /\ todo' \in Seq(Writes)
      BY <1>1, DayDoneIs
    <2>2. /\ cycle \in Cycles /\ cycle # None
          /\ cycle.days # None
          /\ cycle.days # {} => Rounds # {}
      BY <2>1, ScanTyped DEF Scanning, Types, Listed
    <2> DEFINE D == cycle.days \ {Work.day}
    <2>3. D \in SUBSET Days /\ D # None /\ (D # {} => Rounds # {})
      <3>1. cycle.days \in SUBSET Days
        BY <2>2 DEF Cycles
      <3>2. cycle.work # None
        BY <2>1 DEF Scanning
      <3> QED
        BY <2>2, <3>1, <3>2, RetentionConstants
    <2>4. /\ cycle' = [cycle EXCEPT !.work = None, !.days = D]
          /\ run' = "on" /\ cached' = None
          /\ UNCHANGED <<clock, manifest, parts, queued, index, expiry, stored, done, faults>>
      BY <1>1 DEF StepDayDone, disk
    <2> HIDE DEF D
    <2>5. cycle' \in Cycles /\ Listed(cycle')
      BY <2>2, <2>3, <2>4 DEF Cycles, Listed
    <2> QED
      BY <2>1, <2>4, <2>5 DEF Types, Listed
  <1>2. CASE StepList
    <2>1. cycle \in Cycles /\ cycle # None
      BY <1>2 DEF StepList, Types
    <2> DEFINE D == {d \in Days : index[d] # {} /\ expiry[d] <= clock}
               stale == {d \in Days : expiry[d] # Absent /\ index[d] = {}}
    <2>2. D # {} => Rounds # {}
      BY DEF Types, IndexRows
    <2>3. D \in SUBSET Days /\ stale \in SUBSET Days
      OBVIOUS
    <2>4. /\ cycle' = [cycle EXCEPT !.days = D] /\ run' = "on"
          /\ todo' = IF stale = {} THEN <<>> ELSE <<Schedule(stale, Absent)>>
          /\ UNCHANGED <<clock, manifest, parts, queued, index, expiry, stored, cached, done, faults>>
      BY <1>2 DEF StepList, disk
    <2> HIDE DEF D, stale
    <2>5. cycle' \in Cycles /\ Listed(cycle')
      BY <2>1, <2>2, <2>3, <2>4, RetentionConstants DEF Cycles, Listed
    <2>6. todo' \in Seq(Writes)
      <3>1. -1 \in Int
        OBVIOUS
      <3>2. <<Schedule(stale, Absent)>> \in Seq(Writes)
        BY <2>3, <3>1, Singletons DEF Schedule, Absent
      <3> QED
        BY <2>4, <3>2, Singletons
    <2> QED
      BY <2>4, <2>5, <2>6 DEF Types, Listed
  <1>3. CASE StepDay
    <2>1. /\ cycle \in Cycles /\ cycle # None /\ Rounds # {}
          /\ cycle.days \in SUBSET Days /\ cycle.days # {} /\ cycle.days # None
      <3>1. cycle # None /\ cycle.days # {} /\ cycle.days # None
        BY <1>3 DEF StepDay
      <3>2. cycle \in Cycles /\ Rounds # {}
        BY <3>1 DEF Types, Listed
      <3> QED
        BY <3>1, <3>2 DEF Cycles
    <2>2. Min(cycle.days) \in Days
      BY <2>1, RetentionConstants, Earliest
    <2>3. \E m \in Rounds : \A j \in Rounds : j <= m
      BY <2>1, RetentionConstants, Extremes
    <2>4. Max(Rounds) \in Nat
      BY <2>3, RetentionConstants DEF Max
    <2>5. [day |-> Min(cycle.days), after |-> Max(Rounds) + 1, updates |-> {}, deleting |-> None] \in Works
      BY <2>2, <2>4 DEF Works
    <2> QED
      BY <1>3, <2>1, <2>5, Singletons, CursorTyped DEF StepDay, Keep, Types
  <1>4. CASE StepCycleDone
    BY <1>4 DEF StepCycleDone, Types, Listed, disk
  <1>5. CASE StartRun
    <2>1. cycle' \in Cycles /\ Listed(cycle')
      <3>1. CASE cycle = None
        <4> DEFINE c == [days |-> None, work |-> None]
        <4>1. c \in Cycles /\ c.days = None /\ c.work = None
          BY DEF Cycles
        <4>2. cycle' = c
          BY <1>5, <3>1 DEF StartRun
        <4> HIDE DEF c
        <4> QED
          BY <4>1, <4>2 DEF Listed
      <3>2. CASE cycle # None
        BY <1>5, <3>2 DEF StartRun, Types
      <3> QED
        BY <3>1, <3>2
    <2>2. run' = "fresh" /\ UNCHANGED <<clock, manifest, parts, queued, index, expiry, stored, cached, todo, done, faults>>
      BY <1>5 DEF StartRun, disk
    <2> QED
      BY <2>1, <2>2 DEF Types, Listed
  <1> QED
    BY <1>1, <1>2, <1>3, <1>4, <1>5

LEMMA EndRunIs ==
    ASSUME Types, EndRun
    PROVE  /\ run # "off" /\ todo = <<>> /\ run' = "off"
           /\ \/ todo' = <<[file |-> "state"]>> /\ cycle' = cycle
              \/ /\ Scanning /\ cycle' = [cycle EXCEPT !.work.updates = {}]
                 /\ After(Updated) \in Caches
                 /\ todo' = Commit(After(Updated)) \o <<[file |-> "state"]>>
           /\ UNCHANGED <<clock, manifest, parts, queued, index, expiry, stored, cached, done, faults>>
  BY ScanTyped, AfterTyped DEF EndRun, disk

LEMMA EndRunTyped ==
    ASSUME Types, EndRun
    PROVE  Types'
  <1>1. /\ run' = "off"
        /\ UNCHANGED <<clock, manifest, parts, queued, index, expiry, stored, cached, done, faults>>
    BY EndRunIs
  <1>2. CASE todo' = <<[file |-> "state"]>> /\ cycle' = cycle
    BY <1>1, <1>2, Singletons DEF Types, Listed
  <1>3. CASE /\ Scanning /\ cycle' = [cycle EXCEPT !.work.updates = {}]
             /\ After(Updated) \in Caches
             /\ todo' = Commit(After(Updated)) \o <<[file |-> "state"]>>
    <2>1. todo' \in Seq(Writes)
      BY <1>3, CommitIs, Singletons, Joined
    <2>2. cycle \in Cycles /\ Work \in Works /\ Listed(cycle) /\ cycle.work # None /\ cycle # None
      BY <1>3, ScanTyped DEF Types, Scanning
    <2> DEFINE k == [Work EXCEPT !.updates = {}]
    <2>3. k \in Works
      BY <2>2 DEF Works
    <2>4. cycle' = [cycle EXCEPT !.work = k]
      BY <1>3 DEF Work
    <2> HIDE DEF k
    <2>5. cycle' \in Cycles /\ Listed(cycle')
      BY <2>2, <2>3, <2>4 DEF Cycles, Listed
    <2> QED
      BY <1>1, <2>1, <2>5 DEF Types, Listed
  <1> QED
    BY <1>2, <1>3, EndRunIs

(* What the next write does to the files.                                  *)
Upcoming == todo[1]

LEMMA WriteIs ==
    ASSUME Types, Write
    PROVE  /\ todo # <<>> /\ Upcoming \in Writes
           /\ todo' = Tail(todo)
           /\ UNCHANGED <<clock, cycle, run, faults>>
           /\ manifest' = IF Upcoming.file = "manifest"
                          THEN [manifest EXCEPT ![Upcoming.round] = Upcoming.value] ELSE manifest
           /\ done' = IF Upcoming.file = "manifest" /\ Upcoming.value # None /\ done[Upcoming.round] = None
                      THEN [done EXCEPT ![Upcoming.round] = Upcoming.value.at] ELSE done
           /\ parts' = CASE Upcoming.file = "part" -> [parts EXCEPT ![Upcoming.round] = @ - 1]
                         [] Upcoming.file = "parts" -> [parts EXCEPT ![Upcoming.round] = Parts]
                         [] OTHER -> parts
           /\ queued' = CASE Upcoming.file = "queue" /\ Upcoming.value -> queued \cup {Upcoming.round}
                          [] Upcoming.file = "queue" /\ ~Upcoming.value -> queued \ {Upcoming.round}
                          [] OTHER -> queued
           /\ index' = IF Upcoming.file = "index" THEN [index EXCEPT ![Upcoming.day] = Upcoming.rows] ELSE index
           /\ cached' = IF Upcoming.file = "index"
                           /\ (Upcoming.cache # None \/ (cached # None /\ cached.day = Upcoming.day))
                        THEN Upcoming.cache ELSE cached
           /\ expiry' = IF Upcoming.file = "expiry"
                        THEN [d \in Days |-> IF d \in Upcoming.days THEN Upcoming.value ELSE expiry[d]]
                        ELSE expiry
           /\ stored' = IF Upcoming.file = "state" THEN cycle ELSE stored
  <1>1. todo # <<>> /\ todo \in Seq(Writes)
    BY DEF Write, Types
  <1>2. Head(todo) = Upcoming /\ Upcoming \in Writes
    BY <1>1, NextWrite DEF Upcoming
  <1> QED
    BY <1>1, <1>2 DEF Write

LEMMA WriteTyped ==
    ASSUME Types, Write
    PROVE  Types'
  <1> DEFINE w == Upcoming
  <1>1. w \in Writes /\ Tail(todo) \in Seq(Writes)
    BY WriteIs, NextWrite DEF Types
  <1>2. manifest' \in [Rounds -> Manifests \cup {None}] /\ done' \in [Rounds -> Nat \cup {None}]
    <2>1. w.file = "manifest" => w.round \in Rounds /\ w.value \in Manifests \cup {None}
      BY <1>1, WrittenIs
    <2>2. w.file = "manifest" /\ w.value # None => w.value.at \in Nat \cup {None}
      BY <2>1 DEF Manifests
    <2> HIDE DEF w
    <2> QED
      BY <2>1, <2>2, WriteIs DEF Types, w
  <1>3. parts' \in [Rounds -> Int]
    <2>1. w.file \in {"part", "parts"} => w.round \in Rounds
      BY <1>1, WrittenIs
    <2>2. parts \in [Rounds -> Int] /\ Parts \in Int
      BY RetentionConstants DEF Types
    <2>3. CASE w.file = "part"
      <3>1. parts' = [parts EXCEPT ![w.round] = @ - 1]
        BY <2>3, WriteIs
      <3> QED
        BY <2>1, <2>2, <2>3, <3>1
    <2>4. CASE w.file = "parts"
      <3>1. parts' = [parts EXCEPT ![w.round] = Parts]
        BY <2>4, WriteIs
      <3> QED
        BY <2>1, <2>2, <2>4, <3>1
    <2>5. CASE w.file \notin {"part", "parts"}
      <3>1. parts' = parts
        BY <2>5, WriteIs
      <3> QED
        BY <2>2, <3>1
    <2> QED
      BY <2>3, <2>4, <2>5
  <1>4. queued' \subseteq Rounds
    <2>1. w.file = "queue" => w.round \in Rounds /\ w.value \in BOOLEAN
      BY <1>1, WrittenIs
    <2>2. \/ queued' = queued \/ queued' = queued \ {w.round}
          \/ w.file = "queue" /\ queued' = queued \cup {w.round}
      BY WriteIs
    <2> QED
      BY <2>1, <2>2 DEF Types
  <1>5. /\ index' \in [Days -> SUBSET IndexRows] /\ expiry' \in [Days -> Int]
        /\ cached' \in Caches \cup {None}
    <2>1. /\ w.file = "index" => /\ w.day \in Days /\ w.rows \in SUBSET IndexRows
                                 /\ w.cache \in Caches \cup {None}
          /\ w.file = "expiry" => w.value \in Int
      BY <1>1, WrittenIs
    <2> HIDE DEF w
    <2> QED
      BY <2>1, WriteIs DEF Types, w
  <1>6. stored' \in Cycles \cup {None} /\ Listed(stored')
    BY WriteIs DEF Types
  <1> QED
    BY <1>1, <1>2, <1>3, <1>4, <1>5, <1>6, WriteIs DEF Types, Listed

LEMMA InterruptionTyped ==
    ASSUME Types, Fail \/ Crash
    PROVE  Types'
  <1>1. /\ todo' = <<>> /\ run' = "off"
        /\ UNCHANGED <<clock, manifest, parts, queued, index, expiry, stored, done>>
        /\ (cycle' = stored /\ cached' = None) \/ UNCHANGED <<cycle, cached>>
    BY DEF Fail, Crash, Forget, disk
  <1> QED
    BY <1>1, Singletons DEF Types, Listed

LEMMA HandlerTyped ==
    ASSUME Types, NEW r \in Rounds, Create(r) \/ Complete(r)
    PROVE  Types'
  <1>1. todo' \in Seq(Writes) /\ Begin(todo')
    <2>1. CASE Create(r)
      BY <2>1, CreateIs, CreateWrites
    <2>2. CASE Complete(r)
      <3> DEFINE m == CompletedManifest(r)
      <3>1. m \in Manifests
        BY <2>2, CompleteIs, CompletedTyped
      <3>2. todo' = PartsWrite(r) \o ManifestWrite(r, m) \o IndexWrites(r, m) \o QueueWrite(r, FALSE)
        BY <2>2, CompleteIs
      <3> HIDE DEF m
      <3>3. /\ ManifestWrite(r, m) \in Seq(Writes) /\ IndexWrites(r, m) \in Seq(Writes)
            /\ QueueWrite(r, FALSE) \in Seq(Writes)
        BY <3>1, CreateWrites
      <3>4. PartsWrite(r) \in Seq(Writes)
        BY Singletons DEF PartsWrite
      <3>5. todo' \in Seq(Writes)
        BY <3>2, <3>3, <3>4, Joined
      <3> QED
        BY <2>2, <3>5, CompleteIs
    <2> QED
      BY <2>1, <2>2
  <1> QED
    BY <1>1 DEF Begin, Types, Listed, disk, memory

LEMMA TypesKept ==
    ASSUME Types, [Next]_vars
    PROVE  Types'
  <1>1. CASE UNCHANGED vars
    BY <1>1 DEF vars, disk, memory, Types, Listed
  <1>2. CASE Tick
    BY <1>2 DEF Tick, disk, memory, Types, Listed
  <1> QED
    BY <1>1, <1>2, HandlerTyped, MarkTyped, PruneTyped, RowStepsTyped, CycleStepsTyped,
       EndRunTyped, WriteTyped, InterruptionTyped DEF Next, Steps

-----------------------------------------------------------------------------
(* Every day is scanned in time.                                           *)

Elsewhere(s) == \A i \in 1..Len(s) : s[i].file \notin {"index", "expiry"}

LEMMA ElsewherePlanned ==
    ASSUME NEW s, Elsewhere(s)
    PROVE  Planned(s)
  BY DEF Elsewhere, Planned, CachedWrites, IndexWritesInTime, ExpiryWritesInTime

LEMMA PlannedAround ==
    ASSUME NEW s \in Seq(Writes), NEW t \in Seq(Writes), Planned(s), Elsewhere(t)
    PROVE  Planned(s \o t) /\ Planned(t \o s)
  <1>1. ASSUME NEW u \in Seq(Writes), NEW n \in Nat, NEW m \in Nat, m = n + Len(s),
               \A i \in 1..Len(s) : i + n \in 1..Len(u) /\ u[i + n] = s[i],
               \A i \in 1..Len(u) : i \notin (n + 1)..m => u[i].file \notin {"index", "expiry"}
        PROVE  Planned(u)
    <2>1. \A i \in 1..Len(u) :
            u[i].file \in {"index", "expiry"} => i - n \in 1..Len(s) /\ u[i] = s[i - n]
      <3>1. ASSUME NEW i \in 1..Len(u), u[i].file \in {"index", "expiry"}
            PROVE  i - n \in 1..Len(s) /\ u[i] = s[i - n]
        <4>1. i \in (n + 1)..m
          BY <1>1, <3>1
        <4>2. i - n \in 1..Len(s) /\ (i - n) + n = i
          BY <1>1, <4>1
        <4> QED
          BY <1>1, <4>2
      <3> QED
        BY <3>1
    <2>2. CachedWrites(u)
      BY <2>1 DEF CachedWrites, Planned
    <2>3. IndexWritesInTime(u)
      <3>1. ASSUME NEW i \in 1..Len(u), u[i].file = "index", ~InTime(u[i].rows, expiry[u[i].day])
            PROVE  \E k \in 1..(i - 1) : u[k].file = "expiry" /\ u[i].day \in u[k].days
        <4>1. i - n \in 1..Len(s) /\ u[i] = s[i - n]
          BY <2>1, <3>1
        <4>2. PICK k \in 1..((i - n) - 1) : s[k].file = "expiry" /\ s[i - n].day \in s[k].days
          BY <3>1, <4>1 DEF IndexWritesInTime, Planned
        <4>3. k \in 1..Len(s) /\ k + n \in 1..(i - 1)
          BY <4>1, <4>2
        <4> QED
          BY <1>1, <4>1, <4>2, <4>3
      <3> QED
        BY <3>1 DEF IndexWritesInTime
    <2>4. ExpiryWritesInTime(u)
      <3>1. ASSUME NEW k \in 1..Len(u), u[k].file = "expiry", NEW d \in u[k].days
            PROVE  /\ \/ InTime(index[d], u[k].value)
                      \/ \E i \in 1..(k - 1) : u[i].file = "index" /\ u[i].day = d
                   /\ \A i \in 1..Len(u) : u[i].file = "index" /\ u[i].day = d
                                           => InTime(u[i].rows, u[k].value)
        <4>1. k - n \in 1..Len(s) /\ u[k] = s[k - n]
          BY <2>1, <3>1
        <4>2. /\ \/ InTime(index[d], s[k - n].value)
                 \/ \E i \in 1..((k - n) - 1) : s[i].file = "index" /\ s[i].day = d
              /\ \A i \in 1..Len(s) : s[i].file = "index" /\ s[i].day = d
                                      => InTime(s[i].rows, s[k - n].value)
          BY <3>1, <4>1 DEF ExpiryWritesInTime, Planned
        <4>3. ASSUME NEW i \in 1..((k - n) - 1), s[i].file = "index", s[i].day = d
              PROVE  \E j \in 1..(k - 1) : u[j].file = "index" /\ u[j].day = d
          <5>1. i \in 1..Len(s) /\ i + n \in 1..(k - 1)
            BY <4>1
          <5> QED
            BY <1>1, <4>3, <5>1
        <4>4. \A i \in 1..Len(u) : u[i].file = "index" /\ u[i].day = d
                                   => InTime(u[i].rows, u[k].value)
          BY <2>1, <4>1, <4>2
        <4> QED
          BY <4>1, <4>2, <4>3, <4>4
      <3> QED
        BY <3>1 DEF ExpiryWritesInTime
    <2> QED
      BY <2>2, <2>3, <2>4 DEF Planned
  <1>2. Planned(s \o t)
    <2> DEFINE u == s \o t
    <2>1. u \in Seq(Writes) /\ \A i \in 1..Len(s) : i + 0 \in 1..Len(u) /\ u[i + 0] = s[i]
      BY Joined
    <2>2. \A i \in 1..Len(u) : i \in 1..Len(s) \/ u[i].file \notin {"index", "expiry"}
      BY Joined DEF Elsewhere
    <2> HIDE DEF u
    <2>3. /\ 0 \in Nat /\ Len(s) \in Nat /\ Len(s) = 0 + Len(s)
          /\ \A i \in 1..Len(u) : i \notin (0 + 1)..Len(s) => u[i].file \notin {"index", "expiry"}
      BY <2>2
    <2> QED
      BY <1>1, <2>1, <2>3 DEF u
  <1>3. Planned(t \o s)
    <2> DEFINE u == t \o s
    <2>1. u \in Seq(Writes) /\ \A i \in 1..Len(s) : i + Len(t) \in 1..Len(u) /\ u[i + Len(t)] = s[i]
      BY Joined
    <2>2. \A i \in 1..Len(u) : u[i].file \in {"index", "expiry"} => i - Len(t) \in 1..Len(s)
      BY Joined DEF Elsewhere
    <2> HIDE DEF u
    <2> DEFINE m == Len(t) + Len(s)
    <2>3. Len(t) \in Nat /\ m \in Nat /\ m = Len(t) + Len(s)
      OBVIOUS
    <2>4. \A i \in 1..Len(u) : i \notin (Len(t) + 1)..m => u[i].file \notin {"index", "expiry"}
      BY <2>2, <2>3
    <2> HIDE DEF m
    <2> QED
      BY <1>1, <2>1, <2>3, <2>4 DEF u
  <1> QED
    BY <1>2, <1>3

LEMMA Extended ==
    ASSUME NEW S, NEW s \in Seq(S), NEW x \in S, NEW u \in Seq(S), Len(u) = Len(s) + 1,
           \A i \in 1..Len(s) : u[i] = s[i], u[Len(u)] = x
    PROVE  s \o <<x>> = u
  <1>1. <<x>> \in Seq(S) /\ Len(<<x>>) = 1 /\ <<x>>[1] = x /\ Len(s) \in Nat
    OBVIOUS
  <1> DEFINE t == <<x>>
             v == s \o t
  <1> HIDE DEF t
  <1>2. /\ v \in Seq(S) /\ Len(v) = Len(s) + Len(t)
        /\ \A i \in 1..Len(s) + Len(t) : v[i] = IF i <= Len(s) THEN s[i] ELSE t[i - Len(s)]
    BY <1>1, ConcatProperties DEF t
  <1> HIDE DEF v
  <1>3. ASSUME NEW i \in 1..Len(u) PROVE u[i] = v[i]
    <2>1. i \in 1..Len(s) + Len(t)
      BY <1>1 DEF t
    <2>2. CASE i <= Len(s)
      BY <1>1, <1>2, <2>1, <2>2
    <2>3. CASE ~(i <= Len(s))
      <3>1. i = Len(u) /\ i - Len(s) = 1
        BY <1>1, <2>3
      <3> QED
        BY <1>1, <1>2, <2>1, <2>3, <3>1 DEF t
    <2> QED
      BY <2>2, <2>3
  <1>4. Len(u) = Len(v)
    BY <1>1, <1>2 DEF t
  <1>5. u = v
    BY <1>2, <1>3, <1>4, SeqEqual
  <1> QED
    BY <1>5 DEF t, v

LEMMA ShortSequences ==
    ASSUME NEW p, NEW q, NEW r
    PROVE  /\ <<>> \o <<q>> \o <<>> = <<q>> /\ <<p>> \o <<q>> \o <<>> = <<p, q>>
           /\ <<>> \o <<q>> \o <<r>> = <<q, r>> /\ <<p>> \o <<q>> \o <<r>> = <<p, q, r>>
           /\ <<p>> \o <<q>> = <<p, q>>
  <1> DEFINE S == {p, q, r}
             a == <<p>>
             b == <<q>>
             c == <<p, q>>
             d == <<q, r>>
             e == <<p, q, r>>
  <1>1. /\ p \in S /\ q \in S /\ r \in S /\ <<>> \in Seq(S)
        /\ a \in Seq(S) /\ Len(a) = 1 /\ a[1] = p /\ b \in Seq(S) /\ Len(b) = 1 /\ b[1] = q
        /\ c \in Seq(S) /\ Len(c) = 2 /\ c[1] = p /\ c[2] = q
        /\ d \in Seq(S) /\ Len(d) = 2 /\ d[1] = q /\ d[2] = r
        /\ e \in Seq(S) /\ Len(e) = 3 /\ e[1] = p /\ e[2] = q /\ e[3] = r
    OBVIOUS
  <1> HIDE DEF S, a, b, c, d, e
  <1>2. <<>> \o b = b /\ b \o <<>> = b /\ c \o <<>> = c
    BY <1>1, ConcatEmptySeq
  <1>3. Len(c) = Len(a) + 1 /\ c[Len(c)] = q /\ \A i \in 1..Len(a) : c[i] = a[i]
    BY <1>1
  <1>4. Len(d) = Len(b) + 1 /\ d[Len(d)] = r /\ \A i \in 1..Len(b) : d[i] = b[i]
    BY <1>1
  <1>5. Len(e) = Len(c) + 1 /\ e[Len(e)] = r /\ \A i \in 1..Len(c) : e[i] = c[i]
    BY <1>1
  <1>6. a \o <<q>> = c
    BY <1>1, <1>3, Extended
  <1>7. b \o <<r>> = d
    BY <1>1, <1>4, Extended
  <1>8. c \o <<r>> = e
    BY <1>1, <1>5, Extended
  <1> QED
    BY <1>2, <1>6, <1>7, <1>8 DEF a, b, c, d, e

(* A single index file with what announces and what follows it.            *)
LEMMA IndexPlanned ==
    ASSUME Types, NEW d \in Days, NEW rows \in SUBSET IndexRows, NEW c \in Caches \cup {None},
           c # None => c = [day |-> d, rows |-> rows],
           NEW b, NEW n,
           \/ b = <<>> /\ InTime(rows, expiry[d])
           \/ b = <<[file |-> "expiry", days |-> {d}, value |-> 0]>>,
           \/ n = <<>>
           \/ \E v \in Int : InTime(rows, v) /\ n = <<[file |-> "expiry", days |-> {d}, value |-> v]>>
    PROVE  Planned(b \o <<IndexWrite(d, rows, c)>> \o n)
  <1> DEFINE x == [file |-> "index", day |-> d, rows |-> rows, cache |-> c]
             y == [file |-> "expiry", days |-> {d}, value |-> 0]
             z(v) == [file |-> "expiry", days |-> {d}, value |-> v]
  <1>1. \A R \in SUBSET IndexRows : InTime(R, 0)
    <2>1. \A w \in IndexRows : w.at # None => 0 <= w.at + (IF w.detail THEN Detail ELSE Whole) + 1
      BY RetentionConstants DEF IndexRows
    <2> QED
      BY <2>1 DEF InTime
  <1>2. index[d] \in SUBSET IndexRows
    BY DEF Types
  <1>3. InTime(rows, expiry[d]) => Planned(<<x>>)
    BY DEF Planned, CachedWrites, IndexWritesInTime, ExpiryWritesInTime
  <1>4. Planned(<<y, x>>)
    BY <1>1, <1>2 DEF Planned, CachedWrites, IndexWritesInTime, ExpiryWritesInTime
  <1>5. ASSUME NEW v \in Int, InTime(rows, v)
        PROVE  /\ InTime(rows, expiry[d]) => Planned(<<x, z(v)>>)
               /\ Planned(<<y, x, z(v)>>)
    <2>1. InTime(rows, expiry[d]) => Planned(<<x, z(v)>>)
      BY <1>5 DEF Planned, CachedWrites, IndexWritesInTime, ExpiryWritesInTime
    <2>2. Planned(<<y, x, z(v)>>)
      BY <1>1, <1>2, <1>5 DEF Planned, CachedWrites, IndexWritesInTime, ExpiryWritesInTime
    <2> QED
      BY <2>1, <2>2
  <1>6. /\ (b = <<>> /\ InTime(rows, expiry[d])) \/ b = <<y>>
        /\ n = <<>> \/ \E v \in Int : InTime(rows, v) /\ n = <<z(v)>>
    OBVIOUS
  <1> HIDE DEF x, y, z
  <1>7. Planned(b \o <<x>> \o n)
    <2>1. CASE n = <<>>
      BY <1>3, <1>4, <1>6, <2>1, ShortSequences
    <2>2. ASSUME NEW v \in Int, InTime(rows, v), n = <<z(v)>>
          PROVE  Planned(b \o <<x>> \o n)
      <3> DEFINE t == z(v)
      <3>1. /\ InTime(rows, expiry[d]) => Planned(<<x, t>>)
            /\ Planned(<<y, x, t>>) /\ n = <<t>>
        BY <1>5, <2>2
      <3> HIDE DEF t
      <3>2. <<>> \o <<x>> \o <<t>> = <<x, t>> /\ <<y>> \o <<x>> \o <<t>> = <<y, x, t>>
        BY ShortSequences
      <3> QED
        BY <1>6, <3>1, <3>2
    <2> QED
      BY <1>6, <2>1, <2>2
  <1> QED
    BY <1>7 DEF IndexWrite, x

LEMMA IndexWritesPlanned ==
    ASSUME Types, NEW r \in Rounds, NEW m \in Manifests
    PROVE  IndexWrites(r, m) \in Seq(Writes) /\ Planned(IndexWrites(r, m))
  <1> DEFINE d == DayOf[r]
             rows == NewRows(r, m)
  <1>1. /\ d \in Days /\ rows \in SUBSET IndexRows /\ IndexWrites(r, m) \in Seq(Writes)
        /\ \/ IndexWrites(r, m) = <<>>
           \/ \E e : IndexWrites(r, m) =
                     BeforeIndex(d, rows) \o <<IndexWrite(d, rows, None)>> \o Note(d, rows, e)
    BY IndexWritesAre
  <1> HIDE DEF d, rows
  <1>2. CASE IndexWrites(r, m) = <<>>
    BY <1>1, <1>2, ElsewherePlanned DEF Elsewhere
  <1>3. ASSUME NEW e, IndexWrites(r, m) =
                        BeforeIndex(d, rows) \o <<IndexWrite(d, rows, None)>> \o Note(d, rows, e)
        PROVE  Planned(IndexWrites(r, m))
    <2> DEFINE b == BeforeIndex(d, rows)
               n == Note(d, rows, e)
    <2>1. \/ b = <<>> /\ InTime(rows, expiry[d])
          \/ b = <<[file |-> "expiry", days |-> {d}, value |-> 0]>>
      BY <1>1, AnnouncedIs DEF Types
    <2>2. \/ n = <<>>
          \/ \E v \in Int : InTime(rows, v) /\ n = <<[file |-> "expiry", days |-> {d}, value |-> v]>>
      BY <1>1, NoteIs
    <2> HIDE DEF b, n
    <2>3. Planned(b \o <<IndexWrite(d, rows, None)>> \o n)
      BY <1>1, <2>1, <2>2, IndexPlanned
    <2> QED
      BY <1>3, <2>3 DEF b, n
  <1> QED
    BY <1>1, <1>2, <1>3

LEMMA CommitPlanned ==
    ASSUME Types, Scanning, ExpiryScheduled, NEW c \in {None, After(Updated)}
    PROVE  Commit(c) \in Seq(Writes) /\ Planned(Commit(c))
  <1> DEFINE d == Work.day
  <1>1. /\ d \in Days /\ Updated \in SUBSET IndexRows /\ index[d] \in SUBSET IndexRows
        /\ c \in Caches \cup {None} /\ expiry[d] \in Int
        /\ c # None => c = [day |-> d, rows |-> Updated]
    BY ScanTyped, AfterTyped DEF After, Types
  <1>2. InTime(Updated, expiry[d])
    <2>1. ASSUME NEW w \in Updated, w.at # None
          PROVE  expiry[d] <= w.at + (IF w.detail THEN Detail ELSE Whole) + 1
      <3>1. PICK v \in index[d] : w = v \/ w = [v EXCEPT !.detail = FALSE]
        BY DEF Updated
      <3>2. v \in IndexRows
        BY <1>1
      <3>3. /\ w.at = v.at /\ v.at \in Nat /\ v.detail \in BOOLEAN
            /\ w = v \/ w.detail = FALSE
        BY <2>1, <3>1, <3>2 DEF IndexRows
      <3>4. expiry[d] <= v.at + (IF v.detail THEN Detail ELSE Whole) + 1
        BY <1>1, <2>1, <3>3 DEF ExpiryScheduled
      <3> QED
        BY <1>1, <3>3, <3>4, RetentionConstants
    <2> QED
      BY <2>1 DEF InTime
  <1>3. /\ Commit(c) \in Seq(Writes)
        /\ \/ Commit(c) = <<>>
           \/ \E e : Commit(c) = <<IndexWrite(d, Updated, c)>> \o Note(d, Updated, e)
    BY <1>1, CommitIs
  <1> HIDE DEF d
  <1>4. CASE Commit(c) = <<>>
    BY <1>3, <1>4, ElsewherePlanned DEF Elsewhere
  <1>5. ASSUME NEW e, Commit(c) = <<IndexWrite(d, Updated, c)>> \o Note(d, Updated, e)
        PROVE  Planned(Commit(c))
    <2> DEFINE n == Note(d, Updated, e)
               x == <<IndexWrite(d, Updated, c)>>
    <2>1. \/ n = <<>>
          \/ \E v \in Int : InTime(Updated, v) /\ n = <<[file |-> "expiry", days |-> {d}, value |-> v]>>
      BY <1>1, NoteIs
    <2>2. x \in Seq(Writes)
      BY <1>1, KindsOfWrites DEF IndexWrite
    <2> HIDE DEF n
    <2>3. Planned(<<>> \o x \o n)
      BY <1>1, <1>2, <2>1, IndexPlanned
    <2> HIDE DEF x
    <2>4. <<>> \o x = x
      BY <2>2, ConcatEmptySeq
    <2> QED
      BY <1>5, <2>3, <2>4 DEF n, x
  <1> QED
    BY <1>3, <1>4, <1>5

(* A note about a day whose rows are known.                                *)
LEMMA NotePlanned ==
    ASSUME Types, NEW d \in Days, NEW e
    PROVE  Planned(Note(d, index[d], e))
  <1>1. index[d] \in SUBSET IndexRows
    BY DEF Types
  <1>2. CASE Note(d, index[d], e) = <<>>
    BY <1>2, ElsewherePlanned DEF Elsewhere
  <1>3. ASSUME NEW v \in Int, InTime(index[d], v),
               Note(d, index[d], e) = <<[file |-> "expiry", days |-> {d}, value |-> v]>>
        PROVE  Planned(Note(d, index[d], e))
    BY <1>3 DEF Planned, CachedWrites, IndexWritesInTime, ExpiryWritesInTime
  <1> QED
    BY <1>1, <1>2, <1>3, NoteIs

(* A handler that starts has changed no file yet.                          *)
LEMMA StartScheduled ==
    ASSUME Scheduled, UNCHANGED <<index, expiry>>, Planned(todo'), Cached'
    PROVE  Scheduled'
  <1>1. ExpiryScheduled'
    BY DEF Scheduled, ExpiryScheduled
  <1>2. CachedWrites(todo)'
    BY DEF Planned, CachedWrites
  <1>3. IndexWritesInTime(todo)'
    BY DEF Planned, IndexWritesInTime, InTime
  <1>4. ExpiryWritesInTime(todo)'
    BY DEF Planned, ExpiryWritesInTime, InTime
  <1> QED
    BY <1>1, <1>2, <1>3, <1>4 DEF Scheduled, Planned

LEMMA HandlerScheduled ==
    ASSUME Types, Scheduled, NEW r \in Rounds, Create(r) \/ Complete(r)
    PROVE  Scheduled'
  <1>1. ASSUME NEW m \in Manifests
        PROVE  /\ ManifestWrite(r, m) \in Seq(Writes) /\ Elsewhere(ManifestWrite(r, m))
               /\ PartsWrite(r) \in Seq(Writes) /\ Elsewhere(PartsWrite(r))
               /\ \A b \in BOOLEAN : QueueWrite(r, b) \in Seq(Writes) /\ Elsewhere(QueueWrite(r, b))
    <2>1. Elsewhere(ManifestWrite(r, m)) /\ Elsewhere(PartsWrite(r))
      BY DEF ManifestWrite, PartsWrite, Elsewhere
    <2>2. \A b \in BOOLEAN : Elsewhere(QueueWrite(r, b))
      BY DEF QueueWrite, Elsewhere
    <2>3. PartsWrite(r) \in Seq(Writes)
      BY Singletons DEF PartsWrite
    <2> QED
      BY <2>1, <2>2, <2>3, CreateWrites
  <1>2. Planned(todo')
    <2>1. CASE Create(r)
      <3> DEFINE M == ManifestWrite(r, NewManifest)
                 I == IndexWrites(r, NewManifest)
                 Q == QueueWrite(r, TRUE)
      <3>1. todo' = M \o I \o Q /\ NewManifest \in Manifests
        BY <2>1, CreateIs
      <3>2. I \in Seq(Writes) /\ Planned(I)
        BY <3>1, IndexWritesPlanned
      <3>3. M \in Seq(Writes) /\ Elsewhere(M) /\ Q \in Seq(Writes) /\ Elsewhere(Q)
        BY <1>1, <3>1
      <3> HIDE DEF M, I, Q
      <3>4. M \o I \in Seq(Writes) /\ Planned(M \o I)
        BY <3>2, <3>3, PlannedAround, Joined
      <3> QED
        BY <3>1, <3>3, <3>4, PlannedAround
    <2>2. CASE Complete(r)
      <3> DEFINE m == CompletedManifest(r)
                 P == PartsWrite(r)
                 M == ManifestWrite(r, m)
                 I == IndexWrites(r, m)
                 Q == QueueWrite(r, FALSE)
      <3>1. todo' = P \o M \o I \o Q /\ m \in Manifests
        BY <2>2, CompleteIs, CompletedTyped
      <3> HIDE DEF m
      <3>2. I \in Seq(Writes) /\ Planned(I)
        BY <3>1, IndexWritesPlanned
      <3>3. /\ M \in Seq(Writes) /\ Elsewhere(M) /\ Q \in Seq(Writes) /\ Elsewhere(Q)
            /\ P \in Seq(Writes) /\ Elsewhere(P)
        BY <1>1, <3>1
      <3> HIDE DEF P, M, I, Q
      <3>4. P \o M \in Seq(Writes) /\ Elsewhere(P \o M)
        BY <3>3, Joined DEF Elsewhere
      <3>5. P \o M \o I \in Seq(Writes) /\ Planned(P \o M \o I)
        BY <3>2, <3>4, PlannedAround, Joined
      <3> QED
        BY <3>1, <3>3, <3>5, PlannedAround
    <2> QED
      BY <2>1, <2>2
  <1>3. UNCHANGED <<index, expiry, cached>>
    BY CreateIs, CompleteIs DEF Begin, disk, memory
  <1> QED
    BY <1>2, <1>3, StartScheduled DEF Scheduled, Cached

(* Of the steps of maintenance two write an index or an expiry.            *)
LEMMA MaintenanceScheduled ==
    ASSUME Types, Scheduled, StartRun \/ Steps \/ EndRun
    PROVE  Scheduled'
  <1>1. UNCHANGED <<index, expiry>>
    BY DEF StartRun, Steps, EndRun, StepMark, StepPrune, StepSkip, StepDelete, StepDayDone,
           StepList, StepDay, StepCycleDone, Abandon, Step, disk
  <1>2. Scanning => Rows = index[Work.day]
    BY DEF Scheduled, Cached, Rows
  <1>3. Cached'
    <2>1. \/ cached' = cached \/ cached' = None
          \/ Scanning /\ cached' = [day |-> Work.day, rows |-> Rows]
      BY DEF StartRun, Steps, EndRun, StepMark, StepPrune, StepSkip, StepDelete, StepDayDone,
             StepList, StepDay, StepCycleDone, AtRow, Keep, After
    <2> QED
      BY <1>1, <1>2, <2>1 DEF Scheduled, Cached
  <1>4. Planned(todo')
    <2>1. CASE StepMark
      <3>1. todo' = <<>> \/ todo' = MarkWrites(manifest[Victim])
        BY <2>1 DEF StepMark, Abandon, Step
      <3>2. Elsewhere(MarkWrites(manifest[Victim]))
        BY DEF MarkWrites, ManifestWrite, Elsewhere
      <3> QED
        BY <3>1, <3>2, ElsewherePlanned DEF Elsewhere
    <2>2. CASE StepPrune
      <3>1. todo' = <<>> \/ todo' = Removal
        BY <2>2 DEF StepPrune, Abandon, Step
      <3>2. Elsewhere(Removal)
        BY DEF Removal, ManifestWrite, Elsewhere
      <3> QED
        BY <3>1, <3>2, ElsewherePlanned DEF Elsewhere
    <2>3. CASE StepSkip \/ StepDelete \/ StepDay
      <3>1. todo' = <<>> \/ todo' = WriteAhead
        BY <2>3 DEF StepSkip, StepDelete, StepDay, Step
      <3> QED
        BY <3>1, ElsewherePlanned DEF Elsewhere, WriteAhead
    <2>4. CASE StepDayDone
      <3>1. Scanning
        BY <2>4 DEF StepDayDone
      <3>2. todo' = Note(Work.day, Rows, expiry[Work.day]) \/ todo' = Commit(None)
        BY <2>4 DEF StepDayDone
      <3>3. Planned(Commit(None))
        BY <3>1, CommitPlanned DEF Scheduled
      <3>4. Planned(Note(Work.day, Rows, expiry[Work.day]))
        BY <1>2, <3>1, NotePlanned, ScanTyped
      <3> QED
        BY <3>2, <3>3, <3>4
    <2>5. CASE StepList
      <3> DEFINE stale == {d \in Days : expiry[d] # Absent /\ index[d] = {}}
      <3>1. todo' = <<>> \/ todo' = <<Schedule(stale, Absent)>>
        BY <2>5 DEF StepList
      <3>2. stale \subseteq Days /\ \A d \in stale : index[d] = {}
        OBVIOUS
      <3> HIDE DEF stale
      <3>3. Planned(<<Schedule(stale, Absent)>>)
        BY <3>2 DEF Planned, CachedWrites, IndexWritesInTime, ExpiryWritesInTime, Schedule, InTime
      <3> QED
        BY <3>1, <3>3, ElsewherePlanned DEF Elsewhere
    <2>6. CASE StepCycleDone \/ StartRun
      BY <2>6, ElsewherePlanned DEF StepCycleDone, StartRun, Elsewhere, Idle
    <2>7. CASE EndRun
      <3> DEFINE z == <<[file |-> "state"]>>
      <3>1. Elsewhere(z) /\ z \in Seq(Writes)
        BY Singletons DEF Elsewhere
      <3> HIDE DEF z
      <3>2. \/ todo' = z
            \/ Scanning /\ todo' = Commit(After(Updated)) \o z
        BY <2>7 DEF EndRun, z
      <3>3. Scanning => Commit(After(Updated)) \in Seq(Writes) /\ Planned(Commit(After(Updated)))
        BY CommitPlanned DEF Scheduled
      <3> QED
        BY <3>1, <3>2, <3>3, PlannedAround, ElsewherePlanned
    <2> QED
      BY <2>1, <2>2, <2>3, <2>4, <2>5, <2>6, <2>7 DEF Steps
  <1> QED
    BY <1>1, <1>3, <1>4, StartScheduled

LEMMA WriteScheduled ==
    ASSUME Types, Scheduled, Write
    PROVE  Scheduled'
  <1> DEFINE w == Upcoming
             t == Tail(todo)
  <1>1. /\ todo \in Seq(Writes) /\ todo # <<>> /\ w = todo[1] /\ w \in Writes /\ todo' = t
        /\ 1 \in 1..Len(todo) /\ t \in Seq(Writes) /\ Len(t) = Len(todo) - 1
        /\ \A i \in 1..Len(t) : i + 1 \in 1..Len(todo) /\ t[i] = todo[i + 1]
    BY WriteIs, NextWrite DEF Types, Upcoming
  <1>2. \A i \in 1..Len(t) : t[i] \in Writes
    BY <1>1
  <1> HIDE DEF t, w
  <1>3. CASE w.file = "index"
    <2> DEFINE d == w.day
    <2>1. /\ d \in Days /\ w.rows \in SUBSET IndexRows /\ w.cache \in Caches \cup {None}
      BY <1>1, <1>3, WrittenIs
    <2>2. /\ index' = [index EXCEPT ![d] = w.rows] /\ expiry' = expiry
          /\ cached' = IF w.cache # None \/ (cached # None /\ cached.day = d) THEN w.cache ELSE cached
      BY <1>3, WriteIs DEF w
    <2>3. InTime(w.rows, expiry[d])
      BY <1>1, <1>3 DEF Scheduled, Planned, IndexWritesInTime
    <2>4. w.cache # None => w.cache = [day |-> d, rows |-> w.rows]
      BY <1>1, <1>3 DEF Scheduled, Planned, CachedWrites
    <2> HIDE DEF d
    <2>5. index'[d] = w.rows /\ \A e \in Days \ {d} : index'[e] = index[e]
      BY <2>1, <2>2 DEF Types
    <2>6. ExpiryScheduled'
      BY <2>2, <2>3, <2>5 DEF Scheduled, ExpiryScheduled, InTime
    <2>7. Cached'
      <3>1. cached # None => cached.day \in Days
        BY DEF Types, Caches
      <3> QED
        BY <2>2, <2>4, <2>5, <3>1 DEF Scheduled, Cached
    <2>8. CachedWrites(t) /\ CachedWrites(todo)'
      BY <1>1 DEF Scheduled, Planned, CachedWrites
    <2>9. IndexWritesInTime(todo)'
      <3>1. ASSUME NEW i \in 1..Len(t), t[i].file = "index"
            PROVE  \/ InTime(t[i].rows, expiry[t[i].day])
                   \/ \E k \in 1..(i - 1) : t[k].file = "expiry" /\ t[i].day \in t[k].days
        <4>1. i + 1 \in 1..Len(todo) /\ t[i] = todo[i + 1]
          BY <1>1
        <4>2. CASE InTime(t[i].rows, expiry[t[i].day])
          BY <4>2
        <4>3. ASSUME NEW k \in 1..((i + 1) - 1), todo[k].file = "expiry", t[i].day \in todo[k].days
              PROVE  \E j \in 1..(i - 1) : t[j].file = "expiry" /\ t[i].day \in t[j].days
          <5>1. k # 1
            BY <1>1, <1>3, <4>3
          <5>2. k - 1 \in 1..(i - 1) /\ k - 1 \in 1..Len(t) /\ (k - 1) + 1 = k
            BY <5>1, <1>1
          <5>3. t[k - 1] = todo[k]
            BY <1>1, <5>2
          <5> QED
            BY <4>3, <5>2, <5>3
        <4> QED
          BY <3>1, <4>1, <4>2, <4>3 DEF Scheduled, Planned, IndexWritesInTime
      <3> QED
        BY <1>1, <2>2, <3>1 DEF IndexWritesInTime, InTime
    <2>10. ExpiryWritesInTime(todo)'
      <3>1. ASSUME NEW k \in 1..Len(t), t[k].file = "expiry", NEW e \in t[k].days
            PROVE  /\ \/ InTime(index'[e], t[k].value)
                      \/ \E i \in 1..(k - 1) : t[i].file = "index" /\ t[i].day = e
                   /\ \A i \in 1..Len(t) : t[i].file = "index" /\ t[i].day = e
                                           => InTime(t[i].rows, t[k].value)
        <4>1. k + 1 \in 1..Len(todo) /\ t[k] = todo[k + 1] /\ e \in Days
          BY <1>1, <1>2, <3>1, WrittenIs
        <4>2. /\ \/ InTime(index[e], t[k].value)
                 \/ \E i \in 1..((k + 1) - 1) : todo[i].file = "index" /\ todo[i].day = e
              /\ \A i \in 1..Len(todo) : todo[i].file = "index" /\ todo[i].day = e
                                         => InTime(todo[i].rows, t[k].value)
          BY <3>1, <4>1 DEF Scheduled, Planned, ExpiryWritesInTime
        <4>3. \A i \in 1..Len(t) : t[i].file = "index" /\ t[i].day = e
                                   => InTime(t[i].rows, t[k].value)
          BY <1>1, <4>2
        <4>4. CASE e = d
          <5>1. InTime(w.rows, t[k].value)
            BY <1>1, <1>3, <4>2, <4>4 DEF d
          <5> QED
            BY <2>5, <4>3, <4>4, <5>1
        <4>5. CASE e # d
          <5>1. index'[e] = index[e]
            BY <2>5, <4>1, <4>5
          <5>2. ASSUME NEW i \in 1..((k + 1) - 1), todo[i].file = "index", todo[i].day = e
                PROVE  \E j \in 1..(k - 1) : t[j].file = "index" /\ t[j].day = e
            <6>1. i # 1
              BY <1>1, <4>5, <5>2 DEF d
            <6>2. i - 1 \in 1..(k - 1) /\ i - 1 \in 1..Len(t) /\ (i - 1) + 1 = i
              BY <1>1, <6>1
            <6>3. t[i - 1] = todo[i]
              BY <1>1, <6>2
            <6> QED
              BY <5>2, <6>2, <6>3
          <5> QED
            BY <4>2, <4>3, <5>1, <5>2
        <4> QED
          BY <4>4, <4>5
      <3> QED
        BY <1>1, <3>1 DEF ExpiryWritesInTime, InTime
    <2> QED
      BY <2>6, <2>7, <2>8, <2>9, <2>10 DEF Scheduled, Planned
  <1>4. CASE w.file # "index"
    <2>1. index' = index /\ cached' = cached
      BY <1>4, WriteIs DEF w
    <2>2. w.file = "expiry" => w.days \in SUBSET Days /\ w.value \in Int
      BY <1>1, WrittenIs
    <2>3. \A d \in Days :
            IF w.file = "expiry" /\ d \in w.days THEN expiry'[d] = w.value ELSE expiry'[d] = expiry[d]
      BY WriteIs DEF w
    <2>4. ASSUME w.file = "expiry", NEW d \in w.days
          PROVE  /\ InTime(index[d], w.value)
                 /\ \A i \in 1..Len(t) : t[i].file = "index" /\ t[i].day = d => InTime(t[i].rows, w.value)
      <3>1. /\ \/ InTime(index[d], w.value)
               \/ \E i \in 1..(1 - 1) : todo[i].file = "index" /\ todo[i].day = d
            /\ \A i \in 1..Len(todo) : todo[i].file = "index" /\ todo[i].day = d
                                       => InTime(todo[i].rows, w.value)
        BY <1>1, <2>4 DEF Scheduled, Planned, ExpiryWritesInTime
      <3> QED
        BY <1>1, <3>1
    <2>5. ExpiryScheduled'
      BY <2>1, <2>3, <2>4 DEF Scheduled, ExpiryScheduled, InTime
    <2>6. Cached' /\ CachedWrites(todo)'
      BY <1>1, <2>1 DEF Scheduled, Cached, Planned, CachedWrites
    <2>7. IndexWritesInTime(todo)'
      <3>1. ASSUME NEW i \in 1..Len(t), t[i].file = "index"
            PROVE  \/ InTime(t[i].rows, expiry'[t[i].day])
                   \/ \E k \in 1..(i - 1) : t[k].file = "expiry" /\ t[i].day \in t[k].days
        <4>1. i + 1 \in 1..Len(todo) /\ t[i] = todo[i + 1] /\ t[i].day \in Days
          BY <1>1, <1>2, <3>1, WrittenIs
        <4>2. CASE w.file = "expiry" /\ t[i].day \in w.days
          BY <2>3, <2>4, <3>1, <4>1, <4>2
        <4>3. CASE ~(w.file = "expiry" /\ t[i].day \in w.days)
          <5>1. expiry'[t[i].day] = expiry[t[i].day]
            BY <2>3, <4>1, <4>3
          <5>2. ASSUME NEW k \in 1..((i + 1) - 1), todo[k].file = "expiry", t[i].day \in todo[k].days
                PROVE  \E j \in 1..(i - 1) : t[j].file = "expiry" /\ t[i].day \in t[j].days
            <6>1. k # 1
              BY <1>1, <4>3, <5>2
            <6>2. k - 1 \in 1..(i - 1) /\ k - 1 \in 1..Len(t) /\ (k - 1) + 1 = k
              BY <6>1, <1>1
            <6>3. t[k - 1] = todo[k]
              BY <1>1, <6>2
            <6> QED
              BY <5>2, <6>2, <6>3
          <5> QED
            BY <3>1, <4>1, <5>1, <5>2 DEF Scheduled, Planned, IndexWritesInTime
        <4> QED
          BY <4>2, <4>3
      <3> QED
        BY <1>1, <3>1 DEF IndexWritesInTime, InTime
    <2>8. ExpiryWritesInTime(todo)'
      <3>1. ASSUME NEW k \in 1..Len(t), t[k].file = "expiry", NEW e \in t[k].days
            PROVE  /\ \/ InTime(index[e], t[k].value)
                      \/ \E i \in 1..(k - 1) : t[i].file = "index" /\ t[i].day = e
                   /\ \A i \in 1..Len(t) : t[i].file = "index" /\ t[i].day = e
                                           => InTime(t[i].rows, t[k].value)
        <4>1. k + 1 \in 1..Len(todo) /\ t[k] = todo[k + 1]
          BY <1>1
        <4>2. /\ \/ InTime(index[e], t[k].value)
                 \/ \E i \in 1..((k + 1) - 1) : todo[i].file = "index" /\ todo[i].day = e
              /\ \A i \in 1..Len(todo) : todo[i].file = "index" /\ todo[i].day = e
                                         => InTime(todo[i].rows, t[k].value)
          BY <3>1, <4>1 DEF Scheduled, Planned, ExpiryWritesInTime
        <4>3. \A i \in 1..Len(t) : t[i].file = "index" /\ t[i].day = e
                                   => InTime(t[i].rows, t[k].value)
          BY <1>1, <4>2
        <4>4. ASSUME NEW i \in 1..((k + 1) - 1), todo[i].file = "index", todo[i].day = e
              PROVE  \E j \in 1..(k - 1) : t[j].file = "index" /\ t[j].day = e
          <5>1. i # 1
            BY <1>1, <1>4, <4>4
          <5>2. i - 1 \in 1..(k - 1) /\ i - 1 \in 1..Len(t) /\ (i - 1) + 1 = i
            BY <1>1, <5>1
          <5>3. t[i - 1] = todo[i]
            BY <1>1, <5>2
          <5> QED
            BY <4>4, <5>2, <5>3
        <4> QED
          BY <4>2, <4>3, <4>4
      <3>2. ExpiryWritesInTime(t)
        BY <3>1 DEF ExpiryWritesInTime
      <3>3. todo' = t /\ index' = index
        BY <1>1, <2>1
      <3> QED
        BY <3>2, <3>3 DEF ExpiryWritesInTime, InTime
    <2> QED
      BY <2>5, <2>6, <2>7, <2>8 DEF Scheduled, Planned
  <1> QED
    BY <1>3, <1>4

LEMMA ScheduledKept ==
    ASSUME Types, Scheduled, [Next]_vars
    PROVE  Scheduled'
  <1>1. CASE Fail \/ Crash
    <2>1. todo' = <<>> /\ UNCHANGED <<index, expiry>> /\ (cached' = None \/ cached' = cached)
      BY <1>1 DEF Fail, Crash, Forget, disk
    <2>2. Planned(todo')
      BY <2>1, ElsewherePlanned DEF Elsewhere
    <2> QED
      BY <2>1, <2>2, StartScheduled DEF Scheduled, Cached
  <1>2. CASE Tick \/ UNCHANGED vars
    <2>1. UNCHANGED <<todo, index, expiry, cached>>
      BY <1>2 DEF Tick, vars, disk, memory
    <2> QED
      BY <2>1, StartScheduled DEF Scheduled, Cached
  <1> QED
    BY <1>1, <1>2, HandlerScheduled, MaintenanceScheduled, WriteScheduled DEF Next

LEMMA InitialTypes ==
    ASSUME Init
    PROVE  Types
  <1>1. clock \in Nat /\ Absent \in Int /\ 0 \in Int
    BY DEF Init, Absent
  <1>2. /\ index \in [Days -> SUBSET IndexRows] /\ expiry \in [Days -> Int]
        /\ manifest \in [Rounds -> Manifests \cup {None}] /\ parts \in [Rounds -> Int]
        /\ done \in [Rounds -> Nat \cup {None}]
    BY <1>1 DEF Init
  <1>3. Listed(stored) /\ Listed(cycle)
    BY DEF Init, Listed
  <1> QED
    BY <1>1, <1>2, <1>3, Singletons DEF Init, Types

LEMMA InitialScheduled ==
    ASSUME Init
    PROVE  Scheduled
  <1>1. ExpiryScheduled /\ Cached /\ Planned(todo)
    BY ElsewherePlanned DEF Init, ExpiryScheduled, Cached, Elsewhere
  <1> QED
    BY <1>1 DEF Scheduled

(* The expiry of a day is never later than the time of a completed round   *)
(* in its index, wherever the handlers of reports and of maintenance are   *)
(* interrupted.                                                            *)
THEOREM ScansAreScheduled == Spec => []ExpiryScheduled
  <1>1. Init => Types /\ Scheduled
    BY InitialTypes, InitialScheduled
  <1>2. Types /\ Scheduled /\ [Next]_vars => (Types /\ Scheduled)'
    BY TypesKept, ScheduledKept
  <1>3. Types /\ Scheduled => ExpiryScheduled
    BY DEF Scheduled
  <1> QED
    BY <1>1, <1>2, <1>3, PTL DEF Spec

-----------------------------------------------------------------------------
(* Nothing goes early.                                                     *)

LEMMA StateTyped ==
    ASSUME Types, NEW r \in Rounds
    PROVE  /\ manifest[r] \in Manifests \cup {None} /\ done[r] \in Nat \cup {None}
           /\ Finished(manifest[r]) => manifest[r].at \in Nat /\ manifest[r].detail \in BOOLEAN
           /\ clock \in Nat /\ Detail \in Nat /\ Whole \in Nat /\ Detail <= Whole
           /\ None \notin Int
  BY RetentionConstants DEF Types, Finished, Manifests

(* A round whose time has come stays so.                                   *)
LEMMA OverKept ==
    ASSUME Types, NEW r \in Rounds, NEW mode, Over(r, mode),
           done'[r] = done[r], r \notin queued', clock' \in Nat, clock' >= clock
    PROVE  Over(r, mode)'
  BY StateTyped DEF Over, Limit

LEMMA RoundIsOver ==
    ASSUME Types, NEW r \in Rounds, NEW mode \in Modes, Over(r, "round")
    PROVE  Over(r, mode)
  BY StateTyped DEF Over, Limit, Modes

(* Writes of an index and its expiry alone, with rows that are right.      *)
Known(w) == w.at # None => done[w.round] # None
OnlyRows(s) ==
    \A i \in 1..Len(s) : /\ s[i].file \in {"index", "expiry", "state"}
                         /\ s[i].file = "index" => \A w \in s[i].rows : Known(w)

LEMMA OnlyRowsRightly ==
    ASSUME NEW s, OnlyRows(s)
    PROVE  Rightly(s)
  BY DEF OnlyRows, Known, Rightly, ManifestWrites, RowWrites, OtherWrites

(* A manifest and measurements before an index and the queue.              *)
LEMMA RightlyAfter ==
    ASSUME NEW p \in Seq(Writes), NEW t \in Seq(Writes), Rightly(p),
           \A i \in 1..Len(p) : p[i].file \in {"manifest", "parts"},
           \A i \in 1..Len(t) :
             /\ t[i].file \in {"index", "expiry", "queue"}
             /\ t[i].file = "index" => \A w \in t[i].rows :
                  Known(w) \/ \E k \in 1..Len(p) : /\ p[k].file = "manifest" /\ p[k].round = w.round
                                                   /\ Finished(p[k].value)
             /\ t[i].file = "queue" /\ t[i].value =>
                  /\ done[t[i].round] = None
                  /\ \A k \in 1..Len(p) : p[k].file = "manifest" => Unfinished(p[k].value)
    PROVE  Rightly(p \o t)
  <1> DEFINE u == p \o t
  <1>1. /\ Len(p) \in Nat /\ Len(u) = Len(p) + Len(t) /\ Len(t) \in Nat
        /\ \A i \in 1..Len(p) : i \in 1..Len(u) /\ u[i] = p[i]
        /\ \A i \in 1..Len(u) :
             \/ i \in 1..Len(p) /\ u[i] = p[i]
             \/ i > Len(p) /\ i - Len(p) \in 1..Len(t) /\ u[i] = t[i - Len(p)]
    BY Joined
  <1> HIDE DEF u
  <1>5. ASSUME NEW i \in 1..Len(u)
        PROVE  /\ u[i].file \in {"manifest", "part"} =>
                    i \in 1..Len(p) /\ u[i] = p[i] /\ u[i].file # "part"
               /\ u[i].file = "queue" => i - Len(p) \in 1..Len(t) /\ u[i] = t[i - Len(p)]
    <2>1. CASE i \in 1..Len(p) /\ u[i] = p[i]
      BY <2>1
    <2>2. CASE i - Len(p) \in 1..Len(t) /\ u[i] = t[i - Len(p)]
      <3>1. u[i].file \in {"index", "expiry", "queue"}
        BY <2>2
      <3> QED
        BY <2>2, <3>1
    <2> QED
      BY <1>1, <2>1, <2>2
  <1>2. ManifestWrites(u)
    <2>1. \A i \in 1..Len(u) : u[i].file = "manifest" => i \in 1..Len(p) /\ u[i] = p[i]
      BY <1>5
    <2>2. \A i \in 1..Len(p) : i = 2 => u[1] = p[1]
      BY <1>1
    <2> QED
      BY <2>1, <2>2 DEF Rightly, ManifestWrites
  <1>3. RowWrites(u)
    <2>1. ASSUME NEW i \in 1..Len(u), u[i].file = "index", NEW w \in u[i].rows, ~Known(w)
          PROVE  \E k \in 1..(i - 1) : /\ u[k].file = "manifest" /\ u[k].round = w.round
                                       /\ Finished(u[k].value)
      <3>1. i > Len(p) /\ i - Len(p) \in 1..Len(t) /\ u[i] = t[i - Len(p)]
        BY <1>1, <2>1
      <3>2. PICK k \in 1..Len(p) : /\ p[k].file = "manifest" /\ p[k].round = w.round
                                    /\ Finished(p[k].value)
        BY <2>1, <3>1
      <3>3. k \in 1..(i - 1) /\ u[k] = p[k]
        BY <1>1, <3>1
      <3> QED
        BY <3>2, <3>3
    <2> QED
      BY <2>1 DEF RowWrites, Known
  <1>4. OtherWrites(u)
    <2>1. \A i \in 1..Len(u) : u[i].file # "part"
      BY <1>5
    <2>2. \A k \in 1..Len(u) : u[k].file = "manifest" => k \in 1..Len(p) /\ u[k] = p[k]
      BY <1>5
    <2>3. ASSUME NEW i \in 1..Len(u), u[i].file = "queue", u[i].value
          PROVE  /\ done[u[i].round] = None
                 /\ \A k \in 1..Len(u) : u[k].file = "manifest" => Unfinished(u[k].value)
      <3>1. i - Len(p) \in 1..Len(t) /\ u[i] = t[i - Len(p)]
        BY <1>5, <2>3
      <3>2. /\ done[u[i].round] = None
            /\ \A k \in 1..Len(p) : p[k].file = "manifest" => Unfinished(p[k].value)
        BY <2>3, <3>1
      <3> QED
        BY <2>2, <3>2
    <2> QED
      BY <2>1, <2>3 DEF OtherWrites
  <1> QED
    BY <1>2, <1>3, <1>4 DEF Rightly, u

LEMMA NoteFiles ==
    ASSUME NEW d \in Days, NEW rows \in SUBSET IndexRows, NEW e
    PROVE  Note(d, rows, e) \in Seq(Writes) /\ \A k \in 1..Len(Note(d, rows, e)) : Note(d, rows, e)[k].file = "expiry"
  <1> DEFINE n == Note(d, rows, e)
  <1>1. /\ n \in Seq(Writes)
        /\ n = <<>> \/ \E v \in Int : n = <<[file |-> "expiry", days |-> {d}, value |-> v]>>
    BY NoteIs
  <1> HIDE DEF n
  <1>2. \A k \in 1..Len(n) : n[k].file = "expiry"
    BY <1>1
  <1> QED
    BY <1>1, <1>2 DEF n

LEMMA RowsKnown ==
    ASSUME Types, RowsOfCompleted, NEW r \in Rounds, NEW m \in Manifests,
           NEW i \in 1..Len(IndexWrites(r, m))
    PROVE  /\ IndexWrites(r, m)[i].file \in {"index", "expiry"}
           /\ IndexWrites(r, m)[i].file = "index" =>
                \A w \in IndexWrites(r, m)[i].rows : Known(w) \/ (w.round = r /\ m.at # None)
  <1> DEFINE d == DayOf[r]
             rows == NewRows(r, m)
             x == IndexWrite(d, rows, None)
             b == BeforeIndex(d, rows)
  <1>1. d \in Days /\ rows \in SUBSET IndexRows
    BY IndexWritesAre
  <1>2. \A w \in rows : Known(w) \/ (w.round = r /\ m.at # None)
    BY <1>1, RowTyped DEF NewRows, RowsOfCompleted, Known
  <1>3. PICK e : IndexWrites(r, m) = b \o <<x>> \o Note(d, rows, e)
    BY IndexWritesAre
  <1> DEFINE n == Note(d, rows, e)
  <1>4. b \in Seq(Writes) /\ \A k \in 1..Len(b) : b[k].file = "expiry"
    BY <1>1, AnnouncedIs DEF Types
  <1>5. n \in Seq(Writes) /\ \A k \in 1..Len(n) : n[k].file = "expiry"
    BY <1>1, NoteFiles
  <1>6. /\ <<x>> \in Seq(Writes) /\ Len(<<x>>) = 1 /\ <<x>>[1] = x
        /\ x.file = "index" /\ x.rows = rows
    BY <1>1, KindsOfWrites DEF IndexWrite
  <1> DEFINE y == <<x>>
             u == b \o y
  <1> HIDE DEF b, n, rows, d, x
  <1>7. \A k \in 1..Len(y) : y[k] = x
    BY <1>6
  <1> HIDE DEF y
  <1>8. u \in Seq(Writes) /\ \A k \in 1..Len(u) : u[k].file = "expiry" \/ u[k] = x
    BY <1>4, <1>6, <1>7, Joined DEF y
  <1> HIDE DEF u
  <1>9. \A k \in 1..Len(u \o n) : (u \o n)[k].file = "expiry" \/ (u \o n)[k] = x
    BY <1>5, <1>8, Joined
  <1> QED
    BY <1>2, <1>3, <1>6, <1>9 DEF u, n, y

(* A handler that starts has changed no file yet.                          *)
LEMMA StartCareful ==
    ASSUME Careful, UNCHANGED <<clock, manifest, parts, queued, index, stored, done>>,
           Rightly(todo'), Cursors'
    PROVE  Careful'
  <1>1. Completion' /\ NothingEarly' /\ MarkedFirst' /\ RowsOfCompleted'
    BY DEF Careful, Completion, NothingEarly, MarkedFirst, RowsOfCompleted, Finished, Unfinished
  <1>2. \A r, m : Rightful(r, m)' <=> Rightful(r, m)
    BY DEF Rightful, Over, Unfinished, Finished
  <1>3. ManifestWrites(todo)'
    BY DEF Rightly, ManifestWrites, Rightful, Over, Unfinished, Finished
  <1>4. RowWrites(todo)' /\ OtherWrites(todo)'
    BY DEF Rightly, RowWrites, OtherWrites, Over, Unfinished, Finished, Withdrawn
  <1> QED
    BY <1>1, <1>3, <1>4 DEF Careful, Rightly

LEMMA SameCursor ==
    ASSUME Careful, todo = <<>> \/ run # "on",
           UNCHANGED <<clock, manifest, queued, stored, done>>,
           Cursor(cycle') => Cursor(cycle) /\ cycle'.work.deleting = cycle.work.deleting
    PROVE  Cursors'
  <1>1. ForDetails(cycle) => Withdrawn(cycle.work.deleting.round)
    BY DEF Careful, Cursors, MarkPending
  <1>2. Justified(stored)' /\ (ForDetails(stored)' => Withdrawn(stored.work.deleting.round)')
    BY DEF Careful, Cursors, Justified, ForDetails, Cursor, Over, Withdrawn
  <1>3. Justified(cycle)'
    BY DEF Careful, Cursors, Justified, Cursor, Over
  <1>4. ForDetails(cycle)' => Withdrawn(cycle.work.deleting.round)'
    BY <1>1 DEF ForDetails, Cursor, Withdrawn
  <1> QED
    BY <1>2, <1>3, <1>4 DEF Cursors

LEMMA HandlerCareful ==
    ASSUME Types, Careful, NEW r \in Rounds, Create(r) \/ Complete(r)
    PROVE  Careful'
  <1>1. /\ UNCHANGED <<clock, manifest, parts, queued, index, stored, done, cycle>>
        /\ run = "off" /\ todo = <<>>
    BY CreateIs, CompleteIs DEF Begin, disk, memory, Idle
  <1>2. Cursors'
    BY <1>1, SameCursor
  <1>3. /\ manifest[r] \in Manifests \cup {None} /\ clock \in Nat /\ None \notin Manifests /\ None \notin Int
        /\ Unfinished(manifest[r]) => done[r] = None /\ manifest[r].detail
        /\ Finished(manifest[r]) => done[r] = manifest[r].at
    BY StateTyped, RetentionConstants DEF Careful, Completion
  <1>4. CASE Create(r)
    <2> DEFINE m == NewManifest
               M == ManifestWrite(r, m)
               I == IndexWrites(r, m)
               Q == QueueWrite(r, TRUE)
               w == [file |-> "manifest", round |-> r, value |-> m]
    <2>1. todo' = M \o I \o Q /\ m \in Manifests /\ done[r] = None
      BY <1>4, CreateIs
    <2>2. Unfinished(m) /\ m.detail /\ m.at = None
      BY <1>3, <2>1 DEF Unfinished, NewManifest
    <2>3. M \in Seq(Writes) /\ I \in Seq(Writes) /\ Q \in Seq(Writes) /\ (M = <<>> \/ M = <<w>>)
      BY <2>1, CreateWrites DEF ManifestWrite
    <2>4. Q = <<[file |-> "queue", round |-> r, value |-> TRUE]>>
      BY DEF QueueWrite
    <2>5. \A i \in 1..Len(I) : /\ I[i].file \in {"index", "expiry"}
                               /\ I[i].file = "index" => \A x \in I[i].rows : Known(x)
      BY <2>1, <2>2, RowsKnown DEF Careful
    <2>6. w.file = "manifest" /\ w.round = r /\ w.value = m
      OBVIOUS
    <2> HIDE DEF m, M, I, Q, w
    <2>7. /\ \A k \in 1..Len(M) : M[k].file = "manifest" /\ Unfinished(M[k].value)
          /\ Rightly(M)
      <3>1. CASE M = <<>>
        BY <3>1, OnlyRowsRightly DEF OnlyRows
      <3>2. CASE M = <<w>>
        <4>1. Rightful(r, m)
          BY <2>1, <2>2 DEF Rightful, Unfinished, Finished
        <4>2. ManifestWrites(<<w>>)
          BY <2>2, <2>6, <4>1 DEF ManifestWrites, Finished
        <4>3. RowWrites(<<w>>) /\ OtherWrites(<<w>>)
          BY <2>6 DEF RowWrites, OtherWrites
        <4> QED
          BY <2>2, <2>6, <3>2, <4>2, <4>3 DEF Rightly
      <3> QED
        BY <2>3, <3>1, <3>2
    <2>8. /\ I \o Q \in Seq(Writes) /\ M \o I \o Q = M \o (I \o Q)
          /\ \A i \in 1..Len(I \o Q) :
               /\ (I \o Q)[i].file \in {"index", "expiry", "queue"}
               /\ (I \o Q)[i].file = "index" => \A x \in (I \o Q)[i].rows : Known(x)
               /\ (I \o Q)[i].file = "queue" => done[(I \o Q)[i].round] = None
      <3>1. M \o I \o Q = M \o (I \o Q)
        BY <2>3, ConcatAssociative
      <3>2. \A i \in 1..Len(Q) : Q[i].file = "queue" /\ Q[i].round = r
        BY <2>4
      <3> DEFINE u == I \o Q
      <3>3. /\ u \in Seq(Writes)
            /\ \A i \in 1..Len(u) : \/ i \in 1..Len(I) /\ u[i] = I[i]
                                    \/ i - Len(I) \in 1..Len(Q) /\ u[i] = Q[i - Len(I)]
        BY <2>3, Joined
      <3> HIDE DEF u
      <3>4. ASSUME NEW i \in 1..Len(u)
            PROVE  /\ u[i].file \in {"index", "expiry", "queue"}
                   /\ u[i].file = "index" => \A x \in u[i].rows : Known(x)
                   /\ u[i].file = "queue" => done[u[i].round] = None
        <4>1. CASE i \in 1..Len(I) /\ u[i] = I[i]
          BY <2>5, <4>1
        <4>2. CASE i - Len(I) \in 1..Len(Q) /\ u[i] = Q[i - Len(I)]
          BY <2>1, <3>2, <4>2
        <4> QED
          BY <3>3, <4>1, <4>2
      <3> QED
        BY <3>1, <3>3, <3>4 DEF u
    <2>9. Rightly(todo')
      BY <2>1, <2>3, <2>7, <2>8, RightlyAfter
    <2> QED
      BY <1>1, <1>2, <2>9, StartCareful
  <1>5. CASE Complete(r)
    <2> DEFINE m == CompletedManifest(r)
               P == PartsWrite(r)
               M == ManifestWrite(r, m)
               I == IndexWrites(r, m)
               Q == QueueWrite(r, FALSE)
               w == [file |-> "manifest", round |-> r, value |-> m]
               z == [file |-> "parts", round |-> r]
    <2>1. /\ todo' = P \o M \o I \o Q /\ r \in queued /\ manifest[r] # None
          /\ m \in Manifests /\ m.detail = manifest[r].detail /\ m.at # None
          /\ manifest[r].at # None => m = manifest[r]
      BY <1>5, CompleteIs, CompletedTyped
    <2>2. Finished(m)
      BY <1>3, <2>1 DEF Finished
    <2>3. /\ P \in Seq(Writes) /\ M \in Seq(Writes) /\ I \in Seq(Writes) /\ Q \in Seq(Writes)
          /\ (P = <<>> /\ parts[r] = Parts) \/ P = <<z>>
          /\ (M = <<>> /\ m = manifest[r]) \/ (M = <<w>> /\ m # manifest[r])
      BY <2>1, CreateWrites, Singletons DEF ManifestWrite, PartsWrite
    <2>4. Q = <<[file |-> "queue", round |-> r, value |-> FALSE]>>
      BY DEF QueueWrite
    <2>5. \A i \in 1..Len(I) : /\ I[i].file \in {"index", "expiry"}
                               /\ I[i].file = "index" => \A x \in I[i].rows : Known(x) \/ x.round = r
      BY <2>1, RowsKnown DEF Careful
    <2>6. /\ w.file = "manifest" /\ w.round = r /\ w.value = m
          /\ z.file = "parts" /\ z.round = r
      OBVIOUS
    <2> DEFINE p == P \o M
    <2> HIDE DEF m, M, I, Q, P, w, z
    <2>7. /\ p \in Seq(Writes) /\ Rightly(p)
          /\ \A k \in 1..Len(p) : p[k].file \in {"manifest", "parts"}
          /\ done[r] # None \/ \E k \in 1..Len(p) : /\ p[k].file = "manifest" /\ p[k].round = r
                                                    /\ Finished(p[k].value)
      <3>1. CASE done[r] # None
        <4>1. Finished(manifest[r])
          BY <1>3, <2>1, <3>1 DEF Finished, Unfinished
        <4>2. M = <<>>
          BY <2>1, <2>3, <4>1 DEF Finished
        <4>3. P = <<>> \/ P = <<z>>
          BY <2>3
        <4>4. p = <<>> \/ p = <<z>>
          BY <4>2, <4>3, <2>3, ConcatEmptySeq
        <4> HIDE DEF p
        <4>5. OnlyRows(<<>>) /\ Rightly(<<>>)
          BY OnlyRowsRightly DEF OnlyRows
        <4>6. Rightly(<<z>>)
          BY <2>6 DEF Rightly, ManifestWrites, RowWrites, OtherWrites
        <4>7. p \in Seq(Writes)
          BY <2>3, Joined DEF p
        <4> QED
          BY <2>6, <3>1, <4>4, <4>5, <4>6, <4>7
      <3>2. CASE done[r] = None
        <4>1. manifest[r].at = None /\ m.detail
          BY <1>3, <2>1, <3>2 DEF Finished, Unfinished
        <4>2. M = <<w>>
          BY <2>1, <2>3, <4>1
        <4>3. Rightful(r, m) /\ m # None
          BY <2>2, <3>2, <4>1 DEF Rightful, Unfinished, Finished
        <4>4. CASE P = <<>> /\ parts[r] = Parts
          <5>1. p = <<w>>
            BY <2>3, <4>2, <4>4, ConcatEmptySeq
          <5> HIDE DEF p
          <5>2. ManifestWrites(<<w>>) /\ RowWrites(<<w>>) /\ OtherWrites(<<w>>)
            BY <2>6, <4>3, <4>4 DEF ManifestWrites, RowWrites, OtherWrites
          <5>3. Len(<<w>>) = 1 /\ <<w>>[1] = w /\ <<w>> \in Seq(Writes)
            BY <2>3, <4>2
          <5> QED
            BY <2>2, <2>6, <5>1, <5>2, <5>3 DEF Rightly
        <4>5. CASE P = <<z>>
          <5>1. p = <<z, w>>
            BY <4>2, <4>5, ShortSequences
          <5> HIDE DEF p
          <5>2. ManifestWrites(<<z, w>>)
            BY <2>6, <4>3 DEF ManifestWrites
          <5>3. RowWrites(<<z, w>>) /\ OtherWrites(<<z, w>>)
            BY <2>6 DEF RowWrites, OtherWrites
          <5>4. Len(<<z, w>>) = 2 /\ <<z, w>>[1] = z /\ <<z, w>>[2] = w
            OBVIOUS
          <5>5. p \in Seq(Writes)
            BY <2>3, Joined DEF p
          <5> QED
            BY <2>2, <2>6, <5>1, <5>2, <5>3, <5>4, <5>5 DEF Rightly
        <4> QED
          BY <2>3, <4>4, <4>5
      <3> QED
        BY <3>1, <3>2
    <2> HIDE DEF p
    <2>8. /\ I \o Q \in Seq(Writes) /\ p \o I \o Q = p \o (I \o Q)
          /\ \A i \in 1..Len(I \o Q) :
               /\ (I \o Q)[i].file \in {"index", "expiry", "queue"}
               /\ (I \o Q)[i].file = "index" => \A x \in (I \o Q)[i].rows : Known(x) \/ x.round = r
               /\ (I \o Q)[i].file = "queue" => ~(I \o Q)[i].value
      <3>1. p \o I \o Q = p \o (I \o Q)
        BY <2>3, <2>7, ConcatAssociative
      <3>2. \A i \in 1..Len(Q) : Q[i].file = "queue" /\ ~Q[i].value
        BY <2>4
      <3> DEFINE u == I \o Q
      <3>3. /\ u \in Seq(Writes)
            /\ \A i \in 1..Len(u) : \/ i \in 1..Len(I) /\ u[i] = I[i]
                                    \/ i - Len(I) \in 1..Len(Q) /\ u[i] = Q[i - Len(I)]
        BY <2>3, Joined
      <3> HIDE DEF u
      <3>4. ASSUME NEW i \in 1..Len(u)
            PROVE  /\ u[i].file \in {"index", "expiry", "queue"}
                   /\ u[i].file = "index" => \A x \in u[i].rows : Known(x) \/ x.round = r
                   /\ u[i].file = "queue" => ~u[i].value
        <4>1. CASE i \in 1..Len(I) /\ u[i] = I[i]
          BY <2>5, <4>1
        <4>2. CASE i - Len(I) \in 1..Len(Q) /\ u[i] = Q[i - Len(I)]
          BY <3>2, <4>2
        <4> QED
          BY <3>3, <4>1, <4>2
      <3> QED
        BY <3>1, <3>3, <3>4 DEF u
    <2>9. Rightly(p \o (I \o Q))
      <3> DEFINE t == I \o Q
      <3>1. /\ t \in Seq(Writes)
            /\ \A i \in 1..Len(t) :
                 /\ t[i].file \in {"index", "expiry", "queue"}
                 /\ t[i].file = "index" => \A x \in t[i].rows : Known(x) \/ x.round = r
                 /\ t[i].file = "queue" => ~t[i].value
        BY <2>8
      <3> HIDE DEF t
      <3>2. ASSUME NEW i \in 1..Len(t), t[i].file = "index", NEW x \in t[i].rows
            PROVE  Known(x) \/ \E k \in 1..Len(p) : /\ p[k].file = "manifest" /\ p[k].round = x.round
                                                    /\ Finished(p[k].value)
        <4>1. Known(x) \/ x.round = r
          BY <3>1, <3>2
        <4>2. x.round = r /\ done[r] # None => Known(x)
          BY DEF Known
        <4> QED
          BY <2>7, <4>1, <4>2
      <3>3. Rightly(p \o t)
        BY <2>7, <3>1, <3>2, RightlyAfter
      <3> QED
        BY <3>3 DEF t
    <2>10. Rightly(todo')
      BY <2>1, <2>8, <2>9 DEF p
    <2> QED
      BY <1>1, <1>2, <2>10, StartCareful
  <1> QED
    BY <1>4, <1>5

(* Most steps of maintenance write nothing but indexes and expiries, and   *)
(* keep what the cursor names or let it go.                                *)
LEMMA HarmlessSteps ==
    ASSUME Types, Careful, OnlyRows(todo'), todo = <<>>,
           UNCHANGED <<clock, manifest, parts, queued, index, stored, done>>,
           Cursor(cycle') => Cursor(cycle) /\ cycle'.work.deleting = cycle.work.deleting
    PROVE  Careful'
  BY SameCursor, OnlyRowsRightly, StartCareful

LEMMA StepIs ==
    ASSUME Types, NEW k, NEW s, Step(k, s)
    PROVE  /\ run # "off" /\ todo = <<>> /\ run' = "on" /\ todo' = s
           /\ UNCHANGED <<clock, manifest, parts, queued, index, expiry, stored, done>>
           /\ cycle \in Cycles => cycle' = [cycle EXCEPT !.work = k] /\ cycle'.work = k
  BY DEF Step, disk, Cycles

LEMMA MarkCareful ==
    ASSUME Types, Careful, StepMark
    PROVE  Careful'
  <1> DEFINE v == Victim
             u == Work.deleting
             m == manifest[v]
  <1>1. /\ Deleting /\ ~u.marked /\ u \in Deletings /\ v \in Rounds /\ v = u.round
        /\ cycle \in Cycles /\ Work \in Works /\ Scanning /\ Skip(v) \in Works
        /\ m \in Manifests \cup {None} /\ Cursor(cycle) /\ cycle.work.deleting = u
    BY DeletionTyped, ScanTyped DEF StepMark, Victim, Cursor, Deleting, Scanning, Work
  <1>2. CASE Unwanted
    <2>1. Step(Skip(v), <<>>)
      BY <1>2 DEF StepMark, Abandon
    <2>2. Skip(v).deleting = None
      BY <1>1 DEF Skip, Works
    <2> QED
      BY <1>1, <2>1, <2>2, StepIs, HarmlessSteps DEF Cursor, OnlyRows
  <1>3. CASE ~Unwanted
    <2> DEFINE k == [Work EXCEPT !.deleting.marked = TRUE]
    <2>1. k.deleting = [u EXCEPT !.marked = TRUE]
      BY <1>1 DEF Works
    <2>2. k.deleting.round = v /\ k.deleting.mode = u.mode /\ k.deleting.marked /\ u.mode \in Modes
      BY <1>1, <2>1 DEF Deletings
    <2>3. Step(k, MarkWrites(m))
      BY <1>3 DEF StepMark
    <2> HIDE DEF k
    <2>4. /\ run' = "on" /\ todo' = MarkWrites(m) /\ todo = <<>> /\ cycle'.work = k
          /\ UNCHANGED <<clock, manifest, parts, queued, index, stored, done>>
      BY <1>1, <2>3, StepIs
    <2>5. v \notin queued /\ ~Early(m, u.mode)
      BY <1>1, <1>3 DEF Unwanted, Active
    <2>6. done[v] # None /\ done[v] \in Nat
      BY <1>1, StateTyped DEF Careful, Cursors, Justified
    <2>7. Over(v, u.mode) /\ (m # None => Finished(m) /\ done[v] = m.at)
      <3>1. CASE m = None
        <4>1. ~(clock - done[v] <= Whole)
          BY <1>1, <2>6, <3>1 DEF Careful, NothingEarly
        <4>2. Over(v, "round")
          BY <1>1, <2>5, <2>6, <4>1, StateTyped DEF Over, Limit
        <4> QED
          BY <1>1, <2>2, <3>1, <4>2, RoundIsOver
      <3>2. CASE m # None
        <4>1. m.at # None /\ clock - m.at > (IF u.mode = "round" THEN Whole ELSE Detail)
          BY <2>5, <3>2 DEF Early
        <4>2. done[v] = m.at
          BY <1>1, <3>2, <4>1 DEF Careful, Completion, Finished
        <4> QED
          BY <2>5, <2>6, <3>2, <4>1, <4>2 DEF Over, Limit, Finished
      <3> QED
        BY <3>1, <3>2
    <2> DEFINE x == [m EXCEPT !.detail = FALSE]
               w == [file |-> "manifest", round |-> v, value |-> x]
    <2>8. ASSUME m # None, m.detail
          PROVE  x \in Manifests /\ x.at = m.at /\ ~x.detail /\ x # None /\ x # m
      BY <1>1, <2>8, RetentionConstants DEF Manifests
    <2>9. /\ ~(m # None /\ u.mode = "details" /\ m.detail) => MarkWrites(m) = <<>>
          /\ m # None /\ u.mode = "details" /\ m.detail => MarkWrites(m) = <<w>>
      <3>1. ~(m # None /\ u.mode = "details" /\ m.detail) => MarkWrites(m) = <<>>
        BY DEF MarkWrites
      <3>2. ASSUME m # None, u.mode = "details", m.detail PROVE MarkWrites(m) = <<w>>
        <4>1. MarkWrites(m) = ManifestWrite(v, x)
          BY <3>2 DEF MarkWrites
        <4>2. x # m
          BY <2>8, <3>2
        <4> HIDE DEF x
        <4> QED
          BY <4>1, <4>2 DEF ManifestWrite
      <3> QED
        BY <3>1, <3>2
    <2>10. w.file = "manifest" /\ w.round = v /\ w.value = x
      OBVIOUS
    <2> HIDE DEF w, x, m, v, u
    <2>11. CASE m # None /\ u.mode = "details" /\ m.detail
      <3>1. todo' = <<w>> /\ Len(todo') = 1 /\ todo'[1] = w
        BY <2>4, <2>9, <2>11
      <3>2. x.at = m.at /\ ~x.detail /\ x # None
        BY <2>8, <2>11
      <3>3. Rightful(v, x) /\ Finished(x)
        BY <2>7, <2>11, <3>2 DEF Rightful, Finished, Unfinished
      <3>4. Rightly(<<w>>)
        BY <2>10, <3>2, <3>3 DEF Rightly, ManifestWrites, RowWrites, OtherWrites
      <3>5. /\ run' = "on" /\ Len(todo') = 1 /\ todo'[1].file = "manifest" /\ todo'[1].round = v
            /\ todo'[1].value # None /\ ~todo'[1].value.detail
        BY <2>4, <2>10, <3>1, <3>2
      <3>6. Cursors'
        <4>1. Justified(stored)' /\ (ForDetails(stored)' => Withdrawn(stored.work.deleting.round)')
          BY <2>4 DEF Careful, Cursors, Justified, ForDetails, Cursor, Over, Withdrawn
        <4>2. Justified(cycle)'
          BY <2>2, <2>4, <2>6, <2>7 DEF Justified, Cursor, Over
        <4>3. MarkPending(cycle.work.deleting.round)'
          BY <2>2, <2>4, <3>5 DEF MarkPending
        <4> QED
          BY <4>1, <4>2, <4>3 DEF Cursors
      <3> QED
        BY <2>4, <3>1, <3>4, <3>6, StartCareful
    <2>12. CASE ~(m # None /\ u.mode = "details" /\ m.detail)
      <3>1. todo' = <<>>
        BY <2>4, <2>9, <2>12
      <3>2. Rightly(todo')
        BY <3>1, OnlyRowsRightly DEF OnlyRows
      <3>3. u.mode = "details" => Withdrawn(v)
        BY <2>12 DEF Withdrawn, m
      <3>4. Cursors'
        <4>1. Justified(stored)' /\ (ForDetails(stored)' => Withdrawn(stored.work.deleting.round)')
          BY <2>4 DEF Careful, Cursors, Justified, ForDetails, Cursor, Over, Withdrawn
        <4>2. Justified(cycle)'
          BY <2>2, <2>4, <2>6, <2>7 DEF Justified, Cursor, Over
        <4>3. ForDetails(cycle)' => Withdrawn(cycle.work.deleting.round)'
          BY <2>2, <2>4, <3>3 DEF ForDetails, Withdrawn
        <4> QED
          BY <4>1, <4>2, <4>3 DEF Cursors
      <3> QED
        BY <2>4, <3>2, <3>4, StartCareful
    <2> QED
      BY <2>11, <2>12
  <1> QED
    BY <1>2, <1>3

LEMMA PruneCareful ==
    ASSUME Types, Careful, StepPrune
    PROVE  Careful'
  <1> DEFINE v == Victim
             u == Work.deleting
  <1>1. /\ Deleting /\ u.marked /\ u \in Deletings /\ v \in Rounds /\ v = u.round /\ u.mode \in Modes
        /\ cycle \in Cycles /\ Work \in Works /\ Scanning /\ Skip(v) \in Works /\ Pruned \in Works
        /\ Cursor(cycle) /\ cycle.work = Work /\ cycle.work.deleting = u
    BY DeletionTyped, ScanTyped DEF StepPrune, Victim, Cursor, Deleting, Scanning, Work, Deletings
  <1>2. Skip(v).deleting = None /\ Pruned.deleting = None
    BY <1>1 DEF Skip, Pruned, Works
  <1>3. CASE Unwanted
    <2>1. Step(Skip(v), <<>>)
      BY <1>3 DEF StepPrune, Abandon
    <2> QED
      BY <1>1, <1>2, <2>1, StepIs, HarmlessSteps DEF Cursor, OnlyRows
  <1>4. CASE ~Unwanted /\ ~Remains
    <2>1. Step(Pruned, <<>>)
      BY <1>4 DEF StepPrune
    <2> QED
      BY <1>1, <1>2, <2>1, StepIs, HarmlessSteps DEF Cursor, OnlyRows
  <1>5. CASE ~Unwanted /\ Remains
    <2>1. Step(Work, Removal)
      BY <1>5 DEF StepPrune
    <2>2. /\ run' = "on" /\ todo' = Removal /\ todo = <<>> /\ cycle'.work = Work
          /\ UNCHANGED <<clock, manifest, parts, queued, index, stored, done>>
      BY <1>1, <2>1, StepIs
    <2>3. Over(v, u.mode)
      BY <1>1 DEF Careful, Cursors, Justified
    <2>4. Over(v, "round") \/ (u.mode = "details" /\ Over(v, "details"))
      BY <1>1, <2>3 DEF Modes
    <2>5. Over(v, "details")
      BY <1>1, <2>4, RoundIsOver DEF Modes
    <2>6. Rightly(Removal)
      <3>1. CASE Round /\ manifest[v] # None
        <4> DEFINE w == [file |-> "manifest", round |-> v, value |-> None]
        <4>1. Removal = <<w>>
          BY <3>1 DEF Removal, ManifestWrite
        <4>2. Over(v, "round")
          BY <2>3, <3>1 DEF Round
        <4>3. Rightful(v, None) /\ ~Finished(None)
          BY <4>2 DEF Rightful, Unfinished, Finished
        <4>4. Rightly(<<w>>)
          BY <4>3 DEF Rightly, ManifestWrites, RowWrites, OtherWrites
        <4> QED
          BY <4>1, <4>4
      <3>2. CASE ~(Round /\ manifest[v] # None)
        <4> DEFINE w == [file |-> "part", round |-> v]
        <4>1. Removal = <<w>>
          BY <3>2 DEF Removal
        <4>2. Withdrawn(v)
          <5>1. CASE Round
            BY <3>2, <5>1 DEF Withdrawn
          <5>2. CASE ~Round
            <6>1. ForDetails(cycle)
              BY <1>1, <5>2 DEF ForDetails, Round, Modes
            <6>2. ~MarkPending(v)
              BY <2>2 DEF MarkPending
            <6> QED
              BY <1>1, <6>1, <6>2 DEF Careful, Cursors
          <5> QED
            BY <5>1, <5>2
        <4>3. Rightly(<<w>>)
          BY <2>5, <4>2 DEF Rightly, ManifestWrites, RowWrites, OtherWrites
        <4> QED
          BY <4>1, <4>3
      <3> QED
        BY <3>1, <3>2
    <2>7. Cursor(cycle') => Cursor(cycle) /\ cycle'.work.deleting = cycle.work.deleting
      BY <1>1, <2>2
    <2>8. Cursors'
      BY <2>2, <2>7, SameCursor
    <2> QED
      BY <2>2, <2>6, <2>8, StartCareful
  <1> QED
    BY <1>3, <1>4, <1>5

LEMMA RowStepsCareful ==
    ASSUME Types, Scheduled, Careful, StepSkip \/ StepDelete
    PROVE  Careful'
  <1>1. /\ Scanning /\ Left # {} /\ Work \in Works /\ cycle \in Cycles /\ Work.deleting = None
        /\ Work.day \in Days
    BY ScanTyped DEF StepSkip, StepDelete, AtRow
  <1>2. CASE StepSkip
    <2> DEFINE k == [Work EXCEPT !.after = Next1.round]
    <2>1. k.deleting = None
      BY <1>1 DEF Works
    <2>2. Step(k, <<>>)
      BY <1>2 DEF StepSkip
    <2> HIDE DEF k
    <2> QED
      BY <1>1, <2>1, <2>2, StepIs, HarmlessSteps DEF Cursor, OnlyRows
  <1>3. CASE StepDelete
    <2> DEFINE u == [round |-> Next1.round, mode |-> WrittenOff(Next1), marked |-> FALSE]
               k == [Work EXCEPT !.deleting = u]
    <2>1. k.deleting = u /\ u.marked = FALSE /\ u.round = Next1.round
      BY <1>1 DEF Works
    <2>2. Step(k, WriteAhead)
      BY <1>3 DEF StepDelete
    <2> HIDE DEF k, u
    <2>3. /\ run' = "on" /\ todo' = WriteAhead /\ todo = <<>> /\ cycle'.work = k
          /\ UNCHANGED <<clock, manifest, parts, queued, index, stored, done>>
      BY <1>1, <2>2, StepIs
    <2>4. Next1 \in index[Work.day]
      BY <1>1, NextRow DEF Scheduled, Cached, Rows
    <2>5. done[Next1.round] # None
      BY <1>1, <1>3, <2>4 DEF Careful, RowsOfCompleted, StepDelete, Deletable, RunOut
    <2>6. Rightly(todo')
      BY <2>3, OnlyRowsRightly DEF OnlyRows, WriteAhead
    <2>7. Cursors'
      <3>1. Justified(stored)' /\ (ForDetails(stored)' => Withdrawn(stored.work.deleting.round)')
        BY <2>3 DEF Careful, Cursors, Justified, ForDetails, Cursor, Over, Withdrawn
      <3>2. Justified(cycle)' /\ ~ForDetails(cycle)'
        BY <2>1, <2>3, <2>5 DEF Justified, ForDetails
      <3> QED
        BY <3>1, <3>2 DEF Cursors
    <2> QED
      BY <2>3, <2>6, <2>7, StartCareful
  <1> QED
    BY <1>2, <1>3

LEMMA NoteOnlyRows ==
    ASSUME NEW d \in Days, NEW rows \in SUBSET IndexRows, NEW e
    PROVE  OnlyRows(Note(d, rows, e))
  BY NoteFiles DEF OnlyRows

LEMMA OnlyRowsJoined ==
    ASSUME NEW s \in Seq(Writes), NEW t \in Seq(Writes), OnlyRows(s), OnlyRows(t)
    PROVE  OnlyRows(s \o t)
  <1> DEFINE u == s \o t
  <1>1. \A i \in 1..Len(u) :
          \/ i \in 1..Len(s) /\ u[i] = s[i]
          \/ i > Len(s) /\ i - Len(s) \in 1..Len(t) /\ u[i] = t[i - Len(s)]
    BY Joined
  <1> HIDE DEF u
  <1>2. ASSUME NEW i \in 1..Len(u)
        PROVE  /\ u[i].file \in {"index", "expiry", "state"}
               /\ u[i].file = "index" => \A w \in u[i].rows : Known(w)
    <2>1. CASE i \in 1..Len(s) /\ u[i] = s[i]
      BY <2>1 DEF OnlyRows
    <2>2. CASE i - Len(s) \in 1..Len(t) /\ u[i] = t[i - Len(s)]
      BY <2>2 DEF OnlyRows
    <2> QED
      BY <1>1, <2>1, <2>2
  <1> QED
    BY <1>2 DEF OnlyRows, u

LEMMA CommitOnlyRows ==
    ASSUME Types, RowsOfCompleted, Scanning, NEW c \in Caches \cup {None}
    PROVE  Commit(c) \in Seq(Writes) /\ OnlyRows(Commit(c))
  <1> DEFINE d == Work.day
             x == IndexWrite(d, Updated, c)
  <1>1. d \in Days /\ Updated \in SUBSET IndexRows /\ index[d] \in SUBSET IndexRows
    BY ScanTyped
  <1>2. \A w \in Updated : Known(w)
    <2>1. ASSUME NEW w \in Updated PROVE Known(w)
      <3>1. PICK v \in index[d] : w = v \/ w = [v EXCEPT !.detail = FALSE]
        BY DEF Updated
      <3>2. w.at = v.at /\ w.round = v.round
        BY <1>1, <3>1 DEF IndexRows
      <3> QED
        BY <1>1, <3>2 DEF Known, RowsOfCompleted
    <2> QED
      BY <2>1
  <1>3. /\ Commit(c) \in Seq(Writes)
        /\ Commit(c) = <<>> \/ \E e : Commit(c) = <<x>> \o Note(d, Updated, e)
    BY CommitIs
  <1>4. <<x>> \in Seq(Writes) /\ x.file = "index" /\ x.rows = Updated
    BY <1>1, KindsOfWrites DEF IndexWrite
  <1>5. OnlyRows(<<x>>)
    BY <1>2, <1>4 DEF OnlyRows
  <1> DEFINE y == <<x>>
  <1> HIDE DEF y
  <1>6. ASSUME NEW e, Commit(c) = y \o Note(d, Updated, e) PROVE OnlyRows(Commit(c))
    <2> DEFINE n == Note(d, Updated, e)
    <2>1. n \in Seq(Writes) /\ OnlyRows(n)
      BY <1>1, NoteFiles, NoteOnlyRows
    <2> HIDE DEF n
    <2>2. OnlyRows(y \o n)
      BY <1>4, <1>5, <2>1, OnlyRowsJoined DEF y
    <2> QED
      BY <1>6, <2>2 DEF n
  <1> QED
    BY <1>3, <1>6 DEF OnlyRows, y

LEMMA MaintenanceCareful ==
    ASSUME Types, Scheduled, Careful, StartRun \/ Steps \/ EndRun
    PROVE  Careful'
  <1>1. OnlyRows(<<>>) /\ OnlyRows(<<[file |-> "state"]>>)
    BY DEF OnlyRows
  <1>2. CASE StepDayDone
    <2>1. /\ Scanning /\ todo = <<>> /\ cycle \in Cycles /\ Work.day \in Days /\ Rows \in SUBSET IndexRows
          /\ UNCHANGED <<clock, manifest, parts, queued, index, stored, done>>
          /\ cycle' = [cycle EXCEPT !.work = None, !.days = @ \ {Work.day}]
          /\ \/ todo' = Note(Work.day, Rows, expiry[Work.day])
             \/ todo' = Commit(None)
      BY <1>2, ScanTyped DEF StepDayDone, disk
    <2>2. cycle'.work = None
      BY <2>1 DEF Cycles
    <2>3. OnlyRows(todo')
      BY <2>1, NoteOnlyRows, CommitOnlyRows DEF Careful
    <2> QED
      BY <2>1, <2>2, <2>3, HarmlessSteps DEF Cursor
  <1>3. CASE StepList
    <2> DEFINE D == {d \in Days : index[d] # {} /\ expiry[d] <= clock}
    <2>1. /\ todo = <<>> /\ cycle \in Cycles /\ cycle # None
          /\ UNCHANGED <<clock, manifest, parts, queued, index, stored, done>>
          /\ cycle' = [cycle EXCEPT !.days = D]
          /\ todo' = <<>> \/ \E S : todo' = <<Schedule(S, Absent)>>
      BY <1>3 DEF StepList, disk, Types
    <2> HIDE DEF D
    <2>2. cycle'.work = cycle.work
      BY <2>1 DEF Cycles
    <2>3. OnlyRows(todo')
      BY <2>1 DEF OnlyRows, Schedule
    <2> QED
      BY <2>1, <2>2, <2>3, HarmlessSteps DEF Cursor
  <1>4. CASE StepDay
    <2> DEFINE k == [day |-> Min(cycle.days), after |-> Max(Rounds) + 1, updates |-> {}, deleting |-> None]
    <2>1. Step(k, <<>>) /\ cycle \in Cycles /\ k.deleting = None
      BY <1>4 DEF StepDay, Types
    <2> HIDE DEF k
    <2> QED
      BY <1>1, <2>1, StepIs, HarmlessSteps DEF Cursor
  <1>5. CASE StepCycleDone
    <2>1. /\ todo = <<>> /\ todo' = <<>> /\ cycle' = None
          /\ UNCHANGED <<clock, manifest, parts, queued, index, stored, done>>
      BY <1>5 DEF StepCycleDone, disk
    <2> QED
      BY <1>1, <2>1, HarmlessSteps DEF Cursor
  <1>6. CASE StartRun
    <2>1. /\ todo = <<>> /\ todo' = <<>>
          /\ cycle' = cycle \/ cycle' = [days |-> None, work |-> None]
          /\ UNCHANGED <<clock, manifest, parts, queued, index, stored, done>>
      BY <1>6 DEF StartRun, disk, Idle
    <2> QED
      BY <1>1, <2>1, HarmlessSteps DEF Cursor
  <1>7. CASE EndRun
    <2> DEFINE z == <<[file |-> "state"]>>
    <2>1. /\ todo = <<>> /\ UNCHANGED <<clock, manifest, parts, queued, index, stored, done>>
          /\ \/ todo' = z /\ cycle' = cycle
             \/ /\ Scanning /\ cycle' = [cycle EXCEPT !.work.updates = {}]
                /\ After(Updated) \in Caches /\ todo' = Commit(After(Updated)) \o z
      BY <1>7, EndRunIs
    <2>2. z \in Seq(Writes) /\ OnlyRows(z)
      BY <1>1, Singletons
    <2> HIDE DEF z
    <2>3. CASE todo' = z /\ cycle' = cycle
      BY <2>1, <2>2, <2>3, HarmlessSteps
    <2>4. CASE /\ Scanning /\ cycle' = [cycle EXCEPT !.work.updates = {}]
               /\ After(Updated) \in Caches /\ todo' = Commit(After(Updated)) \o z
      <3> DEFINE c == Commit(After(Updated))
      <3>1. c \in Seq(Writes) /\ OnlyRows(c)
        BY <2>4, CommitOnlyRows DEF Careful
      <3>2. todo' = c \o z
        BY <2>4
      <3> HIDE DEF c
      <3>3. OnlyRows(todo')
        BY <2>2, <3>1, <3>2, OnlyRowsJoined
      <3>4. cycle \in Cycles /\ Work \in Works /\ cycle.work # None /\ cycle # None
        BY <2>4, ScanTyped DEF Scanning
      <3> DEFINE k == [Work EXCEPT !.updates = {}]
      <3>5. cycle' = [cycle EXCEPT !.work = k] /\ k.deleting = cycle.work.deleting
        BY <2>4, <3>4 DEF Work, Works
      <3> HIDE DEF k
      <3>6. cycle'.work = k
        BY <3>4, <3>5 DEF Cycles
      <3>7. Cursor(cycle') => Cursor(cycle) /\ cycle'.work.deleting = cycle.work.deleting
        BY <3>4, <3>5, <3>6 DEF Cursor
      <3> QED
        BY <2>1, <3>3, <3>7, HarmlessSteps
    <2> QED
      BY <2>1, <2>3, <2>4
  <1> QED
    BY <1>2, <1>3, <1>4, <1>5, <1>6, <1>7, MarkCareful, PruneCareful, RowStepsCareful DEF Steps

(* After a restart the cursor of the file is the one in memory.            *)
LEMMA InterruptionCareful ==
    ASSUME Types, Careful, Fail \/ Crash
    PROVE  Careful'
  <1>1. /\ todo' = <<>> /\ UNCHANGED <<clock, manifest, parts, queued, index, stored, done>>
        /\ cycle' = stored \/ (run = "off" /\ cycle' = cycle)
    BY DEF Fail, Crash, Forget, Maintaining, disk
  <1>2. Rightly(todo')
    BY <1>1, OnlyRowsRightly DEF OnlyRows
  <1>3. Cursors'
    <2>1. Justified(stored)' /\ (ForDetails(stored)' => Withdrawn(stored.work.deleting.round)')
      BY <1>1 DEF Careful, Cursors, Justified, ForDetails, Cursor, Over, Withdrawn
    <2>2. CASE cycle' = stored
      <3>1. Justified(cycle)' /\ (ForDetails(cycle)' => Withdrawn(cycle.work.deleting.round)')
        BY <1>1, <2>1, <2>2 DEF Justified, ForDetails, Cursor, Over, Withdrawn
      <3> QED
        BY <2>1, <3>1 DEF Cursors
    <2>3. CASE run = "off" /\ cycle' = cycle
      BY <1>1, <2>3, SameCursor
    <2> QED
      BY <1>1, <2>2, <2>3
  <1> QED
    BY <1>1, <1>2, <1>3, StartCareful

(* A time that has come justifies the cursor for good.                     *)
LEMMA JustifiedKept ==
    ASSUME Types, Careful, cycle' = cycle, stored' \in {stored, cycle},
           \A r \in Rounds : done[r] # None => done'[r] # None,
           \A r \in Rounds, mode \in Modes : Over(r, mode) =>
              r \notin queued' /\ done'[r] # None /\ clock' - done'[r] > Limit(mode)
    PROVE  Justified(stored)' /\ Justified(cycle)'
  <1>1. ASSUME NEW c \in Cycles \cup {None}, Cursor(c)
        PROVE  c.work.deleting.round \in Rounds /\ c.work.deleting.mode \in Modes
    BY <1>1 DEF Cursor, Cycles, Works, Deletings
  <1>2. stored \in Cycles \cup {None} /\ cycle \in Cycles \cup {None}
    BY DEF Types
  <1>3. Justified(stored) /\ Justified(cycle)
    BY DEF Careful, Cursors
  <1>4. Justified(cycle)'
    BY <1>1, <1>2, <1>3 DEF Justified, Cursor, Over
  <1>5. Justified(stored)'
    <2>1. CASE stored' = stored
      BY <1>1, <1>2, <1>3, <2>1 DEF Justified, Cursor, Over
    <2>2. CASE stored' = cycle
      BY <1>1, <1>2, <1>3, <2>2 DEF Justified, Cursor, Over
    <2> QED
      BY <2>1, <2>2
  <1> QED
    BY <1>4, <1>5

LEMMA TickCareful ==
    ASSUME Types, Careful, Tick
    PROVE  Careful'
  <1>1. /\ clock' \in Nat /\ clock' >= clock /\ clock' = clock + 1 /\ clock \in Nat
        /\ UNCHANGED <<manifest, parts, queued, index, stored, done, cycle, todo, run>>
    BY DEF Tick, disk, memory, Types
  <1>2. \A r \in Rounds : \A mode : Over(r, mode) =>
          r \notin queued' /\ done'[r] # None /\ clock' - done'[r] > Limit(mode)
    <2>1. ASSUME NEW r \in Rounds, NEW mode, Over(r, mode)
          PROVE  r \notin queued' /\ done'[r] # None /\ clock' - done'[r] > Limit(mode)
      BY <1>1, <2>1, OverKept DEF Over
    <2> QED
      BY <2>1
  <1>3. Completion' /\ MarkedFirst' /\ RowsOfCompleted'
    BY <1>1 DEF Careful, Completion, MarkedFirst, RowsOfCompleted, Finished, Unfinished
  <1>4. NothingEarly'
    <2>1. ASSUME NEW r \in Rounds, done[r] # None
          PROVE  /\ r \in queued \/ clock' - done[r] <= Detail
                      => parts[r] = Parts /\ manifest[r] # None /\ manifest[r].detail
                 /\ r \in queued \/ clock' - done[r] <= Whole => manifest[r] # None
      <3>1. done[r] \in Nat /\ Detail \in Nat /\ Whole \in Nat
        BY <2>1, StateTyped
      <3>2. /\ clock' - done[r] <= Detail => clock - done[r] <= Detail
            /\ clock' - done[r] <= Whole => clock - done[r] <= Whole
        BY <1>1, <3>1
      <3> QED
        BY <2>1, <3>2 DEF Careful, NothingEarly
    <2> QED
      BY <1>1, <2>1 DEF NothingEarly
  <1>5. Cursors'
    <2>1. Justified(stored)' /\ Justified(cycle)'
      BY <1>1, <1>2, JustifiedKept
    <2>2. ForDetails(stored)' => Withdrawn(stored.work.deleting.round)'
      BY <1>1 DEF Careful, Cursors, ForDetails, Cursor, Withdrawn
    <2>3. ForDetails(cycle)' => Withdrawn(cycle.work.deleting.round)' \/ MarkPending(cycle.work.deleting.round)'
      BY <1>1 DEF Careful, Cursors, ForDetails, Cursor, Withdrawn, MarkPending
    <2> QED
      BY <2>1, <2>2, <2>3 DEF Cursors
  <1>6. Rightly(todo)'
    <2>1. \A i \in 1..Len(todo) : todo[i].file \in {"manifest", "part"} => todo[i].round \in Rounds
      BY WrittenIs DEF Types
    <2>2. ManifestWrites(todo)'
      <3>1. ASSUME NEW i \in 1..Len(todo), todo[i].file = "manifest"
            PROVE  /\ todo[i].value = None => Over(todo[i].round, "round")'
                   /\ Unfinished(todo[i].value) => done[todo[i].round] = None /\ todo[i].value.detail
                   /\ Finished(todo[i].value) =>
                        IF todo[i].value.detail THEN done[todo[i].round] = None
                        ELSE done[todo[i].round] = todo[i].value.at /\ Over(todo[i].round, "details")'
        <4>1. Rightful(todo[i].round, todo[i].value) /\ todo[i].round \in Rounds
          BY <2>1, <3>1 DEF Careful, Rightly, ManifestWrites
        <4> QED
          BY <1>1, <1>2, <4>1 DEF Rightful, Over
      <3> QED
        BY <1>1, <3>1 DEF Careful, Rightly, ManifestWrites, Rightful, Over, Unfinished, Finished
    <2>3. RowWrites(todo)'
      BY <1>1 DEF Careful, Rightly, RowWrites, Finished
    <2>4. OtherWrites(todo)'
      BY <1>1, <1>2, <2>1 DEF Careful, Rightly, OtherWrites, Unfinished, Over, Withdrawn
    <2> QED
      BY <2>2, <2>3, <2>4 DEF Rightly
  <1> QED
    BY <1>3, <1>4, <1>5, <1>6 DEF Careful

(* What the next write of a handler keeps.                                 *)
LEMMA WriteKeeps ==
    ASSUME Types, Careful, Write
    PROVE  /\ \A r \in Rounds : done[r] # None => done'[r] = done[r]
           /\ Upcoming.file # "manifest" => done' = done /\ manifest' = manifest
           /\ \A r \in Rounds, mode \in Modes : Over(r, mode) =>
                r \notin queued' /\ done'[r] # None /\ clock' - done'[r] > Limit(mode)
           /\ stored' \in {stored, cycle} /\ cycle' = cycle
           /\ Upcoming.file # "state" => stored' = stored
  <1> DEFINE w == Upcoming
  <1>1. /\ todo \in Seq(Writes) /\ todo # <<>> /\ w = todo[1] /\ w \in Writes /\ 1 \in 1..Len(todo)
    BY WriteIs, NextWrite DEF Types, Upcoming
  <1>2. \A r \in Rounds : done[r] # None => done'[r] = done[r]
    BY WriteIs DEF Types
  <1>3. w.file # "manifest" => done' = done /\ manifest' = manifest
    BY WriteIs
  <1>4. clock' = clock /\ stored' \in {stored, cycle} /\ cycle' = cycle /\ (w.file # "state" => stored' = stored)
    BY WriteIs
  <1> HIDE DEF w
  <1>5. ASSUME NEW r \in Rounds, r \notin queued, done[r] # None PROVE r \notin queued'
    <2>1. \/ queued' = queued \/ queued' = queued \ {w.round}
          \/ w.file = "queue" /\ w.value /\ queued' = queued \cup {w.round}
      BY WriteIs DEF w
    <2>2. w.file = "queue" /\ w.value => done[w.round] = None
      BY <1>1 DEF Careful, Rightly, OtherWrites
    <2> QED
      BY <1>5, <2>1, <2>2
  <1> QED
    BY <1>2, <1>3, <1>4, <1>5 DEF Over, w

(* The writes that are left stay right after the next one.                 *)
LEMMA RestRightly ==
    ASSUME Types, Careful, Write
    PROVE  Rightly(todo)'
  <1> DEFINE w == Upcoming
             t == Tail(todo)
             IsOver(r, mode) == r \notin queued' /\ done'[r] # None /\ clock' - done'[r] > Limit(mode)
  <1>1. /\ todo \in Seq(Writes) /\ todo # <<>> /\ w = todo[1] /\ w \in Writes /\ todo' = t
        /\ 1 \in 1..Len(todo) /\ t \in Seq(Writes) /\ Len(t) = Len(todo) - 1 /\ Len(todo) \in Nat
        /\ \A i \in 1..Len(t) : i + 1 \in 1..Len(todo) /\ t[i] = todo[i + 1]
    BY WriteIs, NextWrite DEF Types, Upcoming
  <1>2. /\ \A r \in Rounds : done[r] # None => done'[r] = done[r]
        /\ w.file # "manifest" => done' = done /\ manifest' = manifest
        /\ \A r \in Rounds, mode \in Modes : Over(r, mode) => IsOver(r, mode)
    BY WriteKeeps
  <1>3. Rightly(todo)
    BY DEF Careful
  <1>4. w.file = "part" => Len(todo) = 1
    BY <1>1, <1>3 DEF Rightly, OtherWrites
  <1>5. w.file = "manifest" => /\ w.round \in Rounds /\ w.value \in Manifests \cup {None}
                               /\ done' = IF w.value # None /\ done[w.round] = None
                                          THEN [done EXCEPT ![w.round] = w.value.at] ELSE done
    BY <1>1, WriteIs, WrittenIs
  <1>6. w.file \in {"part", "parts"} => w.round \in Rounds
    BY <1>1, WrittenIs
  <1>7. \A i \in 1..Len(t) : t[i] \in Writes
    BY <1>1
  <1>8. /\ w.file = "parts" => parts' = [parts EXCEPT ![w.round] = Parts]
        /\ w.file \notin {"part", "parts"} => parts' = parts
    <2>1. w.file = "parts" => parts' = [parts EXCEPT ![w.round] = Parts]
      BY WriteIs
    <2>2. w.file \notin {"part", "parts"} => parts' = parts
      BY WriteIs
    <2> QED
      BY <2>1, <2>2
  <1> HIDE DEF w, t
  <1>9. ManifestWrites(todo)'
    <2>1. ASSUME NEW i \in 1..Len(t), t[i].file = "manifest"
          PROVE  /\ t[i].value = None => IsOver(t[i].round, "round")
                 /\ Unfinished(t[i].value) => done'[t[i].round] = None /\ t[i].value.detail
                 /\ Finished(t[i].value) => IF t[i].value.detail THEN done'[t[i].round] = None
                                            ELSE /\ done'[t[i].round] = t[i].value.at
                                                 /\ IsOver(t[i].round, "details")
                 /\ Finished(t[i].value) /\ t[i].value.detail => parts'[t[i].round] = Parts
                 /\ \A k \in 1..Len(t) : t[k].file = "manifest" => k = i
      <3> DEFINE r == t[i].round
                 m == t[i].value
      <3>1. i + 1 \in 1..Len(todo) /\ t[i] = todo[i + 1] /\ r \in Rounds /\ m \in Manifests \cup {None}
        BY <1>1, <1>7, <2>1, WrittenIs
      <3>2. /\ Rightful(r, m)
            /\ Finished(m) /\ m.detail =>
                 \/ parts[r] = Parts
                 \/ i + 1 = 2 /\ todo[1].file = "parts" /\ todo[1].round = r
            /\ \A k \in 1..Len(todo) : todo[k].file = "manifest" => k = i + 1
        BY <1>3, <2>1, <3>1 DEF Rightly, ManifestWrites
      <3> HIDE DEF r, m, IsOver
      <3>3. w.file # "manifest"
        BY <1>1, <3>2
      <3>4. \A k \in 1..Len(t) : t[k].file = "manifest" => k = i
        <4>1. ASSUME NEW k \in 1..Len(t), t[k].file = "manifest" PROVE k = i
          <5>1. k + 1 \in 1..Len(todo) /\ todo[k + 1].file = "manifest"
            BY <1>1, <4>1
          <5>2. k + 1 = i + 1
            BY <3>2, <5>1
          <5> QED
            BY <5>2
        <4> QED
          BY <4>1
      <3>5. /\ m = None => IsOver(r, "round")
            /\ Unfinished(m) => done'[r] = None /\ m.detail
            /\ Finished(m) => IF m.detail THEN done'[r] = None ELSE done'[r] = m.at /\ IsOver(r, "details")
        <4>1. done' = done
          BY <1>2, <3>3
        <4>2. /\ m = None => Over(r, "round")
              /\ Unfinished(m) => done[r] = None /\ m.detail
              /\ Finished(m) => IF m.detail THEN done[r] = None ELSE done[r] = m.at /\ Over(r, "details")
          BY <3>2 DEF Rightful
        <4>3. r \in Rounds /\ "round" \in Modes /\ "details" \in Modes
          BY <3>1 DEF Modes, r
        <4> HIDE DEF IsOver
        <4> QED
          BY <1>2, <4>1, <4>2, <4>3
      <3>6. Finished(m) /\ m.detail => parts'[r] = Parts
        <4>1. w.file # "part"
          BY <1>1, <1>4
        <4>2. CASE w.file = "parts"
          BY <1>1, <1>6, <1>8, <3>1, <3>2, <4>2 DEF Types, r, m
        <4>3. CASE w.file # "parts"
          BY <1>1, <1>8, <3>2, <4>1, <4>3
        <4> QED
          BY <4>2, <4>3
      <3> QED
        BY <3>4, <3>5, <3>6 DEF r, m, IsOver
    <2> QED
      BY <1>1, <2>1 DEF ManifestWrites, Rightful, Finished, Unfinished, Over
  <1>10. RowWrites(todo)'
    <2>1. ASSUME NEW i \in 1..Len(t), t[i].file = "index", NEW x \in t[i].rows, x.at # None
          PROVE  \/ done'[x.round] # None
                 \/ \E k \in 1..(i - 1) : /\ t[k].file = "manifest" /\ t[k].round = x.round
                                          /\ Finished(t[k].value)
      <3>1. i + 1 \in 1..Len(todo) /\ t[i] = todo[i + 1] /\ x.round \in Rounds
        BY <1>1, <1>7, <2>1, WrittenIs DEF IndexRows
      <3>2. \/ done[x.round] # None
            \/ \E k \in 1..((i + 1) - 1) : /\ todo[k].file = "manifest" /\ todo[k].round = x.round
                                           /\ Finished(todo[k].value)
        BY <1>3, <2>1, <3>1 DEF Rightly, RowWrites
      <3>3. CASE done[x.round] # None
        BY <1>2, <3>1, <3>3
      <3>4. ASSUME NEW k \in 1..((i + 1) - 1), todo[k].file = "manifest", todo[k].round = x.round,
                   Finished(todo[k].value), done[x.round] = None
            PROVE  \/ done'[x.round] # None
                   \/ \E j \in 1..(i - 1) : /\ t[j].file = "manifest" /\ t[j].round = x.round
                                            /\ Finished(t[j].value)
        <4>1. CASE k = 1
          <5>1. w.file = "manifest" /\ w.round = x.round /\ w.value # None /\ w.value.at # None
            BY <1>1, <3>4, <4>1 DEF Finished
          <5>2. done'[x.round] = w.value.at
            BY <1>5, <3>1, <3>4, <5>1 DEF Types
          <5> QED
            BY <5>1, <5>2
        <4>2. CASE k # 1
          <5>1. k - 1 \in 1..(i - 1) /\ k - 1 \in 1..Len(t) /\ (k - 1) + 1 = k
            BY <1>1, <4>2
          <5>2. t[k - 1] = todo[k]
            BY <1>1, <5>1
          <5> QED
            BY <3>4, <5>1, <5>2
        <4> QED
          BY <4>1, <4>2
      <3> QED
        BY <3>2, <3>3, <3>4
    <2> QED
      BY <1>1, <2>1 DEF RowWrites, Finished
  <1>11. OtherWrites(todo)'
    <2>1. ASSUME NEW i \in 1..Len(t), t[i].file = "queue", t[i].value
          PROVE  /\ done'[t[i].round] = None
                 /\ \A k \in 1..Len(t) : t[k].file = "manifest" => Unfinished(t[k].value)
      <3>1. i + 1 \in 1..Len(todo) /\ t[i] = todo[i + 1] /\ t[i].round \in Rounds
        BY <1>1, <1>7, <2>1, WrittenIs
      <3>2. /\ done[t[i].round] = None
            /\ \A k \in 1..Len(todo) : todo[k].file = "manifest" => Unfinished(todo[k].value)
        BY <1>3, <2>1, <3>1 DEF Rightly, OtherWrites
      <3>3. w.file = "manifest" => w.value.at = None
        BY <1>1, <3>2 DEF Unfinished
      <3>4. done'[t[i].round] = None
        <4>1. CASE w.file = "manifest"
          BY <1>5, <3>1, <3>2, <3>3, <4>1 DEF Types
        <4>2. CASE w.file # "manifest"
          BY <1>2, <3>2, <4>2
        <4> QED
          BY <4>1, <4>2
      <3> QED
        BY <1>1, <3>2, <3>4
    <2>2. ASSUME NEW i \in 1..Len(t), t[i].file = "part" PROVE FALSE
      <3>1. i + 1 \in 1..Len(todo) /\ t[i] = todo[i + 1]
        BY <1>1
      <3>2. Len(todo) = 1
        BY <1>3, <2>2, <3>1 DEF Rightly, OtherWrites
      <3> QED
        BY <1>1, <3>1, <3>2
    <2> QED
      BY <1>1, <2>1, <2>2 DEF OtherWrites, Unfinished
  <1> QED
    BY <1>9, <1>10, <1>11 DEF Rightly

(* Withdrawn details are not offered again.                                *)
LEMMA WithdrawnKept ==
    ASSUME Types, Careful, Write, NEW r \in Rounds, done[r] # None, Withdrawn(r) \/ MarkPending(r)
    PROVE  manifest'[r] # None => ~manifest'[r].detail
  <1> DEFINE w == Upcoming
  <1>1. todo # <<>> /\ w = todo[1] /\ 1 \in 1..Len(todo) /\ w \in Writes
    BY WriteIs, NextWrite DEF Types, Upcoming
  <1>2. CASE w.file = "manifest" /\ w.round = r
    <2>1. manifest' = [manifest EXCEPT ![r] = w.value] /\ w.value \in Manifests \cup {None}
      BY <1>1, <1>2, WriteIs, WrittenIs
    <2>2. Rightful(r, w.value)
      BY <1>1, <1>2 DEF Careful, Rightly, ManifestWrites
    <2>3. w.value # None => ~w.value.detail
      BY <2>2 DEF Rightful, Unfinished, Finished
    <2>4. manifest'[r] = w.value
      BY <2>1 DEF Types
    <2> QED
      BY <2>3, <2>4
  <1>3. CASE ~(w.file = "manifest" /\ w.round = r)
    <2>1. Withdrawn(r)
      BY <1>1, <1>3 DEF MarkPending
    <2>2. manifest'[r] = manifest[r]
      <3>1. CASE w.file = "manifest"
        <4>1. w.round \in Rounds /\ w.round # r
          BY <1>1, <1>3, <3>1, WrittenIs
        <4>2. manifest' = [manifest EXCEPT ![w.round] = w.value]
          BY <3>1, WriteIs
        <4> QED
          BY <4>1, <4>2 DEF Types
      <3>2. CASE w.file # "manifest"
        BY <3>2, WriteIs
      <3> QED
        BY <3>1, <3>2
    <2> QED
      BY <2>1, <2>2 DEF Withdrawn
  <1> QED
    BY <1>2, <1>3

LEMMA CursorsKept ==
    ASSUME Types, Careful, Write
    PROVE  Cursors'
  <1>1. Justified(stored)' /\ Justified(cycle)'
    <2>1. \A r \in Rounds : done[r] # None => done'[r] # None
      BY WriteKeeps
    <2> QED
      BY <2>1, WriteKeeps, JustifiedKept
  <1>2. ASSUME NEW c \in Cycles \cup {None}, Justified(c), ForDetails(c),
               Withdrawn(c.work.deleting.round) \/ MarkPending(c.work.deleting.round)
        PROVE  manifest'[c.work.deleting.round] # None => ~manifest'[c.work.deleting.round].detail
    <2>1. c.work.deleting.round \in Rounds /\ done[c.work.deleting.round] # None
      BY <1>2 DEF Justified, ForDetails, Cursor, Cycles, Works, Deletings
    <2> QED
      BY <1>2, <2>1, WithdrawnKept
  <1>3. stored \in Cycles \cup {None} /\ cycle \in Cycles \cup {None} /\ cycle' = cycle
    BY WriteKeeps DEF Types
  <1>4. ForDetails(cycle)' => Withdrawn(cycle.work.deleting.round)'
    <2>1. ForDetails(cycle) => Withdrawn(cycle.work.deleting.round) \/ MarkPending(cycle.work.deleting.round)
      BY DEF Careful, Cursors
    <2>2. ForDetails(cycle) => (manifest'[cycle.work.deleting.round] # None
                                  => ~manifest'[cycle.work.deleting.round].detail)
      BY <1>2, <1>3, <2>1 DEF Careful, Cursors
    <2> QED
      BY <1>3, <2>2 DEF ForDetails, Cursor, Withdrawn
  <1>5. ForDetails(stored)' => Withdrawn(stored.work.deleting.round)'
    <2>1. ForDetails(stored) => (manifest'[stored.work.deleting.round] # None
                                   => ~manifest'[stored.work.deleting.round].detail)
      BY <1>2, <1>3 DEF Careful, Cursors
    <2>2. stored' = stored \/ stored' = cycle'
      BY WriteKeeps
    <2>3. CASE stored' = stored
      BY <2>1, <2>3 DEF ForDetails, Cursor, Withdrawn
    <2>4. CASE stored' = cycle'
      BY <1>4, <2>4 DEF ForDetails, Cursor, Withdrawn
    <2> QED
      BY <2>2, <2>3, <2>4
  <1> QED
    BY <1>1, <1>4, <1>5 DEF Cursors

(* A manifest is written.                                                  *)
LEMMA ManifestCareful ==
    ASSUME Types, Careful, Write, Upcoming.file = "manifest"
    PROVE  Completion' /\ NothingEarly' /\ MarkedFirst' /\ RowsOfCompleted'
  <1> DEFINE w == Upcoming
             v == w.round
             m == w.value
  <1>1. /\ todo # <<>> /\ w = todo[1] /\ 1 \in 1..Len(todo) /\ w \in Writes
        /\ v \in Rounds /\ m \in Manifests \cup {None}
    BY WriteIs, NextWrite, WrittenIs DEF Types, Upcoming
  <1>2. /\ Rightful(v, m)
        /\ Finished(m) /\ m.detail => parts[v] = Parts
    BY <1>1 DEF Careful, Rightly, ManifestWrites
  <1>3. /\ manifest' = [manifest EXCEPT ![v] = m]
        /\ done' = IF m # None /\ done[v] = None THEN [done EXCEPT ![v] = m.at] ELSE done
        /\ UNCHANGED <<clock, parts, queued, index>>
    BY WriteIs
  <1> HIDE DEF w, v, m
  <1>4. manifest'[v] = m /\ \A r \in Rounds : r # v => manifest'[r] = manifest[r] /\ done'[r] = done[r]
    BY <1>1, <1>3 DEF Types
  <1>5. done'[v] = IF m # None /\ done[v] = None THEN m.at ELSE done[v]
    BY <1>1, <1>3 DEF Types
  <1>6. /\ m = None => Over(v, "round") /\ done'[v] = done[v]
        /\ Unfinished(m) => done'[v] = None /\ m.detail
        /\ Finished(m) => done'[v] = m.at /\ (~m.detail => Over(v, "details") /\ done[v] = m.at)
    BY <1>2, <1>5 DEF Rightful, Unfinished, Finished
  <1>7. Completion'
    <2>1. ASSUME NEW r \in Rounds
          PROVE  /\ Unfinished(manifest'[r]) => done'[r] = None /\ manifest'[r].detail
                 /\ Finished(manifest'[r]) => done'[r] = manifest'[r].at
      <3>1. CASE r = v
        BY <1>4, <1>6, <3>1
      <3>2. CASE r # v
        BY <1>4, <3>2 DEF Careful, Completion
      <3> QED
        BY <3>1, <3>2
    <2> QED
      BY <2>1 DEF Completion, Unfinished, Finished
  <1>8. MarkedFirst'
    <2>1. ASSUME NEW r \in Rounds, Finished(manifest'[r]), manifest'[r].detail
          PROVE  parts'[r] = Parts
      <3>1. CASE r = v
        BY <1>2, <1>3, <1>4, <2>1, <3>1
      <3>2. CASE r # v
        BY <1>3, <1>4, <2>1, <3>2 DEF Careful, MarkedFirst, Finished
      <3> QED
        BY <3>1, <3>2
    <2> QED
      BY <2>1 DEF MarkedFirst, Finished
  <1>9. NothingEarly'
    <2>1. ASSUME NEW r \in Rounds, done'[r] # None
          PROVE  /\ r \in queued \/ clock - done'[r] <= Detail
                      => parts[r] = Parts /\ manifest'[r] # None /\ manifest'[r].detail
                 /\ r \in queued \/ clock - done'[r] <= Whole => manifest'[r] # None
      <3>1. CASE r # v
        BY <1>4, <2>1, <3>1 DEF Careful, NothingEarly
      <3>2. CASE r = v /\ m = None
        <4>1. /\ v \notin queued /\ done[v] # None /\ clock - done[v] > Whole
              /\ done'[v] = done[v]
          BY <1>6, <3>2 DEF Over, Limit
        <4>2. /\ clock \in Nat /\ Detail \in Nat /\ Whole \in Nat /\ Detail <= Whole /\ done[v] \in Nat
          BY <1>1, <4>1, StateTyped
        <4> QED
          BY <3>2, <4>1, <4>2
      <3>3. CASE r = v /\ Unfinished(m)
        BY <1>6, <2>1, <3>3
      <3>4. CASE r = v /\ Finished(m)
        <4>1. manifest'[r] # None /\ manifest'[r] = m
          BY <1>4, <3>4 DEF Finished
        <4>2. CASE m.detail
          BY <1>2, <3>4, <4>1, <4>2
        <4>3. CASE ~m.detail
          <5>1. v \notin queued /\ clock - done[v] > Detail /\ done'[v] = done[v]
            BY <1>6, <3>4, <4>3 DEF Over, Limit
          <5>2. clock \in Nat /\ Detail \in Nat /\ done[v] \in Nat
            BY <1>1, <2>1, <3>4, <5>1, StateTyped
          <5> QED
            BY <3>4, <4>1, <5>1, <5>2
        <4> QED
          BY <4>2, <4>3
      <3> QED
        BY <3>1, <3>2, <3>3, <3>4 DEF Unfinished, Finished
    <2> QED
      BY <1>3, <2>1 DEF NothingEarly
  <1>10. RowsOfCompleted'
    <2>1. \A r \in Rounds : done[r] # None => done'[r] # None
      BY WriteKeeps
    <2>2. \A d \in Days : \A x \in index[d] : x.round \in Rounds
      BY DEF Types, IndexRows
    <2> QED
      BY <1>3, <2>1, <2>2 DEF Careful, RowsOfCompleted
  <1> QED
    BY <1>7, <1>8, <1>9, <1>10

(* Anything else is written.                                               *)
LEMMA OthersCareful ==
    ASSUME Types, Careful, Write, Upcoming.file # "manifest"
    PROVE  Completion' /\ NothingEarly' /\ MarkedFirst' /\ RowsOfCompleted'
  <1> DEFINE w == Upcoming
  <1>1. todo # <<>> /\ w = todo[1] /\ 1 \in 1..Len(todo) /\ w \in Writes
    BY WriteIs, NextWrite DEF Types, Upcoming
  <1>2. clock' = clock /\ done' = done /\ manifest' = manifest
    BY WriteIs, WriteKeeps
  <1>3. ASSUME NEW r \in Rounds, parts[r] = Parts, parts'[r] # Parts
        PROVE  Over(r, "details") /\ Withdrawn(r)
    <2>1. w.file = "part" /\ w.round = r
      <3>1. w.file \in {"part", "parts"} => w.round \in Rounds
        BY <1>1, WrittenIs
      <3>2. w.file = "part" => parts' = [parts EXCEPT ![w.round] = @ - 1]
        BY WriteIs
      <3>3. w.file = "parts" => parts' = [parts EXCEPT ![w.round] = Parts]
        BY WriteIs
      <3>4. w.file \notin {"part", "parts"} => parts' = parts
        BY WriteIs
      <3> HIDE DEF w
      <3> QED
        BY <1>3, <3>1, <3>2, <3>3, <3>4 DEF Types
    <2> QED
      BY <1>1, <2>1 DEF Careful, Rightly, OtherWrites
  <1>4. ASSUME NEW r \in Rounds, r \in queued', r \notin queued
        PROVE  done[r] = None
    <2>1. \/ queued' = queued \/ queued' = queued \ {w.round}
          \/ w.file = "queue" /\ w.value /\ queued' = queued \cup {w.round}
      BY WriteIs
    <2>2. w.file = "queue" /\ w.value => done[w.round] = None
      BY <1>1 DEF Careful, Rightly, OtherWrites
    <2> QED
      BY <1>4, <2>1, <2>2
  <1>5. Completion'
    BY <1>2 DEF Careful, Completion, Unfinished, Finished
  <1>6. MarkedFirst'
    BY <1>2, <1>3 DEF Careful, MarkedFirst, Withdrawn
  <1>7. NothingEarly'
    <2>1. ASSUME NEW r \in Rounds, done[r] # None
          PROVE  /\ r \in queued' \/ clock - done[r] <= Detail
                      => parts'[r] = Parts /\ manifest[r] # None /\ manifest[r].detail
                 /\ r \in queued' \/ clock - done[r] <= Whole => manifest[r] # None
      <3>1. r \in queued' => r \in queued
        BY <1>4, <2>1
      <3>2. /\ r \in queued \/ clock - done[r] <= Detail
                 => parts[r] = Parts /\ manifest[r] # None /\ manifest[r].detail
            /\ r \in queued \/ clock - done[r] <= Whole => manifest[r] # None
        BY <2>1 DEF Careful, NothingEarly
      <3>3. (r \in queued \/ clock - done[r] <= Detail) => parts'[r] = Parts
        BY <1>3, <3>2 DEF Withdrawn
      <3> QED
        BY <3>1, <3>2, <3>3
    <2> QED
      BY <1>2, <2>1 DEF NothingEarly
  <1>8. RowsOfCompleted'
    <2>1. CASE w.file = "index"
      <3>1. w.day \in Days /\ index' = [index EXCEPT ![w.day] = w.rows]
        BY <1>1, <2>1, WriteIs, WrittenIs
      <3>2. \A x \in w.rows : x.at # None => done[x.round] # None
        BY <1>1, <2>1 DEF Careful, Rightly, RowWrites
      <3> HIDE DEF w
      <3> QED
        BY <1>2, <3>1, <3>2 DEF Types, Careful, RowsOfCompleted
    <2>2. CASE w.file # "index"
      <3>1. index' = index
        BY <2>2, WriteIs
      <3> QED
        BY <1>2, <3>1 DEF Careful, RowsOfCompleted
    <2> QED
      BY <2>1, <2>2
  <1> QED
    BY <1>5, <1>6, <1>7, <1>8

LEMMA CarefulKept ==
    ASSUME Types, Scheduled, Careful, [Next]_vars
    PROVE  Careful'
  <1>1. CASE Write
    BY <1>1, RestRightly, CursorsKept, ManifestCareful, OthersCareful DEF Careful
  <1>2. CASE UNCHANGED vars
    <2>1. UNCHANGED <<clock, manifest, parts, queued, index, stored, done, cycle, todo, run>>
      BY <1>2 DEF vars, disk, memory
    <2>2. Cursors' /\ Rightly(todo')
      BY <2>1 DEF Careful, Cursors, Justified, ForDetails, Cursor, Over, Withdrawn, MarkPending
    <2> QED
      BY <2>1, <2>2, StartCareful
  <1> QED
    BY <1>1, <1>2, HandlerCareful, MaintenanceCareful, InterruptionCareful, TickCareful DEF Next

LEMMA InitialCareful ==
    ASSUME Init
    PROVE  Careful
  <1>1. Rightly(todo)
    BY OnlyRowsRightly DEF Init, OnlyRows
  <1>2. Completion /\ NothingEarly /\ MarkedFirst /\ RowsOfCompleted
    BY DEF Init, Completion, NothingEarly, MarkedFirst, RowsOfCompleted, Unfinished, Finished
  <1>3. Cursors
    BY DEF Init, Cursors, Justified, ForDetails, Cursor
  <1> QED
    BY <1>1, <1>2, <1>3 DEF Careful

LEMMA CarefulAlways == Spec => [](Types /\ Scheduled /\ Careful)
  <1>1. Init => Types /\ Scheduled /\ Careful
    BY InitialTypes, InitialScheduled, InitialCareful
  <1>2. Types /\ Scheduled /\ Careful /\ [Next]_vars => (Types /\ Scheduled /\ Careful)'
    BY TypesKept, ScheduledKept, CarefulKept
  <1> QED
    BY <1>1, <1>2, PTL DEF Spec

(* A round with a job in the queue, or whose time has not come since it    *)
(* was first completed, keeps its measurements and its manifest, however   *)
(* often a deletion is interrupted and resumed from the cursor on disk.    *)
THEOREM NothingGoesEarly == Spec => []NothingEarly
  <1>1. Types /\ Scheduled /\ Careful => NothingEarly
    BY DEF Careful
  <1> QED
    BY <1>1, CarefulAlways, PTL

(* The manifest withdraws the details before the first of them goes: in    *)
(* every state between two writes, one that offers them has them all.      *)
THEOREM DetailsAreMarkedFirst == Spec => []MarkedFirst
  <1>1. Types /\ Scheduled /\ Careful => MarkedFirst
    BY DEF Careful
  <1> QED
    BY <1>1, CarefulAlways, PTL
=============================================================================
