---------------------------- MODULE RoundStoreProofs ----------------------------
(***************************************************************************)
(* What the files of rounds say of each other at every write, for any      *)
(* rounds, slots, crashes and failed writes, and that their measurements   *)
(* implement ResultLedger.                                                 *)
(*                                                                         *)
(* A write of the running operation counts on the files as they are and on *)
(* the writes before it: Ready(w, D) says what must hold for write w once  *)
(* the writes D are done.  The order of an operation is right when each of *)
(* its writes is ready after those before it (InOrder), and a write that   *)
(* is made leaves the others ready.                                        *)
(***************************************************************************)
EXTENDS RoundStore, FiniteNaturals, SequenceTheorems

-----------------------------------------------------------------------------
AnyManifest == UNION {Manifests(r) : r \in Rounds}
Summaries == {Summary(m) : m \in AnyManifest}
Writes ==
    [what : {"manifest", "dirty"}, where : Rounds, value : AnyManifest]
    \cup [what : {"measurement"}, where : Slots, value : Measurement]
    \cup [what : {"index"}, where : Rounds, value : Summaries \cup {None}]
    \cup [what : {"receipt"}, where : Slots \X Days, value : BOOLEAN]
    \cup [what : {"fullReceipt"}, where : Slots, value : Days \cup {None}]
    \cup [what : {"settled"}, where : Slots, value : BOOLEAN]
    \cup [what : {"active", "intent", "trusted", "unscanned"}, where : Rounds, value : BOOLEAN]
    \cup [what : {"inactive"}, where : {None}, value : SUBSET Rounds]
    \cup [what : {"tomb"}, where : Rounds, value : {None, Rest}]
    \cup [what : {"bury"}, where : Rounds, value : {None}]
    \cup [what : {"close"}, where : {None}, value : BOOLEAN]

Types ==
    /\ manifest \in [Rounds -> AnyManifest \cup {None}]
    /\ \A r \in Rounds : manifest[r] \in Manifests(r) \cup {None}
    /\ dirty \in [Rounds -> AnyManifest \cup {None}]
    /\ \A r \in Rounds : dirty[r] \in Manifests(r) \cup {None}
    /\ tomb \in [Rounds -> AnyManifest \cup {None, Rest}]
    /\ measured \in [Slots -> Measurement \cup {None}]
    /\ index \in [Rounds -> Summaries \cup {None}]
    /\ receipt \subseteq Slots \X Days /\ fullReceipt \in [Slots -> Days \cup {None}]
    /\ recordedOn \in [Slots -> Days \cup {None}] /\ day \in Days /\ settled \subseteq Slots
    /\ active \subseteq Rounds /\ intent \subseteq Full
    /\ mode \in {"single", "batch", "flush"}
    /\ todo \in Seq(Writes)

-----------------------------------------------------------------------------
(* What the writes D will have made of the files.                          *)
Of(D, what, where) == {v.value : v \in {u \in D : u.what = what /\ u.where = where}}
Becomes(D, what, where, now, x) ==
    Of(D, what, where) \subseteq {x} /\ (now = x \/ x \in Of(D, what, where))

(* Round r is no full benchmark under deletion, or is one.                 *)
Untouched(r, D) == r \notin intent /\ TRUE \notin Of(D, "intent", r) /\ Of(D, "bury", r) = {}
Intended(r, D) == (r \in intent \/ TRUE \in Of(D, "intent", r)) /\ FALSE \notin Of(D, "intent", r)
Exists(r, D) == manifest[r] # None \/ Of(D, "manifest", r) # {}
Buried(r, D) == ~Exists(r, D) \/ Of(D, "bury", r) # {}
NoMoreReceipts(s, D) ==
    /\ \A d \in Days : TRUE \notin Of(D, "receipt", <<s, d>>)
    /\ Of(D, "fullReceipt", s) \subseteq {None}
WithoutReceipt(s, D) ==
    /\ NoMoreReceipts(s, D)
    /\ \A d \in Days : recordedOn[s] = d => <<s, d>> \notin receipt \/ FALSE \in Of(D, "receipt", <<s, d>>)
    /\ fullReceipt[s] = None \/ None \in Of(D, "fullReceipt", s)
Cleared(r, D) ==
    /\ None \in Of(D, "index", r) \/ (index[r] = None /\ Of(D, "index", r) \subseteq {None})
    /\ \A s \in SlotsOf(r) : WithoutReceipt(s, D)

(* The active list.                                                        *)
Dropped(r, D) == FALSE \in Of(D, "active", r) \/ \E S \in Of(D, "inactive", None) : r \in S
StaysListed(r, D) == (r \in active \/ TRUE \in Of(D, "active", r)) /\ ~Dropped(r, D)
Ended(r, D) ==
    \/ \E m \in Of(D, "manifest", r) : Terminal(m)
    \/ /\ manifest[r] = None \/ Terminal(manifest[r])
       /\ \A m \in Of(D, "manifest", r) : Terminal(m)

(* A late result is there; a round whose list entry may go has its row.    *)
Late(r, D) ==
    \E s \in SlotsOf(r) : \/ measured[s] # None /\ measured[s].late
                          \/ \E v \in Of(D, "measurement", s) : v.late
Indexed(r, D) ==
    \/ Intended(r, D) \/ ~Exists(r, D) \/ Late(r, D)
    \/ \E m \in Manifests(r) : /\ Becomes(D, "manifest", r, manifest[r], m)
                               /\ Becomes(D, "index", r, index[r], Summary(m))

(* A slot is closed by a measurement of its state; open ones have jobs.    *)
Agrees(e, res) == res # None /\ (res.late \/ e.state = res.state)
Backed(r, m, D) ==
    \A s \in SlotsOf(r) : m.slots[s].state # "open" =>
        /\ Agrees(m.slots[s], measured[s]) \/ Of(D, "measurement", s) # {}
        /\ \A v \in Of(D, "measurement", s) : Agrees(m.slots[s], v)
Retrievable(m) == \A s \in DOMAIN m.slots : m.slots[s].state = "open" => s \in m.jobs

(* A result has its receipts; that of full-receipts is of the day of its    *)
(* last receipt by day; a job waits until its answer was recorded.          *)
Receipted(s) == Receipts(s) # {} /\ (RoundOf[s] \in Full => fullReceipt[s] # None)
Dated(s) == RoundOf[s] \in Full => fullReceipt[s] \in {None, recordedOn[s]}
Waits(s) == s \in queued /\ s \notin settled
RecordedToday(s, D) == recordedOn[s] = day \/ TRUE \in Of(D, "receipt", <<s, day>>)
KeepsDate(s, D) ==
    \/ Waits(s) /\ Of(D, "settled", s) = {}
    \/ fullReceipt[s] \in {None, day} /\ Of(D, "fullReceipt", s) \subseteq {day}

(* A measurement is no false timeout, and is the first or may follow.       *)
Honest(s, v) == v.expired => v.state = "failed" /\ RoundOf[s] \in Full
Follows(s, v) ==
    IF measured[s] = None THEN ~v.late /\ ~v.url
    ELSE /\ RoundOf[s] \in Full
         /\ \/ measured[s].expired /\ v.late /\ ~v.expired /\ ~v.url /\ v.state \in {"ok", "partial", "failed"}
            \/ measured[s].state = "partial" /\ v = [measured[s] EXCEPT !.url = TRUE]

-----------------------------------------------------------------------------
(* When a write is ready.                                                  *)
ReadyState(r, m, D) ==
    /\ m \in Manifests(r) /\ Untouched(r, D) /\ Retrievable(m) /\ Backed(r, m, D)
    /\ ~Terminal(m) => /\ StaysListed(r, D)
                       /\ manifest[r] # None => ~Terminal(manifest[r])
                       /\ \A x \in Of(D, "manifest", r) : ~Terminal(x)
ReadyManifest(r, m, D) ==
    /\ ReadyState(r, m, D) /\ dirty[r] \in {None, m} /\ Of(D, "dirty", r) = {}
    /\ Late(r, D) \/ StaysListed(r, D) \/ Becomes(D, "index", r, index[r], Summary(m))
ReadyDirty(r, m, D) ==
    /\ ReadyState(r, m, D) /\ mode = "batch" /\ Of(D, "close", None) = {}
    /\ manifest[r] # None /\ Of(D, "manifest", r) = {}
    /\ Late(r, D) \/ StaysListed(r, D) \/ m.slots = manifest[r].slots
ReadyMeasurement(s, v, D) ==
    /\ Untouched(RoundOf[s], D) /\ manifest[RoundOf[s]] # None
    /\ Of(D, "measurement", s) = {} /\ Honest(s, v) /\ Follows(s, v)
    /\ \/ Receipted(s)
       \/ s \notin settled /\ Of(D, "settled", s) = {} /\ (v.state = "missing" \/ s \in queued)
Measured(s, D) == measured[s] # None \/ Of(D, "measurement", s) # {}
ReadyReceipt(s, d, value, D) ==
    IF value THEN /\ Untouched(RoundOf[s], D) /\ manifest[RoundOf[s]] # None /\ Measured(s, D)
                  /\ d = day /\ (RoundOf[s] \in Full => KeepsDate(s, D))
    ELSE Intended(RoundOf[s], D) /\ Buried(RoundOf[s], D)
ReadyFullReceipt(s, x, D) ==
    IF x # None THEN /\ Untouched(RoundOf[s], D) /\ manifest[RoundOf[s]] # None /\ Measured(s, D)
                     /\ x = day /\ RecordedToday(s, D)
    ELSE Intended(RoundOf[s], D) /\ Buried(RoundOf[s], D)
ReadySettled(s, value, D) ==
    /\ value /\ RecordedToday(s, D)
    /\ <<s, day>> \in receipt \/ TRUE \in Of(D, "receipt", <<s, day>>)
    /\ FALSE \notin Of(D, "receipt", <<s, day>>)
    /\ RoundOf[s] \in Full => /\ fullReceipt[s] = day \/ day \in Of(D, "fullReceipt", s)
                              /\ Of(D, "fullReceipt", s) \subseteq {day}
ReadyIndex(r, x, D) ==
    IF x = None THEN Intended(r, D) /\ Buried(r, D)
    ELSE /\ Untouched(r, D) /\ Exists(r, D)
         /\ \/ Late(r, D)
            \/ \E m \in Manifests(r) : Becomes(D, "manifest", r, manifest[r], m) /\ x = Summary(m)
ReadyDrop(r, D) ==
    /\ Ended(r, D) /\ Indexed(r, D)
    /\ Of(D, "dirty", r) = {}
    /\ dirty[r] # None => Becomes(D, "manifest", r, manifest[r], dirty[r])
ReadyIntent(r, value, D) ==
    IF value THEN /\ r \in Full /\ mode = "single" /\ Of(D, "bury", r) = {} /\ Ended(r, D)
                  /\ \A s \in SlotsOf(r) : measured[s] # None /\ Dated(s) /\ NoMoreReceipts(s, D)
    ELSE /\ Buried(r, D) /\ Cleared(r, D)
         /\ \/ None \in Of(D, "tomb", r)
            \/ tomb[r] = None /\ Of(D, "tomb", r) \subseteq {None} /\ Of(D, "bury", r) = {}
ReadyBury(r, D) ==
    mode = "single" /\ Intended(r, D) /\ Exists(r, D) /\ Of(D, "tomb", r) = {} /\ Of(D, "bury", r) = {}
ReadyTomb(r, x, D) ==
    /\ Intended(r, D) /\ Buried(r, D) /\ Cleared(r, D)
    /\ x = Rest => None \notin Of(D, "tomb", r)

Ready(w, D) ==
    /\ w.what = "manifest" => ReadyManifest(w.where, w.value, D)
    /\ w.what = "dirty" => ReadyDirty(w.where, w.value, D)
    /\ w.what = "measurement" => ReadyMeasurement(w.where, w.value, D)
    /\ w.what = "receipt" => ReadyReceipt(w.where[1], w.where[2], w.value, D)
    /\ w.what = "fullReceipt" => ReadyFullReceipt(w.where, w.value, D)
    /\ w.what = "settled" => ReadySettled(w.where, w.value, D)
    /\ w.what = "index" => ReadyIndex(w.where, w.value, D)
    /\ w.what = "active" /\ ~w.value => ReadyDrop(w.where, D)
    /\ w.what = "inactive" => \A r \in w.value : ReadyDrop(r, D)
    /\ w.what = "intent" => ReadyIntent(w.where, w.value, D)
    /\ w.what = "bury" => ReadyBury(w.where, D)
    /\ w.what = "tomb" => ReadyTomb(w.where, w.value, D)

Made(s, i) == {s[k] : k \in 1..(i - 1)}
InOrder(s, G) == \A i \in 1..Len(s) : Ready(s[i], G \cup Made(s, i))

-----------------------------------------------------------------------------
(* What the files and the memory say of each other between two writes.     *)
SoundManifests ==
    \A r \in Rounds : manifest[r] # None => Backed(r, manifest[r], {})
SoundBatch ==
    /\ mode = "single" => \A r \in Rounds : dirty[r] = None
    /\ \A r \in Rounds : dirty[r] # None =>
         /\ manifest[r] # None /\ r \notin intent
         /\ Backed(r, dirty[r], {}) /\ Retrievable(dirty[r])
         /\ Terminal(manifest[r]) => Terminal(dirty[r])
         /\ Late(r, {}) \/ r \in active \/ dirty[r].slots = manifest[r].slots
SoundMeasurements ==
    \A s \in Slots : measured[s] # None => manifest[RoundOf[s]] # None /\ Honest(s, measured[s])
SoundDeletion ==
    \A r \in Rounds :
        /\ tomb[r] # None => r \in intent /\ manifest[r] = None
        /\ r \in intent /\ manifest[r] = None /\ tomb[r] \in {None, Rest} => Cleared(r, {})
        /\ r \notin intent /\ manifest[r] = None => Cleared(r, {})
SettledAnswer == \A s \in settled : Receipted(s) \/ measured[s] = None
(* A deletion removes the receipt of the last day: a full receipt names it, *)
(* but between the two receipts of a job that is recorded again.            *)
SoundReceipts ==
    \A s \in Slots :
        /\ \A d \in Receipts(s) : recordedOn[s] # None /\ d <= recordedOn[s]
        /\ recordedOn[s] # None => recordedOn[s] <= day
        /\ Dated(s) \/ (Waits(s) /\ RoundOf[s] \notin intent)

Sound ==
    /\ Types /\ InOrder(todo, {})
    /\ SoundManifests /\ SoundBatch /\ SoundMeasurements /\ SoundDeletion
    /\ SettledAnswer /\ SoundReceipts
    /\ UnfinishedIsListed /\ SettledIsIndexed /\ AnswerSurvives /\ DeletionIsWhole

-----------------------------------------------------------------------------
(* Numbers and sequences of writes.                                        *)

(* A set of natural numbers that is not empty has a least element.         *)
LEMMA Least ==
    ASSUME NEW S \in SUBSET Nat, S # {}
    PROVE  \E m \in S : \A x \in S : m <= x
  <1>1. PICK a \in S : TRUE
    OBVIOUS
  <1> DEFINE D == {y \in S : y <= a}
  <1>2. a \in D /\ D \subseteq 0..a
    <2>1. a \in D
      OBVIOUS
    <2>2. \A y \in D : y \in 0..a
      OBVIOUS
    <2> HIDE DEF D
    <2> QED
      BY <2>1, <2>2
  <1>3. IsFiniteSet(0..a) /\ 0..a \subseteq Nat
    BY FS_Interval
  <1> HIDE DEF D
  <1>4. D \in SUBSET Nat /\ IsFiniteSet(D) /\ D # {}
    BY <1>2, <1>3, FS_Subset
  <1>5. PICK x \in D : \A y \in D : x <= y
    BY <1>4, Extremes
  <1> QED
    BY <1>5 DEF D

(* Where a write of a kind goes, and what it writes.                       *)
LEMMA WrittenIs ==
    ASSUME NEW w \in Writes
    PROVE  /\ w.what \in {"manifest", "dirty"} => w.where \in Rounds /\ w.value \in AnyManifest
           /\ w.what = "measurement" => w.where \in Slots /\ w.value \in Measurement
           /\ w.what = "index" => w.where \in Rounds /\ w.value \in Summaries \cup {None}
           /\ w.what = "receipt" => /\ w.where \in Slots \X Days /\ w.value \in BOOLEAN
                                    /\ w.where[1] \in Slots /\ w.where[2] \in Days
                                    /\ w.where = <<w.where[1], w.where[2]>>
           /\ w.what = "fullReceipt" => w.where \in Slots /\ w.value \in Days \cup {None}
           /\ w.what = "settled" => w.where \in Slots /\ w.value \in BOOLEAN
           /\ w.what \in {"active", "intent", "trusted", "unscanned"} => w.where \in Rounds /\ w.value \in BOOLEAN
           /\ w.what = "inactive" => w.where = None /\ w.value \in SUBSET Rounds
           /\ w.what = "tomb" => w.where \in Rounds /\ w.value \in {None, Rest}
           /\ w.what = "bury" => w.where \in Rounds /\ w.value = None
           /\ w.what = "close" => w.where = None /\ w.value \in BOOLEAN
           /\ w.what \in {"manifest", "dirty", "measurement", "index", "receipt", "fullReceipt",
                          "settled", "active", "intent", "trusted", "unscanned", "inactive",
                          "tomb", "bury", "close"}
  BY DEF Writes

(* The writes the operations make are Writes.                              *)
LEMMA KindsOfWrites ==
    /\ \A r \in Rounds, m \in AnyManifest : /\ Put("manifest", r, m) \in Writes
                                            /\ Put("dirty", r, m) \in Writes
    /\ \A s \in Slots, v \in Measurement : Put("measurement", s, v) \in Writes
    /\ \A r \in Rounds, x \in Summaries \cup {None} : Put("index", r, x) \in Writes
    /\ \A s \in Slots, d \in Days, b \in BOOLEAN : Put("receipt", <<s, d>>, b) \in Writes
    /\ \A s \in Slots, x \in Days \cup {None} : Put("fullReceipt", s, x) \in Writes
    /\ \A s \in Slots, b \in BOOLEAN : Put("settled", s, b) \in Writes
    /\ \A r \in Rounds, b \in BOOLEAN : /\ Put("active", r, b) \in Writes
                                        /\ Put("intent", r, b) \in Writes
                                        /\ Put("trusted", r, b) \in Writes
                                        /\ Put("unscanned", r, b) \in Writes
    /\ \A R \in SUBSET Rounds : Put("inactive", None, R) \in Writes
    /\ \A r \in Rounds, x \in {None, Rest} : Put("tomb", r, x) \in Writes
    /\ \A r \in Rounds : Put("bury", r, None) \in Writes
    /\ \A b \in BOOLEAN : Put("close", None, b) \in Writes
  BY DEF Writes, Put

(* The fields of a write.                                                  *)
LEMMA PutIs ==
    ASSUME NEW x, NEW y, NEW z
    PROVE  Put(x, y, z).what = x /\ Put(x, y, z).where = y /\ Put(x, y, z).value = z
  BY DEF Put

(* The elements of two sequences joined.                                   *)
LEMMA Joined ==
    ASSUME NEW s \in Seq(Writes), NEW t \in Seq(Writes)
    PROVE  /\ s \o t \in Seq(Writes) /\ Len(s \o t) = Len(s) + Len(t)
           /\ \A i \in 1..Len(s) : i \in 1..Len(s \o t) /\ (s \o t)[i] = s[i]
           /\ \A i \in 1..Len(t) : i + Len(s) \in 1..Len(s \o t) /\ (s \o t)[i + Len(s)] = t[i]
           /\ \A i \in 1..Len(s \o t) :
                \/ i \in 1..Len(s) /\ (s \o t)[i] = s[i]
                \/ /\ i > Len(s) /\ i - Len(s) \in 1..Len(t)
                   /\ (s \o t)[i] = t[i - Len(s)]
  <1>1. /\ s \o t \in Seq(Writes) /\ Len(s \o t) = Len(s) + Len(t)
        /\ \A i \in 1..Len(s) + Len(t) :
             (s \o t)[i] = IF i <= Len(s) THEN s[i] ELSE t[i - Len(s)]
    BY ConcatProperties
  <1>2. Len(s) \in Nat /\ Len(t) \in Nat
    OBVIOUS
  <1> DEFINE u == s \o t
  <1> HIDE DEF u
  <1>3. /\ Len(u) = Len(s) + Len(t)
        /\ \A i \in 1..Len(s) + Len(t) : u[i] = IF i <= Len(s) THEN s[i] ELSE t[i - Len(s)]
    BY <1>1 DEF u
  <1>4. \A i \in 1..Len(s) : i \in 1..Len(u) /\ u[i] = s[i]
    BY <1>2, <1>3
  <1>5. \A i \in 1..Len(t) : i + Len(s) \in 1..Len(u) /\ u[i + Len(s)] = t[i]
    BY <1>2, <1>3
  <1>6. \A i \in 1..Len(u) :
          \/ i \in 1..Len(s) /\ u[i] = s[i]
          \/ i > Len(s) /\ i - Len(s) \in 1..Len(t) /\ u[i] = t[i - Len(s)]
    BY <1>2, <1>3
  <1> QED
    BY <1>1, <1>4, <1>5, <1>6 DEF u

(* The first of some writes, and the others.                               *)
LEMMA NextWrite ==
    ASSUME NEW s \in Seq(Writes), s # <<>>
    PROVE  /\ Head(s) = s[1] /\ s[1] \in Writes /\ 1 \in 1..Len(s)
           /\ Tail(s) \in Seq(Writes) /\ Len(Tail(s)) = Len(s) - 1
           /\ \A i \in 1..Len(Tail(s)) : i + 1 \in 1..Len(s) /\ Tail(s)[i] = s[i + 1]
  BY HeadTailProperties

(* The set of the writes of a sequence.                                    *)
All(s) == {s[k] : k \in 1..Len(s)}

(* A single write as a sequence.                                           *)
LEMMA OneWrite ==
    ASSUME NEW w \in Writes
    PROVE  <<w>> \in Seq(Writes) /\ Len(<<w>>) = 1 /\ <<w>>[1] = w /\ All(<<w>>) = {w}
  <1>1. <<w>> \in Seq(Writes) /\ Len(<<w>>) = 1 /\ <<w>>[1] = w
    OBVIOUS
  <1>2. \A x \in All(<<w>>) : x = w
    BY DEF All
  <1>3. w \in All(<<w>>)
    BY <1>1 DEF All
  <1> QED
    BY <1>1, <1>2, <1>3

(* No write as a sequence.                                                 *)
LEMMA NoWrite == <<>> \in Seq(Writes) /\ Len(<<>>) = 0 /\ All(<<>>) = {}
  BY DEF All

(* Two sequences joined make the writes of both.                           *)
LEMMA AllJoined ==
    ASSUME NEW s \in Seq(Writes), NEW t \in Seq(Writes)
    PROVE  All(s \o t) = All(s) \cup All(t)
  <1> DEFINE u == s \o t
  <1>1. /\ \A i \in 1..Len(s) : i \in 1..Len(u) /\ u[i] = s[i]
        /\ \A i \in 1..Len(t) : i + Len(s) \in 1..Len(u) /\ u[i + Len(s)] = t[i]
        /\ \A i \in 1..Len(u) : \/ i \in 1..Len(s) /\ u[i] = s[i]
                                \/ /\ i > Len(s) /\ i - Len(s) \in 1..Len(t)
                                   /\ u[i] = t[i - Len(s)]
    BY Joined
  <1> HIDE DEF u
  <1>2. \A x \in All(u) : x \in All(s) \cup All(t)
    BY <1>1 DEF All
  <1>3. \A x \in All(s) : x \in All(u)
    BY <1>1 DEF All
  <1>4. \A x \in All(t) : x \in All(u)
    BY <1>1 DEF All
  <1> QED
    BY <1>2, <1>3, <1>4 DEF u

(* A sequence of writes makes Writes.                                      *)
LEMMA AllWrites ==
    ASSUME NEW s \in Seq(Writes)
    PROVE  All(s) \in SUBSET Writes
  BY ElementOfSeq DEF All

-----------------------------------------------------------------------------
(* The order of writes.                                                    *)

(* A single write is in order when it is ready.                            *)
LEMMA OneInOrder ==
    ASSUME NEW w \in Writes, NEW G, Ready(w, G)
    PROVE  InOrder(<<w>>, G)
  <1>1. Len(<<w>>) = 1 /\ <<w>>[1] = w
    OBVIOUS
  <1>2. Made(<<w>>, 1) = {}
    BY DEF Made
  <1>3. G \cup Made(<<w>>, 1) = G
    BY <1>2
  <1>4. \A i \in 1..Len(<<w>>) : i = 1
    BY <1>1
  <1> QED
    BY <1>1, <1>3, <1>4 DEF InOrder

(* No writes are in order.                                                 *)
LEMMA NoneInOrder ==
    ASSUME NEW G
    PROVE  InOrder(<<>>, G)
  BY DEF InOrder

(* Two sequences joined are in order when the second is after the first.   *)
LEMMA InOrderJoined ==
    ASSUME NEW s \in Seq(Writes), NEW t \in Seq(Writes), NEW G,
           InOrder(s, G), InOrder(t, G \cup All(s))
    PROVE  InOrder(s \o t, G)
  <1> DEFINE u == s \o t
  <1>1. /\ \A i \in 1..Len(s) : i \in 1..Len(u) /\ u[i] = s[i]
        /\ \A i \in 1..Len(t) : i + Len(s) \in 1..Len(u) /\ u[i + Len(s)] = t[i]
        /\ \A i \in 1..Len(u) : \/ i \in 1..Len(s) /\ u[i] = s[i]
                                \/ /\ i > Len(s) /\ i - Len(s) \in 1..Len(t)
                                   /\ u[i] = t[i - Len(s)]
    BY Joined
  <1> HIDE DEF u
  <1>2. Len(s) \in Nat /\ Len(t) \in Nat
    OBVIOUS
  <1>3. ASSUME NEW i \in 1..Len(u) PROVE Ready(u[i], G \cup Made(u, i))
    <2>1. CASE i \in 1..Len(s)
      <3>1. Made(u, i) = Made(s, i)
        <4>1. \A k \in 1..(i - 1) : k \in 1..Len(s)
          BY <1>2, <2>1
        <4>2. \A k \in 1..(i - 1) : u[k] = s[k]
          BY <1>1, <4>1
        <4> QED
          BY <4>2 DEF Made
      <3>2. Ready(s[i], G \cup Made(s, i))
        BY <2>1 DEF InOrder
      <3> QED
        BY <1>1, <2>1, <3>1, <3>2
    <2>2. CASE i \notin 1..Len(s)
      <3>1. i > Len(s) /\ i - Len(s) \in 1..Len(t) /\ u[i] = t[i - Len(s)]
        BY <1>1, <2>2
      <3> DEFINE j == i - Len(s)
      <3>2. Made(u, i) = All(s) \cup Made(t, j)
        <4>1. ASSUME NEW x \in Made(u, i) PROVE x \in All(s) \cup Made(t, j)
          <5>1. PICK k \in 1..(i - 1) : x = u[k]
            BY DEF Made
          <5>2. k \in 1..Len(u) /\ k < i /\ k \in Nat
            BY <5>1, <3>1
          <5>3. CASE k \in 1..Len(s)
            BY <1>1, <5>1, <5>3 DEF All
          <5>4. CASE k \notin 1..Len(s)
            <6>1. k > Len(s) /\ k - Len(s) \in 1..Len(t) /\ u[k] = t[k - Len(s)]
              BY <1>1, <5>2, <5>4
            <6>2. k - Len(s) \in 1..(j - 1)
              BY <1>2, <3>1, <5>2, <6>1
            <6> QED
              BY <5>1, <6>1, <6>2 DEF Made
          <5> QED
            BY <5>3, <5>4
        <4>2. ASSUME NEW x \in All(s) PROVE x \in Made(u, i)
          <5>1. PICK k \in 1..Len(s) : x = s[k]
            BY DEF All
          <5>2. k \in 1..(i - 1)
            BY <1>2, <3>1, <5>1
          <5> QED
            BY <1>1, <5>1, <5>2 DEF Made
        <4>3. ASSUME NEW x \in Made(t, j) PROVE x \in Made(u, i)
          <5>1. PICK k \in 1..(j - 1) : x = t[k]
            BY DEF Made
          <5>2. k \in 1..Len(t) /\ k + Len(s) \in 1..(i - 1)
            BY <1>2, <3>1, <5>1
          <5> QED
            BY <1>1, <5>1, <5>2 DEF Made
        <4> QED
          BY <4>1, <4>2, <4>3
      <3>3. Ready(t[j], (G \cup All(s)) \cup Made(t, j))
        BY <3>1 DEF InOrder
      <3>4. (G \cup All(s)) \cup Made(t, j) = G \cup Made(u, i)
        BY <3>2
      <3> QED
        BY <3>1, <3>3, <3>4
    <2> QED
      BY <2>1, <2>2
  <1> QED
    BY <1>3 DEF InOrder, u

(* Writes of which none needs another.                                     *)
LEMMA AnyOrder ==
    ASSUME NEW s \in Seq(Writes), NEW G,
           \A w \in All(s), D \in SUBSET (G \cup All(s)) : G \subseteq D => Ready(w, D)
    PROVE  InOrder(s, G)
  <1>1. ASSUME NEW i \in 1..Len(s) PROVE Ready(s[i], G \cup Made(s, i))
    <2>1. s[i] \in All(s)
      BY DEF All
    <2>2. Made(s, i) \subseteq All(s)
      <3>1. \A k \in 1..(i - 1) : k \in 1..Len(s)
        OBVIOUS
      <3> QED
        BY <3>1 DEF Made, All
    <2> HIDE DEF All, Made
    <2> QED
      BY <2>1, <2>2
  <1> QED
    BY <1>1 DEF InOrder

(* After its first write, the others are ready by it and those before them. *)
LEMMA RestInOrder ==
    ASSUME NEW s \in Seq(Writes), s # <<>>, InOrder(s, {})
    PROVE  /\ Ready(Head(s), {}) /\ Head(s) \in Writes /\ Tail(s) \in Seq(Writes)
           /\ \A i \in 1..Len(Tail(s)) : /\ Tail(s)[i] \in Writes
                                         /\ Ready(Tail(s)[i], {Head(s)} \cup Made(Tail(s), i))
  <1> DEFINE h == Head(s)
             t == Tail(s)
  <1>1. /\ h = s[1] /\ s[1] \in Writes /\ 1 \in 1..Len(s)
        /\ t \in Seq(Writes) /\ Len(t) = Len(s) - 1
        /\ \A i \in 1..Len(t) : i + 1 \in 1..Len(s) /\ t[i] = s[i + 1]
    BY NextWrite
  <1> HIDE DEF h, t
  <1>2. Ready(h, {})
    <2>1. Made(s, 1) = {}
      BY DEF Made
    <2>2. {} \cup Made(s, 1) = {}
      BY <2>1
    <2>3. Ready(s[1], {} \cup Made(s, 1))
      BY <1>1 DEF InOrder
    <2> QED
      BY <1>1, <2>2, <2>3
  <1>3. ASSUME NEW i \in 1..Len(t) PROVE t[i] \in Writes /\ Ready(t[i], {h} \cup Made(t, i))
    <2>1. Made(s, i + 1) = {h} \cup Made(t, i)
      <3>1. ASSUME NEW x \in Made(s, i + 1) PROVE x \in {h} \cup Made(t, i)
        <4>1. PICK k \in 1..i : x = s[k]
          BY DEF Made
        <4>2. CASE k = 1
          BY <1>1, <4>1, <4>2
        <4>3. CASE k # 1
          <5>1. k - 1 \in 1..(i - 1) /\ k - 1 \in 1..Len(t) /\ (k - 1) + 1 = k
            BY <4>1, <4>3
          <5>2. t[k - 1] = s[k]
            BY <1>1, <5>1
          <5> QED
            BY <4>1, <5>1, <5>2 DEF Made
        <4> QED
          BY <4>2, <4>3
      <3>2. h \in Made(s, i + 1)
        BY <1>1 DEF Made
      <3>3. ASSUME NEW x \in Made(t, i) PROVE x \in Made(s, i + 1)
        <4>1. PICK k \in 1..(i - 1) : x = t[k]
          BY DEF Made
        <4>2. k \in 1..Len(t) /\ k + 1 \in 1..((i + 1) - 1)
          BY <4>1
        <4> QED
          BY <1>1, <4>1, <4>2 DEF Made
      <3> QED
        BY <3>1, <3>2, <3>3
    <2>2. {} \cup Made(s, i + 1) = {h} \cup Made(t, i)
      BY <2>1
    <2>3. Ready(s[i + 1], {} \cup Made(s, i + 1))
      BY <1>1 DEF InOrder
    <2>4. t[i] \in Writes
      BY <1>1
    <2> QED
      BY <1>1, <2>2, <2>3, <2>4
  <1> QED
    BY <1>1, <1>2, <1>3 DEF h, t

-----------------------------------------------------------------------------
(* What a set of writes makes of the files.                                *)

(* What two sets of writes write is what either writes.                    *)
LEMMA OfJoined ==
    ASSUME NEW A, NEW B, NEW what, NEW where
    PROVE  Of(A \cup B, what, where) = Of(A, what, where) \cup Of(B, what, where)
  BY DEF Of

(* No write writes nothing.                                                *)
LEMMA OfNone ==
    ASSUME NEW what, NEW where
    PROVE  Of({}, what, where) = {}
  BY DEF Of

(* A single write writes its value where it goes.                          *)
LEMMA OfOne ==
    ASSUME NEW w, NEW what, NEW where
    PROVE  Of({w}, what, where) = IF w.what = what /\ w.where = where THEN {w.value} ELSE {}
  BY DEF Of

(* Written is what some write writes.                                      *)
LEMMA OfMember ==
    ASSUME NEW D, NEW what, NEW where, NEW x
    PROVE  x \in Of(D, what, where) <=> \E w \in D : w.what = what /\ w.where = where /\ w.value = x
  BY DEF Of

(* The same of a Put.                                                      *)
LEMMA OfPut ==
    ASSUME NEW x, NEW y, NEW z, NEW what, NEW where
    PROVE  Of({Put(x, y, z)}, what, where) = IF x = what /\ y = where THEN {z} ELSE {}
  <1> DEFINE w == Put(x, y, z)
  <1>1. w.what = x /\ w.where = y /\ w.value = z
    BY PutIs
  <1> HIDE DEF w
  <1>2. Of({w}, what, where) = IF x = what /\ y = where THEN {z} ELSE {}
    BY <1>1, OfOne
  <1> QED
    BY <1>2 DEF w

-----------------------------------------------------------------------------
(* One write.                                                              *)
Now == Head(todo)
Is(what, where) == Now.what = what /\ Now.where = where

(* The manifest of a round is a manifest, never None or Rest, and has a    *)
(* row.                                                                    *)
LEMMA ManifestTyped ==
    ASSUME NEW r \in Rounds, NEW m \in Manifests(r)
    PROVE  m \in AnyManifest /\ m # None /\ m # Rest /\ Summary(m) \in Summaries
  BY StoreConstants DEF AnyManifest, Summaries

(* What Write makes of every variable, by the kind and place of the write. *)
LEMMA Effects ==
    ASSUME Types, Write
    PROVE  /\ todo \in Seq(Writes) /\ todo # <<>> /\ Now \in Writes /\ todo' = Tail(todo)
           /\ \A r \in Rounds :
                /\ manifest'[r] = IF Is("bury", r) THEN None
                                  ELSE IF Is("manifest", r) THEN Now.value ELSE manifest[r]
                /\ tomb'[r] = IF Is("bury", r) THEN manifest[r]
                              ELSE IF Is("tomb", r) THEN Now.value ELSE tomb[r]
                /\ index'[r] = IF Is("index", r) THEN Now.value ELSE index[r]
                /\ dirty'[r] = IF Now.what = "close" THEN None
                               ELSE IF Is("dirty", r) THEN Now.value ELSE dirty[r]
                /\ r \in intent' <=> IF Is("intent", r) THEN Now.value ELSE r \in intent
                /\ r \in active' <=> IF Now.what = "inactive" THEN r \in active /\ r \notin Now.value
                                     ELSE IF Is("active", r) THEN Now.value ELSE r \in active
           /\ \A s \in Slots :
                /\ measured'[s] = IF Is("bury", RoundOf[s]) THEN None
                                  ELSE IF Is("measurement", s) THEN Now.value ELSE measured[s]
                /\ fullReceipt'[s] = IF Is("fullReceipt", s) THEN Now.value ELSE fullReceipt[s]
                /\ s \in settled' => s \in settled \/ (Is("settled", s) /\ Now.value)
           /\ mode' = (IF Now.what = "close" THEN "single" ELSE mode)
           /\ queued' = queued /\ day' = day
  <1>1. todo \in Seq(Writes) /\ todo # <<>> /\ Now \in Writes /\ todo' = Tail(todo)
    BY NextWrite DEF Types, Write, Idle, Now
  <1> DEFINE w == Head(todo)
  <1>2. w = Now
    BY DEF Now
  <1>3. /\ manifest' = IF w.what = "bury" THEN [manifest EXCEPT ![w.where] = None]
                       ELSE Set(manifest, "manifest", w)
        /\ tomb' = IF w.what = "bury" THEN [tomb EXCEPT ![w.where] = manifest[w.where]]
                   ELSE Set(tomb, "tomb", w)
        /\ measured' = IF w.what = "bury"
                       THEN [s \in Slots |-> IF RoundOf[s] = w.where THEN None ELSE measured[s]]
                       ELSE Set(measured, "measurement", w)
        /\ index' = Set(index, "index", w)
        /\ active' = IF w.what = "inactive" THEN active \ w.value ELSE Mark(active, "active", w)
        /\ receipt' = Mark(receipt, "receipt", w)
        /\ fullReceipt' = Set(fullReceipt, "fullReceipt", w)
        /\ intent' = Mark(intent, "intent", w)
        /\ dirty' = IF w.what = "close" THEN [r \in Rounds |-> None] ELSE Set(dirty, "dirty", w)
        /\ settled' = IF w.what = "close" /\ w.value THEN {} ELSE Mark(settled, "settled", w)
        /\ mode' = (IF w.what = "close" THEN "single" ELSE mode)
        /\ queued' = queued /\ day' = day
    BY DEF Write
  <1>4. /\ w \in Writes
        /\ manifest \in [Rounds -> AnyManifest \cup {None}]
        /\ dirty \in [Rounds -> AnyManifest \cup {None}]
        /\ tomb \in [Rounds -> AnyManifest \cup {None, Rest}]
        /\ measured \in [Slots -> Measurement \cup {None}]
        /\ index \in [Rounds -> Summaries \cup {None}]
        /\ fullReceipt \in [Slots -> Days \cup {None}]
    BY <1>1, <1>2 DEF Types
  <1> HIDE DEF w
  <1>5. \A r \in Rounds :
          /\ manifest'[r] = IF w.what = "bury" /\ w.where = r THEN None
                            ELSE IF w.what = "manifest" /\ w.where = r THEN w.value ELSE manifest[r]
          /\ tomb'[r] = IF w.what = "bury" /\ w.where = r THEN manifest[r]
                        ELSE IF w.what = "tomb" /\ w.where = r THEN w.value ELSE tomb[r]
    BY <1>3, <1>4 DEF Set
  <1>6. \A r \in Rounds :
          /\ index'[r] = IF w.what = "index" /\ w.where = r THEN w.value ELSE index[r]
          /\ dirty'[r] = IF w.what = "close" THEN None
                         ELSE IF w.what = "dirty" /\ w.where = r THEN w.value ELSE dirty[r]
    BY <1>3, <1>4 DEF Set
  <1>7. \A r \in Rounds :
          /\ r \in intent' <=> IF w.what = "intent" /\ w.where = r THEN w.value ELSE r \in intent
          /\ r \in active' <=> IF w.what = "inactive" THEN r \in active /\ r \notin w.value
                               ELSE IF w.what = "active" /\ w.where = r THEN w.value ELSE r \in active
    BY <1>3, <1>4 DEF Mark
  <1>8. \A s \in Slots :
          measured'[s] = IF w.what = "bury" /\ w.where = RoundOf[s] THEN None
                         ELSE IF w.what = "measurement" /\ w.where = s THEN w.value ELSE measured[s]
    BY <1>3, <1>4 DEF Set
  <1>9. \A s \in Slots :
          /\ fullReceipt'[s] = IF w.what = "fullReceipt" /\ w.where = s THEN w.value ELSE fullReceipt[s]
          /\ s \in settled' => s \in settled \/ (w.what = "settled" /\ w.where = s /\ w.value)
    BY <1>3, <1>4 DEF Mark, Set
  <1>14. \A s \in Slots :
          /\ measured'[s] = IF Is("bury", RoundOf[s]) THEN None
                            ELSE IF Is("measurement", s) THEN Now.value ELSE measured[s]
          /\ fullReceipt'[s] = IF Is("fullReceipt", s) THEN Now.value ELSE fullReceipt[s]
          /\ s \in settled' => s \in settled \/ (Is("settled", s) /\ Now.value)
    BY <1>2, <1>8, <1>9 DEF Is
  <1>15. \A r \in Rounds :
                /\ manifest'[r] = IF Is("bury", r) THEN None
                                  ELSE IF Is("manifest", r) THEN Now.value ELSE manifest[r]
                /\ tomb'[r] = IF Is("bury", r) THEN manifest[r]
                              ELSE IF Is("tomb", r) THEN Now.value ELSE tomb[r]
                /\ index'[r] = IF Is("index", r) THEN Now.value ELSE index[r]
                /\ dirty'[r] = IF Now.what = "close" THEN None
                               ELSE IF Is("dirty", r) THEN Now.value ELSE dirty[r]
                /\ r \in intent' <=> IF Is("intent", r) THEN Now.value ELSE r \in intent
                /\ r \in active' <=> IF Now.what = "inactive" THEN r \in active /\ r \notin Now.value
                                     ELSE IF Is("active", r) THEN Now.value ELSE r \in active
    BY <1>2, <1>5, <1>6, <1>7 DEF Is
  <1> QED
    BY <1>1, <1>2, <1>3, <1>14, <1>15

(* What Write makes of the receipts by day of a slot.                      *)
LEMMA ReceiptEffects ==
    ASSUME Types, Write, NEW s \in Slots
    PROVE  /\ \A d \in Days : <<s, d>> \in receipt' <=> IF Is("receipt", <<s, d>>) THEN Now.value
                                                       ELSE <<s, d>> \in receipt
           /\ \A d \in Days : Is("receipt", <<s, d>>) => Now.value \in BOOLEAN
           /\ \A d \in Days : Is("receipt", <<s, d>>) /\ Now.value => recordedOn'[s] = d
           /\ \/ recordedOn'[s] = recordedOn[s]
              \/ \E d \in Days : Is("receipt", <<s, d>>) /\ Now.value /\ recordedOn'[s] = d
  <1> DEFINE w == Now
  <1>1. /\ receipt' = Mark(receipt, "receipt", w)
        /\ recordedOn' = IF w.what = "receipt" /\ w.value
                         THEN [recordedOn EXCEPT ![w.where[1]] = w.where[2]] ELSE recordedOn
    BY DEF Write, Now
  <1>2. /\ recordedOn \in [Slots -> Days \cup {None}]
        /\ w.what = "receipt" => /\ w.where[1] \in Slots /\ w.where[2] \in Days /\ w.value \in BOOLEAN
                                 /\ w.where = <<w.where[1], w.where[2]>>
    BY Effects, WrittenIs DEF Types
  <1> HIDE DEF w
  <1>3. ASSUME NEW d \in Days
        PROVE  /\ <<s, d>> \in receipt' <=> IF w.what = "receipt" /\ w.where = <<s, d>> THEN w.value
                                            ELSE <<s, d>> \in receipt
               /\ w.what = "receipt" /\ w.where = <<s, d>> => w.value \in BOOLEAN
    BY <1>1, <1>2 DEF Mark
  <1>4. ASSUME NEW d \in Days, w.what = "receipt", w.where = <<s, d>>, w.value
        PROVE  recordedOn'[s] = d
    <2>1. w.where[1] = s /\ w.where[2] = d
      BY <1>4
    <2> QED
      BY <1>1, <1>2, <1>4, <2>1
  <1>5. \/ recordedOn'[s] = recordedOn[s]
        \/ \E d \in Days : w.what = "receipt" /\ w.where = <<s, d>> /\ w.value /\ recordedOn'[s] = d
    <2>1. CASE w.what = "receipt" /\ w.value /\ w.where[1] = s
      BY <1>1, <1>2, <2>1
    <2>2. CASE ~(w.what = "receipt" /\ w.value /\ w.where[1] = s)
      BY <1>1, <1>2, <2>2
    <2> QED
      BY <2>1, <2>2
  <1> QED
    BY <1>3, <1>4, <1>5 DEF Is, w

(* Writes that come after it.                                              *)
After(D) == D \in SUBSET Writes /\ \A w \in D : \E E : Ready(w, {Now} \cup E)

Coming(what, where, x) ==
    \E w \in Writes : /\ w.what = what /\ w.where = where /\ w.value = x
                      /\ \E E : Ready(w, {Now} \cup E)

(* What the next write and the writes after it write.                      *)
LEMMA OfNext ==
    ASSUME NEW D, NEW what, NEW where
    PROVE  Of({Now} \cup D, what, where) =
             (IF Is(what, where) THEN {Now.value} ELSE {}) \cup Of(D, what, where)
  <1>1. Of({Now} \cup D, what, where) = Of({Now}, what, where) \cup Of(D, what, where)
    BY OfJoined
  <1>2. Of({Now}, what, where) = IF Is(what, where) THEN {Now.value} ELSE {}
    BY OfOne DEF Is
  <1> QED
    BY <1>1, <1>2

(* A value written later comes from a write that counts on the next one.   *)
LEMMA OfAfter ==
    ASSUME NEW D, After(D), NEW what, NEW where, NEW x \in Of(D, what, where)
    PROVE  Coming(what, where, x)
  <1>1. PICK w \in D : w.what = what /\ w.where = where /\ w.value = x
    BY OfMember
  <1> QED
    BY <1>1 DEF After, Coming

(* Nothing is written about a round under deletion but its removal.        *)
LEMMA Barred ==
    ASSUME NEW D, After(D), NEW r \in Rounds, r \in intent
    PROVE  /\ Of(D, "manifest", r) = {} /\ Of(D, "dirty", r) = {} /\ Of(D, "index", r) \subseteq {None}
           /\ \A s \in SlotsOf(r) : Of(D, "measurement", s) = {}
  <1>1. ASSUME NEW x \in Of(D, "manifest", r) PROVE FALSE
    <2>0. Coming("manifest", r, x)
      BY <1>1, OfAfter
    <2>1. PICK w \in Writes : /\ w.what = "manifest" /\ w.where = r /\ w.value = x
                              /\ \E E : Ready(w, {Now} \cup E)
      BY <2>0 DEF Coming
    <2>3. PICK E : Ready(w, {Now} \cup E)
      BY <2>1
    <2>2. ReadyManifest(r, x, {Now} \cup E)
      BY <2>1, <2>3 DEF Ready
    <2> QED
      BY <2>2 DEF ReadyManifest, ReadyState, Untouched
  <1>2. ASSUME NEW x \in Of(D, "dirty", r) PROVE FALSE
    <2>0. Coming("dirty", r, x)
      BY <1>2, OfAfter
    <2>1. PICK w \in Writes : /\ w.what = "dirty" /\ w.where = r /\ w.value = x
                              /\ \E E : Ready(w, {Now} \cup E)
      BY <2>0 DEF Coming
    <2>3. PICK E : Ready(w, {Now} \cup E)
      BY <2>1
    <2>2. ReadyDirty(r, x, {Now} \cup E)
      BY <2>1, <2>3 DEF Ready
    <2> QED
      BY <2>2 DEF ReadyDirty, ReadyState, Untouched
  <1>3. ASSUME NEW x \in Of(D, "index", r) PROVE x = None
    <2>0. Coming("index", r, x)
      BY <1>3, OfAfter
    <2>1. PICK w \in Writes : /\ w.what = "index" /\ w.where = r /\ w.value = x
                              /\ \E E : Ready(w, {Now} \cup E)
      BY <2>0 DEF Coming
    <2>3. PICK E : Ready(w, {Now} \cup E)
      BY <2>1
    <2>2. ReadyIndex(r, x, {Now} \cup E)
      BY <2>1, <2>3 DEF Ready
    <2> QED
      BY <2>2 DEF ReadyIndex, Untouched
  <1>4. ASSUME NEW s \in SlotsOf(r), NEW x \in Of(D, "measurement", s) PROVE FALSE
    <2>0. Coming("measurement", s, x)
      BY <1>4, OfAfter
    <2>1. PICK w \in Writes : /\ w.what = "measurement" /\ w.where = s /\ w.value = x
                              /\ \E E : Ready(w, {Now} \cup E)
      BY <2>0 DEF Coming
    <2>3. PICK E : Ready(w, {Now} \cup E)
      BY <2>1
    <2>2. ReadyMeasurement(s, x, {Now} \cup E)
      BY <2>1, <2>3 DEF Ready
    <2> QED
      BY <2>2 DEF ReadyMeasurement, Untouched, SlotsOf
  <1> QED
    BY <1>1, <1>2, <1>3, <1>4

(* A write that is made at once.                                           *)
LEMMA ReadyNow ==
    ASSUME Ready(Now, {})
    PROVE  /\ \A r \in Rounds : Is("bury", r) => r \in intent /\ manifest[r] # None /\ mode = "single"
           /\ \A r \in Rounds : Is("manifest", r) \/ Is("dirty", r) => r \notin intent
           /\ \A r \in Rounds : Is("tomb", r) => r \in intent
           /\ \A s \in Slots : Is("measurement", s) => RoundOf[s] \notin intent
           /\ \A s \in Slots, d \in Days : Is("receipt", <<s, d>>) =>
                IF Now.value THEN RoundOf[s] \notin intent /\ d = day ELSE RoundOf[s] \in intent
           /\ \A s \in Slots : Is("fullReceipt", s) =>
                IF Now.value # None THEN RoundOf[s] \notin intent ELSE RoundOf[s] \in intent
           /\ \A r \in Rounds : Is("index", r) => IF Now.value = None THEN r \in intent ELSE r \notin intent
  <1>1. \A r : Of({}, "intent", r) = {} /\ Of({}, "manifest", r) = {}
    BY OfNone
  <1>2. ASSUME NEW r \in Rounds, Is("bury", r) PROVE r \in intent /\ manifest[r] # None /\ mode = "single"
    <2>1. ReadyBury(r, {})
      BY <1>2 DEF Ready, Is
    <2> QED
      BY <1>1, <2>1 DEF ReadyBury, Intended, Exists
  <1>3. ASSUME NEW r \in Rounds, Is("manifest", r) \/ Is("dirty", r) PROVE r \notin intent
    <2>1. ReadyState(r, Now.value, {})
      BY <1>3 DEF Ready, Is, ReadyManifest, ReadyDirty
    <2> QED
      BY <2>1 DEF ReadyState, Untouched
  <1>4. ASSUME NEW r \in Rounds, Is("tomb", r) PROVE r \in intent
    <2>1. ReadyTomb(r, Now.value, {})
      BY <1>4 DEF Ready, Is
    <2> QED
      BY <1>1, <2>1 DEF ReadyTomb, Intended
  <1>5. ASSUME NEW s \in Slots, Is("measurement", s) PROVE RoundOf[s] \notin intent
    <2>1. ReadyMeasurement(s, Now.value, {})
      BY <1>5 DEF Ready, Is
    <2> QED
      BY <2>1 DEF ReadyMeasurement, Untouched
  <1>6. ASSUME NEW s \in Slots, NEW d \in Days, Is("receipt", <<s, d>>)
        PROVE  IF Now.value THEN RoundOf[s] \notin intent /\ d = day ELSE RoundOf[s] \in intent
    <2>1. ReadyReceipt(s, d, Now.value, {})
      BY <1>6 DEF Ready, Is
    <2> QED
      BY <1>1, <2>1 DEF ReadyReceipt, Untouched, Intended
  <1>8. ASSUME NEW s \in Slots, Is("fullReceipt", s)
        PROVE  IF Now.value # None THEN RoundOf[s] \notin intent ELSE RoundOf[s] \in intent
    <2>1. ReadyFullReceipt(s, Now.value, {})
      BY <1>8 DEF Ready, Is
    <2> QED
      BY <1>1, <2>1 DEF ReadyFullReceipt, Untouched, Intended
  <1>7. ASSUME NEW r \in Rounds, Is("index", r)
        PROVE  IF Now.value = None THEN r \in intent ELSE r \notin intent
    <2>1. ReadyIndex(r, Now.value, {})
      BY <1>7 DEF Ready, Is
    <2> QED
      BY <1>1, <2>1 DEF ReadyIndex, Untouched, Intended
  <1> QED
    BY <1>2, <1>3, <1>4, <1>5, <1>6, <1>7, <1>8

-----------------------------------------------------------------------------
(* The next write is made, and what was said of it and the writes D after  *)
(* it is said of D.                                                        *)
Step(D) == Types /\ Write /\ Ready(Now, {}) /\ After(D)

(* No deletion before and among the next writes: none after the first.     *)
LEMMA UntouchedNext ==
    ASSUME NEW D, Step(D), NEW r \in Rounds, Untouched(r, {Now} \cup D)
    PROVE  Untouched(r, D)' /\ ~Is("bury", r)
  <1>1. /\ Of({Now} \cup D, "intent", r) = (IF Is("intent", r) THEN {Now.value} ELSE {}) \cup Of(D, "intent", r)
        /\ Of({Now} \cup D, "bury", r) = (IF Is("bury", r) THEN {Now.value} ELSE {}) \cup Of(D, "bury", r)
    BY OfNext
  <1>2. r \in intent' <=> IF Is("intent", r) THEN Now.value ELSE r \in intent
    BY Effects DEF Step
  <1>3. Is("intent", r) => Now.value \in BOOLEAN
    BY Effects, WrittenIs DEF Step, Is
  <1>4. r \notin intent /\ TRUE \notin Of({Now} \cup D, "intent", r) /\ Of({Now} \cup D, "bury", r) = {}
    BY DEF Untouched
  <1>5. ~Is("bury", r) /\ Of(D, "bury", r) = {} /\ TRUE \notin Of(D, "intent", r)
    BY <1>1, <1>4
  <1>6. r \notin intent'
    BY <1>1, <1>2, <1>3, <1>4
  <1> QED
    BY <1>5, <1>6 DEF Untouched

(* A deletion that is begun by now or by the next write is begun after it. *)
LEMMA IntendedNext ==
    ASSUME NEW D, Step(D), NEW r \in Rounds, Intended(r, {Now} \cup D)
    PROVE  Intended(r, D)'
  <1>1. Of({Now} \cup D, "intent", r) = (IF Is("intent", r) THEN {Now.value} ELSE {}) \cup Of(D, "intent", r)
    BY OfNext
  <1>2. r \in intent' <=> IF Is("intent", r) THEN Now.value ELSE r \in intent
    BY Effects DEF Step
  <1>3. Is("intent", r) => Now.value \in BOOLEAN
    BY Effects, WrittenIs DEF Step, Is
  <1>4. r \in intent' \/ TRUE \in Of(D, "intent", r)
    BY <1>1, <1>2, <1>3 DEF Intended
  <1>5. FALSE \notin Of(D, "intent", r)
    BY <1>1 DEF Intended
  <1> QED
    BY <1>4, <1>5 DEF Intended

(* A round that is there by now or by the next write is there after it.    *)
LEMMA ExistsNext ==
    ASSUME NEW D, Step(D), NEW r \in Rounds, Exists(r, {Now} \cup D), ~Is("bury", r)
    PROVE  Exists(r, D)'
  <1>1. Of({Now} \cup D, "manifest", r) = (IF Is("manifest", r) THEN {Now.value} ELSE {}) \cup Of(D, "manifest", r)
    BY OfNext
  <1>2. manifest'[r] = IF Is("manifest", r) THEN Now.value ELSE manifest[r]
    BY Effects DEF Step
  <1>3. Is("manifest", r) => Now.value # None
    <2>1. ASSUME Is("manifest", r) PROVE ReadyManifest(r, Now.value, {})
      BY <2>1 DEF Step, Ready, Is
    <2> QED
      BY <2>1, ManifestTyped DEF ReadyManifest, ReadyState
  <1> QED
    BY <1>1, <1>2, <1>3 DEF Exists

(* A round buried by now or by the next write is buried after it.          *)
LEMMA BuriedNext ==
    ASSUME NEW D, Step(D), NEW r \in Rounds, Buried(r, {Now} \cup D)
    PROVE  Buried(r, D)'
  <1>1. /\ Of({Now} \cup D, "manifest", r) = (IF Is("manifest", r) THEN {Now.value} ELSE {}) \cup Of(D, "manifest", r)
        /\ Of({Now} \cup D, "bury", r) = (IF Is("bury", r) THEN {Now.value} ELSE {}) \cup Of(D, "bury", r)
    BY OfNext
  <1>2. manifest'[r] = IF Is("bury", r) THEN None
                       ELSE IF Is("manifest", r) THEN Now.value ELSE manifest[r]
    BY Effects DEF Step
  <1>3. CASE Is("bury", r)
    <2>1. r \in intent
      BY <1>3, ReadyNow DEF Step
    <2>2. Of(D, "manifest", r) = {}
      BY <2>1, Barred DEF Step
    <2> QED
      BY <1>2, <1>3, <2>2 DEF Buried, Exists
  <1>4. CASE ~Is("bury", r)
    <2>1. CASE Of(D, "bury", r) # {}
      BY <2>1 DEF Buried
    <2>2. CASE Of(D, "bury", r) = {}
      <3>1. ~Exists(r, {Now} \cup D)
        BY <1>1, <1>4, <2>2 DEF Buried
      <3>2. ~Is("manifest", r) /\ Of(D, "manifest", r) = {} /\ manifest[r] = None
        BY <1>1, <3>1 DEF Exists
      <3> QED
        BY <1>2, <1>4, <3>2 DEF Buried, Exists
    <2> QED
      BY <2>1, <2>2
  <1> QED
    BY <1>3, <1>4

(* A slot that loses its receipts has lost them or loses them later.       *)
LEMMA ReceiptNext ==
    ASSUME NEW D, Step(D), NEW s \in Slots, WithoutReceipt(s, {Now} \cup D)
    PROVE  WithoutReceipt(s, D)'
  <1>1. \A d \in Days : Of({Now} \cup D, "receipt", <<s, d>>)
                        = (IF Is("receipt", <<s, d>>) THEN {Now.value} ELSE {}) \cup Of(D, "receipt", <<s, d>>)
    BY OfNext
  <1>2. Of({Now} \cup D, "fullReceipt", s) = (IF Is("fullReceipt", s) THEN {Now.value} ELSE {}) \cup Of(D, "fullReceipt", s)
    BY OfNext
  <1>3. /\ \A d \in Days : <<s, d>> \in receipt' <=> IF Is("receipt", <<s, d>>) THEN Now.value
                                                    ELSE <<s, d>> \in receipt
        /\ \A d \in Days : Is("receipt", <<s, d>>) => Now.value \in BOOLEAN
        /\ \/ recordedOn'[s] = recordedOn[s]
           \/ \E d \in Days : Is("receipt", <<s, d>>) /\ Now.value /\ recordedOn'[s] = d
    BY ReceiptEffects DEF Step
  <1>8. fullReceipt'[s] = IF Is("fullReceipt", s) THEN Now.value ELSE fullReceipt[s]
    BY Effects DEF Step
  <1>4. NoMoreReceipts(s, D) /\ \A d \in Days : Is("receipt", <<s, d>>) => ~Now.value
    BY <1>1, <1>2 DEF WithoutReceipt, NoMoreReceipts
  <1>5. recordedOn'[s] = recordedOn[s]
    BY <1>3, <1>4
  <1>6. ASSUME NEW d \in Days, recordedOn'[s] = d
        PROVE  <<s, d>> \notin receipt' \/ FALSE \in Of(D, "receipt", <<s, d>>)
    <2>1. <<s, d>> \notin receipt \/ FALSE \in Of({Now} \cup D, "receipt", <<s, d>>)
      BY <1>5, <1>6 DEF WithoutReceipt
    <2>2. CASE Is("receipt", <<s, d>>)
      BY <1>3, <1>4, <2>2
    <2>3. CASE ~Is("receipt", <<s, d>>)
      BY <1>1, <1>3, <2>1, <2>3
    <2> QED
      BY <2>2, <2>3
  <1>7. fullReceipt'[s] = None \/ None \in Of(D, "fullReceipt", s)
    BY <1>2, <1>8 DEF WithoutReceipt, NoMoreReceipts
  <1> QED
    BY <1>4, <1>6, <1>7 DEF WithoutReceipt, NoMoreReceipts

(* A round that loses its row and receipts has lost them or loses them     *)
(* later.                                                                  *)
LEMMA ClearedNext ==
    ASSUME NEW D, Step(D), NEW r \in Rounds, Cleared(r, {Now} \cup D)
    PROVE  Cleared(r, D)'
  <1>1. ASSUME NEW s \in SlotsOf(r) PROVE WithoutReceipt(s, D)'
    <2>1. s \in Slots /\ WithoutReceipt(s, {Now} \cup D)
      BY DEF Cleared, SlotsOf
    <2> QED
      BY <2>1, ReceiptNext
  <1>2. Of({Now} \cup D, "index", r) = (IF Is("index", r) THEN {Now.value} ELSE {}) \cup Of(D, "index", r)
    BY OfNext
  <1>3. index'[r] = IF Is("index", r) THEN Now.value ELSE index[r]
    BY Effects DEF Step
  <1>4. ASSUME Is("index", r), Now.value = None PROVE Of(D, "index", r) \subseteq {None}
    <2>1. r \in intent
      BY <1>4, ReadyNow DEF Step
    <2> QED
      BY <2>1, Barred DEF Step
  <1>5. None \in Of(D, "index", r) \/ (index'[r] = None /\ Of(D, "index", r) \subseteq {None})
    BY <1>2, <1>3, <1>4 DEF Cleared
  <1> QED
    BY <1>1, <1>5 DEF Cleared

(* A round that is listed by now or by the next write stays listed.        *)
LEMMA ListedNext ==
    ASSUME NEW D, Step(D), NEW r \in Rounds, StaysListed(r, {Now} \cup D)
    PROVE  StaysListed(r, D)'
  <1>1. /\ Of({Now} \cup D, "active", r) = (IF Is("active", r) THEN {Now.value} ELSE {}) \cup Of(D, "active", r)
        /\ Of({Now} \cup D, "inactive", None) = (IF Is("inactive", None) THEN {Now.value} ELSE {}) \cup Of(D, "inactive", None)
    BY OfNext
  <1>2. r \in active' <=> IF Now.what = "inactive" THEN r \in active /\ r \notin Now.value
                          ELSE IF Is("active", r) THEN Now.value ELSE r \in active
    BY Effects DEF Step
  <1>3. /\ Is("active", r) => Now.value \in BOOLEAN
        /\ Now.what = "inactive" => Is("inactive", None)
    BY Effects, WrittenIs DEF Step, Is
  <1>4. /\ r \in active \/ TRUE \in Of({Now} \cup D, "active", r)
        /\ FALSE \notin Of({Now} \cup D, "active", r)
        /\ \A S \in Of({Now} \cup D, "inactive", None) : r \notin S
    BY DEF StaysListed, Dropped
  <1>5. /\ FALSE \notin Of(D, "active", r)
        /\ \A S \in Of(D, "inactive", None) : r \notin S
        /\ Is("active", r) => Now.value
        /\ Now.what = "inactive" => r \notin Now.value
    BY <1>1, <1>3, <1>4
  <1>6. r \in active' \/ TRUE \in Of(D, "active", r)
    BY <1>1, <1>2, <1>4, <1>5 DEF Is
  <1> QED
    BY <1>5, <1>6 DEF StaysListed, Dropped

(* A round that ends by now or by the next write has ended or ends later.  *)
LEMMA EndedNext ==
    ASSUME NEW D, Step(D), NEW r \in Rounds, Ended(r, {Now} \cup D)
    PROVE  Ended(r, D)'
  <1>1. Of({Now} \cup D, "manifest", r) = (IF Is("manifest", r) THEN {Now.value} ELSE {}) \cup Of(D, "manifest", r)
    BY OfNext
  <1>2. manifest'[r] = IF Is("bury", r) THEN None
                       ELSE IF Is("manifest", r) THEN Now.value ELSE manifest[r]
    BY Effects DEF Step
  <1>3. ASSUME Is("manifest", r), Terminal(Now.value), NEW m \in Of(D, "manifest", r)
        PROVE  Terminal(m)
    <2>1. Coming("manifest", r, m)
      BY <1>3, OfAfter DEF Step
    <2>2. PICK w \in Writes : /\ w.what = "manifest" /\ w.where = r /\ w.value = m
                              /\ \E E : Ready(w, {Now} \cup E)
      BY <2>1 DEF Coming
    <2>3. PICK E : Ready(w, {Now} \cup E)
      BY <2>2
    <2>4. ReadyState(r, m, {Now} \cup E)
      BY <2>2, <2>3 DEF Ready, ReadyManifest
    <2>5. Now.value \in Of({Now} \cup E, "manifest", r)
      BY <1>3, OfNext
    <2> QED
      BY <1>3, <2>4, <2>5 DEF ReadyState
  <1>4. ASSUME Is("bury", r) PROVE Of(D, "manifest", r) = {}
    BY <1>4, ReadyNow, Barred DEF Step
  <1>5. CASE Is("bury", r)
    BY <1>2, <1>4, <1>5 DEF Ended
  <1>6. CASE ~Is("bury", r) /\ Is("manifest", r)
    BY <1>1, <1>2, <1>3, <1>6 DEF Ended
  <1>7. CASE ~Is("bury", r) /\ ~Is("manifest", r)
    BY <1>1, <1>2, <1>7 DEF Ended
  <1> QED
    BY <1>5, <1>6, <1>7

(* A manifest that becomes m is m or becomes it later.                     *)
LEMMA BecomesManifestNext ==
    ASSUME NEW D, Step(D), NEW r \in Rounds, NEW m, ~Is("bury", r),
           Becomes({Now} \cup D, "manifest", r, manifest[r], m)
    PROVE  Becomes(D, "manifest", r, manifest[r], m)'
  <1>1. Of({Now} \cup D, "manifest", r) = (IF Is("manifest", r) THEN {Now.value} ELSE {}) \cup Of(D, "manifest", r)
    BY OfNext
  <1>2. manifest'[r] = IF Is("manifest", r) THEN Now.value ELSE manifest[r]
    BY Effects DEF Step
  <1> QED
    BY <1>1, <1>2 DEF Becomes

(* A row that becomes x is x or becomes it later.                          *)
LEMMA BecomesIndexNext ==
    ASSUME NEW D, Step(D), NEW r \in Rounds, NEW x,
           Becomes({Now} \cup D, "index", r, index[r], x)
    PROVE  Becomes(D, "index", r, index[r], x)'
  <1>1. Of({Now} \cup D, "index", r) = (IF Is("index", r) THEN {Now.value} ELSE {}) \cup Of(D, "index", r)
    BY OfNext
  <1>2. index'[r] = IF Is("index", r) THEN Now.value ELSE index[r]
    BY Effects DEF Step
  <1> QED
    BY <1>1, <1>2 DEF Becomes

(* A measurement about to be written follows the one that is there.        *)
LEMMA MeasuredNow ==
    ASSUME Ready(Now, {}), NEW s \in Slots, Is("measurement", s)
    PROVE  Follows(s, Now.value) /\ Honest(s, Now.value)
  <1>1. ReadyMeasurement(s, Now.value, {})
    BY DEF Ready, Is
  <1> QED
    BY <1>1 DEF ReadyMeasurement

(* A late result that is there or is written next is there afterwards.     *)
LEMMA LateNext ==
    ASSUME NEW D, Step(D), NEW r \in Rounds, Late(r, {Now} \cup D), ~Is("bury", r)
    PROVE  Late(r, D)'
  <1>1. PICK s \in SlotsOf(r) : \/ measured[s] # None /\ measured[s].late
                                \/ \E v \in Of({Now} \cup D, "measurement", s) : v.late
    BY DEF Late
  <1>2. s \in Slots /\ RoundOf[s] = r
    BY DEF SlotsOf
  <1>3. Of({Now} \cup D, "measurement", s) = (IF Is("measurement", s) THEN {Now.value} ELSE {}) \cup Of(D, "measurement", s)
    BY OfNext
  <1>4. measured'[s] = IF Is("measurement", s) THEN Now.value ELSE measured[s]
    BY <1>2, Effects DEF Step
  <1>5. ASSUME Is("measurement", s)
        PROVE  Now.value # None /\ (measured[s] # None /\ measured[s].late => Now.value.late)
    <2>1. Follows(s, Now.value)
      BY <1>2, <1>5, MeasuredNow DEF Step
    <2>2. Now.value \in Measurement /\ measured[s] \in Measurement \cup {None}
      BY <1>2, <1>5, Effects, WrittenIs DEF Step, Is, Types
    <2> QED
      BY <2>1, <2>2, StoreConstants DEF Follows, Measurement
  <1>6. \/ measured'[s] # None /\ measured'[s].late
        \/ \E v \in Of(D, "measurement", s) : v.late
    BY <1>1, <1>3, <1>4, <1>5
  <1> QED
    BY <1>6 DEF Late

(* A round that gets its row has it or gets it later.                      *)
LEMMA IndexedNext ==
    ASSUME NEW D, Step(D), NEW r \in Rounds, Indexed(r, {Now} \cup D)
    PROVE  Indexed(r, D)'
  <1>1. CASE Intended(r, {Now} \cup D)
    BY <1>1, IntendedNext DEF Indexed
  <1>2. CASE Is("bury", r)
    <2>1. Of(D, "manifest", r) = {}
      BY <1>2, ReadyNow, Barred DEF Step
    <2>2. manifest'[r] = None
      BY <1>2, Effects DEF Step
    <2> QED
      BY <2>1, <2>2 DEF Indexed, Exists
  <1>3. CASE ~Is("bury", r) /\ ~Exists(r, {Now} \cup D)
    <2>1. Of({Now} \cup D, "manifest", r) = (IF Is("manifest", r) THEN {Now.value} ELSE {}) \cup Of(D, "manifest", r)
      BY OfNext
    <2>2. manifest'[r] = IF Is("manifest", r) THEN Now.value ELSE manifest[r]
      BY <1>3, Effects DEF Step
    <2>3. manifest'[r] = None /\ Of(D, "manifest", r) = {}
      BY <1>3, <2>1, <2>2 DEF Exists
    <2> QED
      BY <2>3 DEF Indexed, Exists
  <1>4. CASE ~Is("bury", r) /\ Late(r, {Now} \cup D)
    BY <1>4, LateNext DEF Indexed
  <1>5. ASSUME ~Is("bury", r), NEW m \in Manifests(r),
               Becomes({Now} \cup D, "manifest", r, manifest[r], m),
               Becomes({Now} \cup D, "index", r, index[r], Summary(m))
        PROVE  Indexed(r, D)'
    <2>1. Becomes(D, "manifest", r, manifest[r], m)'
      BY <1>5, BecomesManifestNext
    <2>2. Becomes(D, "index", r, index[r], Summary(m))'
      BY <1>5, BecomesIndexNext
    <2> QED
      BY <2>1, <2>2 DEF Indexed
  <1> QED
    BY <1>1, <1>2, <1>3, <1>4, <1>5 DEF Indexed

(* A manifest backed by measurements now or later stays so.                *)
LEMMA BackedNext ==
    ASSUME NEW D, Step(D), NEW r \in Rounds, NEW m, Backed(r, m, {Now} \cup D), ~Is("bury", r)
    PROVE  Backed(r, m, D)'
  <1>1. ASSUME NEW s \in SlotsOf(r), m.slots[s].state # "open"
        PROVE  /\ Agrees(m.slots[s], measured'[s]) \/ Of(D, "measurement", s) # {}
               /\ \A v \in Of(D, "measurement", s) : Agrees(m.slots[s], v)
    <2>1. s \in Slots /\ RoundOf[s] = r
      BY DEF SlotsOf
    <2>2. Of({Now} \cup D, "measurement", s) = (IF Is("measurement", s) THEN {Now.value} ELSE {}) \cup Of(D, "measurement", s)
      BY OfNext
    <2>3. measured'[s] = IF Is("measurement", s) THEN Now.value ELSE measured[s]
      BY <2>1, Effects DEF Step
    <2>4. /\ Agrees(m.slots[s], measured[s]) \/ Of({Now} \cup D, "measurement", s) # {}
          /\ \A v \in Of({Now} \cup D, "measurement", s) : Agrees(m.slots[s], v)
      BY <1>1 DEF Backed
    <2> QED
      BY <2>2, <2>3, <2>4
  <1> QED
    BY <1>1 DEF Backed

-----------------------------------------------------------------------------
(* A write that is ready after the next one is ready once that is made.    *)

(* ReadyState holds after the next write.                                  *)
LEMMA StateNext ==
    ASSUME NEW D, Step(D), NEW r \in Rounds, NEW m, ReadyState(r, m, {Now} \cup D)
    PROVE  ReadyState(r, m, D)' /\ ~Is("bury", r)
  <1>1. Untouched(r, D)' /\ ~Is("bury", r)
    BY UntouchedNext DEF ReadyState
  <1>2. Backed(r, m, D)'
    BY <1>1, BackedNext DEF ReadyState
  <1>3. ASSUME ~Terminal(m)
        PROVE  /\ StaysListed(r, D)'
               /\ manifest'[r] # None => ~Terminal(manifest'[r])
               /\ \A x \in Of(D, "manifest", r) : ~Terminal(x)
    <2>1. StaysListed(r, D)'
      BY <1>3, ListedNext DEF ReadyState
    <2>2. Of({Now} \cup D, "manifest", r) = (IF Is("manifest", r) THEN {Now.value} ELSE {}) \cup Of(D, "manifest", r)
      BY OfNext
    <2>3. manifest'[r] = IF Is("manifest", r) THEN Now.value ELSE manifest[r]
      BY <1>1, Effects DEF Step
    <2> QED
      BY <1>3, <2>1, <2>2, <2>3 DEF ReadyState
  <1> QED
    BY <1>1, <1>2, <1>3 DEF ReadyState

(* The write of a manifest stays ready.                                    *)
LEMMA ManifestNext ==
    ASSUME NEW D, Step(D), NEW r \in Rounds, NEW m, ReadyManifest(r, m, {Now} \cup D)
    PROVE  ReadyManifest(r, m, D)'
  <1>1. ReadyState(r, m, D)' /\ ~Is("bury", r)
    BY StateNext DEF ReadyManifest
  <1>2. Of({Now} \cup D, "dirty", r) = (IF Is("dirty", r) THEN {Now.value} ELSE {}) \cup Of(D, "dirty", r)
    BY OfNext
  <1>3. dirty'[r] = IF Now.what = "close" THEN None
                    ELSE IF Is("dirty", r) THEN Now.value ELSE dirty[r]
    BY Effects DEF Step
  <1>4. dirty'[r] \in {None, m} /\ Of(D, "dirty", r) = {}
    BY <1>2, <1>3 DEF ReadyManifest
  <1>5. CASE Late(r, {Now} \cup D)
    BY <1>1, <1>4, <1>5, LateNext DEF ReadyManifest
  <1>6. CASE StaysListed(r, {Now} \cup D)
    BY <1>1, <1>4, <1>6, ListedNext DEF ReadyManifest
  <1>7. CASE Becomes({Now} \cup D, "index", r, index[r], Summary(m))
    <2>1. Becomes(D, "index", r, index[r], Summary(m))'
      BY <1>7, BecomesIndexNext
    <2> QED
      BY <1>1, <1>4, <2>1 DEF ReadyManifest
  <1> QED
    BY <1>5, <1>6, <1>7 DEF ReadyManifest

(* The save of a manifest in memory stays ready.                           *)
LEMMA DirtyNext ==
    ASSUME NEW D, Step(D), NEW r \in Rounds, NEW m, ReadyDirty(r, m, {Now} \cup D)
    PROVE  ReadyDirty(r, m, D)'
  <1>1. ReadyState(r, m, D)' /\ ~Is("bury", r)
    BY StateNext DEF ReadyDirty
  <1>2. /\ Of({Now} \cup D, "close", None) = (IF Is("close", None) THEN {Now.value} ELSE {}) \cup Of(D, "close", None)
        /\ Of({Now} \cup D, "manifest", r) = (IF Is("manifest", r) THEN {Now.value} ELSE {}) \cup Of(D, "manifest", r)
    BY OfNext
  <1>3. /\ mode' = (IF Now.what = "close" THEN "single" ELSE mode)
        /\ manifest'[r] = IF Is("manifest", r) THEN Now.value ELSE manifest[r]
    BY <1>1, Effects DEF Step
  <1>4. Now.what = "close" => Is("close", None)
    BY Effects, WrittenIs DEF Step, Is
  <1>5. /\ mode' = "batch" /\ Of(D, "close", None) = {}
        /\ manifest'[r] = manifest[r] /\ manifest[r] # None /\ Of(D, "manifest", r) = {}
    BY <1>2, <1>3, <1>4 DEF ReadyDirty
  <1>6. CASE Late(r, {Now} \cup D)
    BY <1>1, <1>5, <1>6, LateNext DEF ReadyDirty
  <1>7. CASE StaysListed(r, {Now} \cup D)
    BY <1>1, <1>5, <1>7, ListedNext DEF ReadyDirty
  <1>8. CASE m.slots = manifest[r].slots
    BY <1>1, <1>5, <1>8 DEF ReadyDirty
  <1> QED
    BY <1>6, <1>7, <1>8 DEF ReadyDirty

(* The next write takes no receipt from a round that is not deleted.       *)
LEMMA ReceiptedNext ==
    ASSUME NEW D, Step(D), NEW s \in Slots, RoundOf[s] \notin intent, Receipted(s)
    PROVE  Receipted(s)'
  <1>1. /\ \A d \in Days : <<s, d>> \in receipt' <=> IF Is("receipt", <<s, d>>) THEN Now.value
                                                    ELSE <<s, d>> \in receipt
        /\ fullReceipt'[s] = IF Is("fullReceipt", s) THEN Now.value ELSE fullReceipt[s]
    BY Effects, ReceiptEffects DEF Step
  <1>2. /\ \A d \in Days : Is("receipt", <<s, d>>) => Now.value
        /\ Is("fullReceipt", s) => Now.value # None
    BY ReadyNow DEF Step
  <1>3. PICK d \in Days : <<s, d>> \in receipt
    BY DEF Receipted, Receipts
  <1>4. <<s, d>> \in receipt'
    BY <1>1, <1>2, <1>3
  <1>5. RoundOf[s] \in Full => fullReceipt'[s] # None
    BY <1>1, <1>2 DEF Receipted
  <1> QED
    BY <1>4, <1>5 DEF Receipted, Receipts

(* The write of a measurement stays ready.                                 *)
LEMMA MeasurementNext ==
    ASSUME NEW D, Step(D), NEW s \in Slots, NEW v, ReadyMeasurement(s, v, {Now} \cup D)
    PROVE  ReadyMeasurement(s, v, D)'
  <1> DEFINE r == RoundOf[s]
  <1>1. r \in Rounds
    BY StoreConstants
  <1>2. Untouched(r, {Now} \cup D) /\ r \notin intent
    BY DEF ReadyMeasurement, Untouched
  <1>3. Untouched(r, D)' /\ ~Is("bury", r)
    BY <1>1, <1>2, UntouchedNext
  <1>4. /\ Of({Now} \cup D, "measurement", s) = (IF Is("measurement", s) THEN {Now.value} ELSE {}) \cup Of(D, "measurement", s)
        /\ Of({Now} \cup D, "settled", s) = (IF Is("settled", s) THEN {Now.value} ELSE {}) \cup Of(D, "settled", s)
    BY OfNext
  <1>5. Of(D, "measurement", s) = {} /\ ~Is("measurement", s)
    BY <1>4 DEF ReadyMeasurement
  <1>6. measured'[s] = measured[s] /\ queued' = queued
    BY <1>3, <1>5, Effects DEF Step
  <1>7. manifest'[r] # None
    <2>1. manifest'[r] = IF Is("manifest", r) THEN Now.value ELSE manifest[r]
      BY <1>1, <1>3, Effects DEF Step
    <2>2. ASSUME Is("manifest", r) PROVE Now.value # None
      <3>1. ReadyManifest(r, Now.value, {})
        BY <2>2 DEF Step, Ready, Is
      <3> QED
        BY <1>1, <3>1, ManifestTyped DEF ReadyManifest, ReadyState
    <2> QED
      BY <2>1, <2>2 DEF ReadyMeasurement
  <1>8. Honest(s, v) /\ Follows(s, v)
    BY DEF ReadyMeasurement
  <1>9. Honest(s, v)' /\ Follows(s, v)'
    BY <1>6, <1>8 DEF Honest, Follows
  <1>10. CASE Receipted(s)
    BY <1>2, <1>3, <1>5, <1>7, <1>9, <1>10, ReceiptedNext DEF ReadyMeasurement
  <1>11. CASE s \notin settled /\ Of({Now} \cup D, "settled", s) = {} /\ (v.state = "missing" \/ s \in queued)
    <2>1. s \notin settled' /\ Of(D, "settled", s) = {}
      BY <1>4, <1>11, Effects DEF Step
    <2> QED
      BY <1>3, <1>5, <1>6, <1>7, <1>9, <1>11, <2>1 DEF ReadyMeasurement
  <1> QED
    BY <1>10, <1>11 DEF ReadyMeasurement

(* The round and the measurement of a receipt stay.                        *)
LEMMA RecordNext ==
    ASSUME NEW D, Step(D), NEW s \in Slots, Untouched(RoundOf[s], {Now} \cup D),
           manifest[RoundOf[s]] # None, Measured(s, {Now} \cup D)
    PROVE  Untouched(RoundOf[s], D)' /\ manifest'[RoundOf[s]] # None /\ Measured(s, D)'
  <1> DEFINE r == RoundOf[s]
  <1>1. r \in Rounds
    BY StoreConstants
  <1>2. Untouched(r, D)' /\ ~Is("bury", r)
    BY <1>1, UntouchedNext
  <1>3. /\ manifest'[r] = IF Is("manifest", r) THEN Now.value ELSE manifest[r]
        /\ measured'[s] = IF Is("measurement", s) THEN Now.value ELSE measured[s]
    BY <1>1, <1>2, Effects DEF Step
  <1>4. ASSUME Is("manifest", r) PROVE Now.value # None
    <2>1. ReadyManifest(r, Now.value, {})
      BY <1>4 DEF Step, Ready, Is
    <2> QED
      BY <1>1, <2>1, ManifestTyped DEF ReadyManifest, ReadyState
  <1>5. ASSUME Is("measurement", s) PROVE Now.value # None
    BY <1>5, Effects, WrittenIs, StoreConstants DEF Step, Is
  <1>6. Of({Now} \cup D, "measurement", s) = (IF Is("measurement", s) THEN {Now.value} ELSE {}) \cup Of(D, "measurement", s)
    BY OfNext
  <1>7. manifest'[r] # None /\ (measured'[s] # None \/ Of(D, "measurement", s) # {})
    BY <1>3, <1>4, <1>5, <1>6 DEF Measured
  <1> QED
    BY <1>2, <1>7 DEF Measured

(* A receipt written today is written or is still to come.                 *)
LEMMA TodayNext ==
    ASSUME NEW D, Step(D), NEW s \in Slots, RecordedToday(s, {Now} \cup D)
    PROVE  RecordedToday(s, D)' /\ day' = day /\ day \in Days
  <1>1. day' = day /\ day \in Days
    BY Effects DEF Step, Types
  <1>2. Of({Now} \cup D, "receipt", <<s, day>>)
          = (IF Is("receipt", <<s, day>>) THEN {Now.value} ELSE {}) \cup Of(D, "receipt", <<s, day>>)
    BY OfNext
  <1>3. /\ \A d \in Days : Is("receipt", <<s, d>>) /\ Now.value => recordedOn'[s] = d
        /\ \/ recordedOn'[s] = recordedOn[s]
           \/ \E d \in Days : Is("receipt", <<s, d>>) /\ Now.value /\ recordedOn'[s] = d
    BY ReceiptEffects DEF Step
  <1>4. \A d \in Days : Is("receipt", <<s, d>>) /\ Now.value => d = day
    BY ReadyNow DEF Step
  <1>5. CASE recordedOn[s] = day
    <2>1. recordedOn'[s] = day
      BY <1>3, <1>4, <1>5
    <2> QED
      BY <1>1, <2>1 DEF RecordedToday
  <1>6. CASE Is("receipt", <<s, day>>) /\ Now.value
    <2>1. recordedOn'[s] = day
      BY <1>1, <1>3, <1>6
    <2> QED
      BY <1>1, <2>1 DEF RecordedToday
  <1>7. CASE TRUE \in Of(D, "receipt", <<s, day>>)
    BY <1>1, <1>7 DEF RecordedToday
  <1>8. \/ recordedOn[s] = day \/ TRUE \in Of(D, "receipt", <<s, day>>)
        \/ Is("receipt", <<s, day>>) /\ Now.value
    BY <1>2 DEF RecordedToday
  <1> QED
    BY <1>5, <1>6, <1>7, <1>8

(* The date of a slot that is recorded today stays within reach.           *)
LEMMA KeepsNext ==
    ASSUME NEW D, Step(D), NEW s \in Slots, KeepsDate(s, {Now} \cup D)
    PROVE  KeepsDate(s, D)'
  <1>1. /\ s \in settled' => s \in settled \/ Is("settled", s)
        /\ queued' = queued /\ day' = day
        /\ fullReceipt'[s] = IF Is("fullReceipt", s) THEN Now.value ELSE fullReceipt[s]
    BY Effects DEF Step
  <1>2. /\ Of({Now} \cup D, "settled", s) = (IF Is("settled", s) THEN {Now.value} ELSE {}) \cup Of(D, "settled", s)
        /\ Of({Now} \cup D, "fullReceipt", s) = (IF Is("fullReceipt", s) THEN {Now.value} ELSE {}) \cup Of(D, "fullReceipt", s)
    BY OfNext
  <1>3. CASE Waits(s) /\ Of({Now} \cup D, "settled", s) = {}
    <2>1. Waits(s)' /\ Of(D, "settled", s) = {}
      BY <1>1, <1>2, <1>3 DEF Waits
    <2> QED
      BY <2>1 DEF KeepsDate
  <1>4. CASE fullReceipt[s] \in {None, day} /\ Of({Now} \cup D, "fullReceipt", s) \subseteq {day}
    <2>1. fullReceipt'[s] \in {None, day} /\ Of(D, "fullReceipt", s) \subseteq {day}
      BY <1>1, <1>2, <1>4
    <2> QED
      BY <1>1, <2>1 DEF KeepsDate
  <1> QED
    BY <1>3, <1>4 DEF KeepsDate

(* The write or removal of a receipt stays ready.                          *)
LEMMA ReceiptWriteNext ==
    ASSUME NEW D, Step(D), NEW s \in Slots, NEW d, NEW b \in BOOLEAN, ReadyReceipt(s, d, b, {Now} \cup D)
    PROVE  ReadyReceipt(s, d, b, D)'
  <1> DEFINE r == RoundOf[s]
  <1>1. r \in Rounds
    BY StoreConstants
  <1>2. CASE ~b
    <2>1. Intended(r, {Now} \cup D) /\ Buried(r, {Now} \cup D)
      BY <1>2 DEF ReadyReceipt
    <2>2. Intended(r, D)' /\ Buried(r, D)'
      BY <1>1, <2>1, IntendedNext, BuriedNext
    <2> QED
      BY <1>2, <2>2 DEF ReadyReceipt
  <1>3. CASE b
    <2>1. /\ Untouched(r, {Now} \cup D) /\ manifest[r] # None /\ Measured(s, {Now} \cup D)
          /\ d = day /\ (r \in Full => KeepsDate(s, {Now} \cup D))
      BY <1>3 DEF ReadyReceipt
    <2>2. Untouched(r, D)' /\ manifest'[r] # None /\ Measured(s, D)'
      BY <2>1, RecordNext
    <2>3. r \in Full => KeepsDate(s, D)'
      BY <2>1, KeepsNext
    <2>4. day' = day
      BY Effects DEF Step
    <2> QED
      BY <1>3, <2>1, <2>2, <2>3, <2>4 DEF ReadyReceipt
  <1> QED
    BY <1>2, <1>3

(* So does that of a receipt of full-receipts.                             *)
LEMMA FullReceiptWriteNext ==
    ASSUME NEW D, Step(D), NEW s \in Slots, NEW x, ReadyFullReceipt(s, x, {Now} \cup D)
    PROVE  ReadyFullReceipt(s, x, D)'
  <1> DEFINE r == RoundOf[s]
  <1>1. r \in Rounds
    BY StoreConstants
  <1>2. CASE x = None
    <2>1. Intended(r, {Now} \cup D) /\ Buried(r, {Now} \cup D)
      BY <1>2 DEF ReadyFullReceipt
    <2>2. Intended(r, D)' /\ Buried(r, D)'
      BY <1>1, <2>1, IntendedNext, BuriedNext
    <2> QED
      BY <1>2, <2>2 DEF ReadyFullReceipt
  <1>3. CASE x # None
    <2>1. /\ Untouched(r, {Now} \cup D) /\ manifest[r] # None /\ Measured(s, {Now} \cup D)
          /\ x = day /\ RecordedToday(s, {Now} \cup D)
      BY <1>3 DEF ReadyFullReceipt
    <2>2. Untouched(r, D)' /\ manifest'[r] # None /\ Measured(s, D)'
      BY <2>1, RecordNext
    <2>3. RecordedToday(s, D)' /\ day' = day
      BY <2>1, TodayNext
    <2> QED
      BY <1>3, <2>1, <2>2, <2>3 DEF ReadyFullReceipt
  <1> QED
    BY <1>2, <1>3

(* The note that a job leaves the queue stays ready.                       *)
LEMMA SettledNext ==
    ASSUME NEW D, Step(D), NEW s \in Slots, NEW b, ReadySettled(s, b, {Now} \cup D)
    PROVE  ReadySettled(s, b, D)'
  <1>1. RecordedToday(s, D)' /\ day' = day /\ day \in Days
    BY TodayNext DEF ReadySettled
  <1>2. /\ <<s, day>> \in receipt' <=> IF Is("receipt", <<s, day>>) THEN Now.value ELSE <<s, day>> \in receipt
        /\ fullReceipt'[s] = IF Is("fullReceipt", s) THEN Now.value ELSE fullReceipt[s]
        /\ Is("receipt", <<s, day>>) => Now.value \in BOOLEAN
    BY <1>1, Effects, ReceiptEffects DEF Step
  <1>3. /\ Of({Now} \cup D, "receipt", <<s, day>>)
             = (IF Is("receipt", <<s, day>>) THEN {Now.value} ELSE {}) \cup Of(D, "receipt", <<s, day>>)
        /\ Of({Now} \cup D, "fullReceipt", s)
             = (IF Is("fullReceipt", s) THEN {Now.value} ELSE {}) \cup Of(D, "fullReceipt", s)
    BY OfNext
  <1>4. /\ <<s, day>> \in receipt' \/ TRUE \in Of(D, "receipt", <<s, day>>)
        /\ FALSE \notin Of(D, "receipt", <<s, day>>)
    BY <1>2, <1>3 DEF ReadySettled
  <1>5. RoundOf[s] \in Full => /\ fullReceipt'[s] = day \/ day \in Of(D, "fullReceipt", s)
                              /\ Of(D, "fullReceipt", s) \subseteq {day}
    BY <1>2, <1>3 DEF ReadySettled
  <1>6. b
    BY DEF ReadySettled
  <1> QED
    BY <1>1, <1>4, <1>5, <1>6 DEF ReadySettled

(* A slot with no more receipts to come stays one, and its dates stay.     *)
LEMMA NoMoreNext ==
    ASSUME NEW D, Step(D), NEW s \in Slots, NoMoreReceipts(s, {Now} \cup D)
    PROVE  NoMoreReceipts(s, D)' /\ (Dated(s) => Dated(s)')
  <1>1. \A d \in Days : Of({Now} \cup D, "receipt", <<s, d>>)
                        = (IF Is("receipt", <<s, d>>) THEN {Now.value} ELSE {}) \cup Of(D, "receipt", <<s, d>>)
    BY OfNext
  <1>2. Of({Now} \cup D, "fullReceipt", s) = (IF Is("fullReceipt", s) THEN {Now.value} ELSE {}) \cup Of(D, "fullReceipt", s)
    BY OfNext
  <1>3. /\ \A d \in Days : Is("receipt", <<s, d>>) => Now.value \in BOOLEAN
        /\ \/ recordedOn'[s] = recordedOn[s]
           \/ \E d \in Days : Is("receipt", <<s, d>>) /\ Now.value /\ recordedOn'[s] = d
        /\ fullReceipt'[s] = IF Is("fullReceipt", s) THEN Now.value ELSE fullReceipt[s]
    BY Effects, ReceiptEffects DEF Step
  <1>4. NoMoreReceipts(s, D) /\ \A d \in Days : Is("receipt", <<s, d>>) => ~Now.value
    BY <1>1, <1>2 DEF NoMoreReceipts
  <1>5. recordedOn'[s] = recordedOn[s] /\ fullReceipt'[s] \in {None, fullReceipt[s]}
    BY <1>2, <1>3, <1>4 DEF NoMoreReceipts
  <1> QED
    BY <1>4, <1>5 DEF Dated, NoMoreReceipts

(* The write or removal of an index row stays ready.                       *)
LEMMA RowNext ==
    ASSUME NEW D, Step(D), NEW r \in Rounds, NEW x, ReadyIndex(r, x, {Now} \cup D)
    PROVE  ReadyIndex(r, x, D)'
  <1>1. CASE x = None
    <2>1. Intended(r, D)' /\ Buried(r, D)'
      BY <1>1, IntendedNext, BuriedNext DEF ReadyIndex
    <2> QED
      BY <1>1, <2>1 DEF ReadyIndex
  <1>2. CASE x # None
    <2>1. Untouched(r, D)' /\ ~Is("bury", r)
      BY <1>2, UntouchedNext DEF ReadyIndex
    <2>2. Exists(r, D)'
      BY <1>2, <2>1, ExistsNext DEF ReadyIndex
    <2>3. CASE Late(r, {Now} \cup D)
      BY <1>2, <2>1, <2>2, <2>3, LateNext DEF ReadyIndex
    <2>4. ASSUME NEW m \in Manifests(r), Becomes({Now} \cup D, "manifest", r, manifest[r], m), x = Summary(m)
          PROVE  ReadyIndex(r, x, D)'
      <3>1. Becomes(D, "manifest", r, manifest[r], m)'
        BY <2>1, <2>4, BecomesManifestNext
      <3> QED
        BY <1>2, <2>1, <2>2, <2>4, <3>1 DEF ReadyIndex
    <2> QED
      BY <1>2, <2>3, <2>4 DEF ReadyIndex
  <1> QED
    BY <1>1, <1>2

(* The removal of an entry of the active list stays ready.                 *)
LEMMA DropNext ==
    ASSUME NEW D, Step(D), SoundBatch, NEW r \in Rounds, ReadyDrop(r, {Now} \cup D)
    PROVE  ReadyDrop(r, D)'
  <1>1. Ended(r, D)' /\ Indexed(r, D)'
    BY EndedNext, IndexedNext DEF ReadyDrop
  <1>2. Of({Now} \cup D, "dirty", r) = (IF Is("dirty", r) THEN {Now.value} ELSE {}) \cup Of(D, "dirty", r)
    BY OfNext
  <1>3. dirty'[r] = IF Now.what = "close" THEN None
                    ELSE IF Is("dirty", r) THEN Now.value ELSE dirty[r]
    BY Effects DEF Step
  <1>4. Of(D, "dirty", r) = {} /\ (dirty'[r] # None => dirty'[r] = dirty[r])
    BY <1>2, <1>3 DEF ReadyDrop
  <1>5. ASSUME dirty'[r] # None
        PROVE  Becomes(D, "manifest", r, manifest[r], dirty[r])'
    <2>1. dirty[r] # None /\ dirty'[r] = dirty[r]
      BY <1>4, <1>5
    <2>2. ~Is("bury", r)
      BY <2>1, ReadyNow DEF Step, SoundBatch
    <2>3. PICK m : m = dirty[r]
      OBVIOUS
    <2>4. Becomes({Now} \cup D, "manifest", r, manifest[r], m)
      BY <2>1, <2>3 DEF ReadyDrop
    <2>5. Becomes(D, "manifest", r, manifest[r], m)'
      BY <2>2, <2>4, BecomesManifestNext
    <2> QED
      BY <2>1, <2>3, <2>5
  <1> QED
    BY <1>1, <1>4, <1>5 DEF ReadyDrop

(* The write or removal of an intent stays ready.                          *)
LEMMA IntentNext ==
    ASSUME NEW D, Step(D), NEW r \in Rounds, NEW b \in BOOLEAN, ReadyIntent(r, b, {Now} \cup D)
    PROVE  ReadyIntent(r, b, D)'
  <1>1. /\ Of({Now} \cup D, "bury", r) = (IF Is("bury", r) THEN {Now.value} ELSE {}) \cup Of(D, "bury", r)
        /\ Of({Now} \cup D, "tomb", r) = (IF Is("tomb", r) THEN {Now.value} ELSE {}) \cup Of(D, "tomb", r)
    BY OfNext
  <1>2. CASE b
    <2>1. /\ r \in Full /\ mode = "single" /\ Of({Now} \cup D, "bury", r) = {} /\ Ended(r, {Now} \cup D)
          /\ \A s \in SlotsOf(r) : measured[s] # None /\ Dated(s) /\ NoMoreReceipts(s, {Now} \cup D)
      BY <1>2 DEF ReadyIntent
    <2>2. Ended(r, D)' /\ mode' = "single" /\ Of(D, "bury", r) = {} /\ ~Is("bury", r)
      BY <1>1, <2>1, EndedNext, Effects DEF Step
    <2>3. ASSUME NEW s \in SlotsOf(r)
          PROVE  measured'[s] # None /\ Dated(s)' /\ NoMoreReceipts(s, D)'
      <3>1. s \in Slots /\ RoundOf[s] = r
        BY DEF SlotsOf
      <3>2. measured'[s] = IF Is("measurement", s) THEN Now.value ELSE measured[s]
        BY <2>2, <3>1, Effects DEF Step
      <3>3. Is("measurement", s) => Now.value # None
        BY Effects, WrittenIs, StoreConstants DEF Step, Is
      <3>4. Dated(s)' /\ NoMoreReceipts(s, D)'
        BY <2>1, <3>1, NoMoreNext
      <3> QED
        BY <2>1, <3>2, <3>3, <3>4
    <2> QED
      BY <1>2, <2>1, <2>2, <2>3 DEF ReadyIntent
  <1>3. CASE ~b
    <2>1. /\ Buried(r, {Now} \cup D) /\ Cleared(r, {Now} \cup D)
          /\ \/ None \in Of({Now} \cup D, "tomb", r)
             \/ /\ tomb[r] = None /\ Of({Now} \cup D, "tomb", r) \subseteq {None}
                /\ Of({Now} \cup D, "bury", r) = {}
      BY <1>3 DEF ReadyIntent
    <2>2. Buried(r, D)' /\ Cleared(r, D)'
      BY <2>1, BuriedNext, ClearedNext
    <2>3. tomb'[r] = IF Is("bury", r) THEN manifest[r]
                     ELSE IF Is("tomb", r) THEN Now.value ELSE tomb[r]
      BY Effects DEF Step
    <2>4. ASSUME Is("tomb", r), Now.value = None
          PROVE  Of(D, "tomb", r) \subseteq {None} /\ Of(D, "bury", r) = {}
      <3>1. ASSUME NEW x \in Of(D, "tomb", r) PROVE x = None
        <4>1. Coming("tomb", r, x)
          BY <3>1, OfAfter DEF Step
        <4>2. PICK w \in Writes : /\ w.what = "tomb" /\ w.where = r /\ w.value = x
                                  /\ \E E : Ready(w, {Now} \cup E)
          BY <4>1 DEF Coming
        <4>3. PICK E : Ready(w, {Now} \cup E)
          BY <4>2
        <4>4. ReadyTomb(r, x, {Now} \cup E)
          BY <4>2, <4>3 DEF Ready
        <4>5. None \in Of({Now} \cup E, "tomb", r)
          BY <2>4, OfNext
        <4>6. x \in {None, Rest}
          BY <4>2, WrittenIs
        <4> QED
          BY <4>4, <4>5, <4>6 DEF ReadyTomb
      <3>2. ASSUME NEW x \in Of(D, "bury", r) PROVE FALSE
        <4>1. Coming("bury", r, x)
          BY <3>2, OfAfter DEF Step
        <4>2. PICK w \in Writes : /\ w.what = "bury" /\ w.where = r /\ w.value = x
                                  /\ \E E : Ready(w, {Now} \cup E)
          BY <4>1 DEF Coming
        <4>3. PICK E : Ready(w, {Now} \cup E)
          BY <4>2
        <4>4. ReadyBury(r, {Now} \cup E)
          BY <4>2, <4>3 DEF Ready
        <4>5. None \in Of({Now} \cup E, "tomb", r)
          BY <2>4, OfNext
        <4> QED
          BY <4>4, <4>5 DEF ReadyBury
      <3> QED
        BY <3>1, <3>2
    <2>5. \/ None \in Of(D, "tomb", r)
          \/ tomb'[r] = None /\ Of(D, "tomb", r) \subseteq {None} /\ Of(D, "bury", r) = {}
      <3>1. CASE None \in Of(D, "tomb", r)
        BY <3>1
      <3>2. CASE Is("tomb", r) /\ Now.value = None
        <4>1. ~Is("bury", r)
          BY <3>2 DEF Is
        <4> QED
          BY <2>3, <2>4, <3>2, <4>1
      <3>3. CASE None \notin Of(D, "tomb", r) /\ ~(Is("tomb", r) /\ Now.value = None)
        <4>1. None \notin Of({Now} \cup D, "tomb", r)
          BY <1>1, <3>3
        <4>2. /\ tomb[r] = None /\ Of({Now} \cup D, "tomb", r) \subseteq {None}
              /\ Of({Now} \cup D, "bury", r) = {}
          BY <2>1, <4>1
        <4>3. ~Is("bury", r) /\ ~Is("tomb", r) /\ Of(D, "bury", r) = {} /\ Of(D, "tomb", r) \subseteq {None}
          BY <1>1, <3>3, <4>2
        <4> QED
          BY <2>3, <4>2, <4>3
      <3> QED
        BY <3>1, <3>2, <3>3
    <2> QED
      BY <1>3, <2>2, <2>5 DEF ReadyIntent
  <1> QED
    BY <1>2, <1>3

(* The rename of a round directory stays ready.                            *)
LEMMA BuryNext ==
    ASSUME NEW D, Step(D), NEW r \in Rounds, ReadyBury(r, {Now} \cup D)
    PROVE  ReadyBury(r, D)'
  <1>1. /\ Of({Now} \cup D, "bury", r) = (IF Is("bury", r) THEN {Now.value} ELSE {}) \cup Of(D, "bury", r)
        /\ Of({Now} \cup D, "tomb", r) = (IF Is("tomb", r) THEN {Now.value} ELSE {}) \cup Of(D, "tomb", r)
    BY OfNext
  <1>2. ~Is("bury", r) /\ Of(D, "bury", r) = {} /\ Of(D, "tomb", r) = {}
    BY <1>1 DEF ReadyBury
  <1>3. mode' = "single"
    BY Effects DEF Step, ReadyBury
  <1>4. Intended(r, D)' /\ Exists(r, D)'
    BY <1>2, IntendedNext, ExistsNext DEF ReadyBury
  <1> QED
    BY <1>2, <1>3, <1>4 DEF ReadyBury

(* The removal of the renamed directory stays ready.                       *)
LEMMA TombNext ==
    ASSUME NEW D, Step(D), NEW r \in Rounds, NEW x, ReadyTomb(r, x, {Now} \cup D)
    PROVE  ReadyTomb(r, x, D)'
  <1>1. Of({Now} \cup D, "tomb", r) = (IF Is("tomb", r) THEN {Now.value} ELSE {}) \cup Of(D, "tomb", r)
    BY OfNext
  <1>2. Intended(r, D)' /\ Buried(r, D)' /\ Cleared(r, D)'
    BY IntendedNext, BuriedNext, ClearedNext DEF ReadyTomb
  <1>3. x = Rest => None \notin Of(D, "tomb", r)
    BY <1>1 DEF ReadyTomb
  <1> QED
    BY <1>2, <1>3 DEF ReadyTomb

(* So any write stays ready.                                               *)
LEMMA ReadyNext ==
    ASSUME NEW D, Step(D), SoundBatch, NEW w \in Writes, Ready(w, {Now} \cup D)
    PROVE  Ready(w, D)'
  <1>1. w.what = "manifest" => ReadyManifest(w.where, w.value, D)'
    BY WrittenIs, ManifestNext DEF Ready
  <1>2. w.what = "dirty" => ReadyDirty(w.where, w.value, D)'
    BY WrittenIs, DirtyNext DEF Ready
  <1>3. w.what = "measurement" => ReadyMeasurement(w.where, w.value, D)'
    BY WrittenIs, MeasurementNext DEF Ready
  <1>4. w.what = "receipt" => ReadyReceipt(w.where[1], w.where[2], w.value, D)'
    BY WrittenIs, ReceiptWriteNext DEF Ready
  <1>12. w.what = "fullReceipt" => ReadyFullReceipt(w.where, w.value, D)'
    BY WrittenIs, FullReceiptWriteNext DEF Ready
  <1>5. w.what = "settled" => ReadySettled(w.where, w.value, D)'
    BY WrittenIs, SettledNext DEF Ready
  <1>6. w.what = "index" => ReadyIndex(w.where, w.value, D)'
    BY WrittenIs, RowNext DEF Ready
  <1>7. w.what = "active" /\ ~w.value => ReadyDrop(w.where, D)'
    BY WrittenIs, DropNext DEF Ready
  <1>8. ASSUME w.what = "inactive", NEW r \in w.value PROVE ReadyDrop(r, D)'
    <2>1. r \in Rounds /\ ReadyDrop(r, {Now} \cup D)
      BY <1>8, WrittenIs DEF Ready
    <2> QED
      BY <2>1, DropNext
  <1>9. w.what = "intent" => ReadyIntent(w.where, w.value, D)'
    BY WrittenIs, IntentNext DEF Ready
  <1>10. w.what = "bury" => ReadyBury(w.where, D)'
    BY WrittenIs, BuryNext DEF Ready
  <1>11. w.what = "tomb" => ReadyTomb(w.where, w.value, D)'
    BY WrittenIs, TombNext DEF Ready
  <1> QED
    BY <1>1, <1>2, <1>3, <1>4, <1>5, <1>6, <1>7, <1>8, <1>9, <1>10, <1>11, <1>12 DEF Ready

(* So the writes that are left stay in order.                              *)
LEMMA OrderNext ==
    ASSUME Types, SoundBatch, InOrder(todo, {}), Write
    PROVE  InOrder(todo, {})'
  <1>1. todo \in Seq(Writes) /\ todo # <<>> /\ Now \in Writes /\ todo' = Tail(todo)
    BY Effects
  <1>2. PICK t : t = Tail(todo)
    OBVIOUS
  <1>3. /\ Ready(Now, {}) /\ t \in Seq(Writes)
        /\ \A i \in 1..Len(t) : t[i] \in Writes /\ Ready(t[i], {Now} \cup Made(t, i))
    BY <1>1, <1>2, RestInOrder DEF Now
  <1>4. ASSUME NEW i \in 1..Len(t) PROVE Ready(t[i], {} \cup Made(t, i))'
    <2>1. PICK D : D = Made(t, i)
      OBVIOUS
    <2>2. After(D)
      <3>1. ASSUME NEW w \in D PROVE w \in Writes /\ \E E : Ready(w, {Now} \cup E)
        <4>1. PICK k \in 1..(i - 1) : w = t[k]
          BY <2>1 DEF Made
        <4>2. k \in 1..Len(t)
          BY <1>3, <4>1
        <4> QED
          BY <1>3, <4>1, <4>2
      <3> QED
        BY <3>1 DEF After
    <2>3. t[i] \in Writes /\ Ready(t[i], {Now} \cup D)
      BY <1>3, <2>1
    <2>4. Step(D)
      BY <1>3, <2>2 DEF Step
    <2>5. PICK w : w = t[i]
      OBVIOUS
    <2>6. Ready(w, D)'
      BY <2>3, <2>4, <2>5, ReadyNext
    <2>7. {} \cup Made(t, i) = D
      BY <2>1
    <2> QED
      BY <2>5, <2>6, <2>7
  <1>5. t = todo'
    BY <1>1, <1>2
  <1> QED
    BY <1>4, <1>5 DEF InOrder

-----------------------------------------------------------------------------
(* What a write that is made at once can rely on.                          *)
Bare(r) ==
    index[r] = None /\ \A s \in SlotsOf(r) : /\ fullReceipt[s] = None
                                              /\ \A d \in Days : recordedOn[s] = d => <<s, d>> \notin receipt
Dropping(r) == (Is("active", r) /\ ~Now.value) \/ (Now.what = "inactive" /\ r \in Now.value)

(* Cleared, when nothing is to come: neither row nor receipts.             *)
LEMMA ClearedIsBare ==
    ASSUME NEW r \in Rounds
    PROVE  Cleared(r, {}) <=> Bare(r)
  BY OfNone DEF Cleared, Bare, WithoutReceipt, NoMoreReceipts

(* What the conditions of Ready say when nothing is to come.               *)
LEMMA FoundNow ==
    ASSUME NEW r \in Rounds
    PROVE  /\ Untouched(r, {}) <=> r \notin intent
           /\ Intended(r, {}) <=> r \in intent
           /\ Exists(r, {}) <=> manifest[r] # None
           /\ Buried(r, {}) <=> manifest[r] = None
           /\ StaysListed(r, {}) <=> r \in active
           /\ Ended(r, {}) <=> manifest[r] = None \/ Terminal(manifest[r])
           /\ Late(r, {}) <=> \E s \in SlotsOf(r) : measured[s] # None /\ measured[s].late
           /\ \A m : Becomes({}, "manifest", r, manifest[r], m) <=> manifest[r] = m
           /\ \A x : Becomes({}, "index", r, index[r], x) <=> index[r] = x
  <1>1. \A what, where : Of({}, what, where) = {}
    BY OfNone
  <1>2. /\ Untouched(r, {}) <=> r \notin intent
        /\ Intended(r, {}) <=> r \in intent
        /\ Exists(r, {}) <=> manifest[r] # None
        /\ Buried(r, {}) <=> manifest[r] = None
    BY <1>1 DEF Untouched, Intended, Exists, Buried
  <1>3. /\ StaysListed(r, {}) <=> r \in active
        /\ Ended(r, {}) <=> manifest[r] = None \/ Terminal(manifest[r])
    BY <1>1 DEF StaysListed, Dropped, Ended
  <1>4. Late(r, {}) <=> \E s \in SlotsOf(r) : measured[s] # None /\ measured[s].late
    BY <1>1 DEF Late
  <1>5. /\ \A m : Becomes({}, "manifest", r, manifest[r], m) <=> manifest[r] = m
        /\ \A x : Becomes({}, "index", r, index[r], x) <=> index[r] = x
    BY <1>1 DEF Becomes
  <1> QED
    BY <1>2, <1>3, <1>4, <1>5

(* What a manifest that is written at once can rely on.                    *)
LEMMA StateNow ==
    ASSUME Ready(Now, {}), NEW r \in Rounds, Is("manifest", r) \/ Is("dirty", r)
    PROVE  /\ Now.value \in Manifests(r) /\ r \notin intent
           /\ Retrievable(Now.value) /\ Backed(r, Now.value, {})
           /\ ~Terminal(Now.value) => r \in active /\ (manifest[r] # None => ~Terminal(manifest[r]))
           /\ Is("manifest", r) => /\ dirty[r] \in {None, Now.value}
                                   /\ Late(r, {}) \/ r \in active \/ index[r] = Summary(Now.value)
           /\ Is("dirty", r) => /\ mode = "batch" /\ manifest[r] # None
                                /\ Late(r, {}) \/ r \in active \/ Now.value.slots = manifest[r].slots
  <1>1. ReadyState(r, Now.value, {})
    BY DEF Ready, Is, ReadyManifest, ReadyDirty
  <1>2. /\ Now.value \in Manifests(r) /\ r \notin intent
        /\ Retrievable(Now.value) /\ Backed(r, Now.value, {})
        /\ ~Terminal(Now.value) => r \in active /\ (manifest[r] # None => ~Terminal(manifest[r]))
    BY <1>1, FoundNow DEF ReadyState
  <1>3. ASSUME Is("manifest", r)
        PROVE  /\ dirty[r] \in {None, Now.value}
               /\ Late(r, {}) \/ r \in active \/ index[r] = Summary(Now.value)
    <2>1. ReadyManifest(r, Now.value, {})
      BY <1>3 DEF Ready, Is
    <2> QED
      BY <2>1, FoundNow DEF ReadyManifest
  <1>4. ASSUME Is("dirty", r)
        PROVE  /\ mode = "batch" /\ manifest[r] # None
               /\ Late(r, {}) \/ r \in active \/ Now.value.slots = manifest[r].slots
    <2>1. ReadyDirty(r, Now.value, {})
      BY <1>4 DEF Ready, Is
    <2> QED
      BY <2>1, FoundNow DEF ReadyDirty
  <1> QED
    BY <1>2, <1>3, <1>4

(* A receipt is written for a result that is there, and removed with it;   *)
(* it is written on the day, and that of full-receipts follows.            *)
RecordIs(s, written) ==
    /\ written \in BOOLEAN
    /\ written => /\ RoundOf[s] \notin intent /\ manifest[RoundOf[s]] # None
                  /\ measured[s] # None
    /\ ~written => RoundOf[s] \in intent /\ manifest[RoundOf[s]] = None
DateIs(s, d, written) ==
    written => d = day /\ (RoundOf[s] \in Full => Waits(s) \/ fullReceipt[s] \in {None, day})

(* What a write about a slot can rely on when it is made at once.          *)
LEMMA SlotNow ==
    ASSUME Ready(Now, {}), Now \in Writes, Types, NEW s \in Slots
    PROVE  /\ Is("measurement", s) =>
                /\ Now.value \in Measurement
                /\ RoundOf[s] \notin intent /\ manifest[RoundOf[s]] # None
                /\ Honest(s, Now.value) /\ Follows(s, Now.value)
                /\ Receipted(s) \/ (s \notin settled /\ (Now.value.state = "missing" \/ s \in queued))
           /\ \A d \in Days : Is("receipt", <<s, d>>) => RecordIs(s, Now.value) /\ DateIs(s, d, Now.value)
           /\ Is("fullReceipt", s) =>
                /\ RecordIs(s, Now.value # None)
                /\ Now.value # None => Now.value = day /\ recordedOn[s] = day
           /\ Is("settled", s) => Receipted(s) /\ Dated(s)
  <1>1. RoundOf[s] \in Rounds
    BY StoreConstants
  <1>2. \A what, where : Of({}, what, where) = {}
    BY OfNone
  <1>3. ASSUME Is("measurement", s)
        PROVE  /\ Now.value \in Measurement
               /\ RoundOf[s] \notin intent /\ manifest[RoundOf[s]] # None
               /\ Honest(s, Now.value) /\ Follows(s, Now.value)
               /\ Receipted(s) \/ (s \notin settled /\ (Now.value.state = "missing" \/ s \in queued))
    <2>1. ReadyMeasurement(s, Now.value, {})
      BY <1>3 DEF Ready, Is
    <2>2. Now.value \in Measurement
      BY <1>3, WrittenIs DEF Is
    <2> QED
      BY <1>1, <2>1, <2>2, FoundNow DEF ReadyMeasurement
  <1>4. ASSUME NEW d \in Days, Is("receipt", <<s, d>>)
        PROVE  RecordIs(s, Now.value) /\ DateIs(s, d, Now.value)
    <2>1. ReadyReceipt(s, d, Now.value, {})
      BY <1>4 DEF Ready, Is
    <2>2. Now.value \in BOOLEAN
      BY <1>4, WrittenIs DEF Is
    <2>3. CASE Now.value
      BY <1>1, <1>2, <2>1, <2>2, <2>3, FoundNow DEF ReadyReceipt, Measured, KeepsDate, RecordIs, DateIs
    <2>4. CASE ~Now.value
      BY <1>1, <1>2, <2>1, <2>2, <2>4, FoundNow DEF ReadyReceipt, RecordIs, DateIs
    <2> QED
      BY <2>2, <2>3, <2>4
  <1>6. ASSUME Is("fullReceipt", s)
        PROVE  RecordIs(s, Now.value # None) /\ (Now.value # None => Now.value = day /\ recordedOn[s] = day)
    <2>1. ReadyFullReceipt(s, Now.value, {})
      BY <1>6 DEF Ready, Is
    <2>2. CASE Now.value # None
      BY <1>1, <1>2, <2>1, <2>2, FoundNow DEF ReadyFullReceipt, Measured, RecordedToday, RecordIs
    <2>3. CASE Now.value = None
      BY <1>1, <1>2, <2>1, <2>3, FoundNow DEF ReadyFullReceipt, RecordIs
    <2> QED
      BY <2>2, <2>3
  <1>5. ASSUME Is("settled", s) PROVE Receipted(s) /\ Dated(s)
    <2>1. ReadySettled(s, Now.value, {})
      BY <1>5 DEF Ready, Is
    <2>2. /\ recordedOn[s] = day /\ <<s, day>> \in receipt
          /\ RoundOf[s] \in Full => fullReceipt[s] = day
      BY <1>2, <2>1 DEF ReadySettled, RecordedToday
    <2>3. day \in Receipts(s) /\ day # None
      BY <2>2, StoreConstants DEF Receipts, Types
    <2> QED
      BY <2>2, <2>3 DEF Receipted, Dated
  <1> QED
    BY <1>3, <1>4, <1>5, <1>6

(* What a write about a round can rely on when it is made at once.         *)
LEMMA RoundNow ==
    ASSUME Ready(Now, {}), Now \in Writes, NEW r \in Rounds
    PROVE  /\ Is("index", r) =>
                /\ Now.value = None => r \in intent /\ manifest[r] = None
                /\ Now.value # None => /\ r \notin intent /\ manifest[r] # None
                                       /\ Late(r, {}) \/ Now.value = Summary(manifest[r])
           /\ Dropping(r) =>
                /\ manifest[r] = None \/ Terminal(manifest[r])
                /\ \/ r \in intent \/ manifest[r] = None \/ Late(r, {})
                   \/ index[r] = Summary(manifest[r])
                /\ dirty[r] # None => manifest[r] = dirty[r]
           /\ Is("intent", r) =>
                /\ Now.value \in BOOLEAN
                /\ Now.value => /\ r \in Full /\ mode = "single"
                                /\ manifest[r] = None \/ Terminal(manifest[r])
                                /\ \A s \in SlotsOf(r) : measured[s] # None /\ Dated(s)
                /\ ~Now.value => manifest[r] = None /\ tomb[r] = None /\ Bare(r)
           /\ Is("bury", r) => mode = "single" /\ r \in intent /\ manifest[r] # None
           /\ Is("tomb", r) => r \in intent /\ manifest[r] = None /\ Bare(r)
  <1>1. \A what, where : Of({}, what, where) = {}
    BY OfNone
  <1>2. ASSUME Is("index", r)
        PROVE  /\ Now.value = None => r \in intent /\ manifest[r] = None
               /\ Now.value # None => /\ r \notin intent /\ manifest[r] # None
                                      /\ Late(r, {}) \/ Now.value = Summary(manifest[r])
    <2>1. ReadyIndex(r, Now.value, {})
      BY <1>2 DEF Ready, Is
    <2> QED
      BY <2>1, FoundNow DEF ReadyIndex
  <1>3. ASSUME Dropping(r)
        PROVE  /\ manifest[r] = None \/ Terminal(manifest[r])
               /\ \/ r \in intent \/ manifest[r] = None \/ Late(r, {})
                  \/ index[r] = Summary(manifest[r])
               /\ dirty[r] # None => manifest[r] = dirty[r]
    <2>1. ReadyDrop(r, {})
      BY <1>3 DEF Ready, Is, Dropping
    <2> QED
      BY <2>1, FoundNow DEF ReadyDrop, Indexed
  <1>4. ASSUME Is("intent", r)
        PROVE  /\ Now.value \in BOOLEAN
               /\ Now.value => /\ r \in Full /\ mode = "single"
                               /\ manifest[r] = None \/ Terminal(manifest[r])
                               /\ \A s \in SlotsOf(r) : measured[s] # None /\ Dated(s)
               /\ ~Now.value => manifest[r] = None /\ tomb[r] = None /\ Bare(r)
    <2>1. ReadyIntent(r, Now.value, {})
      BY <1>4 DEF Ready, Is
    <2>2. Now.value \in BOOLEAN
      BY <1>4, WrittenIs DEF Is
    <2> QED
      BY <1>1, <2>1, <2>2, FoundNow, ClearedIsBare DEF ReadyIntent
  <1>5. ASSUME Is("bury", r) PROVE mode = "single" /\ r \in intent /\ manifest[r] # None
    <2>1. ReadyBury(r, {})
      BY <1>5 DEF Ready, Is
    <2> QED
      BY <2>1, FoundNow DEF ReadyBury
  <1>6. ASSUME Is("tomb", r) PROVE r \in intent /\ manifest[r] = None /\ Bare(r)
    <2>1. ReadyTomb(r, Now.value, {})
      BY <1>6 DEF Ready, Is
    <2> QED
      BY <2>1, FoundNow, ClearedIsBare DEF ReadyTomb
  <1> QED
    BY <1>2, <1>3, <1>4, <1>5, <1>6

-----------------------------------------------------------------------------
(* The files after a write.                                                *)

(* A write keeps the types.                                                *)
LEMMA WriteTyped ==
    ASSUME Types, Write, Ready(Now, {})
    PROVE  Types'
  <1> DEFINE w == Now
  <1>1. /\ w \in Writes /\ todo \in Seq(Writes) /\ todo # <<>> /\ todo' = Tail(todo)
        /\ mode' = (IF w.what = "close" THEN "single" ELSE mode)
        /\ \A r \in Rounds :
             /\ manifest'[r] = IF Is("bury", r) THEN None
                               ELSE IF Is("manifest", r) THEN w.value ELSE manifest[r]
             /\ dirty'[r] = IF w.what = "close" THEN None
                            ELSE IF Is("dirty", r) THEN w.value ELSE dirty[r]
    BY Effects
  <1>2. /\ manifest' = IF w.what = "bury" THEN [manifest EXCEPT ![w.where] = None]
                       ELSE Set(manifest, "manifest", w)
        /\ tomb' = IF w.what = "bury" THEN [tomb EXCEPT ![w.where] = manifest[w.where]]
                   ELSE Set(tomb, "tomb", w)
        /\ measured' = IF w.what = "bury"
                       THEN [s \in Slots |-> IF RoundOf[s] = w.where THEN None ELSE measured[s]]
                       ELSE Set(measured, "measurement", w)
        /\ index' = Set(index, "index", w)
        /\ active' = IF w.what = "inactive" THEN active \ w.value ELSE Mark(active, "active", w)
        /\ receipt' = Mark(receipt, "receipt", w)
        /\ recordedOn' = IF w.what = "receipt" /\ w.value
                         THEN [recordedOn EXCEPT ![w.where[1]] = w.where[2]] ELSE recordedOn
        /\ fullReceipt' = Set(fullReceipt, "fullReceipt", w)
        /\ intent' = Mark(intent, "intent", w)
        /\ dirty' = IF w.what = "close" THEN [r \in Rounds |-> None] ELSE Set(dirty, "dirty", w)
        /\ settled' = IF w.what = "close" /\ w.value THEN {} ELSE Mark(settled, "settled", w)
    BY DEF Write, Now
  <1>3. /\ manifest \in [Rounds -> AnyManifest \cup {None}]
        /\ dirty \in [Rounds -> AnyManifest \cup {None}]
        /\ tomb \in [Rounds -> AnyManifest \cup {None, Rest}]
        /\ measured \in [Slots -> Measurement \cup {None}]
        /\ index \in [Rounds -> Summaries \cup {None}]
        /\ receipt \subseteq Slots \X Days /\ fullReceipt \in [Slots -> Days \cup {None}]
        /\ recordedOn \in [Slots -> Days \cup {None}] /\ day \in Days /\ settled \subseteq Slots
        /\ active \subseteq Rounds /\ intent \subseteq Full
        /\ mode \in {"single", "batch", "flush"}
    BY DEF Types
  <1>4. /\ w.what \in {"manifest", "dirty"} => w.where \in Rounds /\ w.value \in AnyManifest
        /\ w.what = "measurement" => w.where \in Slots /\ w.value \in Measurement
        /\ w.what = "index" => w.where \in Rounds /\ w.value \in Summaries \cup {None}
        /\ w.what = "receipt" => /\ w.where \in Slots \X Days /\ w.value \in BOOLEAN
                                 /\ w.where[1] \in Slots /\ w.where[2] \in Days
        /\ w.what = "fullReceipt" => w.where \in Slots /\ w.value \in Days \cup {None}
        /\ w.what = "settled" => w.where \in Slots /\ w.value \in BOOLEAN
        /\ w.what \in {"active", "intent"} => w.where \in Rounds /\ w.value \in BOOLEAN
        /\ w.what = "tomb" => w.where \in Rounds /\ w.value \in {None, Rest}
        /\ w.what = "bury" => w.where \in Rounds
    BY <1>1, WrittenIs
  <1>5. \A r \in Rounds : manifest'[r] \in Manifests(r) \cup {None} /\ dirty'[r] \in Manifests(r) \cup {None}
    BY <1>1, StateNow DEF Types
  <1>6. w.what = "intent" /\ w.value => w.where \in Full
    BY <1>1, <1>4, RoundNow DEF Is
  <1>7. todo' \in Seq(Writes)
    BY <1>1, NextWrite
  <1> HIDE DEF w
  <1>8. manifest' \in [Rounds -> AnyManifest \cup {None}] /\ dirty' \in [Rounds -> AnyManifest \cup {None}]
    BY <1>2, <1>3, <1>4 DEF Set
  <1>9. tomb' \in [Rounds -> AnyManifest \cup {None, Rest}]
    BY <1>2, <1>3, <1>4 DEF Set
  <1>10. measured' \in [Slots -> Measurement \cup {None}] /\ index' \in [Rounds -> Summaries \cup {None}]
    BY <1>2, <1>3, <1>4 DEF Set
  <1>11. settled' \subseteq Slots /\ active' \subseteq Rounds
    BY <1>2, <1>3, <1>4 DEF Mark
  <1>13. receipt' \subseteq Slots \X Days
    BY <1>2, <1>3, <1>4 DEF Mark
  <1>14. fullReceipt' \in [Slots -> Days \cup {None}]
    BY <1>2, <1>3, <1>4 DEF Set
  <1>15. recordedOn' \in [Slots -> Days \cup {None}]
    BY <1>2, <1>3, <1>4
  <1>16. day' \in Days
    BY <1>3, Effects
  <1>12. intent' \subseteq Full /\ mode' \in {"single", "batch", "flush"}
    BY <1>1, <1>2, <1>3, <1>4, <1>6 DEF Mark, w
  <1> QED
    BY <1>5, <1>7, <1>8, <1>9, <1>10, <1>11, <1>12, <1>13, <1>14, <1>15, <1>16 DEF Types

(* A slot closed by a measurement is closed by what may replace it.        *)
LEMMA FollowerAgrees ==
    ASSUME Types, NEW s \in Slots, NEW v \in Measurement, Follows(s, v), NEW e, Agrees(e, measured[s])
    PROVE  Agrees(e, v)
  <1>1. v # None /\ measured[s] \in Measurement
    BY StoreConstants DEF Types, Agrees
  <1> QED
    BY <1>1 DEF Follows, Agrees, Measurement

(* A write that buries no round leaves its closed slots backed.            *)
LEMMA BackedStays ==
    ASSUME Types, Write, Ready(Now, {}), NEW r \in Rounds, ~Is("bury", r), NEW m, Backed(r, m, {})
    PROVE  Backed(r, m, {})'
  <1>1. \A what, where : Of({}, what, where) = {}
    BY OfNone
  <1>2. ASSUME NEW s \in SlotsOf(r), m.slots[s].state # "open"
        PROVE  Agrees(m.slots[s], measured'[s])
    <2>1. s \in Slots /\ RoundOf[s] = r
      BY DEF SlotsOf
    <2>2. Agrees(m.slots[s], measured[s])
      BY <1>1, <1>2 DEF Backed
    <2>3. measured'[s] = IF Is("measurement", s) THEN Now.value ELSE measured[s]
      BY <2>1, Effects
    <2>4. Is("measurement", s) => Agrees(m.slots[s], Now.value)
      BY <2>1, <2>2, SlotNow, Effects, FollowerAgrees
    <2> QED
      BY <2>2, <2>3, <2>4
  <1> QED
    BY <1>1, <1>2 DEF Backed

(* A late result stays until its round is buried.                          *)
LEMMA LateStays ==
    ASSUME Types, Write, Ready(Now, {}), NEW r \in Rounds, ~Is("bury", r),
           NEW s \in SlotsOf(r), measured[s] # None, measured[s].late
    PROVE  measured'[s] # None /\ measured'[s].late
  <1>1. s \in Slots /\ RoundOf[s] = r
    BY DEF SlotsOf
  <1>2. measured'[s] = IF Is("measurement", s) THEN Now.value ELSE measured[s]
    BY <1>1, Effects
  <1>3. ASSUME Is("measurement", s) PROVE Now.value # None /\ Now.value.late
    <2>1. Now.value \in Measurement /\ Follows(s, Now.value) /\ measured[s] \in Measurement
      BY <1>1, <1>3, Effects, SlotNow DEF Types
    <2> QED
      BY <2>1, StoreConstants DEF Follows, Measurement
  <1> QED
    BY <1>2, <1>3

(* After a write the closed slots of every manifest have measurements.     *)
LEMMA WriteManifests ==
    ASSUME Types, Write, Ready(Now, {}), SoundManifests
    PROVE  SoundManifests'
  <1>1. ASSUME NEW r \in Rounds, manifest'[r] # None PROVE Backed(r, manifest[r], {})'
    <2>1. manifest'[r] = IF Is("bury", r) THEN None
                         ELSE IF Is("manifest", r) THEN Now.value ELSE manifest[r]
      BY Effects
    <2>2. PICK m : m = manifest'[r]
      OBVIOUS
    <2>3. ~Is("bury", r)
      BY <1>1, <2>1
    <2>4. Backed(r, m, {})
      BY <1>1, <2>1, <2>2, <2>3, StateNow DEF SoundManifests
    <2>5. Backed(r, m, {})'
      BY <2>3, <2>4, BackedStays
    <2> QED
      BY <2>2, <2>5
  <1> QED
    BY <1>1 DEF SoundManifests

(* After a write the manifests a batch holds back are sound.               *)
LEMMA WriteBatch ==
    ASSUME Types, Write, Ready(Now, {}), SoundBatch
    PROVE  SoundBatch'
  <1>1. /\ mode' = (IF Now.what = "close" THEN "single" ELSE mode)
        /\ \A r \in Rounds : dirty'[r] = IF Now.what = "close" THEN None
                                         ELSE IF Is("dirty", r) THEN Now.value ELSE dirty[r]
    BY Effects
  <1>2. ASSUME NEW r \in Rounds, mode' = "single" PROVE dirty'[r] = None
    <2>1. CASE Now.what = "close"
      BY <1>1, <2>1
    <2>2. CASE Now.what # "close"
      BY <1>1, <1>2, <2>2, StateNow DEF SoundBatch
    <2> QED
      BY <2>1, <2>2
  <1>3. ASSUME NEW r \in Rounds, dirty'[r] # None
        PROVE  /\ manifest'[r] # None /\ r \notin intent'
               /\ Backed(r, dirty[r], {})' /\ Retrievable(dirty'[r])
               /\ Terminal(manifest'[r]) => Terminal(dirty'[r])
               /\ Late(r, {})' \/ r \in active' \/ dirty'[r].slots = manifest'[r].slots
    <2>1. Now.what # "close" /\ dirty'[r] = IF Is("dirty", r) THEN Now.value ELSE dirty[r]
      BY <1>1, <1>3
    <2>2. mode # "single"
      BY <2>1, <1>3, StateNow DEF SoundBatch
    <2>3. ~Is("bury", r) /\ (Is("intent", r) => ~Now.value)
      BY <2>2, RoundNow, Effects
    <2>4. /\ manifest'[r] = IF Is("manifest", r) THEN Now.value ELSE manifest[r]
          /\ r \in intent' <=> IF Is("intent", r) THEN Now.value ELSE r \in intent
          /\ r \in active' <=> IF Now.what = "inactive" THEN r \in active /\ r \notin Now.value
                               ELSE IF Is("active", r) THEN Now.value ELSE r \in active
      BY <2>3, Effects
    <2>5. PICK m : m = dirty'[r]
      OBVIOUS
    <2>6. CASE Is("dirty", r)
      <3>1. /\ m = Now.value /\ r \notin intent /\ Retrievable(m) /\ Backed(r, m, {})
            /\ ~Terminal(m) => (manifest[r] # None => ~Terminal(manifest[r]))
            /\ manifest[r] # None
            /\ Late(r, {}) \/ r \in active \/ m.slots = manifest[r].slots
        BY <2>1, <2>5, <2>6, StateNow
      <3>2. manifest'[r] = manifest[r] /\ r \notin intent' /\ (r \in active' <=> r \in active)
        BY <2>4, <2>6, <3>1 DEF Is
      <3>3. Backed(r, m, {})'
        BY <2>3, <3>1, BackedStays
      <3>4. Late(r, {}) => Late(r, {})'
        <4>1. ASSUME Late(r, {}) PROVE \E s \in SlotsOf(r) : measured'[s] # None /\ measured'[s].late
          <5>1. PICK s \in SlotsOf(r) : measured[s] # None /\ measured[s].late
            BY <4>1, FoundNow
          <5> QED
            BY <2>3, <5>1, LateStays
        <4> QED
          BY <4>1 DEF Late
      <3> QED
        BY <2>5, <3>1, <3>2, <3>3, <3>4
    <2>7. CASE ~Is("dirty", r)
      <3>1. /\ m = dirty[r] /\ dirty[r] # None /\ manifest[r] # None /\ r \notin intent
            /\ Backed(r, m, {}) /\ Retrievable(m)
            /\ Terminal(manifest[r]) => Terminal(m)
            /\ Late(r, {}) \/ r \in active \/ m.slots = manifest[r].slots
        BY <1>3, <2>1, <2>5, <2>7 DEF SoundBatch
      <3>2. Backed(r, m, {})'
        BY <2>3, <3>1, BackedStays
      <3>3. Is("manifest", r) => Now.value = m
        BY <3>1, StateNow
      <3>4. manifest'[r] \in {manifest[r], m} /\ manifest'[r] # None /\ r \notin intent'
        BY <2>3, <2>4, <3>1, <3>3, <1>3, <2>5
      <3>5. Terminal(manifest'[r]) => Terminal(m)
        BY <3>1, <3>4
      <3>6. Dropping(r) => manifest[r] = m
        BY <3>1, RoundNow, Effects
      <3>7. r \in active' \/ Dropping(r) \/ r \notin active
        BY <2>4 DEF Dropping
      <3>8. Late(r, {}) => Late(r, {})'
        <4>1. ASSUME Late(r, {}) PROVE \E s \in SlotsOf(r) : measured'[s] # None /\ measured'[s].late
          <5>1. PICK s \in SlotsOf(r) : measured[s] # None /\ measured[s].late
            BY <4>1, FoundNow
          <5> QED
            BY <2>3, <5>1, LateStays
        <4> QED
          BY <4>1 DEF Late
      <3>9. Late(r, {})' \/ r \in active' \/ m.slots = manifest'[r].slots
        BY <3>1, <3>4, <3>6, <3>7, <3>8
      <3> QED
        BY <2>5, <3>1, <3>2, <3>4, <3>5, <3>9
    <2> QED
      BY <2>6, <2>7
  <1> QED
    BY <1>2, <1>3 DEF SoundBatch

-----------------------------------------------------------------------------
(* After a write every measurement has a manifest.                         *)
LEMMA WriteMeasurements ==
    ASSUME Types, Write, Ready(Now, {}), SoundMeasurements
    PROVE  SoundMeasurements'
  <1>1. ASSUME NEW s \in Slots, measured'[s] # None
        PROVE  manifest'[RoundOf[s]] # None /\ Honest(s, measured'[s])
    <2> DEFINE r == RoundOf[s]
    <2>1. r \in Rounds
      BY StoreConstants
    <2>2. /\ measured'[s] = IF Is("bury", r) THEN None
                            ELSE IF Is("measurement", s) THEN Now.value ELSE measured[s]
          /\ manifest'[r] = IF Is("bury", r) THEN None
                            ELSE IF Is("manifest", r) THEN Now.value ELSE manifest[r]
      BY <2>1, Effects
    <2>3. Is("manifest", r) => Now.value # None
      BY <2>1, StateNow, ManifestTyped
    <2>4. ~Is("bury", r)
      BY <1>1, <2>2
    <2>5. CASE Is("measurement", s)
      BY <2>2, <2>3, <2>4, <2>5, SlotNow, Effects
    <2>6. CASE ~Is("measurement", s)
      BY <1>1, <2>2, <2>3, <2>4, <2>6 DEF SoundMeasurements
    <2> QED
      BY <2>5, <2>6
  <1> QED
    BY <1>1 DEF SoundMeasurements, Honest

(* After a write a deletion is at one of its stages.                       *)
LEMMA WriteDeletion ==
    ASSUME Types, Write, Ready(Now, {}), SoundDeletion
    PROVE  SoundDeletion'
  <1> USE DEF Is
  <1>1. ASSUME NEW r \in Rounds
        PROVE  /\ tomb'[r] # None => r \in intent' /\ manifest'[r] = None
               /\ r \in intent' /\ manifest'[r] = None /\ tomb'[r] \in {None, Rest} => Bare(r)'
               /\ r \notin intent' /\ manifest'[r] = None => Bare(r)'
    <2>1. /\ manifest'[r] = IF Is("bury", r) THEN None
                            ELSE IF Is("manifest", r) THEN Now.value ELSE manifest[r]
          /\ tomb'[r] = IF Is("bury", r) THEN manifest[r]
                        ELSE IF Is("tomb", r) THEN Now.value ELSE tomb[r]
          /\ index'[r] = IF Is("index", r) THEN Now.value ELSE index[r]
          /\ r \in intent' <=> IF Is("intent", r) THEN Now.value ELSE r \in intent
      BY Effects
    <2>2. \A s \in SlotsOf(r) :
            /\ s \in Slots /\ RoundOf[s] = r
            /\ \A d \in Days : <<s, d>> \in receipt' <=> IF Is("receipt", <<s, d>>) THEN Now.value
                                                        ELSE <<s, d>> \in receipt
            /\ \/ recordedOn'[s] = recordedOn[s]
               \/ \E d \in Days : Is("receipt", <<s, d>>) /\ Now.value /\ recordedOn'[s] = d
            /\ fullReceipt'[s] = IF Is("fullReceipt", s) THEN Now.value ELSE fullReceipt[s]
      BY Effects, ReceiptEffects DEF SlotsOf
    <2>3. /\ tomb[r] # None => r \in intent /\ manifest[r] = None
          /\ r \in intent /\ manifest[r] = None /\ tomb[r] \in {None, Rest} => Bare(r)
          /\ r \notin intent /\ manifest[r] = None => Bare(r)
      BY ClearedIsBare DEF SoundDeletion
    <2>4. /\ Is("bury", r) => mode = "single" /\ r \in intent /\ manifest[r] # None
          /\ Is("tomb", r) => r \in intent /\ manifest[r] = None /\ Bare(r)
          /\ Is("intent", r) =>
                /\ Now.value \in BOOLEAN
                /\ ~Now.value => manifest[r] = None /\ tomb[r] = None /\ Bare(r)
          /\ Is("index", r) => /\ Now.value = None => r \in intent /\ manifest[r] = None
                               /\ Now.value # None => r \notin intent /\ manifest[r] # None
      BY RoundNow, Effects
    <2>5. Is("manifest", r) => r \notin intent /\ Now.value # None
      BY StateNow, ManifestTyped
    <2>6. \A s \in SlotsOf(r) :
            /\ \A d \in Days : Is("receipt", <<s, d>>) /\ Now.value => manifest[r] # None
            /\ Is("fullReceipt", s) /\ Now.value # None => manifest[r] # None
      BY <2>2, SlotNow, Effects DEF RecordIs
    <2>7. manifest[r] # None => manifest[r] # Rest
      BY StoreConstants DEF Types
    <2>8. tomb'[r] # None => r \in intent' /\ manifest'[r] = None
      BY <2>1, <2>3, <2>4, <2>5
    <2>9. ASSUME Bare(r), manifest[r] = None PROVE Bare(r)'
      <3>1. index'[r] = None
        BY <2>1, <2>4, <2>9 DEF Bare
      <3>2. ASSUME NEW s \in SlotsOf(r)
            PROVE  /\ fullReceipt'[s] = None
                   /\ \A d \in Days : recordedOn'[s] = d => <<s, d>> \notin receipt'
        <4>1. /\ fullReceipt[s] = None
              /\ \A d \in Days : recordedOn[s] = d => <<s, d>> \notin receipt
          BY <2>9 DEF Bare
        <4>2. recordedOn'[s] = recordedOn[s] /\ fullReceipt'[s] = None
          BY <2>2, <2>6, <2>9, <4>1
        <4> QED
          BY <2>2, <2>6, <2>9, <4>1, <4>2
      <3> QED
        BY <3>1, <3>2 DEF Bare
    <2>10. ASSUME manifest'[r] = None, ~Is("bury", r) PROVE manifest[r] = None
      BY <2>1, <2>5, <2>10
    <2>11. ASSUME r \in intent', manifest'[r] = None, tomb'[r] \in {None, Rest} PROVE Bare(r)'
      <3>1. ~Is("bury", r)
        BY <2>1, <2>4, <2>7, <2>11
      <3>2. Bare(r)
        BY <2>1, <2>3, <2>4, <2>10, <2>11, <3>1
      <3> QED
        BY <2>9, <2>10, <2>11, <3>1, <3>2
    <2>12. ASSUME r \notin intent', manifest'[r] = None PROVE Bare(r)'
      <3>1. ~Is("bury", r)
        BY <2>1, <2>4, <2>12
      <3>2. Bare(r)
        BY <2>1, <2>3, <2>4, <2>10, <2>12, <3>1
      <3> QED
        BY <2>9, <2>10, <2>12, <3>1, <3>2
    <2> QED
      BY <2>8, <2>11, <2>12
  <1>2. \A r \in Rounds : Cleared(r, {})' <=> Bare(r)'
    BY OfNone DEF Cleared, Bare, WithoutReceipt, NoMoreReceipts
  <1> QED
    BY <1>1, <1>2 DEF SoundDeletion

(* Receipts go only with the measurements.                                 *)
LEMMA ReceiptStays ==
    ASSUME Types, Write, Ready(Now, {}), SoundMeasurements,
           NEW s \in Slots, measured'[s] # None
    PROVE  /\ \A d \in Days : <<s, d>> \in receipt => <<s, d>> \in receipt'
           /\ fullReceipt[s] # None => fullReceipt'[s] # None
           /\ Receipted(s) => Receipted(s)'
  <1>1. /\ \A d \in Days : <<s, d>> \in receipt' <=> IF Is("receipt", <<s, d>>) THEN Now.value
                                                    ELSE <<s, d>> \in receipt
        /\ fullReceipt'[s] = IF Is("fullReceipt", s) THEN Now.value ELSE fullReceipt[s]
        /\ measured'[s] = IF Is("bury", RoundOf[s]) THEN None
                          ELSE IF Is("measurement", s) THEN Now.value ELSE measured[s]
        /\ Now \in Writes
    BY Effects, ReceiptEffects
  <1>2. manifest[RoundOf[s]] = None => measured[s] = None
    BY DEF SoundMeasurements
  <1>3. ASSUME NEW d \in Days, Is("receipt", <<s, d>>), ~Now.value PROVE FALSE
    <2>1. manifest[RoundOf[s]] = None
      BY <1>1, <1>3, SlotNow DEF RecordIs
    <2> QED
      BY <1>1, <1>2, <1>3, <2>1 DEF Is
  <1>4. ASSUME Is("fullReceipt", s), Now.value = None PROVE FALSE
    <2>1. manifest[RoundOf[s]] = None
      BY <1>1, <1>4, SlotNow DEF RecordIs
    <2> QED
      BY <1>1, <1>2, <1>4, <2>1 DEF Is
  <1>5. /\ \A d \in Days : <<s, d>> \in receipt => <<s, d>> \in receipt'
        /\ fullReceipt[s] # None => fullReceipt'[s] # None
    BY <1>1, <1>3, <1>4
  <1> QED
    BY <1>5 DEF Receipted, Receipts

(* After a write every answer past the queue has its receipt.              *)
LEMMA WriteAnswers ==
    ASSUME Types, Write, Ready(Now, {}), SoundMeasurements, SettledAnswer, AnswerSurvives, SoundDeletion
    PROVE  SettledAnswer' /\ AnswerSurvives'
  <1>1. ASSUME NEW s \in Slots
        PROVE  /\ \A d \in Days : <<s, d>> \in receipt' <=> IF Is("receipt", <<s, d>>) THEN Now.value
                                                           ELSE <<s, d>> \in receipt
               /\ fullReceipt'[s] = IF Is("fullReceipt", s) THEN Now.value ELSE fullReceipt[s]
               /\ measured'[s] = IF Is("bury", RoundOf[s]) THEN None
                                 ELSE IF Is("measurement", s) THEN Now.value ELSE measured[s]
               /\ s \in settled' => s \in settled \/ (Is("settled", s) /\ Now.value)
               /\ Now \in Writes /\ queued' = queued
               /\ RoundOf[s] \in Rounds /\ s \in SlotsOf(RoundOf[s])
    BY Effects, ReceiptEffects, StoreConstants DEF SlotsOf
  <1>2. ASSUME NEW s \in settled', measured'[s] # None PROVE Receipted(s)'
    <2>1. s \in Slots
      BY WriteTyped DEF Types
    <2>2. Receipted(s)
      <3>1. CASE Is("settled", s)
        BY <1>1, <2>1, <3>1, SlotNow
      <3>2. CASE Is("measurement", s) /\ ~Is("settled", s)
        <4>1. s \in settled
          BY <1>1, <1>2, <2>1, <3>2
        <4> QED
          BY <1>1, <2>1, <3>2, <4>1, SlotNow
      <3>3. CASE ~Is("measurement", s) /\ ~Is("settled", s)
        <4>1. s \in settled /\ measured[s] # None
          BY <1>1, <1>2, <2>1, <3>3
        <4> QED
          BY <4>1 DEF SettledAnswer
      <3> QED
        BY <3>1, <3>2, <3>3
    <2> QED
      BY <1>2, <2>1, <2>2, ReceiptStays
  <1>3. ASSUME NEW s \in Slots, measured'[s] # None, measured'[s].state # "missing", s \notin queued'
        PROVE  Receipted(s)'
    <2>1. Receipted(s)
      <3>1. CASE Is("measurement", s)
        <4>1. measured'[s] = Now.value
          BY <1>1, <1>3, <3>1
        <4>2. Receipted(s) \/ Now.value.state = "missing" \/ s \in queued
          BY <1>1, <3>1, SlotNow
        <4>3. queued' = queued
          BY <1>1
        <4> QED
          BY <1>3, <4>1, <4>2, <4>3
      <3>2. CASE ~Is("measurement", s)
        <4>1. measured[s] = measured'[s]
          BY <1>1, <1>3, <3>2
        <4>2. queued' = queued
          BY <1>1
        <4> QED
          BY <1>3, <4>1, <4>2 DEF AnswerSurvives, Receipted
      <3> QED
        BY <3>1, <3>2
    <2> QED
      BY <1>3, <2>1, ReceiptStays
  <1>4. ASSUME NEW s \in Slots, measured'[s] = None, RoundOf[s] \notin intent'
        PROVE  fullReceipt'[s] = None /\ (RoundOf[s] \notin Full => Receipts(s)' = {})
    <2> DEFINE r == RoundOf[s]
    <2>1. r \in Rounds /\ s \in SlotsOf(r) /\ Now \in Writes
      BY <1>1
    <2>2. r \in intent' <=> IF Is("intent", r) THEN Now.value ELSE r \in intent
      BY <2>1, Effects
    <2>3. ~Is("bury", r)
      <3>1. Is("bury", r) => r \in intent
        BY <2>1, RoundNow
      <3> QED
        BY <1>4, <2>2, <3>1 DEF Is
    <2>4. measured[s] = None
      <3>1. Is("measurement", s) => Now.value # None
        BY <2>1, SlotNow, StoreConstants
      <3> QED
        BY <1>1, <1>4, <2>3, <3>1
    <2>5. /\ \A d \in Days : Is("receipt", <<s, d>>) => ~Now.value
          /\ Is("fullReceipt", s) => Now.value = None
      BY <2>1, <2>4, SlotNow DEF RecordIs
    <2>6. fullReceipt'[s] = None
      <3>1. ASSUME fullReceipt[s] # None PROVE FALSE
        <4>1. r \in intent
          BY <2>4, <3>1 DEF AnswerSurvives
        <4>2. Is("intent", r) /\ ~Now.value
          BY <1>4, <2>2, <4>1
        <4>3. Bare(r)
          BY <2>1, <4>2, RoundNow
        <4> QED
          BY <2>1, <3>1, <4>3 DEF Bare
      <3> QED
        BY <1>1, <2>5, <3>1
    <2>7. ASSUME RoundOf[s] \notin Full PROVE Receipts(s)' = {}
      <3>1. Receipts(s) = {}
        BY <2>4, <2>7 DEF AnswerSurvives
      <3>2. \A d \in Days : <<s, d>> \notin receipt'
        BY <1>1, <2>5, <3>1 DEF Receipts
      <3> QED
        BY <3>2 DEF Receipts
    <2> QED
      BY <2>6, <2>7
  <1>5. SettledAnswer'
    BY <1>2 DEF SettledAnswer
  <1>6. AnswerSurvives'
    <2>1. ASSUME NEW s \in Slots
          PROVE  /\ measured'[s] # None /\ measured'[s].state # "missing" /\ s \notin queued' => Receipted(s)'
                 /\ Receipts(s)' # {} /\ RoundOf[s] \notin Full => measured'[s] # None
                 /\ fullReceipt'[s] # None => measured'[s] # None \/ RoundOf[s] \in intent'
      <3>1. RoundOf[s] \notin Full => RoundOf[s] \notin intent'
        BY WriteTyped DEF Types
      <3> QED
        BY <1>3, <1>4, <3>1
    <2> QED
      BY <2>1 DEF AnswerSurvives, Receipted
  <1> QED
    BY <1>5, <1>6

(* After a write the days of receipts are in order.                        *)
LEMMA WriteReceipts ==
    ASSUME Types, Write, Ready(Now, {}), SoundReceipts
    PROVE  SoundReceipts'
  <1>1. ASSUME NEW s \in Slots
        PROVE  /\ \A d \in Receipts(s)' : recordedOn'[s] # None /\ d <= recordedOn'[s]
               /\ recordedOn'[s] # None => recordedOn'[s] <= day'
               /\ Dated(s)' \/ (Waits(s)' /\ RoundOf[s] \notin intent')
    <2>1. /\ \A d \in Days : <<s, d>> \in receipt' <=> IF Is("receipt", <<s, d>>) THEN Now.value
                                                      ELSE <<s, d>> \in receipt
          /\ \A d \in Days : Is("receipt", <<s, d>>) /\ Now.value => recordedOn'[s] = d
          /\ \/ recordedOn'[s] = recordedOn[s]
             \/ \E d \in Days : Is("receipt", <<s, d>>) /\ Now.value /\ recordedOn'[s] = d
          /\ fullReceipt'[s] = IF Is("fullReceipt", s) THEN Now.value ELSE fullReceipt[s]
          /\ s \in settled' => s \in settled \/ Is("settled", s)
          /\ queued' = queued /\ day' = day /\ Now \in Writes
          /\ \A d \in Days : Is("receipt", <<s, d>>) => Now.value \in BOOLEAN
      BY Effects, ReceiptEffects
    <2>2. /\ \A d \in Days : Is("receipt", <<s, d>>) => RecordIs(s, Now.value) /\ DateIs(s, d, Now.value)
          /\ Is("fullReceipt", s) =>
                /\ RecordIs(s, Now.value # None)
                /\ Now.value # None => Now.value = day /\ recordedOn[s] = day
          /\ Is("settled", s) => Dated(s)
      BY <2>1, SlotNow
    <2>3. /\ \A d \in Receipts(s) : recordedOn[s] # None /\ d <= recordedOn[s]
          /\ recordedOn[s] # None => recordedOn[s] <= day
          /\ Dated(s) \/ (Waits(s) /\ RoundOf[s] \notin intent)
      BY DEF SoundReceipts
    <2>4. /\ day \in Days /\ recordedOn[s] \in Days \cup {None} /\ None \notin Days
          /\ \A d \in Days : d \in Nat
      BY StoreConstants DEF Types, Days
    <2>5. RoundOf[s] \in intent' => RoundOf[s] \in intent \/ (Dated(s) /\ Is("intent", RoundOf[s]))
      <3>1. RoundOf[s] \in Rounds /\ s \in SlotsOf(RoundOf[s])
        BY StoreConstants DEF SlotsOf
      <3>2. RoundOf[s] \in intent' <=> IF Is("intent", RoundOf[s]) THEN Now.value ELSE RoundOf[s] \in intent
        BY <3>1, Effects
      <3> QED
        BY <2>1, <3>1, <3>2, RoundNow
    <2>6. CASE \E d \in Days : Is("receipt", <<s, d>>) /\ Now.value
      <3>1. Is("receipt", <<s, day>>) /\ recordedOn'[s] = day /\ DateIs(s, day, TRUE) /\ RoundOf[s] \notin intent
        BY <2>1, <2>2, <2>6 DEF DateIs, RecordIs
      <3>2. \A d \in Receipts(s)' : d \in Receipts(s) \cup {day}
        <4>1. \A d \in Days : Is("receipt", <<s, d>>) => d = day
          BY <2>2, <2>6 DEF DateIs
        <4>2. \A d \in Days : <<s, d>> \in receipt' => d = day \/ <<s, d>> \in receipt
          BY <2>1, <4>1
        <4> QED
          BY <4>2 DEF Receipts
      <3>3. \A d \in Receipts(s) : d \in Nat /\ d <= day
        <4>1. \A d \in Receipts(s) : d \in Nat
          BY <2>4 DEF Receipts
        <4> QED
          BY <2>3, <2>4, <4>1
      <3>4. \A d \in Receipts(s)' : recordedOn'[s] # None /\ d <= recordedOn'[s]
        BY <2>4, <3>1, <3>2, <3>3
      <3>5. recordedOn'[s] <= day'
        BY <2>1, <2>4, <3>1
      <3>6. fullReceipt'[s] = fullReceipt[s] /\ (s \in settled' => s \in settled) /\ RoundOf[s] \notin intent'
        BY <2>1, <2>5, <3>1 DEF Is
      <3>7. Dated(s)' \/ Waits(s)'
        BY <2>1, <3>1, <3>6 DEF DateIs, Dated, Waits
      <3> QED
        BY <3>4, <3>5, <3>6, <3>7
    <2>7. CASE ~\E d \in Days : Is("receipt", <<s, d>>) /\ Now.value
      <3>1. recordedOn'[s] = recordedOn[s]
        BY <2>1, <2>7
      <3>2. \A d \in Receipts(s)' : d \in Receipts(s)
        <4>1. \A d \in Days : <<s, d>> \in receipt' => <<s, d>> \in receipt
          BY <2>1, <2>7
        <4> QED
          BY <4>1 DEF Receipts
      <3>3. Dated(s) => Dated(s)'
        BY <2>1, <2>2, <3>1 DEF Dated
      <3>4. CASE Dated(s)
        BY <2>1, <2>3, <3>1, <3>2, <3>3, <3>4
      <3>5. CASE ~Dated(s)
        <4>1. Waits(s) /\ RoundOf[s] \notin intent' /\ ~Is("settled", s)
          BY <2>2, <2>3, <2>5, <3>5
        <4>2. Waits(s)'
          BY <2>1, <4>1 DEF Waits
        <4> QED
          BY <2>1, <2>3, <3>1, <3>2, <4>1, <4>2
      <3> QED
        BY <3>4, <3>5
    <2> QED
      BY <2>6, <2>7
  <1> QED
    BY <1>1 DEF SoundReceipts

(* The open slots of a retrievable manifest have jobs.                     *)
LEMMA OpenSlots ==
    ASSUME NEW r \in Rounds, NEW m \in Manifests(r), Retrievable(m)
    PROVE  \A s \in SlotsOf(r) : m.slots[s].state = "open" => s \in m.jobs
  BY DEF Retrievable, Manifests

(* After a write every unfinished round is in the active list.             *)
LEMMA WriteListed ==
    ASSUME Types, Write, Ready(Now, {}), UnfinishedIsListed
    PROVE  UnfinishedIsListed'
  <1>1. ASSUME NEW r \in Rounds, manifest'[r] # None
        PROVE  /\ Terminal(manifest'[r]) \/ r \in active'
               /\ \A s \in SlotsOf(r) : manifest'[r].slots[s].state = "open" => s \in manifest'[r].jobs
    <2>1. /\ manifest'[r] = IF Is("bury", r) THEN None
                            ELSE IF Is("manifest", r) THEN Now.value ELSE manifest[r]
          /\ r \in active' <=> IF Now.what = "inactive" THEN r \in active /\ r \notin Now.value
                               ELSE IF Is("active", r) THEN Now.value ELSE r \in active
          /\ Now \in Writes
      BY Effects
    <2>2. CASE Is("manifest", r)
      <3>1. /\ Now.value \in Manifests(r) /\ Retrievable(Now.value)
            /\ ~Terminal(Now.value) => r \in active
        BY <2>2, StateNow
      <3>2. manifest'[r] = Now.value /\ (r \in active' <=> r \in active)
        BY <2>1, <2>2 DEF Is
      <3> QED
        BY <3>1, <3>2, OpenSlots
    <2>3. CASE ~Is("manifest", r)
      <3>1. manifest'[r] = manifest[r] /\ manifest[r] # None
        BY <1>1, <2>1, <2>3
      <3>2. r \in active' \/ r \notin active \/ Dropping(r)
        BY <2>1 DEF Dropping
      <3>3. Dropping(r) => Terminal(manifest[r])
        BY <2>1, <3>1, RoundNow
      <3> QED
        BY <3>1, <3>2, <3>3 DEF UnfinishedIsListed
    <2> QED
      BY <2>2, <2>3
  <1> QED
    BY <1>1 DEF UnfinishedIsListed

(* After a write every round past recovery has its row.                    *)
LEMMA WriteIndexed ==
    ASSUME Types, Write, Ready(Now, {}), SettledIsIndexed
    PROVE  SettledIsIndexed'
  <1>1. ASSUME NEW r \in Rounds, manifest'[r] # None, r \notin active', r \notin intent',
               \A s \in SlotsOf(r) : measured'[s] = None \/ ~measured'[s].late
        PROVE  index'[r] = Summary(manifest'[r])
    <2>1. /\ manifest'[r] = IF Is("bury", r) THEN None
                            ELSE IF Is("manifest", r) THEN Now.value ELSE manifest[r]
          /\ index'[r] = IF Is("index", r) THEN Now.value ELSE index[r]
          /\ r \in intent' <=> IF Is("intent", r) THEN Now.value ELSE r \in intent
          /\ r \in active' <=> IF Now.what = "inactive" THEN r \in active /\ r \notin Now.value
                               ELSE IF Is("active", r) THEN Now.value ELSE r \in active
          /\ Now \in Writes
      BY Effects
    <2>2. ~Is("bury", r)
      BY <1>1, <2>1
    <2>3. \A s \in SlotsOf(r) : measured[s] = None \/ ~measured[s].late
      BY <1>1, <2>2, LateStays
    <2>4. ~Late(r, {})
      BY <2>3, FoundNow
    <2>5. CASE Is("manifest", r)
      <3>1. manifest'[r] = Now.value /\ index'[r] = index[r] /\ r \notin active
        BY <1>1, <2>1, <2>2, <2>5 DEF Is
      <3> QED
        BY <2>4, <2>5, <3>1, StateNow
    <2>6. CASE Is("index", r)
      <3>1. manifest'[r] = manifest[r] /\ index'[r] = Now.value /\ r \notin intent
        BY <1>1, <2>1, <2>2, <2>6 DEF Is
      <3> QED
        BY <2>1, <2>4, <2>6, <3>1, RoundNow
    <2>7. CASE ~Is("manifest", r) /\ ~Is("index", r)
      <3>1. manifest'[r] = manifest[r] /\ index'[r] = index[r] /\ manifest[r] # None
        BY <1>1, <2>1, <2>2, <2>7
      <3>2. r \notin intent
        <4>1. Is("intent", r) /\ ~Now.value => manifest[r] = None
          BY <2>1, RoundNow
        <4> QED
          BY <1>1, <2>1, <3>1, <4>1
      <3>3. CASE r \in active
        <4>1. Dropping(r)
          BY <1>1, <2>1, <3>3 DEF Dropping
        <4> QED
          BY <2>1, <2>4, <3>1, <3>2, <4>1, RoundNow
      <3>4. CASE r \notin active
        BY <2>3, <3>1, <3>2, <3>4 DEF SettledIsIndexed
      <3> QED
        BY <3>3, <3>4
    <2> QED
      BY <2>5, <2>6, <2>7
  <1> QED
    BY <1>1 DEF SettledIsIndexed

(* The second half of DeletionIsWhole is about the files at rest.          *)
LEMMA Traceless ==
    ASSUME SoundMeasurements, SoundDeletion, NEW r \in Rounds, r \notin intent, manifest[r] = None
    PROVE  /\ tomb[r] = None /\ index[r] = None
           /\ \A s \in SlotsOf(r) : /\ measured[s] = None /\ fullReceipt[s] = None
                                    /\ \A d \in Days : recordedOn[s] = d => <<s, d>> \notin receipt
  <1>1. tomb[r] = None /\ Bare(r)
    BY ClearedIsBare DEF SoundDeletion
  <1>2. \A s \in SlotsOf(r) : measured[s] = None
    BY DEF SoundMeasurements, SlotsOf
  <1> QED
    BY <1>1, <1>2 DEF Bare

(* After a write every deletion is whole or can go on.                     *)
LEMMA WriteWhole ==
    ASSUME Types, Write, Ready(Now, {}), SoundDeletion, SoundMeasurements, DeletionIsWhole
    PROVE  DeletionIsWhole'
  <1>1. SoundDeletion' /\ SoundMeasurements'
    BY WriteDeletion, WriteMeasurements
  <1>2. ASSUME NEW r \in Full, r \in intent'
        PROVE  /\ manifest'[r] # None => Terminal(manifest'[r])
               /\ tomb'[r] \notin {None, Rest} => Terminal(tomb'[r])
    <2>1. r \in Rounds
      BY StoreConstants
    <2>2. /\ manifest'[r] = IF Is("bury", r) THEN None
                            ELSE IF Is("manifest", r) THEN Now.value ELSE manifest[r]
          /\ tomb'[r] = IF Is("bury", r) THEN manifest[r]
                        ELSE IF Is("tomb", r) THEN Now.value ELSE tomb[r]
          /\ r \in intent' <=> IF Is("intent", r) THEN Now.value ELSE r \in intent
          /\ Now \in Writes
      BY <2>1, Effects
    <2>3. CASE Is("intent", r) /\ r \notin intent
      <3>1. manifest[r] = None \/ Terminal(manifest[r])
        BY <1>2, <2>1, <2>2, <2>3, RoundNow
      <3>2. tomb[r] = None
        BY <2>1, <2>3 DEF SoundDeletion
      <3>3. manifest'[r] = manifest[r] /\ tomb'[r] = tomb[r]
        BY <2>2, <2>3 DEF Is
      <3> QED
        BY <3>1, <3>2, <3>3
    <2>4. CASE r \in intent
      <3>1. ~Is("manifest", r)
        BY <2>1, <2>4, StateNow
      <3>2. Is("tomb", r) => Now.value \in {None, Rest}
        BY <2>2, WrittenIs DEF Is
      <3>3. /\ manifest[r] # None => Terminal(manifest[r])
            /\ tomb[r] \notin {None, Rest} => Terminal(tomb[r])
        BY <2>4 DEF DeletionIsWhole
      <3>4. Is("bury", r) => manifest[r] # None
        BY <2>1, <2>2, RoundNow
      <3> QED
        BY <2>2, <3>1, <3>2, <3>3, <3>4
    <2> QED
      BY <1>2, <2>2, <2>3, <2>4
  <1>3. ASSUME NEW r \in Full, r \notin intent', manifest'[r] = None
        PROVE  /\ tomb'[r] = None /\ index'[r] = None
               /\ \A s \in SlotsOf(r) :
                    /\ measured'[s] = None /\ fullReceipt'[s] = None
                    /\ recordedOn'[s] # None => <<s, recordedOn'[s]>> \notin receipt'
    <2>1. r \in Rounds
      BY StoreConstants
    <2>2. /\ tomb'[r] # None => r \in intent' /\ manifest'[r] = None
          /\ r \notin intent' /\ manifest'[r] = None => Cleared(r, {})'
      BY <1>1, <2>1 DEF SoundDeletion
    <2>3. Bare(r)'
      BY <1>3, <2>2, OfNone DEF Cleared, Bare, WithoutReceipt
    <2>4. \A s \in SlotsOf(r) : measured'[s] = None
      BY <1>1, <1>3 DEF SoundMeasurements, SlotsOf
    <2>5. \A s \in SlotsOf(r) : recordedOn'[s] # None => recordedOn'[s] \in Days
      BY WriteTyped DEF Types, SlotsOf
    <2> QED
      BY <1>3, <2>2, <2>3, <2>4, <2>5 DEF Bare
  <1> QED
    BY <1>2, <1>3 DEF DeletionIsWhole

(* A write that is made next keeps Sound.                                  *)
LEMMA WriteSound ==
    ASSUME Sound, Write
    PROVE  Sound'
  <1>1. Ready(Now, {})
    BY Effects, RestInOrder DEF Sound, Now
  <1>2. InOrder(todo, {})'
    BY OrderNext DEF Sound
  <1>3. Types' /\ SoundManifests' /\ SoundBatch' /\ SoundMeasurements' /\ SoundDeletion'
    BY <1>1, WriteTyped, WriteManifests, WriteBatch, WriteMeasurements, WriteDeletion DEF Sound
  <1>5. SoundReceipts'
    BY <1>1, WriteReceipts DEF Sound
  <1>4. SettledAnswer' /\ UnfinishedIsListed' /\ SettledIsIndexed' /\ AnswerSurvives' /\ DeletionIsWhole'
    BY <1>1, WriteAnswers, WriteListed, WriteIndexed, WriteWhole DEF Sound
  <1> QED
    BY <1>2, <1>3, <1>4, <1>5 DEF Sound

-----------------------------------------------------------------------------
(* Sequences made of sequences, and sets put in an order.                  *)

(* A function on 1..n is a sequence of length n.                           *)
LEMMA LengthIs ==
    ASSUME NEW S, NEW n \in Nat, NEW f \in [1..n -> S]
    PROVE  f \in Seq(S) /\ Len(f) = n /\ DOMAIN f = 1..n
  OBVIOUS

(* The recursion of FlattenSeq has a solution.                             *)
Flattens(seqs, n, f) ==
    f = [i \in 1..n |-> IF i = 1 THEN seqs[i] ELSE f[i - 1] \o seqs[i]]

(* There is a function that flattens the first n sequences.                *)
LEMMA FlattenerExists ==
    ASSUME NEW seqs, NEW n \in Nat
    PROVE  \E f : Flattens(seqs, n, f)
  <1> DEFINE Bad == {m \in Nat : ~\E f : Flattens(seqs, m, f)}
  <1>1. SUFFICES ASSUME Bad # {} PROVE FALSE
    OBVIOUS
  <1>2. PICK m \in Bad : \A x \in Bad : m <= x
    <2>1. Bad \in SUBSET Nat
      OBVIOUS
    <2> HIDE DEF Bad
    <2> QED
      BY <1>1, <2>1, Least
  <1>3. m \in Nat /\ ~\E f : Flattens(seqs, m, f)
    BY <1>2
  <1>4. m # 0
    <2> DEFINE f == [i \in {} |-> {}]
    <2>1. f = [i \in 1..0 |-> IF i = 1 THEN seqs[i] ELSE f[i - 1] \o seqs[i]]
      OBVIOUS
    <2>2. Flattens(seqs, 0, f)
      BY <2>1 DEF Flattens
    <2> QED
      BY <1>3, <2>2
  <1>5. m - 1 \in Nat /\ m - 1 \notin Bad
    <2>1. m - 1 \in Nat /\ ~(m <= m - 1)
      BY <1>3, <1>4
    <2> QED
      BY <1>2, <2>1
  <1>6. PICK f : Flattens(seqs, m - 1, f)
    BY <1>5
  <1> HIDE DEF Bad
  <1> DEFINE g == [i \in 1..m |-> IF i = 1 THEN seqs[i] ELSE f[i - 1] \o seqs[i]]
  <1>7. \A i \in 1..(m - 1) : f[i] = IF i = 1 THEN seqs[i] ELSE f[i - 1] \o seqs[i]
    <2>1. f = [i \in 1..(m - 1) |-> IF i = 1 THEN seqs[i] ELSE f[i - 1] \o seqs[i]]
      BY <1>6 DEF Flattens
    <2> QED
      BY <2>1
  <1>8. \A i \in 1..m : g[i] = IF i = 1 THEN seqs[i] ELSE f[i - 1] \o seqs[i]
    OBVIOUS
  <1>9. \A i \in 1..m : i # 1 => g[i - 1] = f[i - 1]
    <2>1. \A i \in 1..m : i # 1 => i - 1 \in 1..(m - 1) /\ i - 1 \in 1..m
      BY <1>3
    <2>2. \A j \in 1..(m - 1) : j \in 1..m => g[j] = f[j]
      BY <1>7, <1>8
    <2> HIDE DEF g
    <2> QED
      BY <2>1, <2>2
  <1>10. g = [i \in 1..m |-> IF i = 1 THEN seqs[i] ELSE g[i - 1] \o seqs[i]]
    BY <1>9
  <1> QED
    BY <1>3, <1>10 DEF Flattens

(* The writes of a family of sequences.                                    *)
LEMMA InUnion ==
    ASSUME NEW seqs, NEW A, NEW x
    PROVE  x \in UNION {All(seqs[i]) : i \in A} <=> \E i \in A : x \in All(seqs[i])
  OBVIOUS

(* One sequence more.                                                      *)
LEMMA UnionSplit ==
    ASSUME NEW seqs, NEW A, NEW m, NEW B, B = A \cup {m}
    PROVE  UNION {All(seqs[i]) : i \in B} = (UNION {All(seqs[i]) : i \in A}) \cup All(seqs[m])
  <1> DEFINE U(S) == UNION {All(seqs[i]) : i \in S}
  <1>1. \A S : \A x : x \in U(S) <=> \E i \in S : x \in All(seqs[i])
    BY InUnion
  <1> HIDE DEF U
  <1>2. \A x : x \in U(B) <=> x \in U(A) \cup All(seqs[m])
    BY <1>1
  <1>3. U(B) = U(A) \cup All(seqs[m])
    BY <1>2
  <1> QED
    BY <1>3 DEF U

(* FlattenSeq makes the writes of all its sequences.                       *)
LEMMA FlattenIs ==
    ASSUME NEW n \in Nat, NEW seqs \in [1..n -> Seq(Writes)]
    PROVE  /\ FlattenSeq(seqs) \in Seq(Writes)
           /\ All(FlattenSeq(seqs)) = UNION {All(seqs[i]) : i \in 1..n}
  <1>1. Len(seqs) = n /\ \A i \in 1..n : seqs[i] \in Seq(Writes)
    BY LengthIs
  <1>2. CASE n = 0
    <2>1. seqs = <<>>
      BY <1>2
    <2>2. FlattenSeq(seqs) = <<>>
      BY <1>1, <1>2, <2>1 DEF FlattenSeq
    <2> QED
      BY <1>2, <2>2, NoWrite
  <1>3. CASE n # 0
    <2> DEFINE f == CHOOSE f : Flattens(seqs, n, f)
    <2>1. Flattens(seqs, n, f)
      BY FlattenerExists
    <2>2. FlattenSeq(seqs) = f[n]
      BY <1>1, <1>3 DEF FlattenSeq, Flattens
    <2> HIDE DEF f
    <2>3. \A i \in 1..n : f[i] = IF i = 1 THEN seqs[i] ELSE f[i - 1] \o seqs[i]
      <3>1. f = [i \in 1..n |-> IF i = 1 THEN seqs[i] ELSE f[i - 1] \o seqs[i]]
        BY <2>1 DEF Flattens
      <3> QED
        BY <3>1
    <2> DEFINE Holds(m) == f[m] \in Seq(Writes) /\ All(f[m]) = UNION {All(seqs[i]) : i \in 1..m}
               Bad == {m \in 1..n : ~Holds(m)}
    <2>4. ASSUME Bad # {} PROVE FALSE
      <3>1. Bad \in SUBSET Nat
        OBVIOUS
      <3>2. PICK m \in Bad : \A x \in Bad : m <= x
        <4> HIDE DEF Bad
        <4> QED
          BY <2>4, <3>1, Least
      <3>3. m \in 1..n /\ ~Holds(m)
        BY <3>2
      <3>4. CASE m = 1
        <4>1. f[1] = seqs[1] /\ 1..1 = {1}
          BY <2>3, <3>3, <3>4
        <4>2. UNION {All(seqs[i]) : i \in {1}} = All(seqs[1])
          OBVIOUS
        <4> QED
          BY <1>1, <3>3, <3>4, <4>1, <4>2
      <3>5. CASE m # 1
        <4>1. m - 1 \in 1..n /\ ~(m <= m - 1) /\ m \in Nat
          BY <3>3, <3>5
        <4>2. Holds(m - 1)
          BY <3>2, <4>1
        <4>3. f[m] = f[m - 1] \o seqs[m] /\ seqs[m] \in Seq(Writes)
          BY <1>1, <2>3, <3>3, <3>5
        <4>4. f[m] \in Seq(Writes) /\ All(f[m]) = All(f[m - 1]) \cup All(seqs[m])
          BY <4>2, <4>3, Joined, AllJoined
        <4>5. 1..m = 1..(m - 1) \cup {m}
          BY <4>1
        <4>6. UNION {All(seqs[i]) : i \in 1..m}
                = (UNION {All(seqs[i]) : i \in 1..(m - 1)}) \cup All(seqs[m])
          BY <4>5, UnionSplit
        <4> QED
          BY <3>3, <4>2, <4>4, <4>6
      <3> QED
        BY <3>4, <3>5
    <2>5. n \in 1..n
      BY <1>3
    <2>6. Holds(n)
      BY <2>4, <2>5
    <2> QED
      BY <2>2, <2>6
  <1> QED
    BY <1>2, <1>3

(* A sequence with as many different elements as the set has contains them all. *)
LEMMA OrderCovers ==
    ASSUME NEW S, IsFiniteSet(S), NEW f \in [1..Cardinality(S) -> S], IsInjective(f)
    PROVE  Cardinality(S) \in Nat /\ {f[i] : i \in 1..Cardinality(S)} = S
  <1> DEFINE n == Cardinality(S)
  <1>1. n \in Nat
    BY FS_CardinalityType
  <1>2. IsFiniteSet(1..n) /\ Cardinality(1..n) = n
    BY <1>1, FS_Interval
  <1>3. f \in Injection(1..n, S)
    BY DEF Injection
  <1>4. f \in Surjection(1..n, S)
    BY <1>2, <1>3, FS_Injection
  <1> QED
    BY <1>1, <1>4 DEF Surjection

(* SetToSeq lists a finite set.                                            *)
LEMMA SetToSeqIs ==
    ASSUME NEW S, IsFiniteSet(S)
    PROVE  /\ Cardinality(S) \in Nat /\ SetToSeq(S) \in [1..Cardinality(S) -> S]
           /\ {SetToSeq(S)[i] : i \in 1..Cardinality(S)} = S
  <1> DEFINE n == Cardinality(S)
  <1>1. \E f \in [1..n -> S] : IsInjective(f)
    BY FS_CardinalityType DEF ExistsBijection, Bijection, Injection
  <1>2. SetToSeq(S) \in [1..n -> S] /\ IsInjective(SetToSeq(S))
    BY <1>1 DEF SetToSeq
  <1> QED
    BY <1>2, OrderCovers

(* So does each of SetToSeqs.                                              *)
LEMMA SetToSeqsIs ==
    ASSUME NEW S, IsFiniteSet(S), NEW f \in SetToSeqs(S)
    PROVE  /\ Cardinality(S) \in Nat /\ f \in [1..Cardinality(S) -> S]
           /\ {f[i] : i \in 1..Cardinality(S)} = S /\ ToSet(f) = S
           /\ DOMAIN f = 1..Cardinality(S)
  <1>1. f \in [1..Cardinality(S) -> S] /\ \A i, j \in 1..Cardinality(S) : i # j => f[i] # f[j]
    BY DEF SetToSeqs
  <1>2. IsInjective(f)
    BY <1>1 DEF IsInjective
  <1> QED
    BY <1>1, <1>2, OrderCovers DEF ToSet

-----------------------------------------------------------------------------
(* The writes of an operation.                                             *)
Good(s, G) == s \in Seq(Writes) /\ InOrder(s, G)

(* Good sequences joined.                                                  *)
LEMMA GoodJoined ==
    ASSUME NEW s, NEW t, NEW G, Good(s, G), Good(t, G \cup All(s))
    PROVE  Good(s \o t, G) /\ All(s \o t) = All(s) \cup All(t)
  BY Joined, InOrderJoined, AllJoined DEF Good

(* A single good write.                                                    *)
LEMMA GoodOne ==
    ASSUME NEW w \in Writes, NEW G, Ready(w, G)
    PROVE  Good(<<w>>, G) /\ All(<<w>>) = {w}
  BY OneWrite, OneInOrder DEF Good

(* No writes are good.                                                     *)
LEMMA GoodNone ==
    ASSUME NEW G
    PROVE  Good(<<>>, G) /\ All(<<>>) = {}
  BY NoWrite, NoneInOrder DEF Good

(* A write made under a condition.                                         *)
LEMMA GoodWhen ==
    ASSUME NEW c \in BOOLEAN, NEW w \in Writes, NEW G, c => Ready(w, G)
    PROVE  Good(When(c, <<w>>), G) /\ All(When(c, <<w>>)) = IF c THEN {w} ELSE {}
  BY GoodOne, GoodNone DEF When

(* Two good writes.                                                        *)
LEMMA GoodTwo ==
    ASSUME NEW v \in Writes, NEW w \in Writes, NEW G, Ready(v, G), Ready(w, G \cup {v})
    PROVE  Good(<<v, w>>, G) /\ All(<<v, w>>) = {v, w}
  <1> DEFINE t == <<v, w>>
  <1>1. t \in Seq(Writes) /\ Len(t) = 2 /\ t[1] = v /\ t[2] = w
    OBVIOUS
  <1> HIDE DEF t
  <1>2. 1..Len(t) = {1, 2}
    BY <1>1
  <1>3. All(t) = {v, w}
    <2>1. All(t) = {t[k] : k \in {1, 2}}
      BY <1>2 DEF All
    <2>2. {t[k] : k \in {1, 2}} = {t[1], t[2]}
      OBVIOUS
    <2> QED
      BY <1>1, <2>1, <2>2
  <1>4. Ready(t[1], G \cup Made(t, 1))
    <2>1. Made(t, 1) = {}
      BY DEF Made
    <2>2. G \cup Made(t, 1) = G
      BY <2>1
    <2> QED
      BY <1>1, <2>2
  <1>5. Ready(t[2], G \cup Made(t, 2))
    <2>1. 1..(2 - 1) = {1}
      OBVIOUS
    <2>2. Made(t, 2) = {t[k] : k \in {1}}
      BY <2>1 DEF Made
    <2>3. {t[k] : k \in {1}} = {t[1]}
      OBVIOUS
    <2>4. G \cup Made(t, 2) = G \cup {v}
      BY <1>1, <2>2, <2>3
    <2> QED
      BY <1>1, <2>4
  <1>6. InOrder(t, G)
    <2>1. \A i \in 1..Len(t) : i = 1 \/ i = 2
      BY <1>2
    <2> QED
      BY <1>4, <1>5, <2>1 DEF InOrder
  <1> QED
    BY <1>1, <1>3, <1>6 DEF Good, t

(* Writes to memory, the end of a batch and new list entries need nothing. *)
LEMMA FreeWrite ==
    ASSUME NEW w \in Writes, NEW D,
           w.what \in {"trusted", "unscanned", "close"} \/ (w.what = "active" /\ w.value)
    PROVE  Ready(w, D)
  BY DEF Ready

(* What makes a Put of each kind ready.                                    *)
LEMMA ReadyPut ==
    ASSUME NEW y, NEW z, NEW D
    PROVE  /\ ReadyManifest(y, z, D) => Ready(Put("manifest", y, z), D)
           /\ ReadyDirty(y, z, D) => Ready(Put("dirty", y, z), D)
           /\ ReadyMeasurement(y, z, D) => Ready(Put("measurement", y, z), D)
           /\ \A d : ReadyReceipt(y, d, z, D) => Ready(Put("receipt", <<y, d>>, z), D)
           /\ ReadyFullReceipt(y, z, D) => Ready(Put("fullReceipt", y, z), D)
           /\ ReadySettled(y, z, D) => Ready(Put("settled", y, z), D)
           /\ ReadyIndex(y, z, D) => Ready(Put("index", y, z), D)
           /\ z \/ ReadyDrop(y, D) => Ready(Put("active", y, z), D)
           /\ (\A r \in z : ReadyDrop(r, D)) => Ready(Put("inactive", y, z), D)
           /\ ReadyIntent(y, z, D) => Ready(Put("intent", y, z), D)
           /\ ReadyBury(y, D) => Ready(Put("bury", y, z), D)
           /\ ReadyTomb(y, z, D) => Ready(Put("tomb", y, z), D)
           /\ Ready(Put("trusted", y, z), D)
           /\ Ready(Put("unscanned", y, z), D)
           /\ Ready(Put("close", y, z), D)
  <1>1. /\ ReadyManifest(y, z, D) => Ready(Put("manifest", y, z), D)
        /\ ReadyDirty(y, z, D) => Ready(Put("dirty", y, z), D)
        /\ ReadyMeasurement(y, z, D) => Ready(Put("measurement", y, z), D)
    BY PutIs DEF Ready
  <1>2. /\ \A d : ReadyReceipt(y, d, z, D) => Ready(Put("receipt", <<y, d>>, z), D)
        /\ ReadyFullReceipt(y, z, D) => Ready(Put("fullReceipt", y, z), D)
        /\ ReadySettled(y, z, D) => Ready(Put("settled", y, z), D)
    BY PutIs DEF Ready
  <1>3. /\ ReadyIndex(y, z, D) => Ready(Put("index", y, z), D)
        /\ z \/ ReadyDrop(y, D) => Ready(Put("active", y, z), D)
        /\ (\A r \in z : ReadyDrop(r, D)) => Ready(Put("inactive", y, z), D)
    BY PutIs DEF Ready
  <1>4. /\ ReadyIntent(y, z, D) => Ready(Put("intent", y, z), D)
        /\ ReadyBury(y, D) => Ready(Put("bury", y, z), D)
        /\ ReadyTomb(y, z, D) => Ready(Put("tomb", y, z), D)
    BY PutIs DEF Ready
  <1>5. /\ Ready(Put("trusted", y, z), D)
        /\ Ready(Put("unscanned", y, z), D)
        /\ Ready(Put("close", y, z), D)
    BY PutIs DEF Ready
  <1> QED
    BY <1>1, <1>2, <1>3, <1>4, <1>5

(* What one write more writes.                                             *)
LEMMA OfMore ==
    ASSUME NEW G, NEW x, NEW y, NEW z, NEW what, NEW where
    PROVE  Of(G \cup {Put(x, y, z)}, what, where)
             = Of(G, what, where) \cup (IF x = what /\ y = where THEN {z} ELSE {})
  <1>1. Of(G \cup {Put(x, y, z)}, what, where) = Of(G, what, where) \cup Of({Put(x, y, z)}, what, where)
    BY OfJoined
  <1>2. Of({Put(x, y, z)}, what, where) = (IF x = what /\ y = where THEN {z} ELSE {})
    BY OfPut
  <1> QED
    BY <1>1, <1>2

(* What writes of other kinds or places do not write.                      *)
LEMMA OfNothing ==
    ASSUME NEW G, NEW H, NEW what, NEW where, \A w \in H : w.what # what \/ w.where # where
    PROVE  Of(H, what, where) = {} /\ Of(G \cup H, what, where) = Of(G, what, where)
  <1>1. Of(H, what, where) = {}
    BY DEF Of
  <1>2. Of(G \cup H, what, where) = Of(G, what, where) \cup Of(H, what, where)
    BY OfJoined
  <1> QED
    BY <1>1, <1>2

(* More writes leave a late result late.                                   *)
LEMMA LateMore ==
    ASSUME NEW r, NEW G, NEW H, Late(r, G)
    PROVE  Late(r, G \cup H)
  <1>1. \A s : Of(G \cup H, "measurement", s) = Of(G, "measurement", s) \cup Of(H, "measurement", s)
    BY OfJoined
  <1> QED
    BY <1>1 DEF Late

(* A write that deletes nothing leaves a round untouched.                  *)
LEMMA MoreUntouched ==
    ASSUME NEW r, NEW G, NEW x, NEW y, NEW z, Untouched(r, G), x \notin {"intent", "bury"}
    PROVE  Untouched(r, G \cup {Put(x, y, z)})
  <1>1. \A what : Of(G \cup {Put(x, y, z)}, what, r)
                   = Of(G, what, r) \cup (IF x = what /\ y = r THEN {z} ELSE {})
    BY OfMore
  <1> QED
    BY <1>1 DEF Untouched

(* Row and end of a round depend on its slots only.                        *)
LEMMA SameSlots ==
    ASSUME NEW m, NEW n, m.slots = n.slots
    PROVE  Summary(m) = Summary(n) /\ (Terminal(m) <=> Terminal(n))
  BY DEF Summary, Terminal

-----------------------------------------------------------------------------
(* persist.                                                                *)
Persists(r, m) == {Put("manifest", r, m), Put("index", r, Summary(m)),
                   Put("active", r, ~Terminal(m)), Put("trusted", r, TRUE)}

(* persist is in order where its manifest is ready.                        *)
LEMMA PersistGood ==
    ASSUME NEW r \in Rounds, NEW m \in Manifests(r), NEW G, dirty[r] = None, ReadyManifest(r, m, G),
           \/ Late(r, G)
           \/ Of(G, "manifest", r) \subseteq {m} /\ Of(G, "index", r) \subseteq {Summary(m)}
    PROVE  /\ Good(Persist(r, m), G)
           /\ All(Persist(r, m)) \subseteq Persists(r, m)
           /\ Put("manifest", r, m) \in All(Persist(r, m))
  <1> DEFINE a == Put("manifest", r, m)
             b == Put("index", r, Summary(m))
             c == Put("active", r, ~Terminal(m))
             d == Put("trusted", r, TRUE)
             B == IndexRow(r, m)
             C == Listed(r, ~Terminal(m))
  <1>1. m \in AnyManifest /\ Summary(m) \in Summaries /\ Summary(m) # None
    BY ManifestTyped, RowIsEntry
  <1>2. a \in Writes /\ b \in Writes /\ c \in Writes /\ d \in Writes
    BY <1>1, KindsOfWrites DEF Terminal
  <1>3. /\ Untouched(r, G) /\ Of(G, "dirty", r) = {}
    BY DEF ReadyManifest, ReadyState
  <1>4. Good(<<a>>, G) /\ All(<<a>>) = {a}
    BY <1>2, ReadyPut, GoodOne
  <1>5. Late(r, G \cup {a}) \/ Becomes(G \cup {a}, "manifest", r, manifest[r], m)
    <2>1. Of(G \cup {a}, "manifest", r) = Of(G, "manifest", r) \cup {m}
      BY OfMore
    <2>2. CASE Late(r, G)
      BY <2>2, LateMore
    <2>3. CASE Of(G, "manifest", r) \subseteq {m}
      BY <2>1, <2>3 DEF Becomes
    <2> QED
      BY <2>2, <2>3
  <1>6. ReadyIndex(r, Summary(m), G \cup {a})
    <2>1. Untouched(r, G \cup {a})
      BY <1>3, MoreUntouched
    <2>2. Exists(r, G \cup {a})
      <3>1. Of(G \cup {a}, "manifest", r) = Of(G, "manifest", r) \cup {m}
        BY OfMore
      <3> QED
        BY <3>1 DEF Exists
    <2> QED
      BY <1>1, <1>5, <2>1, <2>2 DEF ReadyIndex
  <1>7. Good(B, G \cup {a}) /\ All(B) = IF index[r] # Summary(m) THEN {b} ELSE {}
    BY <1>2, <1>6, ReadyPut, GoodWhen DEF IndexRow
  <1>8. Good(<<a>> \o B, G) /\ All(<<a>> \o B) = {a} \cup All(B)
    BY <1>4, <1>7, GoodJoined
  <1> DEFINE H == G \cup All(<<a>> \o B)
  <1>9. ASSUME Terminal(m) PROVE ReadyDrop(r, H)
    <2>1. H = (G \cup {a}) \cup All(B)
      BY <1>8
    <2>2. /\ Of(H, "manifest", r) = Of(G, "manifest", r) \cup {m} /\ Of(H, "dirty", r) = {}
          /\ Of(H, "index", r) = Of(G, "index", r) \cup (IF index[r] # Summary(m) THEN {Summary(m)} ELSE {})
      <3>1. CASE index[r] # Summary(m)
        <4>1. H = (G \cup {a}) \cup {b}
          BY <1>7, <2>1, <3>1
        <4> HIDE DEF H, a, b
        <4>2. \A x : Of(H, x, r) = (Of(G, x, r) \cup (IF "manifest" = x THEN {m} ELSE {}))
                                    \cup (IF "index" = x THEN {Summary(m)} ELSE {})
          <5>1. \A x : Of(G \cup {a}, x, r) = Of(G, x, r) \cup (IF "manifest" = x THEN {m} ELSE {})
            BY OfMore DEF a
          <5>2. \A x : Of((G \cup {a}) \cup {b}, x, r) = Of(G \cup {a}, x, r) \cup (IF "index" = x THEN {Summary(m)} ELSE {})
            BY OfMore DEF b
          <5> QED
            BY <4>1, <5>1, <5>2
        <4> QED
          BY <1>3, <3>1, <4>2
      <3>2. CASE index[r] = Summary(m)
        <4>1. H = G \cup {a}
          BY <1>7, <2>1, <3>2
        <4> HIDE DEF H, a
        <4>2. \A x : Of(H, x, r) = Of(G, x, r) \cup (IF "manifest" = x THEN {m} ELSE {})
          <5>1. \A x : Of(G \cup {a}, x, r) = Of(G, x, r) \cup (IF "manifest" = x THEN {m} ELSE {})
            BY OfMore DEF a
          <5> QED
            BY <4>1, <5>1
        <4> QED
          BY <1>3, <3>2, <4>2
      <3> QED
        BY <3>1, <3>2
    <2>3. Late(r, G) => Late(r, H)
      BY LateMore
    <2> HIDE DEF H
    <2>4. Ended(r, H)
      BY <1>9, <2>2 DEF Ended
    <2>5. Indexed(r, H)
      <3>1. CASE Late(r, G)
        BY <2>3, <3>1 DEF Indexed
      <3>2. CASE Of(G, "manifest", r) \subseteq {m} /\ Of(G, "index", r) \subseteq {Summary(m)}
        <4>1. Becomes(H, "manifest", r, manifest[r], m)
          BY <2>2, <3>2 DEF Becomes
        <4>2. Becomes(H, "index", r, index[r], Summary(m))
          BY <2>2, <3>2 DEF Becomes
        <4> QED
          BY <4>1, <4>2 DEF Indexed
      <3> QED
        BY <3>1, <3>2
    <2> QED
      BY <2>2, <2>4, <2>5 DEF ReadyDrop
  <1>10. Good(C, H) /\ All(C) \subseteq {c}
    <2>1. Ready(c, H)
      BY <1>9, ReadyPut
    <2>2. ((r \in active) # ~Terminal(m)) \in BOOLEAN
      OBVIOUS
    <2> QED
      BY <1>2, <2>1, <2>2, GoodWhen DEF Listed
  <1> HIDE DEF a, b, c, d, B, C
  <1>11. Good((<<a>> \o B) \o C, G) /\ All((<<a>> \o B) \o C) = All(<<a>> \o B) \cup All(C)
    BY <1>8, <1>10, GoodJoined
  <1>12. Ready(d, G \cup All((<<a>> \o B) \o C))
    BY ReadyPut DEF d
  <1>13. Good(<<d>>, G \cup All((<<a>> \o B) \o C)) /\ All(<<d>>) = {d}
    BY <1>2, <1>12, GoodOne
  <1> DEFINE P == ((<<a>> \o B) \o C) \o <<d>>
  <1>14. Good(P, G) /\ All(P) = All((<<a>> \o B) \o C) \cup All(<<d>>)
    BY <1>11, <1>13, GoodJoined
  <1>15. Persist(r, m) = P
    BY DEF Persist, a, B, C, d
  <1>16. All(P) \subseteq {a, b, c, d} /\ a \in All(P)
    BY <1>7, <1>8, <1>10, <1>11, <1>13, <1>14
  <1> QED
    BY <1>14, <1>15, <1>16 DEF Persists, a, b, c, d

-----------------------------------------------------------------------------
(* Manifests an operation may save.                                        *)
Proper(r, m) ==
    /\ manifest[r] # None /\ r \notin intent
    /\ m \in Manifests(r) /\ Backed(r, m, {}) /\ Retrievable(m)
    /\ Terminal(manifest[r]) => Terminal(m)
    /\ Late(r, {}) \/ r \in active \/ m.slots = manifest[r].slots

(* The slots of a manifest of a round.                                     *)
LEMMA SlotsAre ==
    ASSUME NEW r, NEW m \in Manifests(r)
    PROVE  /\ DOMAIN m.slots = SlotsOf(r) /\ m.jobs \subseteq SlotsOf(r)
           /\ \A s \in SlotsOf(r) : m.slots[s] \in Entry
           /\ Terminal(m) <=> \A s \in SlotsOf(r) : m.slots[s].state # "open"
           /\ Retrievable(m) <=> \A s \in SlotsOf(r) : m.slots[s].state = "open" => s \in m.jobs
  BY DEF Manifests, Terminal, Retrievable

(* What an operation sees of a round may be saved again.                   *)
LEMMA ViewProper ==
    ASSUME Sound, NEW r \in Rounds, Visible(r)
    PROVE  Proper(r, View(r))
  <1>1. r \notin intent
    BY DEF Visible, Sound, Types
  <1>2. CASE dirty[r] # None
    <2>1. View(r) = dirty[r] /\ dirty[r] \in Manifests(r)
      BY <1>2 DEF View, Sound, Types
    <2> QED
      BY <1>1, <1>2, <2>1 DEF Sound, SoundBatch, Proper
  <1>3. CASE dirty[r] = None
    <2>1. View(r) = manifest[r] /\ manifest[r] # None /\ manifest[r] \in Manifests(r)
      BY <1>3 DEF View, Visible, Sound, Types
    <2>2. Backed(r, manifest[r], {})
      BY <2>1 DEF Sound, SoundManifests
    <2>3. Retrievable(manifest[r])
      BY <2>1, SlotsAre DEF Sound, UnfinishedIsListed
    <2> QED
      BY <1>1, <2>1, <2>2, <2>3 DEF Proper
  <1> QED
    BY <1>2, <1>3

(* What get makes of every slot.                                           *)
LEMMA MergedIs ==
    ASSUME Sound, NEW r \in Rounds, Visible(r)
    PROVE  /\ Merged(r) \in Manifests(r) /\ Merged(r).jobs = View(r).jobs
           /\ \A s \in SlotsOf(r) :
                Merged(r).slots[s] =
                  IF measured[s] # None /\ Lags(r, View(r).slots[s], measured[s])
                  THEN [state |-> measured[s].state,
                        late |-> View(r).slots[s].late \/ measured[s].late]
                  ELSE View(r).slots[s]
  <1> DEFINE v == View(r)
             new == [s \in SlotsOf(r) |->
                       IF measured[s] # None /\ Lags(r, v.slots[s], measured[s])
                       THEN [state |-> measured[s].state, late |-> v.slots[s].late \/ measured[s].late]
                       ELSE v.slots[s]]
  <1>1. v \in Manifests(r)
    BY ViewProper DEF Proper
  <1>2. \A s \in SlotsOf(r) : measured[s] # None => measured[s] \in Measurement
    BY DEF Sound, Types, SlotsOf
  <1>3. Merged(r) = [v EXCEPT !.slots = new]
    BY DEF Merged
  <1> HIDE DEF v
  <1>4. new \in [SlotsOf(r) -> Entry]
    BY <1>1, <1>2, SlotsAre DEF Measurement, Entry
  <1>5. /\ \A s \in SlotsOf(r) :
             new[s] = IF measured[s] # None /\ Lags(r, v.slots[s], measured[s])
                      THEN [state |-> measured[s].state, late |-> v.slots[s].late \/ measured[s].late]
                      ELSE v.slots[s]
    OBVIOUS
  <1> HIDE DEF new
  <1>6. [v EXCEPT !.slots = new] \in Manifests(r) /\ [v EXCEPT !.slots = new].slots = new
        /\ [v EXCEPT !.slots = new].jobs = v.jobs
    BY <1>1, <1>4 DEF Manifests
  <1> QED
    BY <1>3, <1>5, <1>6 DEF v

(* So may what get recovers from the measurements.                         *)
LEMMA MergedProper ==
    ASSUME Sound, NEW r \in Rounds, Visible(r)
    PROVE  Proper(r, Merged(r))
  <1> DEFINE v == View(r)
             m == Merged(r)
  <1>1. Proper(r, v)
    BY ViewProper
  <1>2. /\ m \in Manifests(r) /\ m.jobs = v.jobs
        /\ \A s \in SlotsOf(r) :
             m.slots[s] = IF measured[s] # None /\ Lags(r, v.slots[s], measured[s])
                          THEN [state |-> measured[s].state, late |-> v.slots[s].late \/ measured[s].late]
                          ELSE v.slots[s]
    BY MergedIs
  <1>3. \A s \in SlotsOf(r) : measured[s] # None => measured[s].state # "open" /\ measured[s] \in Measurement
    BY DEF Sound, Types, SlotsOf, Measurement, Outcomes
  <1>4. \A what, where : Of({}, what, where) = {}
    BY OfNone
  <1> HIDE DEF v, m
  <1>11. ASSUME NEW s \in SlotsOf(r)
         PROVE  m.slots[s] = v.slots[s] \/ (measured[s] # None /\ m.slots[s].state = measured[s].state)
    <2> DEFINE e == [state |-> measured[s].state, late |-> v.slots[s].late \/ measured[s].late]
    <2>1. e.state = measured[s].state
      OBVIOUS
    <2>2. m.slots[s] = IF measured[s] # None /\ Lags(r, v.slots[s], measured[s]) THEN e ELSE v.slots[s]
      BY <1>2
    <2> HIDE DEF e
    <2> QED
      BY <2>1, <2>2
  <1>5. \A s \in SlotsOf(r) : m.slots[s].state = "open" => v.slots[s].state = "open" /\ m.slots[s] = v.slots[s]
    BY <1>3, <1>11
  <1>6. v \in Manifests(r) /\ m \in Manifests(r)
    BY <1>1, <1>2 DEF Proper
  <1>7. Backed(r, m, {})
    <2>1. ASSUME NEW s \in SlotsOf(r), m.slots[s].state # "open" PROVE Agrees(m.slots[s], measured[s])
      <3>1. CASE m.slots[s] = v.slots[s]
        BY <1>1, <1>4, <2>1, <3>1 DEF Proper, Backed
      <3>2. CASE m.slots[s] # v.slots[s]
        BY <1>11, <3>2 DEF Agrees
      <3> QED
        BY <3>1, <3>2
    <2> QED
      BY <1>4, <2>1 DEF Backed
  <1>8. Retrievable(m)
    BY <1>1, <1>2, <1>5, <1>6, SlotsAre DEF Proper
  <1>9. Terminal(v) => Terminal(m)
    BY <1>5, <1>6, SlotsAre
  <1>10. Late(r, {}) \/ r \in active \/ m.slots = manifest[r].slots
    <2>1. ASSUME ~Late(r, {}), r \notin active PROVE m.slots = v.slots
      <3>1. Terminal(manifest[r])
        BY <1>1, <2>1 DEF Sound, UnfinishedIsListed, Proper
      <3>2. \A s \in SlotsOf(r) : v.slots[s].state # "open"
        BY <1>1, <1>6, <3>1, SlotsAre DEF Proper
      <3>3. \A s \in SlotsOf(r) : measured[s] # None => ~measured[s].late
        BY <2>1 DEF Late
      <3>4. \A s \in SlotsOf(r) : m.slots[s] = v.slots[s]
        BY <1>2, <3>2, <3>3 DEF Lags
      <3>5. m.slots \in [SlotsOf(r) -> Entry] /\ v.slots \in [SlotsOf(r) -> Entry]
        BY <1>6 DEF Manifests
      <3> QED
        BY <3>4, <3>5
    <2> QED
      BY <1>1, <2>1 DEF Proper
  <1> QED
    BY <1>1, <1>6, <1>7, <1>8, <1>9, <1>10 DEF Proper, m

(* So may what get answers.                                                *)
LEMMA GetProper ==
    ASSUME Sound, NEW r \in Rounds, Visible(r)
    PROVE  Proper(r, Get(r))
  BY ViewProper, MergedProper DEF Get

(* Tidy drops jobs of closed slots only.                                   *)
LEMMA TidyIs ==
    ASSUME NEW r \in Rounds, NEW m \in Manifests(r), Retrievable(m)
    PROVE  Tidy(m) \in Manifests(r) /\ Tidy(m).slots = m.slots /\ Retrievable(Tidy(m))
  <1> DEFINE J == {s \in m.jobs : m.slots[s].state = "open"}
  <1>1. Tidy(m) = [m EXCEPT !.jobs = J]
    BY DEF Tidy
  <1>2. J \subseteq SlotsOf(r)
    BY SlotsAre
  <1>3. \A s \in SlotsOf(r) : m.slots[s].state = "open" => s \in J
    BY SlotsAre
  <1> HIDE DEF J
  <1>4. [m EXCEPT !.jobs = J] \in Manifests(r) /\ [m EXCEPT !.jobs = J].slots = m.slots
        /\ [m EXCEPT !.jobs = J].jobs = J
    BY <1>2 DEF Manifests
  <1> QED
    BY <1>1, <1>3, <1>4, SlotsAre

(* Backed depends on the slots only.                                       *)
LEMMA SlotsBack ==
    ASSUME NEW r, NEW m, NEW n, m.slots = n.slots, NEW G, Backed(r, m, G)
    PROVE  Backed(r, n, G)
  BY DEF Backed

(* A tidied manifest may be saved.                                         *)
LEMMA TidyProper ==
    ASSUME NEW r \in Rounds, NEW m, Proper(r, m)
    PROVE  Proper(r, Tidy(m))
  <1>1. Tidy(m) \in Manifests(r) /\ Tidy(m).slots = m.slots /\ Retrievable(Tidy(m))
    BY TidyIs DEF Proper
  <1>2. Backed(r, Tidy(m), {})
    BY <1>1, SlotsBack DEF Proper
  <1> QED
    BY <1>1, <1>2, SameSlots DEF Proper

-----------------------------------------------------------------------------
(* The first save of an operation.                                         *)
LEMMA ProperReady ==
    ASSUME Sound, NEW r \in Rounds, NEW m, Proper(r, m)
    PROVE  /\ m \in Manifests(r)
           /\ dirty[r] = None => ReadyManifest(r, m, {})
           /\ mode = "batch" => ReadyDirty(r, m, {})
           /\ \/ Late(r, {}) \/ r \in active
              \/ m.slots = manifest[r].slots /\ index[r] = Summary(m) /\ Terminal(manifest[r])
  <1>1. \A what, where : Of({}, what, where) = {}
    BY OfNone
  <1>2. ~Terminal(m) => ~Terminal(manifest[r]) /\ r \in active
    BY DEF Sound, UnfinishedIsListed, Proper
  <1>3. Untouched(r, {}) /\ (StaysListed(r, {}) <=> r \in active)
    BY <1>1 DEF Untouched, StaysListed, Dropped, Proper
  <1>4. ReadyState(r, m, {})
    BY <1>1, <1>2, <1>3 DEF ReadyState, Proper
  <1>5. \/ Late(r, {}) \/ r \in active
        \/ m.slots = manifest[r].slots /\ index[r] = Summary(m) /\ Terminal(manifest[r])
    <2>1. ASSUME ~Late(r, {}), r \notin active
          PROVE  m.slots = manifest[r].slots /\ index[r] = Summary(m) /\ Terminal(manifest[r])
      <3>1. \A s \in SlotsOf(r) : measured[s] = None \/ ~measured[s].late
        BY <2>1 DEF Late
      <3>2. index[r] = Summary(manifest[r])
        BY <2>1, <3>1 DEF Sound, SettledIsIndexed, Proper
      <3> QED
        BY <2>1, <3>2, SameSlots DEF Proper, Sound, UnfinishedIsListed
    <2> QED
      BY <2>1
  <1>6. Late(r, {}) \/ r \in active \/ Becomes({}, "index", r, index[r], Summary(m))
    BY <1>1, <1>5 DEF Becomes
  <1>7. dirty[r] = None => ReadyManifest(r, m, {})
    BY <1>1, <1>3, <1>4, <1>6 DEF ReadyManifest
  <1>8. mode = "batch" => ReadyDirty(r, m, {})
    BY <1>1, <1>3, <1>4, <1>5 DEF ReadyDirty, Proper
  <1> QED
    BY <1>5, <1>7, <1>8 DEF Proper

Saves(r, m) == {Put("dirty", r, Tidy(m))} \cup Persists(r, Tidy(m))

(* save is in order, in a batch and outside.                               *)
LEMMA SaveGood ==
    ASSUME Sound, mode \in {"single", "batch"}, NEW r \in Rounds, NEW m, Proper(r, m)
    PROVE  /\ Good(Save(r, m), {}) /\ All(Save(r, m)) \subseteq Saves(r, m)
           /\ mode = "single" => /\ Put("manifest", r, Tidy(m)) \in All(Save(r, m))
                                 /\ All(Save(r, m)) \subseteq Persists(r, Tidy(m))
           /\ mode = "batch" => All(Save(r, m)) = {Put("dirty", r, Tidy(m)), Put("trusted", r, TRUE)}
  <1> DEFINE n == Tidy(m)
  <1>1. Proper(r, n)
    BY TidyProper
  <1>2. n \in Manifests(r)
    BY <1>1 DEF Proper
  <1> HIDE DEF n
  <1>3. CASE mode = "batch"
    <2>1. Put("dirty", r, n) \in Writes /\ Put("trusted", r, TRUE) \in Writes
      BY <1>2, ManifestTyped, KindsOfWrites
    <2>2. Ready(Put("dirty", r, n), {})
      BY <1>1, <1>3, ProperReady, ReadyPut
    <2>3. Ready(Put("trusted", r, TRUE), {} \cup {Put("dirty", r, n)})
      BY ReadyPut
    <2>4. Good(<<Put("dirty", r, n), Put("trusted", r, TRUE)>>, {})
          /\ All(<<Put("dirty", r, n), Put("trusted", r, TRUE)>>) = {Put("dirty", r, n), Put("trusted", r, TRUE)}
      BY <2>1, <2>2, <2>3, GoodTwo
    <2>5. Save(r, m) = <<Put("dirty", r, n), Put("trusted", r, TRUE)>>
      BY <1>3 DEF Save, n
    <2> QED
      BY <1>3, <2>4, <2>5 DEF Saves, Persists, n
  <1>4. CASE mode = "single"
    <2>1. dirty[r] = None
      BY <1>4 DEF Sound, SoundBatch
    <2>2. ReadyManifest(r, n, {})
      BY <1>1, <2>1, ProperReady
    <2>3. Of({}, "manifest", r) \subseteq {n} /\ Of({}, "index", r) \subseteq {Summary(n)}
      BY OfNone
    <2>4. Good(Persist(r, n), {}) /\ All(Persist(r, n)) \subseteq Persists(r, n)
          /\ Put("manifest", r, n) \in All(Persist(r, n))
      BY <1>2, <2>1, <2>2, <2>3, PersistGood
    <2>5. Save(r, m) = Persist(r, n)
      BY <1>4 DEF Save, n
    <2> QED
      BY <1>4, <2>4, <2>5 DEF Saves, n
  <1> QED
    BY <1>3, <1>4

(* The writes of get are in order.                                         *)
LEMMA GetGood ==
    ASSUME Sound, mode \in {"single", "batch"}, NEW r \in Rounds, Visible(r)
    PROVE  /\ Good(GetWrites(r), {}) /\ All(GetWrites(r)) \subseteq Saves(r, Get(r))
           /\ mode = "single" => All(GetWrites(r)) \subseteq Persists(r, Tidy(Get(r)))
           /\ mode = "batch" =>
                All(GetWrites(r)) \subseteq {Put("dirty", r, Tidy(Get(r))), Put("trusted", r, TRUE)}
  <1>1. Proper(r, Get(r))
    BY GetProper
  <1>2. CASE Get(r) # View(r)
    BY <1>1, <1>2, SaveGood DEF GetWrites
  <1>3. CASE Get(r) = View(r)
    <2>1. Put("trusted", r, TRUE) \in Writes /\ Ready(Put("trusted", r, TRUE), {})
      BY KindsOfWrites, ReadyPut
    <2>2. Good(<<Put("trusted", r, TRUE)>>, {})
          /\ All(<<Put("trusted", r, TRUE)>>) = {Put("trusted", r, TRUE)}
      BY <2>1, GoodOne
    <2> QED
      BY <1>3, <2>2 DEF GetWrites, Saves, Persists
  <1> QED
    BY <1>2, <1>3

-----------------------------------------------------------------------------
(* Writes of other kinds write nothing of this kind.                       *)
LEMMA OfKinds ==
    ASSUME NEW D, NEW what, NEW where, \A w \in D : w.what # what
    PROVE  Of(D, what, where) = {}
  BY DEF Of

(* Without intent and rename a round stays untouched.                      *)
LEMMA QuietUntouched ==
    ASSUME NEW r, NEW D, r \notin intent, \A w \in D : w.what \notin {"intent", "bury"}
    PROVE  Untouched(r, D)
  <1>1. Of(D, "intent", r) = {} /\ Of(D, "bury", r) = {}
    BY OfKinds
  <1> QED
    BY <1>1 DEF Untouched

(* The kinds of the writes of persist.                                     *)
LEMMA PersistsKinds ==
    ASSUME NEW r, NEW m, NEW w \in Persists(r, m)
    PROVE  /\ w.where = r /\ w.what \in {"manifest", "index", "active", "trusted"}
           /\ w.what = "manifest" => w.value = m
           /\ w.what = "index" => w.value = Summary(m)
           /\ w.what = "active" => (w.value <=> ~Terminal(m))
  <1>1. CASE w = Put("manifest", r, m)
    BY <1>1, PutIs
  <1>2. CASE w = Put("index", r, Summary(m))
    BY <1>2, PutIs
  <1>3. CASE w = Put("active", r, ~Terminal(m))
    <2>1. w.what = "active" /\ w.where = r /\ w.value = ~Terminal(m)
      BY <1>3 DEF Put
    <2> QED
      BY <2>1
  <1>4. CASE w = Put("trusted", r, TRUE)
    <2>1. w.what = "trusted" /\ w.where = r
      BY <1>4 DEF Put
    <2> QED
      BY <2>1
  <1> QED
    BY <1>1, <1>2, <1>3, <1>4 DEF Persists

-----------------------------------------------------------------------------
(* The writes of create are in order.                                      *)
LEMMA CreateGood ==
    ASSUME Sound, NEW r \in Rounds, Create(r)
    PROVE  Good(CreateWrites(r), {})
  <1> DEFINE m == NewManifest(r)
             a == Put("active", r, TRUE)
             L == Listed(r, TRUE)
             G == All(L)
  <1>1. mode = "single" /\ r \notin intent /\ manifest[r] = None /\ dirty[r] = None
    BY DEF Create, Refused, Sound, Types, SoundBatch
  <1>2. m \in Manifests(r) /\ \A s \in SlotsOf(r) : m.slots[s].state = "open" /\ s \in m.jobs
    BY DEF NewManifest, Manifests, Open, Entry
  <1>3. a \in Writes /\ Ready(a, {})
    BY KindsOfWrites, ReadyPut
  <1>4. Good(L, {}) /\ All(L) = IF r \notin active THEN {a} ELSE {}
    <2>1. ((r \in active) # TRUE) \in BOOLEAN /\ ((r \in active) # TRUE <=> r \notin active)
      OBVIOUS
    <2>2. L = When((r \in active) # TRUE, <<a>>)
      BY DEF Listed
    <2> HIDE DEF a, L
    <2> QED
      BY <1>3, <2>1, <2>2, GoodWhen
  <1>5. \A x, y : Of(G, x, y) = IF r \notin active /\ x = "active" /\ y = r THEN {TRUE} ELSE {}
    <2>1. CASE r \in active
      <3>1. G = {}
        BY <1>4, <2>1
      <3> HIDE DEF G
      <3> QED
        BY <2>1, <3>1, OfNone
    <2>2. CASE r \notin active
      <3>1. G = {a}
        BY <1>4, <2>2
      <3>2. \A x, y : Of({a}, x, y) = IF "active" = x /\ r = y THEN {TRUE} ELSE {}
        BY OfPut
      <3> HIDE DEF G
      <3> QED
        BY <2>2, <3>1, <3>2
    <2> QED
      BY <2>1, <2>2
  <1> HIDE DEF m, a, L, G
  <1>6. StaysListed(r, G) /\ Untouched(r, G) /\ Of(G, "manifest", r) = {} /\ Of(G, "index", r) = {}
        /\ Of(G, "dirty", r) = {}
    <2>1. /\ Of(G, "manifest", r) = {} /\ Of(G, "index", r) = {} /\ Of(G, "dirty", r) = {}
          /\ Of(G, "intent", r) = {} /\ Of(G, "bury", r) = {} /\ Of(G, "inactive", None) = {}
      BY <1>5
    <2>2. Of(G, "active", r) = IF r \notin active THEN {TRUE} ELSE {}
      BY <1>5
    <2>3. StaysListed(r, G)
      BY <2>1, <2>2 DEF StaysListed, Dropped
    <2> QED
      BY <1>1, <2>1, <2>3 DEF Untouched
  <1>7. Backed(r, m, G) /\ Retrievable(m)
    BY <1>2, SlotsAre DEF Backed
  <1>8. ReadyManifest(r, m, G)
    BY <1>1, <1>2, <1>6, <1>7 DEF ReadyManifest, ReadyState
  <1>9. Good(Persist(r, m), G)
    BY <1>1, <1>2, <1>6, <1>8, PersistGood
  <1>10. {} \cup All(L) = G
    BY DEF G
  <1>11. Good(L \o Persist(r, m), {})
    BY <1>4, <1>9, <1>10, GoodJoined
  <1> QED
    BY <1>11 DEF CreateWrites, L, m

(* Those of a reader who wants the details are.                            *)
LEMMA ReadGood ==
    ASSUME Sound, NEW r \in Rounds, Read(r)
    PROVE  Good(IF Merged(r) # View(r) THEN Save(r, Merged(r)) ELSE <<Put("trusted", r, TRUE)>>, {})
  <1>1. mode = "single" /\ Visible(r)
    BY DEF Read
  <1>2. Good(Save(r, Merged(r)), {})
    BY <1>1, MergedProper, SaveGood
  <1>3. Good(<<Put("trusted", r, TRUE)>>, {})
    <2>1. Put("trusted", r, TRUE) \in Writes /\ Ready(Put("trusted", r, TRUE), {})
      BY KindsOfWrites, ReadyPut
    <2> QED
      BY <2>1, GoodOne
  <1> QED
    BY <1>2, <1>3

(* Those of progress are.                                                  *)
LEMMA ProgressGood ==
    ASSUME Sound, NEW s \in Slots, Progress(s)
    PROVE  Good(Save(RoundOf[s], Get(RoundOf[s])), {})
  <1>1. RoundOf[s] \in Rounds /\ mode \in {"single", "batch"} /\ Visible(RoundOf[s])
    BY StoreConstants DEF Progress
  <1> QED
    BY <1>1, GetProper, SaveGood

(* Those of the recovery of a listed round are.                            *)
LEMMA ScanGood ==
    ASSUME Sound, NEW r \in Rounds, Scan(r)
    PROVE  Good(When(r \in active, ScanWrites(r)) \o <<Put("unscanned", r, FALSE)>>, {})
  <1>1. mode = "single" /\ dirty[r] = None
    BY DEF Scan, Sound, SoundBatch
  <1>2. Good(ScanWrites(r), {})
    <2>1. CASE Visible(r)
      <3>1. Good(Save(r, Get(r)), {})
        BY <1>1, <2>1, GetProper, SaveGood
      <3>2. Save(r, Get(r)) = Persist(r, Tidy(Get(r)))
        BY <1>1 DEF Save
      <3> QED
        BY <2>1, <3>1, <3>2 DEF ScanWrites
    <2>2. CASE ~Visible(r)
      <3>1. \A x, y : Of({}, x, y) = {}
        BY OfNone
      <3>2. manifest[r] = None \/ (r \in intent /\ Terminal(manifest[r]))
        BY <1>1, <2>2 DEF Visible, View, Sound, DeletionIsWhole
      <3>3. Ended(r, {})
        BY <3>1, <3>2 DEF Ended
      <3>4. Indexed(r, {})
        BY <3>1, <3>2 DEF Indexed, Intended, Exists
      <3>5. ReadyDrop(r, {})
        BY <1>1, <3>1, <3>3, <3>4 DEF ReadyDrop
      <3>6. Ready(Put("active", r, FALSE), {}) /\ Put("active", r, FALSE) \in Writes
        BY <3>5, KindsOfWrites, ReadyPut
      <3>7. Good(<<Put("active", r, FALSE)>>, {})
        BY <3>6, GoodOne
      <3> QED
        BY <2>2, <3>7 DEF ScanWrites
    <2> QED
      BY <2>1, <2>2
  <1> DEFINE A == When(r \in active, ScanWrites(r))
             u == Put("unscanned", r, FALSE)
  <1>3. Good(A, {})
    BY <1>2, GoodNone DEF When
  <1>4. u \in Writes /\ Ready(u, {} \cup All(A))
    BY KindsOfWrites, ReadyPut
  <1> HIDE DEF A, u
  <1>5. Good(<<u>>, {} \cup All(A))
    BY <1>4, GoodOne
  <1>6. Good(A \o <<u>>, {})
    BY <1>3, <1>5, GoodJoined
  <1> QED
    BY <1>6 DEF A, u

-----------------------------------------------------------------------------
(* A manifest with one slot changed.                                       *)
LEMMA ChangedIs ==
    ASSUME NEW r, NEW m \in Manifests(r), NEW s \in SlotsOf(r), NEW e \in Entry
    PROVE  LET n == [m EXCEPT !.slots[s] = e] IN
           /\ n \in Manifests(r) /\ n.jobs = m.jobs /\ n.slots[s] = e
           /\ \A t \in SlotsOf(r) : t # s => n.slots[t] = m.slots[t]
  BY DEF Manifests

(* A slot with its state changed.                                          *)
LEMMA StateChanged ==
    ASSUME NEW r, NEW m \in Manifests(r), NEW s \in SlotsOf(r), NEW x \in Outcomes
    PROVE  /\ [m.slots[s] EXCEPT !.state = x] \in Entry
           /\ [m.slots[s] EXCEPT !.state = x].state = x
           /\ [m EXCEPT !.slots[s].state = x] = [m EXCEPT !.slots[s] = [m.slots[s] EXCEPT !.state = x]]
  <1>1. m.slots[s] \in Entry
    BY DEF Manifests
  <1>2. /\ [m.slots[s] EXCEPT !.state = x] \in Entry
        /\ [m.slots[s] EXCEPT !.state = x].state = x
    BY <1>1 DEF Entry
  <1> QED
    BY <1>2

(* A manifest with one slot closed may be saved once the slot has its      *)
(* measurement.                                                            *)
LEMMA ChangedReady ==
    ASSUME Sound, NEW r \in Rounds, NEW m, Proper(r, m),
           NEW s \in SlotsOf(r), NEW e \in Entry, e.state # "open", NEW G, Untouched(r, G),
           \A t \in SlotsOf(r) : t # s => Of(G, "measurement", t) = {},
           Agrees(e, measured[s]) \/ Of(G, "measurement", s) # {},
           \A v \in Of(G, "measurement", s) : Agrees(e, v),
           \A x \in Of(G, "manifest", r) : Terminal(x) => Terminal(m),
           Of(G, "inactive", None) = {}, FALSE \in Of(G, "active", r) => Terminal(m)
    PROVE  LET n == Tidy([m EXCEPT !.slots[s] = e]) IN
           /\ n \in Manifests(r) /\ n.slots = [m EXCEPT !.slots[s] = e].slots
           /\ ReadyState(r, n, G)
  <1> DEFINE c == [m EXCEPT !.slots[s] = e]
             n == Tidy(c)
  <1>1. m \in Manifests(r) /\ Retrievable(m) /\ Backed(r, m, {})
    BY DEF Proper
  <1>2. /\ c \in Manifests(r) /\ c.jobs = m.jobs /\ c.slots[s] = e
        /\ \A t \in SlotsOf(r) : t # s => c.slots[t] = m.slots[t]
    BY <1>1, ChangedIs
  <1> HIDE DEF c
  <1>3. Retrievable(c)
    BY <1>1, <1>2, SlotsAre
  <1>4. n \in Manifests(r) /\ n.slots = c.slots /\ Retrievable(n)
    BY <1>2, <1>3, TidyIs
  <1>5. \A x, y : Of({}, x, y) = {}
    BY OfNone
  <1>6. Backed(r, c, G)
    <2>1. ASSUME NEW t \in SlotsOf(r), c.slots[t].state # "open"
          PROVE  /\ Agrees(c.slots[t], measured[t]) \/ Of(G, "measurement", t) # {}
                 /\ \A v \in Of(G, "measurement", t) : Agrees(c.slots[t], v)
      <3>1. CASE t = s
        BY <1>2, <3>1
      <3>2. CASE t # s
        BY <1>1, <1>2, <1>5, <2>1, <3>2 DEF Backed
      <3> QED
        BY <3>1, <3>2
    <2> QED
      BY <2>1 DEF Backed
  <1>7. Backed(r, n, G)
    BY <1>4, <1>6, SlotsBack
  <1>8. ASSUME ~Terminal(n)
        PROVE  /\ StaysListed(r, G)
               /\ manifest[r] # None => ~Terminal(manifest[r])
               /\ \A x \in Of(G, "manifest", r) : ~Terminal(x)
    <2>1. ~Terminal(c)
      BY <1>4, <1>8, SameSlots
    <2>2. ~Terminal(m)
      BY <1>1, <1>2, <2>1, SlotsAre
    <2>3. ~Terminal(manifest[r]) /\ r \in active
      BY <2>2 DEF Sound, UnfinishedIsListed, Proper
    <2> QED
      BY <2>2, <2>3 DEF StaysListed, Dropped
  <1> QED
    BY <1>4, <1>7, <1>8 DEF ReadyState, c

(* What the writes of persist write.                                       *)
LEMMA PersistsOf ==
    ASSUME NEW r, NEW m, NEW G, G \subseteq Persists(r, m)
    PROVE  /\ \A x \in Of(G, "manifest", r) : x = m
           /\ \A x \in Of(G, "index", r) : x = Summary(m)
           /\ \A what, y : what \notin {"manifest", "index", "active", "trusted"} => Of(G, what, y) = {}
           /\ FALSE \in Of(G, "active", r) => Terminal(m)
  <1>1. \A w \in G : /\ w.where = r /\ w.what \in {"manifest", "index", "active", "trusted"}
                     /\ w.what = "manifest" => w.value = m
                     /\ w.what = "index" => w.value = Summary(m)
                     /\ w.what = "active" => (w.value <=> ~Terminal(m))
    BY PersistsKinds
  <1>2. \A x \in Of(G, "manifest", r) : x = m
    BY <1>1 DEF Of
  <1>3. \A x \in Of(G, "index", r) : x = Summary(m)
    BY <1>1 DEF Of
  <1>4. \A what, y : what \notin {"manifest", "index", "active", "trusted"} => Of(G, what, y) = {}
    BY <1>1 DEF Of
  <1>5. FALSE \in Of(G, "active", r) => Terminal(m)
    BY <1>1 DEF Of
  <1> QED
    BY <1>2, <1>3, <1>4, <1>5

-----------------------------------------------------------------------------
(* Results past the queue.                                                 *)
LateResult(state) == [state |-> state, expired |-> FALSE, late |-> TRUE, url |-> FALSE]

(* A result whose job has left the queue has its receipts.                 *)
LEMMA PastQueue ==
    ASSUME Sound, NEW s \in Slots, s \notin queued, measured[s] # None, measured[s].state # "missing"
    PROVE  Receipted(s)
  BY DEF Sound, AnswerSurvives, Receipted

(* get and a new measurement past the queue are in order.                  *)
LEMMA NewMeasurement ==
    ASSUME Sound, mode = "single", NEW s \in Slots, Visible(RoundOf[s]), s \notin queued,
           measured[s] # None, measured[s].state # "missing",
           NEW v \in Measurement, Honest(s, v), Follows(s, v)
    PROVE  LET r == RoundOf[s]
               t == GetWrites(r) \o <<Put("measurement", s, v)>>
           IN /\ Good(t, {}) /\ All(t) = All(GetWrites(r)) \cup {Put("measurement", s, v)}
              /\ All(GetWrites(r)) \subseteq Persists(r, Tidy(Get(r)))
  <1> DEFINE r == RoundOf[s]
             A == GetWrites(r)
             n == Tidy(Get(r))
             w == Put("measurement", s, v)
             G == {} \cup All(A)
  <1>1. r \in Rounds /\ w \in Writes
    BY StoreConstants, KindsOfWrites
  <1>2. Good(A, {}) /\ All(A) \subseteq Persists(r, n)
    BY <1>1, GetGood
  <1>3. manifest[r] # None /\ r \notin intent
    BY <1>1, GetProper DEF Proper
  <1> HIDE DEF A, n, w, r
  <1>4. \A what, y : what \notin {"manifest", "index", "active", "trusted"} => Of(G, what, y) = {}
    BY <1>2, PersistsOf
  <1> HIDE DEF G
  <1>5. Of(G, "measurement", s) = {} /\ Of(G, "intent", r) = {} /\ Of(G, "bury", r) = {}
    BY <1>4
  <1>6. ReadyMeasurement(s, v, G)
    BY <1>3, <1>5, PastQueue DEF ReadyMeasurement, Untouched, r
  <1>7. Good(<<w>>, G) /\ All(<<w>>) = {w}
    BY <1>1, <1>6, ReadyPut, GoodOne DEF w
  <1>8. Good(A \o <<w>>, {}) /\ All(A \o <<w>>) = All(A) \cup {w}
    BY <1>2, <1>7, GoodJoined DEF G
  <1> QED
    BY <1>2, <1>8 DEF A, w, r, n

(* The writes of updateFullReportUrl are in order.                         *)
LEMMA AddUrlGood ==
    ASSUME Sound, NEW s \in Slots, AddUrl(s)
    PROVE  Good(GetWrites(RoundOf[s]) \o <<Put("measurement", s, [measured[s] EXCEPT !.url = TRUE])>>, {})
  <1> DEFINE v == [measured[s] EXCEPT !.url = TRUE]
  <1>1. /\ mode = "single" /\ s \notin queued /\ RoundOf[s] \in Full /\ Visible(RoundOf[s])
        /\ measured[s] # None /\ measured[s].state = "partial"
    BY DEF AddUrl
  <1>2. measured[s] \in Measurement
    BY <1>1 DEF Sound, Types
  <1>3. v \in Measurement /\ v.state = "partial" /\ v.expired = measured[s].expired
    BY <1>1, <1>2 DEF Measurement
  <1>4. ~measured[s].expired
    BY <1>1 DEF Sound, SoundMeasurements, Honest
  <1>5. Honest(s, v)
    BY <1>3, <1>4 DEF Honest
  <1>6. Follows(s, v)
    BY <1>1 DEF Follows
  <1> HIDE DEF v
  <1>7. Good(GetWrites(RoundOf[s]) \o <<Put("measurement", s, v)>>, {})
    BY <1>1, <1>3, <1>5, <1>6, NewMeasurement
  <1> QED
    BY <1>7 DEF v

(* The writes of acceptLateFull are in order.                              *)
LEMMA LateFullGood ==
    ASSUME Sound, NEW s \in Slots, NEW state \in {"ok", "partial", "failed"}, LateFull(s, state)
    PROVE  LET r == RoundOf[s] IN
           Good(GetWrites(r) \o <<Put("measurement", s, LateResult(state))>>
                \o Save(r, [Get(r) EXCEPT !.slots[s] = [state |-> state, late |-> TRUE]]), {})
  <1> DEFINE r == RoundOf[s]
             v == LateResult(state)
             e == [state |-> state, late |-> TRUE]
             A == GetWrites(r) \o <<Put("measurement", s, v)>>
             m == Get(r)
             n == Tidy([m EXCEPT !.slots[s] = e])
             G == {} \cup All(A)
  <1>1. /\ mode = "single" /\ s \notin queued /\ r \in Full /\ Visible(r)
        /\ measured[s] # None /\ measured[s].expired
    BY DEF LateFull, Replaceable
  <1>2. r \in Rounds /\ s \in SlotsOf(r)
    BY StoreConstants DEF SlotsOf
  <1>3. v \in Measurement /\ v.late /\ ~v.expired /\ ~v.url /\ v.state = state
    BY DEF LateResult, Measurement, Outcomes
  <1>4. e \in Entry /\ e.state # "open"
    BY DEF Entry, Outcomes
  <1>5. measured[s].state = "failed"
    BY <1>1 DEF Sound, SoundMeasurements, Honest
  <1>6. Honest(s, v) /\ Follows(s, v)
    BY <1>1, <1>3 DEF Honest, Follows
  <1>7. /\ Good(A, {}) /\ All(A) = All(GetWrites(r)) \cup {Put("measurement", s, v)}
        /\ All(GetWrites(r)) \subseteq Persists(r, Tidy(m))
    BY <1>1, <1>3, <1>5, <1>6, NewMeasurement
  <1>8. Proper(r, m) /\ dirty[r] = None
    BY <1>1, <1>2, GetProper DEF Sound, SoundBatch
  <1>9. Terminal(Tidy(m)) <=> Terminal(m)
    BY <1>2, <1>8, TidyIs, SameSlots DEF Proper
  <1> HIDE DEF A, m, r, v, e
  <1>10. /\ \A x \in Of(All(GetWrites(r)), "manifest", r) : x = Tidy(m)
         /\ \A what, y : what \notin {"manifest", "index", "active", "trusted"} =>
              Of(All(GetWrites(r)), what, y) = {}
         /\ FALSE \in Of(All(GetWrites(r)), "active", r) => Terminal(Tidy(m))
    BY <1>7, PersistsOf
  <1>11. \A what, y : Of(G, what, y) = Of(All(GetWrites(r)), what, y)
                                       \cup (IF "measurement" = what /\ s = y THEN {v} ELSE {})
    <2>1. G = All(GetWrites(r)) \cup {Put("measurement", s, v)}
      BY <1>7
    <2> HIDE DEF G
    <2> QED
      BY <2>1, OfMore
  <1> HIDE DEF G
  <1>12. /\ Of(G, "intent", r) = {} /\ Of(G, "bury", r) = {} /\ Of(G, "inactive", None) = {}
         /\ Of(G, "dirty", r) = {} /\ Of(G, "measurement", s) = {v}
         /\ \A t : t # s => Of(G, "measurement", t) = {}
    BY <1>10, <1>11
  <1>13. Of(G, "manifest", r) = Of(All(GetWrites(r)), "manifest", r)
         /\ Of(G, "active", r) = Of(All(GetWrites(r)), "active", r)
    <2>1. Of(G, "manifest", r) = Of(All(GetWrites(r)), "manifest", r) \cup {}
      BY <1>11
    <2>2. Of(G, "active", r) = Of(All(GetWrites(r)), "active", r) \cup {}
      BY <1>11
    <2> QED
      BY <2>1, <2>2
  <1>14. Untouched(r, G)
    BY <1>8, <1>12 DEF Untouched, Proper
  <1>15. Agrees(e, v)
    BY <1>3, StoreConstants DEF Agrees
  <1>16. n \in Manifests(r) /\ ReadyState(r, n, G)
    BY <1>2, <1>4, <1>8, <1>9, <1>10, <1>12, <1>13, <1>14, <1>15, ChangedReady
  <1>17. Late(r, G)
    BY <1>2, <1>3, <1>12 DEF Late
  <1>18. ReadyManifest(r, n, G)
    BY <1>8, <1>12, <1>16, <1>17 DEF ReadyManifest
  <1>19. Good(Persist(r, n), G)
    BY <1>2, <1>8, <1>16, <1>17, <1>18, PersistGood
  <1>20. Good(A \o Persist(r, n), {})
    BY <1>7, <1>19, GoodJoined DEF G
  <1>21. Save(r, [m EXCEPT !.slots[s] = e]) = Persist(r, n)
    BY <1>1 DEF Save
  <1> QED
    BY <1>20, <1>21 DEF A, m, r, v, e

-----------------------------------------------------------------------------
(* complete.                                                               *)
Completes(r, x, n, s, k) ==
    {Put("dirty", r, x), Put("dirty", r, n), Put("trusted", r, TRUE), Put("measurement", s, k),
     Put("receipt", <<s, day>>, TRUE), Put("fullReceipt", s, day)}

(* A write of a set writes its value.                                      *)
LEMMA OfHas ==
    ASSUME NEW G, NEW x, NEW y, NEW z, Put(x, y, z) \in G
    PROVE  z \in Of(G, x, y)
  <1>1. PICK w \in G : w = Put(x, y, z)
    OBVIOUS
  <1>2. w.what = x /\ w.where = y /\ w.value = z
    BY <1>1, PutIs
  <1> QED
    BY <1>2, OfMember

(* What the writes G of complete write: measurement k and receipts of s.     *)
CompletesWrite(G, s, k) ==
    /\ \A y : /\ Of(G, "intent", y) = {}
              /\ Of(G, "bury", y) = {}
              /\ Of(G, "close", y) = {}
              /\ Of(G, "manifest", y) = {}
              /\ Of(G, "active", y) = {}
              /\ Of(G, "inactive", y) = {}
              /\ Of(G, "index", y) = {}
              /\ Of(G, "settled", y) = {}
    /\ \A y : y # s => Of(G, "measurement", y) = {}
    /\ Of(G, "measurement", s) \subseteq {k}
    /\ Put("measurement", s, k) \notin G => Of(G, "measurement", s) = {}
    /\ Put("measurement", s, k) \in G => Of(G, "measurement", s) # {}
    /\ FALSE \notin Of(G, "receipt", <<s, day>>) /\ Of(G, "fullReceipt", s) \subseteq {day}
    /\ Put("receipt", <<s, day>>, TRUE) \in G => TRUE \in Of(G, "receipt", <<s, day>>)
    /\ Put("fullReceipt", s, day) \in G => day \in Of(G, "fullReceipt", s)

(* What the writes of complete write.                                      *)
LEMMA CompletesOf ==
    ASSUME NEW r, NEW x, NEW n, NEW s, NEW k, NEW G, G \subseteq Completes(r, x, n, s, k)
    PROVE  CompletesWrite(G, s, k)
  <1>1. ASSUME NEW w \in G
        PROVE  /\ w.what \in {"dirty", "trusted", "measurement", "receipt", "fullReceipt"}
               /\ w.what = "measurement" => w = Put("measurement", s, k) /\ w.where = s /\ w.value = k
               /\ w.what = "receipt" => w.value # FALSE
               /\ w.what = "fullReceipt" => w.value = day
    <2>1. CASE w = Put("dirty", r, x) \/ w = Put("dirty", r, n)
      <3>1. w.what = "dirty"
        BY <2>1 DEF Put
      <3> QED
        BY <3>1
    <2>2. CASE w = Put("trusted", r, TRUE)
      BY <2>2 DEF Put
    <2>3. CASE w = Put("measurement", s, k)
      BY <2>3 DEF Put
    <2>4. CASE w = Put("receipt", <<s, day>>, TRUE)
      BY <2>4 DEF Put
    <2>5. CASE w = Put("fullReceipt", s, day)
      BY <2>5 DEF Put
    <2> QED
      BY <2>1, <2>2, <2>3, <2>4, <2>5 DEF Completes
  <1>2. \A y : /\ Of(G, "intent", y) = {}
              /\ Of(G, "bury", y) = {}
              /\ Of(G, "close", y) = {}
              /\ Of(G, "manifest", y) = {}
              /\ Of(G, "active", y) = {}
              /\ Of(G, "inactive", y) = {}
              /\ Of(G, "index", y) = {}
              /\ Of(G, "settled", y) = {}
    BY <1>1 DEF Of
  <1>3. \A y : y # s => Of(G, "measurement", y) = {}
    BY <1>1 DEF Of
  <1>4. Of(G, "measurement", s) \subseteq {k}
    BY <1>1 DEF Of
  <1>5. Put("measurement", s, k) \notin G => Of(G, "measurement", s) = {}
    BY <1>1 DEF Of
  <1>6. Put("measurement", s, k) \in G => Of(G, "measurement", s) # {}
    BY OfHas
  <1>7. FALSE \notin Of(G, "receipt", <<s, day>>) /\ Of(G, "fullReceipt", s) \subseteq {day}
    BY <1>1 DEF Of
  <1>8. Put("receipt", <<s, day>>, TRUE) \in G => TRUE \in Of(G, "receipt", <<s, day>>)
    BY OfHas
  <1>9. Put("fullReceipt", s, day) \in G => day \in Of(G, "fullReceipt", s)
    BY OfHas
  <1> QED
    BY <1>2, <1>3, <1>4, <1>5, <1>6, <1>7, <1>8, <1>9 DEF CompletesWrite

(* complete keeps what is measured, and else has a new honest result.      *)
LEMMA KeptIs ==
    ASSUME Sound, NEW s \in Slots, NEW state \in Outcomes, NEW expired \in BOOLEAN,
           expired => RoundOf[s] \in Full /\ state = "failed"
    PROVE  LET res == Result(state, expired)
               k == Kept(s, res)
           IN /\ k \in Measurement /\ k.state \in Outcomes /\ k.state # "open"
              /\ measured[s] # None => k = measured[s]
              /\ measured[s] = None => /\ k = res /\ k.state = state
                                       /\ measured[s] # k /\ Honest(s, k) /\ Follows(s, k)
  <1> DEFINE res == Result(state, expired)
             k == Kept(s, res)
  <1>1. res \in Measurement /\ res.state = state /\ res.expired = expired /\ ~res.late /\ ~res.url
    BY DEF Result, Measurement
  <1> HIDE DEF res
  <1>2. CASE measured[s] # None
    <2>1. k = measured[s] /\ k \in Measurement
      BY <1>2 DEF Kept, Sound, Types
    <2> QED
      BY <1>2, <2>1 DEF Measurement, Outcomes, res
  <1>3. CASE measured[s] = None
    <2>1. k = res /\ measured[s] # res
      BY <1>1, <1>3, StoreConstants DEF Kept
    <2>2. Honest(s, res) /\ Follows(s, res)
      BY <1>1, <1>3 DEF Honest, Follows
    <2>3. state # "open"
      BY DEF Outcomes
    <2> HIDE DEF k
    <2> QED
      BY <1>1, <1>3, <2>1, <2>2, <2>3 DEF k, res
  <1> QED
    BY <1>2, <1>3 DEF res

(* A job that complete records without an entry of the queue has no full    *)
(* receipt yet.                                                             *)
LEMMA CompletesDate ==
    ASSUME Sound, NEW s \in Slots, Visible(RoundOf[s]), s \notin settled,
           s \in queued \/ Merged(RoundOf[s]).slots[s].state = "open"
    PROVE  Waits(s) \/ fullReceipt[s] = None
  <1> DEFINE r == RoundOf[s]
  <1>1. r \in Rounds /\ s \in SlotsOf(r)
    BY StoreConstants DEF SlotsOf
  <1>2. CASE s \in queued
    BY <1>2 DEF Waits
  <1>3. CASE Merged(r).slots[s].state = "open"
    <2> DEFINE v == View(r).slots[s]
    <2>1. Merged(r).slots[s] = IF measured[s] # None /\ Lags(r, v, measured[s])
                               THEN [state |-> measured[s].state, late |-> v.late \/ measured[s].late]
                               ELSE v
      BY <1>1, MergedIs
    <2>2. measured[s] # None => measured[s].state # "open"
      BY DEF Sound, Types, Measurement, Outcomes
    <2> HIDE DEF v
    <2>3. measured[s] = None
      <3>1. SUFFICES ASSUME measured[s] # None PROVE FALSE
        OBVIOUS
      <3>2. CASE Lags(r, v, measured[s])
        BY <1>3, <2>1, <2>2, <3>1, <3>2
      <3>3. CASE ~Lags(r, v, measured[s])
        BY <1>3, <2>1, <3>3 DEF Lags
      <3> QED
        BY <3>2, <3>3
    <2>4. r \notin intent
      BY DEF Visible, Sound, Types
    <2> QED
      BY <2>3, <2>4 DEF Sound, AnswerSurvives
  <1> QED
    BY <1>2, <1>3

(* The writes of complete are in order.                                    *)
LEMMA CompleteGood ==
    ASSUME Sound, NEW s \in Slots, NEW state \in Outcomes, NEW expired \in BOOLEAN,
           Complete(s, Result(state, expired))
    PROVE  LET r == RoundOf[s]
               res == Result(state, expired)
           IN Good(GetWrites(r) \o ResultWrites(s, res)
                   \o Save(r, [Get(r) EXCEPT !.slots[s].state = Kept(s, res).state])
                   \o <<Put("settled", s, TRUE)>>, {})
  <1> DEFINE r == RoundOf[s]
             res == Result(state, expired)
             k == Kept(s, res)
             m == Get(r)
             x == Tidy(m)
             e == [m.slots[s] EXCEPT !.state = k.state]
             c == [m EXCEPT !.slots[s] = e]
             n == Tidy(c)
             a1 == Put("measurement", s, k)
             a2 == Put("receipt", <<s, day>>, TRUE)
             a3 == Put("fullReceipt", s, day)
             a4 == Put("dirty", r, n)
             a5 == Put("trusted", r, TRUE)
             a6 == Put("settled", s, TRUE)
             A == GetWrites(r)
             B1 == When(measured[s] # k, <<a1>>)
             B3 == When(r \in Full, <<a3>>)
             S == Completes(r, x, n, s, k)
  <1>1. /\ mode = "batch" /\ Visible(r) /\ s \notin settled
        /\ s \in queued \/ (state = "missing" /\ Merged(r).slots[s].state = "open")
        /\ expired => r \in Full /\ state = "failed"
    BY DEF Complete, Result
  <1>37. Waits(s) \/ fullReceipt[s] = None
    BY <1>1, CompletesDate
  <1>38. day \in Days /\ day # None
    BY StoreConstants DEF Sound, Types
  <1>2. r \in Rounds /\ s \in SlotsOf(r)
    BY StoreConstants DEF SlotsOf
  <1>3. /\ k \in Measurement /\ k.state \in Outcomes /\ k.state # "open"
        /\ measured[s] # None => k = measured[s]
        /\ measured[s] = None => /\ k.state = state /\ measured[s] # k
                                 /\ Honest(s, k) /\ Follows(s, k)
    BY <1>1, KeptIs
  <1>4. Proper(r, m)
    BY <1>1, <1>2, GetProper
  <1>5. m \in Manifests(r) /\ r \notin intent /\ manifest[r] # None
    BY <1>4 DEF Proper
  <1>6. Good(A, {}) /\ All(A) \subseteq {Put("dirty", r, x), a5}
    BY <1>1, <1>2, GetGood
  <1> HIDE DEF k, m, A
  <1>7. /\ e \in Entry /\ e.state = k.state
        /\ c = [m EXCEPT !.slots[s].state = k.state]
    BY <1>2, <1>3, <1>5, StateChanged
  <1> HIDE DEF e, res, r
  <1>8. a1 \in Writes /\ a2 \in Writes /\ a3 \in Writes /\ a5 \in Writes /\ a6 \in Writes
    BY <1>2, <1>3, <1>38, KindsOfWrites
  <1> HIDE DEF a1, a2, a3, a4, a5, a6, c, n, x
  <1>9. /\ a1 \in S /\ a2 \in S /\ a3 \in S /\ a4 \in S /\ a5 \in S
        /\ All(A) \subseteq S
    BY <1>6 DEF Completes, a1, a2, a3, a4, a5
  <1>36. \A G : G \subseteq S => CompletesWrite(G, s, k)
    BY CompletesOf
  <1> HIDE DEF S
  <1>10. \A G : G \subseteq S =>
           \A y : /\ Of(G, "intent", y) = {}
                  /\ Of(G, "bury", y) = {}
                  /\ Of(G, "close", y) = {}
                  /\ Of(G, "manifest", y) = {}
                  /\ Of(G, "active", y) = {}
                  /\ Of(G, "inactive", y) = {}
                  /\ Of(G, "index", y) = {}
                  /\ Of(G, "settled", y) = {}
    BY <1>36 DEF CompletesWrite
  <1>40. \A G : G \subseteq S =>
           /\ \A y : y # s => Of(G, "measurement", y) = {}
           /\ Of(G, "measurement", s) \subseteq {k}
           /\ a1 \notin G => Of(G, "measurement", s) = {}
           /\ a1 \in G => Of(G, "measurement", s) # {}
    BY <1>36 DEF CompletesWrite, a1
  <1>35. \A G : G \subseteq S =>
           /\ FALSE \notin Of(G, "receipt", <<s, day>>) /\ Of(G, "fullReceipt", s) \subseteq {day}
           /\ a2 \in G => TRUE \in Of(G, "receipt", <<s, day>>)
           /\ a3 \in G => day \in Of(G, "fullReceipt", s)
    BY <1>36 DEF CompletesWrite, a2, a3
  <1>11. a1 \notin All(A)
    <2>1. a1 # Put("dirty", r, x) /\ a1 # a5
      BY DEF a1, a5, Put
    <2> QED
      BY <1>6, <2>1
  <1>12. \A G : G \subseteq S => Untouched(r, G)
    BY <1>5, <1>10 DEF Untouched
  <1> DEFINE G1 == {} \cup All(A)
  <1>13. Good(B1, G1) /\ All(B1) = IF measured[s] # k THEN {a1} ELSE {}
    <2>1. ASSUME measured[s] # k PROVE Ready(a1, G1)
      <3>1. measured[s] = None
        BY <1>3, <2>1
      <3>2. G1 \subseteq S /\ a1 \notin G1
        BY <1>9, <1>11
      <3> HIDE DEF G1
      <3>3. Of(G1, "measurement", s) = {} /\ Of(G1, "settled", s) = {} /\ Untouched(r, G1)
        BY <1>10, <1>12, <1>40, <3>2
      <3>4. ReadyMeasurement(s, k, G1)
        BY <1>1, <1>3, <1>5, <3>1, <3>3 DEF ReadyMeasurement, r
      <3> QED
        BY <3>4, ReadyPut DEF a1
    <2>2. (measured[s] # k) \in BOOLEAN
      OBVIOUS
    <2> HIDE DEF G1
    <2> QED
      BY <1>8, <2>1, <2>2, GoodWhen
  <1> HIDE DEF B1
  <1> DEFINE G2 == G1 \cup All(B1)
  <1>14. ASSUME NEW G, G2 \subseteq G, G \subseteq S PROVE Untouched(r, G) /\ Measured(s, G)
    <2>1. Untouched(r, G)
      BY <1>12, <1>14
    <2>2. measured[s] # None \/ Of(G, "measurement", s) # {}
      <3>1. CASE measured[s] = None
        <4>1. a1 \in G
          BY <1>3, <1>13, <1>14, <3>1
        <4> QED
          BY <1>14, <1>40, <4>1
      <3> QED
        BY <3>1
    <2> QED
      BY <2>1, <2>2 DEF Measured
  <1>15. G2 \subseteq S
    BY <1>9, <1>13
  <1>16. Good(<<a2>>, G2) /\ All(<<a2>>) = {a2}
    <2>1. Untouched(r, G2) /\ Measured(s, G2)
      BY <1>14, <1>15
    <2>2. Of(G2, "settled", s) = {} /\ Of(G2, "fullReceipt", s) \subseteq {day}
      BY <1>10, <1>15, <1>35
    <2> HIDE DEF G2
    <2>3. KeepsDate(s, G2)
      BY <1>37, <2>2 DEF KeepsDate
    <2>4. ReadyReceipt(s, day, TRUE, G2)
      BY <1>5, <2>1, <2>3 DEF ReadyReceipt, r
    <2>5. Ready(a2, G2)
      BY <2>4, ReadyPut DEF a2
    <2> QED
      BY <1>8, <2>5, GoodOne
  <1> DEFINE B2 == B1 \o <<a2>>
  <1>17. Good(B2, G1) /\ All(B2) = All(B1) \cup {a2}
    BY <1>13, <1>16, GoodJoined
  <1> HIDE DEF B2
  <1> DEFINE G3 == G1 \cup All(B2)
  <1>18. Good(B3, G3) /\ All(B3) = IF r \in Full THEN {a3} ELSE {}
    <2>1. G2 \subseteq G3 /\ G3 \subseteq S
      BY <1>9, <1>15, <1>17
    <2>4. Untouched(r, G3) /\ Measured(s, G3)
      BY <1>14, <2>1
    <2>5. a2 \in G3
      BY <1>17
    <2> HIDE DEF G3
    <2>6. RecordedToday(s, G3)
      BY <1>35, <2>1, <2>5 DEF RecordedToday
    <2>7. ReadyFullReceipt(s, day, G3)
      BY <1>5, <1>38, <2>4, <2>6 DEF ReadyFullReceipt, r
    <2>2. Ready(a3, G3)
      BY <2>7, ReadyPut DEF a3
    <2>3. (r \in Full) \in BOOLEAN
      OBVIOUS
    <2> QED
      BY <1>8, <2>2, <2>3, GoodWhen
  <1> HIDE DEF B3
  <1> DEFINE B == B2 \o B3
  <1>19. Good(B, G1) /\ All(B) = All(B2) \cup All(B3)
    BY <1>17, <1>18, GoodJoined
  <1>20. ResultWrites(s, res) = B
    BY DEF ResultWrites, B, B2, B1, B3, a1, a2, a3, k, res, r
  <1> HIDE DEF B
  <1>21. Good(A \o B, {}) /\ All(A \o B) = All(A) \cup All(B)
    BY <1>6, <1>19, GoodJoined
  <1> DEFINE G == {} \cup All(A \o B)
  <1>22. /\ G \subseteq S /\ a2 \in G /\ (r \in Full => a3 \in G)
         /\ measured[s] = None => a1 \in G
         /\ measured[s] # None => a1 \notin G
    <2>1. /\ G \subseteq S /\ a2 \in G /\ (r \in Full => a3 \in G)
          /\ measured[s] = None => a1 \in G
      BY <1>3, <1>9, <1>13, <1>17, <1>18, <1>19, <1>21
    <2>2. a1 # a2 /\ a1 # a3
      BY DEF a1, a2, a3, Put
    <2>3. measured[s] # None => a1 \notin G
      BY <1>3, <1>11, <1>13, <1>17, <1>18, <1>19, <1>21, <2>2
    <2> QED
      BY <2>1, <2>3
  <1> HIDE DEF G
  <1>23. /\ Agrees(e, measured[s]) \/ Of(G, "measurement", s) # {}
         /\ \A v \in Of(G, "measurement", s) : Agrees(e, v)
    <2>1. CASE measured[s] = None
      <3>1. Of(G, "measurement", s) # {} /\ Of(G, "measurement", s) \subseteq {k}
        BY <1>40, <1>22, <2>1
      <3>2. Agrees(e, k)
        BY <1>3, <1>7, StoreConstants DEF Agrees
      <3> QED
        BY <3>1, <3>2
    <2>2. CASE measured[s] # None
      <3>1. Of(G, "measurement", s) = {}
        BY <1>40, <1>22, <2>2
      <3>2. Agrees(e, measured[s])
        BY <1>3, <1>7, <2>2 DEF Agrees
      <3> QED
        BY <3>1, <3>2
    <2> QED
      BY <2>1, <2>2
  <1>24. n \in Manifests(r) /\ n.slots = c.slots /\ ReadyState(r, n, G)
    <2>1. /\ Untouched(r, G) /\ \A t \in SlotsOf(r) : t # s => Of(G, "measurement", t) = {}
          /\ Of(G, "manifest", r) = {} /\ Of(G, "inactive", None) = {} /\ Of(G, "active", r) = {}
      <3>1. Untouched(r, G) /\ \A t : t # s => Of(G, "measurement", t) = {}
        BY <1>12, <1>40, <1>22
      <3>2. Of(G, "manifest", r) = {} /\ Of(G, "inactive", None) = {} /\ Of(G, "active", r) = {}
        BY <1>10, <1>22
      <3> QED
        BY <3>1, <3>2
    <2>2. /\ \A y \in Of(G, "manifest", r) : Terminal(y) => Terminal(m)
          /\ FALSE \in Of(G, "active", r) => Terminal(m)
      BY <2>1
    <2> QED
      BY <1>2, <1>3, <1>4, <1>7, <1>23, <2>1, <2>2, ChangedReady DEF n, c
  <1>25. Late(r, G) \/ StaysListed(r, G) \/ n.slots = manifest[r].slots
    <2>1. ASSUME ~Late(r, G), r \notin active PROVE n.slots = manifest[r].slots
      <3>1. ~Late(r, {})
        <4>1. G = {} \cup G
          OBVIOUS
        <4>2. Late(r, {}) => Late(r, {} \cup G)
          BY LateMore
        <4> QED
          BY <2>1, <4>1, <4>2
      <3>2. m.slots = manifest[r].slots /\ Terminal(manifest[r])
        BY <1>2, <1>4, <2>1, <3>1, ProperReady
      <3>3. m.slots[s].state # "open"
        BY <1>2, <1>5, <3>2, SlotsAre, SameSlots
      <3>4. Agrees(m.slots[s], measured[s])
        BY <1>2, <1>4, <3>3, OfNone DEF Proper, Backed
      <3>5. measured[s] # None /\ ~measured[s].late
        BY <1>2, <3>1, <3>4 DEF Late, Agrees
      <3>6. m.slots[s].state = k.state
        BY <1>3, <3>4, <3>5 DEF Agrees
      <3>7. m.slots[s] \in Entry /\ m.slots \in [SlotsOf(r) -> Entry]
        BY <1>2, <1>5 DEF Manifests
      <3>8. e = m.slots[s]
        BY <3>6, <3>7 DEF e, Entry
      <3>9. c.slots = m.slots
        <4>1. c \in Manifests(r) /\ \A t \in SlotsOf(r) : c.slots[t] = m.slots[t]
          BY <1>2, <1>5, <1>7, <3>8, ChangedIs DEF c
        <4>2. c.slots \in [SlotsOf(r) -> Entry]
          BY <4>1 DEF Manifests
        <4> QED
          BY <3>7, <4>1, <4>2
      <3> QED
        BY <1>24, <3>2, <3>9
    <2>2. Of(G, "active", r) = {} /\ Of(G, "inactive", None) = {}
      BY <1>10, <1>22
    <2> QED
      BY <2>1, <2>2 DEF StaysListed, Dropped
  <1>26. Ready(a4, G) /\ a4 \in Writes
    <2>1. Of(G, "close", None) = {} /\ Of(G, "manifest", r) = {}
      BY <1>10, <1>22
    <2>2. ReadyDirty(r, n, G)
      BY <1>1, <1>5, <1>24, <1>25, <2>1 DEF ReadyDirty
    <2>3. a4 \in Writes
      BY <1>2, <1>24, ManifestTyped, KindsOfWrites DEF a4
    <2> QED
      BY <2>2, <2>3, ReadyPut DEF a4
  <1>27. Ready(a5, G \cup {a4})
    BY ReadyPut DEF a5
  <1>28. Good(<<a4, a5>>, G) /\ All(<<a4, a5>>) = {a4, a5}
    BY <1>8, <1>26, <1>27, GoodTwo
  <1>29. Save(r, [m EXCEPT !.slots[s].state = k.state]) = <<a4, a5>>
    BY <1>1, <1>7 DEF Save, a4, a5, n
  <1> DEFINE AB == A \o B
             C == <<a4, a5>>
  <1>30. Good(AB \o C, {}) /\ All(AB \o C) = All(AB) \cup {a4, a5}
    BY <1>21, <1>28, GoodJoined DEF G
  <1> DEFINE H == {} \cup All(AB \o C)
  <1>31. H \subseteq S /\ a2 \in H /\ (r \in Full => a3 \in H)
    BY <1>9, <1>22, <1>30 DEF G
  <1> HIDE DEF H, AB, C
  <1>32. ReadySettled(s, TRUE, H)
    <2>1. /\ TRUE \in Of(H, "receipt", <<s, day>>) /\ FALSE \notin Of(H, "receipt", <<s, day>>)
          /\ Of(H, "fullReceipt", s) \subseteq {day}
          /\ r \in Full => day \in Of(H, "fullReceipt", s)
      BY <1>31, <1>35
    <2> QED
      BY <2>1 DEF ReadySettled, RecordedToday, r
  <1>33. Good(<<a6>>, H)
    BY <1>8, <1>32, ReadyPut, GoodOne DEF a6
  <1>34. Good((AB \o C) \o <<a6>>, {})
    BY <1>30, <1>33, GoodJoined DEF H
  <1> QED
    BY <1>20, <1>29, <1>34 DEF AB, C, A, a6, k, m, res, r

-----------------------------------------------------------------------------
(* Deleting a full benchmark.                                              *)
Goes(r, G) ==
    /\ Intended(r, G) /\ Buried(r, G) /\ Ended(r, G)
    /\ Of(G, "dirty", r) = {} /\ dirty[r] = None

(* The receipt by day that goes is that of the last day, if it is there.   *)
NamesLast(s) == \A d \in Days : recordedOn[s] = d => <<s, d>> \notin receipt \/ DayOf(s) = d

Clears(D, r) ==
    /\ Put("index", r, None) \in D
    /\ \A s \in SlotsOf(r) :
         /\ Put("fullReceipt", s, None) \in D /\ NoMoreReceipts(s, D)
         /\ DayOf(s) # None => Put("receipt", <<s, DayOf(s)>>, FALSE) \in D

(* The newest receipt by day.                                              *)
LEMMA NewestIs ==
    ASSUME NEW s \in Slots, Receipts(s) # {}
    PROVE  /\ Max(Receipts(s)) \in Receipts(s) /\ \A d \in Receipts(s) : d <= Max(Receipts(s))
           /\ Receipts(s) \subseteq Nat
  <1> DEFINE R == Receipts(s)
  <1>1. MaxDay \in Nat /\ Days = 0..MaxDay
    BY StoreConstants DEF Days
  <1>2. IsFiniteSet(Days) /\ Days \subseteq Nat
    BY <1>1, FS_Interval
  <1>3. R \subseteq Days
    BY DEF Receipts
  <1> HIDE DEF R
  <1>4. R \in SUBSET Nat /\ IsFiniteSet(R) /\ R # {}
    BY <1>2, <1>3, FS_Subset DEF R
  <1>5. PICK m \in R : \A d \in R : d <= m
    BY <1>4, Extremes
  <1>6. m \in Nat /\ \A d \in R : d \in Nat /\ m >= d
    BY <1>4, <1>5
  <1>7. Max(R) \in R /\ \A d \in R : Max(R) >= d
    BY <1>5, <1>6 DEF Max
  <1>8. \A d \in R : d <= Max(R)
    BY <1>4, <1>7
  <1> QED
    BY <1>4, <1>7, <1>8 DEF R

(* The day of the receipt that goes.                                       *)
LEMMA DayOfIs ==
    ASSUME Types, NEW s \in Slots
    PROVE  DayOf(s) \in Days \cup {None}
  <1>1. fullReceipt[s] \in Days \cup {None} /\ Receipts(s) \subseteq Days
    BY DEF Types, Receipts
  <1> QED
    BY <1>1, NewestIs DEF DayOf

(* It is the last day on which the job was recorded.                       *)
LEMMA DayIsLast ==
    ASSUME Sound, NEW s \in Slots, RoundOf[s] \in Full, Dated(s)
    PROVE  NamesLast(s)
  <1> SUFFICES ASSUME NEW d \in Days, recordedOn[s] = d, <<s, d>> \in receipt
               PROVE  DayOf(s) = d
    BY DEF NamesLast
  <1>1. d \in Receipts(s) /\ d # None
    BY StoreConstants DEF Receipts
  <1>2. CASE fullReceipt[s] # None
    BY <1>2 DEF Dated, DayOf
  <1>3. CASE fullReceipt[s] = None
    <2> DEFINE m == Max(Receipts(s))
    <2>1. DayOf(s) = m
      BY <1>1, <1>3 DEF DayOf
    <2>2. m \in Receipts(s) /\ d <= m /\ m \in Nat /\ d \in Nat
      BY <1>1, NewestIs
    <2> HIDE DEF m
    <2>3. m <= d
      BY <2>2 DEF Sound, SoundReceipts
    <2> QED
      BY <2>1, <2>2, <2>3
  <1> QED
    BY <1>2, <1>3

(* A deletion that made its removals has cleared the round.                *)
LEMMA ClearsIs ==
    ASSUME NEW r \in Rounds, NEW D, Clears(D, r), \A s \in SlotsOf(r) : NamesLast(s)
    PROVE  Cleared(r, D)
  <1>1. None \in Of(D, "index", r)
    BY OfHas DEF Clears
  <1>2. ASSUME NEW s \in SlotsOf(r) PROVE WithoutReceipt(s, D)
    <2>1. NoMoreReceipts(s, D) /\ None \in Of(D, "fullReceipt", s)
      BY OfHas DEF Clears
    <2>2. ASSUME NEW d \in Days, recordedOn[s] = d, <<s, d>> \in receipt
          PROVE  FALSE \in Of(D, "receipt", <<s, d>>)
      <3>1. DayOf(s) = d /\ d # None
        BY <2>2, StoreConstants DEF NamesLast
      <3>2. Put("receipt", <<s, d>>, FALSE) \in D
        BY <3>1 DEF Clears
      <3> QED
        BY <3>2, OfHas
    <2> QED
      BY <2>1, <2>2 DEF WithoutReceipt
  <1> QED
    BY <1>1, <1>2 DEF Cleared

(* Removals write no receipts.                                             *)
LEMMA NoMoreMore ==
    ASSUME NEW s, NEW G, NEW D, NoMoreReceipts(s, G),
           \A w \in D : \/ w \in G
                        \/ /\ w.what = "receipt" => ~w.value
                           /\ w.what = "fullReceipt" => w.value = None
    PROVE  NoMoreReceipts(s, D)
  <1>1. ASSUME NEW d \in Days PROVE TRUE \notin Of(D, "receipt", <<s, d>>)
    <2> SUFFICES ASSUME TRUE \in Of(D, "receipt", <<s, d>>) PROVE FALSE
      OBVIOUS
    <2>1. PICK w \in D : w.what = "receipt" /\ w.where = <<s, d>> /\ w.value = TRUE
      BY DEF Of
    <2>2. w \in G
      BY <2>1
    <2>3. TRUE \in Of(G, "receipt", <<s, d>>)
      BY <2>1, <2>2, OfMember
    <2> QED
      BY <2>3 DEF NoMoreReceipts
  <1>2. ASSUME NEW x \in Of(D, "fullReceipt", s) PROVE x = None
    <2>1. PICK w \in D : w.what = "fullReceipt" /\ w.where = s /\ w.value = x
      BY <1>2 DEF Of
    <2>2. CASE w \in G
      <3>1. x \in Of(G, "fullReceipt", s)
        BY <2>1, <2>2, OfMember
      <3> QED
        BY <3>1 DEF NoMoreReceipts
    <2>3. CASE w \notin G
      BY <2>1, <2>3
    <2> QED
      BY <2>2, <2>3
  <1> QED
    BY <1>1, <1>2 DEF NoMoreReceipts

(* A deletion goes on when it makes more of its removals.                  *)
LEMMA GoesOn ==
    ASSUME NEW r, NEW G, NEW D, G \subseteq D, Goes(r, G),
           \A w \in D \ G : w.what \in {"index", "receipt", "fullReceipt", "active", "tomb"}
    PROVE  Goes(r, D)
  <1> DEFINE H == D \ G
  <1>1. D = G \cup H
    OBVIOUS
  <1>2. Of(H, "intent", r) = {} /\ Of(H, "bury", r) = {} /\ Of(H, "manifest", r) = {} /\ Of(H, "dirty", r) = {}
    <2> HIDE DEF H
    <2>1. \A w \in H : w.what \in {"index", "receipt", "fullReceipt", "active", "tomb"}
      BY DEF H
    <2> QED
      BY <2>1, OfKinds
  <1> HIDE DEF H
  <1>3. /\ Of(D, "intent", r) = Of(G, "intent", r) \cup {}
        /\ Of(D, "bury", r) = Of(G, "bury", r) \cup {}
        /\ Of(D, "manifest", r) = Of(G, "manifest", r) \cup {}
        /\ Of(D, "dirty", r) = Of(G, "dirty", r) \cup {}
    <2>1. \A what : Of(G \cup H, what, r) = Of(G, what, r) \cup Of(H, what, r)
      BY OfJoined
    <2> QED
      BY <1>1, <1>2, <2>1
  <1>4. /\ Of(D, "intent", r) = Of(G, "intent", r) /\ Of(D, "bury", r) = Of(G, "bury", r)
        /\ Of(D, "manifest", r) = Of(G, "manifest", r) /\ Of(D, "dirty", r) = Of(G, "dirty", r)
    BY <1>3
  <1> QED
    BY <1>4 DEF Goes, Intended, Buried, Exists, Ended

(* The receipts of the slots that go.                                      *)
Forgets(r) ==
    FlattenSeq([i \in 1..Cardinality(SlotsOf(r)) |-> Forget(SetToSeq(SlotsOf(r))[i])])

Removal(s, w) ==
    \/ w = Put("fullReceipt", s, None)
    \/ DayOf(s) # None /\ w = Put("receipt", <<s, DayOf(s)>>, FALSE)

(* The removals of the receipts of a slot.                                 *)
LEMMA ForgetIs ==
    ASSUME Types, NEW s \in Slots
    PROVE  Forget(s) \in Seq(Writes) /\ \A w : w \in All(Forget(s)) <=> Removal(s, w)
  <1> DEFINE a == Put("receipt", <<s, DayOf(s)>>, FALSE)
             b == Put("fullReceipt", s, None)
  <1>1. b \in Writes /\ (DayOf(s) # None => a \in Writes)
    BY DayOfIs, KindsOfWrites
  <1>2. Forget(s) = (IF DayOf(s) # None THEN <<a>> ELSE <<>>) \o <<b>>
    BY DEF Forget, When
  <1>3. \A w : Removal(s, w) <=> w = b \/ (DayOf(s) # None /\ w = a)
    BY DEF Removal
  <1> HIDE DEF a, b
  <1>4. <<b>> \in Seq(Writes) /\ All(<<b>>) = {b}
    BY <1>1, OneWrite
  <1>5. CASE DayOf(s) # None
    <2>1. <<a>> \in Seq(Writes) /\ All(<<a>>) = {a}
      BY <1>1, <1>5, OneWrite
    <2>2. <<a>> \o <<b>> \in Seq(Writes) /\ All(<<a>> \o <<b>>) = All(<<a>>) \cup All(<<b>>)
      BY <1>4, <2>1, Joined, AllJoined
    <2>3. Forget(s) = <<a>> \o <<b>>
      BY <1>2, <1>5
    <2>4. All(Forget(s)) = {a, b}
      BY <1>4, <2>1, <2>2, <2>3
    <2> QED
      BY <1>3, <1>5, <2>2, <2>3, <2>4
  <1>6. CASE DayOf(s) = None
    <2>1. Forget(s) = <<>> \o <<b>>
      BY <1>2, <1>6
    <2>2. <<>> \o <<b>> \in Seq(Writes) /\ All(<<>> \o <<b>>) = All(<<>>) \cup All(<<b>>)
      BY <1>4, NoWrite, Joined, AllJoined
    <2>3. All(Forget(s)) = {b}
      BY <1>4, <2>1, <2>2, NoWrite
    <2> QED
      BY <1>3, <1>6, <2>1, <2>2, <2>3
  <1> QED
    BY <1>5, <1>6

(* The removals of the receipts of a round.                                *)
LEMMA ForgetsAre ==
    ASSUME Types, NEW r \in Rounds
    PROVE  /\ Forgets(r) \in Seq(Writes)
           /\ \A w \in All(Forgets(r)) : \E s \in SlotsOf(r) : Removal(s, w)
           /\ \A s \in SlotsOf(r) : \A w : Removal(s, w) => w \in All(Forgets(r))
  <1> DEFINE S == SlotsOf(r)
             n == Cardinality(S)
             f == SetToSeq(S)
             g == [i \in 1..n |-> Forget(f[i])]
  <1>1. IsFiniteSet(S) /\ S \subseteq Slots
    BY StoreConstants, FS_Subset DEF SlotsOf
  <1>2. n \in Nat /\ f \in [1..n -> S] /\ {f[i] : i \in 1..n} = S
    BY <1>1, SetToSeqIs
  <1>4. Forgets(r) = FlattenSeq(g)
    BY DEF Forgets
  <1> HIDE DEF f, n, S
  <1>6. \A i \in 1..n : f[i] \in S /\ f[i] \in Slots
    BY <1>1, <1>2
  <1>7. \A i \in 1..n : g[i] = Forget(f[i])
    OBVIOUS
  <1>8. \A i \in 1..n : g[i] \in Seq(Writes) /\ \A w : w \in All(g[i]) <=> Removal(f[i], w)
    BY <1>6, <1>7, ForgetIs
  <1>9. g \in [1..n -> Seq(Writes)]
    BY <1>7, <1>8
  <1> HIDE DEF g
  <1>10. FlattenSeq(g) \in Seq(Writes) /\ All(FlattenSeq(g)) = UNION {All(g[i]) : i \in 1..n}
    BY <1>2, <1>9, FlattenIs
  <1>11. ASSUME NEW w \in All(FlattenSeq(g)) PROVE \E s \in S : Removal(s, w)
    <2>1. \E i \in 1..n : w \in All(g[i])
      BY <1>10, InUnion
    <2> QED
      BY <1>6, <1>8, <2>1
  <1>12. ASSUME NEW s \in S, NEW w, Removal(s, w) PROVE w \in All(FlattenSeq(g))
    <2>1. PICK i \in 1..n : f[i] = s
      BY <1>2
    <2>2. w \in All(g[i])
      BY <1>8, <1>12, <2>1
    <2> QED
      BY <1>10, <2>2, InUnion
  <1> QED
    BY <1>4, <1>10, <1>11, <1>12 DEF S

(* What they are.                                                          *)
LEMMA RemovalIs ==
    ASSUME NEW s, NEW w, Removal(s, w)
    PROVE  /\ w.what \in {"receipt", "fullReceipt"}
           /\ w.what = "receipt" => ~w.value
           /\ w.what = "fullReceipt" => w.value = None
  <1>1. CASE w = Put("fullReceipt", s, None)
    BY <1>1, PutIs
  <1>2. CASE w = Put("receipt", <<s, DayOf(s)>>, FALSE)
    <2>1. w.what = "receipt"
      <3>1. Put("receipt", <<s, DayOf(s)>>, FALSE).what = "receipt"
        BY DEF Put
      <3> QED
        BY <1>2, <3>1
    <2>2. ~Put("receipt", <<s, DayOf(s)>>, FALSE).value
      BY DEF Put
    <2>3. ~w.value
      BY <1>2, <2>2
    <2> QED
      BY <2>1, <2>3
  <1> QED
    BY <1>1, <1>2 DEF Removal

-----------------------------------------------------------------------------
(* finalizeDeletedFull is in order, and the intent may go after it.        *)
LEMMA FinalizeGood ==
    ASSUME Types, NEW r \in Rounds, NEW G, Goes(r, G), Of(G, "tomb", r) = {},
           \A s \in SlotsOf(r) : NamesLast(s) /\ NoMoreReceipts(s, G)
    PROVE  /\ Good(Finalize(r), G)
           /\ ReadyIntent(r, FALSE, G \cup All(Finalize(r)))
  <1> DEFINE a == Put("index", r, None)
             F == Forgets(r)
             b == Put("active", r, FALSE)
             L == Listed(r, FALSE)
             c == Put("tomb", r, Rest)
             d == Put("tomb", r, None)
             K == ({a, b, c, d}) \cup All(F)
  <1>1. F \in Seq(Writes) /\ a \in Writes /\ b \in Writes /\ c \in Writes /\ d \in Writes
    BY ForgetsAre, KindsOfWrites
  <1>2. a.what = "index" /\ b.what = "active" /\ c.what = "tomb" /\ d.what = "tomb"
    BY DEF Put
  <1>3. ASSUME NEW w \in All(F)
        PROVE  /\ w.what \in {"receipt", "fullReceipt"}
               /\ w.what = "receipt" => ~w.value
               /\ w.what = "fullReceipt" => w.value = None
    <2>1. PICK s \in SlotsOf(r) : Removal(s, w)
      BY ForgetsAre
    <2> QED
      BY <2>1, RemovalIs
  <1> HIDE DEF a, b, c, d, F, L
  <1>4. \A w \in K : w.what \in {"index", "receipt", "fullReceipt", "active", "tomb"}
    BY <1>2, <1>3
  <1>22. \A w \in K : /\ w.what = "receipt" => ~w.value
                      /\ w.what = "fullReceipt" => w.value = None
    BY <1>2, <1>3
  <1>5. ASSUME NEW D, G \subseteq D, D \subseteq G \cup K
        PROVE  Goes(r, D) /\ \A s \in SlotsOf(r) : NoMoreReceipts(s, D)
    <2>1. \A w \in D \ G : w.what \in {"index", "receipt", "fullReceipt", "active", "tomb"}
      BY <1>4, <1>5
    <2>2. \A w \in D : w \in G \/ w \in K
      BY <1>5
    <2> HIDE DEF K
    <2>3. Goes(r, D)
      BY <1>5, <2>1, GoesOn
    <2>4. \A s \in SlotsOf(r) : NoMoreReceipts(s, D)
      BY <1>22, <2>2, NoMoreMore
    <2> QED
      BY <2>3, <2>4
  <1>6. Good(<<a>>, G) /\ All(<<a>>) = {a}
    <2>1. ReadyIndex(r, None, G)
      BY DEF ReadyIndex, Goes
    <2> QED
      BY <1>1, <2>1, ReadyPut, GoodOne DEF a
  <1> DEFINE G1 == G \cup All(<<a>>)
  <1>7. Good(F, G1)
    <2>1. ASSUME NEW w \in All(F), NEW D \in SUBSET (G1 \cup All(F)), G1 \subseteq D PROVE Ready(w, D)
      <3>1. Goes(r, D)
        BY <1>5, <1>6, <2>1
      <3>2. PICK s \in SlotsOf(r) : Removal(s, w)
        BY ForgetsAre DEF F
      <3>3. ReadyFullReceipt(s, None, D) /\ \A z : ReadyReceipt(s, z, FALSE, D)
        BY <3>1 DEF ReadyReceipt, ReadyFullReceipt, Goes, SlotsOf
      <3> QED
        BY <3>2, <3>3, ReadyPut DEF Removal
    <2> HIDE DEF G1
    <2> QED
      BY <1>1, <2>1, AnyOrder DEF Good
  <1>8. Good(<<a>> \o F, G) /\ All(<<a>> \o F) = All(<<a>>) \cup All(F)
    BY <1>6, <1>7, GoodJoined
  <1> DEFINE A2 == <<a>> \o F
             G2 == G \cup All(A2)
  <1>9. G2 = (G \cup {a}) \cup All(F)
    BY <1>6, <1>8
  <1>10. Clears(G2, r)
    <2>1. \A s \in SlotsOf(r) :
             /\ Put("fullReceipt", s, None) \in All(F)
             /\ DayOf(s) # None => Put("receipt", <<s, DayOf(s)>>, FALSE) \in All(F)
      BY ForgetsAre DEF F, Removal
    <2>2. \A s \in SlotsOf(r) : NoMoreReceipts(s, G2)
      BY <1>5, <1>9
    <2> HIDE DEF A2, G2
    <2> QED
      BY <1>9, <2>1, <2>2 DEF Clears, a
  <1>11. Good(L, G2) /\ All(L) \subseteq {b}
    <2>1. Goes(r, G2)
      BY <1>5, <1>9
    <2>2. ReadyDrop(r, G2)
      BY <2>1 DEF ReadyDrop, Goes, Indexed
    <2>3. Ready(b, G2)
      BY <2>2, ReadyPut DEF b
    <2>4. ((r \in active) # FALSE) \in BOOLEAN
      OBVIOUS
    <2>5. L = When((r \in active) # FALSE, <<b>>)
      BY DEF Listed, L, b
    <2> HIDE DEF G2
    <2> QED
      BY <1>1, <2>3, <2>4, <2>5, GoodWhen
  <1> HIDE DEF A2
  <1>12. Good(A2 \o L, G) /\ All(A2 \o L) = All(A2) \cup All(L)
    BY <1>8, <1>11, GoodJoined DEF A2
  <1> DEFINE A3 == A2 \o L
             G3 == G \cup All(A3)
  <1>13. /\ G2 \subseteq G3 /\ G3 \subseteq G2 \cup {b}
    BY <1>11, <1>12
  <1> HIDE DEF A3
  <1>14. Goes(r, G3) /\ Cleared(r, G3) /\ None \notin Of(G3, "tomb", r)
    <2>1. Goes(r, G3)
      BY <1>5, <1>9, <1>13
    <2>2. Clears(G3, r)
      <3>1. \A s \in SlotsOf(r) : NoMoreReceipts(s, G3)
        BY <1>5, <1>9, <1>13
      <3> HIDE DEF G2, G3
      <3> QED
        BY <1>10, <1>13, <3>1 DEF Clears
    <2>3. \A w \in G3 : w \in G \/ w = a \/ w = b \/ w \in All(F)
      BY <1>9, <1>13
    <2> HIDE DEF G3
    <2>4. None \notin Of(G3, "tomb", r)
      <3>1. SUFFICES ASSUME NEW w \in G3, w.what = "tomb", w.where = r, w.value = None PROVE FALSE
        BY OfMember
      <3>2. w \in G
        BY <1>2, <1>3, <2>3, <3>1
      <3>3. None \in Of(G, "tomb", r)
        BY <3>1, <3>2, OfMember
      <3> QED
        BY <3>3
    <2> QED
      BY <2>1, <2>2, <2>4, ClearsIs
  <1>15. Ready(c, G3)
    <2>1. ReadyTomb(r, Rest, G3)
      BY <1>14 DEF ReadyTomb, Goes
    <2> QED
      BY <2>1, ReadyPut DEF c
  <1>16. ASSUME NEW D, G3 \subseteq D, D \subseteq G3 \cup {c, d} PROVE Goes(r, D) /\ Cleared(r, D)
    <2>1. Goes(r, D)
      BY <1>5, <1>9, <1>13, <1>16
    <2>2. Clears(D, r)
      <3>1. \A s \in SlotsOf(r) : NoMoreReceipts(s, D)
        BY <1>5, <1>9, <1>13, <1>16
      <3> HIDE DEF G2, G3
      <3> QED
        BY <1>10, <1>13, <1>16, <3>1 DEF Clears
    <2> QED
      BY <2>1, <2>2, ClearsIs
  <1>17. Ready(d, G3 \cup {c})
    <2>1. Goes(r, G3 \cup {c}) /\ Cleared(r, G3 \cup {c})
      BY <1>16
    <2>2. ReadyTomb(r, None, G3 \cup {c})
      BY <2>1, StoreConstants DEF ReadyTomb, Goes
    <2> QED
      BY <2>2, ReadyPut DEF d
  <1>18. Good(<<c, d>>, G3) /\ All(<<c, d>>) = {c, d}
    BY <1>1, <1>15, <1>17, GoodTwo
  <1>19. Good(A3 \o <<c, d>>, G) /\ All(A3 \o <<c, d>>) = All(A3) \cup {c, d}
    BY <1>12, <1>18, GoodJoined DEF A3
  <1>20. Finalize(r) = A3 \o <<c, d>>
    BY DEF Finalize, A3, A2, F, Forgets, L, a, c, d
  <1>21. ReadyIntent(r, FALSE, G \cup All(A3 \o <<c, d>>))
    <2>1. G \cup All(A3 \o <<c, d>>) = G3 \cup {c, d}
      BY <1>19
    <2>2. Goes(r, G3 \cup {c, d}) /\ Cleared(r, G3 \cup {c, d})
      BY <1>16
    <2>3. d \in G3 \cup {c, d}
      OBVIOUS
    <2>4. None \in Of(G3 \cup {c, d}, "tomb", r)
      BY <2>3, OfHas DEF d
    <2> QED
      BY <2>1, <2>2, <2>4 DEF ReadyIntent, Goes
  <1> QED
    BY <1>19, <1>20, <1>21

-----------------------------------------------------------------------------
(* resumeFullDeletion is in order at every stage of a deletion.            *)
LEMMA ResumeGood ==
    ASSUME Sound, mode = "single", NEW r \in Rounds, NEW G, Intended(r, G), Ended(r, G),
           Of(G, "dirty", r) = {}, Of(G, "tomb", r) = {}, Of(G, "bury", r) = {},
           (G = {} /\ r \in intent) \/ (manifest[r] # None /\ tomb[r] = None),
           r \in Full, \A s \in SlotsOf(r) : Dated(s) /\ NoMoreReceipts(s, G)
    PROVE  Good(Resume(r), G)
  <1> DEFINE z == Put("intent", r, FALSE)
             e == Put("bury", r, None)
             d == Put("tomb", r, None)
             F == Finalize(r)
  <1>1. z \in Writes /\ e \in Writes /\ d \in Writes
    BY KindsOfWrites
  <1>2. dirty[r] = None /\ Types
    BY DEF Sound, SoundBatch
  <1>3. \A x, y : Of({}, x, y) = {}
    BY OfNone
  <1>7. \A s \in SlotsOf(r) : NamesLast(s)
    BY DayIsLast DEF SlotsOf
  <1>4. CASE tomb[r] \notin {None, Rest}
    <2>1. G = {} /\ manifest[r] = None
      BY <1>4 DEF Sound, SoundDeletion
    <2>2. Goes(r, G)
      BY <1>2, <1>3, <2>1 DEF Goes, Buried, Exists
    <2>3. Good(F, G) /\ ReadyIntent(r, FALSE, G \cup All(F))
      BY <1>2, <1>3, <1>7, <2>2, FinalizeGood
    <2> HIDE DEF F
    <2>4. Good(<<z>>, G \cup All(F))
      BY <1>1, <2>3, ReadyPut, GoodOne
    <2>5. Good(F \o <<z>>, G)
      BY <2>3, <2>4, GoodJoined
    <2>6. Resume(r) = F \o <<z>>
      BY <1>4 DEF Resume, F
    <2> QED
      BY <2>5, <2>6
  <1>5. CASE tomb[r] \in {None, Rest} /\ manifest[r] # None
    <2>1. ReadyBury(r, G)
      BY <1>5 DEF ReadyBury, Exists
    <2>2. Good(<<e>>, G) /\ All(<<e>>) = {e}
      BY <1>1, <2>1, ReadyPut, GoodOne
    <2> DEFINE G1 == G \cup All(<<e>>)
    <2>3. \A x : Of(G1, x, r) = Of(G, x, r) \cup (IF "bury" = x THEN {None} ELSE {})
      <3>1. \A x : Of(G \cup {Put("bury", r, None)}, x, r)
                     = Of(G, x, r) \cup (IF "bury" = x /\ r = r THEN {None} ELSE {})
        BY OfMore
      <3> QED
        BY <2>2, <3>1
    <2> HIDE DEF G1
    <2>4. /\ Of(G1, "intent", r) = Of(G, "intent", r) \cup {}
          /\ Of(G1, "manifest", r) = Of(G, "manifest", r) \cup {}
          /\ Of(G1, "dirty", r) = {} /\ Of(G1, "tomb", r) = {} /\ Of(G1, "bury", r) # {}
      BY <2>3
    <2>5. Of(G1, "intent", r) = Of(G, "intent", r) /\ Of(G1, "manifest", r) = Of(G, "manifest", r)
      BY <2>4
    <2>6. Goes(r, G1)
      BY <1>2, <2>4, <2>5 DEF Goes, Intended, Buried, Ended
    <2>14. \A s \in SlotsOf(r) : NoMoreReceipts(s, G1)
      <3>1. \A w \in G1 : w \in G \/ w.what = "bury"
        BY <2>2, PutIs DEF G1
      <3> QED
        BY <3>1, NoMoreMore
    <2>7. Good(F, G1) /\ ReadyIntent(r, FALSE, G1 \cup All(F))
      BY <1>2, <1>7, <2>4, <2>6, <2>14, FinalizeGood
    <2> HIDE DEF F, z, e
    <2>8. Good(<<e>> \o F, G) /\ All(<<e>> \o F) = All(<<e>>) \cup All(F)
      BY <2>2, <2>7, GoodJoined DEF G1
    <2>9. G \cup All(<<e>> \o F) = G1 \cup All(F)
      BY <2>8 DEF G1
    <2>10. Ready(z, G1 \cup All(F))
      BY <2>7, ReadyPut DEF z
    <2>11. Good(<<z>>, G \cup All(<<e>> \o F))
      BY <1>1, <2>9, <2>10, GoodOne
    <2>12. Good((<<e>> \o F) \o <<z>>, G)
      BY <2>8, <2>11, GoodJoined
    <2>13. Resume(r) = (<<e>> \o F) \o <<z>>
      BY <1>5 DEF Resume, F, z, e
    <2> QED
      BY <2>12, <2>13
  <1>6. CASE tomb[r] \in {None, Rest} /\ manifest[r] = None
    <2>1. G = {} /\ Cleared(r, {})
      BY <1>6 DEF Sound, SoundDeletion
    <2>2. Buried(r, {})
      BY <1>3, <1>6 DEF Buried, Exists
    <2>3. ReadyTomb(r, None, {})
      BY <2>1, <2>2, StoreConstants DEF ReadyTomb
    <2>4. Good(<<d>>, {}) /\ All(<<d>>) = {d}
      BY <1>1, <2>3, ReadyPut, GoodOne
    <2>5. \A x, y : Of({Put("tomb", r, None)}, x, y) = IF "tomb" = x /\ r = y THEN {None} ELSE {}
      BY OfPut
    <2>6. Cleared(r, {d}) /\ Buried(r, {d}) /\ Of({d}, "tomb", r) = {None}
      <3> HIDE DEF d
      <3>1. \A x, y : Of({d}, x, y) = IF "tomb" = x /\ r = y THEN {None} ELSE {}
        BY <2>5 DEF d
      <3>2. \A y : /\ Of({d}, "index", y) = {} /\ Of({d}, "receipt", y) = {}
                   /\ Of({d}, "fullReceipt", y) = {} /\ Of({d}, "manifest", y) = {}
        BY <3>1
      <3>4. ASSUME NEW s \in SlotsOf(r) PROVE WithoutReceipt(s, {d})
        <4>1. WithoutReceipt(s, {})
          BY <2>1 DEF Cleared
        <4> QED
          BY <1>3, <3>2, <4>1 DEF WithoutReceipt, NoMoreReceipts
      <3>3. Cleared(r, {d})
        BY <1>3, <2>1, <3>2, <3>4 DEF Cleared
      <3> QED
        BY <1>6, <3>1, <3>2, <3>3 DEF Buried, Exists
    <2>7. ReadyIntent(r, FALSE, {} \cup All(<<d>>))
      <3>1. {} \cup All(<<d>>) = {d}
        BY <2>4
      <3> QED
        BY <2>6, <3>1 DEF ReadyIntent
    <2> HIDE DEF d, z
    <2>8. Good(<<z>>, {} \cup All(<<d>>))
      BY <1>1, <2>7, ReadyPut, GoodOne DEF z
    <2>9. Good(<<d>> \o <<z>>, {})
      BY <2>4, <2>8, GoodJoined
    <2>10. Resume(r) = <<d>> \o <<z>>
      BY <1>6 DEF Resume, d, z
    <2> QED
      BY <2>1, <2>9, <2>10
  <1> QED
    BY <1>4, <1>5, <1>6

(* So are the writes of maintenance that resumes a deletion.               *)
LEMMA ResumeDeletionGood ==
    ASSUME Sound, NEW r \in Rounds, ResumeFullDeletion(r)
    PROVE  Good(Resume(r), {})
  <1>1. mode = "single" /\ r \in intent /\ r \in Full
    BY DEF ResumeFullDeletion, Sound, Types
  <1>2. \A x, y : Of({}, x, y) = {}
    BY OfNone
  <1>3. Intended(r, {}) /\ Ended(r, {})
    BY <1>1, <1>2 DEF Intended, Ended, Sound, DeletionIsWhole
  <1>4. \A s \in SlotsOf(r) : Dated(s) /\ NoMoreReceipts(s, {})
    BY <1>1, <1>2 DEF SlotsOf, Sound, SoundReceipts, NoMoreReceipts
  <1> QED
    BY <1>1, <1>2, <1>3, <1>4, ResumeGood

(* So are those of a new deletion, from its intent on.                     *)
LEMMA DeleteGood ==
    ASSUME Sound, NEW r \in Rounds, DeleteFullRound(r)
    PROVE  Good(When(Get(r) # View(r), Save(r, Get(r)))
                \o <<Put("intent", r, TRUE), Put("trusted", r, FALSE)>> \o Resume(r), {})
  <1> DEFINE m == Get(r)
             A == When(m # View(r), Save(r, m))
             y == Put("intent", r, TRUE)
             t == Put("trusted", r, FALSE)
             G1 == {} \cup All(A)
  <1>1. /\ mode = "single" /\ Visible(r) /\ r \in Full
        /\ \A s \in SlotsOf(r) : m.slots[s].state # "open" /\ s \notin queued
    BY DEF DeleteFullRound, Deletable, AllDone
  <1>24. \A s \in SlotsOf(r) : Dated(s)
    BY <1>1 DEF SlotsOf, Sound, SoundReceipts, Waits
  <1>2. Proper(r, m)
    BY <1>1, GetProper
  <1>3. m \in Manifests(r) /\ r \notin intent /\ manifest[r] # None
    BY <1>2 DEF Proper
  <1>4. dirty[r] = None /\ tomb[r] = None /\ View(r) = manifest[r]
    BY <1>1, <1>3 DEF Sound, SoundBatch, SoundDeletion, View
  <1>5. Terminal(m)
    BY <1>1, <1>3, SlotsAre
  <1>6. Terminal(Tidy(m))
    BY <1>2, <1>5, TidyIs, SameSlots DEF Proper
  <1>7. \A s \in SlotsOf(r) : measured[s] # None
    BY <1>1, <1>2, OfNone DEF Proper, Backed, Agrees
  <1>8. /\ Good(A, {}) /\ All(A) \subseteq Persists(r, Tidy(m))
        /\ Terminal(manifest[r]) \/ Put("manifest", r, Tidy(m)) \in All(A)
    <2>1. CASE m # View(r)
      BY <1>1, <1>2, <2>1, SaveGood DEF When
    <2>2. CASE m = View(r)
      BY <1>4, <1>5, <2>2, GoodNone DEF When
    <2> QED
      BY <2>1, <2>2
  <1>9. y \in Writes /\ t \in Writes
    BY KindsOfWrites
  <1> HIDE DEF m, A, y, t
  <1>10. /\ \A what, z : what \notin {"manifest", "index", "active", "trusted"} => Of(All(A), what, z) = {}
    BY <1>8, PersistsOf
  <1> DEFINE D0 == All(A)
  <1>11. /\ Of(D0, "intent", r) = {} /\ Of(D0, "bury", r) = {} /\ Of(D0, "dirty", r) = {}
         /\ Of(D0, "tomb", r) = {}
    BY <1>10
  <1>12. \/ Terminal(manifest[r]) /\ Of(D0, "manifest", r) \subseteq {Tidy(m)}
         \/ Tidy(m) \in Of(D0, "manifest", r)
    <2>1. Of(D0, "manifest", r) \subseteq {Tidy(m)}
      BY <1>8, PersistsOf
    <2>2. Put("manifest", r, Tidy(m)) \in D0 => Tidy(m) \in Of(D0, "manifest", r)
      BY OfHas
    <2> QED
      BY <1>8, <2>1, <2>2
  <1>25. \A s \in SlotsOf(r) : NoMoreReceipts(s, D0)
    <2>1. \A z : Of(All(A), "receipt", z) = {} /\ Of(All(A), "fullReceipt", z) = {}
      BY <1>10
    <2> HIDE DEF D0
    <2>2. \A z : Of(D0, "receipt", z) = {} /\ Of(D0, "fullReceipt", z) = {}
      BY <2>1 DEF D0
    <2> QED
      BY <2>2 DEF NoMoreReceipts
  <1>13. ReadyIntent(r, TRUE, G1)
    <2>1. G1 = D0
      OBVIOUS
    <2> HIDE DEF D0
    <2>2. Ended(r, D0)
      BY <1>6, <1>12 DEF Ended
    <2>3. ReadyIntent(r, TRUE, D0)
      BY <1>1, <1>7, <1>11, <1>24, <1>25, <2>2 DEF ReadyIntent
    <2> QED
      BY <2>1, <2>3
  <1>14. Good(<<y, t>>, G1) /\ All(<<y, t>>) = {y, t}
    <2>1. Ready(y, G1)
      BY <1>13, ReadyPut DEF y
    <2>2. Ready(t, G1 \cup {y})
      BY ReadyPut DEF t
    <2> QED
      BY <1>9, <2>1, <2>2, GoodTwo
  <1> DEFINE B == A \o <<y, t>>
  <1>15. Good(B, {}) /\ All(B) = All(A) \cup {y, t}
    BY <1>8, <1>14, GoodJoined
  <1> DEFINE G2 == {} \cup All(B)
  <1>16. G2 = (D0 \cup {y}) \cup {t}
    BY <1>15
  <1> HIDE DEF B, G2, D0
  <1>17. \A x : Of(G2, x, r) = (Of(D0, x, r) \cup (IF x = "intent" THEN {TRUE} ELSE {}))
                                 \cup (IF x = "trusted" THEN {FALSE} ELSE {})
    <2>1. \A x, z : Of({y}, x, z) = IF "intent" = x /\ r = z THEN {TRUE} ELSE {}
      BY OfPut DEF y
    <2>2. \A x, z : Of({t}, x, z) = IF "trusted" = x /\ r = z THEN {FALSE} ELSE {}
      BY OfPut DEF t
    <2>3. \A x : Of(D0 \cup {y}, x, r) = Of(D0, x, r) \cup Of({y}, x, r)
      BY OfJoined
    <2>4. \A x : Of((D0 \cup {y}) \cup {t}, x, r) = Of(D0 \cup {y}, x, r) \cup Of({t}, x, r)
      BY OfJoined
    <2>5. \A x : Of(G2, x, r) = (Of(D0, x, r) \cup Of({y}, x, r)) \cup Of({t}, x, r)
      BY <1>16, <2>3, <2>4
    <2>6. \A x : Of({y}, x, r) = (IF x = "intent" THEN {TRUE} ELSE {})
      BY <2>1
    <2>7. \A x : Of({t}, x, r) = (IF x = "trusted" THEN {FALSE} ELSE {})
      BY <2>2
    <2> QED
      BY <2>5, <2>6, <2>7
  <1>18. /\ Of(G2, "intent", r) = {TRUE} /\ Of(G2, "bury", r) = {} /\ Of(G2, "dirty", r) = {}
         /\ Of(G2, "tomb", r) = {}
    BY <1>11, <1>17
  <1>19. Of(G2, "manifest", r) = Of(D0, "manifest", r)
    <2>1. Of(G2, "manifest", r) = Of(D0, "manifest", r) \cup {} \cup {}
      BY <1>17
    <2> QED
      BY <2>1
  <1>20. Intended(r, G2)
    BY <1>18 DEF Intended
  <1>21. Ended(r, G2)
    BY <1>6, <1>12, <1>19 DEF Ended
  <1>26. \A s \in SlotsOf(r) : NoMoreReceipts(s, G2)
    <2>3. y.what = "intent" /\ t.what = "trusted"
      BY DEF y, t, Put
    <2>1. \A w \in G2 : w \in D0 \/ w.what \in {"intent", "trusted"}
      BY <1>16, <2>3
    <2> QED
      BY <1>25, <2>1, NoMoreMore
  <1>22. Good(Resume(r), G2)
    BY <1>1, <1>3, <1>4, <1>18, <1>20, <1>21, <1>24, <1>26, ResumeGood
  <1>23. Good(B \o Resume(r), {})
    BY <1>15, <1>22, GoodJoined DEF G2
  <1> QED
    BY <1>23 DEF B, A, y, t, m

-----------------------------------------------------------------------------
(* The end of a batch.                                                     *)
Held == {r \in Rounds : dirty[r] # None}
HeldManifests == {Put("manifest", r, dirty[r]) : r \in Held}
HeldRows == {Put("index", r, Summary(dirty[r])) : r \in Held}

(* What the manifests and rows of a batch write.                           *)
LEMMA HeldOf ==
    ASSUME NEW D, D \subseteq HeldManifests \cup HeldRows, NEW r
    PROVE  /\ \A x \in Of(D, "manifest", r) : x = dirty[r]
           /\ \A x \in Of(D, "index", r) : x = Summary(dirty[r])
           /\ \A y : /\ Of(D, "intent", y) = {} /\ Of(D, "bury", y) = {} /\ Of(D, "dirty", y) = {}
                     /\ Of(D, "active", y) = {} /\ Of(D, "inactive", y) = {} /\ Of(D, "measurement", y) = {}
  <1>1. ASSUME NEW w \in D
        PROVE  /\ w.what \in {"manifest", "index"}
               /\ w.what = "manifest" => w.value = dirty[w.where]
               /\ w.what = "index" => w.value = Summary(dirty[w.where])
    <2>1. CASE w \in HeldManifests
      <3>1. PICK q \in Held : w = Put("manifest", q, dirty[q])
        BY <2>1 DEF HeldManifests
      <3>2. w.what = "manifest" /\ w.where = q /\ w.value = dirty[q]
        BY <3>1, PutIs
      <3> QED
        BY <3>2
    <2>2. CASE w \in HeldRows
      <3>1. PICK q \in Held : w = Put("index", q, Summary(dirty[q]))
        BY <2>2 DEF HeldRows
      <3>2. w.what = "index" /\ w.where = q /\ w.value = Summary(dirty[q])
        BY <3>1, PutIs
      <3> QED
        BY <3>2
    <2> QED
      BY <2>1, <2>2
  <1>2. \A x \in Of(D, "manifest", r) : x = dirty[r]
    BY <1>1 DEF Of
  <1>3. \A x \in Of(D, "index", r) : x = Summary(dirty[r])
    BY <1>1 DEF Of
  <1>4. \A y : /\ Of(D, "intent", y) = {} /\ Of(D, "bury", y) = {} /\ Of(D, "dirty", y) = {}
               /\ Of(D, "active", y) = {} /\ Of(D, "inactive", y) = {} /\ Of(D, "measurement", y) = {}
    BY <1>1 DEF Of
  <1> QED
    BY <1>2, <1>3, <1>4

(* A manifest that a batch holds back may be written.                      *)
LEMMA HeldProper ==
    ASSUME Sound, NEW r \in Held
    PROVE  /\ r \in Rounds /\ dirty[r] \in Manifests(r) /\ Proper(r, dirty[r])
           /\ Put("manifest", r, dirty[r]) \in Writes
           /\ Put("index", r, Summary(dirty[r])) \in Writes
           /\ Summary(dirty[r]) # None
  <1>1. r \in Rounds /\ dirty[r] # None /\ View(r) = dirty[r]
    BY DEF Held, View
  <1>2. Visible(r)
    BY <1>1 DEF Visible, Sound, SoundBatch
  <1>3. Proper(r, dirty[r])
    BY <1>1, <1>2, ViewProper
  <1>4. dirty[r] \in Manifests(r)
    BY <1>3 DEF Proper
  <1> QED
    BY <1>1, <1>3, <1>4, ManifestTyped, KindsOfWrites, RowIsEntry

(* It is ready among the manifests of its batch.                           *)
LEMMA HeldManifestReady ==
    ASSUME Sound, NEW r \in Held, NEW D, D \subseteq HeldManifests
    PROVE  Ready(Put("manifest", r, dirty[r]), D)
  <1> DEFINE m == dirty[r]
  <1>1. r \in Rounds /\ m \in Manifests(r) /\ Proper(r, m)
    BY HeldProper
  <1>2. \/ Late(r, {}) \/ r \in active
        \/ m.slots = manifest[r].slots /\ index[r] = Summary(m) /\ Terminal(manifest[r])
    BY <1>1, ProperReady
  <1> HIDE DEF m
  <1>3. /\ \A x \in Of(D, "manifest", r) : x = m
        /\ \A y : /\ Of(D, "intent", y) = {} /\ Of(D, "bury", y) = {} /\ Of(D, "dirty", y) = {}
                  /\ Of(D, "active", y) = {} /\ Of(D, "inactive", y) = {} /\ Of(D, "measurement", y) = {}
    BY HeldOf DEF m
  <1>4. Of(D, "index", r) = {}
    <2>1. \A w \in D : w.what # "index"
      <3>1. ASSUME NEW w \in D PROVE w.what # "index"
        <4>1. PICK q \in Held : w = Put("manifest", q, dirty[q])
          BY DEF HeldManifests
        <4>2. w.what = "manifest"
          BY <4>1, PutIs
        <4> QED
          BY <4>2
      <3> QED
        BY <3>1
    <2> QED
      BY <2>1, OfKinds
  <1>5. Late(r, {}) => Late(r, D)
    <2>1. {} \cup D = D
      OBVIOUS
    <2>2. Late(r, {}) => Late(r, {} \cup D)
      BY LateMore
    <2> QED
      BY <2>1, <2>2
  <1>6. Untouched(r, D)
    BY <1>1, <1>3 DEF Untouched, Proper
  <1>7. StaysListed(r, D) <=> r \in active
    BY <1>3 DEF StaysListed, Dropped
  <1>8. Backed(r, m, D)
    BY <1>1, <1>3, OfNone DEF Proper, Backed
  <1>9. ~Terminal(m) => ~Terminal(manifest[r]) /\ r \in active
    BY <1>1 DEF Sound, UnfinishedIsListed, Proper
  <1>10. ReadyState(r, m, D)
    BY <1>1, <1>3, <1>6, <1>7, <1>8, <1>9 DEF ReadyState, Proper
  <1>11. Late(r, D) \/ StaysListed(r, D) \/ Becomes(D, "index", r, index[r], Summary(m))
    BY <1>2, <1>4, <1>5, <1>7 DEF Becomes
  <1>12. ReadyManifest(r, m, D)
    BY <1>3, <1>10, <1>11 DEF ReadyManifest, m
  <1> QED
    BY <1>12, ReadyPut DEF m

(* After all manifests of the batch it is the one of its round.            *)
LEMMA HeldBecomes ==
    ASSUME Sound, NEW r \in Held, NEW D, HeldManifests \subseteq D, D \subseteq HeldManifests \cup HeldRows
    PROVE  /\ Becomes(D, "manifest", r, manifest[r], dirty[r]) /\ dirty[r] \in Of(D, "manifest", r)
           /\ Untouched(r, D) /\ Of(D, "dirty", r) = {}
  <1>1. Put("manifest", r, dirty[r]) \in D
    BY DEF HeldManifests
  <1>2. dirty[r] \in Of(D, "manifest", r)
    BY <1>1, OfHas
  <1>3. Becomes(D, "manifest", r, manifest[r], dirty[r])
    BY <1>2, HeldOf DEF Becomes
  <1>4. Proper(r, dirty[r])
    BY HeldProper
  <1>5. Untouched(r, D) /\ Of(D, "dirty", r) = {}
    BY <1>4, HeldOf DEF Untouched, Proper
  <1> QED
    BY <1>2, <1>3, <1>5

(* Its row is ready after all manifests.                                   *)
LEMMA HeldRowReady ==
    ASSUME Sound, NEW r \in Held, NEW D, HeldManifests \subseteq D, D \subseteq HeldManifests \cup HeldRows
    PROVE  Ready(Put("index", r, Summary(dirty[r])), D)
  <1>1. dirty[r] \in Manifests(r) /\ Summary(dirty[r]) # None
    BY HeldProper
  <1>2. Becomes(D, "manifest", r, manifest[r], dirty[r]) /\ Untouched(r, D) /\ dirty[r] \in Of(D, "manifest", r)
    BY HeldBecomes
  <1>3. Exists(r, D)
    BY <1>2 DEF Exists
  <1>4. ReadyIndex(r, Summary(dirty[r]), D)
    BY <1>1, <1>2, <1>3 DEF ReadyIndex
  <1> QED
    BY <1>4, ReadyPut

(* The finished rounds may leave the list after all rows.                  *)
LEMMA FinishedReady ==
    ASSUME Sound, NEW D, HeldManifests \subseteq D, D \subseteq HeldManifests \cup HeldRows,
           \A r \in Held : index[r] # Summary(dirty[r]) => Put("index", r, Summary(dirty[r])) \in D
    PROVE  Ready(Put("inactive", None, Finished(Held)), D)
  <1>1. ASSUME NEW r \in Finished(Held) PROVE ReadyDrop(r, D)
    <2>1. r \in Held /\ Terminal(dirty[r])
      BY DEF Finished
    <2>2. /\ Becomes(D, "manifest", r, manifest[r], dirty[r]) /\ dirty[r] \in Of(D, "manifest", r)
          /\ Of(D, "dirty", r) = {}
      BY <2>1, HeldBecomes
    <2>3. dirty[r] \in Manifests(r)
      BY <2>1, HeldProper
    <2>4. index[r] # Summary(dirty[r]) => Summary(dirty[r]) \in Of(D, "index", r)
      BY <2>1, OfHas
    <2>5. Becomes(D, "index", r, index[r], Summary(dirty[r]))
      BY <2>4, HeldOf DEF Becomes
    <2>6. Ended(r, D) /\ Indexed(r, D)
      BY <2>1, <2>2, <2>3, <2>5 DEF Ended, Indexed
    <2> QED
      BY <2>2, <2>6 DEF ReadyDrop
  <1> QED
    BY <1>1, ReadyPut

-----------------------------------------------------------------------------
(* The order a batch writes its rounds in has all of them.                 *)
LEMMA OrderIs ==
    ASSUME NEW order \in SetToSeqs(Held)
    PROVE  /\ Cardinality(Held) \in Nat /\ order \in [1..Cardinality(Held) -> Held]
           /\ DOMAIN order = 1..Cardinality(Held) /\ ToSet(order) = Held
           /\ \A r \in Held : \E i \in 1..Cardinality(Held) : order[i] = r
  <1>1. IsFiniteSet(Held)
    BY StoreConstants, FS_Subset DEF Held
  <1>2. /\ Cardinality(Held) \in Nat /\ order \in [1..Cardinality(Held) -> Held]
        /\ DOMAIN order = 1..Cardinality(Held) /\ ToSet(order) = Held
        /\ {order[i] : i \in 1..Cardinality(Held)} = Held
    BY <1>1, SetToSeqsIs
  <1> QED
    BY <1>2

(* The manifests at the end of a batch are in order.                       *)
LEMMA ManifestWrites ==
    ASSUME Sound, NEW order \in SetToSeqs(Held)
    PROVE  LET P == FlattenSeq([i \in DOMAIN order |-> <<Put("manifest", order[i], dirty[order[i]])>>])
           IN Good(P, {}) /\ All(P) = HeldManifests
  <1> DEFINE n == Cardinality(Held)
             g == [i \in DOMAIN order |-> <<Put("manifest", order[i], dirty[order[i]])>>]
  <1>1. /\ n \in Nat /\ DOMAIN order = 1..n
        /\ \A i \in 1..n : order[i] \in Held
        /\ \A r \in Held : \E i \in 1..n : order[i] = r
    BY OrderIs
  <1> HIDE DEF n
  <1>2. \A i \in 1..n : g[i] = <<Put("manifest", order[i], dirty[order[i]])>>
    BY <1>1
  <1>3. \A i \in 1..n : g[i] \in Seq(Writes) /\ All(g[i]) = {Put("manifest", order[i], dirty[order[i]])}
    BY <1>1, <1>2, HeldProper, OneWrite
  <1>4. g \in [1..n -> Seq(Writes)]
    BY <1>1, <1>2, <1>3
  <1> HIDE DEF g
  <1>5. FlattenSeq(g) \in Seq(Writes) /\ All(FlattenSeq(g)) = UNION {All(g[i]) : i \in 1..n}
    BY <1>1, <1>4, FlattenIs
  <1>6. All(FlattenSeq(g)) = HeldManifests
    <2>1. ASSUME NEW w \in All(FlattenSeq(g)) PROVE w \in HeldManifests
      <3>1. PICK i \in 1..n : w \in All(g[i])
        BY <1>5, InUnion
      <3>2. w = Put("manifest", order[i], dirty[order[i]]) /\ order[i] \in Held
        BY <1>1, <1>3, <3>1
      <3> QED
        BY <3>2 DEF HeldManifests
    <2>2. ASSUME NEW w \in HeldManifests PROVE w \in All(FlattenSeq(g))
      <3>1. PICK r \in Held : w = Put("manifest", r, dirty[r])
        BY DEF HeldManifests
      <3>2. PICK i \in 1..n : order[i] = r
        BY <1>1
      <3>3. w \in All(g[i])
        BY <1>3, <3>1, <3>2
      <3> QED
        BY <1>5, <3>3, InUnion
    <2> QED
      BY <2>1, <2>2
  <1>7. ASSUME NEW w \in HeldManifests, NEW D \in SUBSET ({} \cup HeldManifests) PROVE Ready(w, D)
    <2>1. PICK r \in Held : w = Put("manifest", r, dirty[r])
      BY DEF HeldManifests
    <2>2. D \subseteq HeldManifests
      OBVIOUS
    <2> QED
      BY <2>1, <2>2, HeldManifestReady
  <1>8. InOrder(FlattenSeq(g), {})
    BY <1>5, <1>6, <1>7, AnyOrder
  <1> QED
    BY <1>5, <1>6, <1>8 DEF Good, g

(* The rows after them are.                                                *)
LEMMA RowWrites ==
    ASSUME Sound, NEW order \in SetToSeqs(Held)
    PROVE  LET P == FlattenSeq([i \in DOMAIN order |-> IndexRow(order[i], dirty[order[i]])])
           IN /\ Good(P, HeldManifests) /\ All(P) \subseteq HeldRows
              /\ \A r \in Held : index[r] # Summary(dirty[r]) =>
                   Put("index", r, Summary(dirty[r])) \in All(P)
  <1> DEFINE n == Cardinality(Held)
             g == [i \in DOMAIN order |-> IndexRow(order[i], dirty[order[i]])]
             W == {Put("index", r, Summary(dirty[r])) : r \in {q \in Held : index[q] # Summary(dirty[q])}}
  <1>1. /\ n \in Nat /\ DOMAIN order = 1..n
        /\ \A i \in 1..n : order[i] \in Held
        /\ \A r \in Held : \E i \in 1..n : order[i] = r
    BY OrderIs
  <1> HIDE DEF n
  <1>2. \A i \in 1..n : g[i] = IndexRow(order[i], dirty[order[i]])
    BY <1>1
  <1>3. ASSUME NEW r \in Held
        PROVE  /\ IndexRow(r, dirty[r]) \in Seq(Writes)
               /\ All(IndexRow(r, dirty[r])) =
                    IF index[r] # Summary(dirty[r]) THEN {Put("index", r, Summary(dirty[r]))} ELSE {}
    BY HeldProper, OneWrite, NoWrite DEF IndexRow, When
  <1>4. g \in [1..n -> Seq(Writes)]
    BY <1>1, <1>2, <1>3
  <1> HIDE DEF g
  <1>5. FlattenSeq(g) \in Seq(Writes) /\ All(FlattenSeq(g)) = UNION {All(g[i]) : i \in 1..n}
    BY <1>1, <1>4, FlattenIs
  <1>6. ASSUME NEW w \in All(FlattenSeq(g)) PROVE w \in HeldRows
    <2>1. PICK i \in 1..n : w \in All(g[i])
      BY <1>5, InUnion
    <2>2. PICK r \in Held : r = order[i]
      BY <1>1, <2>1
    <2>3. w \in All(IndexRow(r, dirty[r]))
      BY <1>2, <2>1, <2>2
    <2>4. All(IndexRow(r, dirty[r])) =
            IF index[r] # Summary(dirty[r]) THEN {Put("index", r, Summary(dirty[r]))} ELSE {}
      BY <1>3
    <2>5. w = Put("index", r, Summary(dirty[r]))
      BY <2>3, <2>4
    <2> QED
      BY <2>5 DEF HeldRows
  <1>7. ASSUME NEW r \in Held, index[r] # Summary(dirty[r])
        PROVE  Put("index", r, Summary(dirty[r])) \in All(FlattenSeq(g))
    <2>1. PICK i \in 1..n : order[i] = r
      BY <1>1
    <2>2. Put("index", r, Summary(dirty[r])) \in All(g[i])
      BY <1>2, <1>3, <1>7, <2>1
    <2> QED
      BY <1>5, <2>2, InUnion
  <1>8. ASSUME NEW w \in All(FlattenSeq(g)), NEW D \in SUBSET (HeldManifests \cup All(FlattenSeq(g))),
               HeldManifests \subseteq D
        PROVE  Ready(w, D)
    <2>1. PICK r \in Held : w = Put("index", r, Summary(dirty[r]))
      BY <1>6 DEF HeldRows
    <2>2. D \subseteq HeldManifests \cup HeldRows
      BY <1>6
    <2> QED
      BY <1>8, <2>1, <2>2, HeldRowReady
  <1>9. InOrder(FlattenSeq(g), HeldManifests)
    BY <1>5, <1>8, AnyOrder
  <1> QED
    BY <1>5, <1>6, <1>7, <1>9 DEF Good, g

(* The notes in memory after those are.                                    *)
LEMMA TrustWrites ==
    ASSUME NEW order \in SetToSeqs(Held), NEW G
    PROVE  LET P == FlattenSeq([i \in DOMAIN order |-> <<Put("trusted", order[i], TRUE)>>])
           IN Good(P, G) /\ \A w \in All(P) : w.what = "trusted"
  <1> DEFINE n == Cardinality(Held)
             g == [i \in DOMAIN order |-> <<Put("trusted", order[i], TRUE)>>]
  <1>1. /\ n \in Nat /\ DOMAIN order = 1..n
        /\ \A i \in 1..n : order[i] \in Rounds
    BY OrderIs DEF Held
  <1> HIDE DEF n
  <1>2. \A i \in 1..n : g[i] = <<Put("trusted", order[i], TRUE)>>
    BY <1>1
  <1>3. ASSUME NEW r \in Rounds
        PROVE  /\ <<Put("trusted", r, TRUE)>> \in Seq(Writes)
               /\ \A w \in All(<<Put("trusted", r, TRUE)>>) : w.what = "trusted"
    <2> DEFINE w == Put("trusted", r, TRUE)
    <2>1. w \in Writes /\ w.what = "trusted"
      BY KindsOfWrites DEF Put
    <2> HIDE DEF w
    <2>2. <<w>> \in Seq(Writes) /\ All(<<w>>) = {w}
      BY <2>1, OneWrite
    <2> QED
      BY <2>1, <2>2 DEF w
  <1>4. g \in [1..n -> Seq(Writes)]
    BY <1>1, <1>2, <1>3
  <1>5. \A i \in 1..n : \A w \in All(g[i]) : w.what = "trusted"
    BY <1>1, <1>2, <1>3
  <1> HIDE DEF g
  <1>6. FlattenSeq(g) \in Seq(Writes) /\ All(FlattenSeq(g)) = UNION {All(g[i]) : i \in 1..n}
    BY <1>1, <1>4, FlattenIs
  <1>7. ASSUME NEW w \in All(FlattenSeq(g)) PROVE w.what = "trusted"
    BY <1>5, <1>6, InUnion
  <1>8. \A w \in All(FlattenSeq(g)), D \in SUBSET (G \cup All(FlattenSeq(g))) : G \subseteq D => Ready(w, D)
    BY <1>6, <1>7, AllWrites, FreeWrite
  <1>9. InOrder(FlattenSeq(g), G)
    BY <1>6, <1>8, AnyOrder
  <1> QED
    BY <1>6, <1>7, <1>9 DEF Good, g

Flushes == {"manifest", "index", "inactive", "trusted", "close"}

(* The end of a batch is in order, and makes writes of five kinds only.    *)
LEMMA FlushGood ==
    ASSUME Sound, NEW order \in SetToSeqs(Held), NEW failed \in BOOLEAN
    PROVE  Good(Flush(order, failed), {}) /\ \A w \in All(Flush(order, failed)) : w.what \in Flushes
  <1> DEFINE P1 == FlattenSeq([i \in DOMAIN order |-> <<Put("manifest", order[i], dirty[order[i]])>>])
             P2 == FlattenSeq([i \in DOMAIN order |-> IndexRow(order[i], dirty[order[i]])])
             c == Finished(Held) # {}
             w3 == Put("inactive", None, Finished(Held))
             P3 == When(c, <<w3>>)
             P4 == FlattenSeq([i \in DOMAIN order |-> <<Put("trusted", order[i], TRUE)>>])
             w5 == Put("close", None, failed)
  <1>1. Good(P1, {}) /\ All(P1) = HeldManifests
    BY ManifestWrites
  <1>2. /\ Good(P2, HeldManifests) /\ All(P2) \subseteq HeldRows
        /\ \A r \in Held : index[r] # Summary(dirty[r]) => Put("index", r, Summary(dirty[r])) \in All(P2)
    BY RowWrites
  <1>3. \A G : Good(P4, G) /\ \A w \in All(P4) : w.what = "trusted"
    BY TrustWrites
  <1>4. ToSet(order) = Held
    BY OrderIs
  <1>5. Flush(order, failed) = (((P1 \o P2) \o P3) \o P4) \o <<w5>>
    BY <1>4 DEF Flush
  <1>6. w3 \in Writes /\ w5 \in Writes
    BY KindsOfWrites DEF Finished, Held
  <1>7. w3.what = "inactive" /\ w5.what = "close"
    BY PutIs
  <1>8. ASSUME NEW w \in HeldManifests \cup HeldRows PROVE w.what \in {"manifest", "index"}
    <2>1. (\E r \in Held : w = Put("manifest", r, dirty[r])) \/ (\E r \in Held : w = Put("index", r, Summary(dirty[r])))
      BY DEF HeldManifests, HeldRows
    <2> QED
      BY <2>1, PutIs
  <1> HIDE DEF P1, P2, c, P4, w5
  <1>9. Good(P1 \o P2, {}) /\ All(P1 \o P2) = All(P1) \cup All(P2)
    <2>1. {} \cup All(P1) = HeldManifests
      BY <1>1
    <2> QED
      BY <1>1, <1>2, <2>1, GoodJoined
  <1> DEFINE A == P1 \o P2
             G == {} \cup All(A)
  <1>10. Good(P3, G) /\ All(P3) \subseteq {w3}
    <2>1. HeldManifests \subseteq G /\ G \subseteq HeldManifests \cup HeldRows
      BY <1>1, <1>2, <1>9
    <2>2. \A r \in Held : index[r] # Summary(dirty[r]) => Put("index", r, Summary(dirty[r])) \in G
      BY <1>2, <1>9
    <2> HIDE DEF G
    <2>3. Ready(w3, G)
      BY <2>1, <2>2, FinishedReady
    <2>4. c \in BOOLEAN
      BY DEF c
    <2> HIDE DEF w3
    <2> QED
      BY <1>6, <2>3, <2>4, GoodWhen
  <1> HIDE DEF P3, w3, A
  <1>11. Good(A \o P3, {}) /\ All(A \o P3) = All(A) \cup All(P3)
    BY <1>9, <1>10, GoodJoined DEF A
  <1>12. Good((A \o P3) \o P4, {}) /\ All((A \o P3) \o P4) = All(A \o P3) \cup All(P4)
    BY <1>3, <1>11, GoodJoined
  <1> DEFINE T == (A \o P3) \o P4
             U == {} \cup All(T)
  <1>13. Good(T, {}) /\ All(T) = All(A \o P3) \cup All(P4)
    BY <1>12
  <1> HIDE DEF T
  <1>14. Good(<<w5>>, U) /\ All(<<w5>>) = {w5}
    <2> HIDE DEF U
    <2>1. Ready(w5, U)
      BY ReadyPut DEF w5
    <2> QED
      BY <1>6, <2>1, GoodOne
  <1>15. Good(T \o <<w5>>, {}) /\ All(T \o <<w5>>) = All(T) \cup {w5}
    <2> DEFINE V == <<w5>>
    <2>1. Good(V, {} \cup All(T)) /\ All(V) = {w5}
      BY <1>14
    <2> HIDE DEF V
    <2>2. Good(T \o V, {}) /\ All(T \o V) = All(T) \cup All(V)
      BY <1>13, <2>1, GoodJoined
    <2> QED
      BY <2>1, <2>2 DEF V
  <1>16. ASSUME NEW w \in All(T \o <<w5>>) PROVE w.what \in Flushes
    <2>1. w \in HeldManifests \cup HeldRows \/ w = w3 \/ w \in All(P4) \/ w = w5
      BY <1>1, <1>2, <1>9, <1>10, <1>11, <1>13, <1>15 DEF A
    <2>2. w.what \in {"manifest", "index", "inactive", "trusted", "close"}
      BY <1>3, <1>7, <1>8, <2>1
    <2> QED
      BY <2>2 DEF Flushes
  <1> QED
    BY <1>5, <1>15, <1>16 DEF A, T

-----------------------------------------------------------------------------
(* Steps that leave the files alone.                                       *)
Rests == UNCHANGED <<files, dirty>>

(* The files one by one.                                                   *)
LEMMA RestIs ==
    ASSUME Rests
    PROVE  /\ manifest' = manifest /\ measured' = measured /\ receipt' = receipt
           /\ fullReceipt' = fullReceipt /\ recordedOn' = recordedOn
           /\ index' = index /\ active' = active
           /\ intent' = intent /\ tomb' = tomb /\ dirty' = dirty
  BY DEF Rests, files

(* What Ready says of a deletion stays when the files do.                  *)
LEMMA RestDeletion ==
    ASSUME Rests, NEW r, NEW D
    PROVE  /\ Untouched(r, D)' <=> Untouched(r, D)
           /\ Intended(r, D)' <=> Intended(r, D)
           /\ Exists(r, D)' <=> Exists(r, D)
           /\ Buried(r, D)' <=> Buried(r, D)
           /\ Cleared(r, D)' <=> Cleared(r, D)
  <1>1. Untouched(r, D)' <=> Untouched(r, D)
    BY RestIs DEF Untouched
  <1>2. Intended(r, D)' <=> Intended(r, D)
    BY RestIs DEF Intended
  <1>3. Exists(r, D)' <=> Exists(r, D)
    BY RestIs DEF Exists
  <1>4. Buried(r, D)' <=> Buried(r, D)
    BY <1>3 DEF Buried
  <1>5. \A s : WithoutReceipt(s, D)' <=> WithoutReceipt(s, D)
    BY RestIs DEF WithoutReceipt, NoMoreReceipts
  <1>6. Cleared(r, D)' <=> Cleared(r, D)
    BY <1>5, RestIs DEF Cleared
  <1> QED
    BY <1>1, <1>2, <1>3, <1>4, <1>6

(* So does what it says of list, row and measurements.                     *)
LEMMA RestRound ==
    ASSUME Rests, NEW r, NEW D
    PROVE  /\ StaysListed(r, D)' <=> StaysListed(r, D)
           /\ Ended(r, D)' <=> Ended(r, D)
           /\ Late(r, D)' <=> Late(r, D)
           /\ Indexed(r, D)' <=> Indexed(r, D)
           /\ \A m : Backed(r, m, D)' <=> Backed(r, m, D)
  <1>1. StaysListed(r, D)' <=> StaysListed(r, D)
    BY RestIs DEF StaysListed
  <1>2. Ended(r, D)' <=> Ended(r, D)
    BY RestIs DEF Ended
  <1>3. Late(r, D)' <=> Late(r, D)
    BY RestIs DEF Late
  <1>4. Indexed(r, D)' <=> Indexed(r, D)
    BY <1>3, RestIs, RestDeletion DEF Indexed
  <1>5. ASSUME NEW m PROVE Backed(r, m, D)' <=> Backed(r, m, D)
    BY RestIs DEF Backed
  <1> QED
    BY <1>1, <1>2, <1>3, <1>4, <1>5

(* So do the conditions of the writes of a batch.                          *)
LEMMA RestFlush ==
    ASSUME Rests, NEW r, NEW x, NEW D
    PROVE  /\ ReadyState(r, x, D)' <=> ReadyState(r, x, D)
           /\ ReadyManifest(r, x, D)' <=> ReadyManifest(r, x, D)
           /\ ReadyIndex(r, x, D)' <=> ReadyIndex(r, x, D)
           /\ ReadyDrop(r, D)' <=> ReadyDrop(r, D)
  <1>1. ReadyState(r, x, D)' <=> ReadyState(r, x, D)
    BY RestIs, RestDeletion, RestRound DEF ReadyState
  <1>2. ReadyManifest(r, x, D)' <=> ReadyManifest(r, x, D)
    BY <1>1, RestIs, RestRound DEF ReadyManifest
  <1>3. ReadyIndex(r, x, D)' <=> ReadyIndex(r, x, D)
    BY RestIs, RestDeletion, RestRound DEF ReadyIndex
  <1>4. ReadyDrop(r, D)' <=> ReadyDrop(r, D)
    BY RestIs, RestRound DEF ReadyDrop
  <1> QED
    BY <1>1, <1>2, <1>3, <1>4

(* The others stay when mode, queue, settled jobs and clock do.            *)
LEMMA RestOthers ==
    ASSUME Rests, mode' = mode, settled' = settled, queued' = queued, day' = day, NEW y, NEW x, NEW D
    PROVE  /\ ReadyDirty(y, x, D)' <=> ReadyDirty(y, x, D)
           /\ ReadyMeasurement(y, x, D)' <=> ReadyMeasurement(y, x, D)
           /\ \A d : ReadyReceipt(y, d, x, D)' <=> ReadyReceipt(y, d, x, D)
           /\ ReadyFullReceipt(y, x, D)' <=> ReadyFullReceipt(y, x, D)
           /\ ReadySettled(y, x, D)' <=> ReadySettled(y, x, D)
           /\ ReadyIntent(y, x, D)' <=> ReadyIntent(y, x, D)
           /\ ReadyBury(y, D)' <=> ReadyBury(y, D)
           /\ ReadyTomb(y, x, D)' <=> ReadyTomb(y, x, D)
  <1>1. ReadyDirty(y, x, D)' <=> ReadyDirty(y, x, D)
    BY RestIs, RestFlush, RestRound DEF ReadyDirty
  <1>2. ReadyMeasurement(y, x, D)' <=> ReadyMeasurement(y, x, D)
    BY RestIs, RestDeletion DEF ReadyMeasurement, Follows, Receipted, Receipts, Honest
  <1>8. /\ Measured(y, D)' <=> Measured(y, D)
        /\ KeepsDate(y, D)' <=> KeepsDate(y, D)
        /\ RecordedToday(y, D)' <=> RecordedToday(y, D)
    BY RestIs DEF Measured, KeepsDate, Waits, RecordedToday
  <1>3. \A d : ReadyReceipt(y, d, x, D)' <=> ReadyReceipt(y, d, x, D)
    BY <1>8, RestIs, RestDeletion DEF ReadyReceipt
  <1>10. ReadyFullReceipt(y, x, D)' <=> ReadyFullReceipt(y, x, D)
    BY <1>8, RestIs, RestDeletion DEF ReadyFullReceipt
  <1>4. ReadySettled(y, x, D)' <=> ReadySettled(y, x, D)
    BY <1>8, RestIs DEF ReadySettled
  <1>11. \A s : NoMoreReceipts(s, D)' <=> NoMoreReceipts(s, D)
    BY DEF NoMoreReceipts
  <1>12. \A s : Dated(s)' <=> Dated(s)
    BY RestIs DEF Dated
  <1>5. ReadyIntent(y, x, D)' <=> ReadyIntent(y, x, D)
    BY <1>11, <1>12, RestIs, RestDeletion, RestRound DEF ReadyIntent
  <1>6. ReadyBury(y, D)' <=> ReadyBury(y, D)
    BY RestIs, RestDeletion DEF ReadyBury
  <1>7. ReadyTomb(y, x, D)' <=> ReadyTomb(y, x, D)
    BY RestDeletion DEF ReadyTomb
  <1> QED
    BY <1>1, <1>2, <1>3, <1>4, <1>5, <1>6, <1>7, <1>10

(* So a write that was ready is ready.                                     *)
LEMMA StaysReady ==
    ASSUME Rests, NEW w, NEW D, Ready(w, D),
           w.what \in Flushes \/ (mode' = mode /\ settled' = settled /\ queued' = queued /\ day' = day)
    PROVE  Ready(w, D)'
  <1>1. CASE w.what \in Flushes
    BY <1>1, RestFlush DEF Ready, Flushes
  <1>2. CASE mode' = mode /\ settled' = settled /\ queued' = queued /\ day' = day
    <2>1. \A y, x : /\ ReadyDirty(y, x, D)' <=> ReadyDirty(y, x, D)
                    /\ ReadyMeasurement(y, x, D)' <=> ReadyMeasurement(y, x, D)
                    /\ ReadyFullReceipt(y, x, D)' <=> ReadyFullReceipt(y, x, D)
                    /\ ReadySettled(y, x, D)' <=> ReadySettled(y, x, D)
                    /\ ReadyIntent(y, x, D)' <=> ReadyIntent(y, x, D)
                    /\ ReadyBury(y, D)' <=> ReadyBury(y, D)
                    /\ ReadyTomb(y, x, D)' <=> ReadyTomb(y, x, D)
      BY <1>2, RestOthers
    <2>2. ReadyReceipt(w.where[1], w.where[2], w.value, D)' <=> ReadyReceipt(w.where[1], w.where[2], w.value, D)
      BY <1>2, RestOthers
    <2>3. \A r, x : /\ ReadyManifest(r, x, D)' <=> ReadyManifest(r, x, D)
                    /\ ReadyIndex(r, x, D)' <=> ReadyIndex(r, x, D)
                    /\ ReadyDrop(r, D)' <=> ReadyDrop(r, D)
      BY RestFlush
    <2> QED
      BY <2>1, <2>2, <2>3 DEF Ready
  <1> QED
    BY <1>1, <1>2

(* So writes that were in order are in order.                              *)
LEMMA StaysInOrder ==
    ASSUME Rests, NEW t, Good(t, {}),
           \/ \A w \in All(t) : w.what \in Flushes
           \/ mode' = mode /\ settled' = settled /\ queued' = queued /\ day' = day
    PROVE  Good(t, {})'
  <1>1. ASSUME NEW i \in 1..Len(t) PROVE Ready(t[i], {} \cup Made(t, i))'
    <2>1. Ready(t[i], {} \cup Made(t, i))
      BY DEF Good, InOrder
    <2>2. t[i] \in All(t)
      BY DEF All
    <2> QED
      BY <2>1, <2>2, StaysReady
  <1>2. InOrder(t, {})'
    BY <1>1 DEF InOrder
  <1> QED
    BY <1>2 DEF Good

-----------------------------------------------------------------------------
Unqueued ==
    \A s \in Slots : \/ s \in queued' \/ s \notin queued
                     \/ (Receipted(s) \/ measured[s] = None) /\ s \in settled
Later == day' \in Days /\ day <= day'

(* A step that leaves the files alone keeps Sound.                         *)
LEMMA RestSound ==
    ASSUME Sound, UNCHANGED files, Good(todo, {})', mode' \in {"single", "batch", "flush"},
           settled' \subseteq settled, Unqueued, Later,
           dirty' = dirty \/ dirty' = [r \in Rounds |-> None],
           mode' = "single" => \A r \in Rounds : dirty'[r] = None
    PROVE  Sound'
  <1>1. /\ manifest' = manifest /\ measured' = measured /\ receipt' = receipt
        /\ fullReceipt' = fullReceipt /\ recordedOn' = recordedOn
        /\ index' = index /\ active' = active
        /\ intent' = intent /\ tomb' = tomb
    BY DEF files
  <1>2. Types'
    <2>1. todo' \in Seq(Writes)
      BY DEF Good
    <2>2. /\ dirty' \in [Rounds -> AnyManifest \cup {None}]
          /\ \A r \in Rounds : dirty'[r] \in Manifests(r) \cup {None}
      BY DEF Sound, Types
    <2> QED
      BY <1>1, <2>1, <2>2 DEF Sound, Types, Later
  <1>3. InOrder(todo, {})'
    BY DEF Good
  <1>4. \A r, m : Backed(r, m, {})' <=> Backed(r, m, {})
    BY <1>1 DEF Backed
  <1>5. SoundManifests'
    BY <1>1, <1>4 DEF Sound, SoundManifests
  <1>6. SoundBatch'
    <2>1. ASSUME NEW r \in Rounds, dirty'[r] # None PROVE dirty' = dirty
      BY <2>1
    <2>2. \A r : Late(r, {})' <=> Late(r, {})
      BY <1>1 DEF Late
    <2> QED
      BY <1>1, <1>4, <2>1, <2>2 DEF Sound, SoundBatch
  <1>7. SoundMeasurements'
    BY <1>1 DEF Sound, SoundMeasurements, Honest
  <1>8. SoundDeletion'
    <2>1. \A s : WithoutReceipt(s, {})' <=> WithoutReceipt(s, {})
      BY <1>1 DEF WithoutReceipt, NoMoreReceipts
    <2>2. \A r : Cleared(r, {})' <=> Cleared(r, {})
      BY <1>1, <2>1 DEF Cleared
    <2> QED
      BY <1>1, <2>2 DEF Sound, SoundDeletion
  <1>9. SettledAnswer'
    BY <1>1 DEF Sound, SettledAnswer, Receipted, Receipts
  <1>10. UnfinishedIsListed'
    BY <1>1 DEF Sound, UnfinishedIsListed
  <1>11. SettledIsIndexed'
    BY <1>1 DEF Sound, SettledIsIndexed
  <1>12. AnswerSurvives'
    BY <1>1 DEF Sound, AnswerSurvives, Unqueued, Receipted, Receipts
  <1>14. SoundReceipts'
    <2>1. ASSUME NEW s \in Slots, recordedOn[s] # None PROVE recordedOn[s] <= day'
      <3>1. recordedOn[s] <= day /\ recordedOn[s] \in Days /\ day \in Days
        BY <2>1 DEF Sound, Types, SoundReceipts
      <3>2. Days \subseteq Nat
        BY StoreConstants DEF Days
      <3>3. recordedOn[s] \in Nat /\ day \in Nat /\ day' \in Nat /\ day <= day'
        BY <3>1, <3>2 DEF Later
      <3> QED
        BY <3>1, <3>3
    <2>2. ASSUME NEW s \in Slots PROVE Dated(s)' \/ (Waits(s)' /\ RoundOf[s] \notin intent')
      <3>1. Dated(s)' <=> Dated(s)
        BY <1>1 DEF Dated
      <3>2. Waits(s) => Waits(s)'
        BY DEF Waits, Unqueued
      <3> QED
        BY <1>1, <3>1, <3>2 DEF Sound, SoundReceipts
    <2>3. ASSUME NEW s \in Slots
          PROVE  Receipts(s)' = Receipts(s) /\ \A d \in Receipts(s) : recordedOn[s] # None /\ d <= recordedOn[s]
      BY <1>1 DEF Receipts, Sound, SoundReceipts
    <2> QED
      BY <1>1, <2>1, <2>2, <2>3 DEF SoundReceipts
  <1>13. DeletionIsWhole'
    BY <1>1 DEF Sound, DeletionIsWhole
  <1> QED
    BY <1>2, <1>3, <1>5, <1>6, <1>7, <1>8, <1>9, <1>10, <1>11, <1>12, <1>13, <1>14 DEF Sound

(* The clock stands still in all steps but NextDay.                        *)
LEMMA SameDay ==
    ASSUME Types, day' = day
    PROVE  Later
  <1>1. day \in Nat
    BY StoreConstants DEF Types, Days
  <1> QED
    BY <1>1 DEF Later, Types

-----------------------------------------------------------------------------
(* The steps that start an operation, end it early, or make no write.      *)

(* An operation that starts with its writes in order keeps Sound.          *)
LEMMA RunSound ==
    ASSUME Sound, NEW t, Good(t, {}), Run(t)
    PROVE  Sound'
  <1>1. Rests /\ mode' = mode /\ settled' = settled /\ queued' = queued /\ day' = day /\ todo' = t
    BY DEF Run, Rests, memory
  <1>2. PICK u : u = t
    OBVIOUS
  <1>3. Good(u, {})
    BY <1>2
  <1>4. Good(u, {})'
    BY <1>1, <1>3, StaysInOrder
  <1>5. Good(todo, {})'
    BY <1>1, <1>2, <1>4
  <1>6. UNCHANGED files /\ Unqueued /\ dirty' = dirty
    BY <1>1 DEF Rests, Unqueued
  <1>7. mode \in {"single", "batch", "flush"} /\ (mode = "single" => \A r \in Rounds : dirty[r] = None)
    BY DEF Sound, Types, SoundBatch
  <1>8. Later
    BY <1>1, SameDay DEF Sound
  <1> QED
    BY <1>1, <1>5, <1>6, <1>7, <1>8, RestSound

(* The operations on a round keep Sound.                                   *)
LEMMA RoundOperations ==
    ASSUME Sound, NEW r \in Rounds,
           Create(r) \/ Read(r) \/ Scan(r) \/ DeleteFullRound(r) \/ ResumeFullDeletion(r)
    PROVE  Sound'
  <1>1. CASE Create(r)
    <2>1. Run(CreateWrites(r))
      BY <1>1 DEF Create
    <2> QED
      BY <1>1, <2>1, CreateGood, RunSound
  <1>2. CASE Read(r)
    <2>1. Run(IF Merged(r) # View(r) THEN Save(r, Merged(r)) ELSE <<Put("trusted", r, TRUE)>>)
      BY <1>2 DEF Read
    <2> QED
      BY <1>2, <2>1, ReadGood, RunSound
  <1>3. CASE Scan(r)
    <2>1. Run(When(r \in active, ScanWrites(r)) \o <<Put("unscanned", r, FALSE)>>)
      BY <1>3 DEF Scan
    <2> QED
      BY <1>3, <2>1, ScanGood, RunSound
  <1>4. CASE DeleteFullRound(r)
    <2>1. Run(When(Get(r) # View(r), Save(r, Get(r)))
              \o <<Put("intent", r, TRUE), Put("trusted", r, FALSE)>> \o Resume(r))
      BY <1>4 DEF DeleteFullRound
    <2> QED
      BY <1>4, <2>1, DeleteGood, RunSound
  <1>5. CASE ResumeFullDeletion(r)
    <2>1. Run(Resume(r))
      BY <1>5 DEF ResumeFullDeletion
    <2> QED
      BY <1>5, <2>1, ResumeDeletionGood, RunSound
  <1> QED
    BY <1>1, <1>2, <1>3, <1>4, <1>5

(* The operations on a slot keep Sound.                                    *)
LEMMA SlotOperations ==
    ASSUME Sound, NEW s \in Slots,
           \/ Progress(s) \/ AddUrl(s)
           \/ \E state \in Outcomes, expired \in BOOLEAN : Complete(s, Result(state, expired))
           \/ \E state \in {"ok", "partial", "failed"} : LateFull(s, state)
    PROVE  Sound'
  <1>1. CASE Progress(s)
    <2>1. Run(Save(RoundOf[s], Get(RoundOf[s])))
      BY <1>1 DEF Progress
    <2> QED
      BY <1>1, <2>1, ProgressGood, RunSound
  <1>2. CASE AddUrl(s)
    <2>1. Run(GetWrites(RoundOf[s]) \o <<Put("measurement", s, [measured[s] EXCEPT !.url = TRUE])>>)
      BY <1>2 DEF AddUrl
    <2> QED
      BY <1>2, <2>1, AddUrlGood, RunSound
  <1>3. CASE \E state \in Outcomes, expired \in BOOLEAN : Complete(s, Result(state, expired))
    <2>1. PICK state \in Outcomes, expired \in BOOLEAN : Complete(s, Result(state, expired))
      BY <1>3
    <2>2. PICK res : res = Result(state, expired)
      OBVIOUS
    <2>3. PICK t : t = GetWrites(RoundOf[s]) \o ResultWrites(s, res)
                       \o Save(RoundOf[s], [Get(RoundOf[s]) EXCEPT !.slots[s].state = Kept(s, res).state])
                       \o <<Put("settled", s, TRUE)>>
      OBVIOUS
    <2>4. Run(t)
      BY <2>1, <2>2, <2>3 DEF Complete
    <2>5. Good(t, {})
      BY <2>1, <2>2, <2>3, CompleteGood
    <2> QED
      BY <2>4, <2>5, RunSound
  <1>4. CASE \E state \in {"ok", "partial", "failed"} : LateFull(s, state)
    <2>1. PICK state \in {"ok", "partial", "failed"} : LateFull(s, state)
      BY <1>4
    <2>2. PICK t : t = GetWrites(RoundOf[s]) \o <<Put("measurement", s, LateResult(state))>>
                       \o Save(RoundOf[s], [Get(RoundOf[s]) EXCEPT !.slots[s] = [state |-> state, late |-> TRUE]])
      OBVIOUS
    <2>3. Run(t)
      BY <2>1, <2>2 DEF LateFull, LateResult
    <2>4. Good(t, {})
      BY <2>1, <2>2, LateFullGood
    <2> QED
      BY <2>3, <2>4, RunSound
  <1> QED
    BY <1>1, <1>2, <1>3, <1>4

(* A step of the controller that starts nothing.                           *)
LEMMA IdleSound ==
    ASSUME Sound, UNCHANGED files, todo' = <<>>, mode' \in {"single", "batch", "flush"},
           settled' \subseteq settled, Unqueued, Later,
           dirty' = dirty \/ dirty' = [r \in Rounds |-> None],
           mode' = "single" => \A r \in Rounds : dirty'[r] = None
    PROVE  Sound'
  <1>1. <<>> \in Seq(Writes) /\ Len(<<>>) = 0
    OBVIOUS
  <1>2. InOrder(<<>>, {})'
    BY <1>1 DEF InOrder
  <1>3. Good(todo, {})'
    BY <1>1, <1>2 DEF Good
  <1> QED
    BY <1>3, RestSound

(* A job that enters the queue keeps Sound.                                *)
LEMMA QueueSound ==
    ASSUME Sound, NEW s \in Slots, Queue(s)
    PROVE  Sound'
  <1>1. /\ UNCHANGED files /\ todo' = <<>> /\ mode' = mode /\ mode = "single"
        /\ settled' = settled /\ dirty' = dirty /\ queued' = queued \cup {s} /\ day' = day
    BY DEF Queue, memory, Idle
  <1>2. Unqueued
    BY <1>1 DEF Unqueued
  <1>3. \A r \in Rounds : dirty[r] = None
    BY <1>1 DEF Sound, SoundBatch
  <1>4. Later
    BY <1>1, SameDay DEF Sound
  <1> QED
    BY <1>1, <1>2, <1>3, <1>4, IdleSound

(* Settled jobs leave the queue with their receipts written.               *)
LEMMA DequeueSound ==
    ASSUME Sound, Dequeue
    PROVE  Sound'
  <1>1. /\ UNCHANGED files /\ todo' = <<>> /\ mode' = mode /\ mode = "single"
        /\ settled' = {} /\ dirty' = dirty /\ (queued' = queued \/ queued' = queued \ settled)
        /\ day' = day
    BY DEF Dequeue, Idle
  <1>2. Unqueued
    BY <1>1 DEF Unqueued, Sound, SettledAnswer
  <1>3. \A r \in Rounds : dirty[r] = None
    BY <1>1 DEF Sound, SoundBatch
  <1>4. Later
    BY <1>1, SameDay DEF Sound
  <1> QED
    BY <1>1, <1>2, <1>3, <1>4, IdleSound

(* The day changes between two operations.                                 *)
LEMMA NextDaySound ==
    ASSUME Sound, NextDay
    PROVE  Sound'
  <1>1. /\ UNCHANGED files /\ todo' = <<>> /\ mode' = mode /\ settled' = settled
        /\ dirty' = dirty /\ queued' = queued /\ day' = day + 1 /\ day < MaxDay
    BY DEF NextDay, memory, Idle
  <1>2. Unqueued
    BY <1>1 DEF Unqueued
  <1>3. mode \in {"single", "batch", "flush"} /\ (mode = "single" => \A r \in Rounds : dirty[r] = None)
    BY DEF Sound, Types, SoundBatch
  <1>4. Later
    <2>1. day \in 0..MaxDay /\ MaxDay \in Nat
      BY StoreConstants DEF Sound, Types, Days
    <2> QED
      BY <1>1, <2>1 DEF Later, Days
  <1> QED
    BY <1>1, <1>2, <1>3, <1>4, IdleSound

(* A batch begins with nothing held back.                                  *)
LEMMA OpenBatchSound ==
    ASSUME Sound, OpenBatch
    PROVE  Sound'
  <1>1. /\ UNCHANGED files /\ todo' = <<>> /\ mode' = "batch"
        /\ settled' = settled /\ dirty' = dirty /\ queued' = queued /\ day' = day
    BY DEF OpenBatch, Idle
  <1>2. Unqueued
    BY <1>1 DEF Unqueued
  <1>3. Later
    BY <1>1, SameDay DEF Sound
  <1> QED
    BY <1>1, <1>2, <1>3, IdleSound

(* A batch that ends, well or not, leaves its writes in order.             *)
LEMMA EndBatchSound ==
    ASSUME Sound, NEW failed \in BOOLEAN, EndBatch(failed), UNCHANGED <<files, dirty, queued, day>>,
           settled' \subseteq settled
    PROVE  Sound'
  <1>1. PICK order \in SetToSeqs(Held) : todo' = Flush(order, failed) /\ mode' = "flush"
    BY DEF EndBatch, Held
  <1>2. PICK u : u = Flush(order, failed)
    OBVIOUS
  <1>3. Good(u, {}) /\ \A w \in All(u) : w.what \in Flushes
    BY <1>2, FlushGood
  <1>4. Rests
    BY DEF Rests
  <1>5. Good(u, {})'
    BY <1>3, <1>4, StaysInOrder
  <1>6. Good(todo, {})'
    BY <1>1, <1>2, <1>5
  <1>7. Unqueued
    BY DEF Unqueued
  <1>8. Later
    BY SameDay DEF Sound
  <1> QED
    BY <1>1, <1>6, <1>7, <1>8, RestSound

(* A batch ends after its function.                                        *)
LEMMA CloseBatchSound ==
    ASSUME Sound, CloseBatch
    PROVE  Sound'
  <1>1. EndBatch(FALSE) /\ UNCHANGED <<files, dirty, queued, day>> /\ settled' = settled
    BY DEF CloseBatch
  <1> QED
    BY <1>1, EndBatchSound

(* A write that throws keeps Sound, in a batch and outside.                *)
LEMMA WriteFailsSound ==
    ASSUME Sound, WriteFails
    PROVE  Sound'
  <1>1. UNCHANGED <<files, queued, day>> /\ settled' = {}
    BY DEF WriteFails
  <1>2. CASE mode = "batch"
    <2>1. EndBatch(TRUE) /\ dirty' = dirty
      BY <1>2 DEF WriteFails
    <2> QED
      BY <1>1, <2>1, EndBatchSound
  <1>3. CASE mode # "batch"
    <2>1. todo' = <<>> /\ mode' = "single" /\ dirty' = [r \in Rounds |-> None]
      BY <1>3 DEF WriteFails
    <2>2. Unqueued
      BY <1>1 DEF Unqueued
    <2>3. Later
      BY <1>1, SameDay DEF Sound
    <2> QED
      BY <1>1, <2>1, <2>2, <2>3, IdleSound
  <1> QED
    BY <1>2, <1>3

(* The end of the process keeps Sound.                                     *)
LEMMA CrashSound ==
    ASSUME Sound, Crash
    PROVE  Sound'
  <1>1. /\ UNCHANGED <<files, queued, day>> /\ settled' = {}
        /\ todo' = <<>> /\ mode' = "single" /\ dirty' = [r \in Rounds |-> None]
    BY DEF Crash
  <1>2. Unqueued
    BY <1>1 DEF Unqueued
  <1>3. Later
    BY <1>1, SameDay DEF Sound
  <1> QED
    BY <1>1, <1>2, <1>3, IdleSound

(* Nothing happens.                                                        *)
LEMMA StutterSound ==
    ASSUME Sound, UNCHANGED vars
    PROVE  Sound'
  <1>1. /\ Rests /\ UNCHANGED <<files, queued, day>> /\ mode' = mode /\ settled' = settled
        /\ dirty' = dirty /\ todo' = todo
    BY DEF vars, memory, Rests
  <1>2. PICK u : u = todo
    OBVIOUS
  <1>3. Good(u, {})
    BY <1>2 DEF Good, Sound, Types
  <1>4. Good(u, {})'
    BY <1>1, <1>3, StaysInOrder
  <1>5. Good(todo, {})'
    BY <1>1, <1>2, <1>4
  <1>6. /\ Unqueued /\ mode \in {"single", "batch", "flush"}
        /\ (mode = "single" => \A r \in Rounds : dirty[r] = None)
    BY <1>1 DEF Sound, Types, SoundBatch, Unqueued
  <1>7. Later
    BY <1>1, SameDay DEF Sound
  <1> QED
    BY <1>1, <1>5, <1>6, <1>7, RestSound

(* Every step keeps Sound.                                                 *)
LEMMA StepSound ==
    ASSUME Sound, [Next]_vars
    PROVE  Sound'
  <1>1. CASE Write
    BY <1>1, WriteSound
  <1>2. CASE WriteFails
    BY <1>2, WriteFailsSound
  <1>3. CASE Crash
    BY <1>3, CrashSound
  <1>6. CASE NextDay
    BY <1>6, NextDaySound
  <1>4. CASE UNCHANGED vars
    BY <1>4, StutterSound
  <1>5. CASE Operation
    <2>1. CASE \E r \in Rounds : Create(r) \/ Read(r) \/ Scan(r)
                                \/ DeleteFullRound(r) \/ ResumeFullDeletion(r)
      BY <2>1, RoundOperations
    <2>2. ASSUME NEW s \in Slots, Queue(s) PROVE Sound'
      BY <2>2, QueueSound
    <2>3. ASSUME NEW s \in Slots,
                 \/ Progress(s) \/ AddUrl(s)
                 \/ \E state \in Outcomes, expired \in BOOLEAN : Complete(s, Result(state, expired))
                 \/ \E state \in {"ok", "partial", "failed"} : LateFull(s, state)
          PROVE  Sound'
      BY <2>3, SlotOperations
    <2>4. CASE OpenBatch \/ CloseBatch \/ Dequeue
      BY <2>4, OpenBatchSound, CloseBatchSound, DequeueSound
    <2> QED
      BY <1>5, <2>1, <2>2, <2>3, <2>4 DEF Operation
  <1> QED
    BY <1>1, <1>2, <1>3, <1>4, <1>5, <1>6 DEF Next

(* The empty store is sound.                                               *)
LEMMA InitSound == Init => Sound
  <1> SUFFICES ASSUME Init PROVE Sound
    OBVIOUS
  <1>1. Types
    <2>1. <<>> \in Seq(Writes)
      OBVIOUS
    <2> QED
      BY <2>1 DEF Init, Types
  <1>2. InOrder(todo, {})
    BY DEF Init, InOrder
  <1>3. /\ SoundManifests /\ SoundBatch /\ SoundMeasurements /\ SettledAnswer
        /\ UnfinishedIsListed
    BY StoreConstants DEF Init, SoundManifests, SoundBatch, SoundMeasurements, SettledAnswer, UnfinishedIsListed
  <1>4. \A r \in Rounds : Cleared(r, {})
    <2>1. \A r \in Rounds : Bare(r)
      BY StoreConstants DEF Init, Bare, SlotsOf
    <2> QED
      BY <2>1, ClearedIsBare
  <1>5. SoundDeletion
    BY <1>4, StoreConstants DEF Init, SoundDeletion
  <1>6. SettledIsIndexed
    BY DEF Init, SettledIsIndexed
  <1>7. AnswerSurvives
    BY DEF Init, AnswerSurvives, Receipts
  <1>9. SoundReceipts
    BY DEF Init, SoundReceipts, Receipts, Dated
  <1>8. DeletionIsWhole
    BY StoreConstants DEF Init, DeletionIsWhole, SlotsOf
  <1> QED
    BY <1>1, <1>2, <1>3, <1>5, <1>6, <1>7, <1>8, <1>9 DEF Sound

(* Between any two writes, before and after any crash or failed write, the *)
(* files and the memory of the store are sound, and the writes left to the *)
(* running operation are in order (round-store.js as a whole).             *)
THEOREM StoreIsSound == Spec => []Sound
  BY InitSound, StepSound, PTL DEF Spec

-----------------------------------------------------------------------------
Shown == [s \in Slots |-> IF RoundOf[s] \in intent THEN None ELSE measured[s]]

(* What shows the same to readers is no step of the ledger.                *)
LEMMA ShownStays ==
    ASSUME \A s \in Slots : Shown'[s] = Shown[s]
    PROVE  [Ledger!Next]_Shown
  <1>1. Shown = [s \in Slots |-> Shown[s]] /\ Shown' = [s \in Slots |-> Shown'[s]]
    BY DEF Shown
  <1>2. Shown' = Shown
    BY <1>1
  <1> QED
    BY <1>2

(* Neither is a step that leaves the files alone.                          *)
LEMMA ShownRests ==
    ASSUME UNCHANGED files
    PROVE  [Ledger!Next]_Shown
  <1>1. measured' = measured /\ intent' = intent
    BY DEF files
  <1> QED
    BY <1>1, ShownStays DEF Shown

(* The write that is made next is ready.                                   *)
LEMMA WriteIsReady ==
    ASSUME Sound, Write
    PROVE  Now \in Writes /\ Ready(Now, {}) /\ Types
  <1>1. Types /\ InOrder(todo, {})
    BY DEF Sound
  <1>2. todo \in Seq(Writes) /\ todo # <<>>
    BY <1>1, Effects
  <1>3. Ready(Head(todo), {}) /\ Head(todo) \in Writes
    BY <1>1, <1>2, RestInOrder
  <1> QED
    BY <1>1, <1>3 DEF Now

(* A measurement that is written records, replaces or completes a result.  *)
LEMMA MeasurementShown ==
    ASSUME Sound, Write, NEW s \in Slots, Is("measurement", s)
    PROVE  [Ledger!Next]_Shown
  <1>1. Now \in Writes /\ Ready(Now, {}) /\ Types
    BY WriteIsReady
  <1>2. /\ Now.value \in Measurement /\ RoundOf[s] \notin intent
        /\ Honest(s, Now.value) /\ Follows(s, Now.value)
    BY <1>1, SlotNow
  <1>3. /\ \A r \in Rounds : r \in intent' <=> r \in intent
        /\ \A x \in Slots : measured'[x] = IF x = s THEN Now.value ELSE measured[x]
    BY Effects, <1>1 DEF Sound, Is
  <1>4. \A x \in Slots : RoundOf[x] \in Rounds
    BY StoreConstants
  <1>5. Shown' = [Shown EXCEPT ![s] = Now.value] /\ Shown[s] = measured[s]
    BY <1>2, <1>3, <1>4 DEF Shown
  <1>6. CASE measured[s] = None
    <2>1. Ledger!Record(s)
      <3>1. ~Now.value.late /\ ~Now.value.url
        BY <1>2, <1>6 DEF Follows
      <3>2. /\ Now.value.state \in {"ok", "partial", "failed", "missing", "cancelled"} /\ Now.value.expired \in BOOLEAN
            /\ Now.value = [state |-> Now.value.state, expired |-> Now.value.expired, late |-> FALSE, url |-> FALSE]
        BY <1>2, <3>1 DEF Measurement, Outcomes
      <3>3. Now.value.expired => Now.value.state = "failed" /\ RoundOf[s] \in Full
        BY <1>2 DEF Honest
      <3> QED
        BY <1>5, <1>6, <3>2, <3>3 DEF Ledger!Record, Shown
    <2> QED
      BY <2>1 DEF Ledger!Next, Shown
  <1>7. CASE /\ measured[s] # None /\ RoundOf[s] \in Full /\ measured[s].expired
             /\ Now.value.late /\ ~Now.value.expired /\ ~Now.value.url /\ Now.value.state \in {"ok", "partial", "failed"}
    <2>1. Now.value = [state |-> Now.value.state, expired |-> FALSE, late |-> TRUE, url |-> FALSE]
      BY <1>2, <1>7 DEF Measurement
    <2>2. Ledger!ReplaceExpired(s)
      BY <1>5, <1>7, <2>1 DEF Ledger!ReplaceExpired, Shown
    <2> QED
      BY <2>2 DEF Ledger!Next, Shown
  <1>8. CASE /\ measured[s] # None /\ RoundOf[s] \in Full /\ measured[s].state = "partial"
             /\ Now.value = [measured[s] EXCEPT !.url = TRUE]
    <2>1. Ledger!AddUrl(s)
      BY <1>5, <1>8 DEF Ledger!AddUrl, Shown
    <2> QED
      BY <2>1 DEF Ledger!Next, Shown
  <1> QED
    BY <1>2, <1>6, <1>7, <1>8 DEF Follows

(* An intent that is written deletes a round with all its results.         *)
LEMMA DeletionShown ==
    ASSUME Sound, Write, NEW r \in Rounds, Is("intent", r), Now.value, r \notin intent
    PROVE  [Ledger!Next]_Shown
  <1>1. Now \in Writes /\ Ready(Now, {})
    BY WriteIsReady
  <1>2. r \in Full /\ \A s \in SlotsOf(r) : measured[s] # None
    BY <1>1, RoundNow
  <1>3. /\ \A y \in Rounds : y \in intent' <=> y = r \/ y \in intent
        /\ \A x \in Slots : measured'[x] = measured[x]
    BY Effects, <1>1 DEF Sound, Is
  <1>4. \A x \in Slots : RoundOf[x] \in Rounds
    BY StoreConstants
  <1>5. /\ Shown' = [s \in Slots |-> IF RoundOf[s] = r THEN None ELSE Shown[s]]
        /\ \A s \in Slots : RoundOf[s] = r => Shown[s] # None
    BY <1>2, <1>3, <1>4 DEF Shown, SlotsOf
  <1>6. Ledger!Delete(r)
    BY <1>2, <1>5 DEF Ledger!Delete, Ledger!SlotsOf, Shown
  <1> QED
    BY <1>2, <1>6 DEF Ledger!Next, Shown

(* Any other write shows nothing.                                          *)
LEMMA WriteShown ==
    ASSUME Sound, Write
    PROVE  [Ledger!Next]_Shown
  <1>1. Now \in Writes /\ Ready(Now, {}) /\ Types
    BY WriteIsReady
  <1>2. CASE \E s \in Slots : Is("measurement", s)
    BY <1>2, MeasurementShown
  <1>3. CASE \E r \in Rounds : Is("intent", r) /\ Now.value /\ r \notin intent
    BY <1>3, DeletionShown
  <1>4. CASE /\ ~\E s \in Slots : Is("measurement", s)
             /\ ~\E r \in Rounds : Is("intent", r) /\ Now.value /\ r \notin intent
    <2>1. ASSUME NEW s \in Slots PROVE Shown'[s] = Shown[s]
      <3>1. PICK r \in Rounds : r = RoundOf[s]
        BY StoreConstants
      <3>2. /\ r \in intent' <=> IF Is("intent", r) THEN Now.value ELSE r \in intent
            /\ measured'[s] = IF Is("bury", r) THEN None ELSE measured[s]
        BY <1>1, <1>4, <3>1, Effects
      <3>3. Shown'[s] = (IF r \in intent' THEN None ELSE measured'[s])
            /\ Shown[s] = (IF r \in intent THEN None ELSE measured[s])
        BY <3>1 DEF Shown
      <3>4. CASE Is("bury", r)
        <4>1. r \in intent /\ ~Is("intent", r)
          BY <1>1, <3>4, FoundNow DEF Ready, ReadyBury, Is
        <4> QED
          BY <3>2, <3>3, <4>1
      <3>5. CASE Is("intent", r) /\ ~Is("bury", r)
        <4>1. CASE r \in intent /\ ~Now.value
          <5>1. manifest[r] = None
            BY <1>1, <3>5, <4>1, RoundNow
          <5>2. measured[s] = None
            BY <3>1, <5>1 DEF Sound, SoundMeasurements
          <5> QED
            BY <3>2, <3>3, <3>5, <4>1, <5>2
        <4>2. CASE r \in intent <=> Now.value
          BY <3>2, <3>3, <3>5, <4>2
        <4>3. Now.value => r \in intent
          BY <1>4, <3>5
        <4> QED
          BY <4>1, <4>2, <4>3
      <3>6. CASE ~Is("intent", r) /\ ~Is("bury", r)
        BY <3>2, <3>3, <3>6
      <3> QED
        BY <3>4, <3>5, <3>6
    <2> QED
      BY <2>1, ShownStays
  <1> QED
    BY <1>2, <1>3, <1>4

(* Every step is a step of the ledger or shows nothing.                    *)
LEMMA StepShown ==
    ASSUME Sound, [Next]_vars
    PROVE  [Ledger!Next]_Shown
  <1>1. CASE Write
    BY <1>1, WriteShown
  <1>2. CASE WriteFails \/ Crash \/ NextDay \/ UNCHANGED vars
    <2>1. UNCHANGED files
      BY <1>2 DEF WriteFails, Crash, NextDay, vars
    <2> QED
      BY <2>1, ShownRests
  <1>3. CASE Operation
    <2>1. ASSUME NEW t, Run(t) PROVE UNCHANGED files
      BY <2>1 DEF Run
    <2>2. UNCHANGED files
      BY <1>3, <2>1 DEF Operation, Create, Read, Scan, DeleteFullRound, ResumeFullDeletion, Queue,
         Progress, AddUrl, Complete, LateFull, OpenBatch, CloseBatch, Dequeue
    <2> QED
      BY <2>2, ShownRests
  <1> QED
    BY <1>1, <1>2, <1>3 DEF Next

(* At first nothing is recorded.                                           *)
LEMMA InitShown == Init => Ledger!Init
  BY DEF Init, Ledger!Init

(* The files implement ResultLedger: whatever crashes or fails, a result a *)
(* reader can see is never lost or changed by complete, get, recovery or a *)
(* batch; only acceptLateFull replaces an expired one, only                *)
(* updateFullReportUrl adds a URL, and only deleteFullRound removes        *)
(* results, a whole round at once.                                         *)
THEOREM StoreIsLedger == Spec => ImplementsResultLedger
  <1>1. Init => Sound
    BY InitSound
  <1>2. Sound /\ [Next]_vars => Sound'
    BY StepSound
  <1>3. Sound /\ [Next]_vars => [Ledger!Next]_Shown
    BY StepShown
  <1> QED
    BY <1>1, <1>2, <1>3, InitShown, PTL DEF Spec, ImplementsResultLedger, Ledger!Spec, Shown

(* Whatever write was the last before a restart, active.json names every   *)
(* round with an unfinished slot, and its manifest has the jobs of these   *)
(* slots.                                                                  *)
THEOREM RestartsFindRounds == Spec => []UnfinishedIsListed
  <1>1. Sound => UnfinishedIsListed
    BY DEF Sound
  <1> QED
    BY <1>1, StoreIsSound, PTL

(* A round that neither recovery nor a deletion will visit again has an    *)
(* index row that agrees with its manifest, at every write of persist and  *)
(* flush; late full benchmarks are excluded, as in the property.           *)
THEOREM HistoryIsIndexed == Spec => []SettledIsIndexed
  <1>1. Sound => SettledIsIndexed
    BY DEF Sound
  <1> QED
    BY <1>1, StoreIsSound, PTL

(* A result whose job has left the queue has the receipts its worker needs *)
(* when it posts again.  A receipt of full-receipts always stands for a    *)
(* measurement or for a round under deletion, and one by day, of a round   *)
(* that is no full benchmark, for a measurement.                           *)
THEOREM AnswersSurvive == Spec => []AnswerSurvives
  <1>1. Sound => AnswerSurvives
    BY DEF Sound
  <1> QED
    BY <1>1, StoreIsSound, PTL

(* At every write a deletion of a full benchmark can be resumed, and one   *)
(* whose intent is gone left no file, no row, no receipt of full-receipts  *)
(* and no receipt of the last day on which a job was recorded; of earlier  *)
(* days it may.                                                            *)
THEOREM DeletionsAreWhole == Spec => []DeletionIsWhole
  <1>1. Sound => DeletionIsWhole
    BY DEF Sound
  <1> QED
    BY <1>1, StoreIsSound, PTL
=============================================================================
