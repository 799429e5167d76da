--------------------------- MODULE RoundRecoveryProofs ---------------------------
(***************************************************************************)
(* Theorems about RoundRecovery for any jobs, rounds, planned times, any   *)
(* capacity of the queue, crashes and I/O errors.                          *)
(*                                                                         *)
(* A handler is a record that operators change one after the other, most   *)
(* of them in folds over sets of jobs.  Each operator keeps what a handler *)
(* promises (Contract, then Sound); Begin turns a sound handler into steps *)
(* left to make (BeginKeeps); and the invariant speaks of what the slots   *)
(* will be when these are made, so that making one changes nothing of it   *)
(* (SameInTheEnd) and a crash only has to look at what is saved.           *)
(***************************************************************************)
EXTENDS RoundRecovery, FiniteNaturals, SequenceTheorems

-----------------------------------------------------------------------------
(* Folds over a sequence, for any number of elements.                      *)

(* Induction, with a set for the predicate.                                *)
LEMMA Induction ==
    ASSUME NEW T, 0 \in T, \A n \in Nat : n \in T => n + 1 \in T
    PROVE  \A n \in Nat : n \in T
  <1>1. SUFFICES ASSUME NEW n \in Nat, n \notin T PROVE FALSE
    OBVIOUS
  <1> DEFINE D == {m \in 0..n : m \notin T}
  <1>2. D \in SUBSET Nat /\ D # {} /\ IsFiniteSet(D)
    <2>1. D \in SUBSET (0..n) /\ n \in D
      BY <1>1
    <2>2. IsFiniteSet(0..n)
      BY FS_Interval
    <2> HIDE DEF D
    <2>3. IsFiniteSet(D)
      BY <2>1, <2>2, FS_Subset
    <2> QED
      BY <2>1, <2>3
  <1>3. PICK m \in D : \A k \in D : m <= k
    BY <1>2, Extremes
  <1>4. m # 0 /\ m - 1 \in Nat /\ m - 1 \notin D
    BY <1>3
  <1>5. m - 1 \in T /\ (m - 1) + 1 = m
    BY <1>4
  <1> QED
    BY <1>3, <1>4, <1>5

(* The greatest index of a non-empty set of indices.                       *)
LEMMA MaxIs ==
    ASSUME NEW n \in Nat, NEW s \in SUBSET (1..n), s # {}
    PROVE  Max(s) \in s /\ \A i \in s : i <= Max(s)
  <1>0. IsFiniteSet(1..n)
    BY FS_Interval
  <1>1. IsFiniteSet(s)
    BY <1>0, FS_Subset
  <1>2. \E m \in s : \A i \in s : m >= i
    <2>1. s \in SUBSET Nat
      OBVIOUS
    <2>2. PICK m \in s : \A i \in s : i <= m
      BY <1>1, <2>1, Extremes
    <2> QED
      BY <2>2
  <1> QED
    BY <1>1, <1>2 DEF Max

(* The steps that handlers repeat for several jobs, in one operator.        *)
Do(g, j, k, a, b) ==
    CASE k = "progress" -> Progress(g, j)
      [] k = "follow" -> Complete(g, j, a, b)
      [] k = "miss" -> Complete(g, j, a, j)
      [] k = "recover" -> RecoverJob(g, j, a, b)
      [] k = "settle" -> Settle(g, j)
      [] k = "expire" -> FinishOne(g, j, IF queue[j].phase = "running" THEN "failed" ELSE "missing")
      [] OTHER -> EndBatch(FinishOne(g, j, "cancelled"))
Doing(f, n, h, seq, k, a, b) ==
    f = [s \in SUBSET (1..n) |-> IF s = {} THEN h ELSE Do(f[s \ {Max(s)}], seq[Max(s)], k, a, b)]

(* The results of the first handlings of a sequence exist.                 *)
LEMMA DoingExists ==
    ASSUME NEW h, NEW seq, NEW k, NEW a, NEW b
    PROVE  \A n \in Nat : \E f : Doing(f, n, h, seq, k, a, b)
  <1> DEFINE T == {n \in Nat : \E f : Doing(f, n, h, seq, k, a, b)}
  <1>1. 0 \in T
    <2> DEFINE f == [s \in SUBSET (1..0) |-> h]
    <2>1. Doing(f, 0, h, seq, k, a, b)
      BY 1..0 = {} DEF Doing
    <2> QED
      BY <2>1
  <1>2. ASSUME NEW n \in Nat, n \in T PROVE n + 1 \in T
    <2>1. PICK f : Doing(f, n, h, seq, k, a, b)
      BY <1>2
    <2> DEFINE g == [s \in SUBSET (1..(n + 1)) |->
                        IF n + 1 \in s THEN Do(f[s \ {n + 1}], seq[n + 1], k, a, b) ELSE f[s]]
               e == [s \in SUBSET (1..(n + 1)) |->
                        IF s = {} THEN h ELSE Do(g[s \ {Max(s)}], seq[Max(s)], k, a, b)]
    <2>2. ASSUME NEW s \in SUBSET (1..(n + 1)) PROVE g[s] = e[s]
      <3>1. CASE n + 1 \in s
        <4>1. Max(s) = n + 1
          <5>1. Max(s) \in s /\ \A i \in s : i <= Max(s)
            BY <3>1, MaxIs, n + 1 \in Nat
          <5>2. Max(s) \in 1..(n + 1) /\ n + 1 <= Max(s)
            BY <3>1, <5>1
          <5> QED
            BY <5>2
        <4>2. s \ {n + 1} \in SUBSET (1..n) /\ s \ {n + 1} \in SUBSET (1..(n + 1)) /\ n + 1 \notin s \ {n + 1}
          OBVIOUS
        <4>3. g[s \ {n + 1}] = f[s \ {n + 1}]
          BY <4>2
        <4> QED
          BY <3>1, <4>1, <4>3
      <3>2. CASE n + 1 \notin s
        <4>1. s \in SUBSET (1..n)
          BY <3>2
        <4>2. g[s] = f[s]
          BY <3>2
        <4>3. f[s] = IF s = {} THEN h ELSE Do(f[s \ {Max(s)}], seq[Max(s)], k, a, b)
          BY <2>1, <4>1 DEF Doing
        <4>4. g[s \ {Max(s)}] = f[s \ {Max(s)}]
          BY <3>2
        <4> QED
          BY <4>2, <4>3, <4>4
      <3> QED
        BY <3>1, <3>2
    <2>3. g = e
      BY <2>2
    <2>4. Doing(g, n + 1, h, seq, k, a, b)
      BY <2>3 DEF Doing
    <2> QED
      BY <2>4
  <1> HIDE DEF T
  <1>3. \A n \in Nat : n \in T
    BY <1>1, <1>2, Induction
  <1> QED
    BY <1>3 DEF T

(* What a step makes of a member of one set is a member of the next.        *)
LEMMA Doing1 ==
    ASSUME NEW h, NEW seq, NEW k, NEW a, NEW b, NEW n \in Nat, NEW f, NEW I,
           Doing(f, n, h, seq, k, a, b), h \in I[0],
           \A i \in 1..n : \A g \in I[i - 1] : Do(g, seq[i], k, a, b) \in I[i]
    PROVE  f[1..n] \in I[n]
  <1> DEFINE T == {m \in Nat : m <= n => f[1..m] \in I[m]}
  <1>1. 0 \in T
    BY 1..0 = {} DEF Doing
  <1>2. ASSUME NEW m \in Nat, m \in T, m + 1 <= n PROVE f[1..(m + 1)] \in I[m + 1]
    <2>1. 1..(m + 1) \in SUBSET (1..n) /\ m + 1 \in 1..n /\ (m + 1) - 1 = m
      BY <1>2
    <2>0. m + 1 \in Nat /\ 1..(m + 1) \in SUBSET (1..(m + 1)) /\ m + 1 \in 1..(m + 1) /\ 1..(m + 1) # {}
      OBVIOUS
    <2>2. Max(1..(m + 1)) = m + 1
      <3>1. Max(1..(m + 1)) \in 1..(m + 1) /\ \A i \in 1..(m + 1) : i <= Max(1..(m + 1))
        BY <2>0, MaxIs
      <3> QED
        BY <2>0, <3>1
    <2>3. (1..(m + 1)) \ {m + 1} = 1..m
      OBVIOUS
    <2>4. f[1..(m + 1)] = Do(f[1..m], seq[m + 1], k, a, b)
      BY <2>0, <2>1, <2>2, <2>3 DEF Doing
    <2>5. f[1..m] \in I[m]
      BY <1>2
    <2> QED
      BY <2>1, <2>4, <2>5
  <1> HIDE DEF T
  <1>3. \A m \in Nat : m \in T
    <2>1. \A m \in Nat : m \in T => m + 1 \in T
      BY <1>2 DEF T
    <2> QED
      BY <1>1, <2>1, Induction
  <1> QED
    BY <1>3 DEF T

Fold(h, n, seq, k, a, b) ==
    LET f == CHOOSE g : Doing(g, n, h, seq, k, a, b) IN f[1..n]

(* What a fold starts with and each step keeps, it ends with.              *)
LEMMA FoldKeeps ==
    ASSUME NEW h, NEW seq, NEW k, NEW a, NEW b, NEW n \in Nat, NEW I, h \in I[0],
           \A i \in 1..n : \A g \in I[i - 1] : Do(g, seq[i], k, a, b) \in I[i]
    PROVE  Fold(h, n, seq, k, a, b) \in I[n]
  <1>1. PICK f : Doing(f, n, h, seq, k, a, b)
    BY DoingExists
  <1> DEFINE e == CHOOSE g : Doing(g, n, h, seq, k, a, b)
  <1>2. Doing(e, n, h, seq, k, a, b)
    BY <1>1
  <1> HIDE DEF e
  <1>3. \A i \in 1..n : \A g \in I[i - 1] : Do(g, seq[i], k, a, b) \in I[i]
    OBVIOUS
  <1>4. e[1..n] \in I[n]
    BY <1>2, <1>3, Doing1
  <1> QED
    BY <1>4 DEF Fold, e

(* The folds of the module in this form.                                   *)
LEMMA StepFolds ==
    ASSUME NEW h, NEW n \in Nat, NEW seq, DOMAIN seq = 1..n
    PROVE  /\ FoldLeft(Progress, h, seq) = Fold(h, n, seq, "progress", 0, 0)
           /\ FoldLeft(Settle, h, seq) = Fold(h, n, seq, "settle", 0, 0)
  BY SMT DEF Fold, Doing, Do, FoldLeft, MapThenFoldSet

(* The folds over results are such folds.                                  *)
LEMMA ResultFolds ==
    ASSUME NEW h, NEW n \in Nat, NEW seq, DOMAIN seq = 1..n, NEW state, NEW l
    PROVE  /\ FoldLeft(LAMBDA g, f : Complete(g, f, state, l), h, seq) = Fold(h, n, seq, "follow", state, l)
           /\ FoldLeft(LAMBDA g, j : Complete(g, j, "missing", j), h, seq) = Fold(h, n, seq, "miss", "missing", l)
  BY SMT DEF Fold, Doing, Do, FoldLeft, MapThenFoldSet

(* So are those of the expirations and of a cancellation.                  *)
LEMMA FinishFolds ==
    ASSUME NEW h, NEW n \in Nat, NEW seq, DOMAIN seq = 1..n
    PROVE  /\ FoldLeft(LAMBDA g, j : FinishOne(g, j, IF queue[j].phase = "running" THEN "failed"
                                                     ELSE "missing"), h, seq)
                = Fold(h, n, seq, "expire", 0, 0)
           /\ FoldLeft(LAMBDA g, j : EndBatch(FinishOne(g, j, "cancelled")), h, seq)
                = Fold(h, n, seq, "cancel", 0, 0)
  BY SMT DEF Fold, Doing, Do, FoldLeft, MapThenFoldSet

(* And that of the recovery.                                               *)
LEMMA RecoverFold ==
    ASSUME NEW h, NEW n \in Nat, NEW seq, DOMAIN seq = 1..n, NEW R, NEW U
    PROVE  RecoverAll(h, seq, R, U) = Fold(h, n, seq, "recover", R, U)
  BY SMT DEF RecoverAll, Fold, Doing, Do, FoldLeft, MapThenFoldSet

(* The sequences that list a set.                                          *)
LEMMA Lists ==
    ASSUME NEW S, IsFiniteSet(S)
    PROVE  /\ Cardinality(S) \in Nat /\ SetToSeq(S) \in SetToSeqs(S)
           /\ \A q \in SetToSeqs(S) :
                /\ q \in [1..Cardinality(S) -> S] /\ DOMAIN q = 1..Cardinality(S)
                /\ \A i, k \in 1..Cardinality(S) : i # k => q[i] # q[k]
                /\ {q[i] : i \in 1..Cardinality(S)} = S
  <1> DEFINE n == Cardinality(S)
  <1>1. n \in Nat /\ ExistsBijection(1..n, S)
    BY FS_CardinalityType
  <1>2. SetToSeq(S) \in [1..n -> S] /\ IsInjective(SetToSeq(S))
    <2>1. \E f \in [1..n -> S] : IsInjective(f)
      BY <1>1 DEF ExistsBijection, Bijection, Injection
    <2> QED
      BY <2>1 DEF SetToSeq
  <1>3. SetToSeq(S) \in SetToSeqs(S)
    BY <1>2 DEF SetToSeqs, IsInjective
  <1>4. ASSUME NEW q \in SetToSeqs(S)
        PROVE  /\ q \in [1..n -> S] /\ DOMAIN q = 1..n
               /\ \A i, k \in 1..n : i # k => q[i] # q[k]
               /\ {q[i] : i \in 1..n} = S
    <2>1. q \in [1..n -> S] /\ \A i, k \in 1..n : i # k => q[i] # q[k]
      BY <1>4 DEF SetToSeqs
    <2>2. q \in Injection(1..n, S)
      BY <2>1 DEF Injection, IsInjective
    <2>3. Cardinality(1..n) = n
      BY <1>1, FS_Interval
    <2>4. q \in Surjection(1..n, S)
      BY <2>2, <2>3, FS_Injection
    <2> QED
      BY <2>1, <2>4 DEF Surjection
  <1> QED
    BY <1>1, <1>3, <1>4

(* A fold over a set: J tells what holds once the members of T are done.    *)
LEMMA FoldOver ==
    ASSUME NEW h, NEW S, IsFiniteSet(S), NEW seq \in SetToSeqs(S), NEW k, NEW a, NEW b, NEW J,
           h \in J[{}],
           \A T \in SUBSET S : \A x \in S \ T : \A g \in J[T] : Do(g, x, k, a, b) \in J[T \cup {x}]
    PROVE  /\ Cardinality(S) \in Nat /\ DOMAIN seq = 1..Cardinality(S)
           /\ Fold(h, Cardinality(S), seq, k, a, b) \in J[S]
  <1> DEFINE n == Cardinality(S)
             Done(m) == {seq[i] : i \in 1..m}
             I == [m \in 0..n |-> J[Done(m)]]
  <1>1. /\ n \in Nat /\ seq \in [1..n -> S] /\ DOMAIN seq = 1..n
        /\ \A i, m \in 1..n : i # m => seq[i] # seq[m]
        /\ Done(n) = S
    BY Lists
  <1>2. I[0] = J[{}] /\ I[n] = J[S]
    <2>1. Done(0) = {}
      OBVIOUS
    <2>2. 0 \in 0..n /\ n \in 0..n
      BY <1>1
    <2> QED
      BY <1>1, <2>1, <2>2
  <1>3. ASSUME NEW i \in 1..n, NEW g \in I[i - 1] PROVE Do(g, seq[i], k, a, b) \in I[i]
    <2>1. i - 1 \in 0..n /\ i \in 0..n
      BY <1>1
    <2>2. Done(i) = Done(i - 1) \cup {seq[i]}
      <3>1. 1..i = (1..(i - 1)) \cup {i}
        BY <1>1
      <3> QED
        BY <3>1
    <2>3. Done(i - 1) \in SUBSET S /\ seq[i] \in S \ Done(i - 1)
      <3>1. \A m \in 1..(i - 1) : m \in 1..n /\ m # i
        BY <1>1
      <3> QED
        BY <1>1, <3>1
    <2>4. g \in J[Done(i - 1)]
      BY <1>3, <2>1
    <2> HIDE DEF Done
    <2>5. Do(g, seq[i], k, a, b) \in J[Done(i - 1) \cup {seq[i]}]
      BY <2>3, <2>4
    <2> QED
      BY <2>1, <2>2, <2>5
  <1> HIDE DEF I
  <1>4. h \in I[0] /\ \A i \in 1..n : \A g \in I[i - 1] : Do(g, seq[i], k, a, b) \in I[i]
    BY <1>2, <1>3
  <1>5. Fold(h, n, seq, k, a, b) \in I[n]
    BY <1>1, <1>4, FoldKeeps
  <1> QED
    BY <1>1, <1>2, <1>5

(* The elements of a sequence with one more.                               *)
LEMMA Appended ==
    ASSUME NEW T, NEW s \in Seq(T), NEW x \in T
    PROVE  /\ Append(s, x) \in Seq(T) /\ Len(s) \in Nat /\ Len(Append(s, x)) = Len(s) + 1
           /\ DOMAIN s = 1..Len(s) /\ DOMAIN Append(s, x) = 1..(Len(s) + 1)
           /\ \A i \in 1..Len(s) : Append(s, x)[i] = s[i]
           /\ Append(s, x)[Len(s) + 1] = x
  BY AppendProperties, LenProperties

(* The elements of two sequences joined.                                   *)
LEMMA Joined ==
    ASSUME NEW T, NEW s \in Seq(T), NEW t \in Seq(T)
    PROVE  /\ s \o t \in Seq(T) /\ Len(s) \in Nat /\ Len(t) \in Nat
           /\ Len(s \o t) = Len(s) + Len(t)
           /\ DOMAIN s = 1..Len(s) /\ DOMAIN t = 1..Len(t)
           /\ DOMAIN (s \o t) = 1..(Len(s) + Len(t))
           /\ \A i \in 1..Len(s) : (s \o t)[i] = s[i]
           /\ \A i \in (Len(s) + 1)..(Len(s) + Len(t)) : (s \o t)[i] = t[i - Len(s)]
  BY ConcatProperties, LenProperties

-----------------------------------------------------------------------------
(* Handlers and what they promise.                                         *)

(* The two entries of the queue that follow nobody; what is recorded of a  *)
(* job; and the writes, of three kinds.                                    *)
Busy == [phase |-> "running", leader |-> None]
Waits == [phase |-> "queued", leader |-> None]
Results == [state : Recorded, of : Jobs]
Slots == [state : Recorded \cup {"none", "open"}, of : Jobs]
Creations == UNION {[what : {"create"}, round : {r}, origin : Occurrences \cup {None},
                     value : [JobsOf(r) -> Entries]] : r \in Rounds}
Completions == [what : {"complete"}, job : Jobs, value : Results]
Progressions == [what : {"progress"}, job : Jobs, value : Entries]
Writes == Creations \cup Completions \cup Progressions

(* Handlers at work.                                                       *)
Handlers == [queue : [Jobs -> Entries \cup {None}], cursor : SUBSET Occurrences,
             planned : SUBSET Occurrences, slot : [Jobs -> Slots],
             writes : Seq(Writes), batch : Seq(Progressions)]

(* Write w makes round r, ends slot j; and the same of all writes W.       *)
Makes(w, r) == w.what = "create" /\ w.round = r
Ends(w, j) == w.what = "complete" /\ w.job = j
Made(W, r) == \E i \in DOMAIN W : Makes(W[i], r)
Ended(W, j) == \E i \in DOMAIN W : Ends(W[i], j)
(* What slot j is once the writes W are made to slots s.                    *)
Opened(s, W, j) == (s[j].state = "open" \/ Made(W, RoundOf[j])) /\ ~Ended(W, j)
Unmade(s, W, j) == s[j].state = "none" /\ ~Made(W, RoundOf[j])
Cancelled(s, W, j) ==
    s[j].state = "cancelled" \/ \E i \in DOMAIN W : Ends(W[i], j) /\ W[i].value.state = "cancelled"

(* The manifest that W makes of job j names leader l.                       *)
Named(W, j, l) == \E i \in DOMAIN W : Makes(W[i], RoundOf[j]) /\ W[i].value[j].leader = l

(* Writes W in the order a handler makes them: a round is made where none  *)
(* is and before its slots end, and a slot ends once.                      *)
Orderly(s, W) ==
    \A i \in DOMAIN W : \A j \in Jobs :
      /\ Makes(W[i], RoundOf[j]) =>
            /\ s[j].state = "none"
            /\ \A m \in 1..(i - 1) : ~Makes(W[m], RoundOf[j]) /\ ~Ends(W[m], j)
      /\ Ends(W[i], j) =>
            /\ s[j].state = "open" \/ \E m \in 1..(i - 1) : Makes(W[m], RoundOf[j])
            /\ \A m \in 1..(i - 1) : ~Ends(W[m], j)

(* dispatchRoundId: a round made for an occurrence is that of the          *)
(* occurrence.                                                             *)
Original(W) ==
    \A i \in DOMAIN W : W[i].what = "create" /\ W[i].origin # None => Stable[W[i].origin] = W[i].round

(* A write that leaves the measured job j alone.                           *)
Keeps(w, j) ==
    /\ ~Makes(w, RoundOf[j])
    /\ w.what = "progress" /\ w.job = j => w.value = Busy
KeepsAll(W, j) == \A i \in DOMAIN W : Keeps(W[i], j)

(* A round is made when the other rounds of its suite have ended.           *)
Rival(r, j) == RoundOf[j] # r /\ Scope[RoundOf[j]] = Scope[r]
Single(s, W) ==
    \A i \in DOMAIN W : \A r \in Rounds : Makes(W[i], r) =>
        \A j \in Jobs :
            /\ Rival(r, j)
            /\ s[j].state = "open" \/ \E m \in 1..(i - 1) : Makes(W[m], RoundOf[j])
            => \E m \in 1..(i - 1) : Ends(W[m], j)

(* What handler h sees of the slots is what they will be after its writes. *)
Views(h, s) ==
    \A j \in Jobs : /\ h.slot[j].state = "open" <=> Opened(s, h.writes, j)
                    /\ h.slot[j].state = "none" <=> Unmade(s, h.writes, j)
                    /\ h.slot[j].state = "cancelled" <=> Cancelled(s, h.writes, j)
Seen(h) == \A j \in Jobs : h.queue[j] # None => h.slot[j].state # "none"
Minds(h, s, e) ==
    \A j \in Jobs : e[j] # 0 => /\ h.queue[j] \in {None, Busy} /\ s[j].state # "none"
                                /\ KeepsAll(h.writes, j) /\ KeepsAll(h.batch, j)

(* No manifest is given a leader.                                          *)
Plain(W) == \A i \in DOMAIN W : W[i].what = "progress" => W[i].value.leader = None

(* c: nothing fails, and there is room for all jobs.                        *)
Contract(h, s, e, c) ==
    /\ h \in Handlers /\ h.cursor \subseteq h.planned
    /\ Views(h, s) /\ Orderly(s, h.writes) /\ Original(h.writes) /\ Seen(h) /\ Minds(h, s, e)
    /\ c => Single(s, h.writes) /\ Plain(h.writes) /\ Plain(h.batch)

(* The writes of a handler are of three kinds.                             *)
LEMMA WriteKinds ==
    /\ \A w \in Creations : /\ w.what = "create" /\ w.round \in Rounds
                            /\ w.origin \in Occurrences \cup {None}
                            /\ w.value \in [JobsOf(w.round) -> Entries]
    /\ \A w \in Completions : w.what = "complete" /\ w.job \in Jobs /\ w.value \in Results
    /\ \A w \in Progressions : w.what = "progress" /\ w.job \in Jobs /\ w.value \in Entries
    /\ Completions \subseteq Writes /\ Creations \subseteq Writes /\ Progressions \subseteq Writes
    /\ \A w \in Writes : \/ w \in Creations /\ w.what = "create"
                         \/ w \in Completions /\ w.what = "complete"
                         \/ w \in Progressions /\ w.what = "progress"
  BY DEF Creations, Completions, Progressions, Writes

(* A job of the queue is never None.                                       *)
LEMMA Entered ==
    /\ Busy \in Entries /\ Waits \in Entries /\ Busy # None /\ Waits # None /\ Busy # Waits
    /\ None \notin Entries /\ None \notin Jobs /\ None \notin Occurrences
  BY RecoveryConstants DEF Busy, Waits, Entries

(* What the writes still to be made say of slot j after one more.           *)
LEMMA OneMore ==
    ASSUME NEW W \in Seq(Writes), NEW w \in Writes
    PROVE  /\ \A r \in Rounds : Made(Append(W, w), r) <=> Made(W, r) \/ Makes(w, r)
           /\ \A j \in Jobs : Ended(Append(W, w), j) <=> Ended(W, j) \/ Ends(w, j)
           /\ \A j \in Jobs : KeepsAll(Append(W, w), j) <=> KeepsAll(W, j) /\ Keeps(w, j)
           /\ Plain(Append(W, w)) <=> Plain(W) /\ (w.what = "progress" => w.value.leader = None)
           /\ \A j \in Jobs : \A l : Named(Append(W, w), j, l) <=>
                Named(W, j, l) \/ (Makes(w, RoundOf[j]) /\ w.value[j].leader = l)
           /\ \A s : \A j \in Jobs : Cancelled(s, Append(W, w), j) <=>
                Cancelled(s, W, j) \/ (Ends(w, j) /\ w.value.state = "cancelled")
  <1> DEFINE V == Append(W, w)
  <1>1. /\ Len(W) \in Nat /\ DOMAIN W = 1..Len(W) /\ DOMAIN V = 1..(Len(W) + 1)
        /\ \A i \in 1..Len(W) : V[i] = W[i]
        /\ V[Len(W) + 1] = w
    BY Appended
  <1> HIDE DEF V
  <1>2. \A i \in DOMAIN V : i \in DOMAIN W \/ i = Len(W) + 1
    BY <1>1
  <1>3. Len(W) + 1 \in DOMAIN V /\ DOMAIN W \subseteq DOMAIN V
    BY <1>1
  <1>4. \A r \in Rounds : Made(V, r) <=> Made(W, r) \/ Makes(w, r)
    BY <1>1, <1>2, <1>3 DEF Made
  <1>5. \A j \in Jobs : Ended(V, j) <=> Ended(W, j) \/ Ends(w, j)
    BY <1>1, <1>2, <1>3 DEF Ended
  <1>6. \A j \in Jobs : KeepsAll(V, j) <=> KeepsAll(W, j) /\ Keeps(w, j)
    BY <1>1, <1>2, <1>3 DEF KeepsAll
  <1>9. \A i \in DOMAIN W : V[i] = W[i]
    BY <1>1
  <1>7. ASSUME NEW j \in Jobs, NEW l
        PROVE  Named(V, j, l) <=> Named(W, j, l) \/ (Makes(w, RoundOf[j]) /\ w.value[j].leader = l)
    <2>1. Named(V, j, l) => Named(W, j, l) \/ (Makes(w, RoundOf[j]) /\ w.value[j].leader = l)
      BY <1>1, <1>2 DEF Named
    <2>2. Named(W, j, l) => Named(V, j, l)
      BY <1>3, <1>9 DEF Named
    <2>3. Makes(w, RoundOf[j]) /\ w.value[j].leader = l => Named(V, j, l)
      BY <1>1, <1>3 DEF Named
    <2> QED
      BY <2>1, <2>2, <2>3
  <1>8. ASSUME NEW s, NEW j \in Jobs
        PROVE  Cancelled(s, V, j) <=> Cancelled(s, W, j) \/ (Ends(w, j) /\ w.value.state = "cancelled")
    <2>1. Cancelled(s, V, j) => Cancelled(s, W, j) \/ (Ends(w, j) /\ w.value.state = "cancelled")
      BY <1>1, <1>2 DEF Cancelled
    <2>2. Cancelled(s, W, j) => Cancelled(s, V, j)
      BY <1>3, <1>9 DEF Cancelled
    <2>3. Ends(w, j) /\ w.value.state = "cancelled" => Cancelled(s, V, j)
      BY <1>1, <1>3 DEF Cancelled
    <2> QED
      BY <2>1, <2>2, <2>3
  <1>10. Plain(V) <=> Plain(W) /\ (w.what = "progress" => w.value.leader = None)
    BY <1>1, <1>2, <1>3 DEF Plain
  <1> QED
    BY <1>4, <1>5, <1>6, <1>7, <1>8, <1>10 DEF V

(* The same of the rule of Single.                                         *)
LEMMA SingleMore ==
    ASSUME NEW s, NEW W \in Seq(Writes), NEW w \in Writes, Single(s, W),
           \A r \in Rounds : Makes(w, r) => \A j \in Jobs : Rival(r, j) => ~Opened(s, W, j)
    PROVE  Single(s, Append(W, w))
  <1> DEFINE V == Append(W, w)
  <1>1. /\ Len(W) \in Nat /\ DOMAIN W = 1..Len(W) /\ DOMAIN V = 1..(Len(W) + 1)
        /\ \A i \in 1..Len(W) : V[i] = W[i]
        /\ V[Len(W) + 1] = w
    BY Appended
  <1> HIDE DEF V
  <1>2. ASSUME NEW i \in 1..Len(W), NEW r \in Rounds, Makes(V[i], r), NEW j \in Jobs, Rival(r, j),
               s[j].state = "open" \/ \E m \in 1..(i - 1) : Makes(V[m], RoundOf[j])
        PROVE  \E m \in 1..(i - 1) : Ends(V[m], j)
    <2>1. V[i] = W[i] /\ \A m \in 1..(i - 1) : V[m] = W[m]
      BY <1>1
    <2> QED
      BY <1>1, <1>2, <2>1 DEF Single
  <1>3. ASSUME NEW r \in Rounds, Makes(w, r), NEW j \in Jobs, Rival(r, j),
               s[j].state = "open" \/ \E m \in 1..Len(W) : Makes(V[m], RoundOf[j])
        PROVE  \E m \in 1..Len(W) : Ends(V[m], j)
    BY <1>1, <1>3 DEF Opened, Made, Ended
  <1>4. (Len(W) + 1) - 1 = Len(W)
    BY <1>1
  <1>5. \A i \in DOMAIN V : i \in 1..Len(W) \/ (i = Len(W) + 1 /\ V[i] = w /\ i - 1 = Len(W))
    BY <1>1, <1>4
  <1>6. Single(s, V)
    BY <1>1, <1>2, <1>3, <1>5 DEF Single
  <1> QED
    BY <1>6 DEF V

(* An orderly sequence stays orderly with one more write that fits.        *)
LEMMA OrderlyMore ==
    ASSUME NEW s, NEW W \in Seq(Writes), NEW w \in Writes, Orderly(s, W),
           \A j \in Jobs : Makes(w, RoundOf[j]) => s[j].state = "none" /\ ~Made(W, RoundOf[j]) /\ ~Ended(W, j),
           \A j \in Jobs : Ends(w, j) => (s[j].state = "open" \/ Made(W, RoundOf[j])) /\ ~Ended(W, j)
    PROVE  Orderly(s, Append(W, w))
  <1> DEFINE V == Append(W, w)
  <1>1. /\ Len(W) \in Nat /\ DOMAIN W = 1..Len(W) /\ DOMAIN V = 1..(Len(W) + 1)
        /\ \A i \in 1..Len(W) : V[i] = W[i]
        /\ V[Len(W) + 1] = w
    BY Appended
  <1> HIDE DEF V
  <1>2. ASSUME NEW i \in 1..Len(W), NEW j \in Jobs
        PROVE  /\ Makes(V[i], RoundOf[j]) =>
                    /\ s[j].state = "none"
                    /\ \A m \in 1..(i - 1) : ~Makes(V[m], RoundOf[j]) /\ ~Ends(V[m], j)
               /\ Ends(V[i], j) =>
                    /\ s[j].state = "open" \/ \E m \in 1..(i - 1) : Makes(V[m], RoundOf[j])
                    /\ \A m \in 1..(i - 1) : ~Ends(V[m], j)
    <2>1. V[i] = W[i] /\ \A m \in 1..(i - 1) : V[m] = W[m]
      BY <1>1
    <2> QED
      BY <1>1, <2>1 DEF Orderly
  <1>3. ASSUME NEW j \in Jobs
        PROVE  /\ Makes(w, RoundOf[j]) =>
                    /\ s[j].state = "none"
                    /\ \A m \in 1..Len(W) : ~Makes(V[m], RoundOf[j]) /\ ~Ends(V[m], j)
               /\ Ends(w, j) =>
                    /\ s[j].state = "open" \/ \E m \in 1..Len(W) : Makes(V[m], RoundOf[j])
                    /\ \A m \in 1..Len(W) : ~Ends(V[m], j)
    BY <1>1 DEF Made, Ended
  <1>4. (Len(W) + 1) - 1 = Len(W)
    BY <1>1
  <1>5. \A i \in DOMAIN V : i \in 1..Len(W) \/ i = Len(W) + 1
    BY <1>1
  <1>6. Orderly(s, V)
    BY <1>1, <1>2, <1>3, <1>4, <1>5 DEF Orderly
  <1> QED
    BY <1>6 DEF V

-----------------------------------------------------------------------------
(* The operators on handlers: results and manifests.                       *)

(* The fields of a handler.                                                *)
LEMMA HandlerFields ==
    /\ \A h \in Handlers : /\ h.queue \in [Jobs -> Entries \cup {None}] /\ h.cursor \in SUBSET Occurrences
                           /\ h.planned \in SUBSET Occurrences /\ h.slot \in [Jobs -> Slots]
                           /\ h.writes \in Seq(Writes) /\ h.batch \in Seq(Progressions)
  BY DEF Handlers

(* Complete changes an open slot and records that.                          *)
LEMMA CompleteIs ==
    ASSUME NEW h \in Handlers, NEW j \in Jobs, NEW state \in Recorded, NEW of \in Jobs
    PROVE  /\ h.slot[j].state # "open" => Complete(h, j, state, of) = h
           /\ h.slot[j].state = "open" =>
                LET g == Complete(h, j, state, of)
                    w == [what |-> "complete", job |-> j, value |-> [state |-> state, of |-> of]]
                IN  /\ g \in Handlers /\ w \in Completions /\ w \in Writes
                    /\ g.queue = h.queue /\ g.cursor = h.cursor /\ g.planned = h.planned /\ g.batch = h.batch
                    /\ g.writes = Append(h.writes, w)
                    /\ g.slot = [h.slot EXCEPT ![j] = [state |-> state, of |-> of]]
  <1>1. CASE h.slot[j].state = "open"
    <2> DEFINE w == [what |-> "complete", job |-> j, value |-> [state |-> state, of |-> of]]
               t == [h.slot EXCEPT ![j] = [state |-> state, of |-> of]]
               g == Complete(h, j, state, of)
    <2>1. w \in Completions /\ w \in Writes
      BY DEF Completions, Results, Writes
    <2>2. t \in [Jobs -> Slots]
      BY HandlerFields DEF Slots
    <2>3. Append(h.writes, w) \in Seq(Writes)
      BY <2>1, HandlerFields, Appended
    <2>4. g = [h EXCEPT !.slot = t, !.writes = Append(h.writes, w)]
      BY <1>1 DEF Complete, Handlers
    <2> HIDE DEF w, t, g
    <2>5. /\ g \in Handlers
          /\ g.queue = h.queue /\ g.cursor = h.cursor /\ g.planned = h.planned /\ g.batch = h.batch
          /\ g.writes = Append(h.writes, w) /\ g.slot = t
      BY <2>2, <2>3, <2>4 DEF Handlers
    <2> QED
      BY <1>1, <2>1, <2>5 DEF w, t, g
  <1> QED
    BY <1>1 DEF Complete

(* store.complete keeps the promises of a handler.                         *)
LEMMA CompleteKeeps ==
    ASSUME NEW s, NEW e, NEW c, NEW h, Contract(h, s, e, c),
           NEW j \in Jobs, NEW state \in Recorded, NEW of \in Jobs
    PROVE  Contract(Complete(h, j, state, of), s, e, c)
  <1>0. h \in Handlers
    BY DEF Contract
  <1>1. CASE h.slot[j].state # "open"
    BY <1>1 DEF Complete
  <1>2. CASE h.slot[j].state = "open"
    <2> DEFINE g == Complete(h, j, state, of)
               w == [what |-> "complete", job |-> j, value |-> [state |-> state, of |-> of]]
    <2>1. /\ g \in Handlers /\ w \in Writes
          /\ g.queue = h.queue /\ g.cursor = h.cursor /\ g.planned = h.planned /\ g.batch = h.batch
          /\ g.writes = Append(h.writes, w)
          /\ g.slot = [h.slot EXCEPT ![j] = [state |-> state, of |-> of]]
      BY <1>0, <1>2, CompleteIs
    <2>2. /\ \A r \in Rounds : ~Makes(w, r)
          /\ \A i \in Jobs : Ends(w, i) <=> i = j
          /\ \A i \in Jobs : ~Makes(w, RoundOf[i]) /\ Keeps(w, i)
          /\ w.what # "create"
      BY RecoveryConstants DEF Makes, Ends, Keeps
    <2> HIDE DEF w, g
    <2>3. /\ \A r \in Rounds : Made(g.writes, r) <=> Made(h.writes, r)
          /\ \A i \in Jobs : Ended(g.writes, i) <=> Ended(h.writes, i) \/ i = j
          /\ \A i \in Jobs : KeepsAll(g.writes, i) <=> KeepsAll(h.writes, i)
          /\ \A i \in Jobs : Cancelled(s, g.writes, i) <=>
                (Cancelled(s, h.writes, i) \/ (i = j /\ w.value.state = "cancelled"))
      BY <1>0, <2>1, <2>2, OneMore, HandlerFields
    <2>4. \A i \in Jobs : RoundOf[i] \in Rounds
      BY RecoveryConstants
    <2>5. Opened(s, h.writes, j) /\ ~Unmade(s, h.writes, j)
      BY <1>2 DEF Contract, Views
    <2>6. Views(g, s)
      <3>1. \A i \in Jobs \ {j} : g.slot[i] = h.slot[i]
        BY <1>0, <2>1, HandlerFields
      <3>2. g.slot[j].state \notin {"open", "none"}
        BY <1>0, <2>1, HandlerFields DEF Recorded
      <3>3. \A i \in Jobs \ {j} : /\ g.slot[i].state = "open" <=> Opened(s, g.writes, i)
                                  /\ g.slot[i].state = "none" <=> Unmade(s, g.writes, i)
                                  /\ g.slot[i].state = "cancelled" <=> Cancelled(s, g.writes, i)
        BY <2>3, <2>4, <3>1 DEF Contract, Views, Opened, Unmade
      <3>4. ~Opened(s, g.writes, j) /\ ~Unmade(s, g.writes, j)
        BY <2>3, <2>4, <2>5 DEF Opened, Unmade
      <3>5. g.slot[j].state = "cancelled" <=> Cancelled(s, g.writes, j)
        <4>1. g.slot[j].state = state /\ w.value.state = state
          BY <1>0, <2>1, HandlerFields DEF w
        <4>2. ~Cancelled(s, h.writes, j)
          BY <1>2 DEF Contract, Views
        <4> QED
          BY <2>3, <4>1, <4>2
      <3> QED
        BY <3>2, <3>3, <3>4, <3>5 DEF Views
    <2>7. Orderly(s, g.writes)
      <3>1. \A i \in Jobs : Ends(w, i) => (s[i].state = "open" \/ Made(h.writes, RoundOf[i])) /\ ~Ended(h.writes, i)
        BY <2>2, <2>5 DEF Opened
      <3>2. Orderly(s, h.writes) /\ h.writes \in Seq(Writes)
        BY <1>0, HandlerFields DEF Contract
      <3> QED
        BY <2>1, <2>2, <3>1, <3>2, OrderlyMore
    <2>8. Original(g.writes)
      <3>1. /\ Len(h.writes) \in Nat /\ DOMAIN h.writes = 1..Len(h.writes)
            /\ DOMAIN g.writes = 1..(Len(h.writes) + 1)
            /\ \A i \in 1..Len(h.writes) : g.writes[i] = h.writes[i]
            /\ g.writes[Len(h.writes) + 1] = w
        BY <1>0, <2>1, Appended, HandlerFields
      <3>2. \A i \in DOMAIN g.writes : i \in DOMAIN h.writes \/ g.writes[i] = w
        BY <3>1
      <3> QED
        BY <2>2, <3>1, <3>2 DEF Original, Contract
    <2>9. Seen(g)
      <3>1. \A i \in Jobs : h.slot[i].state # "none" => g.slot[i].state # "none"
        BY <1>0, <2>1, HandlerFields DEF Recorded
      <3> QED
        BY <2>1, <3>1 DEF Seen, Contract
    <2>10. Minds(g, s, e)
      BY <2>1, <2>3 DEF Minds, Contract
    <2>11. c => Single(s, g.writes)
      BY <1>0, <2>1, <2>2, SingleMore, HandlerFields DEF Contract
    <2>12. c => Plain(g.writes) /\ Plain(g.batch)
      <3>1. w.what # "progress"
        BY DEF w
      <3> QED
        BY <1>0, <2>1, <3>1, OneMore, HandlerFields DEF Contract
    <2> QED
      BY <2>1, <2>6, <2>7, <2>8, <2>9, <2>10, <2>11, <2>12 DEF Contract, g
  <1> QED
    BY <1>1, <1>2

(* What a handler that made no writes of its own keeps of its contract.     *)
LEMMA SameWrites ==
    ASSUME NEW s, NEW e, NEW c, NEW h, Contract(h, s, e, c), NEW g \in Handlers,
           g.writes = h.writes, g.slot = h.slot, g.cursor \subseteq g.planned,
           \A j \in Jobs : g.queue[j] # None => g.slot[j].state # "none",
           \A j \in Jobs : e[j] # 0 => g.queue[j] \in {None, Busy} /\ KeepsAll(g.batch, j),
           c => Plain(g.batch)
    PROVE  Contract(g, s, e, c)
  BY DEF Contract, Views, Seen, Minds

(* So does the note of a phase in the manifest.                            *)
LEMMA ProgressKeeps ==
    ASSUME NEW s, NEW e, NEW c, NEW h, Contract(h, s, e, c), NEW j \in Jobs, h.queue[j] # None,
           c => h.queue[j].leader = None
    PROVE  /\ Contract(Progress(h, j), s, e, c)
           /\ LET g == Progress(h, j) IN
              /\ g.queue = h.queue /\ g.cursor = h.cursor /\ g.planned = h.planned
              /\ g.slot = h.slot /\ g.writes = h.writes
  <1> DEFINE w == [what |-> "progress", job |-> j, value |-> h.queue[j]]
             g == Progress(h, j)
  <1>0. h \in Handlers
    BY DEF Contract
  <1>1. w \in Progressions
    BY <1>0, HandlerFields DEF Progressions
  <1>2. Append(h.batch, w) \in Seq(Progressions)
    BY <1>0, <1>1, HandlerFields, Appended
  <1>3. g = [h EXCEPT !.batch = Append(h.batch, w)]
    BY <1>0 DEF Progress, Handlers
  <1>4. \A i \in Jobs : e[i] # 0 => Keeps(w, i)
    BY DEF Contract, Minds, Keeps, Makes
  <1> HIDE DEF w, g
  <1>5. /\ g \in Handlers
        /\ g.queue = h.queue /\ g.cursor = h.cursor /\ g.planned = h.planned
        /\ g.slot = h.slot /\ g.writes = h.writes /\ g.batch = Append(h.batch, w)
    BY <1>0, <1>2, <1>3 DEF Handlers
  <1>6. /\ Len(h.batch) \in Nat /\ DOMAIN h.batch = 1..Len(h.batch)
        /\ DOMAIN g.batch = 1..(Len(h.batch) + 1)
        /\ \A i \in 1..Len(h.batch) : g.batch[i] = h.batch[i]
        /\ g.batch[Len(h.batch) + 1] = w
    BY <1>0, <1>1, <1>5, Appended, HandlerFields
  <1>7. \A i \in DOMAIN g.batch : i \in DOMAIN h.batch \/ g.batch[i] = w
    BY <1>6
  <1>8. \A i \in Jobs : e[i] # 0 => h.queue[i] \in {None, Busy} /\ KeepsAll(g.batch, i)
    BY <1>4, <1>6, <1>7 DEF KeepsAll, Contract, Minds
  <1>10. c => Plain(g.batch)
    <2>1. w.value = h.queue[j]
      BY DEF w
    <2> QED
      BY <1>6, <1>7, <2>1 DEF Plain, Contract
  <1>9. Contract(g, s, e, c)
    BY <1>5, <1>8, <1>10, SameWrites DEF Contract, Seen
  <1> QED
    BY <1>5, <1>9 DEF g

-----------------------------------------------------------------------------
(* finishMany.                                                             *)

(* A set of jobs is finite and listed by SetToSeq.                         *)
LEMMA JobsCounted ==
    ASSUME NEW S \in SUBSET Jobs
    PROVE  IsFiniteSet(S) /\ Cardinality(S) \in Nat /\ SetToSeq(S) \in SetToSeqs(S)
                 /\ DOMAIN SetToSeq(S) = 1..Cardinality(S)
  <1>1. IsFiniteSet(S)
    BY RecoveryConstants, SubsetCounted
  <1> QED
    BY <1>1, Lists

(* Jobs that waited for another one are queued for themselves.             *)
FreedQueue(q, S) == [j \in Jobs |-> IF j \in S THEN Waits ELSE q[j]]

(* finishMany: to free followers keeps the promises.                       *)
LEMMA FreeKeeps ==
    ASSUME NEW s, NEW e, NEW c, NEW h, Contract(h, s, e, c), NEW S \in SUBSET Jobs,
           \A j \in S : h.queue[j] # None /\ h.queue[j].leader # None
    PROVE  /\ Contract(Free(h, S), s, e, c)
           /\ LET g == Free(h, S) IN
              /\ g.queue = FreedQueue(h.queue, S) /\ g.cursor = h.cursor /\ g.planned = h.planned
              /\ g.slot = h.slot /\ g.writes = h.writes
  <1> DEFINE q == FreedQueue(h.queue, S)
             f == [h EXCEPT !.queue = q]
             J == [T \in SUBSET S |-> {g \in Handlers :
                      /\ Contract(g, s, e, c)
                      /\ g.queue = q /\ g.cursor = h.cursor /\ g.planned = h.planned
                      /\ g.slot = h.slot /\ g.writes = h.writes}]
  <1>0. h \in Handlers
    BY DEF Contract
  <1>1. /\ q \in [Jobs -> Entries \cup {None}]
        /\ \A j \in Jobs : q[j] = IF j \in S THEN Waits ELSE h.queue[j]
    BY <1>0, HandlerFields, Entered DEF FreedQueue
  <1>2. Free(h, S) = FoldLeft(Progress, f, SetToSeq(S))
    BY DEF Free, FreedQueue, Waits
  <1> HIDE DEF q
  <1>3. /\ f \in Handlers /\ f.queue = q /\ f.cursor = h.cursor /\ f.planned = h.planned
        /\ f.slot = h.slot /\ f.writes = h.writes /\ f.batch = h.batch
    BY <1>0, <1>1 DEF Handlers
  <1> HIDE DEF f
  <1>4. Contract(f, s, e, c)
    <2>1. \A j \in Jobs : f.queue[j] # None => f.slot[j].state # "none"
      BY <1>1, <1>3 DEF Contract, Seen
    <2>2. \A j \in Jobs : e[j] # 0 => f.queue[j] \in {None, Busy} /\ KeepsAll(f.batch, j)
      <3>1. \A j \in S : e[j] = 0
        BY DEF Contract, Minds, Busy
      <3> QED
        BY <1>1, <1>3, <3>1 DEF Contract, Minds
    <2>3. c => Plain(f.batch)
      BY <1>3 DEF Contract
    <2> QED
      BY <1>3, <2>1, <2>2, <2>3, SameWrites DEF Contract
  <1>5. f \in J[{}]
    BY <1>3, <1>4
  <1>6. ASSUME NEW T \in SUBSET S, NEW x \in S \ T, NEW g \in J[T]
        PROVE  Do(g, x, "progress", 0, 0) \in J[T \cup {x}]
    <2>1. /\ g \in Handlers /\ Contract(g, s, e, c)
          /\ g.queue = q /\ g.cursor = h.cursor /\ g.planned = h.planned
          /\ g.slot = h.slot /\ g.writes = h.writes
      BY <1>6
    <2>2. g.queue[x] # None /\ x \in Jobs
      BY <1>1, <2>1, Entered
    <2>6. g.queue[x].leader = None
      BY <1>1, <2>1, <2>2 DEF Waits
    <2>3. /\ Contract(Progress(g, x), s, e, c)
          /\ Progress(g, x).queue = g.queue /\ Progress(g, x).cursor = g.cursor /\ Progress(g, x).planned = g.planned
          /\ Progress(g, x).slot = g.slot /\ Progress(g, x).writes = g.writes
      BY <2>1, <2>2, <2>6, ProgressKeeps
    <2>4. Do(g, x, "progress", 0, 0) = Progress(g, x)
      BY DEF Do
    <2>5. Progress(g, x) \in Handlers /\ T \cup {x} \in SUBSET S
      BY <2>3 DEF Contract
    <2> QED
      BY <2>1, <2>3, <2>4, <2>5
  <1> HIDE DEF J
  <1>7. Fold(f, Cardinality(S), SetToSeq(S), "progress", 0, 0) \in J[S]
    BY <1>5, <1>6, JobsCounted, FoldOver
  <1>8. Free(h, S) \in J[S]
    BY <1>2, <1>7, JobsCounted, StepFolds
  <1> QED
    BY <1>8 DEF J, q

(* Jobs of one end get its result.                                         *)
EndedSlots(t, S, state, all, l) ==
    [j \in Jobs |-> IF j \in S /\ t[j].state = "open"
                    THEN [state |-> state, of |-> IF all THEN l ELSE j] ELSE t[j]]

(* Handler g is h after the results of the jobs S.                         *)
EndsAs(g, h, s, e, c, S, state, all, l) ==
    /\ Contract(g, s, e, c)
    /\ g.queue = h.queue /\ g.cursor = h.cursor /\ g.planned = h.planned /\ g.batch = h.batch
    /\ g.slot = EndedSlots(h.slot, S, state, all, l)
    /\ \A i \in Jobs : \A m : Named(g.writes, i, m) <=> Named(h.writes, i, m)

(* finishMany and enqueue: so do the results of several jobs.              *)
LEMMA EndsKeep ==
    ASSUME NEW s, NEW e, NEW c, NEW h, Contract(h, s, e, c), NEW S \in SUBSET Jobs,
           NEW state \in Recorded, NEW all \in BOOLEAN, NEW l, all => l \in Jobs,
           NEW k, k = IF all THEN "follow" ELSE "miss"
    PROVE  EndsAs(Fold(h, Cardinality(S), SetToSeq(S), k, state, l), h, s, e, c, S, state, all, l)
  <1> DEFINE J == [T \in SUBSET S |-> {u \in Handlers :
                      /\ Contract(u, s, e, c)
                      /\ u.queue = h.queue /\ u.cursor = h.cursor /\ u.planned = h.planned /\ u.batch = h.batch
                      /\ u.slot = EndedSlots(h.slot, T, state, all, l)
                      /\ \A i \in Jobs : \A m : Named(u.writes, i, m) <=> Named(h.writes, i, m)}]
  <1>0. h \in Handlers /\ h.slot \in [Jobs -> Slots]
    BY HandlerFields DEF Contract
  <1>1. h \in J[{}]
    <2>1. h.slot = EndedSlots(h.slot, {}, state, all, l)
      BY <1>0 DEF EndedSlots
    <2> QED
      BY <1>0, <2>1
  <1>2. ASSUME NEW T \in SUBSET S, NEW x \in S \ T, NEW u \in J[T]
        PROVE  Do(u, x, k, state, l) \in J[T \cup {x}]
    <2> DEFINE of == IF all THEN l ELSE x
               G == Complete(u, x, state, of)
    <2>1. /\ u \in Handlers /\ Contract(u, s, e, c)
          /\ u.queue = h.queue /\ u.cursor = h.cursor /\ u.planned = h.planned /\ u.batch = h.batch
          /\ u.slot = EndedSlots(h.slot, T, state, all, l)
          /\ \A i \in Jobs : \A m : Named(u.writes, i, m) <=> Named(h.writes, i, m)
      BY <1>2
    <2>2. x \in Jobs /\ of \in Jobs
      OBVIOUS
    <2>3. Do(u, x, k, state, l) = G
      BY DEF Do
    <2>4. u.slot[x] = h.slot[x]
      BY <1>0, <2>1, <2>2 DEF EndedSlots
    <2> HIDE DEF of
    <2>5. Contract(G, s, e, c)
      BY <2>1, <2>2, CompleteKeeps
    <2>6. /\ G.queue = h.queue /\ G.cursor = h.cursor /\ G.planned = h.planned /\ G.batch = h.batch
          /\ G.slot = EndedSlots(h.slot, T \cup {x}, state, all, l)
          /\ \A i \in Jobs : \A m : Named(G.writes, i, m) <=> Named(h.writes, i, m)
      <3>1. CASE u.slot[x].state # "open"
        <4>1. G = u
          BY <3>1 DEF Complete
        <4>2. EndedSlots(h.slot, T, state, all, l) = EndedSlots(h.slot, T \cup {x}, state, all, l)
          BY <2>4, <3>1 DEF EndedSlots
        <4> QED
          BY <2>1, <4>1, <4>2
      <3>2. CASE u.slot[x].state = "open"
        <4> DEFINE w == [what |-> "complete", job |-> x, value |-> [state |-> state, of |-> of]]
        <4>1. /\ G \in Handlers /\ w \in Writes
              /\ G.queue = u.queue /\ G.cursor = u.cursor /\ G.planned = u.planned /\ G.batch = u.batch
              /\ G.writes = Append(u.writes, w)
              /\ G.slot = [u.slot EXCEPT ![x] = [state |-> state, of |-> of]]
          BY <2>1, <2>2, <3>2, CompleteIs
        <4>2. \A i \in Jobs : ~Makes(w, RoundOf[i])
          BY DEF Makes
        <4> HIDE DEF w, G
        <4>3. \A i \in Jobs : \A m : Named(G.writes, i, m) <=> Named(u.writes, i, m)
          BY <2>1, <4>1, <4>2, OneMore, HandlerFields
        <4>4. G.slot = EndedSlots(h.slot, T \cup {x}, state, all, l)
          <5>1. \A i \in Jobs : G.slot[i] = EndedSlots(h.slot, T \cup {x}, state, all, l)[i]
            BY <1>0, <2>1, <2>2, <2>4, <3>2, <4>1 DEF EndedSlots, of
          <5>2. G.slot \in [Jobs -> Slots]
            BY <4>1, HandlerFields
          <5> QED
            BY <5>1, <5>2 DEF EndedSlots
        <4> QED
          BY <2>1, <4>1, <4>3, <4>4
      <3> QED
        BY <3>1, <3>2
    <2>7. G \in Handlers /\ T \cup {x} \in SUBSET S
      BY <2>5 DEF Contract
    <2> HIDE DEF G
    <2> QED
      BY <2>3, <2>5, <2>6, <2>7
  <1> HIDE DEF J
  <1>3. Fold(h, Cardinality(S), SetToSeq(S), k, state, l) \in J[S]
    BY <1>1, <1>2, JobsCounted, FoldOver
  <1> QED
    BY <1>3 DEF J, EndsAs

(* finishMany: so does the removal of jobs from the queue.                 *)
LEMMA WithoutKeeps ==
    ASSUME NEW s, NEW e, NEW c, NEW h, Contract(h, s, e, c), NEW S \in SUBSET Jobs
    PROVE  LET g == Without(h, S) IN
           /\ Contract(g, s, e, c)
           /\ g.queue = [j \in Jobs |-> IF j \in S THEN None ELSE h.queue[j]]
           /\ g.cursor = h.cursor /\ g.planned = h.planned /\ g.batch = h.batch
           /\ g.slot = h.slot /\ g.writes = h.writes
  <1> DEFINE q == [j \in Jobs |-> IF j \in S THEN None ELSE h.queue[j]]
             g == Without(h, S)
  <1>0. h \in Handlers
    BY DEF Contract
  <1>1. q \in [Jobs -> Entries \cup {None}] /\ \A j \in Jobs : q[j] = IF j \in S THEN None ELSE h.queue[j]
    BY <1>0, HandlerFields
  <1>2. g = [h EXCEPT !.queue = q]
    BY DEF Without
  <1> HIDE DEF q, g
  <1>3. /\ g \in Handlers /\ g.queue = q /\ g.cursor = h.cursor /\ g.planned = h.planned
        /\ g.slot = h.slot /\ g.writes = h.writes /\ g.batch = h.batch
    BY <1>0, <1>1, <1>2 DEF Handlers
  <1>4. \A j \in Jobs : g.queue[j] # None => g.slot[j].state # "none"
    BY <1>1, <1>3 DEF Contract, Seen
  <1>5. \A j \in Jobs : e[j] # 0 => g.queue[j] \in {None, Busy} /\ KeepsAll(g.batch, j)
    BY <1>1, <1>3 DEF Contract, Minds
  <1>6. Contract(g, s, e, c)
    BY <1>3, <1>4, <1>5, SameWrites DEF Contract
  <1> QED
    BY <1>3, <1>6 DEF g, q

(* What finishMany leaves of one job and its followers.                    *)
FinishedQueue(h, j, state) ==
    [i \in Jobs |-> IF i = j THEN None
                    ELSE IF i \notin Followers(h, j) THEN h.queue[i]
                    ELSE IF state = "cancelled" THEN Waits ELSE None]
FinishedSlots(h, j, state) ==
    EndedSlots(h.slot, IF state = "cancelled" THEN {j} ELSE Followers(h, j) \cup {j}, state, TRUE, j)

(* finishMany of a job with its followers keeps the promises.              *)
LEMMA FinishKeeps ==
    ASSUME NEW s, NEW e, NEW c, NEW h, Contract(h, s, e, c), NEW j \in Jobs,
           NEW state \in Recorded, h.queue[j] # None
    PROVE  LET g == FinishOne(h, j, state) IN
           /\ Contract(g, s, e, c)
           /\ g.queue = FinishedQueue(h, j, state) /\ g.slot = FinishedSlots(h, j, state)
           /\ g.cursor = h.cursor /\ g.planned = h.planned
           /\ \A i \in Jobs : \A m : Named(g.writes, i, m) <=> Named(h.writes, i, m)
  <1> DEFINE F == Followers(h, j)
             done == Complete(h, j, state, j)
             g == FinishOne(h, j, state)
  <1>0. h \in Handlers /\ h.slot \in [Jobs -> Slots] /\ h.queue \in [Jobs -> Entries \cup {None}]
    BY HandlerFields DEF Contract
  <1>1. F \in SUBSET Jobs /\ \A i \in F : h.queue[i] # None /\ h.queue[i].leader = j
    BY DEF Followers, Known
  <1>2. j # None
    BY Entered
  <1>3. /\ Contract(done, s, e, c) /\ done.queue = h.queue /\ done.cursor = h.cursor /\ done.planned = h.planned
        /\ done.slot = EndedSlots(h.slot, {j}, state, TRUE, j)
        /\ \A i \in Jobs : \A m : Named(done.writes, i, m) <=> Named(h.writes, i, m)
    <2>1. Contract(done, s, e, c)
      BY CompleteKeeps
    <2>2. CASE h.slot[j].state # "open"
      <3>1. done = h
        BY <2>2 DEF Complete
      <3>2. h.slot = EndedSlots(h.slot, {j}, state, TRUE, j)
        BY <1>0, <2>2 DEF EndedSlots
      <3> QED
        BY <2>1, <3>1, <3>2
    <2>3. CASE h.slot[j].state = "open"
      <3> DEFINE w == [what |-> "complete", job |-> j, value |-> [state |-> state, of |-> j]]
      <3>1. /\ w \in Writes /\ done.queue = h.queue /\ done.cursor = h.cursor /\ done.planned = h.planned
            /\ done.writes = Append(h.writes, w)
            /\ done.slot = [h.slot EXCEPT ![j] = [state |-> state, of |-> j]]
        BY <1>0, <2>3, CompleteIs
      <3>2. \A i \in Jobs : ~Makes(w, RoundOf[i])
        BY DEF Makes
      <3> HIDE DEF w, done
      <3>3. \A i \in Jobs : \A m : Named(done.writes, i, m) <=> Named(h.writes, i, m)
        BY <1>0, <3>1, <3>2, OneMore, HandlerFields
      <3>4. done.slot = EndedSlots(h.slot, {j}, state, TRUE, j)
        BY <1>0, <2>3, <3>1 DEF EndedSlots
      <3> QED
        BY <2>1, <3>1, <3>3, <3>4
    <2> QED
      BY <2>2, <2>3
  <1> HIDE DEF done, F, g
  <1>10. Followers(done, j) = F
    BY <1>3 DEF Followers, Known, F
  <1>4. CASE state = "cancelled"
    <2> DEFINE f == Free(done, F)
    <2>2. g = Without(f, {j})
      BY <1>4 DEF FinishOne, done, g, F
    <2>3. \A i \in F : done.queue[i] # None /\ done.queue[i].leader # None
      BY <1>1, <1>2, <1>3
    <2>10. Contract(done, s, e, c)
      BY <1>3
    <2>11. F \in SUBSET Jobs
      BY <1>1
    <2>12. /\ Contract(Free(done, F), s, e, c)
           /\ LET u == Free(done, F) IN
              /\ u.queue = FreedQueue(done.queue, F) /\ u.cursor = done.cursor /\ u.planned = done.planned
              /\ u.slot = done.slot /\ u.writes = done.writes
      BY <2>3, <2>10, <2>11, FreeKeeps
    <2>4. /\ Contract(f, s, e, c)
          /\ f.queue = FreedQueue(done.queue, F) /\ f.cursor = done.cursor /\ f.planned = done.planned
          /\ f.slot = done.slot /\ f.writes = done.writes
      BY <2>12
    <2> HIDE DEF f
    <2>13. LET u == Without(f, {j}) IN
           /\ Contract(u, s, e, c)
           /\ u.queue = [i \in Jobs |-> IF i \in {j} THEN None ELSE f.queue[i]]
           /\ u.cursor = f.cursor /\ u.planned = f.planned /\ u.batch = f.batch
           /\ u.slot = f.slot /\ u.writes = f.writes
      <3>1. Contract(f, s, e, c) /\ {j} \in SUBSET Jobs
        BY <2>4
      <3> QED
        BY <3>1, WithoutKeeps
    <2>5. /\ Contract(g, s, e, c)
          /\ g.queue = [i \in Jobs |-> IF i \in {j} THEN None ELSE f.queue[i]]
          /\ g.cursor = f.cursor /\ g.planned = f.planned /\ g.slot = f.slot /\ g.writes = f.writes
      BY <2>2, <2>13
    <2>6. g.queue = FinishedQueue(h, j, state)
      BY <1>3, <1>4, <2>4, <2>5 DEF FinishedQueue, FreedQueue, F
    <2>7. g.slot = FinishedSlots(h, j, state)
      BY <1>3, <1>4, <2>4, <2>5 DEF FinishedSlots
    <2>8. \A i \in Jobs : \A m : Named(g.writes, i, m) <=> Named(h.writes, i, m)
      BY <1>3, <2>4, <2>5
    <2>9. Contract(g, s, e, c) /\ g.cursor = h.cursor /\ g.planned = h.planned
      BY <1>3, <2>4, <2>5
    <2> QED
      BY <2>6, <2>7, <2>8, <2>9 DEF g
  <1>5. CASE state # "cancelled"
    <2> DEFINE f == Fold(done, Cardinality(F), SetToSeq(F), "follow", state, j)
    <2>11. F \in SUBSET Jobs /\ Contract(done, s, e, c) /\ TRUE \in BOOLEAN
      BY <1>1, <1>3
    <2>12. Cardinality(F) \in Nat /\ DOMAIN SetToSeq(F) = 1..Cardinality(F)
      BY <2>11, JobsCounted
    <2>1. FoldLeft(LAMBDA x, y : Complete(x, y, state, j), done, SetToSeq(F)) = f
      BY <2>12, ResultFolds, ZenonT(60)
    <2>2. g = Without(f, F \cup {j})
      BY <1>5, <1>10, <2>1 DEF FinishOne, done, g, F
    <2>4. "follow" = IF TRUE THEN "follow" ELSE "miss"
      OBVIOUS
    <2>15. EndsAs(f, done, s, e, c, F, state, TRUE, j)
      BY <2>4, <2>11, EndsKeep
    <2> HIDE DEF f
    <2>3. /\ Contract(f, s, e, c) /\ f.queue = done.queue /\ f.cursor = done.cursor /\ f.planned = done.planned
          /\ f.slot = EndedSlots(done.slot, F, state, TRUE, j)
          /\ \A i \in Jobs : \A m : Named(f.writes, i, m) <=> Named(done.writes, i, m)
      BY <2>15 DEF EndsAs
    <2>14. LET u == Without(f, F \cup {j}) IN
           /\ Contract(u, s, e, c)
           /\ u.queue = [i \in Jobs |-> IF i \in F \cup {j} THEN None ELSE f.queue[i]]
           /\ u.cursor = f.cursor /\ u.planned = f.planned /\ u.batch = f.batch
           /\ u.slot = f.slot /\ u.writes = f.writes
      <3>1. Contract(f, s, e, c) /\ F \cup {j} \in SUBSET Jobs
        BY <2>3, <2>11
      <3> QED
        BY <3>1, WithoutKeeps
    <2>5. /\ Contract(g, s, e, c)
          /\ g.queue = [i \in Jobs |-> IF i \in F \cup {j} THEN None ELSE f.queue[i]]
          /\ g.cursor = f.cursor /\ g.planned = f.planned /\ g.slot = f.slot /\ g.writes = f.writes
      BY <2>2, <2>14
    <2>6. g.queue = FinishedQueue(h, j, state)
      BY <1>3, <1>5, <2>3, <2>5 DEF FinishedQueue, F
    <2>7. g.slot = FinishedSlots(h, j, state)
      <3>1. EndedSlots(EndedSlots(h.slot, {j}, state, TRUE, j), F, state, TRUE, j)
                = EndedSlots(h.slot, F \cup {j}, state, TRUE, j)
        <4>1. state # "open"
          BY DEF Recorded
        <4> QED
          BY <4>1 DEF EndedSlots
      <3> QED
        BY <1>3, <1>5, <2>3, <2>5, <3>1 DEF FinishedSlots, F
    <2>8. \A i \in Jobs : \A m : Named(g.writes, i, m) <=> Named(h.writes, i, m)
      BY <1>3, <2>3, <2>5
    <2>9. Contract(g, s, e, c) /\ g.cursor = h.cursor /\ g.planned = h.planned
      BY <1>3, <2>3, <2>5
    <2> QED
      BY <2>6, <2>7, <2>8, <2>9 DEF g
  <1> QED
    BY <1>4, <1>5

(* Writes that neither make nor end a slot.                                *)
Quiet(B) == \A i \in DOMAIN B : B[i].what \notin {"create", "complete"}

(* Writes that neither make nor end a slot, added to others.               *)
LEMMA QuietJoin ==
    ASSUME NEW T, NEW W \in Seq(T), NEW B \in Seq(T), Quiet(B), NEW s
    PROVE  LET V == W \o B IN
           /\ \A r \in Rounds : Made(V, r) <=> Made(W, r)
           /\ \A j \in Jobs : Ended(V, j) <=> Ended(W, j)
           /\ \A j \in Jobs : \A l : Named(V, j, l) <=> Named(W, j, l)
           /\ \A j \in Jobs : Cancelled(s, V, j) <=> Cancelled(s, W, j)
           /\ \A j \in Jobs : KeepsAll(V, j) <=> KeepsAll(W, j) /\ KeepsAll(B, j)
           /\ Plain(V) <=> Plain(W) /\ Plain(B)
           /\ Orderly(s, W) => Orderly(s, V)
           /\ Single(s, W) => Single(s, V)
           /\ Original(W) => Original(V)
  <1> DEFINE V == W \o B
  <1>1. /\ Len(W) \in Nat /\ Len(B) \in Nat
        /\ DOMAIN W = 1..Len(W) /\ DOMAIN B = 1..Len(B) /\ DOMAIN V = 1..(Len(W) + Len(B))
        /\ \A i \in 1..Len(W) : V[i] = W[i]
        /\ \A i \in (Len(W) + 1)..(Len(W) + Len(B)) : V[i] = B[i - Len(W)]
    BY Joined
  <1> HIDE DEF V
  <1>2. \A i \in DOMAIN V : \/ i \in DOMAIN W /\ V[i] = W[i]
                            \/ /\ i - Len(W) \in DOMAIN B /\ V[i] = B[i - Len(W)]
                               /\ V[i].what \notin {"create", "complete"}
    <2>1. \A i \in DOMAIN V : i \in 1..Len(W) \/ (i \in (Len(W) + 1)..(Len(W) + Len(B)) /\ i - Len(W) \in 1..Len(B))
      BY <1>1
    <2> QED
      BY <1>1, <2>1 DEF Quiet
  <1>3. \A i \in DOMAIN W : i \in DOMAIN V /\ V[i] = W[i]
    BY <1>1
  <1>4. \A i \in DOMAIN B : \E m \in DOMAIN V : V[m] = B[i]
    <2>1. ASSUME NEW i \in DOMAIN B PROVE Len(W) + i \in DOMAIN V /\ V[Len(W) + i] = B[i]
      <3>1. Len(W) + i \in (Len(W) + 1)..(Len(W) + Len(B)) /\ (Len(W) + i) - Len(W) = i
        BY <1>1
      <3> QED
        BY <1>1, <3>1
    <2> QED
      BY <2>1
  <1>5. \A r \in Rounds : Made(V, r) <=> Made(W, r)
    BY <1>2, <1>3 DEF Made, Makes
  <1>6. \A j \in Jobs : Ended(V, j) <=> Ended(W, j)
    BY <1>2, <1>3 DEF Ended, Ends
  <1>7. ASSUME NEW j \in Jobs, NEW l PROVE Named(V, j, l) <=> Named(W, j, l)
    BY <1>2, <1>3 DEF Named, Makes
  <1>8. \A j \in Jobs : Cancelled(s, V, j) <=> Cancelled(s, W, j)
    <2> TAKE j \in Jobs
    <2>1. Cancelled(s, V, j) => Cancelled(s, W, j)
      BY <1>2 DEF Cancelled, Ends
    <2>2. Cancelled(s, W, j) => Cancelled(s, V, j)
      BY <1>3 DEF Cancelled
    <2> QED
      BY <2>1, <2>2
  <1>9. \A j \in Jobs : KeepsAll(V, j) <=> KeepsAll(W, j) /\ KeepsAll(B, j)
    <2> TAKE j \in Jobs
    <2>1. KeepsAll(V, j) => KeepsAll(W, j)
      BY <1>3 DEF KeepsAll
    <2>2. KeepsAll(V, j) => KeepsAll(B, j)
      BY <1>4 DEF KeepsAll
    <2>3. KeepsAll(W, j) /\ KeepsAll(B, j) => KeepsAll(V, j)
      BY <1>2 DEF KeepsAll
    <2> QED
      BY <2>1, <2>2, <2>3
  <1>10. Plain(V) <=> Plain(W) /\ Plain(B)
    <2>1. Plain(V) => Plain(W)
      BY <1>3 DEF Plain
    <2>2. Plain(V) => Plain(B)
      BY <1>4 DEF Plain
    <2>3. Plain(W) /\ Plain(B) => Plain(V)
      BY <1>2 DEF Plain
    <2> QED
      BY <2>1, <2>2, <2>3
  <1>11. \A i \in DOMAIN W : \A m \in 1..(i - 1) : V[m] = W[m]
    BY <1>1
  <1>12. Orderly(s, W) => Orderly(s, V)
    <2> SUFFICES ASSUME Orderly(s, W), NEW i \in DOMAIN V, NEW j \in Jobs
                 PROVE  /\ Makes(V[i], RoundOf[j]) =>
                              /\ s[j].state = "none"
                              /\ \A m \in 1..(i - 1) : ~Makes(V[m], RoundOf[j]) /\ ~Ends(V[m], j)
                        /\ Ends(V[i], j) =>
                              /\ s[j].state = "open" \/ \E m \in 1..(i - 1) : Makes(V[m], RoundOf[j])
                              /\ \A m \in 1..(i - 1) : ~Ends(V[m], j)
      BY DEF Orderly
    <2>1. CASE i \in DOMAIN W /\ V[i] = W[i]
      BY <1>11, <2>1 DEF Orderly
    <2>2. CASE V[i].what \notin {"create", "complete"}
      BY <2>2 DEF Makes, Ends
    <2> QED
      BY <1>2, <2>1, <2>2
  <1>13. Single(s, W) => Single(s, V)
    <2> SUFFICES ASSUME Single(s, W), NEW i \in DOMAIN V, NEW r \in Rounds, Makes(V[i], r), NEW j \in Jobs,
                        Rival(r, j),
                        s[j].state = "open" \/ \E m \in 1..(i - 1) : Makes(V[m], RoundOf[j])
                 PROVE  \E m \in 1..(i - 1) : Ends(V[m], j)
      BY DEF Single
    <2>1. CASE i \in DOMAIN W /\ V[i] = W[i]
      BY <1>11, <2>1 DEF Single
    <2>2. CASE V[i].what \notin {"create", "complete"}
      BY <2>2 DEF Makes
    <2> QED
      BY <1>2, <2>1, <2>2
  <1>14. Original(W) => Original(V)
    BY <1>2 DEF Original
  <1> QED
    BY <1>5, <1>6, <1>7, <1>8, <1>9, <1>10, <1>12, <1>13, <1>14 DEF V

(* The rounds made are those some manifest is written for.                 *)
LEMMA NamedMade ==
    ASSUME NEW V, NEW W, NEW j \in Jobs, \A m : Named(V, j, m) <=> Named(W, j, m)
    PROVE  Made(V, RoundOf[j]) <=> Made(W, RoundOf[j])
  <1>1. \A U : Made(U, RoundOf[j]) <=> \E m : Named(U, j, m)
    BY DEF Made, Named
  <1> QED
    BY <1>1

(* How a handler h goes on as g: N are the jobs it may put into the queue.  *)
Onward(h, g, N) ==
    /\ g.cursor = h.cursor /\ g.planned = h.planned
    /\ \A j \in Jobs : /\ g.slot[j].state = "open" => h.slot[j].state = "open"
                       /\ g.slot[j].state = "open" /\ h.queue[j] # None => g.queue[j] # None
                       /\ j \notin N /\ g.queue[j] # None => h.queue[j] # None
    /\ \A j \in Jobs : \A m : Named(g.writes, j, m) <=> Named(h.writes, j, m)

(* A batch of manifests ends: the promises are kept.                       *)
LEMMA BatchKeeps ==
    ASSUME NEW s, NEW e, NEW c, NEW h, Contract(h, s, e, c)
    PROVE  /\ Contract(EndBatch(h), s, e, c) /\ Onward(h, EndBatch(h), {})
           /\ EndBatch(h).queue = h.queue /\ EndBatch(h).slot = h.slot /\ EndBatch(h).batch = <<>>
  <1> DEFINE V == h.writes \o h.batch
             g == EndBatch(h)
  <1>0. h \in Handlers
    BY DEF Contract
  <1>1. h.writes \in Seq(Writes) /\ h.batch \in Seq(Writes)
    <2>1. h.batch \in Seq(Progressions)
      BY <1>0, HandlerFields
    <2> QED
      BY <1>0, <2>1, HandlerFields, WriteKinds
  <1>2. Quiet(h.batch)
    <2>1. \A i \in DOMAIN h.batch : h.batch[i] \in Progressions
      BY <1>0, HandlerFields
    <2> QED
      BY <2>1, WriteKinds DEF Quiet
  <1>3. V \in Seq(Writes)
    BY <1>1, Joined
  <1>4. /\ \A r \in Rounds : Made(V, r) <=> Made(h.writes, r)
        /\ \A j \in Jobs : Ended(V, j) <=> Ended(h.writes, j)
        /\ \A j \in Jobs : \A l : Named(V, j, l) <=> Named(h.writes, j, l)
        /\ \A j \in Jobs : Cancelled(s, V, j) <=> Cancelled(s, h.writes, j)
        /\ \A j \in Jobs : KeepsAll(V, j) <=> KeepsAll(h.writes, j) /\ KeepsAll(h.batch, j)
        /\ Plain(V) <=> Plain(h.writes) /\ Plain(h.batch)
        /\ Orderly(s, h.writes) => Orderly(s, V)
        /\ Single(s, h.writes) => Single(s, V)
        /\ Original(h.writes) => Original(V)
    BY <1>1, <1>2, QuietJoin
  <1> HIDE DEF V
  <1>5. g = [h EXCEPT !.writes = V, !.batch = <<>>]
    BY <1>0 DEF EndBatch, V, Handlers
  <1> HIDE DEF g
  <1>6. /\ g \in Handlers /\ g.queue = h.queue /\ g.slot = h.slot /\ g.batch = <<>>
        /\ g.cursor = h.cursor /\ g.planned = h.planned /\ g.writes = V
    <2>1. <<>> \in Seq(Progressions)
      BY EmptySeq
    <2> QED
      BY <1>0, <1>3, <1>5, <2>1 DEF Handlers
  <1>7. \A j \in Jobs : RoundOf[j] \in Rounds
    BY RecoveryConstants
  <1>8. Views(g, s)
    BY <1>4, <1>6, <1>7 DEF Contract, Views, Opened, Unmade
  <1>9. Minds(g, s, e)
    <2>1. \A j \in Jobs : KeepsAll(<<>>, j)
      BY DEF KeepsAll
    <2> QED
      BY <1>4, <1>6, <2>1 DEF Contract, Minds
  <1>10. Plain(<<>>)
    BY DEF Plain
  <1>11. Contract(g, s, e, c)
    BY <1>4, <1>6, <1>8, <1>9, <1>10 DEF Contract, Seen
  <1>12. Onward(h, g, {})
    BY <1>4, <1>6 DEF Onward
  <1> QED
    BY <1>6, <1>11, <1>12 DEF g, V

(* What a result does to a handler.                                        *)
LEMMA CompleteDoes ==
    ASSUME NEW h \in Handlers, NEW j \in Jobs, NEW state \in Recorded, NEW of \in Jobs
    PROVE  LET g == Complete(h, j, state, of) IN
           /\ g \in Handlers /\ Onward(h, g, {})
           /\ g.queue = h.queue /\ g.cursor = h.cursor /\ g.planned = h.planned /\ g.batch = h.batch
           /\ g.slot = IF h.slot[j].state = "open" THEN [h.slot EXCEPT ![j] = [state |-> state, of |-> of]]
                       ELSE h.slot
           /\ g.slot[j].state # "open"
           /\ \A i \in Jobs : \A m : Named(g.writes, i, m) <=> Named(h.writes, i, m)
  <1> DEFINE g == Complete(h, j, state, of)
             w == [what |-> "complete", job |-> j, value |-> [state |-> state, of |-> of]]
  <1>0. h.slot \in [Jobs -> Slots] /\ state # "open"
    BY HandlerFields DEF Recorded
  <1>1. CASE h.slot[j].state # "open"
    BY <1>1 DEF Complete, Onward
  <1>2. CASE h.slot[j].state = "open"
    <2>1. /\ g \in Handlers /\ w \in Writes
          /\ g.queue = h.queue /\ g.cursor = h.cursor /\ g.planned = h.planned /\ g.batch = h.batch
          /\ g.writes = Append(h.writes, w)
          /\ g.slot = [h.slot EXCEPT ![j] = [state |-> state, of |-> of]]
      BY <1>2, CompleteIs
    <2>2. \A i \in Jobs : ~Makes(w, RoundOf[i])
      BY DEF Makes
    <2> HIDE DEF w, g
    <2>3. \A i \in Jobs : \A m : Named(g.writes, i, m) <=> Named(h.writes, i, m)
      BY <2>1, <2>2, OneMore, HandlerFields
    <2>4. g.slot[j].state # "open" /\ \A i \in Jobs : g.slot[i].state = "open" => h.slot[i].state = "open"
      BY <1>0, <2>1
    <2>5. Onward(h, g, {})
      BY <2>1, <2>3, <2>4 DEF Onward
    <2> QED
      BY <1>2, <2>1, <2>3, <2>4, <2>5 DEF g
  <1> QED
    BY <1>1, <1>2

-----------------------------------------------------------------------------
(* Recovery.                                                               *)

(* The jobs of S are back in the queue, or have a result; the others and    *)
(* the queue as it was are left alone.                                     *)
Recovers(h, g, S) ==
    /\ Onward(h, g, S)
    /\ \A j \in Jobs : h.queue[j] # None => g.queue[j] = h.queue[j]
    /\ \A j \in S : g.queue[j] # None \/ g.slot[j].state # "open"
    /\ \A j \in Jobs \ S : g.slot[j] = h.slot[j] /\ g.queue[j] = h.queue[j]

(* A job of a round that is made enters the queue.                         *)
LEMMA AddKeeps ==
    ASSUME NEW s, NEW e, NEW c, NEW h, Contract(h, s, e, c), NEW j \in Jobs, NEW entry \in Entries,
           h.slot[j].state # "none", e[j] # 0 => entry = Busy
    PROVE  /\ Contract(Add(h, j, entry), s, e, c)
           /\ LET g == Add(h, j, entry) IN
              /\ g.queue = [h.queue EXCEPT ![j] = entry] /\ g.cursor = h.cursor /\ g.planned = h.planned
              /\ g.slot = h.slot /\ g.writes = h.writes /\ g.batch = h.batch
  <1> DEFINE q == [h.queue EXCEPT ![j] = entry]
             g == Add(h, j, entry)
  <1>0. h \in Handlers /\ h.queue \in [Jobs -> Entries \cup {None}]
    BY HandlerFields DEF Contract
  <1>1. /\ q \in [Jobs -> Entries \cup {None}] /\ q[j] = entry
        /\ \A i \in Jobs \ {j} : q[i] = h.queue[i]
    BY <1>0
  <1>2. g = [h EXCEPT !.queue = q]
    BY <1>0 DEF Add, Handlers
  <1> HIDE DEF q, g
  <1>3. /\ g \in Handlers /\ g.queue = q /\ g.cursor = h.cursor /\ g.planned = h.planned
        /\ g.slot = h.slot /\ g.writes = h.writes /\ g.batch = h.batch
    BY <1>0, <1>1, <1>2 DEF Handlers
  <1>4. \A i \in Jobs : g.queue[i] # None => g.slot[i].state # "none"
    BY <1>1, <1>3 DEF Contract, Seen
  <1>5. \A i \in Jobs : e[i] # 0 => g.queue[i] \in {None, Busy} /\ KeepsAll(g.batch, i)
    BY <1>1, <1>3 DEF Contract, Minds
  <1>6. Contract(g, s, e, c)
    BY <1>3, <1>4, <1>5, SameWrites DEF Contract
  <1> QED
    BY <1>3, <1>6 DEF g, q

(* recoverJob takes up a measurement that a worker has as it was.          *)
LEMMA Reattached ==
    ASSUME NEW h \in Handlers, NEW j \in Jobs, NEW R, None \notin R, saved \in [Jobs -> Entries]
    PROVE  /\ Share(h, j) \in Entries
           /\ Reattach(h, j, R) \in Entries
           /\ saved[j] = Busy => Reattach(h, j, R) = Busy
  <1>1. Share(h, j) \in Entries
    <2>1. CASE Leaders(h, j) = {}
      BY <2>1, Entered DEF Share, Waits
    <2>2. CASE Leaders(h, j) # {}
      <3> DEFINE l == CHOOSE x \in Leaders(h, j) : TRUE
      <3>1. l \in Jobs
        BY <2>2 DEF Leaders, Known
      <3> QED
        BY <2>2, <3>1 DEF Share, Entries
    <2> QED
      BY <2>1, <2>2
  <1>2. Busy = [phase |-> "running", leader |-> None] /\ Busy \in Entries
    BY Entered DEF Busy
  <1> QED
    BY <1>1, <1>2 DEF Reattach

(* recoverJob of an open slot.                                             *)
LEMMA RecoverJobKeeps ==
    ASSUME NEW s, NEW e, NEW c, ~c, NEW h, Contract(h, s, e, c), NEW j \in Jobs,
           h.slot[j].state = "open", saved \in [Jobs -> Entries],
           e[j] # 0 /\ s[j].state = "open" => saved[j] = Busy,
           NEW R, None \notin R, NEW U
    PROVE  LET g == RecoverJob(h, j, R, U) IN
           Contract(g, s, e, c) /\ Recovers(h, g, {j})
  <1> DEFINE g == RecoverJob(h, j, R, U)
  <1>0. h \in Handlers /\ h.slot \in [Jobs -> Slots] /\ h.queue \in [Jobs -> Entries \cup {None}]
    BY HandlerFields DEF Contract
  <1>1. CASE j \in Known(h)
    <2>1. g = h /\ h.queue[j] # None
      BY <1>1 DEF RecoverJob, Known
    <2> QED
      BY <2>1 DEF Recovers, Onward
  <1>2. ASSUME NEW state \in Recorded, NEW of \in Jobs, g = Complete(h, j, state, of)
        PROVE  Contract(g, s, e, c) /\ Recovers(h, g, {j})
    <2>1. Contract(g, s, e, c)
      BY <1>2, CompleteKeeps
    <2>2. /\ Onward(h, g, {}) /\ g.queue = h.queue
          /\ g.slot = [h.slot EXCEPT ![j] = [state |-> state, of |-> of]] /\ g.slot[j].state # "open"
      BY <1>0, <1>2, CompleteDoes
    <2> HIDE DEF g
    <2>3. \A i \in Jobs \ {j} : g.slot[i] = h.slot[i] /\ g.queue[i] = h.queue[i]
      BY <1>0, <2>2
    <2>4. Onward(h, g, {j})
      BY <2>2 DEF Onward
    <2> QED
      BY <2>1, <2>2, <2>3, <2>4 DEF Recovers
  <1>3. CASE j \notin Known(h) /\ StoredResult(h, saved[j].leader)
    <2> DEFINE l == saved[j].leader
    <2>1. l \in Jobs /\ h.slot[l].state \in Recorded /\ h.slot[l].of \in Jobs
      <3>1. l \in Jobs \cup {None} /\ l # None
        BY <1>3 DEF StoredResult, Entries
      <3> QED
        BY <1>0, <1>3, <3>1 DEF StoredResult, Reusable, Slots
    <2>2. g = Complete(h, j, h.slot[l].state, h.slot[l].of)
      BY <1>3 DEF RecoverJob
    <2> HIDE DEF g, l
    <2>3. Contract(g, s, e, c) /\ Recovers(h, g, {j})
      BY <1>2, <2>1, <2>2
    <2> QED
      BY <2>3 DEF g
  <1>4. CASE j \notin Known(h) /\ ~StoredResult(h, saved[j].leader) /\ j \in U
    <2>1. "missing" \in Recorded
      BY DEF Recorded
    <2>2. g = Complete(h, j, "missing", j)
      BY <1>4 DEF RecoverJob
    <2> HIDE DEF g
    <2>3. Contract(g, s, e, c) /\ Recovers(h, g, {j})
      BY <1>2, <2>1, <2>2
    <2> QED
      BY <2>3 DEF g
  <1>5. CASE j \notin Known(h) /\ ~StoredResult(h, saved[j].leader) /\ j \notin U
    <2> DEFINE entry == Reattach(h, j, R)
               f == Add(h, j, entry)
    <2>1. entry \in Entries
      BY <1>0, Reattached
    <2>2. e[j] # 0 => entry = Busy
      <3>1. ASSUME e[j] # 0 PROVE s[j].state = "open"
        <4>1. Opened(s, h.writes, j) /\ s[j].state # "none"
          BY <3>1 DEF Contract, Views, Minds
        <4>2. ~Made(h.writes, RoundOf[j])
          BY <3>1 DEF Contract, Minds, KeepsAll, Keeps, Made
        <4> QED
          BY <4>1, <4>2 DEF Opened
      <3> QED
        BY <1>0, <3>1, Reattached
    <2>3. g = Progress(f, j)
      BY <1>5 DEF RecoverJob
    <2> HIDE DEF entry, g
    <2>4. /\ Contract(f, s, e, c)
          /\ f.queue = [h.queue EXCEPT ![j] = entry] /\ f.cursor = h.cursor /\ f.planned = h.planned
          /\ f.slot = h.slot /\ f.writes = h.writes /\ f.batch = h.batch
      <3>1. /\ Contract(Add(h, j, entry), s, e, c)
            /\ LET u == Add(h, j, entry) IN
              /\ u.queue = [h.queue EXCEPT ![j] = entry] /\ u.cursor = h.cursor /\ u.planned = h.planned
              /\ u.slot = h.slot /\ u.writes = h.writes /\ u.batch = h.batch
        BY <2>1, <2>2, AddKeeps
      <3> QED
        BY <3>1
    <2> HIDE DEF f
    <2>5. f.queue[j] # None
      BY <1>0, <2>1, <2>4, Entered
    <2>6. /\ Contract(g, s, e, c) /\ g.queue = f.queue /\ g.cursor = f.cursor /\ g.planned = f.planned
          /\ g.slot = f.slot /\ g.writes = f.writes
      <3>1. /\ Contract(Progress(f, j), s, e, c)
            /\ LET u == Progress(f, j) IN
               /\ u.queue = f.queue /\ u.cursor = f.cursor /\ u.planned = f.planned
               /\ u.slot = f.slot /\ u.writes = f.writes
        <4>1. c => f.queue[j].leader = None
          OBVIOUS
        <4>2. Contract(f, s, e, c)
          BY <2>4
        <4> QED
          BY <2>5, <4>1, <4>2, ProgressKeeps
      <3> QED
        BY <2>3, <3>1
    <2>7. \A i \in Jobs \ {j} : g.queue[i] = h.queue[i]
      BY <1>0, <2>4, <2>6
    <2>8. h.queue[j] = None
      BY <1>5 DEF Known
    <2>9. Onward(h, g, {j})
      BY <2>4, <2>5, <2>6, <2>7 DEF Onward
    <2>10. Recovers(h, g, {j})
      BY <2>4, <2>5, <2>6, <2>7, <2>8, <2>9 DEF Recovers
    <2> QED
      BY <2>6, <2>10 DEF g
  <1> QED
    BY <1>1, <1>3, <1>4, <1>5

(* recoverJob for each job of a set, in any order.                         *)
LEMMA RecoverAllKeeps ==
    ASSUME NEW s, NEW e, NEW c, ~c, NEW h, Contract(h, s, e, c), NEW S \in SUBSET Jobs,
           \A j \in S : h.slot[j].state = "open", saved \in [Jobs -> Entries],
           \A j \in Jobs : e[j] # 0 /\ s[j].state = "open" => saved[j] = Busy,
           NEW R, None \notin R, NEW U, NEW order \in SetToSeqs(S)
    PROVE  LET g == RecoverAll(h, order, R, U) IN
           Contract(g, s, e, c) /\ Recovers(h, g, S)
  <1> DEFINE J == [T \in SUBSET S |-> {g \in Handlers : Contract(g, s, e, c) /\ Recovers(h, g, T)}]
  <1>0. h \in Handlers
    BY DEF Contract
  <1>1. h \in J[{}]
    BY <1>0 DEF Recovers, Onward
  <1>2. ASSUME NEW T \in SUBSET S, NEW x \in S \ T, NEW g \in J[T]
        PROVE  Do(g, x, "recover", R, U) \in J[T \cup {x}]
    <2> DEFINE G == RecoverJob(g, x, R, U)
    <2>1. g \in Handlers /\ Contract(g, s, e, c) /\ Recovers(h, g, T)
      BY <1>2
    <2>2. x \in Jobs /\ g.slot[x].state = "open"
      BY <2>1 DEF Recovers
    <2>3. Contract(G, s, e, c) /\ Recovers(g, G, {x})
      <3>1. LET u == RecoverJob(g, x, R, U) IN Contract(u, s, e, c) /\ Recovers(g, u, {x})
        BY <2>1, <2>2, RecoverJobKeeps
      <3> QED
        BY <3>1
    <2>4. Do(g, x, "recover", R, U) = G
      BY DEF Do
    <2> HIDE DEF G
    <2>5. Recovers(h, G, T \cup {x})
      <3>1. Onward(h, G, T \cup {x})
        BY <2>1, <2>3 DEF Recovers, Onward
      <3>2. \A j \in Jobs : h.queue[j] # None => G.queue[j] = h.queue[j]
        BY <2>1, <2>3 DEF Recovers
      <3>3. \A j \in T \cup {x} : G.queue[j] # None \/ G.slot[j].state # "open"
        BY <2>1, <2>2, <2>3 DEF Recovers
      <3>4. \A j \in Jobs \ (T \cup {x}) : G.slot[j] = h.slot[j] /\ G.queue[j] = h.queue[j]
        BY <2>1, <2>3 DEF Recovers
      <3> QED
        BY <3>1, <3>2, <3>3, <3>4 DEF Recovers
    <2>6. G \in Handlers /\ T \cup {x} \in SUBSET S
      BY <2>3 DEF Contract
    <2> QED
      BY <2>3, <2>4, <2>5, <2>6
  <1> HIDE DEF J
  <1>3. IsFiniteSet(S)
    BY JobsCounted
  <1>4. Cardinality(S) \in Nat /\ DOMAIN order = 1..Cardinality(S) /\ Fold(h, Cardinality(S), order, "recover", R, U) \in J[S]
    BY <1>1, <1>2, <1>3, FoldOver
  <1>5. RecoverAll(h, order, R, U) \in J[S]
    BY <1>4, RecoverFold
  <1> QED
    BY <1>5 DEF J

(* Jobs that are in the queue already are left alone.                      *)
LEMMA RecoverNone ==
    ASSUME NEW h, NEW S \in SUBSET Jobs, S \subseteq Known(h), NEW R, NEW U, NEW order \in SetToSeqs(S)
    PROVE  RecoverAll(h, order, R, U) = h
  <1> DEFINE J == [T \in SUBSET S |-> {h}]
  <1>1. h \in J[{}]
    OBVIOUS
  <1>2. ASSUME NEW T \in SUBSET S, NEW x \in S \ T, NEW g \in J[T]
        PROVE  Do(g, x, "recover", R, U) \in J[T \cup {x}]
    BY <1>2 DEF Do, RecoverJob
  <1> HIDE DEF J
  <1>3. IsFiniteSet(S)
    BY JobsCounted
  <1>4. Cardinality(S) \in Nat /\ DOMAIN order = 1..Cardinality(S) /\ Fold(h, Cardinality(S), order, "recover", R, U) \in J[S]
    BY <1>1, <1>2, <1>3, FoldOver
  <1>5. RecoverAll(h, order, R, U) \in J[S]
    BY <1>4, RecoverFold
  <1> QED
    BY <1>5 DEF J

(* A follower whose leader is not in the queue.                            *)
LEMMA SettleKeeps ==
    ASSUME NEW s, NEW e, NEW c, NEW h, Contract(h, s, e, c), NEW j \in Jobs,
           h.queue[j] # None, h.queue[j].leader # None
    PROVE  /\ Contract(Settle(h, j), s, e, c) /\ Onward(h, Settle(h, j), {})
           /\ \A i \in Jobs \ {j} : Settle(h, j).queue[i] = h.queue[i]
  <1> DEFINE l == h.queue[j].leader
             g == Settle(h, j)
  <1>0. h \in Handlers /\ h.slot \in [Jobs -> Slots] /\ h.queue \in [Jobs -> Entries \cup {None}]
    BY HandlerFields DEF Contract
  <1>1. l \in Jobs /\ l # None
    BY <1>0 DEF Entries
  <1>2. CASE StoredResult(h, l)
    <2> DEFINE f == Complete(h, j, h.slot[l].state, h.slot[l].of)
    <2>1. h.slot[l].state \in Recorded /\ h.slot[l].of \in Jobs
      BY <1>0, <1>1, <1>2 DEF StoredResult, Reusable, Slots
    <2>2. g = Without(f, {j})
      BY <1>2 DEF Settle
    <2> HIDE DEF g, l
    <2>3. Contract(f, s, e, c)
      BY <2>1, CompleteKeeps
    <2>4. Onward(h, f, {}) /\ f.queue = h.queue /\ f.slot[j].state # "open"
      BY <1>0, <2>1, CompleteDoes, ZenonT(60)
    <2> HIDE DEF f
    <2>5. LET u == Without(f, {j}) IN
           /\ Contract(u, s, e, c)
           /\ u.queue = [i \in Jobs |-> IF i \in {j} THEN None ELSE f.queue[i]]
           /\ u.cursor = f.cursor /\ u.planned = f.planned /\ u.batch = f.batch
           /\ u.slot = f.slot /\ u.writes = f.writes
      <3>1. {j} \in SUBSET Jobs
        OBVIOUS
      <3> QED
        BY <2>3, <3>1, WithoutKeeps
    <2>6. /\ Contract(g, s, e, c)
          /\ g.queue = [i \in Jobs |-> IF i \in {j} THEN None ELSE f.queue[i]]
          /\ g.cursor = f.cursor /\ g.planned = f.planned
          /\ g.slot = f.slot /\ g.writes = f.writes
      BY <2>2, <2>5
    <2>7. Onward(h, g, {})
      BY <2>4, <2>6 DEF Onward
    <2> QED
      BY <2>4, <2>6, <2>7 DEF g
  <1>3. CASE ~StoredResult(h, l)
    <2>1. g = Free(h, {j})
      BY <1>3 DEF Settle
    <2> HIDE DEF g
    <2>2. /\ Contract(Free(h, {j}), s, e, c)
          /\ LET u == Free(h, {j}) IN
             /\ u.queue = FreedQueue(h.queue, {j}) /\ u.cursor = h.cursor /\ u.planned = h.planned
             /\ u.slot = h.slot /\ u.writes = h.writes
      <3>1. {j} \in SUBSET Jobs /\ \A i \in {j} : h.queue[i] # None /\ h.queue[i].leader # None
        OBVIOUS
      <3> QED
        BY <3>1, FreeKeeps
    <2>3. /\ Contract(g, s, e, c)
          /\ g.queue = FreedQueue(h.queue, {j}) /\ g.cursor = h.cursor /\ g.planned = h.planned
          /\ g.slot = h.slot /\ g.writes = h.writes
      BY <2>1, <2>2
    <2>4. Onward(h, g, {})
      BY <2>3, Entered DEF Onward, FreedQueue
    <2> QED
      BY <2>3, <2>4 DEF g, FreedQueue
  <1> QED
    BY <1>2, <1>3

(* tick: all followers whose leader is not in the queue.                   *)
LEMMA SettleOrphansKeeps ==
    ASSUME NEW s, NEW e, NEW c, NEW h, Contract(h, s, e, c)
    PROVE  Contract(SettleOrphans(h), s, e, c) /\ Onward(h, SettleOrphans(h), {})
  <1> DEFINE S == Orphans(h)
             J == [T \in SUBSET S |-> {g \in Handlers :
                    /\ Contract(g, s, e, c) /\ Onward(h, g, {})
                    /\ \A i \in Jobs \ T : g.queue[i] = h.queue[i]}]
  <1>0. h \in Handlers
    BY DEF Contract
  <1>1. h \in J[{}]
    BY <1>0 DEF Onward
  <1>4. S \in SUBSET Jobs /\ \A j \in S : h.queue[j] # None /\ h.queue[j].leader # None
    BY DEF Orphans, Known
  <1> HIDE DEF S
  <1>2. ASSUME NEW T \in SUBSET S, NEW x \in S \ T, NEW g \in J[T]
        PROVE  Do(g, x, "settle", 0, 0) \in J[T \cup {x}]
    <2> DEFINE G == Settle(g, x)
    <2>1. g \in Handlers /\ Contract(g, s, e, c) /\ Onward(h, g, {}) /\ \A i \in Jobs \ T : g.queue[i] = h.queue[i]
      BY <1>2
    <2>2. x \in Jobs /\ g.queue[x] # None /\ g.queue[x].leader # None
      BY <1>4, <2>1
    <2>3. Contract(G, s, e, c) /\ Onward(g, G, {}) /\ \A i \in Jobs \ {x} : G.queue[i] = g.queue[i]
      BY <2>1, <2>2, SettleKeeps
    <2>4. Do(g, x, "settle", 0, 0) = G
      BY DEF Do
    <2> HIDE DEF G
    <2>5. Onward(h, G, {})
      BY <2>1, <2>3 DEF Onward
    <2>6. G \in Handlers /\ T \cup {x} \in SUBSET S /\ \A i \in Jobs \ (T \cup {x}) : G.queue[i] = h.queue[i]
      BY <2>1, <2>3 DEF Contract
    <2> QED
      BY <2>3, <2>4, <2>5, <2>6
  <1> HIDE DEF J
  <1>3. IsFiniteSet(S) /\ SetToSeq(S) \in SetToSeqs(S) /\ Cardinality(S) \in Nat /\ DOMAIN SetToSeq(S) = 1..Cardinality(S)
    BY <1>4, JobsCounted
  <1>5. Fold(h, Cardinality(S), SetToSeq(S), "settle", 0, 0) \in J[S]
    BY <1>1, <1>2, <1>3, FoldOver
  <1>6. SettleOrphans(h) \in J[S]
    BY <1>3, <1>5, StepFolds DEF SettleOrphans, S
  <1> QED
    BY <1>6 DEF J

(* No such followers: nothing is done.                                     *)
LEMMA SettleNone ==
    ASSUME NEW h, Orphans(h) = {}
    PROVE  SettleOrphans(h) = h
  <1> DEFINE J == [T \in SUBSET {} |-> {h}]
  <1>1. PICK S : S = Orphans(h)
    OBVIOUS
  <1>2. S = {} /\ S \in SUBSET Jobs
    BY <1>1
  <1>3. IsFiniteSet(S) /\ SetToSeq(S) \in SetToSeqs(S) /\ Cardinality(S) \in Nat /\ DOMAIN SetToSeq(S) = 1..Cardinality(S)
    BY <1>2, JobsCounted
  <1>4. h \in J[{}] /\ \A T \in SUBSET S : \A x \in S \ T : \A g \in J[T] : Do(g, x, "settle", 0, 0) \in J[T \cup {x}]
    BY <1>2
  <1> HIDE DEF J
  <1>5. Fold(h, Cardinality(S), SetToSeq(S), "settle", 0, 0) \in J[S]
    BY <1>3, <1>4, FoldOver
  <1>6. SettleOrphans(h) \in J[S]
    BY <1>1, <1>3, <1>5, StepFolds DEF SettleOrphans
  <1> QED
    BY <1>2, <1>6 DEF J

(* Transitions of a handler add up.                                        *)
LEMMA OnwardTwice ==
    ASSUME NEW h, NEW f, NEW g, NEW N, NEW M, Onward(h, f, N), Onward(f, g, M)
    PROVE  Onward(h, g, N \cup M)
  BY DEF Onward

(* The same with the end of the batch.                                     *)
LEMMA SettledKeeps ==
    ASSUME NEW s, NEW e, NEW c, NEW h, Contract(h, s, e, c)
    PROVE  /\ Contract(EndBatch(SettleOrphans(h)), s, e, c)
           /\ Onward(h, EndBatch(SettleOrphans(h)), {})
           /\ EndBatch(SettleOrphans(h)).batch = <<>>
  <1>1. PICK f : f = SettleOrphans(h)
    OBVIOUS
  <1>2. Contract(f, s, e, c) /\ Onward(h, f, {})
    BY <1>1, SettleOrphansKeeps
  <1>3. Contract(EndBatch(f), s, e, c) /\ Onward(f, EndBatch(f), {}) /\ EndBatch(f).batch = <<>>
    BY <1>2, BatchKeeps
  <1>4. Onward(h, EndBatch(f), {})
    BY <1>2, <1>3 DEF Onward
  <1> QED
    BY <1>1, <1>3, <1>4

(* What is recorded of the measurements that a worker has.                 *)
SavedBusy(s, e) == /\ saved \in [Jobs -> Entries]
                   /\ \A j \in Jobs : e[j] # 0 /\ s[j].state = "open" => saved[j] = Busy

(* The recovery of all open rounds, when something may have failed.        *)
LEMMA RecoverRoundsKeeps ==
    ASSUME NEW s, NEW e, NEW c, ~c, NEW h, Contract(h, s, e, c), SavedBusy(s, e),
           \A j \in Jobs : h.slot[j].state = "open" => slot[j].state = "open",
           NEW U, NEW g \in RecoverRounds(h, U)
    PROVE  /\ Contract(g, s, e, c) /\ g.batch = <<>>
           /\ Onward(h, g, Jobs)
           /\ \A j \in Jobs : g.slot[j].state = "open" => g.queue[j] # None
  <1> DEFINE S == {j \in Open : h.slot[j].state = "open"}
             R == Known(h) \cup Open
  <1>1. PICK order \in SetToSeqs(S) : g = EndBatch(SettleOrphans(RecoverAll(h, order, R, U)))
    BY DEF RecoverRounds
  <1> DEFINE f == RecoverAll(h, order, R, U)
  <1>2. /\ S \in SUBSET Jobs /\ None \notin R
        /\ \A j \in S : h.slot[j].state = "open"
        /\ \A j \in Jobs : h.slot[j].state = "open" => j \in S
    BY Entered DEF Open, Known
  <1> HIDE DEF S, R
  <1>3. Contract(f, s, e, c) /\ Recovers(h, f, S)
    <2>1. LET u == RecoverAll(h, order, R, U) IN Contract(u, s, e, c) /\ Recovers(h, u, S)
      <3>1. saved \in [Jobs -> Entries] /\ \A j \in Jobs : e[j] # 0 /\ s[j].state = "open" => saved[j] = Busy
        BY DEF SavedBusy
      <3> QED
        BY <1>2, <3>1, RecoverAllKeeps
    <2> QED
      BY <2>1
  <1>5. g = EndBatch(SettleOrphans(f))
    BY <1>1
  <1> HIDE DEF f
  <1>6. Contract(g, s, e, c) /\ Onward(f, g, {}) /\ g.batch = <<>>
    <2>1. Contract(f, s, e, c)
      BY <1>3
    <2> QED
      BY <1>5, <2>1, SettledKeeps
  <1>7. Onward(h, g, Jobs)
    BY <1>3, <1>6 DEF Recovers, Onward
  <1>8. \A j \in Jobs : f.slot[j].state = "open" => f.queue[j] # None
    BY <1>2, <1>3 DEF Recovers
  <1>9. \A j \in Jobs : g.slot[j].state = "open" => g.queue[j] # None
    BY <1>6, <1>8 DEF Onward
  <1> QED
    BY <1>6, <1>7, <1>9

-----------------------------------------------------------------------------
(* Soundness: what a handler may not forget.                               *)

(* The queue has room for all jobs.                                        *)
Room == Cardinality(Jobs) <= Capacity
(* The only planned time of the suite and module of a round.               *)
Lone(r) == \E o \in Occurrences : /\ Stable[o] = r
                                  /\ \A p \in Occurrences : Scope[Stable[p]] = Scope[r] => p = o
AllLone == \A r \in Rounds : Lone(r)

(* The open slots, as handler h sees them.                                 *)
OpenOf(h) == {j \in Jobs : h.slot[j].state = "open"}

(* One round of a suite and module in the queue.                           *)
Alone(q) ==
    \A i, j \in Jobs : q[i] # None /\ q[j] # None /\ Scope[RoundOf[i]] = Scope[RoundOf[j]]
                       => RoundOf[i] = RoundOf[j]

(* A follower waits for a job of the queue that follows nobody.            *)
Led(q) ==
    \A j \in Jobs : q[j] # None /\ q[j].leader # None =>
        q[j].phase = "shared" /\ q[q[j].leader] # None /\ q[q[j].leader].leader = None

(* Nothing failed: what the queue, the slots and the manifests of a handler *)
(* have in common.                                                         *)
Calmly(h, fol) ==
    /\ \A j \in Jobs : h.queue[j] # None <=> h.slot[j].state = "open"
    /\ Alone(h.queue) /\ Led(h.queue)
    /\ \A j, l \in Jobs : (fol[j] = l \/ Named(h.writes, j, l)) /\ h.queue[j] # None =>
            h.queue[j].leader = l \/ h.slot[l].state = "cancelled"

(* The open jobs O are in queue q, or their rounds come again from cursor C *)
(* and then no round of their suite is in the queue.                       *)
Awaited(C, j) == \E o \in C : Stable[o] = RoundOf[j]
Kept(q, C, O) ==
    \A j \in O : q[j] = None =>
        /\ Awaited(C, j)
        /\ \A i \in Jobs : q[i] # None => Scope[RoundOf[i]] # Scope[RoundOf[j]]

(* Rounds are made for occurrences of the saved cursor d, when the saved    *)
(* queue has none of their suite.                                          *)
Due(W, d) ==
    \A j \in Jobs : Made(W, RoundOf[j]) =>
        /\ Awaited(d.cursor, j)
        /\ \A i \in Jobs : d.queue[i] # None => Scope[RoundOf[i]] # Scope[RoundOf[j]]

(* What a handler promises; k: every open slot has its job in the queue.   *)
Sound(h, k) ==
    /\ Contract(h, slot, executed, calm /\ Room)
    /\ calm /\ Room => Calmly(h, followed)
    /\ AllLone => Kept(h.queue, h.cursor, OpenOf(h)) /\ Due(h.writes, disk)
    /\ k => \A j \in OpenOf(h) : h.queue[j] # None

(* When each suite has its one planned time it has one round.              *)
LEMMA ScopeTells ==
    ASSUME AllLone, NEW r \in Rounds, NEW q \in Rounds, Scope[r] = Scope[q]
    PROVE  r = q
  <1>1. PICK o \in Occurrences : Stable[o] = r /\ \A p \in Occurrences : Scope[Stable[p]] = Scope[r] => p = o
    BY DEF AllLone, Lone
  <1>2. PICK p \in Occurrences : Stable[p] = q
    BY DEF AllLone, Lone
  <1> QED
    BY <1>1, <1>2

(* A handler that puts no job into the queue forgets none either.          *)
LEMMA OnwardKept ==
    ASSUME NEW h, NEW g, Onward(h, g, {})
    PROVE  /\ Kept(h.queue, h.cursor, OpenOf(h)) => Kept(g.queue, g.cursor, OpenOf(g))
           /\ \A d : Due(h.writes, d) => Due(g.writes, d)
           /\ (\A j \in OpenOf(h) : h.queue[j] # None) => \A j \in OpenOf(g) : g.queue[j] # None
  <1>1. /\ g.cursor = h.cursor
        /\ \A j \in Jobs : /\ g.slot[j].state = "open" => h.slot[j].state = "open"
                           /\ g.slot[j].state = "open" /\ h.queue[j] # None => g.queue[j] # None
                           /\ g.queue[j] # None => h.queue[j] # None
        /\ \A j \in Jobs : \A m : Named(g.writes, j, m) <=> Named(h.writes, j, m)
    BY DEF Onward
  <1>2. \A j \in Jobs : Made(g.writes, RoundOf[j]) <=> Made(h.writes, RoundOf[j])
    BY <1>1, NamedMade
  <1>3. Kept(h.queue, h.cursor, OpenOf(h)) => Kept(g.queue, g.cursor, OpenOf(g))
    BY <1>1 DEF Kept, OpenOf
  <1>4. ASSUME NEW d, Due(h.writes, d) PROVE Due(g.writes, d)
    BY <1>2, <1>4 DEF Due
  <1>5. (\A j \in OpenOf(h) : h.queue[j] # None) => \A j \in OpenOf(g) : g.queue[j] # None
    BY <1>1 DEF OpenOf
  <1> QED
    BY <1>3, <1>4, <1>5

(* finishMany of one job.                                                  *)
LEMMA FinishOnward ==
    ASSUME NEW h \in Handlers, NEW j \in Jobs, NEW state \in Recorded, NEW g \in Handlers,
           g.queue = FinishedQueue(h, j, state), g.slot = FinishedSlots(h, j, state),
           g.cursor = h.cursor, g.planned = h.planned,
           \A i \in Jobs : \A m : Named(g.writes, i, m) <=> Named(h.writes, i, m)
    PROVE  Onward(h, g, {})
  <1>1. \A i \in Followers(h, j) : h.queue[i] # None /\ i \in Jobs
    BY DEF Followers, Known
  <1>2. state # "open"
    BY DEF Recorded
  <1>3. \A i \in Jobs : g.slot[i].state = "open" => h.slot[i].state = "open"
    BY <1>2 DEF FinishedSlots, EndedSlots
  <1>4. \A i \in Jobs : g.slot[i].state = "open" /\ h.queue[i] # None => g.queue[i] # None
    <2> TAKE i \in Jobs
    <2>1. CASE i = j
      BY <1>2, <2>1 DEF FinishedSlots, EndedSlots
    <2>2. CASE i # j /\ i \notin Followers(h, j)
      BY <2>2 DEF FinishedQueue
    <2>3. CASE i # j /\ i \in Followers(h, j) /\ state = "cancelled"
      BY <2>3, Entered DEF FinishedQueue
    <2>4. CASE i # j /\ i \in Followers(h, j) /\ state # "cancelled"
      BY <1>2, <2>4 DEF FinishedSlots, EndedSlots
    <2> QED
      BY <2>1, <2>2, <2>3, <2>4
  <1>5. \A i \in Jobs : g.queue[i] # None => h.queue[i] # None
    BY <1>1 DEF FinishedQueue
  <1> QED
    BY <1>3, <1>4, <1>5 DEF Onward

(* finishMany, when nothing fails and there is room.                       *)
LEMMA FinishCalmly ==
    ASSUME NEW h \in Handlers, NEW j \in Jobs, NEW state \in Recorded, NEW g \in Handlers, NEW fol,
           h.queue[j] # None, Calmly(h, fol),
           g.queue = FinishedQueue(h, j, state), g.slot = FinishedSlots(h, j, state),
           \A i \in Jobs : \A m : Named(g.writes, i, m) <=> Named(h.writes, i, m)
    PROVE  Calmly(g, fol)
  <1> DEFINE F == Followers(h, j)
  <1>0. /\ h.queue \in [Jobs -> Entries \cup {None}] /\ h.slot \in [Jobs -> Slots]
        /\ \A i \in Jobs : h.queue[i] # None => h.queue[i] \in Entries /\ h.queue[i].leader \in Jobs \cup {None}
    BY HandlerFields DEF Entries
  <1>1. F \in SUBSET Jobs /\ \A i \in Jobs : i \in F <=> h.queue[i] # None /\ h.queue[i].leader = j
    BY DEF Followers, Known
  <1>2. state # "open" /\ j # None
    BY Entered DEF Recorded
  <1>3. j \notin F
    BY <1>1, <1>2 DEF Calmly, Led
  <1>4. /\ g.queue[j] = None
        /\ \A i \in Jobs \ (F \cup {j}) : g.queue[i] = h.queue[i] /\ g.slot[i] = h.slot[i]
        /\ state = "cancelled" => \A i \in F : g.queue[i] = Waits /\ g.slot[i] = h.slot[i]
        /\ state # "cancelled" => \A i \in F : g.queue[i] = None /\ g.slot[i].state # "open"
        /\ g.slot[j].state # "open"
        /\ h.slot[j].state = "open" => g.slot[j].state = state
        /\ \A i \in Jobs : h.slot[i].state # "open" => g.slot[i] = h.slot[i]
    <2>1. \A i \in Jobs : g.queue[i] = IF i = j THEN None
                    ELSE IF i \notin F THEN h.queue[i]
                    ELSE IF state = "cancelled" THEN Waits ELSE None
      BY DEF FinishedQueue
    <2>2. \A i \in Jobs : g.slot[i] = IF i \in (IF state = "cancelled" THEN {j} ELSE F \cup {j}) /\ h.slot[i].state = "open"
                    THEN [state |-> state, of |-> j] ELSE h.slot[i]
      BY DEF FinishedSlots, EndedSlots
    <2> HIDE DEF F
    <2>3. \A i \in F : i \in Jobs /\ i # j
      BY <1>1, <1>3
    <2>4. \A i \in Jobs : h.slot[i].state # "open" => g.slot[i] = h.slot[i]
      BY <2>2
    <2>5. g.slot[j].state # "open" /\ (h.slot[j].state = "open" => g.slot[j].state = state)
      BY <1>2, <2>2
    <2>6. \A i \in Jobs \ (F \cup {j}) : g.queue[i] = h.queue[i] /\ g.slot[i] = h.slot[i]
      BY <2>1, <2>2
    <2>7. state = "cancelled" => \A i \in F : g.queue[i] = Waits /\ g.slot[i] = h.slot[i]
      BY <2>1, <2>2, <2>3
    <2>8. state # "cancelled" => \A i \in F : g.queue[i] = None /\ g.slot[i].state # "open"
      BY <1>2, <2>1, <2>2, <2>3
    <2> QED
      BY <2>1, <2>4, <2>5, <2>6, <2>7, <2>8
  <1> HIDE DEF F
  <1>5. \A i \in Jobs : i = j \/ i \in F \/ i \in Jobs \ (F \cup {j})
    OBVIOUS
  <1>6. \A i \in Jobs : g.queue[i] # None => h.queue[i] # None
    BY <1>1, <1>4, <1>5
  <1>7. \A i \in Jobs : g.queue[i] # None <=> g.slot[i].state = "open"
    <2> TAKE i \in Jobs
    <2>1. CASE i \in F
      BY <1>1, <1>4, <2>1, Entered DEF Calmly
    <2> QED
      BY <1>4, <1>5, <2>1 DEF Calmly
  <1>8. Alone(g.queue)
    BY <1>6 DEF Calmly, Alone
  <1>9. Led(g.queue)
    <2> SUFFICES ASSUME NEW i \in Jobs, g.queue[i] # None, g.queue[i].leader # None
                 PROVE  /\ g.queue[i].phase = "shared" /\ g.queue[g.queue[i].leader] # None
                        /\ g.queue[g.queue[i].leader].leader = None
      BY DEF Led
    <2>1. i \notin F \cup {j}
      BY <1>4 DEF Waits
    <2>2. g.queue[i] = h.queue[i] /\ h.queue[i] # None /\ h.queue[i].leader # j
      BY <1>1, <1>4, <2>1
    <2> DEFINE l == h.queue[i].leader
    <2>3. l \in Jobs /\ h.queue[l] # None /\ h.queue[l].leader = None /\ h.queue[i].phase = "shared"
      BY <1>0, <2>2 DEF Calmly, Led
    <2>4. l \notin F \cup {j}
      BY <1>1, <1>2, <2>2, <2>3
    <2> QED
      BY <1>4, <2>2, <2>3, <2>4
  <1>10. ASSUME NEW i \in Jobs, NEW l \in Jobs, fol[i] = l \/ Named(g.writes, i, l), g.queue[i] # None
         PROVE  g.queue[i].leader = l \/ g.slot[l].state = "cancelled"
    <2>1. h.queue[i] # None /\ (h.queue[i].leader = l \/ h.slot[l].state = "cancelled")
      BY <1>6, <1>10 DEF Calmly
    <2>2. CASE h.slot[l].state = "cancelled"
      BY <1>4, <2>2
    <2>3. CASE h.queue[i].leader = l /\ i \notin F
      BY <1>4, <1>5, <1>10, <2>3
    <2>4. CASE h.queue[i].leader = l /\ i \in F
      <3>1. l = j /\ state = "cancelled"
        BY <1>1, <1>4, <1>10, <2>4
      <3>2. h.slot[j].state = "open"
        BY DEF Calmly
      <3> QED
        BY <1>4, <3>1, <3>2
    <2> QED
      BY <2>1, <2>2, <2>3, <2>4
  <1> QED
    BY <1>7, <1>8, <1>9, <1>10 DEF Calmly

(* finishMany keeps Sound.                                                 *)
LEMMA FinishSound ==
    ASSUME NEW h, NEW k, Sound(h, k), NEW j \in Jobs, NEW state \in Recorded
    PROVE  /\ Sound(FinishOne(h, j, state), k)
           /\ Onward(h, FinishOne(h, j, state), {})
  <1>1. CASE h.queue[j] = None
    BY <1>1 DEF FinishOne, Onward
  <1>2. CASE h.queue[j] # None
    <2> DEFINE c == calm /\ Room
               g == FinishOne(h, j, state)
    <2>1. Contract(h, slot, executed, c)
      BY DEF Sound
    <2>2. LET u == FinishOne(h, j, state) IN
           /\ Contract(u, slot, executed, c)
           /\ u.queue = FinishedQueue(h, j, state) /\ u.slot = FinishedSlots(h, j, state)
           /\ u.cursor = h.cursor /\ u.planned = h.planned
           /\ \A i \in Jobs : \A m : Named(u.writes, i, m) <=> Named(h.writes, i, m)
      BY <1>2, <2>1, FinishKeeps
    <2>3. /\ Contract(g, slot, executed, c)
          /\ g.queue = FinishedQueue(h, j, state) /\ g.slot = FinishedSlots(h, j, state)
          /\ g.cursor = h.cursor /\ g.planned = h.planned
          /\ \A i \in Jobs : \A m : Named(g.writes, i, m) <=> Named(h.writes, i, m)
      BY <2>2
    <2> HIDE DEF g
    <2>4. h \in Handlers /\ g \in Handlers
      BY <2>1, <2>3 DEF Contract
    <2>5. Onward(h, g, {})
      BY <2>3, <2>4, FinishOnward
    <2>6. c => Calmly(g, followed)
      BY <1>2, <2>3, <2>4, FinishCalmly DEF Sound
    <2>7. /\ AllLone => Kept(g.queue, g.cursor, OpenOf(g)) /\ Due(g.writes, disk)
          /\ k => \A i \in OpenOf(g) : g.queue[i] # None
      BY <2>5, OnwardKept DEF Sound
    <2> QED
      BY <2>3, <2>5, <2>6, <2>7 DEF Sound, g
  <1> QED
    BY <1>1, <1>2

(* Due speaks only of the rounds that are made.                            *)
LEMMA NamedDue ==
    ASSUME NEW V, NEW W, \A j \in Jobs : \A m : Named(V, j, m) <=> Named(W, j, m), NEW d, Due(W, d)
    PROVE  Due(V, d)
  <1>1. \A j \in Jobs : Made(V, RoundOf[j]) <=> Made(W, RoundOf[j])
    BY NamedMade
  <1> QED
    BY <1>1 DEF Due

(* The end of a batch keeps Sound.                                         *)
LEMMA BatchSound ==
    ASSUME NEW h, NEW k, Sound(h, k)
    PROVE  /\ Sound(EndBatch(h), k) /\ Onward(h, EndBatch(h), {})
           /\ EndBatch(h).queue = h.queue /\ EndBatch(h).slot = h.slot
           /\ EndBatch(h).cursor = h.cursor /\ EndBatch(h).planned = h.planned /\ EndBatch(h).batch = <<>>
  <1> DEFINE c == calm /\ Room
             g == EndBatch(h)
  <1>1. Contract(h, slot, executed, c)
    BY DEF Sound
  <1> HIDE DEF c
  <1>2. Contract(g, slot, executed, c) /\ Onward(h, g, {}) /\ g.queue = h.queue /\ g.slot = h.slot /\ g.batch = <<>>
    BY <1>1, BatchKeeps
  <1> HIDE DEF g
  <1>3. /\ AllLone => Kept(g.queue, g.cursor, OpenOf(g)) /\ Due(g.writes, disk)
        /\ k => \A i \in OpenOf(g) : g.queue[i] # None
    BY <1>2, OnwardKept DEF Sound
  <1>4. c => Calmly(g, followed)
    BY <1>2 DEF Sound, Calmly, Onward, c
  <1>5. g.cursor = h.cursor /\ g.planned = h.planned
    BY <1>2 DEF Onward
  <1> QED
    BY <1>2, <1>3, <1>4, <1>5 DEF Sound, g, c

(* tick: jobs past their time.                                             *)
LEMMA ExpireSound ==
    ASSUME NEW h, NEW k, Sound(h, k), NEW S \in SUBSET Jobs
    PROVE  Sound(Expire(h, S), k) /\ Onward(h, Expire(h, S), {})
  <1> DEFINE J == [T \in SUBSET S |-> {g \in Handlers : Sound(g, k) /\ Onward(h, g, {})}]
  <1>0. \A g : Sound(g, k) => g \in Handlers
    BY DEF Sound, Contract
  <1>1. h \in J[{}]
    BY <1>0 DEF Onward
  <1>2. ASSUME NEW T \in SUBSET S, NEW x \in S \ T, NEW g \in J[T]
        PROVE  Do(g, x, "expire", 0, 0) \in J[T \cup {x}]
    <2> DEFINE state == IF queue[x].phase = "running" THEN "failed" ELSE "missing"
               G == FinishOne(g, x, state)
    <2>1. g \in Handlers /\ Sound(g, k) /\ Onward(h, g, {}) /\ x \in Jobs
      BY <1>2
    <2>2. state \in Recorded
      BY DEF Recorded
    <2>3. Do(g, x, "expire", 0, 0) = G
      BY DEF Do
    <2> HIDE DEF state
    <2>4. Sound(G, k) /\ Onward(g, G, {})
      BY <2>1, <2>2, FinishSound
    <2> HIDE DEF G
    <2>5. Onward(h, G, {})
      BY <2>1, <2>4 DEF Onward
    <2>6. G \in Handlers /\ T \cup {x} \in SUBSET S
      BY <1>0, <2>4
    <2> QED
      BY <2>3, <2>4, <2>5, <2>6
  <1> HIDE DEF J
  <1>3. IsFiniteSet(S) /\ SetToSeq(S) \in SetToSeqs(S) /\ Cardinality(S) \in Nat /\ DOMAIN SetToSeq(S) = 1..Cardinality(S)
    BY JobsCounted
  <1>4. Fold(h, Cardinality(S), SetToSeq(S), "expire", 0, 0) \in J[S]
    BY <1>1, <1>2, <1>3, FoldOver
  <1>5. Expire(h, S) \in J[S]
    BY <1>3, <1>4, FinishFolds DEF Expire
  <1> QED
    BY <1>5 DEF J

(* The cancellation of some jobs, one by one.                              *)
Cancelling(h, S) == FoldLeft(LAMBDA g, j : EndBatch(FinishOne(g, j, "cancelled")), h, SetToSeq(S))

(* cancelRound keeps Sound.                                                *)
LEMMA CancelSound ==
    ASSUME NEW h, NEW k, Sound(h, k), NEW S \in SUBSET Jobs
    PROVE  Sound(Cancelling(h, S), k) /\ Onward(h, Cancelling(h, S), {})
  <1> DEFINE J == [T \in SUBSET S |-> {g \in Handlers : Sound(g, k) /\ Onward(h, g, {})}]
  <1>0. \A g : Sound(g, k) => g \in Handlers
    BY DEF Sound, Contract
  <1>1. h \in J[{}]
    BY <1>0 DEF Onward
  <1>2. ASSUME NEW T \in SUBSET S, NEW x \in S \ T, NEW g \in J[T]
        PROVE  Do(g, x, "cancel", 0, 0) \in J[T \cup {x}]
    <2> DEFINE f == FinishOne(g, x, "cancelled")
               G == EndBatch(f)
    <2>1. g \in Handlers /\ Sound(g, k) /\ Onward(h, g, {}) /\ x \in Jobs
      BY <1>2
    <2>2. "cancelled" \in Recorded
      BY DEF Recorded
    <2>3. Do(g, x, "cancel", 0, 0) = G
      BY DEF Do
    <2>4. Sound(f, k) /\ Onward(g, f, {})
      BY <2>1, <2>2, FinishSound
    <2> HIDE DEF f
    <2>7. Sound(G, k) /\ Onward(f, G, {})
      BY <2>4, BatchSound
    <2> HIDE DEF G
    <2>5. Onward(h, G, {})
      BY <2>1, <2>4, <2>7 DEF Onward
    <2>6. G \in Handlers /\ T \cup {x} \in SUBSET S
      BY <1>0, <2>7
    <2> QED
      BY <2>3, <2>5, <2>6, <2>7
  <1> HIDE DEF J
  <1>3. IsFiniteSet(S) /\ SetToSeq(S) \in SetToSeqs(S) /\ Cardinality(S) \in Nat /\ DOMAIN SetToSeq(S) = 1..Cardinality(S)
    BY JobsCounted
  <1>4. Fold(h, Cardinality(S), SetToSeq(S), "cancel", 0, 0) \in J[S]
    BY <1>1, <1>2, <1>3, FoldOver
  <1>5. Cancelling(h, S) \in J[S]
    BY <1>3, <1>4, FinishFolds DEF Cancelling
  <1> QED
    BY <1>5 DEF J

(* tick: after the recovery every open slot has its job in the queue.      *)
LEMMA RecoverSound ==
    ASSUME NEW h, NEW k, Sound(h, k), SavedBusy(slot, executed),
           \A j \in Jobs : h.slot[j].state = "open" => slot[j].state = "open",
           NEW U, NEW g \in RecoverRounds(h, U)
    PROVE  Sound(g, TRUE) /\ g.cursor = h.cursor /\ g.planned = h.planned /\ g.batch = <<>>
  <1> DEFINE c == calm /\ Room
  <1>0. Contract(h, slot, executed, c)
    BY DEF Sound
  <1> HIDE DEF c
  <1>1. CASE ~c
    <2>2. /\ Contract(g, slot, executed, c) /\ g.batch = <<>>
          /\ Onward(h, g, Jobs)
          /\ \A j \in Jobs : g.slot[j].state = "open" => g.queue[j] # None
      BY <1>0, <1>1, RecoverRoundsKeeps
    <2>3. Kept(g.queue, g.cursor, OpenOf(g))
      BY <2>2 DEF Kept, OpenOf
    <2>4. Due(h.writes, disk) => Due(g.writes, disk)
      BY <2>2, NamedDue DEF Onward
    <2> QED
      BY <1>1, <2>2, <2>3, <2>4 DEF Sound, Onward, OpenOf, c
  <1>2. CASE c
    <2> DEFINE S == {j \in Open : h.slot[j].state = "open"}
    <2>1. Calmly(h, followed)
      BY <1>2 DEF Sound, c
    <2>2. S \in SUBSET Jobs /\ S \subseteq Known(h)
      BY <2>1 DEF Calmly, Open, Known
    <2>3. Orphans(h) = {}
      <3>1. \A j \in Known(h) : h.queue[j].leader \in Known(h) \cup {None}
        <4> TAKE j \in Known(h)
        <4>1. h.queue[j].leader \in Jobs \cup {None}
          BY <1>0, HandlerFields DEF Contract, Known, Entries
        <4> QED
          BY <2>1, <4>1 DEF Calmly, Led, Known
      <3> QED
        BY <3>1 DEF Orphans
    <2>4. PICK order \in SetToSeqs(S) : g = EndBatch(SettleOrphans(RecoverAll(h, order, Known(h) \cup Open, U)))
      BY DEF RecoverRounds
    <2> HIDE DEF S
    <2>5. RecoverAll(h, order, Known(h) \cup Open, U) = h
      BY <2>2, RecoverNone
    <2>6. g = EndBatch(h)
      BY <2>3, <2>4, <2>5, SettleNone
    <2>7. Sound(g, k) /\ g.queue = h.queue /\ g.slot = h.slot /\ g.cursor = h.cursor /\ g.planned = h.planned
          /\ g.batch = <<>>
      BY <2>6, BatchSound
    <2>8. \A j \in OpenOf(g) : g.queue[j] # None
      BY <2>1, <2>7 DEF Calmly, OpenOf
    <2> QED
      BY <2>7, <2>8 DEF Sound
  <1> QED
    BY <1>1, <1>2

-----------------------------------------------------------------------------
(* enqueue.                                                                *)

(* The manifest of a new round, and the handler that has made it.           *)
Manifest(h, r, U) == [j \in JobsOf(r) |-> IF j \in JobsOf(r) \ U THEN Share(h, j) ELSE Waits]
Creation(h, r, o, U) == [what |-> "create", round |-> r, origin |-> o, value |-> Manifest(h, r, U)]

(* The handler after the creation of a round.                              *)
Making(h, r, o, U) ==
    [h EXCEPT
        !.slot = [j \in Jobs |-> IF j \in JobsOf(r) THEN [state |-> "open", of |-> j] ELSE @[j]],
        !.queue = [j \in Jobs |-> IF j \in JobsOf(r) \ U THEN Manifest(h, r, U)[j] ELSE @[j]],
        !.writes = Append(@, Creation(h, r, o, U))]

(* The first manifest of a round: shared jobs name their leaders.          *)
LEMMA Manifested ==
    ASSUME NEW h \in Handlers, NEW r \in Rounds, NEW U
    PROVE  /\ Manifest(h, r, U) \in [JobsOf(r) -> Entries]
           /\ \A j \in JobsOf(r) \ U : Manifest(h, r, U)[j] = Share(h, j)
           /\ \A j \in JobsOf(r) \cap U : Manifest(h, r, U)[j] = Waits
           /\ JobsOf(r) \in SUBSET Jobs
           /\ \A j \in Jobs : j \in JobsOf(r) <=> RoundOf[j] = r
  <1>1. \A j \in Jobs : Share(h, j) \in Entries
    <2> TAKE j \in Jobs
    <2>1. CASE Leaders(h, j) = {}
      BY <2>1, Entered DEF Share, Waits
    <2>2. CASE Leaders(h, j) # {}
      <3> DEFINE l == CHOOSE x \in Leaders(h, j) : TRUE
      <3>1. l \in Jobs
        BY <2>2 DEF Leaders, Known
      <3> QED
        BY <2>2, <3>1 DEF Share, Entries
    <2> QED
      BY <2>1, <2>2
  <1>2. JobsOf(r) \in SUBSET Jobs /\ \A j \in Jobs : j \in JobsOf(r) <=> RoundOf[j] = r
    BY DEF JobsOf
  <1> QED
    BY <1>1, <1>2, Entered DEF Manifest

(* What it changes.                                                        *)
MadeOf(g, h, w, r, U) ==
    /\ g \in Handlers /\ w \in Writes /\ g.batch = h.batch
    /\ g.cursor = h.cursor /\ g.planned = h.planned
    /\ g.writes = Append(h.writes, w)
    /\ \A j \in JobsOf(r) : g.slot[j].state = "open"
    /\ \A j \in Jobs \ JobsOf(r) : g.slot[j] = h.slot[j]
    /\ \A j \in JobsOf(r) \ U : g.queue[j] = Share(h, j)
    /\ \A j \in Jobs \ (JobsOf(r) \ U) : g.queue[j] = h.queue[j]

(* enqueue: what the creation of a round makes of a handler.               *)
LEMMA MakingDoes ==
    ASSUME NEW h \in Handlers, NEW r \in Rounds, NEW o \in Occurrences \cup {None}, NEW U
    PROVE  MadeOf(Making(h, r, o, U), h, Creation(h, r, o, U), r, U)
  <1> DEFINE t == [j \in Jobs |-> IF j \in JobsOf(r) THEN [state |-> "open", of |-> j] ELSE h.slot[j]]
             q == [j \in Jobs |-> IF j \in JobsOf(r) \ U THEN Manifest(h, r, U)[j] ELSE h.queue[j]]
             w == Creation(h, r, o, U)
             V == Append(h.writes, w)
             g == Making(h, r, o, U)
  <1>0. h.slot \in [Jobs -> Slots] /\ h.queue \in [Jobs -> Entries \cup {None}] /\ h.writes \in Seq(Writes)
    BY HandlerFields
  <1>1. /\ Manifest(h, r, U) \in [JobsOf(r) -> Entries]
        /\ \A j \in JobsOf(r) \ U : Manifest(h, r, U)[j] = Share(h, j)
        /\ JobsOf(r) \in SUBSET Jobs
    BY Manifested
  <1>2. w \in Writes
    BY <1>1 DEF Creation, Writes, Creations
  <1>3. t \in [Jobs -> Slots]
    BY <1>0 DEF Slots
  <1>4. q \in [Jobs -> Entries \cup {None}]
    BY <1>0, <1>1
  <1>5. V \in Seq(Writes)
    BY <1>0, <1>2, Appended
  <1>6. g = [h EXCEPT !.slot = t, !.queue = q, !.writes = V]
    BY DEF Making
  <1>7. /\ \A j \in JobsOf(r) : t[j].state = "open"
        /\ \A j \in Jobs \ JobsOf(r) : t[j] = h.slot[j]
        /\ \A j \in JobsOf(r) \ U : q[j] = Share(h, j)
        /\ \A j \in Jobs \ (JobsOf(r) \ U) : q[j] = h.queue[j]
    BY <1>1
  <1> HIDE DEF t, q, w, V, g
  <1>8. /\ g \in Handlers /\ g.batch = h.batch /\ g.cursor = h.cursor /\ g.planned = h.planned
        /\ g.writes = V /\ g.slot = t /\ g.queue = q
    BY <1>3, <1>4, <1>5, <1>6 DEF Handlers
  <1> QED
    BY <1>2, <1>7, <1>8 DEF g, w, V, MadeOf

(* Whom the manifests name after it.                                       *)
MakesNames(V, h, r, U) ==
    \A j \in Jobs : \A m : Named(V, j, m) <=>
                Named(h.writes, j, m) \/ (j \in JobsOf(r) /\ Manifest(h, r, U)[j].leader = m)

(* It keeps the promises when the round is not there yet.                  *)
LEMMA MakingKeeps ==
    ASSUME NEW s, NEW e, NEW c, NEW h, Contract(h, s, e, c), NEW r \in Rounds,
           NEW o \in Occurrences \cup {None}, o # None => Stable[o] = r,
           \A j \in JobsOf(r) : h.slot[j].state = "none",
           c => \A j \in Jobs : Rival(r, j) => h.slot[j].state # "open",
           NEW U
    PROVE  /\ Contract(Making(h, r, o, U), s, e, c)
           /\ MakesNames(Making(h, r, o, U).writes, h, r, U)
  <1> DEFINE g == Making(h, r, o, U)
             w == Creation(h, r, o, U)
  <1>0. h \in Handlers /\ h.writes \in Seq(Writes)
    BY HandlerFields DEF Contract
  <1>20. MadeOf(g, h, w, r, U)
    BY <1>0, MakingDoes
  <1> HIDE DEF g, w
  <1>1. /\ g \in Handlers /\ w \in Writes /\ g.batch = h.batch
        /\ g.cursor = h.cursor /\ g.planned = h.planned
        /\ g.writes = Append(h.writes, w)
        /\ \A j \in JobsOf(r) : g.slot[j].state = "open"
        /\ \A j \in Jobs \ JobsOf(r) : g.slot[j] = h.slot[j]
        /\ \A j \in JobsOf(r) \ U : g.queue[j] = Share(h, j)
        /\ \A j \in Jobs \ (JobsOf(r) \ U) : g.queue[j] = h.queue[j]
    BY <1>20 DEF MadeOf
  <1>2. /\ \A q \in Rounds : Makes(w, q) <=> q = r
        /\ \A j \in Jobs : ~Ends(w, j)
        /\ w.what = "create" /\ w.origin = o /\ w.round = r /\ w.value = Manifest(h, r, U)
    BY DEF Makes, Ends, Creation, w
  <1>3. /\ \A j \in Jobs : RoundOf[j] \in Rounds
        /\ \A j \in Jobs : j \in JobsOf(r) <=> RoundOf[j] = r
        /\ JobsOf(r) \in SUBSET Jobs
    BY RecoveryConstants DEF JobsOf
  <1>4. /\ \A q \in Rounds : Made(g.writes, q) <=> Made(h.writes, q) \/ q = r
        /\ \A j \in Jobs : Ended(g.writes, j) <=> Ended(h.writes, j)
        /\ \A j \in Jobs : KeepsAll(g.writes, j) <=> KeepsAll(h.writes, j) /\ Keeps(w, j)
        /\ Plain(g.writes) <=> Plain(h.writes)
        /\ \A j \in Jobs : Cancelled(s, g.writes, j) <=> Cancelled(s, h.writes, j)
    BY <1>0, <1>1, <1>2, OneMore
  <1>5. \A j \in Jobs : \A m : Named(g.writes, j, m) <=>
                Named(h.writes, j, m) \/ (j \in JobsOf(r) /\ Manifest(h, r, U)[j].leader = m)
    <2>1. \A j \in Jobs : \A m : Named(g.writes, j, m) <=>
                Named(h.writes, j, m) \/ (Makes(w, RoundOf[j]) /\ w.value[j].leader = m)
      BY <1>0, <1>1, OneMore
    <2> QED
      BY <1>2, <1>3, <2>1
  <1>6. \A j \in JobsOf(r) : /\ Unmade(s, h.writes, j) /\ ~Cancelled(s, h.writes, j)
                             /\ ~Ended(h.writes, j) /\ s[j].state = "none" /\ ~Made(h.writes, r)
    <2> TAKE j \in JobsOf(r)
    <2>1. Unmade(s, h.writes, j) /\ ~Cancelled(s, h.writes, j) /\ j \in Jobs /\ RoundOf[j] = r
      BY <1>3 DEF Contract, Views
    <2>2. s[j].state = "none" /\ ~Made(h.writes, r)
      BY <2>1 DEF Unmade
    <2>3. ~Ended(h.writes, j)
      <3> SUFFICES ASSUME NEW i \in DOMAIN h.writes, Ends(h.writes[i], j) PROVE FALSE
        BY DEF Ended
      <3>1. \E m \in 1..(i - 1) : Makes(h.writes[m], RoundOf[j])
        BY <2>1, <2>2 DEF Contract, Orderly
      <3>2. \A m \in 1..(i - 1) : m \in DOMAIN h.writes
        <4>1. Len(h.writes) \in Nat /\ DOMAIN h.writes = 1..Len(h.writes)
          BY <1>0, LenProperties
        <4> QED
          BY <4>1
      <3> QED
        BY <2>1, <2>2, <3>1, <3>2 DEF Made
    <2> QED
      BY <2>1, <2>2, <2>3
  <1>7. Views(g, s)
    <2> SUFFICES ASSUME NEW j \in Jobs
                 PROVE  /\ g.slot[j].state = "open" <=> Opened(s, g.writes, j)
                        /\ g.slot[j].state = "none" <=> Unmade(s, g.writes, j)
                        /\ g.slot[j].state = "cancelled" <=> Cancelled(s, g.writes, j)
      BY DEF Views
    <2>1. CASE j \notin JobsOf(r)
      <3>1. g.slot[j] = h.slot[j]
        BY <1>1, <2>1
      <3>2. /\ Opened(s, g.writes, j) <=> Opened(s, h.writes, j)
            /\ Unmade(s, g.writes, j) <=> Unmade(s, h.writes, j)
            /\ Cancelled(s, g.writes, j) <=> Cancelled(s, h.writes, j)
        BY <1>3, <1>4, <2>1 DEF Opened, Unmade
      <3> QED
        BY <3>1, <3>2 DEF Contract, Views
    <2>2. CASE j \in JobsOf(r)
      <3>1. g.slot[j].state = "open"
        BY <1>1, <2>2
      <3>2. Opened(s, g.writes, j) /\ ~Unmade(s, g.writes, j) /\ ~Cancelled(s, g.writes, j)
        <4>1. Made(g.writes, RoundOf[j]) /\ ~Ended(g.writes, j) /\ ~Cancelled(s, g.writes, j)
          BY <1>3, <1>4, <1>6, <2>2
        <4> QED
          BY <4>1 DEF Opened, Unmade
      <3> QED
        BY <3>1, <3>2
    <2> QED
      BY <2>1, <2>2
  <1>8. Orderly(s, g.writes)
    <2>1. \A j \in Jobs : Makes(w, RoundOf[j]) => s[j].state = "none" /\ ~Made(h.writes, RoundOf[j]) /\ ~Ended(h.writes, j)
      BY <1>2, <1>3, <1>6
    <2>2. Orderly(s, h.writes)
      BY DEF Contract
    <2> QED
      BY <1>0, <1>1, <1>2, <2>1, <2>2, OrderlyMore
  <1>9. Original(g.writes)
    <2>1. /\ Len(h.writes) \in Nat /\ DOMAIN h.writes = 1..Len(h.writes)
          /\ DOMAIN g.writes = 1..(Len(h.writes) + 1)
          /\ \A i \in 1..Len(h.writes) : g.writes[i] = h.writes[i]
          /\ g.writes[Len(h.writes) + 1] = w
      BY <1>0, <1>1, Appended
    <2>2. \A i \in DOMAIN g.writes : (i \in DOMAIN h.writes /\ g.writes[i] = h.writes[i]) \/ g.writes[i] = w
      BY <2>1
    <2> QED
      BY <1>2, <2>2 DEF Original, Contract
  <1>10. Seen(g)
    <2>1. \A j \in Jobs \ JobsOf(r) : g.queue[j] # None => g.slot[j].state # "none"
      BY <1>1 DEF Contract, Seen
    <2>2. \A j \in JobsOf(r) : g.slot[j].state # "none"
      BY <1>1
    <2> QED
      BY <2>1, <2>2 DEF Seen
  <1>11. Minds(g, s, e)
    <2> SUFFICES ASSUME NEW j \in Jobs, e[j] # 0
                 PROVE  /\ g.queue[j] \in {None, Busy} /\ s[j].state # "none"
                        /\ KeepsAll(g.writes, j) /\ KeepsAll(g.batch, j)
      BY DEF Minds
    <2>1. /\ h.queue[j] \in {None, Busy} /\ s[j].state # "none"
          /\ KeepsAll(h.writes, j) /\ KeepsAll(h.batch, j)
      BY DEF Contract, Minds
    <2>2. j \notin JobsOf(r)
      BY <1>6, <2>1
    <2>3. Keeps(w, j)
      BY <1>2, <1>3, <2>2 DEF Keeps
    <2> QED
      BY <1>1, <1>4, <2>1, <2>2, <2>3
  <1>12. c => Single(s, g.writes)
    <2> SUFFICES ASSUME c PROVE Single(s, g.writes)
      OBVIOUS
    <2>1. \A q \in Rounds : Makes(w, q) => \A j \in Jobs : Rival(q, j) => ~Opened(s, h.writes, j)
      BY <1>2 DEF Contract, Views
    <2>2. Single(s, h.writes)
      BY DEF Contract
    <2> QED
      BY <1>0, <1>1, <2>1, <2>2, SingleMore
  <1>13. c => Plain(g.writes) /\ Plain(g.batch)
    BY <1>1, <1>4 DEF Contract
  <1>14. g.cursor \subseteq g.planned
    BY <1>1 DEF Contract
  <1>15. Contract(g, s, e, c)
    BY <1>1, <1>7, <1>8, <1>9, <1>10, <1>11, <1>12, <1>13, <1>14 DEF Contract
  <1> QED
    BY <1>5, <1>15 DEF g, MakesNames

(* enqueue of a new round: the jobs without a worker end as missing.       *)
CreatedAs(g, f, h, r, U, s, e, c) ==
    /\ Contract(g, s, e, c)
    /\ g.queue = f.queue /\ g.cursor = h.cursor /\ g.planned = h.planned
    /\ \A j \in Jobs \ JobsOf(r) : g.slot[j] = h.slot[j]
    /\ \A j \in JobsOf(r) \ U : g.slot[j].state = "open"
    /\ \A j \in JobsOf(r) \cap U : g.slot[j].state = "missing"
    /\ \A i \in Jobs : \A m : Named(g.writes, i, m) <=> Named(f.writes, i, m)

(* enqueue, with the slots that no worker can measure.                     *)
LEMMA CreatedIs ==
    ASSUME NEW s, NEW e, NEW c, NEW h \in Handlers, NEW r \in Rounds, NEW o \in Occurrences \cup {None},
           NEW U, NEW f, f = Making(h, r, o, U), Contract(f, s, e, c)
    PROVE  CreatedAs(Created(h, r, o, U), f, h, r, U, s, e, c)
  <1> DEFINE S == U \cap JobsOf(r)
             g == Created(h, r, o, U)
  <1>1. S \in SUBSET Jobs /\ JobsOf(r) \in SUBSET Jobs
    BY DEF JobsOf
  <1>2. g = FoldLeft(LAMBDA u, j : Complete(u, j, "missing", j), f, SetToSeq(S))
    BY DEF Created, Making, Creation, Manifest, Waits
  <1>3. /\ f.cursor = h.cursor /\ f.planned = h.planned
        /\ \A j \in JobsOf(r) : f.slot[j].state = "open"
        /\ \A j \in Jobs \ JobsOf(r) : f.slot[j] = h.slot[j]
    BY MakingDoes DEF MadeOf
  <1>4. \A j \in Jobs : j \in S <=> j \in U /\ j \in JobsOf(r)
    OBVIOUS
  <1> HIDE DEF S, g
  <1>5. Cardinality(S) \in Nat /\ DOMAIN SetToSeq(S) = 1..Cardinality(S)
    BY <1>1, JobsCounted
  <1>6. PICK k : k = "miss"
    OBVIOUS
  <1>7. PICK all \in BOOLEAN : ~all
    OBVIOUS
  <1>8. g = Fold(f, Cardinality(S), SetToSeq(S), k, "missing", None)
    <2>1. FoldLeft(LAMBDA u, j : Complete(u, j, "missing", j), f, SetToSeq(S)) = Fold(f, Cardinality(S), SetToSeq(S), "miss", "missing", None)
      BY <1>5, ResultFolds
    <2> QED
      BY <1>2, <1>6, <2>1
  <1>9. EndsAs(g, f, s, e, c, S, "missing", all, None)
    <2>1. "missing" \in Recorded /\ k = IF all THEN "follow" ELSE "miss"
      BY <1>6, <1>7 DEF Recorded
    <2>2. all => None \in Jobs
      BY <1>7
    <2>3. EndsAs(Fold(f, Cardinality(S), SetToSeq(S), k, "missing", None), f, s, e, c, S, "missing", all, None)
      BY <1>1, <2>1, <2>2, EndsKeep
    <2> QED
      BY <1>8, <2>3
  <1>10. /\ Contract(g, s, e, c)
         /\ g.queue = f.queue /\ g.cursor = f.cursor /\ g.planned = f.planned
         /\ g.slot = EndedSlots(f.slot, S, "missing", all, None)
         /\ \A i \in Jobs : \A m : Named(g.writes, i, m) <=> Named(f.writes, i, m)
    BY <1>9 DEF EndsAs
  <1>11. /\ \A j \in Jobs \ JobsOf(r) : g.slot[j] = h.slot[j]
         /\ \A j \in JobsOf(r) \ U : g.slot[j].state = "open"
         /\ \A j \in JobsOf(r) \cap U : g.slot[j].state = "missing"
    <2>1. \A j \in Jobs : g.slot[j] = IF j \in S /\ f.slot[j].state = "open"
                                      THEN [state |-> "missing", of |-> IF all THEN None ELSE j] ELSE f.slot[j]
      BY <1>10 DEF EndedSlots
    <2>2. \A j \in Jobs \ JobsOf(r) : g.slot[j] = h.slot[j]
      BY <1>3, <1>4, <2>1
    <2>3. \A j \in JobsOf(r) : f.slot[j].state = "open" /\ j \in Jobs
      BY <1>1, <1>3
    <2>4. \A j \in JobsOf(r) \ U : g.slot[j].state = "open"
      BY <1>4, <2>1, <2>3
    <2>5. \A j \in JobsOf(r) \cap U : g.slot[j].state = "missing"
      <3> TAKE j \in JobsOf(r) \cap U
      <3>1. j \in S /\ f.slot[j].state = "open" /\ j \in Jobs
        BY <1>4, <2>3
      <3>2. g.slot[j] = [state |-> "missing", of |-> IF all THEN None ELSE j]
        BY <2>1, <3>1
      <3> QED
        BY <3>2
    <2> QED
      BY <2>2, <2>4, <2>5
  <1> QED
    BY <1>3, <1>10, <1>11 DEF g, CreatedAs

(* What enqueue of round r gives, whatever it does.                        *)
Gains(h, g, r) ==
    /\ g.cursor = h.cursor /\ g.planned = h.planned
    /\ \A j \in Jobs : h.queue[j] # None => g.queue[j] # None
    /\ AllLone => \A j \in JobsOf(r) : g.slot[j].state = "open" => g.queue[j] # None

(* A round is made with its occurrence in the saved cursor, and of the      *)
(* saved queue nothing has been taken.                                     *)
Backed(h, r) == /\ \E p \in disk.cursor : Stable[p] = r
                /\ \A i \in Jobs : disk.queue[i] # None => h.queue[i] # None

(* A job that is not made has not followed another one.                     *)
Unfollowed == calm /\ Room => \A j \in Jobs : slot[j].state = "none" => followed[j] = None

(* What a handler g has of h after enqueue of a new round r.               *)
CreatedLike(g, h, r, U) ==
    /\ \A j \in JobsOf(r) \ U : g.queue[j] = Share(h, j) /\ g.slot[j].state = "open"
    /\ \A j \in Jobs \ (JobsOf(r) \ U) : g.queue[j] = h.queue[j]
    /\ \A j \in Jobs \ JobsOf(r) : g.slot[j] = h.slot[j]
    /\ \A j \in JobsOf(r) \cap U : g.slot[j].state = "missing"
    /\ MakesNames(g.writes, h, r, U)

(* enqueue of a new round, when nothing fails and there is room.           *)
LEMMA CreatedCalmly ==
    ASSUME NEW h \in Handlers, NEW r \in Rounds, NEW U, NEW s, NEW fol, NEW g,
           Calmly(h, fol), Views(h, s), Pending(h, r) = {}, ~Exists(h, r),
           \A j \in Jobs : s[j].state = "none" => fol[j] = None,
           CreatedLike(g, h, r, U)
    PROVE  Calmly(g, fol)
  <1> DEFINE N == JobsOf(r) \ U
  <1>10. /\ \A j \in JobsOf(r) \ U : g.queue[j] = Share(h, j) /\ g.slot[j].state = "open"
         /\ \A j \in Jobs \ (JobsOf(r) \ U) : g.queue[j] = h.queue[j]
         /\ \A j \in Jobs \ JobsOf(r) : g.slot[j] = h.slot[j]
         /\ \A j \in JobsOf(r) \cap U : g.slot[j].state = "missing"
         /\ \A j \in Jobs : \A m : Named(g.writes, j, m) <=>
                Named(h.writes, j, m) \/ (j \in JobsOf(r) /\ Manifest(h, r, U)[j].leader = m)
    BY DEF CreatedLike, MakesNames
  <1>0. /\ h.queue \in [Jobs -> Entries \cup {None}]
        /\ \A i \in Jobs : h.queue[i] # None => h.queue[i].leader \in Jobs \cup {None}
    BY HandlerFields DEF Entries
  <1>1. /\ N \in SUBSET Jobs /\ \A j \in Jobs : j \in JobsOf(r) <=> RoundOf[j] = r
        /\ \A j \in JobsOf(r) : j \in Jobs /\ (j \in N \/ j \in JobsOf(r) \cap U)
        /\ \A j \in N : Manifest(h, r, U)[j] = Share(h, j) /\ j \in JobsOf(r)
    BY Manifested
  <1>2. \A j \in JobsOf(r) : h.slot[j].state = "none" /\ h.queue[j] = None
    <2> TAKE j \in JobsOf(r)
    <2>1. h.slot[j].state = "none" /\ j \in Jobs
      BY <1>1 DEF Exists
    <2> QED
      BY <2>1 DEF Calmly
  <1>3. \A j \in Jobs : h.queue[j] # None => Scope[RoundOf[j]] # Scope[r]
    BY DEF Pending, Known
  <1>4. \A j \in N : g.queue[j] # None /\ g.queue[j] = Share(h, j) /\ g.slot[j].state = "open"
    <2>1. \A j \in N : Share(h, j) \in Entries
      BY <1>1, Manifested
    <2> QED
      BY <1>10, <2>1, Entered
  <1>5. \A j \in Jobs \ N : g.queue[j] = h.queue[j]
    BY <1>10
  <1> HIDE DEF N
  <1>6. \A j \in Jobs : g.queue[j] # None <=> g.slot[j].state = "open"
    <2> TAKE j \in Jobs
    <2>1. CASE j \in N
      BY <1>4, <2>1
    <2>2. CASE j \notin JobsOf(r)
      <3>1. g.slot[j] = h.slot[j] /\ j \notin N
        BY <1>1, <1>10, <2>2
      <3> QED
        BY <1>5, <3>1 DEF Calmly
    <2>3. CASE j \in JobsOf(r) /\ j \notin N
      <3>1. g.slot[j].state = "missing"
        BY <1>1, <1>10, <2>3
      <3>2. g.queue[j] = None
        BY <1>2, <1>5, <2>3
      <3> QED
        BY <3>1, <3>2
    <2> QED
      BY <2>1, <2>2, <2>3
  <1>7. Alone(g.queue)
    <2> SUFFICES ASSUME NEW i \in Jobs, NEW j \in Jobs, g.queue[i] # None, g.queue[j] # None,
                        Scope[RoundOf[i]] = Scope[RoundOf[j]]
                 PROVE  RoundOf[i] = RoundOf[j]
      BY DEF Alone
    <2>1. \A x \in N : RoundOf[x] = r
      BY <1>1
    <2>2. CASE i \in N /\ j \in N
      BY <2>1, <2>2
    <2>3. CASE i \notin N /\ j \notin N
      BY <1>5, <2>3 DEF Calmly, Alone
    <2>4. CASE i \in N /\ j \notin N
      BY <1>3, <1>5, <2>1, <2>4
    <2>5. CASE i \notin N /\ j \in N
      BY <1>3, <1>5, <2>1, <2>5
    <2> QED
      BY <2>2, <2>3, <2>4, <2>5
  <1>8. Led(g.queue)
    <2> SUFFICES ASSUME NEW j \in Jobs, g.queue[j] # None, g.queue[j].leader # None
                 PROVE  /\ g.queue[j].phase = "shared" /\ g.queue[g.queue[j].leader] # None
                        /\ g.queue[g.queue[j].leader].leader = None
      BY DEF Led
    <2>1. \A l \in Jobs : h.queue[l] # None => g.queue[l] = h.queue[l]
      BY <1>1, <1>2, <1>5
    <2>2. CASE j \notin N
      <3>1. g.queue[j] = h.queue[j]
        BY <1>5, <2>2
      <3>2. h.queue[j].leader \in Jobs
        BY <1>0, <3>1
      <3>3. /\ h.queue[j].phase = "shared" /\ h.queue[h.queue[j].leader] # None
            /\ h.queue[h.queue[j].leader].leader = None
        BY <3>1 DEF Calmly, Led
      <3> QED
        BY <2>1, <3>1, <3>2, <3>3
    <2>3. CASE j \in N
      <3>1. g.queue[j] = Share(h, j)
        BY <1>4, <2>3
      <3>2. Leaders(h, j) # {}
        BY <3>1 DEF Share
      <3> DEFINE l == CHOOSE x \in Leaders(h, j) : TRUE
      <3>3. l \in Leaders(h, j)
        BY <3>2
      <3>4. g.queue[j] = [phase |-> "shared", leader |-> l]
        BY <3>1, <3>2 DEF Share
      <3> HIDE DEF l
      <3>5. l \in Jobs /\ h.queue[l] # None /\ h.queue[l].leader = None
        BY <3>3 DEF Leaders, Known
      <3> QED
        BY <2>1, <3>4, <3>5
    <2> QED
      BY <2>2, <2>3
  <1>9. ASSUME NEW j \in Jobs, NEW l \in Jobs, fol[j] = l \/ Named(g.writes, j, l), g.queue[j] # None
        PROVE  g.queue[j].leader = l \/ g.slot[l].state = "cancelled"
    <2>1. CASE j \notin N
      <3>1. g.queue[j] = h.queue[j] /\ j \notin JobsOf(r)
        BY <1>1, <1>2, <1>5, <1>9, <2>1
      <3>2. fol[j] = l \/ Named(h.writes, j, l)
        BY <1>9, <1>10, <3>1
      <3>3. h.queue[j].leader = l \/ h.slot[l].state = "cancelled"
        BY <1>9, <3>1, <3>2 DEF Calmly
      <3>4. h.slot[l].state = "cancelled" => g.slot[l] = h.slot[l]
        BY <1>2, <1>10
      <3> QED
        BY <3>1, <3>3, <3>4
    <2>2. CASE j \in N
      <3>1. h.slot[j].state = "none" /\ j \in JobsOf(r)
        BY <1>1, <1>2, <2>2
      <3>2. Unmade(s, h.writes, j)
        BY <3>1 DEF Views
      <3>3. fol[j] # l
        BY <3>2, Entered DEF Unmade
      <3>4. ~Named(h.writes, j, l)
        BY <3>2 DEF Unmade, Made, Named
      <3>5. Manifest(h, r, U)[j].leader = l
        BY <1>9, <1>10, <3>3, <3>4
      <3> QED
        BY <1>1, <1>4, <2>2, <3>5
    <2> QED
      BY <2>1, <2>2
  <1> QED
    BY <1>6, <1>7, <1>8, <1>9 DEF Calmly

(* enqueue of a round leaves no open slot without its job.                 *)
LEMMA CreatedKept ==
    ASSUME AllLone, NEW h \in Handlers, NEW r \in Rounds, NEW S, NEW g,
           S \subseteq JobsOf(r),
           Kept(h.queue, h.cursor, OpenOf(h)), g.cursor = h.cursor,
           \A j \in JobsOf(r) : g.slot[j].state = "open" => g.queue[j] # None,
           \A j \in Jobs \ S : g.queue[j] = h.queue[j],
           \A j \in Jobs \ JobsOf(r) : g.slot[j] = h.slot[j]
    PROVE  Kept(g.queue, g.cursor, OpenOf(g))
  <1>1. SUFFICES ASSUME NEW j \in Jobs, g.slot[j].state = "open", g.queue[j] = None
                 PROVE  /\ Awaited(g.cursor, j)
                        /\ \A i \in Jobs : g.queue[i] # None => Scope[RoundOf[i]] # Scope[RoundOf[j]]
    BY DEF Kept, OpenOf
  <1>2. j \notin JobsOf(r)
    BY <1>1
  <1>3. h.slot[j].state = "open" /\ h.queue[j] = None
    BY <1>1, <1>2
  <1>4. /\ Awaited(h.cursor, j)
        /\ \A i \in Jobs : h.queue[i] # None => Scope[RoundOf[i]] # Scope[RoundOf[j]]
    BY <1>3 DEF Kept, OpenOf
  <1>5. ASSUME NEW i \in Jobs, g.queue[i] # None PROVE Scope[RoundOf[i]] # Scope[RoundOf[j]]
    <2>1. CASE i \notin S
      BY <1>4, <1>5, <2>1
    <2>2. CASE i \in S
      <3>1. RoundOf[i] = r /\ RoundOf[j] # r /\ RoundOf[j] \in Rounds
        BY <1>2, <2>2, RecoveryConstants DEF JobsOf
      <3> QED
        BY <3>1, ScopeTells
    <2> QED
      BY <2>1, <2>2
  <1> QED
    BY <1>4, <1>5

(* enqueue of a new round keeps Sound.                                     *)
LEMMA CreatedSound ==
    ASSUME NEW h, NEW k, Sound(h, k), NEW r \in Rounds, NEW o \in Occurrences \cup {None},
           o # None => Stable[o] = r, Pending(h, r) = {}, ~Exists(h, r), Unfollowed,
           AllLone => Backed(h, r), NEW U
    PROVE  Sound(Created(h, r, o, U), k) /\ Gains(h, Created(h, r, o, U), r)
  <1> DEFINE c == calm /\ Room
             f == Making(h, r, o, U)
             g == Created(h, r, o, U)
  <1>1. Contract(h, slot, executed, c) /\ (c => Calmly(h, followed))
    BY DEF Sound
  <1>2. h \in Handlers
    BY <1>1 DEF Contract
  <1>3. /\ \A j \in JobsOf(r) : h.slot[j].state = "none"
        /\ \A j \in Jobs : h.queue[j] # None => Scope[RoundOf[j]] # Scope[r]
        /\ \A j \in JobsOf(r) : j \in Jobs
        /\ \A j \in Jobs : j \in JobsOf(r) <=> RoundOf[j] = r
    BY DEF Exists, Pending, Known, JobsOf
  <1>4. c => \A j \in Jobs : Rival(r, j) => h.slot[j].state # "open"
    BY <1>1, <1>3 DEF Calmly, Rival
  <1> HIDE DEF c
  <1>5. /\ Contract(f, slot, executed, c)
        /\ MakesNames(f.writes, h, r, U)
    BY <1>1, <1>3, <1>4, MakingKeeps
  <1>6. MadeOf(f, h, Creation(h, r, o, U), r, U)
    BY <1>2, MakingDoes
  <1> HIDE DEF f, g
  <1>7. CreatedAs(g, f, h, r, U, slot, executed, c)
    BY <1>2, <1>5, CreatedIs DEF f, g
  <1>8. /\ Contract(g, slot, executed, c)
        /\ g.queue = f.queue /\ g.cursor = h.cursor /\ g.planned = h.planned
        /\ \A j \in Jobs \ JobsOf(r) : g.slot[j] = h.slot[j]
        /\ \A j \in JobsOf(r) \ U : g.slot[j].state = "open"
        /\ \A j \in JobsOf(r) \cap U : g.slot[j].state = "missing"
        /\ \A i \in Jobs : \A m : Named(g.writes, i, m) <=> Named(f.writes, i, m)
    BY <1>7 DEF CreatedAs
  <1>9. /\ \A j \in JobsOf(r) \ U : g.queue[j] = Share(h, j) /\ g.slot[j].state = "open"
        /\ \A j \in Jobs \ (JobsOf(r) \ U) : g.queue[j] = h.queue[j]
        /\ \A j \in Jobs : \A m : Named(g.writes, j, m) <=>
                Named(h.writes, j, m) \/ (j \in JobsOf(r) /\ Manifest(h, r, U)[j].leader = m)
    BY <1>5, <1>6, <1>8 DEF MadeOf, MakesNames
  <1>18. CreatedLike(g, h, r, U)
    BY <1>8, <1>9 DEF CreatedLike, MakesNames
  <1>10. c => Calmly(g, followed)
    <2> SUFFICES ASSUME c PROVE Calmly(g, followed)
      OBVIOUS
    <2>1. Views(h, slot) /\ Calmly(h, followed) /\ \A j \in Jobs : slot[j].state = "none" => followed[j] = None
      BY <1>1 DEF Contract, Unfollowed, c
    <2> QED
      BY <1>2, <1>18, <2>1, CreatedCalmly
  <1>11. \A j \in JobsOf(r) \ U : g.queue[j] # None
    <2>1. \A j \in JobsOf(r) \ U : Share(h, j) \in Entries
      BY <1>2, Manifested
    <2> QED
      BY <1>9, <2>1, Entered
  <1>12. \A j \in JobsOf(r) : g.slot[j].state = "open" => g.queue[j] # None
    BY <1>8, <1>11
  <1>13. AllLone => Kept(g.queue, g.cursor, OpenOf(g))
    <2> SUFFICES ASSUME AllLone PROVE Kept(g.queue, g.cursor, OpenOf(g))
      OBVIOUS
    <2> DEFINE S == JobsOf(r) \ U
    <2>1. S \subseteq JobsOf(r) /\ \A j \in Jobs \ S : g.queue[j] = h.queue[j]
      BY <1>9
    <2>2. Kept(h.queue, h.cursor, OpenOf(h))
      BY DEF Sound
    <2> HIDE DEF S
    <2> QED
      BY <1>2, <1>8, <1>12, <2>1, <2>2, CreatedKept
  <1>14. AllLone => Due(g.writes, disk)
    <2> SUFFICES ASSUME AllLone, NEW j \in Jobs, Made(g.writes, RoundOf[j])
                 PROVE  /\ Awaited(disk.cursor, j)
                        /\ \A i \in Jobs : disk.queue[i] # None => Scope[RoundOf[i]] # Scope[RoundOf[j]]
      BY DEF Due
    <2>1. \E m : Named(g.writes, j, m)
      BY DEF Made, Named
    <2>2. CASE j \in JobsOf(r)
      BY <1>3, <2>2 DEF Backed, Awaited
    <2>3. CASE j \notin JobsOf(r)
      <3>1. \E m : Named(h.writes, j, m)
        BY <1>9, <2>1, <2>3
      <3>2. Made(h.writes, RoundOf[j])
        BY <3>1 DEF Made, Named
      <3> QED
        BY <3>2 DEF Sound, Due
    <2> QED
      BY <2>2, <2>3
  <1>15. k => \A j \in OpenOf(g) : g.queue[j] # None
    <2> SUFFICES ASSUME k, NEW j \in Jobs, g.slot[j].state = "open" PROVE g.queue[j] # None
      BY DEF OpenOf
    <2>1. CASE j \in JobsOf(r)
      BY <1>12, <2>1
    <2>2. CASE j \notin JobsOf(r)
      <3>1. h.slot[j].state = "open" /\ g.queue[j] = h.queue[j]
        BY <1>8, <1>9, <2>2
      <3> QED
        BY <3>1 DEF Sound, OpenOf
    <2> QED
      BY <2>1, <2>2
  <1>16. Sound(g, k)
    BY <1>8, <1>10, <1>13, <1>14, <1>15 DEF Sound, c
  <1>17. Gains(h, g, r)
    <2>1. \A j \in Jobs : h.queue[j] # None => g.queue[j] # None
      BY <1>9, <1>11
    <2> QED
      BY <1>8, <1>12, <2>1 DEF Gains
  <1> QED
    BY <1>16, <1>17 DEF g

(* enqueue of a round that a replayed cursor has made already.             *)
LEMMA ResumedSound ==
    ASSUME NEW h, NEW k, Sound(h, k), NEW r \in Rounds, Pending(h, r) = {}, SavedBusy(slot, executed), NEW U
    PROVE  Sound(Resumed(h, r, U), k) /\ Gains(h, Resumed(h, r, U), r)
  <1> DEFINE c == calm /\ Room
             lost == {j \in JobsOf(r) : h.slot[j].state = "open"}
             R == Known(h) \cup lost
             f == RecoverAll(h, SetToSeq(lost), R, U)
             g == Resumed(h, r, U)
  <1>1. Contract(h, slot, executed, c) /\ (c => Calmly(h, followed))
    BY DEF Sound
  <1>2. /\ lost \in SUBSET Jobs /\ None \notin R /\ lost \subseteq JobsOf(r)
        /\ \A j \in lost : h.slot[j].state = "open"
        /\ \A j \in JobsOf(r) : h.slot[j].state = "open" => j \in lost
    BY Entered DEF Known, JobsOf
  <1>3. g = EndBatch(f)
    BY DEF Resumed
  <1>4. \A j \in Jobs : h.queue[j] # None => Scope[RoundOf[j]] # Scope[r]
    BY DEF Pending, Known
  <1>5. h \in Handlers
    BY <1>1 DEF Contract
  <1> HIDE DEF c, lost, R, g
  <1>6. SetToSeq(lost) \in SetToSeqs(lost)
    BY <1>2, JobsCounted
  <1>7. CASE ~c
    <2>1. saved \in [Jobs -> Entries] /\ \A j \in Jobs : executed[j] # 0 /\ slot[j].state = "open" => saved[j] = Busy
      BY DEF SavedBusy
    <2>2. Contract(f, slot, executed, c) /\ Recovers(h, f, lost)
      <3>1. LET u == RecoverAll(h, SetToSeq(lost), R, U) IN Contract(u, slot, executed, c) /\ Recovers(h, u, lost)
        BY <1>1, <1>2, <1>6, <1>7, <2>1, RecoverAllKeeps
      <3> QED
        BY <3>1
    <2> HIDE DEF f
    <2>3. Contract(g, slot, executed, c) /\ Onward(f, g, {}) /\ g.queue = f.queue /\ g.slot = f.slot
      BY <1>3, <2>2, BatchKeeps
    <2>4. /\ g.cursor = h.cursor /\ g.planned = h.planned
          /\ \A j \in Jobs : \A m : Named(g.writes, j, m) <=> Named(h.writes, j, m)
          /\ \A j \in Jobs : h.queue[j] # None => g.queue[j] # None
          /\ \A j \in Jobs \ lost : g.slot[j] = h.slot[j] /\ g.queue[j] = h.queue[j]
          /\ \A j \in lost : g.queue[j] # None \/ g.slot[j].state # "open"
      BY <2>2, <2>3 DEF Recovers, Onward
    <2>5. \A j \in JobsOf(r) : g.slot[j].state = "open" => g.queue[j] # None
      <3> TAKE j \in JobsOf(r)
      <3>1. j \in Jobs
        BY DEF JobsOf
      <3> QED
        BY <1>2, <2>4, <3>1
    <2>6. AllLone => Kept(g.queue, g.cursor, OpenOf(g))
      <3> SUFFICES ASSUME AllLone PROVE Kept(g.queue, g.cursor, OpenOf(g))
        OBVIOUS
      <3>1. Kept(h.queue, h.cursor, OpenOf(h))
        BY DEF Sound
      <3>2. \A j \in Jobs \ JobsOf(r) : g.slot[j] = h.slot[j]
        BY <1>2, <2>4
      <3> QED
        BY <1>2, <1>5, <2>4, <2>5, <3>1, <3>2, CreatedKept
    <2>7. AllLone => Due(g.writes, disk)
      BY <2>4, NamedDue DEF Sound
    <2>8. k => \A j \in OpenOf(g) : g.queue[j] # None
      BY <2>4 DEF Sound, OpenOf
    <2>9. Gains(h, g, r)
      BY <2>4, <2>5 DEF Gains
    <2> QED
      BY <1>7, <2>3, <2>6, <2>7, <2>8, <2>9 DEF Sound, c, g
  <1>8. CASE c
    <2>1. \A j \in lost : FALSE
      BY <1>1, <1>2, <1>4, <1>8 DEF Calmly, JobsOf
    <2>2. lost \subseteq Known(h)
      BY <2>1
    <2>3. f = h
      BY <1>2, <1>6, <2>2, RecoverNone
    <2>4. Sound(g, k) /\ g.queue = h.queue /\ g.slot = h.slot /\ g.cursor = h.cursor /\ g.planned = h.planned
      BY <1>3, <2>3, BatchSound
    <2>5. Gains(h, g, r)
      BY <1>2, <2>1, <2>4 DEF Gains
    <2> QED
      BY <2>4, <2>5 DEF g
  <1> QED
    BY <1>7, <1>8

(* enqueue keeps Sound, whether it makes a round, resumes one or neither.  *)
LEMMA EnqueuedSound ==
    ASSUME NEW h, NEW k, Sound(h, k), NEW r \in Rounds, NEW o \in Occurrences \cup {None},
           o # None => Stable[o] = r, o = None => ~Exists(h, r),
           SavedBusy(slot, executed), Unfollowed, AllLone => Backed(h, r), NEW U
    PROVE  Sound(Enqueued(h, r, o, U), k) /\ Gains(h, Enqueued(h, r, o, U), r)
  <1>1. CASE Pending(h, r) # {}
    <2>1. Enqueued(h, r, o, U) = h
      BY <1>1 DEF Enqueued
    <2>2. AllLone => \A j \in JobsOf(r) : h.slot[j].state = "open" => h.queue[j] # None
      BY <1>1 DEF Sound, Kept, OpenOf, Pending, Known, JobsOf
    <2> QED
      BY <2>1, <2>2 DEF Gains
  <1>2. CASE Pending(h, r) = {} /\ o # None /\ Exists(h, r)
    BY <1>2, ResumedSound DEF Enqueued
  <1>3. CASE Pending(h, r) = {} /\ ~(o # None /\ Exists(h, r))
    <2>1. Enqueued(h, r, o, U) = Created(h, r, o, U)
      BY <1>3 DEF Enqueued
    <2>2. ~Exists(h, r)
      BY <1>3
    <2> QED
      BY <1>3, <2>1, <2>2, CreatedSound
  <1> QED
    BY <1>1, <1>2, <1>3

(* The handler has taken nothing of what is saved.                         *)
Intact(h) == AllLone => /\ h.cursor \subseteq disk.cursor
                        /\ \A i \in Jobs : disk.queue[i] # None => h.queue[i] # None

(* One member of the cursor is dispatched.                                 *)
LEMMA DispatchedSound ==
    ASSUME NEW h, NEW k, Sound(h, k), SavedBusy(slot, executed), Unfollowed, Intact(h),
           NEW o \in h.cursor, NEW U, NEW g \in Dispatched(h, o, U)
    PROVE  Sound(g, k) /\ Intact(g) /\ g.cursor \subseteq h.cursor /\ g.planned = h.planned
  <1> DEFINE r == Stable[o]
             f == Enqueued(h, r, o, U)
  <1>1. g = [f EXCEPT !.cursor = @ \ {o}]
    BY DEF Dispatched, DispatchId
  <1>2. h \in Handlers /\ h.cursor \in SUBSET Occurrences
    BY HandlerFields DEF Sound, Contract
  <1>3. o \in Occurrences /\ o # None /\ r \in Rounds
    BY <1>2, RecoveryConstants
  <1>4. AllLone => Backed(h, r)
    BY DEF Intact, Backed
  <1> HIDE DEF r
  <1>5. o # None => Stable[o] = r
    BY DEF r
  <1>6. Sound(f, k) /\ Gains(h, f, r)
    BY <1>3, <1>4, <1>5, EnqueuedSound
  <1> HIDE DEF f
  <1> DEFINE c == calm /\ Room
  <1>7. Contract(f, slot, executed, c) /\ f \in Handlers
    BY <1>6 DEF Sound, Contract
  <1>8. /\ g \in Handlers /\ g.queue = f.queue /\ g.slot = f.slot /\ g.writes = f.writes /\ g.batch = f.batch
        /\ g.planned = f.planned /\ g.cursor = f.cursor \ {o}
    BY <1>1, <1>7 DEF Handlers
  <1> HIDE DEF c
  <1>9. Contract(g, slot, executed, c)
    BY <1>7, <1>8 DEF Contract, Views, Seen, Minds
  <1>10. c => Calmly(g, followed)
    BY <1>6, <1>8 DEF Sound, Calmly, c
  <1>11. AllLone => Kept(g.queue, g.cursor, OpenOf(g)) /\ Due(g.writes, disk)
    <2> SUFFICES ASSUME AllLone PROVE Kept(g.queue, g.cursor, OpenOf(g)) /\ Due(g.writes, disk)
      OBVIOUS
    <2>1. Kept(f.queue, f.cursor, OpenOf(f)) /\ Due(f.writes, disk)
      BY <1>6 DEF Sound
    <2> SUFFICES ASSUME NEW j \in Jobs, g.slot[j].state = "open", g.queue[j] = None
                 PROVE  Awaited(g.cursor, j) /\ \A i \in Jobs : g.queue[i] # None => Scope[RoundOf[i]] # Scope[RoundOf[j]]
      BY <1>8, <2>1 DEF Kept, OpenOf
    <2>2. Awaited(f.cursor, j) /\ \A i \in Jobs : f.queue[i] # None => Scope[RoundOf[i]] # Scope[RoundOf[j]]
      BY <1>8, <2>1 DEF Kept, OpenOf
    <2>3. RoundOf[j] # r
      BY <1>6, <1>8 DEF Gains, JobsOf
    <2>4. Awaited(g.cursor, j)
      BY <1>8, <2>2, <2>3 DEF Awaited, r
    <2> QED
      BY <1>8, <2>2, <2>4
  <1>12. k => \A j \in OpenOf(g) : g.queue[j] # None
    BY <1>6, <1>8 DEF Sound, OpenOf
  <1>13. Sound(g, k)
    BY <1>9, <1>10, <1>11, <1>12 DEF Sound, c
  <1>14. Intact(g)
    BY <1>6, <1>8 DEF Intact, Gains
  <1> QED
    BY <1>6, <1>8, <1>13, <1>14 DEF Gains

(* The run button.                                                         *)
LEMMA RanSound ==
    ASSUME NEW h, NEW k, Sound(h, k), SavedBusy(slot, executed), Unfollowed, Intact(h),
           NEW r \in Rounds, Runnable(h, r), NEW U
    PROVE  Sound(Ran(h, r, U), k) /\ Gains(h, Ran(h, r, U), r)
  <1> DEFINE W == Waiting(h, r)
             o == IF W = {} THEN None ELSE CHOOSE x \in W : Stable[x] = r
  <1>1. Ran(h, r, U) = Enqueued(h, r, o, U)
    BY DEF Ran
  <1>2. h.cursor \in SUBSET Occurrences
    BY HandlerFields DEF Sound, Contract
  <1>3. CASE W = {}
    <2>1. o = None /\ ~Exists(h, r) /\ \A x \in Occurrences : Stable[x] # r
      BY <1>3 DEF Runnable
    <2>2. ~AllLone
      BY <2>1 DEF AllLone, Lone
    <2> HIDE DEF o
    <2> QED
      BY <1>1, <2>1, <2>2, EnqueuedSound
  <1>4. CASE W # {}
    <2>1. o \in W /\ Stable[o] = r
      BY <1>4 DEF Runnable
    <2>2. o \in h.cursor /\ o \in Occurrences /\ o # None
      BY <1>2, <2>1, Entered DEF Waiting
    <2> HIDE DEF o
    <2>3. AllLone => Backed(h, r)
      BY <2>1, <2>2 DEF Intact, Backed
    <2> QED
      BY <1>1, <2>1, <2>2, <2>3, EnqueuedSound
  <1> QED
    BY <1>3, <1>4

-----------------------------------------------------------------------------
(* The invariant.                                                          *)

(* The writes of a handler with the steps it ends with.                     *)
Endings == [what : {"recovered", "throw"}] \cup [what : {"save"}, reply : Jobs \cup {None}]

(* A poll hands out job j, a handler throws, tick has recovered.           *)
Replies(W, j) == \E i \in DOMAIN W : W[i].what = "save" /\ W[i].reply = j
Throws(W) == \E i \in DOMAIN W : W[i].what = "throw"
Recovering(W) == \E i \in DOMAIN W : W[i].what = "recovered"
Marked(W, j) == \E i \in DOMAIN W : W[i].what = "progress" /\ W[i].job = j

(* A handler writes first and saves or throws last.                        *)
Closed(W) ==
    /\ W \in Seq(Writes \cup Endings)
    /\ \A i \in DOMAIN W : W[i].what \in {"save", "throw"} => i = Len(W)
    /\ W # <<>> => W[Len(W)].what \in {"save", "throw", "recovered"}

(* A handler that saves nothing has changed nothing that is saved.          *)
Unsaved(W) == W = <<>> \/ W[Len(W)].what = "recovered"

(* The steps left of the running handler.                                  *)
TodoInv ==
    /\ Closed(todo) /\ Orderly(slot, todo) /\ Original(todo)
    /\ Unsaved(todo) => /\ disk.queue = queue /\ disk.cursor = cursor /\ disk.planned = planned
    /\ Room => ~Throws(todo)

(* A round made for an occurrence is that of the occurrence.               *)
OriginInv == \A r \in Rounds : origin[r] # None => Stable[origin[r]] = r
(* A job of the queue, cached or saved, is of a round that is made.         *)
KnownInv ==
    \A j \in Jobs : /\ queue[j] # None => ~Unmade(slot, todo, j)
                    /\ disk.queue[j] # None => slot[j].state # "none"

(* What was handed to a worker is nowhere marked as waiting again.          *)
MeasuredInv ==
    \A j \in Jobs :
        /\ executed[j] \in {0, 1}
        /\ executed[j] # 0 =>
              /\ queue[j] \in {None, Busy} /\ disk.queue[j] \in {None, Busy}
              /\ slot[j].state # "none" /\ KeepsAll(todo, j) /\ ~Replies(todo, j)
              /\ slot[j].state = "open" => saved[j] = Busy
        /\ Replies(todo, j) =>
              /\ queue[j] = Busy /\ slot[j].state # "none" /\ KeepsAll(todo, j)
              /\ slot[j].state = "open" => saved[j] = Busy \/ Marked(todo, j)

(* A leader in a manifest is the one it named last.                        *)
FollowInv == \A j \in Jobs : saved[j].leader # None => followed[j] = saved[j].leader

(* With room and without faults: one round of a suite at work, followers   *)
(* with their leaders, and nobody measured beside a leader.                *)
CalmInv ==
    calm /\ Room =>
        /\ Single(slot, todo) /\ Plain(todo)
        /\ \A j \in Jobs : queue[j] # None <=> Opened(slot, todo, j)
        /\ Alone(queue) /\ Led(queue)
        /\ \A j, l \in Jobs : (followed[j] = l \/ Named(todo, j, l)) /\ queue[j] # None =>
                queue[j].leader = l \/ Cancelled(slot, todo, l)
        /\ \A j \in Jobs : slot[j].state = "none" => followed[j] = None
        /\ \A j, l \in Jobs : executed[j] # 0 /\ followed[j] = l => slot[l].state = "cancelled"
        /\ \A i, j \in Jobs : slot[i].state = "open" /\ slot[j].state = "open"
                              /\ Scope[RoundOf[i]] = Scope[RoundOf[j]] => RoundOf[i] = RoundOf[j]

(* Where each suite has one planned time, an open slot has its job in the  *)
(* queue or its occurrence in the cursor, in the cache and on the disk.    *)
KeptInv ==
    AllLone => /\ Kept(queue, cursor, {j \in Jobs : Opened(slot, todo, j)})
               /\ Due(todo, disk)
               /\ Kept(disk.queue, disk.cursor, Open)

(* With room and without I/O errors the recovery forgets nothing.          *)
RecoveredInv ==
    Room /\ MaxErrors = 0 /\ (recovered \/ Recovering(todo)) =>
        \A j \in Jobs : Opened(slot, todo, j) => queue[j] # None

(* The inductive invariant.                                                *)
IInv == /\ TypeOK /\ TodoInv /\ OriginInv /\ KnownInv /\ MeasuredInv /\ FollowInv
        /\ CalmInv /\ KeptInv /\ RecoveredInv

(* No writes change nothing.                                               *)
LEMMA NoWrites ==
    /\ <<>> \in Seq(Writes) /\ <<>> \in Seq(Progressions) /\ DOMAIN <<>> = {}
    /\ \A r : ~Made(<<>>, r)
    /\ \A j : ~Ended(<<>>, j) /\ KeepsAll(<<>>, j) /\ \A l : ~Named(<<>>, j, l)
    /\ \A s, j : /\ Opened(s, <<>>, j) <=> s[j].state = "open"
                 /\ Unmade(s, <<>>, j) <=> s[j].state = "none"
                 /\ Cancelled(s, <<>>, j) <=> s[j].state = "cancelled"
    /\ \A s : Orderly(s, <<>>) /\ Single(s, <<>>)
    /\ Original(<<>>) /\ Plain(<<>>) /\ \A d : Due(<<>>, d)
    /\ ~Throws(<<>>) /\ ~Recovering(<<>>) /\ \A j : ~Replies(<<>>, j)
  <1>1. <<>> \in Seq(Writes) /\ <<>> \in Seq(Progressions) /\ DOMAIN <<>> = {}
    BY EmptySeq
  <1>2. \A r : ~Made(<<>>, r)
    BY <1>1 DEF Made
  <1>3. \A j : ~Ended(<<>>, j) /\ KeepsAll(<<>>, j) /\ \A l : ~Named(<<>>, j, l)
    BY <1>1 DEF Ended, KeepsAll, Named
  <1>4. \A s, j : Cancelled(s, <<>>, j) <=> s[j].state = "cancelled"
    BY <1>1 DEF Cancelled
  <1>5. \A s : Orderly(s, <<>>) /\ Single(s, <<>>)
    BY <1>1 DEF Orderly, Single
  <1>6. Original(<<>>) /\ Plain(<<>>) /\ \A d : Due(<<>>, d)
    BY <1>1, <1>2 DEF Original, Plain, Due
  <1>7. ~Throws(<<>>) /\ ~Recovering(<<>>) /\ \A j : ~Replies(<<>>, j)
    BY <1>1 DEF Throws, Recovering, Replies
  <1> QED
    BY <1>1, <1>2, <1>3, <1>4, <1>5, <1>6, <1>7 DEF Opened, Unmade

(* Of the invariant, what the lemmas about handlers ask for.                *)
LEMMA Recall ==
    ASSUME IInv
    PROVE  SavedBusy(slot, executed) /\ Unfollowed
  BY DEF IInv, TypeOK, MeasuredInv, CalmInv, SavedBusy, Unfollowed

(* A handler starts with the cache and the slots as they are.              *)
LEMMA StartIs ==
    /\ Start.queue = queue /\ Start.cursor = cursor /\ Start.planned = planned
    /\ Start.slot = slot /\ Start.writes = <<>> /\ Start.batch = <<>>
  BY DEF Start

(* Before its first step a handler is sound.                               *)
LEMMA StartSound ==
    ASSUME IInv, Idle, NEW k \in BOOLEAN, k => Room /\ MaxErrors = 0 /\ recovered
    PROVE  Sound(Start, k) /\ Intact(Start)
  <1> DEFINE c == calm /\ Room
             h == Start
  <1>0. /\ h.queue = queue /\ h.cursor = cursor /\ h.planned = planned
        /\ h.slot = slot /\ h.writes = <<>> /\ h.batch = <<>>
    BY StartIs
  <1>1. todo = <<>>
    BY DEF Idle
  <1>2. /\ queue \in [Jobs -> Entries \cup {None}] /\ slot \in [Jobs -> Slots]
        /\ cursor \in SUBSET Occurrences /\ planned \in SUBSET Occurrences /\ cursor \subseteq planned
    BY DEF IInv, TypeOK, Slots
  <1>3. h \in Handlers
    BY <1>2, NoWrites DEF Start, Handlers
  <1> HIDE DEF h, c
  <1>4. \A j \in Jobs : /\ Opened(slot, todo, j) <=> slot[j].state = "open"
                        /\ Unmade(slot, todo, j) <=> slot[j].state = "none"
                        /\ Cancelled(slot, todo, j) <=> slot[j].state = "cancelled"
    BY <1>1, NoWrites
  <1>5. Views(h, slot) /\ Orderly(slot, h.writes) /\ Original(h.writes)
    BY <1>0, NoWrites DEF Views
  <1>6. Seen(h)
    BY <1>0, <1>4 DEF IInv, KnownInv, Seen
  <1>7. Minds(h, slot, executed)
    BY <1>0, NoWrites DEF IInv, MeasuredInv, Minds
  <1>8. Contract(h, slot, executed, c)
    BY <1>0, <1>2, <1>3, <1>5, <1>6, <1>7, NoWrites DEF Contract
  <1>9. c => Calmly(h, followed)
    <2> SUFFICES ASSUME c PROVE Calmly(h, followed)
      OBVIOUS
    <2>1. /\ \A j \in Jobs : queue[j] # None <=> Opened(slot, todo, j)
          /\ Alone(queue) /\ Led(queue)
          /\ \A j, l \in Jobs : (followed[j] = l \/ Named(todo, j, l)) /\ queue[j] # None =>
                queue[j].leader = l \/ Cancelled(slot, todo, l)
      BY DEF IInv, CalmInv, c
    <2>2. \A j, l \in Jobs : ~Named(h.writes, j, l)
      BY <1>0, NoWrites
    <2>3. \A j, l \in Jobs : (followed[j] = l \/ Named(h.writes, j, l)) /\ h.queue[j] # None =>
                h.queue[j].leader = l \/ h.slot[l].state = "cancelled"
      BY <1>0, <1>4, <2>1, <2>2
    <2> QED
      BY <1>0, <1>4, <2>1, <2>3 DEF Calmly
  <1>10. AllLone => Kept(h.queue, h.cursor, OpenOf(h)) /\ Due(h.writes, disk)
    BY <1>0, <1>4, NoWrites DEF IInv, KeptInv, Kept, OpenOf
  <1>11. k => \A j \in OpenOf(h) : h.queue[j] # None
    BY <1>0, <1>4 DEF IInv, RecoveredInv, OpenOf
  <1>12. disk.queue = queue /\ disk.cursor = cursor
    BY <1>1 DEF IInv, TodoInv, Unsaved
  <1>13. Intact(h)
    BY <1>0, <1>12 DEF Intact
  <1> QED
    BY <1>8, <1>9, <1>10, <1>11, <1>13 DEF Sound, c, h

-----------------------------------------------------------------------------
(* The end of a handler, and its beginning.                                *)

(* The ending B of a handler that is at h: at most its last step saves or   *)
(* throws, and a reply hands out a job that h has marked as running.        *)
Ending(B) == /\ B \in Seq(Endings) /\ B # <<>>
             /\ \A i \in DOMAIN B : B[i].what \in {"save", "throw"} => i = Len(B)

(* A poll hands out a job that is marked so by the writes before.          *)
Handed(B, h) ==
    \A j \in Jobs : Replies(B, j) =>
        /\ h.queue[j] = Busy /\ executed[j] = 0 /\ slot[j].state # "none"
        /\ KeepsAll(EndBatch(h).writes, j) /\ Marked(EndBatch(h).writes, j)

(* The end B of a handler h fits what it has done.                         *)
Finishes(B, h, k) ==
    /\ Ending(B) /\ Handed(B, h) /\ (Room => ~Throws(B))
    /\ B[Len(B)].what = "recovered" => h.queue = queue /\ h.cursor = cursor /\ h.planned = planned
    /\ Room /\ MaxErrors = 0 /\ (recovered \/ Recovering(B)) => k

(* What the writes W with the ending B are.                                *)
Wholly(V, W, B) ==
    /\ Closed(V) /\ V # <<>> /\ V[Len(V)] = B[Len(B)]
    /\ \A r \in Rounds : Made(V, r) <=> Made(W, r)
    /\ \A j \in Jobs : Ended(V, j) <=> Ended(W, j)
    /\ \A j \in Jobs : \A l : Named(V, j, l) <=> Named(W, j, l)
    /\ \A s : \A j \in Jobs : Cancelled(s, V, j) <=> Cancelled(s, W, j)
    /\ \A s : \A j \in Jobs : Opened(s, V, j) <=> Opened(s, W, j)
    /\ \A s : \A j \in Jobs : Unmade(s, V, j) <=> Unmade(s, W, j)
    /\ \A j \in Jobs : KeepsAll(V, j) <=> KeepsAll(W, j)
    /\ Plain(V) <=> Plain(W)
    /\ \A s : Orderly(s, W) => Orderly(s, V)
    /\ \A s : Single(s, W) => Single(s, V)
    /\ Original(W) => Original(V)
    /\ \A j \in Jobs : Marked(W, j) => Marked(V, j)
    /\ \A j \in Jobs : Replies(V, j) <=> Replies(B, j)
    /\ Throws(V) <=> Throws(B)
    /\ Recovering(V) <=> Recovering(B)

(* The last steps of a handler write no slot.                              *)
LEMMA EndingKinds ==
    \A w \in Endings : /\ w.what \in {"save", "throw", "recovered"}
                       /\ \A j \in Jobs : Keeps(w, j)
  <1>1. \A w \in Endings : w.what \in {"save", "throw", "recovered"}
    BY DEF Endings
  <1> QED
    BY <1>1 DEF Keeps, Makes

(* What the writes of a handler say, said of all its steps.                *)
LEMMA EndingJoin ==
    ASSUME NEW W \in Seq(Writes), NEW B, Ending(B)
    PROVE  Wholly(W \o B, W, B)
  <1> DEFINE V == W \o B
             T == Writes \cup Endings
  <1>1. W \in Seq(T) /\ B \in Seq(T)
    <2>1. Writes \subseteq T /\ Endings \subseteq T
      OBVIOUS
    <2> HIDE DEF T
    <2> QED
      BY <2>1 DEF Ending
  <1>2. B \in Seq(Endings) /\ Len(B) \in Nat /\ Len(B) > 0 /\ Len(B) \in DOMAIN B /\ \A i \in DOMAIN B : B[i] \in Endings
    <2>1. B \in Seq(Endings) /\ B # <<>>
      BY DEF Ending
    <2>2. Len(B) \in Nat /\ Len(B) > 0 /\ DOMAIN B = 1..Len(B) /\ \A i \in 1..Len(B) : B[i] \in Endings
      BY <2>1, LenProperties, EmptySeq, ElementOfSeq
    <2> QED
      BY <2>1, <2>2
  <1>3. Quiet(B) /\ Plain(B) /\ \A j \in Jobs : KeepsAll(B, j)
    <2>1. Quiet(B) /\ Plain(B)
      BY <1>2, EndingKinds DEF Quiet, Plain
    <2>2. \A j \in Jobs : KeepsAll(B, j)
      BY <1>2, EndingKinds DEF KeepsAll
    <2> QED
      BY <2>1, <2>2
  <1>4. /\ Len(W) \in Nat /\ Len(V) = Len(W) + Len(B) /\ V \in Seq(T)
        /\ DOMAIN W = 1..Len(W) /\ DOMAIN B = 1..Len(B) /\ DOMAIN V = 1..(Len(W) + Len(B))
        /\ \A i \in 1..Len(W) : V[i] = W[i]
        /\ \A i \in (Len(W) + 1)..(Len(W) + Len(B)) : V[i] = B[i - Len(W)]
    BY <1>1, Joined
  <1>5. ASSUME NEW s
        PROVE  /\ \A r \in Rounds : Made(V, r) <=> Made(W, r)
               /\ \A j \in Jobs : Ended(V, j) <=> Ended(W, j)
               /\ \A j \in Jobs : \A l : Named(V, j, l) <=> Named(W, j, l)
               /\ \A j \in Jobs : Cancelled(s, V, j) <=> Cancelled(s, W, j)
               /\ \A j \in Jobs : KeepsAll(V, j) <=> KeepsAll(W, j) /\ KeepsAll(B, j)
               /\ Plain(V) <=> Plain(W) /\ Plain(B)
               /\ Orderly(s, W) => Orderly(s, V)
               /\ Single(s, W) => Single(s, V)
               /\ Original(W) => Original(V)
    BY <1>1, <1>3, QuietJoin
  <1> HIDE DEF V, T
  <1>6. \A i \in DOMAIN W : W[i] \in Writes /\ i \in DOMAIN V /\ V[i] = W[i]
    BY <1>4, ElementOfSeq
  <1>7. \A i \in DOMAIN V : \/ i \in DOMAIN W /\ V[i] = W[i]
                            \/ i - Len(W) \in DOMAIN B /\ V[i] = B[i - Len(W)]
    <2>1. \A i \in DOMAIN V : i \in 1..Len(W) \/ (i \in (Len(W) + 1)..(Len(W) + Len(B)) /\ i - Len(W) \in 1..Len(B))
      BY <1>2, <1>4
    <2> QED
      BY <1>4, <2>1
  <1>8. \A i \in DOMAIN B : Len(W) + i \in DOMAIN V /\ V[Len(W) + i] = B[i]
    <2> TAKE i \in DOMAIN B
    <2>1. Len(W) + i \in (Len(W) + 1)..(Len(W) + Len(B)) /\ (Len(W) + i) - Len(W) = i
      BY <1>2, <1>4
    <2> QED
      BY <1>2, <1>4, <2>1
  <1>9. \A i \in DOMAIN W : W[i].what \in {"create", "complete", "progress"}
    BY <1>6, WriteKinds
  <1>10. Len(V) = Len(W) + Len(B) /\ V[Len(V)] = B[Len(B)] /\ V # <<>>
    <2>1. V[Len(W) + Len(B)] = B[Len(B)]
      BY <1>2, <1>8
    <2>2. Len(V) > 0
      BY <1>2, <1>4
    <2>3. V # <<>>
      BY <2>2, EmptySeq, LenProperties
    <2> QED
      BY <1>4, <2>1, <2>3
  <1>11. Closed(V)
    <2>1. \A i \in DOMAIN V : V[i].what \in {"save", "throw"} => i = Len(V)
      <3> SUFFICES ASSUME NEW i \in DOMAIN V, V[i].what \in {"save", "throw"} PROVE i = Len(V)
        OBVIOUS
      <3>1. i - Len(W) \in DOMAIN B /\ V[i] = B[i - Len(W)]
        BY <1>7, <1>9
      <3>2. i - Len(W) = Len(B)
        BY <3>1 DEF Ending
      <3>3. i \in Int
        BY <1>2, <1>4
      <3>4. \A a, b, n \in Int : n - a = b => n = a + b
        OBVIOUS
      <3>5. Len(W) \in Int /\ Len(B) \in Int
        BY <1>2, <1>4
      <3> QED
        BY <1>4, <3>2, <3>3, <3>4, <3>5
    <2>2. V[Len(V)].what \in {"save", "throw", "recovered"}
      BY <1>2, <1>10, EndingKinds
    <2> QED
      BY <1>4, <2>1, <2>2 DEF Closed, T
  <1>12. \A j \in Jobs : Marked(W, j) => Marked(V, j)
    BY <1>6 DEF Marked
  <1>13. \A j \in Jobs : Replies(V, j) <=> Replies(B, j)
    BY <1>7, <1>8, <1>9 DEF Replies
  <1>14. Throws(V) <=> Throws(B)
    BY <1>7, <1>8, <1>9 DEF Throws
  <1>15. Recovering(V) <=> Recovering(B)
    BY <1>7, <1>8, <1>9 DEF Recovering
  <1>16. \A j \in Jobs : RoundOf[j] \in Rounds
    BY RecoveryConstants
  <1>17. ASSUME NEW s, NEW j \in Jobs
         PROVE  (Opened(s, V, j) <=> Opened(s, W, j)) /\ (Unmade(s, V, j) <=> Unmade(s, W, j))
    BY <1>5, <1>16 DEF Opened, Unmade
  <1>18. Wholly(V, W, B)
    BY <1>3, <1>5, <1>10, <1>11, <1>12, <1>13, <1>14, <1>15, <1>17 DEF Wholly
  <1> QED
    BY <1>18 DEF V

(* A sound handler that begins its writes keeps the invariant.             *)
LEMMA BeginKeeps ==
    ASSUME IInv, NEW h, NEW k, NEW B, Sound(h, k), planned \subseteq h.planned, Finishes(B, h, k),
           Begin(h, B)
    PROVE  IInv'
  <1> DEFINE g == EndBatch(h)
             W == g.writes
             V == W \o B
             c == calm /\ Room
  <1>1. /\ Sound(g, k) /\ g.queue = h.queue /\ g.slot = h.slot
        /\ g.cursor = h.cursor /\ g.planned = h.planned
    BY BatchSound
  <1>2. /\ Contract(g, slot, executed, c) /\ (c => Calmly(g, followed))
        /\ AllLone => Kept(g.queue, g.cursor, OpenOf(g)) /\ Due(W, disk)
        /\ k => \A j \in OpenOf(g) : g.queue[j] # None
    BY <1>1 DEF Sound
  <1>3. /\ g \in Handlers /\ W \in Seq(Writes) /\ g.queue \in [Jobs -> Entries \cup {None}]
        /\ g.cursor \in SUBSET Occurrences /\ g.planned \in SUBSET Occurrences /\ g.cursor \subseteq g.planned
    BY <1>2, HandlerFields DEF Contract
  <1>4. /\ todo = <<>> /\ queue' = g.queue /\ cursor' = g.cursor /\ planned' = g.planned /\ todo' = V
        /\ UNCHANGED <<slot, saved, origin, disk, recovered, held, executed, followed, begun, calm, crashes, errors>>
    BY <1>1 DEF Begin, Idle, rounds
  <1>5. Ending(B) /\ Handed(B, h) /\ (Room => ~Throws(B))
    BY DEF Finishes
  <1>h. \A j \in Jobs : Replies(B, j) =>
            /\ h.queue[j] = Busy /\ executed[j] = 0 /\ slot[j].state # "none"
            /\ KeepsAll(W, j) /\ Marked(W, j)
    BY <1>5 DEF Handed
  <1> HIDE DEF g, W, V, c
  <1>6. Wholly(V, W, B)
    BY <1>3, <1>5, EndingJoin DEF V
  <1>7. Orderly(slot, W) /\ Original(W) /\ Views(g, slot) /\ Seen(g) /\ Minds(g, slot, executed)
        /\ (c => Single(slot, W) /\ Plain(W))
    BY <1>2 DEF Contract, W
  <1>8. \A j \in Jobs : /\ g.slot[j].state = "open" <=> Opened(slot, V, j)
                        /\ g.slot[j].state = "none" <=> Unmade(slot, V, j)
                        /\ g.slot[j].state = "cancelled" <=> Cancelled(slot, V, j)
    BY <1>6, <1>7 DEF Views, Wholly, W
  <1>9. disk.queue = queue /\ disk.cursor = cursor /\ disk.planned = planned
    BY <1>4 DEF IInv, TodoInv, Unsaved
  <1>10. TypeOK'
    BY <1>1, <1>3, <1>4, <1>9 DEF IInv, TypeOK
  <1>11. TodoInv'
    <2>1. Closed(V) /\ Orderly(slot, V) /\ Original(V) /\ (Room => ~Throws(V))
      BY <1>5, <1>6, <1>7 DEF Wholly
    <2>2. Unsaved(V) => disk.queue = g.queue /\ disk.cursor = g.cursor /\ disk.planned = g.planned
      BY <1>1, <1>6, <1>9 DEF Unsaved, Wholly, Finishes
    <2> QED
      BY <1>4, <2>1, <2>2 DEF TodoInv
  <1>12. OriginInv'
    BY <1>4 DEF IInv, OriginInv
  <1>13. KnownInv'
    BY <1>4, <1>7, <1>8 DEF IInv, KnownInv, Seen
  <1>14. MeasuredInv'
    <2> SUFFICES ASSUME NEW j \in Jobs
                 PROVE  /\ executed[j] \in {0, 1}
                        /\ executed[j] # 0 =>
                              /\ g.queue[j] \in {None, Busy} /\ disk.queue[j] \in {None, Busy}
                              /\ slot[j].state # "none" /\ KeepsAll(V, j) /\ ~Replies(V, j)
                              /\ slot[j].state = "open" => saved[j] = Busy
                        /\ Replies(V, j) =>
                              /\ g.queue[j] = Busy /\ slot[j].state # "none" /\ KeepsAll(V, j)
                              /\ slot[j].state = "open" => saved[j] = Busy \/ Marked(V, j)
      BY <1>4 DEF MeasuredInv
    <2>1. Replies(V, j) => /\ g.queue[j] = Busy /\ executed[j] = 0 /\ slot[j].state # "none"
                           /\ KeepsAll(V, j) /\ Marked(V, j)
      BY <1>1, <1>6, <1>h DEF Wholly
    <2>2. executed[j] # 0 => g.queue[j] \in {None, Busy} /\ KeepsAll(V, j)
      BY <1>6, <1>7 DEF Minds, Wholly, W
    <2>3. /\ executed[j] \in {0, 1}
          /\ executed[j] # 0 => /\ disk.queue[j] \in {None, Busy} /\ slot[j].state # "none"
                                /\ slot[j].state = "open" => saved[j] = Busy
      BY DEF IInv, MeasuredInv
    <2> QED
      BY <2>1, <2>2, <2>3
  <1>15. FollowInv'
    BY <1>4 DEF IInv, FollowInv
  <1>16. CalmInv'
    <2> SUFFICES ASSUME c
                 PROVE  /\ Single(slot, V) /\ Plain(V)
                        /\ \A j \in Jobs : g.queue[j] # None <=> Opened(slot, V, j)
                        /\ Alone(g.queue) /\ Led(g.queue)
                        /\ \A j, l \in Jobs : (followed[j] = l \/ Named(V, j, l)) /\ g.queue[j] # None =>
                                g.queue[j].leader = l \/ Cancelled(slot, V, l)
                        /\ \A j \in Jobs : slot[j].state = "none" => followed[j] = None
                        /\ \A j, l \in Jobs : executed[j] # 0 /\ followed[j] = l => slot[l].state = "cancelled"
                        /\ \A i, j \in Jobs : slot[i].state = "open" /\ slot[j].state = "open"
                              /\ Scope[RoundOf[i]] = Scope[RoundOf[j]] => RoundOf[i] = RoundOf[j]
      BY <1>4 DEF CalmInv, c, Room
    <2>1. Calmly(g, followed)
      BY <1>2
    <2>2. Single(slot, V) /\ Plain(V)
      BY <1>6, <1>7 DEF Wholly
    <2>3. \A j \in Jobs : g.queue[j] # None <=> Opened(slot, V, j)
      BY <1>8, <2>1 DEF Calmly
    <2>4. Alone(g.queue) /\ Led(g.queue)
      BY <2>1 DEF Calmly
    <2>5. \A j, l \in Jobs : Named(V, j, l) <=> Named(g.writes, j, l)
      BY <1>6 DEF Wholly, W
    <2>6. \A j, l \in Jobs : (followed[j] = l \/ Named(V, j, l)) /\ g.queue[j] # None =>
                                g.queue[j].leader = l \/ Cancelled(slot, V, l)
      BY <1>8, <2>1, <2>5 DEF Calmly
    <2>7. /\ \A j \in Jobs : slot[j].state = "none" => followed[j] = None
          /\ \A j, l \in Jobs : executed[j] # 0 /\ followed[j] = l => slot[l].state = "cancelled"
          /\ \A i, j \in Jobs : slot[i].state = "open" /\ slot[j].state = "open"
                /\ Scope[RoundOf[i]] = Scope[RoundOf[j]] => RoundOf[i] = RoundOf[j]
      BY DEF IInv, CalmInv, c
    <2> QED
      BY <2>2, <2>3, <2>4, <2>6, <2>7
  <1>17. KeptInv'
    <2> SUFFICES ASSUME AllLone
                 PROVE  /\ Kept(g.queue, g.cursor, {j \in Jobs : Opened(slot, V, j)})
                        /\ Due(V, disk) /\ Kept(disk.queue, disk.cursor, Open)
      BY <1>4 DEF KeptInv, Open, AllLone, Lone
    <2>1. Kept(g.queue, g.cursor, {j \in Jobs : Opened(slot, V, j)})
      <3>1. {j \in Jobs : Opened(slot, V, j)} = OpenOf(g)
        BY <1>8 DEF OpenOf
      <3> QED
        BY <1>2, <3>1
    <2>2. Due(V, disk)
      BY <1>2, <1>6, NamedDue DEF Wholly
    <2> QED
      BY <2>1, <2>2 DEF IInv, KeptInv
  <1>18. RecoveredInv'
    <2> SUFFICES ASSUME Room, MaxErrors = 0, recovered \/ Recovering(V), NEW j \in Jobs, Opened(slot, V, j)
                 PROVE  g.queue[j] # None
      BY <1>4 DEF RecoveredInv, Room
    <2>1. k
      BY <1>6 DEF Wholly, Finishes
    <2> QED
      BY <1>2, <1>8, <2>1 DEF OpenOf
  <1> QED
    BY <1>10, <1>11, <1>12, <1>13, <1>14, <1>15, <1>16, <1>17, <1>18 DEF IInv

(* The ending with one step.                                               *)
LEMMA OneStep ==
    ASSUME NEW e \in Endings
    PROVE  /\ Ending(<<e>>) /\ <<e>>[Len(<<e>>)] = e
           /\ \A j \in Jobs : Replies(<<e>>, j) <=> e.what = "save" /\ e.reply = j
           /\ Throws(<<e>>) <=> e.what = "throw"
           /\ Recovering(<<e>>) <=> e.what = "recovered"
  <1> DEFINE B == <<e>>
  <1>1. B \in Seq(Endings) /\ Len(B) = 1 /\ B[1] = e /\ DOMAIN B = {1} /\ B # <<>>
    OBVIOUS
  <1> HIDE DEF B
  <1>2. Ending(B) /\ B[Len(B)] = e
    BY <1>1 DEF Ending
  <1>3. \A j \in Jobs : Replies(B, j) <=> e.what = "save" /\ e.reply = j
    BY <1>1 DEF Replies
  <1>4. (Throws(B) <=> e.what = "throw") /\ (Recovering(B) <=> e.what = "recovered")
    BY <1>1 DEF Throws, Recovering
  <1> QED
    BY <1>2, <1>3, <1>4 DEF B

(* The steps a handler may end with.                                       *)
LEMMA Steps ==
    /\ \A r \in Jobs \cup {None} : [what |-> "save", reply |-> r] \in Endings
    /\ [what |-> "throw"] \in Endings /\ [what |-> "recovered"] \in Endings
  BY DEF Endings

(* A handler that ends with a save hands nothing out.                      *)
LEMMA SaveFinishes ==
    ASSUME NEW h, NEW k, Room /\ MaxErrors = 0 /\ recovered => k
    PROVE  Finishes(Save(None), h, k)
  <1> DEFINE e == [what |-> "save", reply |-> None]
             B == <<e>>
  <1>1. e \in Endings /\ e.what = "save" /\ e.reply = None
    BY Steps
  <1>2. Save(None) = B
    BY DEF Save
  <1> HIDE DEF e
  <1>3. /\ Ending(B) /\ B[Len(B)] = e
        /\ \A j \in Jobs : Replies(B, j) <=> e.what = "save" /\ e.reply = j
        /\ Throws(B) <=> e.what = "throw"
        /\ Recovering(B) <=> e.what = "recovered"
    BY <1>1, OneStep
  <1> HIDE DEF B
  <1>4. \A j \in Jobs : ~Replies(B, j)
    BY <1>1, <1>3, Entered
  <1> QED
    BY <1>1, <1>2, <1>3, <1>4 DEF Finishes, Handed

(* The save of a poll hands out the job it has marked.                     *)
LEMMA ReplyFinishes ==
    ASSUME NEW h, NEW k, Room /\ MaxErrors = 0 /\ recovered => k, NEW j \in Jobs,
           h.queue[j] = Busy, executed[j] = 0, slot[j].state # "none",
           KeepsAll(EndBatch(h).writes, j), Marked(EndBatch(h).writes, j)
    PROVE  Finishes(Save(j), h, k)
  <1> DEFINE e == [what |-> "save", reply |-> j]
             B == <<e>>
  <1>1. e \in Endings /\ e.what = "save" /\ e.reply = j
    BY Steps
  <1>2. Save(j) = B
    BY DEF Save
  <1> HIDE DEF e
  <1>3. /\ Ending(B) /\ B[Len(B)] = e
        /\ \A i \in Jobs : Replies(B, i) <=> e.what = "save" /\ e.reply = i
        /\ Throws(B) <=> e.what = "throw"
        /\ Recovering(B) <=> e.what = "recovered"
    BY <1>1, OneStep
  <1> HIDE DEF B
  <1>4. \A i \in Jobs : Replies(B, i) => i = j
    BY <1>1, <1>3
  <1>5. Handed(B, h)
    BY <1>4 DEF Handed
  <1> QED
    BY <1>1, <1>2, <1>3, <1>5 DEF Finishes

(* A handler throws only when the queue lacks room.                        *)
LEMMA ThrowFinishes ==
    ASSUME NEW h, NEW k, Room /\ MaxErrors = 0 /\ recovered => k, ~Room
    PROVE  Finishes(<<[what |-> "throw"]>>, h, k)
  <1> DEFINE e == [what |-> "throw"]
             B == <<e>>
  <1>1. e \in Endings /\ e.what = "throw"
    BY Steps
  <1> HIDE DEF e
  <1>3. /\ Ending(B) /\ B[Len(B)] = e
        /\ \A j \in Jobs : Replies(B, j) <=> e.what = "save" /\ e.reply = j
        /\ Throws(B) <=> e.what = "throw"
        /\ Recovering(B) <=> e.what = "recovered"
    BY <1>1, OneStep
  <1> HIDE DEF B
  <1>4. Finishes(B, h, k)
    BY <1>1, <1>3 DEF Finishes, Handed
  <1> QED
    BY <1>4 DEF B, e

(* Two steps joined.                                                       *)
LEMMA TwoSteps ==
    ASSUME NEW X \in Seq(Endings), NEW Y \in Seq(Endings), Len(X) = 1, Len(Y) = 1
    PROVE  X \o Y \in Seq(Endings) /\ Len(X \o Y) = 2 /\ DOMAIN (X \o Y) = {1, 2}
           /\ (X \o Y)[1] = X[1] /\ (X \o Y)[2] = Y[1]
  <1> DEFINE B == X \o Y
  <1>1. /\ B \in Seq(Endings) /\ Len(X) \in Nat /\ Len(Y) \in Nat
        /\ Len(B) = Len(X) + Len(Y)
        /\ DOMAIN X = 1..Len(X) /\ DOMAIN Y = 1..Len(Y)
        /\ DOMAIN B = 1..(Len(X) + Len(Y))
        /\ \A i \in 1..Len(X) : B[i] = X[i]
        /\ \A i \in (Len(X) + 1)..(Len(X) + Len(Y)) : B[i] = Y[i - Len(X)]
    BY Joined, Zenon
  <1> HIDE DEF B
  <1>2. Len(B) = 2 /\ DOMAIN B = 1..2
    BY <1>1
  <1>3. 1 \in 1..Len(X) /\ 2 \in (Len(X) + 1)..(Len(X) + Len(Y)) /\ 2 - Len(X) = 1
    OBVIOUS
  <1>4. B[1] = X[1] /\ B[2] = Y[1]
    BY <1>1, <1>3
  <1>5. DOMAIN B = {1, 2}
    BY <1>2
  <1> QED
    BY <1>1, <1>2, <1>4, <1>5 DEF B

(* The first tick after a restart saves only if it has changed something.  *)
LEMMA RecoveredFinishes ==
    ASSUME NEW h, NEW idle \in BOOLEAN, idle => h.queue = queue /\ h.cursor = cursor /\ h.planned = planned
    PROVE  Finishes(<<[what |-> "recovered"]>> \o IF idle THEN <<>> ELSE Save(None), h, TRUE)
  <1> DEFINE e == [what |-> "recovered"]
             d == [what |-> "save", reply |-> None]
  <1>1. e \in Endings /\ e.what = "recovered" /\ d \in Endings /\ d.what = "save" /\ d.reply = None
    BY Steps
  <1>0. PICK yes : yes = TRUE
    OBVIOUS
  <1>2. CASE idle
    <2> DEFINE B == <<e>>
    <2>1. <<e>> \o (IF idle THEN <<>> ELSE Save(None)) = B
      BY <1>2
    <2> HIDE DEF e
    <2>3. /\ Ending(B) /\ B[Len(B)] = e
          /\ \A j \in Jobs : Replies(B, j) <=> e.what = "save" /\ e.reply = j
          /\ Throws(B) <=> e.what = "throw"
      BY <1>1, OneStep
    <2> HIDE DEF B
    <2>4. Finishes(B, h, yes)
      BY <1>0, <1>1, <1>2, <2>3 DEF Finishes, Handed
    <2> QED
      BY <1>0, <2>1, <2>4 DEF e
  <1>3. CASE ~idle
    <2> DEFINE X == <<e>>
               Y == <<d>>
               B == X \o Y
    <2>1. <<e>> \o (IF idle THEN <<>> ELSE Save(None)) = B
      BY <1>3 DEF Save
    <2> HIDE DEF e, d
    <2>2. X \in Seq(Endings) /\ Y \in Seq(Endings) /\ Len(X) = 1 /\ Len(Y) = 1 /\ X[1] = e /\ Y[1] = d
      BY <1>1
    <2> HIDE DEF X, Y
    <2>3. /\ B \in Seq(Endings) /\ Len(B) = 2 /\ DOMAIN B = {1, 2} /\ B[1] = X[1] /\ B[2] = Y[1]
      BY <2>2, TwoSteps
    <2> HIDE DEF B
    <2>4. Len(B) = 2 /\ DOMAIN B = {1, 2} /\ B[1] = e /\ B[2] = d
      BY <2>2, <2>3
    <2>5. B # <<>>
      BY <2>4
    <2>6. Ending(B) /\ B[Len(B)] = d
      BY <1>1, <2>3, <2>4, <2>5 DEF Ending
    <2>7. (\A j \in Jobs : ~Replies(B, j)) /\ ~Throws(B)
      BY <1>1, <2>4, Entered DEF Replies, Throws
    <2>8. Finishes(B, h, yes)
      BY <1>0, <1>1, <2>6, <2>7 DEF Finishes, Handed
    <2> QED
      BY <1>0, <2>1, <2>8, Zenon DEF e
  <1> QED
    BY <1>2, <1>3

-----------------------------------------------------------------------------
(* The handlers.                                                           *)

(* tick, at last: the occurrences whose time has passed.                    *)
LEMMA PlanSound ==
    ASSUME NEW h, NEW k, Sound(h, k), NEW due \in SUBSET Occurrences
    PROVE  Sound(Plan(h, due), k) /\ h.planned \subseteq Plan(h, due).planned
  <1> DEFINE c == calm /\ Room
             g == Plan(h, due)
  <1>1. Contract(h, slot, executed, c)
    BY DEF Sound
  <1>2. h \in Handlers
    BY <1>1 DEF Contract
  <1>3. /\ g \in Handlers /\ g.queue = h.queue /\ g.slot = h.slot /\ g.writes = h.writes /\ g.batch = h.batch
        /\ g.cursor = h.cursor \cup due /\ g.planned = h.planned \cup due
    BY <1>2 DEF Plan, Handlers
  <1> HIDE DEF c, g
  <1>4. Contract(g, slot, executed, c)
    BY <1>1, <1>3 DEF Contract, Views, Seen, Minds
  <1>5. c => Calmly(g, followed)
    BY <1>3 DEF Sound, Calmly, c
  <1>6. AllLone => Kept(g.queue, g.cursor, OpenOf(g)) /\ Due(g.writes, disk)
    <2> SUFFICES ASSUME AllLone PROVE Kept(g.queue, g.cursor, OpenOf(g)) /\ Due(g.writes, disk)
      OBVIOUS
    <2>1. Kept(h.queue, h.cursor, OpenOf(h)) /\ Due(h.writes, disk)
      BY DEF Sound
    <2>2. OpenOf(g) = OpenOf(h)
      BY <1>3 DEF OpenOf
    <2> QED
      BY <1>3, <2>1, <2>2 DEF Kept, Awaited
  <1>7. k => \A j \in OpenOf(g) : g.queue[j] # None
    BY <1>3 DEF Sound, OpenOf
  <1> QED
    BY <1>3, <1>4, <1>5, <1>6, <1>7 DEF Sound, c, g

(* The minute tick keeps the invariant.                                    *)
LEMMA TickKeeps ==
    ASSUME IInv, TickSome
    PROVE  IInv'
  <1>1. PICK expired \in SUBSET Known(Start), unready \in SUBSET (IF recovered THEN {} ELSE Open),
             due \in SUBSET (Occurrences \ planned) : Tick(expired, unready, due)
    BY DEF TickSome
  <1> DEFINE k == Room /\ MaxErrors = 0 /\ recovered
             reaped == Expire(Start, expired)
  <1>2. PICK h \in IF recovered THEN {reaped} ELSE RecoverRounds(reaped, unready) :
            LET plan == Plan(h, due)
                idle == plan = [Start EXCEPT !.slot = plan.slot]
            IN  /\ ~recovered \/ ~idle
                /\ Begin(plan, (IF recovered THEN <<>> ELSE <<[what |-> "recovered"]>>)
                               \o IF idle THEN <<>> ELSE Save(None))
    BY <1>1 DEF Tick
  <1> DEFINE plan == Plan(h, due)
             idle == plan = [Start EXCEPT !.slot = plan.slot]
  <1>3. /\ ~recovered \/ ~idle
        /\ Begin(plan, (IF recovered THEN <<>> ELSE <<[what |-> "recovered"]>>)
                       \o IF idle THEN <<>> ELSE Save(None))
    BY <1>2
  <1>4. Idle /\ expired \in SUBSET Jobs /\ due \in SUBSET Occurrences
    BY <1>3 DEF Begin, Known
  <1>5. k \in BOOLEAN /\ (k => Room /\ MaxErrors = 0 /\ recovered) /\ (Room /\ MaxErrors = 0 /\ recovered => k)
    BY DEF IInv, TypeOK
  <1>6. SavedBusy(slot, executed)
    BY Recall
  <1> HIDE DEF k
  <1>7. Sound(Start, k)
    BY <1>4, <1>5, StartSound
  <1>8. Sound(reaped, k) /\ Onward(Start, reaped, {})
    BY <1>4, <1>7, ExpireSound
  <1> HIDE DEF reaped
  <1>9. /\ reaped.planned = planned
        /\ \A j \in Jobs : reaped.slot[j].state = "open" => slot[j].state = "open"
    BY <1>8, StartIs DEF Onward
  <1>10. idle => plan.queue = queue /\ plan.cursor = cursor /\ plan.planned = planned
    BY DEF Start
  <1>11. CASE recovered
    <2>1. h = reaped /\ ~idle
      BY <1>2, <1>3, <1>11
    <2>2. Sound(plan, k) /\ planned \subseteq plan.planned
      BY <1>4, <1>8, <1>9, <2>1, PlanSound
    <2>3. Begin(plan, <<>> \o Save(None))
      BY <1>3, <1>11, <2>1, Zenon
    <2>4. <<>> \o Save(None) = Save(None)
      <3>1. Save(None) \in Seq({[what |-> "save", reply |-> None]})
        BY DEF Save
      <3> QED
        BY <3>1, ConcatEmptySeq, Zenon
    <2>5. Begin(plan, Save(None))
      BY <2>3, <2>4, Zenon
    <2> HIDE DEF plan
    <2>6. Finishes(Save(None), plan, k)
      BY <1>5, SaveFinishes
    <2> QED
      BY <2>2, <2>5, <2>6, BeginKeeps
  <1>12. CASE ~recovered
    <2>1. h \in RecoverRounds(reaped, unready)
      BY <1>2, <1>12
    <2>2. Sound(h, TRUE) /\ h.planned = reaped.planned
      BY <1>6, <1>8, <1>9, <2>1, RecoverSound
    <2>3. Sound(plan, TRUE) /\ planned \subseteq plan.planned
      BY <1>4, <1>9, <2>2, PlanSound
    <2> DEFINE B == <<[what |-> "recovered"]>> \o IF idle THEN <<>> ELSE Save(None)
    <2>4. Begin(plan, B)
      BY <1>3, <1>12, Zenon
    <2>5. idle \in BOOLEAN
      OBVIOUS
    <2> HIDE DEF plan, idle
    <2>6. Finishes(B, plan, TRUE)
      BY <1>10, <2>5, RecoveredFinishes
    <2> HIDE DEF B
    <2> QED
      BY <2>3, <2>4, <2>6, BeginKeeps
  <1> QED
    BY <1>11, <1>12

(* A round that does not fit: there is no room for all jobs.                *)
LEMMA RetainedFull ==
    ASSUME NEW h, NEW r, NEW U, Retained(h, r, U)
    PROVE  ~Room
  <1> DEFINE K == Known(h)
             N == JobsOf(r) \ U
  <1>1. K \in SUBSET Jobs /\ N \in SUBSET Jobs /\ K \cap N = {} /\ K \cup N \in SUBSET Jobs
    BY DEF Retained, Pending, Known, JobsOf
  <1>2. ~(Cardinality(K) + Cardinality(N) <= Capacity)
    BY DEF Retained, Fits
  <1> HIDE DEF K, N
  <1>3. IsFiniteSet(Jobs) /\ IsFiniteSet(K) /\ IsFiniteSet(N) /\ Cardinality(K) \in Nat /\ Cardinality(N) \in Nat
        /\ Cardinality(Jobs) \in Nat
    BY <1>1, RecoveryConstants, JobsCounted, FS_CardinalityType
  <1>4. Cardinality(K \cup N) = Cardinality(K) + Cardinality(N) - Cardinality(K \cap N)
    BY <1>3, FS_Union
  <1>5. Cardinality(K \cap N) = 0
    BY <1>1, FS_EmptySet
  <1>6. Cardinality(K \cup N) <= Cardinality(Jobs)
    BY <1>1, <1>3, FS_Subset
  <1>7. Cardinality(K) + Cardinality(N) <= Cardinality(Jobs)
    BY <1>3, <1>4, <1>5, <1>6
  <1> QED
    BY <1>2, <1>3, <1>7, RecoveryConstants DEF Room

(* A sound handler that ends with a save keeps the invariant.              *)
LEMMA SaveKeeps ==
    ASSUME IInv, NEW h, NEW k, Sound(h, k), Room /\ MaxErrors = 0 /\ recovered => k, h.planned = planned,
           Begin(h, Save(None))
    PROVE  IInv'
  <1>1. Finishes(Save(None), h, k)
    BY SaveFinishes
  <1>2. planned \subseteq h.planned
    OBVIOUS
  <1> DEFINE B == Save(None)
  <1> HIDE DEF B
  <1>3. Finishes(B, h, k) /\ Begin(h, B)
    BY <1>1 DEF B
  <1> QED
    BY <1>2, <1>3, BeginKeeps

(* dispatchStep keeps the invariant.                                       *)
LEMMA DispatchKeeps ==
    ASSUME IInv, NEW U, DispatchStep(U)
    PROVE  IInv'
  <1>1. PICK o \in cursor : \E h \in Dispatched(Start, o, U) :
            \/ Begin(h, Save(None))
            \/ \E p \in h.cursor : \E g \in Dispatched(h, p, U) : Begin(g, Save(None))
    BY DEF DispatchStep
  <1>2. PICK h \in Dispatched(Start, o, U) :
            \/ Begin(h, Save(None))
            \/ \E p \in h.cursor : \E g \in Dispatched(h, p, U) : Begin(g, Save(None))
    BY <1>1
  <1>3. Idle
    BY <1>2 DEF Begin
  <1> DEFINE k == Room /\ MaxErrors = 0 /\ recovered
  <1>4. k \in BOOLEAN /\ (k => Room /\ MaxErrors = 0 /\ recovered) /\ (Room /\ MaxErrors = 0 /\ recovered => k)
    BY DEF IInv, TypeOK
  <1> HIDE DEF k
  <1>5. Sound(Start, k) /\ Intact(Start) /\ SavedBusy(slot, executed) /\ Unfollowed
    BY <1>3, <1>4, StartSound, Recall
  <1>6. o \in Start.cursor /\ Start.planned = planned
    BY StartIs
  <1>7. Sound(h, k) /\ Intact(h) /\ h.planned = planned
    BY <1>2, <1>5, <1>6, DispatchedSound
  <1>8. CASE Begin(h, Save(None))
    BY <1>4, <1>7, <1>8, SaveKeeps
  <1>9. ASSUME NEW p \in h.cursor, NEW g \in Dispatched(h, p, U), Begin(g, Save(None))
        PROVE  IInv'
    <2>1. Sound(g, k) /\ g.planned = planned
      BY <1>5, <1>7, <1>9, DispatchedSound
    <2> QED
      BY <1>4, <1>9, <2>1, SaveKeeps
  <1> QED
    BY <1>2, <1>8, <1>9

(* The run button keeps the invariant.                                     *)
LEMMA RunKeeps ==
    ASSUME IInv, NEW r \in Rounds, NEW U, Run(r, U)
    PROVE  IInv'
  <1> DEFINE h == Ran(Start, r, U)
  <1>1. /\ Runnable(Start, r)
        /\ \/ Begin(h, Save(None))
           \/ \E q \in {p \in Rounds : Runnable(h, p)} :
                IF Retained(h, q, U) THEN Begin(h, <<[what |-> "throw"]>>)
                ELSE Begin(Ran(h, q, U), Save(None))
    BY DEF Run
  <1>2. Idle
    BY <1>1 DEF Begin
  <1> DEFINE k == Room /\ MaxErrors = 0 /\ recovered
  <1>3. k \in BOOLEAN /\ (k => Room /\ MaxErrors = 0 /\ recovered) /\ (Room /\ MaxErrors = 0 /\ recovered => k)
    BY DEF IInv, TypeOK
  <1> HIDE DEF k
  <1>4. Sound(Start, k) /\ Intact(Start) /\ SavedBusy(slot, executed) /\ Unfollowed
    BY <1>2, <1>3, StartSound, Recall
  <1>5. Sound(h, k) /\ Gains(Start, h, r)
    BY <1>1, <1>4, RanSound
  <1> HIDE DEF h
  <1>6. Intact(h) /\ h.planned = planned
    BY <1>4, <1>5, StartIs DEF Intact, Gains
  <1>7. CASE Begin(h, Save(None))
    BY <1>3, <1>5, <1>6, <1>7, SaveKeeps
  <1>8. ASSUME NEW q \in Rounds, Runnable(h, q), Retained(h, q, U), Begin(h, <<[what |-> "throw"]>>)
        PROVE  IInv'
    <2> DEFINE B == <<[what |-> "throw"]>>
    <2>1. Finishes(B, h, k)
      BY <1>3, <1>8, RetainedFull, ThrowFinishes
    <2>2. Begin(h, B) /\ planned \subseteq h.planned
      BY <1>6, <1>8
    <2> HIDE DEF B
    <2> QED
      BY <1>5, <2>1, <2>2, BeginKeeps
  <1>9. ASSUME NEW q \in Rounds, Runnable(h, q), Begin(Ran(h, q, U), Save(None))
        PROVE  IInv'
    <2>1. Sound(Ran(h, q, U), k) /\ Gains(h, Ran(h, q, U), q)
      BY <1>4, <1>5, <1>6, <1>9, RanSound
    <2>2. Ran(h, q, U).planned = planned
      BY <1>6, <2>1 DEF Gains
    <2> QED
      BY <1>3, <1>9, <2>1, <2>2, SaveKeeps
  <1> QED
    BY <1>1, <1>7, <1>8, <1>9

(* The cancellation of a round keeps the invariant.                        *)
LEMMA CancelKeeps ==
    ASSUME IInv, NEW r \in Rounds, Cancel(r)
    PROVE  IInv'
  <1> DEFINE S == JobsOf(r) \cap Known(Start)
             h == Cancelling(Start, S)
             k == Room /\ MaxErrors = 0 /\ recovered
  <1>1. Begin(h, Save(None))
    BY DEF Cancel, Cancelling
  <1>2. Idle
    BY <1>1 DEF Begin
  <1>3. k \in BOOLEAN /\ (k => Room /\ MaxErrors = 0 /\ recovered) /\ (Room /\ MaxErrors = 0 /\ recovered => k)
    BY DEF IInv, TypeOK
  <1>4. S \in SUBSET Jobs
    BY DEF JobsOf
  <1> HIDE DEF k, S
  <1>5. Sound(Start, k)
    BY <1>2, <1>3, StartSound
  <1>6. Sound(h, k) /\ Onward(Start, h, {})
    BY <1>4, <1>5, CancelSound
  <1> HIDE DEF h
  <1>7. h.planned = planned
    BY <1>6, StartIs DEF Onward
  <1> QED
    BY <1>1, <1>3, <1>6, <1>7, SaveKeeps

(* The post of a result keeps the invariant.                               *)
LEMMA ResultKeeps ==
    ASSUME IInv, NEW j \in Jobs, Result(j)
    PROVE  IInv'
  <1>1. CASE queue[j] # None /\ queue[j].phase = "running"
    <2> DEFINE h == FinishOne(Start, j, "ok")
               k == Room /\ MaxErrors = 0 /\ recovered
    <2>1. Begin(h, Save(None))
      BY <1>1 DEF Result
    <2>2. Idle
      BY <2>1 DEF Begin
    <2>3. k \in BOOLEAN /\ (k => Room /\ MaxErrors = 0 /\ recovered) /\ (Room /\ MaxErrors = 0 /\ recovered => k)
      BY DEF IInv, TypeOK
    <2> HIDE DEF k
    <2>4. Sound(Start, k)
      BY <2>2, <2>3, StartSound
    <2>5. "ok" \in Recorded
      BY DEF Recorded
    <2>6. Sound(h, k) /\ Onward(Start, h, {})
      BY <2>4, <2>5, FinishSound
    <2> HIDE DEF h
    <2>7. h.planned = planned
      BY <2>6, StartIs DEF Onward
    <2> QED
      BY <2>1, <2>3, <2>6, <2>7, SaveKeeps
  <1>2. CASE ~(queue[j] # None /\ queue[j].phase = "running")
    <2>1. /\ UNCHANGED <<slot, saved, origin, queue, cursor, planned, disk, recovered, todo, executed, followed,
                         begun, calm, crashes, errors>>
          /\ held' \subseteq held
      BY <1>2 DEF Result, rounds, cache
    <2> HIDE DEF Result
    <2>2. TypeOK'
      BY <2>1 DEF IInv, TypeOK
    <2>3. TodoInv' /\ OriginInv' /\ KnownInv'
      BY <2>1 DEF IInv, TodoInv, OriginInv, KnownInv, Room
    <2>4. MeasuredInv' /\ FollowInv'
      BY <2>1 DEF IInv, MeasuredInv, FollowInv
    <2>5. CalmInv'
      BY <2>1 DEF IInv, CalmInv, Room
    <2>6. KeptInv' /\ RecoveredInv'
      BY <2>1 DEF IInv, KeptInv, RecoveredInv, Room, AllLone, Lone, Open
    <2> QED
      BY <2>2, <2>3, <2>4, <2>5, <2>6 DEF IInv
  <1> QED
    BY <1>1, <1>2

(* The only write of a poll: the manifest of the job it hands out.          *)
LEMMA PollWrites ==
    ASSUME NEW j \in Jobs
    PROVE  LET W == <<>> \o Append(<<>>, [what |-> "progress", job |-> j, value |-> Busy])
           IN  KeepsAll(W, j) /\ Marked(W, j)
  <1> DEFINE w == [what |-> "progress", job |-> j, value |-> Busy]
             X == Append(<<>>, w)
             W == <<>> \o X
  <1>1. w \in Progressions /\ w.what = "progress" /\ w.job = j /\ w.value = Busy
    BY Entered DEF Progressions
  <1>2. X \in Seq(Progressions)
    BY <1>1, Appended, NoWrites
  <1>3. DOMAIN X = {1} /\ X[1] = w
    BY <1>1
  <1> HIDE DEF X, w
  <1>4. W = X
    BY <1>2, ConcatEmptySeq, Zenon
  <1>5. Keeps(w, j)
    BY <1>1 DEF Keeps, Makes
  <1>6. KeepsAll(X, j) /\ Marked(X, j)
    BY <1>1, <1>3, <1>5 DEF KeepsAll, Marked
  <1>7. KeepsAll(W, j) /\ Marked(W, j)
    BY <1>4, <1>6
  <1> QED
    BY <1>7 DEF X, w

(* A poll keeps the invariant.                                             *)
LEMMA PollKeeps ==
    ASSUME IInv, NEW j \in Jobs, Poll(j)
    PROVE  IInv'
  <1> DEFINE h == Add(Start, j, Busy)
             g == Progress(h, j)
             k == Room /\ MaxErrors = 0 /\ recovered
             c == calm /\ Room
             B == Save(j)
  <1>1. Begin(g, B) /\ queue[j] # None /\ queue[j].phase = "queued"
    BY DEF Poll, Dispatchable, Busy
  <1>2. Idle
    BY <1>1 DEF Begin
  <1>3. k \in BOOLEAN /\ (k => Room /\ MaxErrors = 0 /\ recovered) /\ (Room /\ MaxErrors = 0 /\ recovered => k)
    BY DEF IInv, TypeOK
  <1> HIDE DEF k
  <1>4. Sound(Start, k)
    BY <1>2, <1>3, StartSound
  <1>5. executed[j] = 0
    BY <1>1 DEF IInv, MeasuredInv, Busy
  <1>6. slot[j].state # "none"
    <2>1. todo = <<>>
      BY <1>2 DEF Idle
    <2> QED
      BY <1>1, <2>1, NoWrites DEF IInv, KnownInv
  <1>7. Contract(Start, slot, executed, c) /\ Start.slot[j].state # "none"
    BY <1>4, <1>6, StartIs DEF Sound
  <1>8. Busy \in Entries /\ Busy # None /\ Busy.leader = None
    BY Entered DEF Busy
  <1> HIDE DEF c
  <1>9. /\ Contract(h, slot, executed, c)
        /\ LET u == Add(Start, j, Busy) IN
           /\ u.queue = [Start.queue EXCEPT ![j] = Busy] /\ u.cursor = Start.cursor /\ u.planned = Start.planned
           /\ u.slot = Start.slot /\ u.writes = Start.writes /\ u.batch = Start.batch
    BY <1>7, <1>8, AddKeeps
  <1>10. queue \in [Jobs -> Entries \cup {None}]
    BY DEF IInv, TypeOK
  <1>11. /\ h.queue[j] = Busy /\ \A i \in Jobs \ {j} : h.queue[i] = queue[i]
         /\ h.cursor = cursor /\ h.planned = planned /\ h.slot = slot /\ h.writes = <<>> /\ h.batch = <<>>
    BY <1>9, <1>10, StartIs
  <1>12. /\ Contract(g, slot, executed, c)
         /\ LET u == Progress(h, j) IN
            /\ u.queue = h.queue /\ u.cursor = h.cursor /\ u.planned = h.planned
            /\ u.slot = h.slot /\ u.writes = h.writes
    <2>1. h.queue[j] # None /\ h.queue[j].leader = None
      BY <1>8, <1>11
    <2> HIDE DEF h
    <2> QED
      BY <1>9, <2>1, ProgressKeeps
  <1>13. /\ g.queue[j] = Busy /\ \A i \in Jobs \ {j} : g.queue[i] = queue[i]
         /\ g.cursor = cursor /\ g.planned = planned /\ g.slot = slot /\ g.writes = <<>>
    BY <1>11, <1>12
  <1>14. g.batch = Append(<<>>, [what |-> "progress", job |-> j, value |-> Busy])
    BY <1>7, <1>11 DEF Progress, Contract, Handlers, Add
  <1>15. KeepsAll(EndBatch(g).writes, j) /\ Marked(EndBatch(g).writes, j)
    <2>1. g \in Handlers
      BY <1>12 DEF Contract
    <2> HIDE DEF g
    <2>2. EndBatch(g).writes = <<>> \o Append(<<>>, [what |-> "progress", job |-> j, value |-> Busy])
      BY <1>13, <1>14, <2>1 DEF EndBatch, Handlers
    <2> QED
      BY <2>2, PollWrites
  <1> HIDE DEF h, g
  <1>16. c => Calmly(g, followed)
    <2> SUFFICES ASSUME c PROVE Calmly(g, followed)
      OBVIOUS
    <2>1. Calmly(Start, followed)
      BY <1>4 DEF Sound, c
    <2>2. /\ \A i \in Jobs : queue[i] # None <=> slot[i].state = "open"
          /\ Alone(queue) /\ Led(queue)
          /\ \A i, l \in Jobs : (followed[i] = l \/ Named(<<>>, i, l)) /\ queue[i] # None =>
                queue[i].leader = l \/ slot[l].state = "cancelled"
      BY <2>1, StartIs DEF Calmly
    <2>3. queue[j].leader = None
      BY <1>1, <2>2 DEF Led
    <2>4. \A i \in Jobs : (g.queue[i] # None <=> queue[i] # None) /\ (queue[i] # None => g.queue[i].leader = queue[i].leader)
      <3> TAKE i \in Jobs
      <3>1. CASE i = j
        BY <1>1, <1>8, <1>13, <2>3, <3>1
      <3>2. CASE i # j
        BY <1>13, <3>2
      <3> QED
        BY <3>1, <3>2
    <2>5. Alone(g.queue)
      BY <2>2, <2>4 DEF Alone
    <2>6. Led(g.queue)
      <3> SUFFICES ASSUME NEW i \in Jobs, g.queue[i] # None, g.queue[i].leader # None
                   PROVE  /\ g.queue[i].phase = "shared" /\ g.queue[g.queue[i].leader] # None
                          /\ g.queue[g.queue[i].leader].leader = None
        BY DEF Led
      <3>1. i # j /\ g.queue[i] = queue[i]
        BY <1>8, <1>13
      <3>2. queue[i].phase = "shared" /\ queue[queue[i].leader] # None /\ queue[queue[i].leader].leader = None
        BY <2>2, <3>1 DEF Led
      <3>3. queue[i].leader \in Jobs
        <4>1. queue[i] \in Entries
          BY <1>10, <3>1
        <4> QED
          BY <3>1, <4>1 DEF Entries
      <3> QED
        BY <2>4, <3>1, <3>2, <3>3
    <2> QED
      BY <1>13, <2>2, <2>4, <2>5, <2>6 DEF Calmly
  <1>17. AllLone => Kept(g.queue, g.cursor, OpenOf(g)) /\ Due(g.writes, disk)
    <2> SUFFICES ASSUME AllLone PROVE Kept(g.queue, g.cursor, OpenOf(g)) /\ Due(g.writes, disk)
      OBVIOUS
    <2>1. Kept(queue, cursor, OpenOf(Start))
      BY <1>4, StartIs DEF Sound
    <2>2. OpenOf(g) = OpenOf(Start)
      BY <1>13, StartIs DEF OpenOf
    <2>3. \A i \in Jobs : g.queue[i] # None <=> queue[i] # None
      BY <1>1, <1>8, <1>13
    <2>4. \A i \in OpenOf(g) : i \in Jobs
      BY DEF OpenOf
    <2>5. Kept(g.queue, g.cursor, OpenOf(g))
      BY <1>13, <2>1, <2>2, <2>3, <2>4 DEF Kept
    <2> QED
      BY <1>13, <2>5, NoWrites
  <1>18. k => \A i \in OpenOf(g) : g.queue[i] # None
    BY <1>4, <1>8, <1>13, StartIs DEF Sound, OpenOf
  <1>19. Sound(g, k)
    BY <1>12, <1>16, <1>17, <1>18 DEF Sound, c, g
  <1>20. Finishes(B, g, k)
    BY <1>3, <1>5, <1>6, <1>13, <1>15, ReplyFinishes
  <1>21. planned \subseteq g.planned
    BY <1>13
  <1> HIDE DEF B
  <1> QED
    BY <1>1, <1>19, <1>20, <1>21, BeginKeeps

-----------------------------------------------------------------------------
(* One write of a handler.                                                 *)

(* V are the writes that are left of W after its first one, w.              *)
Rest(W, w, V) ==
    /\ Len(W) \in Nat /\ Len(V) \in Nat /\ Len(W) = Len(V) + 1
    /\ DOMAIN W = 1..Len(W) /\ DOMAIN V = 1..Len(V)
    /\ W[1] = w /\ 1 \in DOMAIN W
    /\ \A i \in DOMAIN V : i + 1 \in DOMAIN W /\ V[i] = W[i + 1]
    /\ \A i \in DOMAIN W : i = 1 \/ (i - 1 \in DOMAIN V /\ V[i - 1] = W[i])

(* The first write and the others.                                         *)
LEMMA TailIs ==
    ASSUME NEW T, NEW W \in Seq(T), W # <<>>
    PROVE  Rest(W, Head(W), Tail(W)) /\ Tail(W) \in Seq(T) /\ Head(W) \in T
  <1> DEFINE V == Tail(W)
             w == Head(W)
  <1>1. /\ w \in T /\ V \in Seq(T) /\ Len(V) = Len(W) - 1
        /\ \A i \in 1..Len(V) : V[i] = W[i + 1]
    BY HeadTailProperties
  <1>2. w = W[1]
    OBVIOUS
  <1>3. /\ Len(W) \in Nat /\ DOMAIN W = 1..Len(W) /\ Len(V) \in Nat /\ DOMAIN V = 1..Len(V)
    BY <1>1, LenProperties
  <1> HIDE DEF V, w
  <1>4. Len(W) = Len(V) + 1 /\ 1 \in DOMAIN W
    BY <1>1, <1>3
  <1>5. \A i \in DOMAIN V : i + 1 \in DOMAIN W /\ V[i] = W[i + 1]
    <2>1. \A i \in 1..Len(V) : i + 1 \in 1..Len(W)
      BY <1>3, <1>4
    <2> QED
      BY <1>1, <1>3, <2>1
  <1>6. \A i \in DOMAIN W : i = 1 \/ (i - 1 \in DOMAIN V /\ V[i - 1] = W[i])
    <2> SUFFICES ASSUME NEW i \in DOMAIN W, i # 1 PROVE i - 1 \in DOMAIN V /\ V[i - 1] = W[i]
      OBVIOUS
    <2>1. i - 1 \in 1..Len(V) /\ (i - 1) + 1 = i
      BY <1>3, <1>4
    <2> QED
      BY <1>1, <1>3, <2>1
  <1> QED
    BY <1>1, <1>2, <1>3, <1>4, <1>5, <1>6 DEF Rest, V, w

(* What is said of W, said of w and V.                                      *)
Splits(W, w, V) ==
    /\ \A r : Made(W, r) <=> Makes(w, r) \/ Made(V, r)
    /\ \A j : Ended(W, j) <=> Ends(w, j) \/ Ended(V, j)
    /\ \A j, l : Named(W, j, l) <=> (Makes(w, RoundOf[j]) /\ w.value[j].leader = l) \/ Named(V, j, l)
    /\ \A j : KeepsAll(W, j) <=> Keeps(w, j) /\ KeepsAll(V, j)
    /\ \A s, j : Cancelled(s, W, j) <=> Cancelled(s, V, j) \/ (Ends(w, j) /\ w.value.state = "cancelled")
    /\ Plain(W) <=> (w.what = "progress" => w.value.leader = None) /\ Plain(V)
    /\ Original(W) => Original(V)
    /\ \A j : Replies(W, j) <=> (w.what = "save" /\ w.reply = j) \/ Replies(V, j)
    /\ \A j : Marked(W, j) <=> (w.what = "progress" /\ w.job = j) \/ Marked(V, j)
    /\ Throws(W) <=> w.what = "throw" \/ Throws(V)
    /\ Recovering(W) <=> w.what = "recovered" \/ Recovering(V)

(* What is said of all writes, said of the first and the others.           *)
LEMMA RestSplits ==
    ASSUME NEW W, NEW w, NEW V, Rest(W, w, V)
    PROVE  Splits(W, w, V)
  <1>0. /\ 1 \in DOMAIN W /\ W[1] = w
        /\ \A i \in DOMAIN V : \E m \in DOMAIN W : W[m] = V[i]
        /\ \A i \in DOMAIN W : W[i] = w \/ \E m \in DOMAIN V : V[m] = W[i]
    BY DEF Rest
  <1>1. \A r : Made(W, r) <=> Makes(w, r) \/ Made(V, r)
    BY <1>0 DEF Made
  <1>2. \A j : Ended(W, j) <=> Ends(w, j) \/ Ended(V, j)
    BY <1>0 DEF Ended
  <1>3. ASSUME NEW j, NEW l
        PROVE  Named(W, j, l) <=> (Makes(w, RoundOf[j]) /\ w.value[j].leader = l) \/ Named(V, j, l)
    <2>1. Named(W, j, l) => (Makes(w, RoundOf[j]) /\ w.value[j].leader = l) \/ Named(V, j, l)
      BY <1>0 DEF Named
    <2>2. (Makes(w, RoundOf[j]) /\ w.value[j].leader = l) => Named(W, j, l)
      BY <1>0 DEF Named
    <2>3. Named(V, j, l) => Named(W, j, l)
      BY <1>0 DEF Named
    <2> QED
      BY <2>1, <2>2, <2>3
  <1>4. ASSUME NEW j PROVE KeepsAll(W, j) <=> Keeps(w, j) /\ KeepsAll(V, j)
    BY <1>0 DEF KeepsAll
  <1>5. ASSUME NEW s, NEW j
        PROVE  Cancelled(s, W, j) <=> Cancelled(s, V, j) \/ (Ends(w, j) /\ w.value.state = "cancelled")
    <2>1. Cancelled(s, W, j) => Cancelled(s, V, j) \/ (Ends(w, j) /\ w.value.state = "cancelled")
      BY <1>0 DEF Cancelled
    <2>2. Cancelled(s, V, j) => Cancelled(s, W, j)
      BY <1>0 DEF Cancelled
    <2>3. (Ends(w, j) /\ w.value.state = "cancelled") => Cancelled(s, W, j)
      BY <1>0 DEF Cancelled
    <2> QED
      BY <2>1, <2>2, <2>3
  <1>6. Plain(W) <=> (w.what = "progress" => w.value.leader = None) /\ Plain(V)
    BY <1>0 DEF Plain
  <1>7. Original(W) => Original(V)
    BY <1>0 DEF Original
  <1>8. ASSUME NEW j PROVE Replies(W, j) <=> (w.what = "save" /\ w.reply = j) \/ Replies(V, j)
    BY <1>0 DEF Replies
  <1>9. ASSUME NEW j PROVE Marked(W, j) <=> (w.what = "progress" /\ w.job = j) \/ Marked(V, j)
    BY <1>0 DEF Marked
  <1>10. Throws(W) <=> w.what = "throw" \/ Throws(V)
    BY <1>0 DEF Throws
  <1>11. Recovering(W) <=> w.what = "recovered" \/ Recovering(V)
    BY <1>0 DEF Recovering
  <1> QED
    BY <1>1, <1>2, <1>3, <1>4, <1>5, <1>6, <1>7, <1>8, <1>9, <1>10, <1>11 DEF Splits

(* Slots s2 are slots s after write w.                                     *)
After(s, w, s2) ==
    \A j \in Jobs : /\ Makes(w, RoundOf[j]) => s2[j].state = "open"
                    /\ Ends(w, j) => s2[j].state = w.value.state /\ w.value.state \notin {"open", "none"}
                    /\ ~Makes(w, RoundOf[j]) /\ ~Ends(w, j) => s2[j] = s[j]

(* Orderly writes: a round is made once, and its slots end after that.      *)
FirstOf(s, w, V) ==
    \A j \in Jobs : /\ Makes(w, RoundOf[j]) => s[j].state = "none" /\ ~Made(V, RoundOf[j])
                    /\ Ends(w, j) => s[j].state = "open" /\ ~Ended(V, j) /\ ~Made(V, RoundOf[j])

(* The first of some orderly writes.                                       *)
LEMMA OrderlyFirst ==
    ASSUME NEW W, NEW w, NEW V, Rest(W, w, V), NEW s, Orderly(s, W)
    PROVE  FirstOf(s, w, V)
  <1> SUFFICES ASSUME NEW j \in Jobs
               PROVE  /\ Makes(w, RoundOf[j]) => s[j].state = "none" /\ ~Made(V, RoundOf[j])
                      /\ Ends(w, j) => s[j].state = "open" /\ ~Ended(V, j) /\ ~Made(V, RoundOf[j])
    BY DEF FirstOf
  <1>1. Makes(w, RoundOf[j]) => s[j].state = "none"
    BY DEF Rest, Orderly
  <1>2. Ends(w, j) => s[j].state = "open"
    <2>1. 1..(1 - 1) = {}
      OBVIOUS
    <2> QED
      BY <2>1 DEF Rest, Orderly
  <1>3. ASSUME NEW i \in DOMAIN V
        PROVE  /\ Makes(V[i], RoundOf[j]) => ~Makes(w, RoundOf[j]) /\ ~Ends(w, j)
               /\ Ends(V[i], j) => ~Ends(w, j)
    <2>1. i + 1 \in DOMAIN W /\ V[i] = W[i + 1] /\ 1 \in 1..((i + 1) - 1) /\ W[1] = w
      BY DEF Rest
    <2> QED
      BY <2>1 DEF Orderly
  <1>4. Makes(w, RoundOf[j]) => ~Made(V, RoundOf[j])
    BY <1>3 DEF Made
  <1>5. Ends(w, j) => ~Ended(V, j) /\ ~Made(V, RoundOf[j])
    BY <1>3 DEF Made, Ended
  <1> QED
    BY <1>1, <1>2, <1>4, <1>5

(* A write changes nothing of what the slots will be.                      *)
LEMMA SameInTheEnd ==
    ASSUME NEW W, NEW w, NEW V, Splits(W, w, V), NEW s, NEW s2, FirstOf(s, w, V), After(s, w, s2),
           NEW j \in Jobs
    PROVE  /\ Opened(s2, V, j) <=> Opened(s, W, j)
           /\ Unmade(s2, V, j) <=> Unmade(s, W, j)
           /\ Cancelled(s2, V, j) <=> Cancelled(s, W, j)
  <1>1. /\ Made(W, RoundOf[j]) <=> Makes(w, RoundOf[j]) \/ Made(V, RoundOf[j])
        /\ Ended(W, j) <=> Ends(w, j) \/ Ended(V, j)
        /\ \A t : Cancelled(t, W, j) <=> Cancelled(t, V, j) \/ (Ends(w, j) /\ w.value.state = "cancelled")
    BY DEF Splits
  <1>2. /\ Makes(w, RoundOf[j]) => s[j].state = "none" /\ ~Made(V, RoundOf[j])
        /\ Ends(w, j) => s[j].state = "open" /\ ~Ended(V, j) /\ ~Made(V, RoundOf[j])
    BY DEF FirstOf
  <1>3. /\ Makes(w, RoundOf[j]) => s2[j].state = "open"
        /\ Ends(w, j) => s2[j].state = w.value.state /\ w.value.state \notin {"open", "none"}
        /\ ~Makes(w, RoundOf[j]) /\ ~Ends(w, j) => s2[j] = s[j]
    BY DEF After
  <1>4. Opened(s2, V, j) <=> Opened(s, W, j)
    <2>1. ~(Makes(w, RoundOf[j]) /\ Ends(w, j))
      BY DEF Makes, Ends
    <2> QED
      BY <1>1, <1>2, <1>3, <2>1 DEF Opened
  <1>5. Unmade(s2, V, j) <=> Unmade(s, W, j)
    BY <1>1, <1>2, <1>3 DEF Unmade
  <1>6. Cancelled(s2, V, j) <=> Cancelled(s, W, j)
    <2> DEFINE later == \E i \in DOMAIN V : Ends(V[i], j) /\ V[i].value.state = "cancelled"
    <2>1. /\ Cancelled(s2, V, j) <=> s2[j].state = "cancelled" \/ later
          /\ Cancelled(s, V, j) <=> s[j].state = "cancelled" \/ later
      BY DEF Cancelled
    <2> HIDE DEF later
    <2> QED
      BY <1>1, <1>2, <1>3, <2>1
  <1> QED
    BY <1>4, <1>5, <1>6

(* The rest of orderly writes is orderly.                                  *)
LEMMA OrderlyRest ==
    ASSUME NEW W, NEW w, NEW V, Rest(W, w, V), NEW s, NEW s2, Orderly(s, W), After(s, w, s2)
    PROVE  Orderly(s2, V)
  <1> SUFFICES ASSUME NEW i \in DOMAIN V, NEW j \in Jobs
               PROVE  /\ Makes(V[i], RoundOf[j]) =>
                            /\ s2[j].state = "none"
                            /\ \A m \in 1..(i - 1) : ~Makes(V[m], RoundOf[j]) /\ ~Ends(V[m], j)
                      /\ Ends(V[i], j) =>
                            /\ s2[j].state = "open" \/ \E m \in 1..(i - 1) : Makes(V[m], RoundOf[j])
                            /\ \A m \in 1..(i - 1) : ~Ends(V[m], j)
    BY DEF Orderly
  <1>1. /\ Len(V) \in Nat /\ DOMAIN V = 1..Len(V) /\ i \in 1..Len(V) /\ W[1] = w
        /\ i + 1 \in DOMAIN W /\ V[i] = W[i + 1] /\ (i + 1) - 1 = i
    BY DEF Rest
  <1>2. \A m \in 1..(i - 1) : m + 1 \in 1..i /\ V[m] = W[m + 1]
    <2>1. \A m \in 1..(i - 1) : m \in DOMAIN V /\ m + 1 \in 1..i
      BY <1>1
    <2> QED
      BY <2>1 DEF Rest
  <1>3. \A m \in 1..i : m = 1 \/ (m - 1 \in 1..(i - 1) /\ W[m] = V[m - 1])
    <2> TAKE m \in 1..i
    <2>1. m # 1 => m - 1 \in 1..(i - 1) /\ (m - 1) + 1 = m
      BY <1>1
    <2> QED
      BY <1>2, <2>1
  <1>4. 1 \in 1..i
    BY <1>1
  <1>5. /\ Makes(V[i], RoundOf[j]) => /\ s[j].state = "none"
                                      /\ \A m \in 1..i : ~Makes(W[m], RoundOf[j]) /\ ~Ends(W[m], j)
        /\ Ends(V[i], j) => /\ s[j].state = "open" \/ \E m \in 1..i : Makes(W[m], RoundOf[j])
                            /\ \A m \in 1..i : ~Ends(W[m], j)
    BY <1>1 DEF Orderly
  <1>6. /\ Makes(w, RoundOf[j]) => s2[j].state = "open"
        /\ ~Makes(w, RoundOf[j]) /\ ~Ends(w, j) => s2[j] = s[j]
    BY DEF After
  <1>7. Makes(V[i], RoundOf[j]) =>
            s2[j].state = "none" /\ \A m \in 1..(i - 1) : ~Makes(V[m], RoundOf[j]) /\ ~Ends(V[m], j)
    BY <1>1, <1>2, <1>4, <1>5, <1>6
  <1>8. ASSUME Ends(V[i], j)
        PROVE  /\ s2[j].state = "open" \/ \E m \in 1..(i - 1) : Makes(V[m], RoundOf[j])
               /\ \A m \in 1..(i - 1) : ~Ends(V[m], j)
    <2>1. ~Ends(w, j) /\ \A m \in 1..(i - 1) : ~Ends(V[m], j)
      BY <1>1, <1>2, <1>4, <1>5, <1>8
    <2>2. CASE Makes(w, RoundOf[j])
      BY <1>6, <2>1, <2>2
    <2>3. CASE ~Makes(w, RoundOf[j])
      BY <1>1, <1>3, <1>5, <1>6, <1>8, <2>1, <2>3
    <2> QED
      BY <2>2, <2>3
  <1> QED
    BY <1>7, <1>8

(* The other rounds of a suite have ended before a round is made.          *)
LEMMA SingleRest ==
    ASSUME NEW W, NEW w, NEW V, Rest(W, w, V), NEW s, NEW s2, Orderly(s, W), Single(s, W), After(s, w, s2)
    PROVE  Single(s2, V)
  <1> SUFFICES ASSUME NEW i \in DOMAIN V, NEW r \in Rounds, Makes(V[i], r), NEW j \in Jobs, Rival(r, j),
                      s2[j].state = "open" \/ \E m \in 1..(i - 1) : Makes(V[m], RoundOf[j])
               PROVE  \E m \in 1..(i - 1) : Ends(V[m], j)
    BY DEF Single
  <1>1. /\ Len(V) \in Nat /\ DOMAIN V = 1..Len(V) /\ i \in 1..Len(V) /\ W[1] = w
        /\ i + 1 \in DOMAIN W /\ V[i] = W[i + 1] /\ (i + 1) - 1 = i
    BY DEF Rest
  <1>2. \A m \in 1..(i - 1) : m \in DOMAIN V /\ m + 1 \in 1..i /\ V[m] = W[m + 1]
    <2>1. \A m \in 1..(i - 1) : m \in DOMAIN V /\ m + 1 \in 1..i
      BY <1>1
    <2> QED
      BY <2>1 DEF Rest
  <1>3. \A m \in 1..i : m = 1 \/ (m - 1 \in 1..(i - 1) /\ W[m] = V[m - 1])
    <2> TAKE m \in 1..i
    <2>1. m # 1 => m - 1 \in 1..(i - 1) /\ (m - 1) + 1 = m
      BY <1>1
    <2> QED
      BY <1>2, <2>1
  <1>4. 1 \in 1..i
    BY <1>1
  <1>5. FirstOf(s, w, V)
    BY OrderlyFirst
  <1>6. /\ Makes(w, RoundOf[j]) => s2[j].state = "open"
        /\ Ends(w, j) => s2[j].state # "open" /\ ~Made(V, RoundOf[j])
        /\ ~Makes(w, RoundOf[j]) /\ ~Ends(w, j) => s2[j] = s[j]
    BY <1>5 DEF After, FirstOf
  <1>7. ~Ends(w, j)
    BY <1>2, <1>6 DEF Made
  <1>8. s[j].state = "open" \/ \E m \in 1..i : Makes(W[m], RoundOf[j])
    <2>1. CASE s2[j].state = "open"
      BY <1>1, <1>4, <1>6, <1>7, <2>1
    <2>2. CASE \E m \in 1..(i - 1) : Makes(V[m], RoundOf[j])
      BY <1>2, <2>2
    <2> QED
      BY <2>1, <2>2
  <1>9. \E m \in 1..i : Ends(W[m], j)
    BY <1>1, <1>8 DEF Single
  <1> QED
    BY <1>1, <1>3, <1>7, <1>9

(* The first write of a handler that is made.                              *)
LEMMA ClosedRest ==
    ASSUME NEW W, Closed(W), W # <<>>, Head(W).what \notin {"save", "throw"}
    PROVE  /\ Rest(W, Head(W), Tail(W)) /\ Closed(Tail(W))
           /\ Head(W) \in Writes \/ (Head(W) \in Endings /\ Head(W).what = "recovered")
           /\ Unsaved(Tail(W)) => Unsaved(W)
  <1> DEFINE T == Writes \cup Endings
             V == Tail(W)
             w == Head(W)
  <1>1. W \in Seq(T)
    BY DEF Closed
  <1> HIDE DEF T
  <1>2. Rest(W, w, V) /\ V \in Seq(T) /\ w \in T
    BY <1>1, TailIs
  <1> HIDE DEF V, w
  <1>3. w \in Writes \/ (w \in Endings /\ w.what = "recovered")
    BY <1>2, EndingKinds DEF T, w
  <1>4. \A i \in DOMAIN V : V[i].what \in {"save", "throw"} => i = Len(V)
    <2> SUFFICES ASSUME NEW i \in DOMAIN V, V[i].what \in {"save", "throw"} PROVE i = Len(V)
      OBVIOUS
    <2>1. i + 1 \in DOMAIN W /\ V[i] = W[i + 1] /\ i \in 1..Len(V) /\ Len(V) \in Nat /\ Len(W) = Len(V) + 1
      BY <1>2 DEF Rest
    <2>2. i + 1 = Len(W)
      BY <2>1 DEF Closed
    <2> QED
      BY <2>1, <2>2
  <1>5. V # <<>> => V[Len(V)] = W[Len(W)]
    <2> SUFFICES ASSUME V # <<>> PROVE V[Len(V)] = W[Len(W)]
      OBVIOUS
    <2>1. Len(V) # 0
      BY <1>2, EmptySeq
    <2>2. Len(V) \in DOMAIN V /\ Len(W) = Len(V) + 1
      BY <1>2, <2>1 DEF Rest
    <2> QED
      BY <1>2, <2>2 DEF Rest
  <1>6. V = <<>> => W[Len(W)] = w
    <2>1. V = <<>> => Len(V) = 0
      OBVIOUS
    <2> QED
      BY <1>2, <2>1 DEF Rest
  <1>7. W[Len(W)].what \in {"save", "throw", "recovered"}
    BY DEF Closed
  <1>8. Closed(V)
    BY <1>2, <1>4, <1>5, <1>7 DEF Closed, T
  <1>9. Unsaved(V) => Unsaved(W)
    BY <1>5, <1>6, <1>7 DEF Unsaved, w
  <1> QED
    BY <1>2, <1>3, <1>8, <1>9 DEF V, w

(* What a write leaves of the slots and manifests.                         *)
WrittenSlots(w, s2) ==
    /\ s2 \in [Jobs -> Slots] /\ After(slot, w, s2)
WrittenCopies(w, v2, f2) ==
    /\ v2 \in [Jobs -> Entries]
    /\ \A j \in Jobs : v2[j] = IF Makes(w, RoundOf[j]) THEN w.value[j]
                               ELSE IF w.what = "progress" /\ w.job = j /\ slot[j].state = "open" THEN w.value
                               ELSE saved[j]
    /\ f2 \in [Jobs -> Jobs \cup {None}]
    /\ \A j \in Jobs : f2[j] = IF v2[j].leader # None THEN v2[j].leader ELSE followed[j]

(* One write: the slots.                                                   *)
LEMMA WriteSlots ==
    ASSUME TypeOK, Write, Head(todo) \in Writes \/ (Head(todo) \in Endings /\ Head(todo).what = "recovered")
    PROVE  WrittenSlots(Head(todo), slot')
  <1> DEFINE w == Head(todo)
  <1>1. slot' = CASE w.what = "create" ->
                         [j \in Jobs |-> IF RoundOf[j] = w.round THEN [state |-> "open", of |-> j]
                                         ELSE slot[j]]
                    [] w.what = "complete" -> [slot EXCEPT ![w.job] = w.value]
                    [] OTHER -> slot
    BY DEF Write
  <1>2. slot \in [Jobs -> Slots]
    BY DEF TypeOK, Slots
  <1>3. w \in Writes \/ (w \in Endings /\ w.what = "recovered")
    OBVIOUS
  <1> SUFFICES WrittenSlots(w, slot')
    OBVIOUS
  <1> HIDE DEF w
  <1>4. CASE w \in Creations /\ w.what = "create"
    <2>1. slot' = [j \in Jobs |-> IF RoundOf[j] = w.round THEN [state |-> "open", of |-> j] ELSE slot[j]]
      BY <1>1, <1>4
    <2>2. \A j \in Jobs : [state |-> "open", of |-> j] \in Slots
      BY DEF Slots
    <2>3. slot' \in [Jobs -> Slots]
      BY <1>2, <2>1, <2>2
    <2>4. After(slot, w, slot')
      BY <1>4, <2>1 DEF After, Makes, Ends
    <2> QED
      BY <2>3, <2>4 DEF WrittenSlots
  <1>5. CASE w \in Completions /\ w.what = "complete"
    <2>1. slot' = [slot EXCEPT ![w.job] = w.value]
      BY <1>1, <1>5
    <2>2. w.job \in Jobs /\ w.value \in Slots /\ w.value.state \notin {"open", "none"}
      <3>1. w.job \in Jobs /\ w.value \in Results
        BY <1>5, WriteKinds
      <3>2. w.value.state \in Recorded
        BY <3>1 DEF Results
      <3> QED
        BY <3>1, <3>2 DEF Results, Slots, Recorded
    <2>3. slot' \in [Jobs -> Slots]
      BY <1>2, <2>1, <2>2
    <2>4. After(slot, w, slot')
      BY <1>2, <1>5, <2>1, <2>2 DEF After, Makes, Ends
    <2> QED
      BY <2>3, <2>4 DEF WrittenSlots
  <1>6. CASE w.what \notin {"create", "complete"}
    <2>1. slot' = slot
      BY <1>1, <1>6
    <2> QED
      BY <1>2, <1>6, <2>1 DEF WrittenSlots, After, Makes, Ends
  <1> QED
    BY <1>3, <1>4, <1>5, <1>6, WriteKinds, EndingKinds

(* One write: the copies in the manifests, and what they named.            *)
LEMMA WriteCopies ==
    ASSUME TypeOK, Write, Head(todo) \in Writes \/ (Head(todo) \in Endings /\ Head(todo).what = "recovered")
    PROVE  WrittenCopies(Head(todo), saved', followed')
  <1> DEFINE w == Head(todo)
  <1>1. saved' = CASE w.what = "create" ->
                          [j \in Jobs |-> IF RoundOf[j] = w.round THEN w.value[j] ELSE saved[j]]
                     [] w.what = "progress" /\ slot[w.job].state = "open" ->
                          [saved EXCEPT ![w.job] = w.value]
                     [] OTHER -> saved
    BY DEF Write
  <1>2. followed' = [j \in Jobs |-> IF saved'[j].leader # None THEN saved'[j].leader ELSE followed[j]]
    BY DEF Write
  <1>3. w \in Writes \/ (w \in Endings /\ w.what = "recovered")
    OBVIOUS
  <1>0. saved \in [Jobs -> Entries] /\ followed \in [Jobs -> Jobs \cup {None}]
    BY DEF TypeOK
  <1> HIDE DEF w
  <1>4. /\ saved' \in [Jobs -> Entries]
        /\ \A j \in Jobs : saved'[j] = IF Makes(w, RoundOf[j]) THEN w.value[j]
                               ELSE IF w.what = "progress" /\ w.job = j /\ slot[j].state = "open" THEN w.value
                               ELSE saved[j]
    <2>1. CASE w \in Creations /\ w.what = "create"
      <3>1. saved' = [j \in Jobs |-> IF RoundOf[j] = w.round THEN w.value[j] ELSE saved[j]]
        BY <1>1, <2>1
      <3>2. w.value \in [JobsOf(w.round) -> Entries]
        BY <2>1, WriteKinds
      <3>3. \A j \in Jobs : RoundOf[j] = w.round => w.value[j] \in Entries
        BY <3>2 DEF JobsOf
      <3> QED
        BY <1>0, <2>1, <3>1, <3>3 DEF Makes
    <2>2. CASE w \in Progressions /\ w.what = "progress"
      <3>1. w.job \in Jobs /\ w.value \in Entries
        BY <2>2, WriteKinds
      <3>2. CASE slot[w.job].state = "open"
        <4>1. saved' = [saved EXCEPT ![w.job] = w.value]
          BY <1>1, <2>2, <3>2
        <4> QED
          BY <1>0, <2>2, <3>1, <3>2, <4>1 DEF Makes
      <3>3. CASE slot[w.job].state # "open"
        <4>1. saved' = saved
          BY <1>1, <2>2, <3>3
        <4> QED
          BY <1>0, <2>2, <3>1, <3>3, <4>1 DEF Makes
      <3> QED
        BY <3>2, <3>3
    <2>3. CASE w.what \notin {"create", "progress"}
      <3>1. saved' = saved
        BY <1>1, <2>3
      <3> QED
        BY <1>0, <2>3, <3>1 DEF Makes
    <2> QED
      BY <1>3, <2>1, <2>2, <2>3, WriteKinds
  <1>5. \A j \in Jobs : saved'[j].leader \in Jobs \cup {None}
    BY <1>4 DEF Entries
  <1>6. WrittenCopies(w, saved', followed')
    BY <1>0, <1>2, <1>4, <1>5 DEF WrittenCopies
  <1> QED
    BY <1>6 DEF w

(* One write of a handler keeps the invariant.                             *)
LEMMA WriteKeeps ==
    ASSUME IInv, Write
    PROVE  IInv'
  <1> DEFINE w == Head(todo)
             V == Tail(todo)
             s2 == slot'
             v2 == saved'
             f2 == followed'
             c == calm /\ Room
  <1>1. todo # <<>> /\ w.what \notin {"save", "throw"} /\ todo' = V
    BY DEF Write, Idle
  <1>2. /\ UNCHANGED <<queue, cursor, planned, disk, held, executed, begun, calm, crashes, errors>>
        /\ origin' = (IF w.what = "create" THEN [origin EXCEPT ![w.round] = w.origin] ELSE origin)
        /\ recovered' = (recovered \/ w.what = "recovered")
    BY DEF Write, cache
  <1>3. /\ TypeOK /\ Closed(todo) /\ Orderly(slot, todo) /\ Original(todo)
        /\ Unsaved(todo) => /\ disk.queue = queue /\ disk.cursor = cursor /\ disk.planned = planned
        /\ Room => ~Throws(todo)
    BY DEF IInv, TodoInv
  <1>4. /\ Rest(todo, w, V) /\ Closed(V) /\ (Unsaved(V) => Unsaved(todo))
        /\ w \in Writes \/ (w \in Endings /\ w.what = "recovered")
    BY <1>1, <1>3, ClosedRest
  <1>5. WrittenSlots(w, s2) /\ WrittenCopies(w, v2, f2)
    BY <1>3, <1>4, WriteSlots, WriteCopies
  <1> HIDE DEF w, V, s2, v2, f2, c
  <1>6. Splits(todo, w, V) /\ FirstOf(slot, w, V)
    BY <1>3, <1>4, RestSplits, OrderlyFirst
  <1>7. After(slot, w, s2) /\ s2 \in [Jobs -> Slots]
    BY <1>5 DEF WrittenSlots
  <1>8. \A j \in Jobs : /\ Opened(s2, V, j) <=> Opened(slot, todo, j)
                        /\ Unmade(s2, V, j) <=> Unmade(slot, todo, j)
                        /\ Cancelled(s2, V, j) <=> Cancelled(slot, todo, j)
    BY <1>6, <1>7, SameInTheEnd
  <1>9. /\ v2 \in [Jobs -> Entries] /\ f2 \in [Jobs -> Jobs \cup {None}]
        /\ \A j \in Jobs : v2[j] = IF Makes(w, RoundOf[j]) THEN w.value[j]
                               ELSE IF w.what = "progress" /\ w.job = j /\ slot[j].state = "open" THEN w.value
                               ELSE saved[j]
        /\ \A j \in Jobs : f2[j] = IF v2[j].leader # None THEN v2[j].leader ELSE followed[j]
    BY <1>5 DEF WrittenCopies
  <1>10. \A j \in Jobs : /\ Makes(w, RoundOf[j]) => s2[j].state = "open" /\ slot[j].state = "none"
                         /\ Ends(w, j) => s2[j].state \notin {"open", "none"} /\ slot[j].state = "open"
                         /\ ~Makes(w, RoundOf[j]) /\ ~Ends(w, j) => s2[j] = slot[j]
    BY <1>6, <1>7 DEF After, FirstOf
  <1>11. /\ slot' = s2 /\ saved' = v2 /\ followed' = f2
    BY DEF s2, v2, f2
  <1>12. w.what = "create" => /\ w.round \in Rounds /\ w.origin \in Occurrences \cup {None}
                              /\ w.origin # None => Stable[w.origin] = w.round
    <2> SUFFICES ASSUME w.what = "create"
                 PROVE  /\ w.round \in Rounds /\ w.origin \in Occurrences \cup {None}
                        /\ w.origin # None => Stable[w.origin] = w.round
      OBVIOUS
    <2>1. w \in Creations
      BY <1>4, WriteKinds
    <2>2. w.origin # None => Stable[w.origin] = w.round
      BY <1>3, <1>4 DEF Original, Rest
    <2> QED
      BY <2>1, <2>2, WriteKinds
  <1>13. TypeOK'
    <2>1. origin' \in [Rounds -> Occurrences \cup {None}]
      BY <1>2, <1>3, <1>12 DEF TypeOK
    <2>2. recovered' \in BOOLEAN
      BY <1>2, <1>3 DEF TypeOK
    <2> QED
      BY <1>2, <1>3, <1>7, <1>9, <1>11, <2>1, <2>2 DEF TypeOK, Slots
  <1>14. TodoInv'
    <2>1. Orderly(s2, V)
      BY <1>3, <1>4, <1>7, OrderlyRest
    <2>2. Original(V) /\ (Room => ~Throws(V))
      BY <1>3, <1>6 DEF Splits
    <2> QED
      BY <1>1, <1>2, <1>3, <1>4, <1>11, <2>1, <2>2 DEF TodoInv, Room
  <1>15. OriginInv'
    <2>1. \A r \in Rounds : origin[r] # None => Stable[origin[r]] = r
      BY DEF IInv, OriginInv
    <2> QED
      BY <1>2, <1>3, <1>12, <2>1 DEF OriginInv, TypeOK
  <1>16. KnownInv'
    <2>1. \A j \in Jobs : disk.queue[j] # None => s2[j].state # "none"
      BY <1>10 DEF IInv, KnownInv
    <2>2. \A j \in Jobs : queue[j] # None => ~Unmade(s2, V, j)
      BY <1>8 DEF IInv, KnownInv
    <2> QED
      BY <1>1, <1>2, <1>11, <2>1, <2>2 DEF KnownInv
  <1>17. \A j \in Jobs : /\ Keeps(w, j) => ~Makes(w, RoundOf[j])
                         /\ Keeps(w, j) /\ w.what = "progress" /\ w.job = j => w.value = Busy
    BY DEF Keeps
  <1>18. MeasuredInv'
    <2> SUFFICES ASSUME NEW j \in Jobs
                 PROVE  /\ executed[j] \in {0, 1}
                        /\ executed[j] # 0 =>
                              /\ queue[j] \in {None, Busy} /\ disk.queue[j] \in {None, Busy}
                              /\ s2[j].state # "none" /\ KeepsAll(V, j) /\ ~Replies(V, j)
                              /\ s2[j].state = "open" => v2[j] = Busy
                        /\ Replies(V, j) =>
                              /\ queue[j] = Busy /\ s2[j].state # "none" /\ KeepsAll(V, j)
                              /\ s2[j].state = "open" => v2[j] = Busy \/ Marked(V, j)
      BY <1>1, <1>2, <1>11 DEF MeasuredInv
    <2>1. /\ executed[j] \in {0, 1}
          /\ executed[j] # 0 =>
                /\ queue[j] \in {None, Busy} /\ disk.queue[j] \in {None, Busy}
                /\ slot[j].state # "none" /\ KeepsAll(todo, j) /\ ~Replies(todo, j)
                /\ slot[j].state = "open" => saved[j] = Busy
          /\ Replies(todo, j) =>
                /\ queue[j] = Busy /\ slot[j].state # "none" /\ KeepsAll(todo, j)
                /\ slot[j].state = "open" => saved[j] = Busy \/ Marked(todo, j)
      BY DEF IInv, MeasuredInv
    <2>2. /\ KeepsAll(todo, j) <=> Keeps(w, j) /\ KeepsAll(V, j)
          /\ Replies(V, j) => Replies(todo, j)
          /\ Marked(todo, j) <=> (w.what = "progress" /\ w.job = j) \/ Marked(V, j)
      BY <1>6 DEF Splits
    <2>3. Keeps(w, j) => /\ s2[j].state = "open" => slot[j].state = "open"
                         /\ slot[j].state # "none" => s2[j].state # "none"
                         /\ s2[j].state = "open" /\ saved[j] = Busy => v2[j] = Busy
                         /\ s2[j].state = "open" /\ w.what = "progress" /\ w.job = j => v2[j] = Busy
      BY <1>9, <1>10, <1>17
    <2>4. executed[j] # 0 => /\ s2[j].state # "none" /\ KeepsAll(V, j) /\ ~Replies(V, j)
                             /\ s2[j].state = "open" => v2[j] = Busy
      BY <2>1, <2>2, <2>3
    <2>5. Replies(V, j) => /\ queue[j] = Busy /\ s2[j].state # "none" /\ KeepsAll(V, j)
                           /\ s2[j].state = "open" => v2[j] = Busy \/ Marked(V, j)
      BY <2>1, <2>2, <2>3
    <2> QED
      BY <2>1, <2>4, <2>5
  <1>19. FollowInv'
    BY <1>9, <1>11 DEF FollowInv
  <1>20. \A j \in Jobs : saved[j].leader # None => followed[j] = saved[j].leader
    BY DEF IInv, FollowInv
  <1>21. c => /\ Single(slot, todo) /\ Plain(todo)
              /\ \A j \in Jobs : queue[j] # None <=> Opened(slot, todo, j)
              /\ Alone(queue) /\ Led(queue)
              /\ \A j, l \in Jobs : (followed[j] = l \/ Named(todo, j, l)) /\ queue[j] # None =>
                      queue[j].leader = l \/ Cancelled(slot, todo, l)
              /\ \A j \in Jobs : slot[j].state = "none" => followed[j] = None
              /\ \A j, l \in Jobs : executed[j] # 0 /\ followed[j] = l => slot[l].state = "cancelled"
              /\ \A i, j \in Jobs : slot[i].state = "open" /\ slot[j].state = "open"
                    /\ Scope[RoundOf[i]] = Scope[RoundOf[j]] => RoundOf[i] = RoundOf[j]
    BY DEF IInv, CalmInv, c
  <1>22. CalmInv'
    <2> SUFFICES ASSUME c
                 PROVE  /\ Single(s2, V) /\ Plain(V)
                        /\ \A j \in Jobs : queue[j] # None <=> Opened(s2, V, j)
                        /\ Alone(queue) /\ Led(queue)
                        /\ \A j, l \in Jobs : (f2[j] = l \/ Named(V, j, l)) /\ queue[j] # None =>
                                queue[j].leader = l \/ Cancelled(s2, V, l)
                        /\ \A j \in Jobs : s2[j].state = "none" => f2[j] = None
                        /\ \A j, l \in Jobs : executed[j] # 0 /\ f2[j] = l => s2[l].state = "cancelled"
                        /\ \A i, j \in Jobs : s2[i].state = "open" /\ s2[j].state = "open"
                              /\ Scope[RoundOf[i]] = Scope[RoundOf[j]] => RoundOf[i] = RoundOf[j]
      BY <1>1, <1>2, <1>11 DEF CalmInv, c, Room
    <2>1. Single(s2, V)
      BY <1>3, <1>4, <1>7, <1>21, SingleRest
    <2>2. Plain(V) /\ (w.what = "progress" => w.value.leader = None)
      BY <1>6, <1>21 DEF Splits
    <2>3. \A j \in Jobs : queue[j] # None <=> Opened(s2, V, j)
      BY <1>8, <1>21
    <2>4. \A j, l \in Jobs : f2[j] = l => followed[j] = l \/ (Makes(w, RoundOf[j]) /\ w.value[j].leader = l)
      <3> SUFFICES ASSUME NEW j \in Jobs, NEW l \in Jobs, f2[j] = l, followed[j] # l
                   PROVE  Makes(w, RoundOf[j]) /\ w.value[j].leader = l
        OBVIOUS
      <3>1. v2[j].leader = l /\ l # None
        BY <1>9, Entered
      <3>2. saved[j].leader # l
        BY <1>20, <3>1
      <3> QED
        BY <1>9, <2>2, <3>1, <3>2
    <2>5. ASSUME NEW j \in Jobs, NEW l \in Jobs, f2[j] = l \/ Named(V, j, l), queue[j] # None
          PROVE  queue[j].leader = l \/ Cancelled(s2, V, l)
      <3>1. Named(todo, j, l) <=> (Makes(w, RoundOf[j]) /\ w.value[j].leader = l) \/ Named(V, j, l)
        BY <1>6 DEF Splits
      <3>2. followed[j] = l \/ Named(todo, j, l)
        BY <2>4, <2>5, <3>1
      <3> QED
        BY <1>8, <1>21, <2>5, <3>2
    <2>6. ASSUME NEW j \in Jobs, s2[j].state = "none" PROVE f2[j] = None
      <3>1. ~Makes(w, RoundOf[j]) /\ slot[j].state = "none"
        BY <1>10, <2>6
      <3>2. followed[j] = None /\ v2[j] = saved[j]
        BY <1>9, <1>21, <3>1
      <3> QED
        BY <1>9, <1>20, <3>2
    <2>7. ASSUME NEW j \in Jobs, NEW l \in Jobs, executed[j] # 0, f2[j] = l PROVE s2[l].state = "cancelled"
      <3>1. KeepsAll(todo, j)
        BY <2>7 DEF IInv, MeasuredInv
      <3>2. ~Makes(w, RoundOf[j])
        BY <1>6, <1>17, <3>1 DEF Splits
      <3>3. followed[j] = l
        BY <2>4, <2>7, <3>2
      <3>4. slot[l].state = "cancelled"
        BY <1>21, <2>7, <3>3
      <3> QED
        BY <1>10, <3>4
    <2>8. ASSUME NEW i \in Jobs, NEW j \in Jobs, s2[i].state = "open", s2[j].state = "open",
                 Scope[RoundOf[i]] = Scope[RoundOf[j]]
          PROVE  RoundOf[i] = RoundOf[j]
      <3>1. \A m, n \in Jobs : Makes(w, RoundOf[m]) /\ slot[n].state = "open" /\ Scope[RoundOf[n]] = Scope[RoundOf[m]]
                => RoundOf[n] = RoundOf[m]
        <4> SUFFICES ASSUME NEW m \in Jobs, NEW n \in Jobs, Makes(w, RoundOf[m]), slot[n].state = "open",
                            Rival(RoundOf[m], n)
                     PROVE  FALSE
          BY DEF Rival
        <4>1. RoundOf[m] \in Rounds
          BY RecoveryConstants
        <4>2. 1 \in DOMAIN todo /\ todo[1] = w
          BY <1>4 DEF Rest
        <4>3. \E k \in 1..(1 - 1) : Ends(todo[k], n)
          BY <1>21, <4>1, <4>2 DEF Single
        <4>4. 1..(1 - 1) = {}
          OBVIOUS
        <4> QED
          BY <4>3, <4>4
      <3>2. \A m \in Jobs : s2[m].state = "open" => Makes(w, RoundOf[m]) \/ slot[m].state = "open"
        BY <1>10
      <3>3. Makes(w, RoundOf[i]) /\ Makes(w, RoundOf[j]) => RoundOf[i] = RoundOf[j]
        BY DEF Makes
      <3> QED
        BY <1>21, <2>8, <3>1, <3>2, <3>3
    <2> QED
      BY <1>21, <2>1, <2>2, <2>3, <2>5, <2>6, <2>7, <2>8
  <1>23. KeptInv'
    <2> SUFFICES ASSUME AllLone
                 PROVE  /\ Kept(queue, cursor, {j \in Jobs : Opened(s2, V, j)})
                        /\ Due(V, disk)
                        /\ Kept(disk.queue, disk.cursor, {j \in Jobs : s2[j].state = "open"})
      BY <1>1, <1>2, <1>11 DEF KeptInv, AllLone, Lone, Open
    <2>0. /\ Kept(queue, cursor, {j \in Jobs : Opened(slot, todo, j)})
          /\ Due(todo, disk)
          /\ Kept(disk.queue, disk.cursor, Open)
      BY DEF IInv, KeptInv
    <2>1. {j \in Jobs : Opened(s2, V, j)} = {j \in Jobs : Opened(slot, todo, j)}
      BY <1>8
    <2>2. \A j \in Jobs : Made(todo, RoundOf[j]) <=> Makes(w, RoundOf[j]) \/ Made(V, RoundOf[j])
      BY <1>6 DEF Splits
    <2>3. Due(V, disk)
      BY <2>0, <2>2 DEF Due
    <2>4. Kept(disk.queue, disk.cursor, {j \in Jobs : s2[j].state = "open"})
      <3> SUFFICES ASSUME NEW j \in Jobs, s2[j].state = "open", disk.queue[j] = None
                   PROVE  /\ Awaited(disk.cursor, j)
                          /\ \A i \in Jobs : disk.queue[i] # None => Scope[RoundOf[i]] # Scope[RoundOf[j]]
        BY DEF Kept
      <3>1. CASE Makes(w, RoundOf[j])
        BY <2>0, <2>2, <3>1 DEF Due
      <3>2. CASE slot[j].state = "open"
        BY <2>0, <3>2 DEF Kept, Open
      <3> QED
        BY <1>10, <3>1, <3>2
    <2> QED
      BY <2>0, <2>1, <2>3, <2>4
  <1>24. RecoveredInv'
    <2> SUFFICES ASSUME Room, MaxErrors = 0, recovered \/ w.what = "recovered" \/ Recovering(V),
                        NEW j \in Jobs, Opened(s2, V, j)
                 PROVE  queue[j] # None
      BY <1>1, <1>2, <1>11 DEF RecoveredInv, Room
    <2>1. recovered \/ Recovering(todo)
      BY <1>6 DEF Splits
    <2> QED
      BY <1>8, <2>1 DEF IInv, RecoveredInv
  <1> QED
    BY <1>13, <1>14, <1>15, <1>16, <1>18, <1>19, <1>22, <1>23, <1>24 DEF IInv

-----------------------------------------------------------------------------
(* The save, faults and crashes.                                           *)

(* A handler at its last step has made its writes.                         *)
LEMMA LastStep ==
    ASSUME NEW W, Closed(W), W # <<>>, Head(W).what \in {"save", "throw"}
    PROVE  /\ Head(W).what = "save" => Head(W).reply \in Jobs \cup {None}
           /\ \A r : ~Made(W, r)
           /\ \A j : ~Ended(W, j) /\ ~Marked(W, j)
           /\ \A s, j : /\ Opened(s, W, j) <=> s[j].state = "open"
                        /\ Unmade(s, W, j) <=> s[j].state = "none"
                        /\ Cancelled(s, W, j) <=> s[j].state = "cancelled"
           /\ Head(W).what = "throw" => Throws(W)
           /\ \A j : Head(W).what = "save" => (Replies(W, j) <=> Head(W).reply = j)
  <1> DEFINE w == Head(W)
             T == Writes \cup Endings
  <1>1. W \in Seq(T)
    BY DEF Closed
  <1> HIDE DEF T
  <1>2. Rest(W, w, Tail(W)) /\ w \in T
    BY <1>1, TailIs
  <1>3. 1 \in DOMAIN W /\ W[1] = w /\ DOMAIN W = 1..Len(W)
    BY <1>2 DEF Rest
  <1>4. Len(W) = 1
    BY <1>3 DEF Closed
  <1>5. DOMAIN W = {1}
    BY <1>3, <1>4
  <1>6. w.what = "save" => w.reply \in Jobs \cup {None}
    BY <1>2, WriteKinds DEF T, Endings
  <1> HIDE DEF w
  <1>7. w.what \notin {"create", "complete", "progress"}
    BY DEF w
  <1>8. \A r : ~Made(W, r)
    BY <1>3, <1>5, <1>7 DEF Made, Makes
  <1>9. \A j : ~Ended(W, j) /\ ~Marked(W, j)
    BY <1>3, <1>5, <1>7 DEF Ended, Ends, Marked
  <1>10. \A s, j : Cancelled(s, W, j) <=> s[j].state = "cancelled"
    BY <1>3, <1>5, <1>7 DEF Cancelled, Ends
  <1>11. \A s, j : (Opened(s, W, j) <=> s[j].state = "open") /\ (Unmade(s, W, j) <=> s[j].state = "none")
    BY <1>8, <1>9 DEF Opened, Unmade
  <1>12. w.what = "throw" => Throws(W)
    BY <1>3, <1>5 DEF Throws
  <1>13. \A j : w.what = "save" => (Replies(W, j) <=> w.reply = j)
    BY <1>3, <1>5 DEF Replies
  <1> QED
    BY <1>6, <1>8, <1>9, <1>10, <1>11, <1>12, <1>13 DEF w

(* The save of the queue keeps the invariant.                              *)
LEMMA SaveQueueKeeps ==
    ASSUME IInv, SaveQueue
    PROVE  IInv'
  <1> DEFINE w == Head(todo)
             n == w.reply
             e2 == executed'
             c == calm /\ Room
  <1>1. todo # <<>> /\ w.what = "save" /\ todo' = <<>>
    BY DEF SaveQueue, Idle
  <1>2. /\ UNCHANGED <<slot, saved, origin, queue, cursor, planned, recovered, followed, begun, calm, crashes, errors>>
        /\ disk' = [queue |-> queue, cursor |-> cursor, planned |-> planned]
        /\ IF n = None THEN UNCHANGED <<held, executed>>
           ELSE held' = held \cup {n} /\ executed' = [executed EXCEPT ![n] = @ + 1]
    BY DEF SaveQueue, cache, rounds
  <1>d. disk'.queue = queue /\ disk'.cursor = cursor /\ disk'.planned = planned
    BY <1>2
  <1>3. TypeOK /\ Closed(todo)
    BY DEF IInv, TodoInv
  <1>4. /\ n \in Jobs \cup {None}
        /\ \A j \in Jobs : ~Marked(todo, j) /\ (Replies(todo, j) <=> n = j)
        /\ \A j \in Jobs : /\ Opened(slot, todo, j) <=> slot[j].state = "open"
                           /\ Unmade(slot, todo, j) <=> slot[j].state = "none"
                           /\ Cancelled(slot, todo, j) <=> slot[j].state = "cancelled"
    BY <1>1, <1>3, LastStep
  <1> HIDE DEF n, w, c
  <1>5. /\ e2 \in [Jobs -> Nat] /\ held' \subseteq Jobs
        /\ \A j \in Jobs : e2[j] = IF j = n THEN executed[j] + 1 ELSE executed[j]
    <2>1. CASE n = None
      BY <1>2, <1>3, <2>1, Entered DEF TypeOK
    <2>2. CASE n # None
      BY <1>2, <1>3, <1>4, <2>2 DEF TypeOK
    <2> QED
      BY <2>1, <2>2
  <1> HIDE DEF e2
  <1>6. executed' = e2
    BY DEF e2
  <1>7. TypeOK'
    BY <1>2, <1>d, <1>3, <1>5, <1>6 DEF TypeOK
  <1>8. TodoInv'
    <2>1. Closed(<<>>)
      <3>1. <<>> \in Seq(Writes \cup Endings)
        BY EmptySeq
      <3> QED
        BY <3>1 DEF Closed
    <2> QED
      BY <1>1, <1>2, <1>d, <2>1, NoWrites DEF TodoInv
  <1>9. OriginInv' /\ FollowInv'
    BY <1>2 DEF IInv, OriginInv, FollowInv
  <1>10. KnownInv'
    BY <1>1, <1>2, <1>d, <1>4, NoWrites DEF IInv, KnownInv
  <1>11. MeasuredInv'
    <2> SUFFICES ASSUME NEW j \in Jobs
                 PROVE  /\ e2[j] \in {0, 1}
                        /\ e2[j] # 0 =>
                              /\ queue[j] \in {None, Busy} /\ slot[j].state # "none"
                              /\ slot[j].state = "open" => saved[j] = Busy
      BY <1>1, <1>2, <1>d, <1>6, NoWrites DEF MeasuredInv
    <2>1. /\ executed[j] \in {0, 1}
          /\ executed[j] # 0 => /\ queue[j] \in {None, Busy} /\ slot[j].state # "none" /\ ~Replies(todo, j)
                                /\ slot[j].state = "open" => saved[j] = Busy
          /\ Replies(todo, j) => /\ queue[j] = Busy /\ slot[j].state # "none"
                                 /\ slot[j].state = "open" => saved[j] = Busy \/ Marked(todo, j)
      BY DEF IInv, MeasuredInv
    <2>2. CASE j = n
      <3>1. Replies(todo, j) /\ ~Marked(todo, j)
        BY <1>4, <2>2
      <3>2. executed[j] = 0
        BY <2>1, <3>1
      <3>3. e2[j] = 1
        BY <1>5, <2>2, <3>2
      <3> QED
        BY <2>1, <3>1, <3>3
    <2>3. CASE j # n
      BY <1>5, <2>1, <2>3
    <2> QED
      BY <2>2, <2>3
  <1>12. CalmInv'
    <2> SUFFICES ASSUME c
                 PROVE  /\ \A j \in Jobs : queue[j] # None <=> slot[j].state = "open"
                        /\ Alone(queue) /\ Led(queue)
                        /\ \A j, l \in Jobs : followed[j] = l /\ queue[j] # None =>
                                queue[j].leader = l \/ slot[l].state = "cancelled"
                        /\ \A j \in Jobs : slot[j].state = "none" => followed[j] = None
                        /\ \A j, l \in Jobs : e2[j] # 0 /\ followed[j] = l => slot[l].state = "cancelled"
                        /\ \A i, j \in Jobs : slot[i].state = "open" /\ slot[j].state = "open"
                              /\ Scope[RoundOf[i]] = Scope[RoundOf[j]] => RoundOf[i] = RoundOf[j]
      BY <1>1, <1>2, <1>6, NoWrites DEF CalmInv, c, Room
    <2>1. /\ \A j \in Jobs : queue[j] # None <=> Opened(slot, todo, j)
          /\ Alone(queue) /\ Led(queue)
          /\ \A j, l \in Jobs : followed[j] = l /\ queue[j] # None =>
                  queue[j].leader = l \/ Cancelled(slot, todo, l)
          /\ \A j \in Jobs : slot[j].state = "none" => followed[j] = None
          /\ \A j, l \in Jobs : executed[j] # 0 /\ followed[j] = l => slot[l].state = "cancelled"
          /\ \A i, j \in Jobs : slot[i].state = "open" /\ slot[j].state = "open"
                /\ Scope[RoundOf[i]] = Scope[RoundOf[j]] => RoundOf[i] = RoundOf[j]
      BY DEF IInv, CalmInv, c
    <2>2. ASSUME NEW j \in Jobs, NEW l \in Jobs, e2[j] # 0, followed[j] = l
          PROVE  slot[l].state = "cancelled"
      <3>1. CASE j = n
        <4>1. queue[j] = Busy
          BY <1>4, <3>1 DEF IInv, MeasuredInv
        <4>2. queue[j] # None /\ queue[j].leader # l
          BY <4>1, Entered DEF Busy
        <4> QED
          BY <1>4, <2>1, <2>2, <4>2
      <3>2. CASE j # n
        BY <1>5, <2>1, <2>2, <3>2
      <3> QED
        BY <3>1, <3>2
    <2> QED
      BY <1>4, <2>1, <2>2
  <1>13. KeptInv'
    <2>1. {j \in Jobs : Opened(slot, <<>>, j)} = {j \in Jobs : Opened(slot, todo, j)} /\ Open = {j \in Jobs : Opened(slot, todo, j)}
      BY <1>4, NoWrites DEF Open
    <2>2. AllLone => Kept(queue, cursor, {j \in Jobs : Opened(slot, <<>>, j)}) /\ Due(<<>>, disk') /\ Kept(queue, cursor, Open)
      BY <2>1, NoWrites DEF IInv, KeptInv
    <2>3. slot' = slot /\ todo' = <<>> /\ queue' = queue /\ cursor' = cursor
      BY <1>1, <1>2
    <2> QED
      BY <1>d, <2>2, <2>3 DEF KeptInv, AllLone, Lone, Open
  <1>14. RecoveredInv'
    BY <1>1, <1>2, <1>4, NoWrites DEF IInv, RecoveredInv, Room
  <1> QED
    BY <1>7, <1>8, <1>9, <1>10, <1>11, <1>12, <1>13, <1>14 DEF IInv

(* A handler with no steps left.                                           *)
LEMMA NothingLeft == Closed(<<>>)
  <1>1. <<>> \in Seq(Writes \cup Endings)
    BY EmptySeq
  <1> QED
    BY <1>1 DEF Closed

(* The cache is read again from the disk.                                  *)
LEMMA DropKeeps ==
    ASSUME IInv, Reload, todo' = <<>>,
           UNCHANGED <<slot, saved, origin, disk, held, executed, followed, calm>>,
           recovered' \in BOOLEAN, begun' \subseteq Jobs, crashes' \in 0..MaxCrashes, errors' \in 0..MaxErrors,
           ~(calm /\ Room), Room /\ MaxErrors = 0 => ~recovered'
    PROVE  IInv'
  <1>1. queue' = disk.queue /\ cursor' = disk.cursor /\ planned' = disk.planned
    BY DEF Reload
  <1>2. TypeOK'
    BY <1>1 DEF IInv, TypeOK
  <1>3. TodoInv'
    BY <1>1, NothingLeft, NoWrites DEF TodoInv
  <1>4. OriginInv' /\ FollowInv'
    BY DEF IInv, OriginInv, FollowInv
  <1>5. KnownInv'
    BY <1>1, NoWrites DEF IInv, KnownInv
  <1>6. MeasuredInv'
    BY <1>1, NoWrites DEF IInv, MeasuredInv
  <1>7. CalmInv'
    BY DEF CalmInv, Room
  <1>8. KeptInv'
    <2>1. {j \in Jobs : Opened(slot, <<>>, j)} = Open
      BY NoWrites DEF Open
    <2>2. AllLone => Kept(disk.queue, disk.cursor, {j \in Jobs : Opened(slot, <<>>, j)}) /\ Due(<<>>, disk)
                     /\ Kept(disk.queue, disk.cursor, Open)
      BY <2>1, NoWrites DEF IInv, KeptInv
    <2> QED
      BY <1>1, <2>2 DEF KeptInv, AllLone, Lone, Open
  <1>9. RecoveredInv'
    BY NoWrites DEF RecoveredInv, Room
  <1> QED
    BY <1>2, <1>3, <1>4, <1>5, <1>6, <1>7, <1>8, <1>9 DEF IInv

(* A failed write, and a queue above its capacity.                         *)
LEMMA FailKeeps ==
    ASSUME IInv, Fail
    PROVE  IInv'
  <1>1. /\ todo # <<>> /\ todo' = <<>> /\ Reload
        /\ UNCHANGED <<slot, saved, origin, disk, recovered, held, executed, followed, begun, calm, crashes>>
        /\ IF \/ Head(todo).what = "throw"
              \/ Head(todo).what = "save" /\ Cardinality(Known(Start)) > Capacity
           THEN UNCHANGED errors
           ELSE ~calm /\ errors < MaxErrors /\ errors' = errors + 1
    BY DEF Fail, Idle, rounds
  <1>2. TypeOK /\ Closed(todo) /\ (Room => ~Throws(todo))
    BY DEF IInv, TodoInv
  <1>3. CASE Head(todo).what = "throw" \/ (Head(todo).what = "save" /\ Cardinality(Known(Start)) > Capacity)
    <2>1. ~Room
      <3>1. CASE Head(todo).what = "throw"
        BY <1>1, <1>2, <3>1, LastStep
      <3>2. CASE Cardinality(Known(Start)) > Capacity
        <4> DEFINE K == Known(Start)
        <4>1. K \in SUBSET Jobs
          BY DEF Known
        <4>2. Cardinality(K) > Capacity
          BY <3>2
        <4> HIDE DEF K
        <4>3. IsFiniteSet(Jobs) /\ Cardinality(Jobs) \in Nat
          BY RecoveryConstants, FS_CardinalityType
        <4>4. Cardinality(K) <= Cardinality(Jobs) /\ Cardinality(K) \in Nat
          BY <4>1, <4>3, FS_Subset, JobsCounted
        <4> QED
          BY <4>2, <4>3, <4>4, RecoveryConstants DEF Room
      <3> QED
        BY <1>3, <3>1, <3>2
    <2>2. errors' = errors
      BY <1>1, <1>3
    <2>3. recovered' \in BOOLEAN /\ begun' \subseteq Jobs /\ crashes' \in 0..MaxCrashes /\ errors' \in 0..MaxErrors
      BY <1>1, <1>2, <2>2 DEF TypeOK
    <2> QED
      BY <1>1, <2>1, <2>3, DropKeeps
  <1>4. CASE ~(Head(todo).what = "throw" \/ (Head(todo).what = "save" /\ Cardinality(Known(Start)) > Capacity))
    <2>1. ~calm /\ errors < MaxErrors /\ errors' = errors + 1
      BY <1>1, <1>4
    <2>2. errors' \in 0..MaxErrors /\ MaxErrors # 0
      BY <1>2, <2>1, RecoveryConstants DEF TypeOK
    <2>3. recovered' \in BOOLEAN /\ begun' \subseteq Jobs /\ crashes' \in 0..MaxCrashes
      BY <1>1, <1>2 DEF TypeOK
    <2> QED
      BY <1>1, <2>1, <2>2, <2>3, DropKeeps
  <1> QED
    BY <1>3, <1>4

(* The end of the process keeps the invariant.                             *)
LEMMA CrashKeeps ==
    ASSUME IInv, Crash
    PROVE  IInv'
  <1>1. /\ ~calm /\ crashes < MaxCrashes /\ crashes' = crashes + 1
        /\ Reload /\ todo' = <<>> /\ recovered' = FALSE /\ begun' = Open
        /\ UNCHANGED <<slot, saved, origin, disk, held, executed, followed, calm, errors>>
    BY DEF Crash, rounds
  <1>2. TypeOK
    BY DEF IInv
  <1>3. /\ recovered' \in BOOLEAN /\ begun' \subseteq Jobs
        /\ crashes' \in 0..MaxCrashes /\ errors' \in 0..MaxErrors
    <2>1. crashes \in 0..MaxCrashes /\ errors \in 0..MaxErrors /\ MaxCrashes \in Nat
      BY <1>2, RecoveryConstants DEF TypeOK
    <2>2. crashes' \in 0..MaxCrashes
      BY <1>1, <2>1
    <2>3. begun' \subseteq Jobs
      BY <1>1 DEF Open
    <2> QED
      BY <1>1, <2>1, <2>2, <2>3
  <1> QED
    BY <1>1, <1>3, DropKeeps

(* The invariant holds at first.                                           *)
LEMMA InitHolds ==
    ASSUME Init
    PROVE  IInv
  <1>0. /\ slot = [j \in Jobs |-> [state |-> "none", of |-> j]] /\ saved = [j \in Jobs |-> Waits]
        /\ queue = [j \in Jobs |-> None] /\ todo = <<>> /\ executed = [j \in Jobs |-> 0]
        /\ followed = [j \in Jobs |-> None] /\ origin = [r \in Rounds |-> None]
        /\ disk.queue = queue /\ disk.cursor = {} /\ disk.planned = planned /\ cursor = {}
        /\ planned \in SUBSET Occurrences /\ recovered = FALSE /\ held = {} /\ begun = {} /\ calm \in BOOLEAN
        /\ crashes = 0 /\ errors = 0
    BY DEF Init, Waits
  <1>1. TypeOK
    <2>1. \A j \in Jobs : [state |-> "none", of |-> j] \in [state : Recorded \cup {"none", "open"}, of : Jobs]
      OBVIOUS
    <2>2. saved \in [Jobs -> Entries]
      BY <1>0, Entered
    <2>3. /\ slot \in [Jobs -> [state : Recorded \cup {"none", "open"}, of : Jobs]]
          /\ origin \in [Rounds -> Occurrences \cup {None}]
          /\ queue \in [Jobs -> Entries \cup {None}] /\ disk.queue \in [Jobs -> Entries \cup {None}]
          /\ executed \in [Jobs -> Nat] /\ followed \in [Jobs -> Jobs \cup {None}]
      BY <1>0, <2>1
    <2>4. crashes \in 0..MaxCrashes /\ errors \in 0..MaxErrors
      BY <1>0, RecoveryConstants
    <2>5. /\ cursor \subseteq planned /\ planned \subseteq Occurrences
          /\ disk.cursor \subseteq disk.planned /\ disk.planned \subseteq planned
          /\ recovered \in BOOLEAN /\ held \subseteq Jobs /\ begun \subseteq Jobs /\ calm \in BOOLEAN
      BY <1>0
    <2> QED
      BY <2>2, <2>3, <2>4, <2>5 DEF TypeOK
  <1>2. \A j \in Jobs : slot[j].state = "none" /\ queue[j] = None /\ executed[j] = 0 /\ followed[j] = None
                        /\ saved[j].leader = None
    BY <1>0 DEF Waits
  <1>3. TodoInv
    BY <1>0, NothingLeft, NoWrites DEF TodoInv
  <1>4. OriginInv /\ FollowInv
    BY <1>0, <1>2 DEF OriginInv, FollowInv
  <1>5. KnownInv /\ MeasuredInv
    BY <1>0, <1>2, NoWrites DEF KnownInv, MeasuredInv
  <1>6. CalmInv
    <2>1. \A j \in Jobs : ~Opened(slot, todo, j)
      BY <1>0, <1>2, NoWrites
    <2>2. Alone(queue) /\ Led(queue)
      BY <1>2 DEF Alone, Led
    <2>3. Single(slot, todo) /\ Plain(todo)
      BY <1>0, NoWrites
    <2> QED
      BY <1>2, <2>1, <2>2, <2>3 DEF CalmInv
  <1>7. \A j \in Jobs : ~Opened(slot, todo, j) /\ slot[j].state # "open"
    BY <1>0, <1>2, NoWrites
  <1>8. KeptInv
    BY <1>0, <1>7, NoWrites DEF KeptInv, Kept, Open
  <1>9. RecoveredInv
    BY <1>7 DEF RecoveredInv
  <1> QED
    BY <1>1, <1>3, <1>4, <1>5, <1>6, <1>8, <1>9 DEF IInv

(* Every step keeps the invariant.                                         *)
LEMMA NextKeeps ==
    ASSUME IInv, [Next]_vars
    PROVE  IInv'
  <1>1. CASE TickSome
    BY <1>1, TickKeeps
  <1>2. ASSUME NEW U, DispatchStep(U) PROVE IInv'
    BY <1>2, DispatchKeeps
  <1>3. ASSUME NEW U, NEW r \in Rounds, Run(r, U) PROVE IInv'
    BY <1>3, RunKeeps
  <1>4. ASSUME NEW r \in Rounds, Cancel(r) PROVE IInv'
    BY <1>4, CancelKeeps
  <1>5. ASSUME NEW j \in Jobs, Poll(j) PROVE IInv'
    BY <1>5, PollKeeps
  <1>6. ASSUME NEW j \in Jobs, Result(j) PROVE IInv'
    BY <1>6, ResultKeeps
  <1>7. CASE Write
    BY <1>7, WriteKeeps
  <1>8. CASE SaveQueue
    BY <1>8, SaveQueueKeeps
  <1>9. CASE Fail
    BY <1>9, FailKeeps
  <1>10. CASE Crash
    BY <1>10, CrashKeeps
  <1>11. CASE UNCHANGED vars
    <2>1. UNCHANGED <<slot, saved, origin, queue, cursor, planned, disk, recovered, todo, held, executed, followed,
                      begun, calm, crashes, errors>>
      BY <1>11 DEF vars, rounds, cache
    <2>2. TypeOK' /\ TodoInv'
      BY <2>1 DEF IInv, TypeOK, TodoInv, Room
    <2>3. OriginInv' /\ KnownInv' /\ MeasuredInv' /\ FollowInv'
      BY <2>1 DEF IInv, OriginInv, KnownInv, MeasuredInv, FollowInv
    <2>4. CalmInv'
      BY <2>1 DEF IInv, CalmInv, Room
    <2>5. KeptInv' /\ RecoveredInv'
      BY <2>1 DEF IInv, KeptInv, RecoveredInv, Room, AllLone, Lone, Open
    <2> QED
      BY <2>2, <2>3, <2>4, <2>5 DEF IInv
  <1> QED
    BY <1>1, <1>2, <1>3, <1>4, <1>5, <1>6, <1>7, <1>8, <1>9, <1>10, <1>11 DEF Next

(* In every reachable state the cache, the saved queue and the rounds agree *)
(* on what is open, made and handed out.                                   *)
THEOREM Agreement == Spec => []IInv
  BY InitHolds, NextKeeps, PTL DEF Spec

(* Types of the state, whatever handlers write, fail and recover.           *)
THEOREM TypeCorrect == Spec => []TypeOK
  <1>1. IInv => TypeOK
    BY DEF IInv
  <1> QED
    BY <1>1, Agreement, PTL

(* dispatchRoundId: two rounds are never made for one planned time,         *)
(* whatever cursor is replayed after crashes and failed saves.              *)
THEOREM OneRoundPerOccurrence == Spec => []OccurrenceOnce
  <1>1. IInv => OccurrenceOnce
    BY DEF IInv, OriginInv, OccurrenceOnce
  <1> QED
    BY <1>1, Agreement, PTL

(* recoverJob, poll and finishMany: a measurement that a worker was given   *)
(* is never given out again, through any restart.                          *)
THEOREM OneMeasurement == Spec => []MeasuredOnce
  <1>1. IInv => MeasuredOnce
    BY DEF IInv, MeasuredInv, MeasuredOnce
  <1> QED
    BY <1>1, Agreement, PTL

(* enqueue: where the queue has room for all jobs and nothing fails, a      *)
(* suite, module and server has one unfinished round.                      *)
THEOREM OneUnfinishedRound ==
    ASSUME Cardinality(Jobs) <= Capacity
    PROVE  Spec => []OneUnfinished
  <1>0. Room
    BY DEF Room
  <1>1. IInv => OneUnfinished
    BY <1>0 DEF IInv, CalmInv, OneUnfinished, Open, JobsOf
  <1> QED
    BY <1>1, Agreement, PTL

(* shareJob and finishMany: under the same conditions a job that follows    *)
(* another one is not measured once that one has a result of its own.       *)
THEOREM OneMeasurementShared ==
    ASSUME Cardinality(Jobs) <= Capacity
    PROVE  Spec => []SharedOnce
  <1>0. Room
    BY DEF Room
  <1>1. ASSUME IInv PROVE SharedOnce
    <2> SUFFICES ASSUME calm, NEW f \in Jobs, followed[f] # None, executed[f] > 0
                 PROVE  slot[followed[f]].state # "ok"
      BY DEF SharedOnce
    <2>1. followed[f] \in Jobs /\ executed[f] # 0
      BY <1>1 DEF IInv, TypeOK
    <2>2. slot[followed[f]].state = "cancelled"
      BY <1>0, <1>1, <2>1 DEF IInv, CalmInv
    <2> QED
      BY <2>2
  <1> QED
    BY <1>1, Agreement, PTL

(* tick and the replayed cursor: no unfinished round is forgotten, when     *)
(* each planned suite has one time to come, or when there is room for all   *)
(* jobs and the disk does not fail; the process may end at any moment.      *)
THEOREM NothingForgotten ==
    ASSUME AllLone \/ (Cardinality(Jobs) <= Capacity /\ MaxErrors = 0)
    PROVE  Spec => []OpenIsQueued
  <1>1. ASSUME IInv PROVE OpenIsQueued
    <2> SUFFICES ASSUME Idle, recovered, NEW j \in Open
                 PROVE  queue[j] # None \/ \E o \in cursor : Stable[o] = RoundOf[j]
      BY DEF OpenIsQueued
    <2>1. j \in Jobs /\ Opened(slot, todo, j)
      BY NoWrites DEF Open, Idle
    <2>2. CASE AllLone
      BY <1>1, <2>1, <2>2 DEF IInv, KeptInv, Kept, Awaited
    <2>3. CASE Cardinality(Jobs) <= Capacity /\ MaxErrors = 0
      BY <1>1, <2>1, <2>3 DEF IInv, RecoveredInv, Room
    <2> QED
      BY <2>2, <2>3
  <1> QED
    BY <1>1, Agreement, PTL

(* A write of a handler leaves the recorded slots alone.                    *)
LEMMA WriteLeavesRecorded ==
    ASSUME IInv, Write, NEW j \in Jobs, slot[j].state \in Recorded
    PROVE  slot'[j] = slot[j]
  <1> DEFINE w == Head(todo)
             V == Tail(todo)
  <1>1. todo # <<>> /\ w.what \notin {"save", "throw"}
    BY DEF Write, Idle
  <1>2. TypeOK /\ Closed(todo) /\ Orderly(slot, todo)
    BY DEF IInv, TodoInv
  <1>3. Rest(todo, w, V) /\ (w \in Writes \/ (w \in Endings /\ w.what = "recovered"))
    BY <1>1, <1>2, ClosedRest
  <1>4. WrittenSlots(w, slot')
    BY <1>2, <1>3, WriteSlots
  <1> HIDE DEF w, V
  <1>5. FirstOf(slot, w, V) /\ After(slot, w, slot')
    BY <1>2, <1>3, <1>4, OrderlyFirst DEF WrittenSlots
  <1>6. slot[j].state \notin {"none", "open"}
    BY DEF Recorded
  <1> QED
    BY <1>5, <1>6 DEF FirstOf, After

(* store.complete, whoever calls it: a result that is recorded for a job is *)
(* never replaced, and no round is created over it, whatever fails.         *)
THEOREM RecordedResultsStay ==
    Spec => [][\A j \in Jobs : slot[j].state \in Recorded => slot'[j] = slot[j]]_vars
  <1> DEFINE Stays == \A j \in Jobs : slot[j].state \in Recorded => slot'[j] = slot[j]
  <1>1. ASSUME IInv, Next PROVE Stays
    <2>1. CASE Write
      BY <1>1, <2>1, WriteLeavesRecorded
    <2>2. CASE UNCHANGED slot
      BY <2>2
    <2>3. Write \/ UNCHANGED slot
      <3>1. TickSome => UNCHANGED slot
        BY DEF TickSome, Tick, Begin, rounds
      <3>2. ASSUME NEW U, DispatchStep(U) PROVE UNCHANGED slot
        BY <3>2 DEF DispatchStep, Begin, rounds
      <3>3. ASSUME NEW r, NEW U, Run(r, U) PROVE UNCHANGED slot
        BY <3>3 DEF Run, Begin, rounds
      <3>4. ASSUME NEW r, Cancel(r) PROVE UNCHANGED slot
        BY <3>4 DEF Cancel, Begin, rounds
      <3>5. ASSUME NEW j, Poll(j) \/ Result(j) PROVE UNCHANGED slot
        BY <3>5 DEF Poll, Result, Begin, rounds
      <3>6. SaveQueue \/ Fail \/ Crash => UNCHANGED slot
        BY DEF SaveQueue, Fail, Crash, rounds
      <3> QED
        BY <1>1, <3>1, <3>2, <3>3, <3>4, <3>5, <3>6 DEF Next
    <2> QED
      BY <2>1, <2>2, <2>3
  <1>2. IInv /\ [Next]_vars => [Stays]_vars
    BY <1>1
  <1> QED
    BY <1>2, Agreement, PTL DEF Spec
=============================================================================
