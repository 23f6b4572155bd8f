-------------------------- MODULE VoteEngineProofs ---------------------------
(***************************************************************************)
(* Proofs about VoteEngine, for any sensors, levels and limits of the      *)
(* configuration, with at most one faulty sensor and a tolerance that      *)
(* covers the spread of correct readings: the median is always within      *)
(* Noise of the true level, whatever the faulty sensor reports.            *)
(***************************************************************************)
EXTENDS VoteEngine, SequenceTheorems, FiniteSetTheorems, WellFoundedInduction, TLAPS

-----------------------------------------------------------------------------
(* Finite sets with a rank.                                                *)

\* A non-empty set of naturals has a least element.
LEMMA LeastNatural ==
    ASSUME NEW S \in SUBSET Nat, S # {}
    PROVE  \E x \in S : \A y \in S : x <= y
<1>1. PICK x \in S : \A y \in S : <<y, x>> \notin OpToRel(<, Nat)
  BY NatLessThanWellFounded, WFMin
<1>2. \A y \in S : ~(y < x)
  <2>1. SUFFICES ASSUME NEW y \in S, y < x PROVE <<y, x>> \in OpToRel(<, Nat)
    BY <1>1, Zenon
  <2>2. y \in Nat /\ x \in Nat
    OBVIOUS
  <2> QED
    BY <2>1, <2>2, Zenon DEF OpToRel
<1> QED
  BY <1>2

\* A finite set of readings has a highest one.
LEMMA HighestReading ==
    ASSUME NEW D, IsFiniteSet(D), D # {}, NEW f, \A s \in D : f[s].level \in Nat
    PROVE  \E s \in D : \A t \in D : f[t].level <= f[s].level
<1> DEFINE Above(s) == {t \in D : f[s].level < f[t].level}
           C == {Cardinality(Above(s)) : s \in D}
<1>1. \A s \in D : IsFiniteSet(Above(s)) /\ Cardinality(Above(s)) \in Nat
  BY FS_Subset, FS_CardinalityType
<1>2. PICK c \in C : \A d \in C : c <= d
  <2>1. C \in SUBSET Nat /\ C # {}
    BY <1>1
  <2> HIDE DEF C
  <2> QED
    BY <2>1, LeastNatural
<1>3. PICK s \in D : c = Cardinality(Above(s))
  OBVIOUS
<1>4. ASSUME NEW t \in D, f[s].level < f[t].level PROVE FALSE
  <2>1. Above(t) \in SUBSET Above(s)
    BY <1>4
  <2>2. t \in Above(s) /\ t \notin Above(t)
    BY <1>4
  <2>3. Cardinality(Above(t)) \in C /\ c \in Nat /\ Cardinality(Above(t)) \in Nat
    BY <1>1, <1>3
  <2>4. Cardinality(Above(s)) <= Cardinality(Above(t))
    BY <1>2, <1>3, <2>3
  <2>5. IsFiniteSet(Above(s))
    BY <1>1
  <2> HIDE DEF Above
  <2>6. Cardinality(Above(s)) = Cardinality(Above(t))
    BY <1>3, <2>1, <2>3, <2>4, <2>5, FS_Subset
  <2> QED
    BY <2>1, <2>2, <2>5, <2>6, FS_Subset
<1> QED
  BY <1>4

Below(w, v) == {s \in DOMAIN w : w[s].level < v}
UpTo(w, v)  == {s \in DOMAIN w : w[s].level <= v}

\* A window whose readings can be sorted.
Sortable(w) == IsFiniteSet(DOMAIN w) /\ \A s \in DOMAIN w : w[s].level \in Nat

LEMMA RankSets ==
    ASSUME NEW w, Sortable(w), NEW v
    PROVE  /\ Below(w, v) \in SUBSET (DOMAIN w) /\ UpTo(w, v) \in SUBSET (DOMAIN w)
           /\ IsFiniteSet(Below(w, v)) /\ IsFiniteSet(UpTo(w, v))
           /\ Cardinality(Below(w, v)) \in Nat /\ Cardinality(UpTo(w, v)) \in Nat
<1>1. Below(w, v) \in SUBSET (DOMAIN w) /\ UpTo(w, v) \in SUBSET (DOMAIN w)
  BY DEF Below, UpTo
<1>2. IsFiniteSet(Below(w, v)) /\ IsFiniteSet(UpTo(w, v))
  BY <1>1, FS_Subset DEF Sortable
<1> QED
  BY <1>1, <1>2, FS_CardinalityType

\* Sorting puts a reading at every position: the lowest level that more than k
\* readings do not exceed.
LEMMA RankExists ==
    ASSUME NEW w, Sortable(w), NEW k \in Nat, k < Cardinality(DOMAIN w)
    PROVE  \E v \in {w[s].level : s \in DOMAIN w} :
               Cardinality(Below(w, v)) <= k /\ k < Cardinality(UpTo(w, v))
<1> DEFINE V == {w[s].level : s \in DOMAIN w}
           N == {v \in V : k < Cardinality(UpTo(w, v))}
<1>1. V \subseteq Nat
  BY DEF Sortable
<1>2. N # {}
  <2>1. DOMAIN w # {}
    BY FS_EmptySet
  <2>2. PICK s \in DOMAIN w : \A t \in DOMAIN w : w[t].level <= w[s].level
    BY <2>1, HighestReading DEF Sortable
  <2>3. UpTo(w, w[s].level) = DOMAIN w
    BY <2>2 DEF UpTo
  <2> QED
    BY <2>2, <2>3
<1>3. PICK v \in N : \A u \in N : v <= u
  <2>1. N \in SUBSET Nat
    BY <1>1
  <2> HIDE DEF N
  <2> QED
    BY <1>2, <2>1, LeastNatural
<1>4. v \in V /\ k < Cardinality(UpTo(w, v)) /\ v \in Nat
  BY <1>1, <1>3
<1>5. Cardinality(Below(w, v)) <= k
  <2>1. CASE Below(w, v) = {}
    BY <2>1, FS_EmptySet
  <2>2. CASE Below(w, v) # {}
    <3>1. /\ IsFiniteSet(Below(w, v))
          /\ \A t \in Below(w, v) : t \in DOMAIN w /\ w[t].level \in Nat /\ w[t].level < v
      BY RankSets DEF Below, Sortable
    <3>2. PICK s \in Below(w, v) : \A t \in Below(w, v) : w[t].level <= w[s].level
      BY <2>2, <3>1, HighestReading
    <3>3. UpTo(w, w[s].level) = Below(w, v)
      <4>1. \A t \in DOMAIN w : w[t].level <= w[s].level => w[t].level < v
        BY <1>4, <3>1, <3>2 DEF Sortable
      <4> QED
        BY <3>1, <3>2, <4>1 DEF UpTo, Below
    <3>4. w[s].level \in V /\ ~(v <= w[s].level)
      BY <1>4, <3>1, <3>2
    <3>5. ~(k < Cardinality(Below(w, v)))
      BY <1>3, <3>3, <3>4
    <3> QED
      BY <3>5, RankSets
  <2> QED
    BY <2>1, <2>2
<1> QED
  BY <1>4, <1>5

LEMMA RankFound ==
    ASSUME NEW w, Sortable(w), NEW k \in Nat, k < Cardinality(DOMAIN w)
    PROVE  /\ AtRank(w, k) \in {w[s].level : s \in DOMAIN w}
           /\ Cardinality(Below(w, AtRank(w, k))) <= k
           /\ k < Cardinality(UpTo(w, AtRank(w, k)))
<1>1. \E v \in {w[s].level : s \in DOMAIN w} :
          /\ Cardinality({s \in DOMAIN w : w[s].level < v}) <= k
          /\ k < Cardinality({s \in DOMAIN w : w[s].level <= v})
  BY RankExists DEF Below, UpTo
<1> QED
  BY <1>1, Zenon DEF AtRank, Below, UpTo
-----------------------------------------------------------------------------
(* The median.                                                             *)

Limits ==
    /\ Noise \in Nat /\ Tolerance \in Nat /\ 2 * Noise <= Tolerance
    /\ Threshold \in Nat /\ Penalty \in Nat /\ Recovery \in Nat
    /\ MinReporters \in Nat /\ MinReporters >= 3
    /\ ClearWindows \in Nat /\ ClearWindows >= 1
    /\ Initial \in Nat /\ MinReputation \in Nat /\ MaxReputation \in Nat
    /\ Initial <= MaxReputation

LEMMA Configured == Limits
BY VoteAssumption, FaultAssumption DEF Limits

\* Readings a window may hold.
WindowOK ==
    /\ truth \in Level /\ truth \in Nat
    /\ DOMAIN window \in SUBSET Sensor
    /\ \A s \in DOMAIN window : window[s] \in MaySend(s)

\* Of two sensors one is correct.
LEMMA OneIsCorrect ==
    ASSUME NEW S \in SUBSET Sensor, Cardinality(S) >= 2
    PROVE  \E s \in S : s \notin Faulty
<1> SUFFICES ASSUME S \subseteq Faulty PROVE FALSE
  OBVIOUS
<1>1. IsFiniteSet(Faulty) /\ Cardinality(Faulty) <= 1
  BY VoteAssumption, FaultAssumption, FS_Subset
<1>2. Cardinality(S) <= Cardinality(Faulty) /\ Cardinality(S) \in Nat /\ Cardinality(Faulty) \in Nat
  BY <1>1, FS_Subset, FS_CardinalityType
<1> QED
  BY <1>1, <1>2

LEMMA WindowSortable ==
    ASSUME WindowOK
    PROVE  /\ Sortable(window) /\ Cardinality(DOMAIN window) \in Nat
           /\ \A s \in DOMAIN window : window[s].level \in Nat /\ window[s].good \in BOOLEAN
           /\ \A s \in DOMAIN window \ Faulty :
                 /\ window[s].good
                 /\ window[s].level <= truth + Noise /\ truth <= window[s].level + Noise
<1>1. \A s \in DOMAIN window :
          window[s] \in Reading /\ window[s].level \in Nat /\ window[s].good \in BOOLEAN
  BY VoteAssumption DEF WindowOK, MaySend, Reading
<1>2. \A s \in DOMAIN window \ Faulty :
          window[s].good /\ Distance(window[s].level, truth) <= Noise
  BY DEF WindowOK, MaySend
<1>3. \A s \in DOMAIN window \ Faulty :
          window[s].level <= truth + Noise /\ truth <= window[s].level + Noise
  BY <1>1, <1>2, Configured DEF WindowOK, Distance, Limits
<1>4. IsFiniteSet(DOMAIN window) /\ Cardinality(DOMAIN window) \in Nat
  BY VoteAssumption, FS_Subset, FS_CardinalityType DEF WindowOK
<1> QED
  BY <1>1, <1>2, <1>3, <1>4 DEF Sortable

\* At a position with a reading before and one behind it stands a level that a
\* correct sensor bounds from either side.
LEMMA InnerRank ==
    ASSUME WindowOK, NEW k \in Nat, 1 <= k, k + 2 <= Cardinality(DOMAIN window)
    PROVE  /\ AtRank(window, k) \in Nat
           /\ AtRank(window, k) <= truth + Noise
           /\ truth <= AtRank(window, k) + Noise
<1>1. PICK n \in Nat : n = Cardinality(DOMAIN window)
  BY WindowSortable
<1>2. PICK v : v = AtRank(window, k)
  OBVIOUS
<1>3. /\ v \in Nat
      /\ Cardinality(Below(window, v)) <= k /\ k < Cardinality(UpTo(window, v))
  BY <1>1, <1>2, WindowSortable, RankFound
<1>4. /\ Cardinality(Below(window, v)) \in Nat /\ Cardinality(UpTo(window, v)) \in Nat
      /\ Below(window, v) \in SUBSET (DOMAIN window) /\ UpTo(window, v) \in SUBSET (DOMAIN window)
  BY WindowSortable, RankSets
<1>5. v <= truth + Noise
  <2>1. PICK A : A = DOMAIN window \ Below(window, v)
    OBVIOUS
  <2>2. Cardinality(A) = n - Cardinality(Below(window, v))
    <3>1. DOMAIN window \cap Below(window, v) = Below(window, v)
      BY <1>4
    <3> QED
      BY <1>1, <2>1, <3>1, WindowSortable, FS_Difference DEF Sortable
  <2>3. Cardinality(A) >= 2 /\ A \in SUBSET Sensor
    BY <1>1, <1>3, <1>4, <2>1, <2>2 DEF WindowOK
  <2>4. PICK s \in A : s \notin Faulty
    BY <2>3, OneIsCorrect
  <2>5. s \in DOMAIN window \ Faulty /\ ~(window[s].level < v)
    BY <2>1, <2>4 DEF Below
  <2> QED
    BY <1>3, <2>5, WindowSortable, Configured DEF WindowOK, Limits
<1>6. truth <= v + Noise
  <2>1. Cardinality(UpTo(window, v)) >= 2 /\ UpTo(window, v) \in SUBSET Sensor
    BY <1>3, <1>4 DEF WindowOK
  <2>2. PICK s \in UpTo(window, v) : s \notin Faulty
    BY <2>1, OneIsCorrect
  <2>3. s \in DOMAIN window \ Faulty /\ window[s].level <= v
    BY <2>2 DEF UpTo
  <2> QED
    BY <1>3, <2>3, WindowSortable, Configured DEF WindowOK, Limits
<1> QED
  BY <1>2, <1>3, <1>5, <1>6

\* The median of enough readings is within Noise of the truth.
LEMMA MedianIsHonest ==
    ASSUME WindowOK, Cardinality(DOMAIN window) >= MinReporters
    PROVE  /\ Median(window) \in Nat
           /\ Median(window) <= truth + Noise
           /\ truth <= Median(window) + Noise
<1>1. PICK n \in Nat : n = Cardinality(DOMAIN window) /\ n >= 3
  BY WindowSortable, Configured DEF Limits
<1>2. truth \in Nat /\ Noise \in Nat
  BY Configured DEF WindowOK, Limits
<1>3. CASE n % 2 = 0
  <2>1. PICK j \in Nat, k \in Nat : j = n \div 2 - 1 /\ k = n \div 2
    BY <1>1
  <2>2. 1 <= j /\ 1 <= k /\ j + 2 <= n /\ k + 2 <= n
    BY <1>1, <1>3, <2>1
  <2>3. PICK a, b : a = AtRank(window, j) /\ b = AtRank(window, k)
    OBVIOUS
  <2>4. /\ a \in Nat /\ a <= truth + Noise /\ truth <= a + Noise
        /\ b \in Nat /\ b <= truth + Noise /\ truth <= b + Noise
    BY <1>1, <2>2, <2>3, InnerRank
  <2>5. Median(window) = (a + b) \div 2
    BY <1>1, <1>3, <2>1, <2>3 DEF Median
  <2>6. PICK m : m = (a + b) \div 2
    OBVIOUS
  <2>7. m \in Nat /\ m <= truth + Noise /\ truth <= m + Noise
    BY <1>2, <2>4, <2>6
  <2> QED
    BY <2>5, <2>6, <2>7
<1>4. CASE n % 2 # 0
  <2>1. PICK k \in Nat : k = n \div 2
    BY <1>1
  <2>2. 1 <= k /\ k + 2 <= n
    BY <1>1, <1>4, <2>1
  <2>3. Median(window) = AtRank(window, k)
    BY <1>1, <1>4, <2>1 DEF Median
  <2> QED
    BY <1>1, <2>2, <2>3, InnerRank
<1> QED
  BY <1>3, <1>4
-----------------------------------------------------------------------------
(* The verdict over a window.                                              *)

Score == [score : Nat, excluded : BOOLEAN]

ReputationInv == reputation \in [Sensor -> Score] /\ CorrectKeepReputation

\* What on_window_close computes: the reputations and the batch.
After ==
    [s \in Sensor |-> IF s \in DOMAIN window
                      THEN Judged(reputation[s], IsOutlier(window, s)) ELSE reputation[s]]

Batch ==
    [s \in DOMAIN window |->
        BatchEntry(window[s], After[s].excluded, IsOutlier(window, s))]

LEMMA JudgedType ==
    ASSUME NEW r \in Score, NEW o \in BOOLEAN
    PROVE  /\ Judged(r, o) \in Score
           /\ ~o /\ r.score >= Initial /\ ~r.excluded =>
                 Judged(r, o).score >= Initial /\ ~Judged(r, o).excluded
<1>1. r.score \in Nat /\ r.excluded \in BOOLEAN
  BY DEF Score
<1>2. Lowered(r.score, Penalty) \in Nat /\ Raised(r.score, Recovery) \in Nat
  BY <1>1, Configured DEF Limits, Lowered, Raised
<1>3. r.score >= Initial => Raised(r.score, Recovery) >= Initial
  BY <1>1, Configured DEF Limits, Raised
<1>4. CASE o
  BY <1>1, <1>2, <1>4 DEF Judged, Score
<1>5. CASE ~o
  BY <1>1, <1>2, <1>3, <1>5 DEF Judged, Score
<1> QED
  BY <1>4, <1>5

\* No correct reading is an outlier.
LEMMA CorrectIsNoOutlier ==
    ASSUME WindowOK, Cardinality(DOMAIN window) >= MinReporters,
           NEW s \in DOMAIN window \ Faulty
    PROVE  ~IsOutlier(window, s)
<1>1. PICK m \in Nat : m = Median(window) /\ m <= truth + Noise /\ truth <= m + Noise
  BY MedianIsHonest
<1>2. PICK l \in Nat : l = window[s].level /\ l <= truth + Noise /\ truth <= l + Noise
  BY WindowSortable
<1>3. l <= m + Tolerance /\ m <= l + Tolerance
  BY <1>1, <1>2, Configured DEF WindowOK, Limits
<1>4. ~(Distance(l, m) > Tolerance)
  BY <1>3, Configured DEF Limits, Distance
<1> QED
  BY <1>1, <1>2, <1>4 DEF IsOutlier

LEMMA ReputationKept ==
    ASSUME WindowOK, ReputationInv, Cardinality(DOMAIN window) >= MinReporters
    PROVE  /\ After \in [Sensor -> Score]
           /\ \A s \in Sensor \ Faulty : After[s].score >= Initial /\ ~After[s].excluded
<1>1. \A s \in Sensor : IsOutlier(window, s) \in BOOLEAN
  BY DEF IsOutlier
<1>2. \A s \in Sensor : After[s] \in Score
  BY <1>1, JudgedType DEF After, ReputationInv
<1>3. ASSUME NEW s \in Sensor \ Faulty PROVE After[s].score >= Initial /\ ~After[s].excluded
  <2>1. reputation[s].score >= Initial /\ ~reputation[s].excluded /\ reputation[s] \in Score
    BY DEF ReputationInv, CorrectKeepReputation
  <2>2. CASE s \in DOMAIN window
    <3>1. PICK o \in BOOLEAN : o = IsOutlier(window, s)
      BY <1>1
    <3>2. After[s] = Judged(reputation[s], o)
      BY <2>2, <3>1 DEF After
    <3>3. ~o
      BY <2>2, <3>1, CorrectIsNoOutlier
    <3> QED
      BY <2>1, <3>2, <3>3, JudgedType
  <2>3. CASE s \notin DOMAIN window
    BY <2>1, <2>3 DEF After
  <2> QED
    BY <2>2, <2>3
<1> QED
  BY <1>2, <1>3 DEF After

\* A flood is reported: a correct sensor reads the threshold and counts.
LEMMA FloodTriggers ==
    ASSUME WindowOK, ReputationInv, Cardinality(DOMAIN window) >= MinReporters, FloodAt(truth)
    PROVE  Triggers(Batch)
<1>1. Cardinality(DOMAIN window) >= 2 /\ DOMAIN window \in SUBSET Sensor
  BY WindowSortable, Configured DEF WindowOK, Limits
<1>2. PICK s \in DOMAIN window : s \notin Faulty
  BY <1>1, OneIsCorrect
<1>3. ~IsOutlier(window, s) /\ ~After[s].excluded
  BY <1>1, <1>2, CorrectIsNoOutlier, ReputationKept
<1>4. window[s].good /\ window[s].level \in Nat /\ truth <= window[s].level + Noise
  BY <1>2, WindowSortable
<1>5. window[s].level >= Threshold
  BY <1>4, Configured DEF FloodAt, WindowOK, Limits
<1>6. window[s] \in [level : Level, good : BOOLEAN]
  BY DEF WindowOK, MaySend, Reading
<1>7. Batch[s].good /\ Batch[s].level = window[s].level
  BY <1>3, <1>4, <1>6 DEF Batch, BatchEntry
<1> QED
  BY <1>5, <1>7 DEF Triggers, Batch

\* In the dry nothing within the tolerance of the median reads the threshold.
LEMMA DryDoesNotTrigger ==
    ASSUME WindowOK, Cardinality(DOMAIN window) >= MinReporters, Triggers(Batch)
    PROVE  ~DryAt(truth)
<1>1. PICK s \in DOMAIN window : Batch[s].good /\ Batch[s].level >= Threshold
  BY DEF Triggers, Batch
<1>2. window[s] \in [level : Level, good : BOOLEAN] /\ window[s].level \in Nat
  BY WindowSortable DEF WindowOK, MaySend, Reading
<1>3. ~IsOutlier(window, s) /\ window[s].level >= Threshold
  BY <1>1, <1>2 DEF Batch, BatchEntry
<1>4. PICK m \in Nat : m = Median(window) /\ m <= truth + Noise
  BY MedianIsHonest
<1>5. ~(Distance(window[s].level, m) > Tolerance)
  BY <1>3, <1>4 DEF IsOutlier
<1>6. window[s].level <= m + Tolerance
  BY <1>2, <1>5, Configured DEF Distance, Limits
<1> QED
  BY <1>2, <1>3, <1>4, <1>6, Configured DEF DryAt, WindowOK, Limits

-----------------------------------------------------------------------------
(* Hysteresis.                                                             *)

\* clean batches ago there was the last trigger.
HysteresisInv ==
    /\ recent \in Seq([flood : BOOLEAN, dry : BOOLEAN])
    /\ Len(recent) <= ClearWindows
    /\ alert \in BOOLEAN /\ clean \in Nat /\ clean < ClearWindows
    /\ ~alert => clean = 0
    /\ \A i \in 1 .. Len(recent) : recent[i].flood => alert /\ clean <= Len(recent) - i
    /\ alert => clean < Len(recent) /\ ~recent[Len(recent) - clean].dry

\* The batches remembered, with the newest at the end.
LEMMA RememberedBatches ==
    ASSUME HysteresisInv, NEW b, b = [flood |-> FloodAt(truth), dry |-> DryAt(truth)],
           NEW drop, drop = IF Len(recent) = ClearWindows THEN 1 ELSE 0
    PROVE  /\ Remembered \in Seq([flood : BOOLEAN, dry : BOOLEAN])
           /\ Len(Remembered) = Len(recent) + 1 - drop
           /\ \A i \in 1 .. Len(recent) - drop : Remembered[i] = recent[i + drop]
           /\ Remembered[Len(recent) + 1 - drop] = b
<1> DEFINE B == [flood : BOOLEAN, dry : BOOLEAN]
<1>1. b \in B
  BY DEF FloodAt, DryAt
<1>2. PICK n \in Nat : n = Len(recent) /\ n <= ClearWindows /\ recent \in Seq(B)
  BY DEF HysteresisInv
<1>3. PICK all \in Seq(B) : all = Append(recent, b)
  BY <1>1, <1>2, AppendProperties
<1>4. /\ Len(all) = n + 1 /\ all[n + 1] = b
      /\ \A i \in 1 .. n : all[i] = recent[i]
  BY <1>1, <1>2, <1>3, AppendProperties
<1>5. drop \in {0, 1} /\ drop <= n /\ (drop = 1 <=> n = ClearWindows) /\ ClearWindows \in Nat
  BY <1>2, Configured DEF Limits
<1>6. PICK s : s = SubSeq(all, 1 + drop, n + 1)
  OBVIOUS
<1>7. Remembered = s
  <2>1. (IF Len(all) > ClearWindows THEN 2 ELSE 1) = 1 + drop
    BY <1>2, <1>4, <1>5
  <2> QED
    BY <1>3, <1>4, <1>6, <2>1 DEF Remembered
<1>8. /\ s \in Seq(B)
      /\ Len(s) = IF 1 + drop <= n + 1 THEN (n + 1) - (1 + drop) + 1 ELSE 0
      /\ \A i \in 1 .. (n + 1) - (1 + drop) + 1 : s[i] = all[(1 + drop) + i - 1]
  <2>1. 1 + drop \in Int /\ n + 1 \in Int /\ \A i \in 1 + drop .. n + 1 : i \in 1 .. Len(all)
    BY <1>4, <1>5
  <2>2. \A i \in 1 + drop .. n + 1 : all[i] \in B
    BY <1>3, <2>1, ElementOfSeq
  <2> QED
    BY <1>6, <2>1, <2>2, SubSeqProperties
<1>9. Len(s) = n + 1 - drop /\ \A i \in 1 .. n + 1 - drop : s[i] = all[i + drop]
  BY <1>5, <1>8
<1>10. \A i \in 1 .. n - drop : s[i] = recent[i + drop]
  BY <1>4, <1>5, <1>9
<1>11. s[n + 1 - drop] = b
  <2>1. n + 1 - drop \in 1 .. n + 1 - drop /\ (n + 1 - drop) + drop = n + 1
    BY <1>5
  <2> QED
    BY <1>4, <1>9, <2>1
<1> QED
  BY <1>2, <1>7, <1>8, <1>9, <1>10, <1>11

LEMMA HysteresisStep ==
    ASSUME HysteresisInv, NEW trigger \in BOOLEAN,
           FloodAt(truth) => trigger, trigger => ~DryAt(truth),
           recent' = Remembered, alert' = AlertAfter(trigger), clean' = CleanAfter(trigger)
    PROVE  HysteresisInv'
<1>1. PICK b : b = [flood |-> FloodAt(truth), dry |-> DryAt(truth)]
  OBVIOUS
<1>2. PICK drop \in {0, 1} : drop = IF Len(recent) = ClearWindows THEN 1 ELSE 0
  OBVIOUS
<1>3. PICK n \in Nat : n = Len(recent)
  BY DEF HysteresisInv
<1>4. PICK cw \in Nat : cw = ClearWindows /\ cw >= 1
  BY Configured DEF Limits
<1>5. n <= cw /\ (drop = 1 <=> n = cw) /\ drop <= n
  BY <1>2, <1>3, <1>4 DEF HysteresisInv
<1>6. /\ recent' \in Seq([flood : BOOLEAN, dry : BOOLEAN])
      /\ Len(recent') = n + 1 - drop
      /\ \A i \in 1 .. n - drop : recent'[i] = recent[i + drop]
      /\ recent'[n + 1 - drop] = b
  BY <1>1, <1>2, <1>3, RememberedBatches
<1>7. alert \in BOOLEAN /\ clean \in Nat /\ clean < cw
  BY <1>4 DEF HysteresisInv
<1>8. alert' \in BOOLEAN /\ clean' \in Nat /\ clean' < cw /\ (~alert' => clean' = 0)
  BY <1>4, <1>7 DEF AlertAfter, CleanAfter, HysteresisInv
<1>9. CASE trigger
  <2>1. alert' = TRUE /\ clean' = 0
    BY <1>9 DEF AlertAfter, CleanAfter
  <2>2. ~b.dry
    BY <1>1, <1>9
  <2>3. \A i \in 1 .. Len(recent') : clean' <= Len(recent') - i
    BY <1>5, <1>6, <2>1
  <2>4. clean' < Len(recent') /\ Len(recent') - clean' = n + 1 - drop
    BY <1>5, <1>6, <2>1
  <2> QED
    BY <1>4, <1>5, <1>6, <1>8, <2>1, <2>2, <2>3, <2>4 DEF HysteresisInv
<1>10. CASE ~trigger
  <2>1. ~b.flood
    BY <1>1, <1>10
  <2>2. ASSUME NEW i \in 1 .. Len(recent'), recent'[i].flood
        PROVE  alert' /\ clean' <= Len(recent') - i
    <3>1. i \in 1 .. n - drop
      BY <1>5, <1>6, <2>1, <2>2
    <3>2. i + drop \in 1 .. n /\ recent[i + drop].flood
      BY <1>6, <2>2, <3>1
    <3>3. alert /\ clean <= n - (i + drop)
      BY <1>3, <3>2 DEF HysteresisInv
    <3>4. clean + 1 < cw
      BY <1>5, <1>7, <3>1, <3>3
    <3>5. alert' /\ clean' = clean + 1
      <4>1. alert'
        BY <1>4, <3>3, <3>4 DEF AlertAfter
      <4>2. clean' = clean + 1
        BY <1>4, <1>7, <1>10, <3>3, <3>4 DEF CleanAfter
      <4> QED
        BY <4>1, <4>2
    <3> QED
      BY <1>6, <1>7, <3>1, <3>3, <3>5
  <2>3. ASSUME alert' PROVE clean' < Len(recent') /\ ~recent'[Len(recent') - clean'].dry
    <3>1. alert /\ clean + 1 < cw /\ clean' = clean + 1
      BY <1>4, <1>7, <1>10, <2>3 DEF AlertAfter, CleanAfter
    <3>2. clean < n /\ ~recent[n - clean].dry
      BY <1>3, <3>1 DEF HysteresisInv
    <3>3. n - clean - drop \in 1 .. n - drop
      BY <1>5, <1>7, <3>1, <3>2
    <3>4. recent'[n - clean - drop] = recent[n - clean]
      <4>1. (n - clean - drop) + drop = n - clean
        BY <1>7
      <4> QED
        BY <1>6, <3>3, <4>1
    <3>5. Len(recent') - clean' = n - clean - drop /\ clean' < Len(recent')
      BY <1>5, <1>6, <1>7, <3>1, <3>2
    <3> QED
      BY <3>2, <3>4, <3>5
  <2> QED
    BY <1>4, <1>5, <1>6, <1>8, <2>2, <2>3 DEF HysteresisInv
<1> QED
  BY <1>9, <1>10

-----------------------------------------------------------------------------
(* The theorems.                                                           *)

VoteInv == WindowOK /\ ReputationInv /\ HysteresisInv

LEMMA VoteInit == Init => VoteInv
<1> SUFFICES ASSUME Init PROVE VoteInv
  OBVIOUS
<1>1. WindowOK
  BY VoteAssumption DEF Init, WindowOK
<1>2. ReputationInv
  BY Configured DEF Init, ReputationInv, CorrectKeepReputation, Score, Limits
<1>3. HysteresisInv
  <2>1. recent = <<>> /\ Len(recent) = 0 /\ recent \in Seq([flood : BOOLEAN, dry : BOOLEAN])
    BY DEF Init
  <2>2. \A i \in 1 .. Len(recent) : FALSE
    BY <2>1
  <2>3. alert = FALSE /\ clean = 0
    BY DEF Init
  <2>4. ClearWindows \in Nat /\ ClearWindows >= 1
    BY Configured DEF Limits
  <2>5. Len(recent) <= ClearWindows /\ clean \in Nat /\ clean < ClearWindows
    BY <2>1, <2>3, <2>4
  <2>6. alert \in BOOLEAN /\ ~alert
    BY <2>3
  <2> QED
    BY <2>1, <2>2, <2>3, <2>5, <2>6, Zenon DEF HysteresisInv
<1> QED
  BY <1>1, <1>2, <1>3 DEF VoteInv

\* A new window is empty, so the level may move.
LEMMA EmptyWindow ==
    ASSUME window' = <<>>, truth' \in Level
    PROVE  WindowOK'
BY VoteAssumption DEF WindowOK

LEMMA VoteStep ==
    ASSUME VoteInv, [Next]_vars
    PROVE  VoteInv'
<1> USE DEF VoteInv
<1>1. CASE CloseWindow
  <2>1. Cardinality(DOMAIN window) >= MinReporters /\ window' = <<>> /\ truth' \in Level
    BY <1>1 DEF CloseWindow
  <2>2. PICK trigger : trigger = Triggers(Batch)
    OBVIOUS
  <2>3. /\ reputation' = After /\ recent' = Remembered
        /\ alert' = AlertAfter(trigger) /\ clean' = CleanAfter(trigger)
    BY <1>1, <2>2 DEF CloseWindow, After, Batch
  <2>4. WindowOK'
    BY <2>1, EmptyWindow
  <2>5. ReputationInv'
    BY <2>1, <2>3, ReputationKept DEF ReputationInv, CorrectKeepReputation
  <2>6. HysteresisInv'
    <3>1. trigger \in BOOLEAN
      BY <2>2 DEF Triggers
    <3>2. (FloodAt(truth) => trigger) /\ (trigger => ~DryAt(truth))
      BY <2>1, <2>2, FloodTriggers, DryDoesNotTrigger
    <3> QED
      BY <2>3, <3>1, <3>2, HysteresisStep
  <2> QED
    BY <2>4, <2>5, <2>6
<1>2. CASE DropWindow
  <2>1. window' = <<>> /\ truth' \in Level /\ UNCHANGED <<reputation, alert, clean, recent>>
    BY <1>2 DEF DropWindow
  <2>2. WindowOK'
    BY <2>1, EmptyWindow
  <2> QED
    BY <2>1, <2>2 DEF ReputationInv, CorrectKeepReputation, HysteresisInv
<1>3. CASE \E s \in Sensor : Accumulate(s)
  <2>0. PICK s \in Sensor : Accumulate(s)
    BY <1>3
  <2>1. PICK r \in MaySend(s) :
           /\ window' = [t \in DOMAIN window \union {s} |-> IF t = s THEN r ELSE window[t]]
           /\ UNCHANGED <<truth, reputation, alert, clean, recent>>
    BY <2>0 DEF Accumulate
  <2>2. \A t \in Sensor : MaySend(t)' = MaySend(t)
    BY <2>1 DEF MaySend
  <2>3. WindowOK'
    BY <2>1, <2>2 DEF WindowOK
  <2> QED
    BY <2>1, <2>3 DEF ReputationInv, CorrectKeepReputation, HysteresisInv
<1>4. CASE UNCHANGED vars
  BY <1>4 DEF vars, WindowOK, MaySend, ReputationInv, CorrectKeepReputation, HysteresisInv
<1> QED
  BY <1>1, <1>2, <1>3, <1>4 DEF Next

\* In every state the readings are what sensors may send, correct sensors are in
\* good standing, and clean counts the batches since the last trigger.
THEOREM VoteInvariant == Spec => []VoteInv
BY VoteInit, VoteStep, PTL DEF Spec

\* A correct sensor never loses reputation and is never excluded, for any number
\* of sensors and any readings of a faulty one: build_entry compares with a median
\* that a correct reading bounds on either side.
THEOREM CorrectAreTrusted == Spec => []CorrectKeepReputation
<1>1. VoteInv => CorrectKeepReputation
  BY DEF VoteInv, ReputationInv
<1> QED
  BY <1>1, VoteInvariant, PTL

\* A flood that correct sensors see raises the alert at once, and the alert stays on
\* for m_alert_clear_windows batches at least.
THEOREM FloodIsReported == Spec => []FloodKeepsAlert
<1>1. VoteInv => FloodKeepsAlert
  BY DEF VoteInv, HysteresisInv, FloodKeepsAlert
<1> QED
  BY <1>1, VoteInvariant, PTL

\* The alert is on only if the water was near the threshold in one of the last
\* m_alert_clear_windows batches: no false alarm by one faulty sensor.
THEOREM NoFalseAlarm == Spec => []AlertIsJustified
<1>1. VoteInv => AlertIsJustified
  <2> SUFFICES ASSUME VoteInv, alert PROVE \E i \in DOMAIN recent : ~recent[i].dry
    BY DEF AlertIsJustified
  <2>1. PICK n \in Nat : n = Len(recent) /\ DOMAIN recent = 1 .. n
    BY DEF VoteInv, HysteresisInv
  <2>2. clean \in Nat /\ clean < n /\ ~recent[n - clean].dry
    BY <2>1 DEF VoteInv, HysteresisInv
  <2>3. n - clean \in DOMAIN recent
    BY <2>1, <2>2
  <2> QED
    BY <2>2, <2>3
<1> QED
  BY <1>1, VoteInvariant, PTL
=============================================================================
