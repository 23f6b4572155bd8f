----------------------------- MODULE VoteEngine -----------------------------
(***************************************************************************)
(* The outlier vote of a fog node (outlier_vote/engine.hpp and             *)
(* outlier_vote/service.hpp): readings are collected over a window, a      *)
(* reading far from the window's median is an outlier, a sensor with many  *)
(* outliers loses its reputation and is excluded, and what is left decides *)
(* whether the flood alert is on.                                          *)
(*                                                                         *)
(* The environment is a true water level that moves between windows.       *)
(* Correct sensors report it within Noise, faulty ones report anything;    *)
(* any reading may be lost, and a sensor may report several times.         *)
(***************************************************************************)
EXTENDS Naturals, Sequences, FiniteSets

CONSTANTS
    Sensor,         \* the EUIs of the sensors
    Faulty,         \* the sensors whose readings are arbitrary
    Level,          \* the water levels, m_water_level_mm
    Noise,          \* how far a correct sensor's reading may be from the truth
    MaxSensors,     \* common::MAX_SENSORS, 3
    MinReporters,   \* VoteEngine::MIN_REPORTERS, 3
    Tolerance,      \* OutlierVoteConfig::m_tolerance_mm, 200
    Threshold,      \* OutlierVoteConfig::m_alert_threshold_mm, 1500
    ClearWindows,   \* OutlierVoteConfig::m_alert_clear_windows, 3
    Penalty,        \* OutlierVoteConfig::m_reputation_penalty, 20
    Recovery,       \* OutlierVoteConfig::m_reputation_recovery, 5
    ExcludeBelow,   \* OutlierVoteConfig::m_reputation_min, 20
    ReadmitAt,      \* OutlierVoteConfig::m_reputation_readmit, 40
    Initial,        \* OutlierVoteConfig::m_reputation_initial, 100
    MinReputation,  \* VoteEngine::MIN_REPUTATION, 10
    MaxReputation   \* VoteEngine::MAX_REPUTATION, 100

ASSUME VoteAssumption ==
    /\ IsFiniteSet(Sensor)
    /\ Faulty \subseteq Sensor
    /\ Level \subseteq Nat
    /\ Level # {}
    /\ {Noise, Tolerance, Threshold, Penalty, Recovery} \subseteq Nat
    /\ {MaxSensors, MinReporters, ClearWindows} \subseteq Nat \ {0}
    /\ {ExcludeBelow, ReadmitAt, Initial, MinReputation, MaxReputation}
           \subseteq Nat
    /\ MinReputation < ExcludeBelow
    /\ ExcludeBelow < ReadmitAt
    /\ ReadmitAt <= MaxReputation
    /\ Initial \in ReadmitAt .. MaxReputation

\* One faulty sensor among three reporters, and a tolerance that covers the
\* spread of correct readings: n = 2f + 1 with f = 1.
ASSUME FaultAssumption ==
    /\ Cardinality(Faulty) <= 1
    /\ MinReporters >= 3
    /\ 2 * Noise <= Tolerance

VARIABLES
    truth,      \* environment: the water level of this window
    slots,      \* m_euis: the sensors that have a slot
    window,     \* m_readings, m_validity under m_reported: the readings so far
    reputation, \* m_reputation, once known
    alert,      \* m_alert_active
    clean,      \* m_clean_windows
    recent      \* history: how the last ClearWindows emitted batches were taken

vars == <<truth, slots, window, reputation, alert, clean, recent>>

\* good: the validity is VALIDITY_GOOD, neither questionable nor invalid.
Reading == [level : Level, good : BOOLEAN]

Init ==
    /\ truth \in Level
    /\ slots = {}
    /\ window = <<>>
    /\ reputation = [s \in Sensor |-> [score |-> Initial, excluded |-> FALSE]]
    /\ alert = FALSE
    /\ clean = 0
    /\ recent = <<>>

Distance(a, b) == IF a < b THEN b - a ELSE a - b

-----------------------------------------------------------------------------
(* Accumulating readings.                                                  *)

\* What a sensor may send this window.
MaySend(s) ==
    IF s \in Faulty THEN Reading
    ELSE {r \in Reading : r.good /\ Distance(r.level, truth) <= Noise}

\* slot_for: slots are given once and never freed.
HasSlot(s) == s \in slots \/ Cardinality(slots) < MaxSensors

\* accumulate, for a sensor that has or gets a slot; the last reading counts.
Accumulate(s) ==
    \E r \in MaySend(s) :
        /\ HasSlot(s)
        /\ slots' = slots \union {s}
        /\ window' = [t \in DOMAIN window \union {s} |->
                        IF t = s THEN r ELSE window[t]]
        /\ UNCHANGED <<truth, reputation, alert, clean, recent>>

-----------------------------------------------------------------------------
(* Closing the window.                                                     *)

\* The reading at position k, from 0, when the window is sorted by level.
AtRank(w, k) ==
    CHOOSE v \in {w[s].level : s \in DOMAIN w} :
        /\ Cardinality({s \in DOMAIN w : w[s].level < v}) <= k
        /\ k < Cardinality({s \in DOMAIN w : w[s].level <= v})

\* Variant: the largest reading.
MedianIsMax(w) == AtRank(w, Cardinality(DOMAIN w) - 1)

\* median_n: the middle reading, the mean of both when their number is even.
Median(w) ==
    LET n == Cardinality(DOMAIN w) IN
    IF n % 2 = 0 THEN (AtRank(w, n \div 2 - 1) + AtRank(w, n \div 2)) \div 2
    ELSE AtRank(w, n \div 2)

\* Variant: the bound itself is an outlier.
IsOutlierAtBound(w, s) == Distance(w[s].level, Median(w)) >= Tolerance

\* build_entry: further than the tolerance from the median.
IsOutlier(w, s) == Distance(w[s].level, Median(w)) > Tolerance

\* clamp_reputation of score - loss.
Lowered(score, loss) ==
    IF score < loss + MinReputation THEN MinReputation ELSE score - loss

\* clamp_reputation of score + gain.
Raised(score, gain) ==
    IF score + gain > MaxReputation THEN MaxReputation ELSE score + gain

\* build_entry: the reputation of a sensor after its reading was judged.
Judged(rep, outlier) ==
    LET score == IF outlier THEN Lowered(rep.score, Penalty)
                 ELSE Raised(rep.score, Recovery) IN
    [score |-> score,
     excluded |-> IF outlier THEN rep.excluded \/ score < ExcludeBelow
                  ELSE rep.excluded /\ score < ReadmitAt]

\* build_entry: the reading that goes into the batch, invalid if its sensor is
\* excluded, questionable if it is an outlier.
BatchEntry(r, excluded, outlier) ==
    [r EXCEPT !.good = @ /\ ~excluded /\ ~outlier]

\* check_alert: a good entry at the threshold.
Triggers(batch) ==
    \E s \in DOMAIN batch :
        batch[s].good /\ batch[s].level >= Threshold

\* Variant: the count of clean windows goes on after a trigger.
CleanAfterKeepsCount(trigger) ==
    IF alert THEN IF clean + 1 >= ClearWindows THEN 0 ELSE clean + 1 ELSE clean

\* check_alert: m_clean_windows after a batch.
CleanAfter(trigger) ==
    IF trigger THEN 0
    ELSE IF alert THEN (IF clean + 1 >= ClearWindows THEN 0 ELSE clean + 1)
    ELSE clean

\* check_alert: m_alert_active after a batch.
AlertAfter(trigger) == trigger \/ (alert /\ clean + 1 < ClearWindows)

\* How high the water is: every correct sensor reads the threshold or more,
\* or it is so low that no reading within Tolerance of a correct one does.
FloodAt(level) == level >= Threshold + Noise
DryAt(level) == level + Noise + Tolerance < Threshold

\* recent with this window added, and only its last ClearWindows elements.
Remembered ==
    LET all == Append(recent, [flood |-> FloodAt(truth), dry |-> DryAt(truth)])
    IN SubSeq(all, IF Len(all) > ClearWindows THEN 2 ELSE 1, Len(all))

\* on_window_close with enough reporters: judge, check for an alert, submit.
CloseWindow ==
    /\ Cardinality(DOMAIN window) >= MinReporters
    /\ LET after == [s \in Sensor |->
                        IF s \in DOMAIN window
                        THEN Judged(reputation[s], IsOutlier(window, s))
                        ELSE reputation[s]]
           batch == [s \in DOMAIN window |->
                        BatchEntry(window[s], after[s].excluded,
                                   IsOutlier(window, s))]
           trigger == Triggers(batch)
       IN /\ reputation' = after
          /\ alert' = AlertAfter(trigger)
          /\ clean' = CleanAfter(trigger)
    /\ recent' = Remembered
    /\ window' = <<>>
    /\ truth' \in Level
    /\ UNCHANGED slots

\* on_window_close with too few reporters: the readings are dropped.
DropWindow ==
    /\ Cardinality(DOMAIN window) < MinReporters
    /\ window' = <<>>
    /\ truth' \in Level
    /\ UNCHANGED <<slots, reputation, alert, clean, recent>>

Next == CloseWindow \/ DropWindow \/ \E s \in Sensor : Accumulate(s)

Spec == Init /\ [][Next]_vars

-----------------------------------------------------------------------------
(* Properties.                                                             *)

\* While any of the last ClearWindows batches was taken in a flood that every
\* correct sensor sees, the alert is on: a faulty sensor cannot suppress it,
\* and hysteresis does not end it early.
FloodKeepsAlert ==
    (\E i \in DOMAIN recent : recent[i].flood) => alert

\* The alert is on only if the water was within Noise and Tolerance of the
\* threshold in one of the last ClearWindows batches: a faulty sensor can
\* neither raise an alert nor keep it up.
AlertIsJustified ==
    alert => \E i \in DOMAIN recent : ~recent[i].dry

\* A correct sensor never loses reputation, whatever a faulty one reports.
CorrectKeepReputation ==
    \A s \in Sensor \ Faulty :
        /\ reputation[s].score >= Initial
        /\ ~reputation[s].excluded
=============================================================================
