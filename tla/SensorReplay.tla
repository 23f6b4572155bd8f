---------------------------- MODULE SensorReplay ----------------------------
(***************************************************************************)
(* Sequence numbers on the way from the edge sensors to the fog nodes: the *)
(* edge's CoapService numbers its readings and saves every SeqStep-th      *)
(* number in flash, each fog node's SensorReplayDetection accepts a        *)
(* reading only with a higher number than the last one.                    *)
(*                                                                         *)
(* A reading is multicast and unconfirmed: each fog node may get it late,  *)
(* repeatedly, or never, so sent only grows and delivery may pick any of   *)
(* it.  Sensors and fog nodes may restart at any time.                     *)
(***************************************************************************)
EXTENDS Naturals, Sequences, FiniteSets

CONSTANTS
    Sensor,         \* the EUIs of the sensors
    Fog,            \* the fog nodes
    MaxSensors,     \* SensorReplayDetection::MAX_SENSORS, 8
    SeqStep,        \* CoapService::SEQ_STEP, 1000
    MaxReadings,    \* bound: readings of all sensors together
    MaxAccepted,    \* bound: readings accepted by one fog node
    MaxRestarts     \* bound: restarts of all nodes together

ASSUME SensorAssumption ==
    /\ MaxSensors \in Nat
    /\ SeqStep \in Nat \ {0}
    /\ {MaxReadings, MaxAccepted, MaxRestarts} \subseteq Nat

VARIABLES
    seq,        \* m_seq_id of each sensor
    flash,      \* the persisted sequence number of each sensor
    sent,       \* the readings sent so far
    table,      \* m_entries of each fog node: its active entries
    accepted,   \* history: the readings a fog node has accepted since its start
    restarts    \* number of restarts so far

vars == <<seq, flash, sent, table, accepted, restarts>>

\* n tells readings apart that a restarted sensor gives the same number.
Reading == [eui : Sensor, seq : Nat, n : Nat]

\* The first boot: load() finds nothing in flash and yields 0.
Init ==
    /\ seq = [s \in Sensor |-> 0]
    /\ flash = [s \in Sensor |-> SeqStep]
    /\ sent = {}
    /\ table = [f \in Fog |-> <<>>]
    /\ accepted = [f \in Fog |-> <<>>]
    /\ restarts = 0

-----------------------------------------------------------------------------
(* The edge node (sensor_coap.hpp, sequence_persist.hpp).                  *)

\* What flash holds once the next number is next: the number just reached.
Saved(old, next) == IF next % SeqStep = 0 THEN next ELSE old

SendSensorData(s) ==
    LET next == seq[s] + 1 IN
    /\ Cardinality(sent) < MaxReadings
    /\ sent' = sent \union
           {[eui |-> s, seq |-> seq[s], n |-> Cardinality(sent) + 1]}
    /\ seq' = [seq EXCEPT ![s] = next]
    /\ flash' = [flash EXCEPT ![s] = Saved(@, next)]
    /\ UNCHANGED <<table, accepted, restarts>>

\* init() after a reboot: continue at the saved number, save the next step.
RestartSensor(s) ==
    /\ restarts < MaxRestarts
    /\ restarts' = restarts + 1
    /\ seq' = [seq EXCEPT ![s] = flash[s]]
    /\ flash' = [flash EXCEPT ![s] = @ + SeqStep]
    /\ UNCHANGED <<sent, table, accepted>>

-----------------------------------------------------------------------------
(* The fog node (sensor/service.hpp, sensor_replay_detection.hpp).         *)

\* Variant: a number equal to the last one is fresh too.
IsFreshOrEqual(t, r) ==
    IF r.eui \in DOMAIN t THEN t[r.eui] <= r.seq
    ELSE Cardinality(DOMAIN t) < MaxSensors

\* is_fresh: a known sensor must count up, a new one needs a free entry.
IsFresh(t, r) ==
    IF r.eui \in DOMAIN t THEN t[r.eui] < r.seq
    ELSE Cardinality(DOMAIN t) < MaxSensors

\* on_reading, for a reading whose signature is good.
OnReading(f, r) ==
    /\ Len(accepted[f]) < MaxAccepted
    /\ IsFresh(table[f], r)
    /\ table' = [table EXCEPT ![f] =
                    [s \in DOMAIN table[f] \union {r.eui} |->
                        IF s = r.eui THEN r.seq ELSE table[f][s]]]
    /\ accepted' = [accepted EXCEPT ![f] = Append(@, r)]
    /\ UNCHANGED <<seq, flash, sent, restarts>>

\* The table is not persisted.
RestartFog(f) ==
    /\ restarts < MaxRestarts
    /\ restarts' = restarts + 1
    /\ table' = [table EXCEPT ![f] = <<>>]
    /\ accepted' = [accepted EXCEPT ![f] = <<>>]
    /\ UNCHANGED <<seq, flash, sent>>

Next ==
    \/ \E s \in Sensor : SendSensorData(s) \/ RestartSensor(s)
    \/ \E f \in Fog : RestartFog(f) \/ \E r \in sent : OnReading(f, r)

Spec == Init /\ [][Next]_vars

-----------------------------------------------------------------------------
(* Properties.                                                             *)

\* A fog node never accepts a reading twice, nor, of one sensor, two readings
\* with the same number, however often sensors restart and readings repeat.
AcceptedOnce ==
    \A f \in Fog :
        \A a, b \in DOMAIN accepted[f] :
            /\ accepted[f][a].eui = accepted[f][b].eui
            /\ accepted[f][a].seq = accepted[f][b].seq
            => a = b

\* "If we reboot we guarantee we jump into the future" (sensor_coap.hpp): a sensor's
\* next number is above all it ever sent.  send_sensor_data saves the number just
\* reached and not the one a step ahead, so a reboot goes back to it.
NumbersGoForward ==
    \A r \in sent : r.seq < seq[r.eui]

\* What the code does keep: a restarted sensor repeats fewer than SeqStep numbers.
\* After at most SeqStep readings its numbers are above all it ever sent, and fog
\* nodes listen again.
RepeatsBounded ==
    \A r \in sent : r.seq < seq[r.eui] + SeqStep
=============================================================================
