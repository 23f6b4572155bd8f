------------------------- MODULE SensorReplayProofs -------------------------
(***************************************************************************)
(* Proofs about SensorReplay: how far a restarted sensor can fall behind   *)
(* the numbers it has used, and that no fog node accepts a number twice.   *)
(***************************************************************************)
EXTENDS SensorReplay, FiniteSetTheorems, TLAPS

-----------------------------------------------------------------------------
(* Types.                                                                  *)

Table == UNION {[D -> Nat] : D \in SUBSET Sensor}

Types ==
    /\ seq \in [Sensor -> Nat]
    /\ flash \in [Sensor -> Nat]
    /\ sent \in SUBSET Reading
    /\ IsFiniteSet(sent)
    /\ table \in [Fog -> Table]
    /\ accepted \in [Fog -> Seq(Reading)]
    /\ restarts \in Nat

\* A table after one more reading is a table.
LEMMA TableGrows ==
    ASSUME NEW t \in Table, NEW s \in Sensor, NEW n \in Nat
    PROVE  [x \in DOMAIN t \union {s} |-> IF x = s THEN n ELSE t[x]] \in Table
<1>1. PICK D \in SUBSET Sensor : t \in [D -> Nat]
  BY DEF Table
<1>2. [x \in D \union {s} |-> IF x = s THEN n ELSE t[x]] \in [D \union {s} -> Nat]
  BY <1>1
<1>3. D \union {s} \in SUBSET Sensor
  OBVIOUS
<1> QED
  BY <1>1, <1>2, <1>3 DEF Table

\* The empty table is a table.
LEMMA EmptyTable == <<>> \in Table
<1>1. <<>> \in [{} -> Nat]
  OBVIOUS
<1> QED
  BY <1>1 DEF Table

\* Every variable keeps its type.
LEMMA TypesInvariant == Spec => []Types
<1> USE SensorAssumption
<1>1. Init => Types
  <2> SUFFICES ASSUME Init PROVE Types
    OBVIOUS
  <2>1. IsFiniteSet(sent)
    BY FS_EmptySet DEF Init
  <2>2. table \in [Fog -> Table]
    BY EmptyTable DEF Init
  <2> QED
    BY <2>1, <2>2 DEF Init, Types
<1>2. Types /\ [Next]_vars => Types'
  <2> SUFFICES ASSUME Types, [Next]_vars PROVE Types'
    OBVIOUS
  <2>1. ASSUME NEW s \in Sensor, SendSensorData(s) PROVE Types'
    <3>1. Cardinality(sent) \in Nat
      BY FS_CardinalityType DEF Types
    <3>2. IsFiniteSet(sent')
      BY <2>1, FS_AddElement DEF Types, SendSensorData
    <3>3. sent' \in SUBSET Reading
      BY <2>1, <3>1 DEF Types, SendSensorData, Reading
    <3>4. flash' \in [Sensor -> Nat] /\ seq' \in [Sensor -> Nat]
      BY <2>1 DEF Types, SendSensorData, Saved
    <3> QED
      BY <2>1, <3>2, <3>3, <3>4 DEF Types, SendSensorData
  <2>2. ASSUME NEW s \in Sensor, RestartSensor(s) PROVE Types'
    BY <2>2 DEF Types, RestartSensor
  <2>3. ASSUME NEW f \in Fog, RestartFog(f) PROVE Types'
    <3>1. table' \in [Fog -> Table]
      BY <2>3, EmptyTable DEF Types, RestartFog
    <3>2. accepted' \in [Fog -> Seq(Reading)]
      BY <2>3 DEF Types, RestartFog
    <3> QED
      BY <2>3, <3>1, <3>2 DEF Types, RestartFog
  <2>4. ASSUME NEW f \in Fog, NEW r \in sent, OnReading(f, r) PROVE Types'
    <3>1. r \in Reading /\ r.eui \in Sensor /\ r.seq \in Nat
      BY DEF Types, Reading
    <3>2. table[f] \in Table
      BY DEF Types
    <3>3. [s \in DOMAIN table[f] \union {r.eui} |->
              IF s = r.eui THEN r.seq ELSE table[f][s]] \in Table
      BY <3>1, <3>2, TableGrows
    <3>4. table' \in [Fog -> Table]
      BY <2>4, <3>3 DEF Types, OnReading
    <3>5. accepted' \in [Fog -> Seq(Reading)]
      BY <2>4, <3>1 DEF Types, OnReading
    <3> QED
      BY <2>4, <3>4, <3>5 DEF Types, OnReading
  <2>5. CASE UNCHANGED vars
    BY <2>5 DEF Types, vars
  <2> QED
    BY <2>1, <2>2, <2>3, <2>4, <2>5 DEF Next
<1> QED
  BY <1>1, <1>2, PTL DEF Spec

-----------------------------------------------------------------------------
(* Sequence numbers and flash.                                             *)

\* Of two multiples of d, one that is more than the other less d is not less.
LEMMA Multiples ==
    ASSUME NEW d \in Nat \ {0}, NEW a \in Nat, NEW b \in Nat,
           a % d = 0, b % d = 0, b < a + d
    PROVE  b <= a
<1> DEFINE j == a \div d
           k == b \div d
<1>1. j \in Nat /\ k \in Nat
  OBVIOUS
<1>2. a = d * j /\ b = d * k
  OBVIOUS
<1>3. k < j + 1
  <2> SUFFICES ASSUME k >= j + 1 PROVE FALSE
    BY <1>1
  <2> HIDE DEF j, k
  <2>1. d * k >= d * (j + 1)
    BY <1>1
  <2>2. d * (j + 1) = d * j + d
    BY <1>1
  <2> QED
    BY <1>1, <1>2, <2>1, <2>2
<1> HIDE DEF j, k
<1>4. d * k <= d * j
  BY <1>1, <1>3
<1> QED
  BY <1>2, <1>4

\* d more than a multiple of d is a multiple of d.
LEMMA NextMultiple ==
    ASSUME NEW d \in Nat \ {0}, NEW a \in Nat, a % d = 0
    PROVE  (a + d) % d = 0
<1> DEFINE j == a \div d
           q == (a + d) \div d
           r == (a + d) % d
<1>1. j \in Nat /\ q \in Nat /\ r \in Nat
  OBVIOUS
<1>2. a = d * j /\ a + d = d * q + r /\ r < d
  OBVIOUS
<1> HIDE DEF j, q, r
<1>3. a + d = d * (j + 1)
  BY <1>1, <1>2
<1>4. ~(q < j + 1)
  <2> SUFFICES ASSUME q + 1 <= j + 1 PROVE FALSE
    BY <1>1
  <2>1. d * (q + 1) <= d * (j + 1)
    BY <1>1
  <2>2. d * (q + 1) = d * q + d
    BY <1>1
  <2> QED
    BY <1>1, <1>2, <1>3, <2>1, <2>2
<1>5. d * (j + 1) <= d * q
  BY <1>1, <1>4
<1>6. d * q \in Nat
  BY <1>1
<1>7. r = 0
  BY <1>1, <1>2, <1>3, <1>5, <1>6
<1> QED
  BY <1>7 DEF r

\* What flash and the next number say about each other, and about the readings
\* sent: the saved number is a multiple of the step and less than a step above
\* or below the next one, and no reading is a step above either.
FlashBounds ==
    /\ \A s \in Sensor :
          /\ flash[s] % SeqStep = 0
          /\ flash[s] <= seq[s] + SeqStep
          /\ seq[s] < flash[s] + SeqStep
    /\ \A r \in sent : r.seq < flash[r.eui] + SeqStep
    /\ RepeatsBounded

\* FlashBounds is inductive.
LEMMA FlashBoundsInvariant == Spec => []FlashBounds
<1> USE SensorAssumption
<1>1. Init => FlashBounds
  BY DEF Init, FlashBounds, RepeatsBounded
<1>2. Types /\ Types' /\ FlashBounds /\ [Next]_vars => FlashBounds'
  <2> SUFFICES ASSUME Types, Types', FlashBounds, [Next]_vars
               PROVE  FlashBounds'
    OBVIOUS
  <2>0. \A r \in sent : r.eui \in Sensor /\ r.seq \in Nat
    BY DEF Types, Reading
  <2>1. ASSUME NEW s \in Sensor, SendSensorData(s) PROVE FlashBounds'
    <3> DEFINE next == seq[s] + 1
    <3>1. /\ seq[s] \in Nat /\ flash[s] \in Nat
          /\ seq' = [seq EXCEPT ![s] = next]
          /\ flash' = [flash EXCEPT ![s] = Saved(flash[s], next)]
      BY <2>1 DEF Types, SendSensorData
    <3>2. next < flash[s] + SeqStep \/ next % SeqStep = 0
      <4>1. flash[s] % SeqStep = 0 /\ seq[s] < flash[s] + SeqStep
        BY DEF FlashBounds
      <4>2. (flash[s] + SeqStep) % SeqStep = 0
        BY <3>1, <4>1, NextMultiple
      <4>3. next < flash[s] + SeqStep \/ next = flash[s] + SeqStep
        BY <3>1, <4>1
      <4> QED
        BY <4>2, <4>3
    <3>3. next % SeqStep = 0 => flash[s] <= next
      BY <3>1, Multiples DEF FlashBounds
    <3>4. /\ flash'[s] % SeqStep = 0
          /\ flash'[s] <= seq'[s] + SeqStep
          /\ seq'[s] < flash'[s] + SeqStep
          /\ flash[s] <= flash'[s]
      BY <3>1, <3>2, <3>3 DEF FlashBounds, Types, Saved
    <3>5. \A t \in Sensor \ {s} : flash'[t] = flash[t] /\ seq'[t] = seq[t]
      BY <3>1 DEF Types
    <3>6. \A t \in Sensor : flash[t] <= flash'[t] /\ seq[t] <= seq'[t]
      <4>1. seq'[s] = seq[s] + 1
        BY <3>1 DEF Types
      <4>2. \A t \in Sensor : flash[t] \in Nat /\ seq[t] \in Nat
        BY DEF Types
      <4>3. \A t \in Sensor \ {s} : flash[t] <= flash'[t] /\ seq[t] <= seq'[t]
        BY <3>5, <4>2
      <4>4. seq[s] <= seq'[s]
        BY <3>1, <4>1
      <4> QED
        BY <3>4, <4>3, <4>4
    <3>7. ASSUME NEW r \in sent'
          PROVE  r.seq < flash'[r.eui] + SeqStep /\ r.seq < seq'[r.eui] + SeqStep
      <4>1. CASE r \in sent
        <5>1. r.eui \in Sensor /\ r.seq \in Nat
          BY <2>0, <4>1
        <5>2. /\ flash[r.eui] \in Nat /\ flash'[r.eui] \in Nat
              /\ seq[r.eui] \in Nat /\ seq'[r.eui] \in Nat
          BY <5>1 DEF Types
        <5>3. r.seq < flash[r.eui] + SeqStep /\ r.seq < seq[r.eui] + SeqStep
          BY <4>1 DEF FlashBounds, RepeatsBounded
        <5> QED
          BY <3>6, <5>1, <5>2, <5>3
      <4>2. CASE r \notin sent
        <5>1. r.eui = s /\ r.seq = seq[s]
          BY <2>1, <4>2 DEF SendSensorData
        <5>2. seq[s] < flash[s] + SeqStep /\ flash'[s] \in Nat
          BY DEF FlashBounds, Types
        <5> QED
          BY <3>1, <3>4, <5>1, <5>2 DEF Types
      <4> QED
        BY <4>1, <4>2
    <3>8. \A t \in Sensor : /\ flash'[t] % SeqStep = 0
                            /\ flash'[t] <= seq'[t] + SeqStep
                            /\ seq'[t] < flash'[t] + SeqStep
      BY <3>4, <3>5 DEF FlashBounds
    <3> QED
      BY <3>7, <3>8 DEF FlashBounds, RepeatsBounded
  <2>2. ASSUME NEW s \in Sensor, RestartSensor(s) PROVE FlashBounds'
    <3>1. /\ seq[s] \in Nat /\ flash[s] \in Nat
          /\ seq'[s] = flash[s] /\ flash'[s] = flash[s] + SeqStep
          /\ \A t \in Sensor \ {s} : flash'[t] = flash[t] /\ seq'[t] = seq[t]
          /\ sent' = sent
      BY <2>2 DEF Types, RestartSensor
    <3>2. flash'[s] % SeqStep = 0
      BY <3>1, NextMultiple DEF FlashBounds
    <3>3. ASSUME NEW t \in Sensor
          PROVE  /\ flash'[t] % SeqStep = 0
                 /\ flash'[t] <= seq'[t] + SeqStep
                 /\ seq'[t] < flash'[t] + SeqStep
      <4>1. CASE t = s
        <5>1. /\ flash[s] + SeqStep <= flash[s] + SeqStep
              /\ flash[s] < flash[s] + SeqStep + SeqStep
          BY <3>1
        <5> QED
          BY <3>1, <3>2, <4>1, <5>1
      <4>2. CASE t # s
        BY <3>1, <4>2 DEF FlashBounds
      <4> QED
        BY <4>1, <4>2
    <3>4. ASSUME NEW r \in sent
          PROVE  r.seq < flash'[r.eui] + SeqStep /\ r.seq < seq'[r.eui] + SeqStep
      <4>1. r.eui \in Sensor /\ r.seq \in Nat
        BY <2>0
      <4>2. flash[r.eui] \in Nat /\ seq[r.eui] \in Nat
        BY <4>1 DEF Types
      <4>3. r.seq < flash[r.eui] + SeqStep /\ r.seq < seq[r.eui] + SeqStep
        BY DEF FlashBounds, RepeatsBounded
      <4>4. CASE r.eui = s
        BY <3>1, <4>1, <4>2, <4>3, <4>4
      <4>5. CASE r.eui # s
        BY <3>1, <4>1, <4>2, <4>3, <4>5
      <4> QED
        BY <4>4, <4>5
    <3> QED
      BY <3>1, <3>3, <3>4 DEF FlashBounds, RepeatsBounded
  <2>3. ASSUME NEW f \in Fog, RestartFog(f) PROVE FlashBounds'
    BY <2>3 DEF RestartFog, FlashBounds, RepeatsBounded
  <2>4. ASSUME NEW f \in Fog, NEW r \in sent, OnReading(f, r) PROVE FlashBounds'
    BY <2>4 DEF OnReading, FlashBounds, RepeatsBounded
  <2>5. CASE UNCHANGED vars
    BY <2>5 DEF FlashBounds, RepeatsBounded, vars
  <2> QED
    BY <2>1, <2>2, <2>3, <2>4, <2>5 DEF Next
<1> QED
  BY <1>1, <1>2, TypesInvariant, PTL DEF Spec

\* However often a sensor restarts, it falls back by less than SeqStep numbers:
\* sensor_coap.hpp saves often enough that a fog node that has heard all of
\* them ignores at most SeqStep new readings.
THEOREM FallBackIsBounded == Spec => []RepeatsBounded
<1>1. FlashBounds => RepeatsBounded
  BY DEF FlashBounds
<1> QED
  BY <1>1, FlashBoundsInvariant, PTL

-----------------------------------------------------------------------------
(* The replay table.                                                       *)

\* The table of a fog node holds the highest number it has accepted from each
\* sensor it has heard of.
TableIsHighest ==
    \A f \in Fog : \A a \in DOMAIN accepted[f] :
        /\ accepted[f][a].eui \in DOMAIN table[f]
        /\ accepted[f][a].seq <= table[f][accepted[f][a].eui]

\* TableIsHighest and AcceptedOnce are inductive together.
LEMMA TableInvariant == Spec => [](TableIsHighest /\ AcceptedOnce)
<1>1. Init => TableIsHighest /\ AcceptedOnce
  BY DEF Init, TableIsHighest, AcceptedOnce
<1>2. /\ Types /\ TableIsHighest /\ AcceptedOnce /\ [Next]_vars
      => TableIsHighest' /\ AcceptedOnce'
  <2> SUFFICES ASSUME Types, TableIsHighest, AcceptedOnce, [Next]_vars
               PROVE  TableIsHighest' /\ AcceptedOnce'
    OBVIOUS
  <2>1. ASSUME NEW s \in Sensor, SendSensorData(s) \/ RestartSensor(s)
        PROVE  TableIsHighest' /\ AcceptedOnce'
    BY <2>1 DEF SendSensorData, RestartSensor, TableIsHighest, AcceptedOnce
  <2>2. ASSUME NEW f \in Fog, RestartFog(f)
        PROVE  TableIsHighest' /\ AcceptedOnce'
    <3>1. /\ accepted'[f] = <<>>
          /\ \A g \in Fog \ {f} : /\ accepted'[g] = accepted[g]
                                  /\ table'[g] = table[g]
      BY <2>2 DEF RestartFog, Types
    <3> QED
      BY <3>1 DEF TableIsHighest, AcceptedOnce
  <2>3. ASSUME NEW f \in Fog, NEW r \in sent, OnReading(f, r)
        PROVE  TableIsHighest' /\ AcceptedOnce'
    <3> DEFINE old == accepted[f]
               t == table[f]
    <3>1. r.eui \in Sensor /\ r.seq \in Nat /\ r \in Reading
      BY DEF Types, Reading
    <3>2. /\ accepted'[f] = Append(old, r)
          /\ old \in Seq(Reading)
          /\ DOMAIN table'[f] = DOMAIN t \union {r.eui}
          /\ table'[f][r.eui] = r.seq
          /\ \A s \in DOMAIN t \ {r.eui} : table'[f][s] = t[s]
          /\ \A g \in Fog \ {f} : /\ accepted'[g] = accepted[g]
                                  /\ table'[g] = table[g]
      BY <2>3 DEF OnReading, Types
    <3>3. r.eui \in DOMAIN t => t[r.eui] < r.seq
      BY <2>3 DEF OnReading, IsFresh
    <3>4. /\ DOMAIN old = 1 .. Len(old) /\ Len(old) \in Nat
          /\ DOMAIN Append(old, r) = 1 .. Len(old) + 1
          /\ Append(old, r)[Len(old) + 1] = r
          /\ \A a \in DOMAIN old : Append(old, r)[a] = old[a]
          /\ \A a \in DOMAIN old : old[a] \in Reading
      BY <3>1, <3>2
    <3>5. \A a \in DOMAIN old : /\ old[a].eui \in DOMAIN t
                                /\ old[a].seq <= t[old[a].eui]
                                /\ old[a].eui \in Sensor
                                /\ old[a].seq \in Nat
      BY <3>4 DEF TableIsHighest, Reading
    <3>6. \A s \in DOMAIN t : t[s] \in Nat
      <4>1. t \in Table
        BY DEF Types
      <4>2. PICK D \in SUBSET Sensor : t \in [D -> Nat]
        BY <4>1 DEF Table
      <4> QED
        BY <4>2
    <3>7. \A a \in DOMAIN old : old[a].eui = r.eui => old[a].seq < r.seq
      BY <3>1, <3>3, <3>5, <3>6
    <3>8. TableIsHighest'
      <4> SUFFICES ASSUME NEW a \in DOMAIN accepted'[f]
                   PROVE  /\ accepted'[f][a].eui \in DOMAIN table'[f]
                          /\ accepted'[f][a].seq
                                 <= table'[f][accepted'[f][a].eui]
        BY <3>2 DEF TableIsHighest
      <4>1. CASE a = Len(old) + 1
        BY <3>1, <3>2, <3>4, <4>1
      <4>2. CASE a # Len(old) + 1
        <5>1. a \in DOMAIN old /\ accepted'[f][a] = old[a]
          BY <3>2, <3>4, <4>2
        <5>2. CASE old[a].eui = r.eui
          BY <3>1, <3>2, <3>5, <3>7, <5>1, <5>2
        <5>3. CASE old[a].eui # r.eui
          BY <3>2, <3>5, <5>1, <5>3
        <5> QED
          BY <5>2, <5>3
      <4> QED
        BY <4>1, <4>2
    <3>9. AcceptedOnce'
      <4> SUFFICES ASSUME NEW a \in DOMAIN accepted'[f],
                          NEW b \in DOMAIN accepted'[f],
                          accepted'[f][a].eui = accepted'[f][b].eui,
                          accepted'[f][a].seq = accepted'[f][b].seq
                   PROVE  a = b
        <5>1. \A g \in Fog \ {f} : accepted'[g] = accepted[g]
          BY <3>2
        <5> QED
          BY <5>1 DEF AcceptedOnce
      <4>0. /\ a # Len(old) + 1 => a \in DOMAIN old /\ accepted'[f][a] = old[a]
            /\ b # Len(old) + 1 => b \in DOMAIN old /\ accepted'[f][b] = old[b]
            /\ a = Len(old) + 1 => accepted'[f][a] = r
            /\ b = Len(old) + 1 => accepted'[f][b] = r
        BY <3>2, <3>4
      <4>1. CASE a # Len(old) + 1 /\ b # Len(old) + 1
        BY <4>0, <4>1 DEF AcceptedOnce
      <4>2. CASE a = Len(old) + 1 /\ b # Len(old) + 1
        <5>1. old[b].eui = r.eui /\ old[b].seq = r.seq /\ b \in DOMAIN old
          BY <4>0, <4>2
        <5> QED
          BY <3>1, <3>7, <5>1
      <4>3. CASE b = Len(old) + 1 /\ a # Len(old) + 1
        <5>1. old[a].eui = r.eui /\ old[a].seq = r.seq /\ a \in DOMAIN old
          BY <4>0, <4>3
        <5> QED
          BY <3>1, <3>7, <5>1
      <4> QED
        BY <4>1, <4>2, <4>3
    <3> QED
      BY <3>8, <3>9
  <2>4. CASE UNCHANGED vars
    BY <2>4 DEF TableIsHighest, AcceptedOnce, vars
  <2> QED
    BY <2>1, <2>2, <2>3, <2>4 DEF Next
<1> QED
  BY <1>1, <1>2, TypesInvariant, PTL DEF Spec

\* sensor_replay_detection.hpp: no fog node accepts two readings of a sensor
\* with the same number while it is up.
THEOREM ReplaysAreRefused == Spec => []AcceptedOnce
BY TableInvariant, PTL
=============================================================================
