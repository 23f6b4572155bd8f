-------------------------- MODULE AlertWindowProofs --------------------------
(***************************************************************************)
(* Proofs about AlertWindow, for any numbers of fog and edge nodes, any    *)
(* length of the log and any number of elections, restarts and losses.     *)
(***************************************************************************)
EXTENDS AlertWindow, SequenceTheorems, TLAPS

Batch == [alert : BOOLEAN, trigger : BOOLEAN, by : Fog]

-----------------------------------------------------------------------------
(* Types and timers.                                                       *)

LEMMA Periods ==
    /\ Normal \in Nat /\ Normal >= 1 /\ ClearWindows \in Nat /\ ClearWindows >= 1
    /\ Alert = 1 /\ Off = -1
BY AlertWindowAssumption DEF Alert, Off

\* next_boundary_timeout is at least one unit and at most the period.
LEMMA BoundaryRange ==
    ASSUME clock \in 0 .. Normal - 1, NEW p \in {Alert, Normal}
    PROVE  next_boundary(p) \in 1 .. p
<1>1. p \in Int /\ p > 0 /\ clock \in Int
  BY Periods
<1>2. clock % p \in 0 .. p - 1
  BY <1>1
<1> QED BY <1>1, <1>2 DEF next_boundary

\* What the timers of a node owe to where on_window_close is: it is armed
\* outside, it has not expired again within, and a window closed at the pace of
\* the alert is followed by one at that pace unless a packet came in between.
Timed ==
    \A n \in Fog :
        /\ work[n] = "idle" => timer[n] # Off
        /\ work[n] # "idle" => timer[n] # 0
        /\ work[n] = "rearm" => next[n] # Off
        /\ work[n] = "rearm" /\ window[n] = Alert /\ ~late[n] => next[n] = Alert

WindowInv == TypeOK /\ Timed /\ AlertWindowIsPrompt

LEMMA WindowInvInit == Init => WindowInv
<1> SUFFICES ASSUME Init PROVE WindowInv
  OBVIOUS
<1>1. TypeOK
  <2>1. 0 \in 0 .. Len(log) /\ log = <<>> /\ Len(log) = 0
    BY DEF Init
  <2> QED BY <2>1, Periods DEF Init, TypeOK
<1>2. Timed /\ AlertWindowIsPrompt
  <2>1. \A n \in Fog : work[n] = "idle" /\ timer[n] = Normal /\ window[n] = Normal
    BY DEF Init
  <2> QED BY <2>1, Periods DEF Timed, AlertWindowIsPrompt
<1> QED BY <1>1, <1>2 DEF WindowInv
LEMMA WindowExpiresKeeps ==
    ASSUME WindowInv, NEW n \in Fog, WindowExpires(n)
    PROVE  WindowInv'
<1>1. TypeOK'
  BY Periods, SMTT(30) DEF WindowInv, TypeOK, WindowExpires, node, engine
<1>2. Timed' /\ AlertWindowIsPrompt'
  BY Periods DEF WindowInv, TypeOK, Timed, AlertWindowIsPrompt, WindowExpires, node, engine
<1> QED BY <1>1, <1>2 DEF WindowInv

LEMMA CheckAlertType ==
    ASSUME raised \in [Fog -> BOOLEAN], clean \in [Fog -> 0 .. ClearWindows - 1],
           NEW n \in Fog, NEW trigger \in BOOLEAN, check_alert(n, trigger)
    PROVE  raised' \in [Fog -> BOOLEAN] /\ clean' \in [Fog -> 0 .. ClearWindows - 1]
<1> DEFINE c == IF raised[n] /\ ~trigger THEN clean[n] + 1 ELSE 0
<1>1. c \in 0 .. ClearWindows
  BY Periods
<1>2. (IF c = ClearWindows THEN 0 ELSE c) \in 0 .. ClearWindows - 1
  BY <1>1, Periods
<1> QED BY <1>2 DEF check_alert

LEMMA FaultType ==
    ASSUME TypeOK, NEW kind \in {"lost", "election", "restart"}, Fault(kind)
    PROVE  faults' \in Seq({"lost", "election", "restart"})
BY DEF TypeOK, Fault

LEMMA SubmitType ==
    ASSUME TypeOK, NEW n \in Fog, NEW trigger \in BOOLEAN, submit(n, trigger),
           raised' \in [Fog -> BOOLEAN]
    PROVE  /\ log' \in Seq(Batch)
           /\ faults' \in Seq({"lost", "election", "restart"})
           /\ Len(log') \in Nat /\ Len(log') >= Len(log)
<1>1. log \in Seq(Batch)
  BY DEF TypeOK, Batch
<1>2. faults \in Seq({"lost", "election", "restart"})
  BY DEF TypeOK
<1>3. CASE UNCHANGED <<log, faults>>
  BY <1>1, <1>2, <1>3
<1>4. CASE /\ log' = Append(log, [alert |-> raised'[n], trigger |-> trigger, by |-> n])
           /\ UNCHANGED faults
  <2>1. [alert |-> raised'[n], trigger |-> trigger, by |-> n] \in Batch
    BY DEF Batch
  <2> QED BY <2>1, <1>1, <1>2, <1>4, AppendProperties
<1>5. CASE Fault("lost") /\ UNCHANGED log
  BY <1>1, <1>5, FaultType
<1> QED BY <1>3, <1>4, <1>5 DEF submit

LEMMA CloseWindowKeeps ==
    ASSUME WindowInv, NEW n \in Fog, NEW content \in {"few", "low", "high"},
           CloseWindow(n, content)
    PROVE  WindowInv'
<1> USE DEF WindowInv
<1>1. /\ raised' \in [Fog -> BOOLEAN] /\ clean' \in [Fog -> 0 .. ClearWindows - 1]
      /\ log' \in Seq(Batch) /\ Len(log') \in Nat /\ Len(log') >= Len(log)
      /\ faults' \in Seq({"lost", "election", "restart"})
  <2>1. CASE content = "few"
    BY <2>1 DEF CloseWindow, engine, TypeOK, Batch
  <2>2. CASE content # "few"
    <3>1. check_alert(n, content = "high") /\ submit(n, content = "high")
      BY <2>2 DEF CloseWindow
    <3>2. raised' \in [Fog -> BOOLEAN] /\ clean' \in [Fog -> 0 .. ClearWindows - 1]
      <4>1. (content = "high") \in BOOLEAN
        OBVIOUS
      <4> QED BY <4>1, <3>1, CheckAlertType DEF TypeOK
    <3> QED BY <3>1, <3>2, SubmitType
  <2> QED BY <2>1, <2>2
<1>2. TypeOK'
  <2>1. applied' \in [Fog -> 0 .. Len(log')]
    <3>1. applied \in [Fog -> 0 .. Len(log)] /\ applied' = applied /\ Len(log) \in Nat
      BY DEF TypeOK, CloseWindow
    <3> QED BY <3>1, <1>1
  <2> QED BY <1>1, <2>1 DEF TypeOK, CloseWindow, node, Batch
<1>3. Timed' /\ AlertWindowIsPrompt'
  BY Periods, SMTT(30) DEF TypeOK, Timed, AlertWindowIsPrompt, CloseWindow, node
<1> QED BY <1>2, <1>3

LEMMA RearmKeeps ==
    ASSUME WindowInv, NEW n \in Fog, Rearm(n)
    PROVE  WindowInv'
<1> USE DEF WindowInv
<1>1. next[n] \in {Alert, Normal}
  BY DEF Rearm, Timed, TypeOK
<1>2. PICK b \in 1 .. next[n] : b = next_boundary(next[n])
  BY <1>1, BoundaryRange DEF TypeOK
<1>3. timer' = [timer EXCEPT ![n] = b]
  BY <1>2 DEF Rearm
<1>4. b \in Int /\ b >= 1 /\ b <= Normal /\ (next[n] = Alert => b = 1)
  BY <1>1, <1>2, Periods
<1>5. TypeOK'
  BY <1>3, <1>4, Periods, SMTT(30) DEF TypeOK, Rearm, engine
<1>6. Timed' /\ AlertWindowIsPrompt'
  BY <1>3, <1>4, Periods, SMTT(30) DEF TypeOK, Timed, AlertWindowIsPrompt, Rearm
<1> QED BY <1>5, <1>6

\* set_collection_window with one of the two lengths.
LEMMA SetWindowFacts ==
    ASSUME WindowInv, NEW n \in Fog, NEW active \in BOOLEAN,
           set_window(n, WindowOf(active))
    PROVE  /\ window' = [window EXCEPT ![n] = WindowOf(active)]
           /\ WindowOf(active) \in {Alert, Normal}
           /\ timer' \in [Fog -> -1 .. Normal]
           /\ timer'[n] \in 1 .. Normal
           /\ WindowOf(active) = Alert => timer'[n] = 1
           /\ \A m \in Fog \ {n} : timer'[m] = timer[m]
<1>1. WindowOf(active) \in {Alert, Normal}
  BY DEF WindowOf
<1>2. PICK w \in {Alert, Normal} : w = WindowOf(active)
  BY <1>1
<1>3. PICK b \in 1 .. w : b = next_boundary(w)
  BY BoundaryRange DEF WindowInv, TypeOK
<1>4. timer' = [timer EXCEPT ![n] = b] /\ window' = [window EXCEPT ![n] = w]
  BY <1>2, <1>3 DEF set_window
<1>5. b \in Int /\ b >= 1 /\ b <= Normal /\ (w = Alert => b = 1)
  BY <1>3, Periods
<1> QED BY <1>2, <1>4, <1>5, Periods DEF WindowInv, TypeOK
\* What is sent is a packet.
LEMMA SendType ==
    ASSUME TypeOK, NEW n \in Fog, NEW active \in BOOLEAN, send_alert(n, active)
    PROVE  packets' \subseteq [from : Fog, active : BOOLEAN]
BY DEF send_alert, TypeOK

\* on_apply reads a batch of the log.
LEMMA NextBatch ==
    ASSUME TypeOK, NEW n \in Fog, Apply(n)
    PROVE  /\ applied'[n] = applied[n] + 1
           /\ applied'[n] \in 1 .. Len(log)
           /\ log[applied'[n]] \in Batch
           /\ log[applied'[n]].alert \in BOOLEAN
<1>1. applied'[n] = applied[n] + 1 /\ applied[n] \in 0 .. Len(log) /\ applied[n] < Len(log)
  BY DEF TypeOK, Apply
<1>2. log \in Seq(Batch) /\ Len(log) \in Nat
  BY DEF TypeOK, Batch
<1>3. applied'[n] \in 1 .. Len(log)
  BY <1>1, <1>2
<1>4. log[applied'[n]] \in Batch
  BY <1>2, <1>3, ElementOfSeq
<1> QED BY <1>1, <1>3, <1>4 DEF Batch

LEMMA ApplyKeeps ==
    ASSUME WindowInv, NEW n \in Fog, Apply(n)
    PROVE  WindowInv'
<1> USE DEF WindowInv
<1>1. PICK batch \in Batch : batch = log[applied'[n]] /\ batch.alert \in BOOLEAN
  BY NextBatch
<1>2. check_entry(n, batch)
  BY <1>1 DEF Apply
<1>3. /\ applied' \in [Fog -> 0 .. Len(log)] /\ log' = log
      /\ UNCHANGED <<leader, work, next, engine, edge, clock, faults, late>>
      /\ work[n] # "rearm"
      /\ own' = [own EXCEPT ![n] = @ \/ (n = leader /\ flag'[n] # flag[n])]
  <2>1. applied'[n] \in 0 .. Len(log)
    BY NextBatch
  <2> QED BY <2>1 DEF Apply, TypeOK
<1>4. own' \in [Fog -> BOOLEAN]
  BY <1>3 DEF TypeOK
<1>5. CASE batch.alert = flag[n]
  <2>1. UNCHANGED <<node, packets>>
    BY <1>2, <1>5 DEF check_entry
  <2> QED BY <2>1, <1>3, <1>4 DEF TypeOK, Timed, AlertWindowIsPrompt, node, engine
<1>6. CASE batch.alert # flag[n]
  <2>1. /\ flag' = [flag EXCEPT ![n] = batch.alert]
        /\ send_alert(n, batch.alert)
        /\ set_window(n, WindowOf(batch.alert))
    BY <1>2, <1>6 DEF check_entry
  <2>2. PICK w \in {Alert, Normal} :
            /\ window' = [window EXCEPT ![n] = w]
            /\ timer' \in [Fog -> -1 .. Normal]
            /\ timer'[n] \in 1 .. Normal
            /\ w = Alert => timer'[n] = 1
            /\ \A m \in Fog \ {n} : timer'[m] = timer[m]
    BY <1>1, <2>1, SetWindowFacts
  <2>3. packets' \subseteq [from : Fog, active : BOOLEAN]
    BY <1>1, <2>1, SendType
  <2>4. TypeOK'
    BY <1>1, <1>3, <1>4, <2>1, <2>2, <2>3 DEF TypeOK, engine
  <2>5. window'[n] = w /\ \A m \in Fog \ {n} : window'[m] = window[m]
    BY <2>2 DEF TypeOK
  <2>6. timer'[n] # Off /\ timer'[n] # 0 /\ (w = Alert => timer'[n] <= Alert)
    BY <2>2, Periods
  <2>7. Timed' /\ AlertWindowIsPrompt'
    <3>1. Timed'
      BY <1>3, <2>2, <2>5, <2>6, Zenon DEF Timed
    <3>2. AlertWindowIsPrompt'
      BY <1>3, <2>2, <2>5, <2>6, Zenon DEF AlertWindowIsPrompt
    <3> QED BY <3>1, <3>2
  <2> QED BY <2>4, <2>7
<1> QED BY <1>5, <1>6

LEMMA HandleAlertKeeps ==
    ASSUME WindowInv, NEW n \in Fog, NEW p \in packets, HandleAlert(n, p)
    PROVE  WindowInv'
<1> USE DEF WindowInv
<1>1. PICK active \in BOOLEAN : active = p.active
  BY DEF TypeOK
<1>2. /\ UNCHANGED <<leader, log, applied, flag, work, next, engine, edge, packets,
                     clock, faults, own>>
      /\ set_window(n, WindowOf(active))
      /\ late' = [late EXCEPT ![n] = work[n] = "rearm"]
  BY <1>1 DEF HandleAlert
<1>3. PICK w \in {Alert, Normal} :
          /\ window' = [window EXCEPT ![n] = w]
          /\ timer' \in [Fog -> -1 .. Normal]
          /\ timer'[n] \in 1 .. Normal
          /\ w = Alert => timer'[n] = 1
          /\ \A m \in Fog \ {n} : timer'[m] = timer[m]
  BY <1>2, SetWindowFacts
<1>4. late' \in [Fog -> BOOLEAN]
  BY <1>2 DEF TypeOK
<1>5. TypeOK'
  BY <1>2, <1>3, <1>4 DEF TypeOK, engine
<1>6. late'[n] <=> work[n] = "rearm"
  BY <1>2 DEF TypeOK
<1>7. \A m \in Fog \ {n} : late'[m] = late[m] /\ window'[m] = window[m]
  BY <1>2, <1>3 DEF TypeOK
<1>8. window'[n] = w
  BY <1>3 DEF TypeOK
<1>9. timer'[n] # Off /\ timer'[n] # 0 /\ (w = Alert => timer'[n] <= Alert)
  BY <1>3, Periods
<1>10. Timed'
  <2>1. UNCHANGED <<work, next>>
    BY <1>2
  <2> QED BY <2>1, <1>3, <1>6, <1>7, <1>8, <1>9, Zenon DEF Timed
<1>11. AlertWindowIsPrompt'
  BY <1>3, <1>7, <1>8, <1>9, Zenon DEF AlertWindowIsPrompt
<1> QED BY <1>5, <1>10, <1>11

LEMMA EdgeAlertKeeps ==
    ASSUME WindowInv, NEW e \in Edge, NEW p \in packets, EdgeAlert(e, p)
    PROVE  WindowInv'
<1> USE DEF WindowInv
<1>1. p.active \in BOOLEAN
  BY DEF TypeOK
<1>2. edge' \in [Edge -> BOOLEAN]
  BY <1>1 DEF EdgeAlert, TypeOK
<1>3. UNCHANGED <<leader, log, applied, node, work, next, engine, packets, clock,
                  faults, late, own>>
  BY DEF EdgeAlert
<1> QED BY <1>2, <1>3 DEF TypeOK, Timed, AlertWindowIsPrompt, node, engine

LEMMA ElectKeeps ==
    ASSUME WindowInv, NEW n \in Fog, Elect(n)
    PROVE  WindowInv'
<1> USE DEF WindowInv
<1>1. leader' \in Fog /\ own' \in [Fog -> BOOLEAN] /\ faults' \in Seq({"lost", "election", "restart"})
  BY FaultType DEF Elect
<1>2. UNCHANGED <<log, applied, node, work, next, engine, edge, packets, clock, late>>
  BY DEF Elect
<1> QED BY <1>1, <1>2 DEF TypeOK, Timed, AlertWindowIsPrompt, node, engine

LEMMA RestartKeeps ==
    ASSUME WindowInv, NEW n \in Fog, Restart(n)
    PROVE  WindowInv'
<1> USE DEF WindowInv
<1>1. PICK b \in 1 .. Normal : b = next_boundary(Normal)
  BY BoundaryRange DEF TypeOK
<1>2. timer' = [timer EXCEPT ![n] = b] /\ b \in Int /\ b >= 1 /\ b <= Normal
  BY <1>1, Periods DEF Restart
<1>3. faults' \in Seq({"lost", "election", "restart"})
  BY FaultType DEF Restart
<1>4. TypeOK'
  <2>1. Len(log) \in Nat
    BY DEF TypeOK
  <2> QED BY <1>2, <1>3, <2>1, Periods, SMTT(30) DEF TypeOK, Restart
<1>5. Timed' /\ AlertWindowIsPrompt'
  BY <1>2, Periods, SMTT(30) DEF TypeOK, Timed, AlertWindowIsPrompt, Restart
<1> QED BY <1>4, <1>5

LEMMA TickKeeps ==
    ASSUME WindowInv, Tick
    PROVE  WindowInv'
<1> USE DEF WindowInv
<1>1. \A n \in Fog : timer[n] \in 1 .. Normal /\ work[n] = "idle"
  <2>1. \A n \in Fog : work[n] = "idle" /\ timer[n] # 0 /\ timer[n] # Off
    BY DEF Tick, Timed
  <2>2. \A n \in Fog : timer[n] \in -1 .. Normal
    BY DEF TypeOK
  <2> QED BY <2>1, <2>2, Periods
<1>2. timer' \in [Fog -> -1 .. Normal] /\ \A n \in Fog : timer'[n] = timer[n] - 1
  BY <1>1, Periods DEF Tick
<1>3. clock' \in 0 .. Normal - 1
  <2>1. clock + 1 \in Int /\ Normal \in Int /\ Normal > 0
    BY Periods DEF TypeOK
  <2> QED BY <2>1 DEF Tick
<1>4. UNCHANGED <<leader, log, applied, flag, window, work, next, engine, edge,
                  packets, faults, late, own>>
  BY DEF Tick
<1>5. TypeOK'
  BY <1>2, <1>3, <1>4 DEF TypeOK, engine
<1>6. Timed' /\ AlertWindowIsPrompt'
  BY <1>1, <1>2, <1>4, Periods, SMTT(30) DEF TypeOK, Timed, AlertWindowIsPrompt
<1> QED BY <1>5, <1>6

LEMMA WindowInvStep == WindowInv /\ [Next]_vars => WindowInv'
<1> SUFFICES ASSUME WindowInv, [Next]_vars PROVE WindowInv'
  OBVIOUS
<1>1. CASE UNCHANGED vars
  BY <1>1 DEF WindowInv, TypeOK, Timed, AlertWindowIsPrompt, vars, node, engine
<1>2. CASE \E n \in Fog : WindowExpires(n) \/ Rearm(n) \/ Apply(n) \/ Elect(n) \/ Restart(n)
  BY <1>2, WindowExpiresKeeps, RearmKeeps, ApplyKeeps, ElectKeeps, RestartKeeps
<1>3. CASE \E n \in Fog, content \in {"few", "low", "high"} : CloseWindow(n, content)
  BY <1>3, CloseWindowKeeps
<1>4. CASE \/ \E n \in Fog, p \in packets : HandleAlert(n, p)
           \/ \E e \in Edge, p \in packets : EdgeAlert(e, p)
  BY <1>4, HandleAlertKeeps, EdgeAlertKeeps
<1>5. CASE Tick
  BY <1>5, TickKeeps
<1> QED BY <1>1, <1>2, <1>3, <1>4, <1>5 DEF Next

\* Every state has its types and its timers in order.
THEOREM WindowInvariant == Spec => []WindowInv
<1> QED BY WindowInvInit, WindowInvStep, PTL DEF Spec

\* VoteService never stops closing windows: outside on_window_close its timer
\* runs, whatever packets re-align it and wherever a restart finds it.
THEOREM WindowsGoOn == Spec => []WindowIsArmed
<1>1. WindowInv => WindowIsArmed
  BY DEF WindowInv, Timed, WindowIsArmed
<1> QED BY <1>1, WindowInvariant, PTL

\* A node that has switched to the alert's window waits at most one such window,
\* unless a packet switched it within on_window_close.
THEOREM AlertPaceAtOnce == Spec => []AlertWindowIsPrompt
<1>1. WindowInv => AlertWindowIsPrompt
  BY DEF WindowInv
<1> QED BY <1>1, WindowInvariant, PTL
-----------------------------------------------------------------------------
(* The end of an alert.  As long as one node leads and its batches commit, *)
(* its engine's flag is that of the last batch of the log, and its count   *)
(* of clean windows is no more than the clean batches at the end of it.    *)

Quiet == {"lost", "election"} \intersect ToSet(faults) = {}

CleanFrom(batches, i, k) == \A j \in i .. k : ~batches[j].trigger

CountInv ==
    Quiet =>
        /\ raised[leader] <=> (Len(log) > 0 /\ log[Len(log)].alert)
        /\ raised[leader] =>
              /\ clean[leader] <= Len(log)
              /\ CleanFrom(log, Len(log) - clean[leader] + 1, Len(log))

\* A fault is never forgotten.
LEMMA FaultRecorded ==
    ASSUME TypeOK, NEW kind \in {"lost", "election", "restart"}, Fault(kind)
    PROVE  ToSet(faults) \subseteq ToSet(faults') /\ kind \in ToSet(faults')
<1>1. faults \in Seq({"lost", "election", "restart"}) /\ faults' = Append(faults, kind)
  BY DEF TypeOK, Fault
<1>2. /\ Len(faults') = Len(faults) + 1 /\ Len(faults) \in Nat
      /\ DOMAIN faults = 1 .. Len(faults) /\ DOMAIN faults' = 1 .. Len(faults) + 1
      /\ faults'[Len(faults) + 1] = kind
      /\ \A i \in 1 .. Len(faults) : faults'[i] = faults[i]
  BY <1>1
<1>3. Len(faults) + 1 \in DOMAIN faults' /\ DOMAIN faults \subseteq DOMAIN faults'
  BY <1>2
<1> QED BY <1>2, <1>3 DEF ToSet

LEMMA CountInvInit == Init => CountInv
BY DEF Init, CountInv

\* A window of the leader is closed and its batch commits.
LEMMA CloseCounts ==
    ASSUME TypeOK, CountInv, ClearedAfterCleanWindows, Quiet, Quiet',
           NEW n \in Fog, n = leader, leader' = leader, NEW trigger \in BOOLEAN,
           check_alert(n, trigger),
           log' = Append(log, [alert |-> raised'[n], trigger |-> trigger, by |-> n])
    PROVE  CountInv' /\ ClearedAfterCleanWindows'
<1> DEFINE c == IF raised[n] /\ ~trigger THEN clean[n] + 1 ELSE 0
<1>1. PICK len \in Nat : len = Len(log)
  BY DEF TypeOK
<1>2. /\ raised[n] \in BOOLEAN /\ raised'[n] \in BOOLEAN
      /\ clean[n] \in Nat /\ clean[n] < ClearWindows
      /\ raised'[n] <=> (trigger \/ (raised[n] /\ c < ClearWindows))
      /\ clean'[n] = IF c = ClearWindows THEN 0 ELSE c
  BY Periods DEF TypeOK, check_alert
<1>3. /\ Len(log') = len + 1
      /\ \A j \in 1 .. len : log'[j] = log[j]
      /\ log'[len + 1].alert = raised'[n] /\ log'[len + 1].trigger = trigger
  BY <1>1 DEF TypeOK
<1>4. /\ raised[n] <=> (len > 0 /\ log[len].alert)
      /\ raised[n] => clean[n] <= len /\ CleanFrom(log, len - clean[n] + 1, len)
  BY <1>1 DEF CountInv
<1>5. raised[n] /\ ~trigger =>
          /\ clean[n] + 1 <= len + 1
          /\ CleanFrom(log', len + 1 - (clean[n] + 1) + 1, len + 1)
  <2> SUFFICES ASSUME raised[n], ~trigger
               PROVE  /\ clean[n] + 1 <= len + 1
                      /\ CleanFrom(log', len + 1 - (clean[n] + 1) + 1, len + 1)
    OBVIOUS
  <2>1. clean[n] <= len
    BY <1>4
  <2>2. ASSUME NEW j \in len + 1 - (clean[n] + 1) + 1 .. len + 1
        PROVE  ~log'[j].trigger
    <3>1. CASE j = len + 1
      BY <3>1, <1>3
    <3>2. CASE j # len + 1
      <4>1. j \in len - clean[n] + 1 .. len /\ j \in 1 .. len
        BY <3>2, <2>1, <1>2, SMTT(30)
      <4> QED BY <4>1, <1>3, <1>4 DEF CleanFrom
    <3> QED BY <3>1, <3>2
  <2>3. clean[n] + 1 <= len + 1
    BY <2>1, <1>2
  <2> QED BY <2>2, <2>3, Zenon DEF CleanFrom
<1>6. CountInv'
  <2>1. raised'[n] <=> (Len(log') > 0 /\ log'[Len(log')].alert)
    <3>1. Len(log') > 0
      BY <1>3
    <3> QED BY <3>1, <1>2, <1>3
  <2>2. ASSUME raised'[n]
        PROVE  /\ clean'[n] <= Len(log')
               /\ CleanFrom(log', Len(log') - clean'[n] + 1, Len(log'))
    <3>1. CASE trigger
      <4>1. clean'[n] = 0
        BY <3>1, <1>2, Periods
      <4> QED BY <4>1, <1>3 DEF CleanFrom
    <3>2. CASE ~trigger
      <4>1. raised[n] /\ clean'[n] = clean[n] + 1
        BY <3>2, <2>2, <1>2, Periods
      <4>2. clean[n] + 1 <= len + 1 /\ CleanFrom(log', len + 1 - (clean[n] + 1) + 1, len + 1)
        BY <4>1, <3>2, <1>5
      <4>3. Len(log') - clean'[n] + 1 = len + 1 - (clean[n] + 1) + 1
        BY <4>1, <1>2, <1>3
      <4>4. CleanFrom(log', Len(log') - clean'[n] + 1, Len(log'))
        BY <4>2, <4>3, <1>3, Zenon
      <4> QED BY <4>1, <4>2, <4>4, <1>3
    <3> QED BY <3>1, <3>2
  <2> QED BY <2>1, <2>2 DEF CountInv
<1>7. ClearedAfterCleanWindows'
  <2> SUFFICES ASSUME NEW k \in 2 .. Len(log'), log'[k-1].alert, ~log'[k].alert
               PROVE  k >= ClearWindows /\ CleanFrom(log', k - ClearWindows + 1, k)
    BY DEF ClearedAfterCleanWindows, CleanFrom
  <2>1. k \in 2 .. len + 1 /\ k - 1 \in 1 .. len
    BY <1>3
  <2>2. CASE k # len + 1
    <3>1. k \in 2 .. len /\ k \in 1 .. len
      BY <2>1, <2>2
    <3>2. log[k-1].alert /\ ~log[k].alert
      BY <3>1, <2>1, <1>3
    <3>3. k >= ClearWindows /\ \A j \in k - ClearWindows + 1 .. k : ~log[j].trigger
      BY <3>1, <3>2, <1>1 DEF ClearedAfterCleanWindows, Quiet
    <3>4. \A j \in k - ClearWindows + 1 .. k : j \in 1 .. len
      BY <3>1, <3>3, Periods
    <3> QED BY <3>3, <3>4, <1>3 DEF CleanFrom
  <2>3. CASE k = len + 1
    <3>1. ~raised'[n] /\ raised[n] /\ ~trigger
      <4>1. len > 0 /\ log'[len] = log[len] /\ k - 1 = len
        BY <2>1, <2>3, <1>3
      <4> QED BY <4>1, <2>3, <1>2, <1>3, <1>4
    <3>2. clean[n] + 1 = ClearWindows
      BY <3>1, <1>2, Periods
    <3>3. clean[n] + 1 <= len + 1 /\ CleanFrom(log', len + 1 - (clean[n] + 1) + 1, len + 1)
      BY <3>1, <1>5
    <3>4. CleanFrom(log', k - ClearWindows + 1, k)
      <4>1. k - ClearWindows + 1 = len + 1 - (clean[n] + 1) + 1
        BY <3>2, <2>3, <1>2, Periods
      <4> QED BY <4>1, <3>3, <2>3, Zenon
    <3>5. k >= ClearWindows
      BY <3>2, <3>3, <2>3, Periods
    <3> QED BY <3>4, <3>5
  <2> QED BY <2>2, <2>3
<1> QED BY <1>6, <1>7

\* Steps that leave the log and the leader's engine alone.
LEMMA CountFrame ==
    ASSUME CountInv, ClearedAfterCleanWindows, ToSet(faults) \subseteq ToSet(faults'),
           log' = log, leader' = leader, raised'[leader] = raised[leader],
           clean'[leader] = clean[leader]
    PROVE  CountInv' /\ ClearedAfterCleanWindows'
<1>1. Quiet' => Quiet
  BY DEF Quiet
<1> QED BY <1>1 DEF CountInv, ClearedAfterCleanWindows, Quiet

LEMMA CountStep ==
    ASSUME TypeOK, CountInv, ClearedAfterCleanWindows, [Next]_vars
    PROVE  CountInv' /\ ClearedAfterCleanWindows'
<1> SUFFICES ASSUME Quiet' PROVE CountInv' /\ ClearedAfterCleanWindows'
  BY DEF CountInv, ClearedAfterCleanWindows, Quiet
<1>1. CASE \E n \in Fog, content \in {"few", "low", "high"} : CloseWindow(n, content)
  <2>1. PICK n \in Fog, content \in {"few", "low", "high"} : CloseWindow(n, content)
    BY <1>1
  <2>2. leader' = leader /\ leader \in Fog
    BY <2>1 DEF CloseWindow, TypeOK
  <2>3. CASE content = "few"
    BY <2>1, <2>2, <2>3, CountFrame DEF CloseWindow, engine
  <2>4. CASE content # "few" /\ n # leader
    <3>1. UNCHANGED <<log, faults>> /\ check_alert(n, content = "high")
      BY <2>1, <2>4 DEF CloseWindow, submit
    <3>2. raised'[leader] = raised[leader] /\ clean'[leader] = clean[leader]
      BY <3>1, <2>2, <2>4 DEF check_alert, TypeOK
    <3> QED BY <3>1, <3>2, <2>2, CountFrame
  <2>5. CASE content # "few" /\ n = leader
    <3>1. PICK trigger \in BOOLEAN : trigger = (content = "high")
      OBVIOUS
    <3>2. check_alert(n, trigger) /\ submit(n, trigger)
      BY <2>1, <2>5, <3>1 DEF CloseWindow
    <3>3. CASE Fault("lost")
      BY <3>3, FaultRecorded DEF Quiet
    <3>4. CASE /\ log' = Append(log, [alert |-> raised'[n], trigger |-> trigger, by |-> n])
               /\ UNCHANGED faults
      <4>1. Quiet
        BY <3>4 DEF Quiet
      <4> QED BY <4>1, <3>2, <3>4, <2>2, <2>5, CloseCounts
    <3> QED BY <3>2, <3>3, <3>4, <2>5 DEF submit
  <2> QED BY <2>3, <2>4, <2>5
<1>2. CASE \/ UNCHANGED vars
           \/ \E n \in Fog : WindowExpires(n) \/ Rearm(n) \/ Apply(n)
           \/ \E n \in Fog, p \in packets : HandleAlert(n, p)
           \/ \E e \in Edge, p \in packets : EdgeAlert(e, p)
           \/ Tick
  <2>1. UNCHANGED <<log, leader, raised, clean, faults>>
    BY <1>2 DEF vars, WindowExpires, Rearm, Apply, HandleAlert, EdgeAlert, Tick, engine
  <2> QED BY <2>1, CountFrame
<1>3. CASE \E n \in Fog : Elect(n)
  BY <1>3, FaultRecorded DEF Elect, Quiet
<1>4. CASE \E n \in Fog : Restart(n)
  <2>1. PICK n \in Fog : Restart(n)
    BY <1>4
  <2>2. log' = log /\ leader' = leader /\ leader \in Fog /\ n # leader
    BY <2>1 DEF Restart, TypeOK
  <2>3. raised'[leader] = raised[leader] /\ clean'[leader] = clean[leader]
    BY <2>1, <2>2 DEF Restart, TypeOK
  <2>4. ToSet(faults) \subseteq ToSet(faults')
    BY <2>1, FaultRecorded DEF Restart
  <2> QED BY <2>2, <2>3, <2>4, CountFrame
<1> QED BY <1>1, <1>2, <1>3, <1>4 DEF Next

\* While one node leads and its batches commit, no alert is called off before
\* m_alert_clear_windows batches in a row without a trigger, for every log.
THEOREM AlertEndsInTime == Spec => []ClearedAfterCleanWindows
<1>1. Init => ClearedAfterCleanWindows
  BY DEF Init, ClearedAfterCleanWindows
<1>2. WindowInv => TypeOK
  BY DEF WindowInv
<1> QED BY <1>1, <1>2, WindowInvariant, CountInvInit, CountStep, PTL DEF Spec
-----------------------------------------------------------------------------
(* What the nodes go by.  The flag of a node is that of the last batch it  *)
(* applied, and everything else that says alert goes back to such a flag.  *)

FlagInv == \A m \in Fog : flag[m] <=> (applied[m] > 0 /\ log[applied[m]].alert)

Committed == \E k \in DOMAIN log : log[k].alert

SourceInv ==
    /\ FlagInv
    /\ \A p \in packets : p.active => Committed
    /\ \A n \in Fog : window[n] # Normal => Committed
    /\ \A e \in Edge : edge[e] => Committed
    /\ \A n \in Fog :
          own[n] => n = leader /\ applied[n] > 0 /\ window[n] = WindowOf(flag[n])

LEMMA SourceInvInit == Init => SourceInv
BY DEF Init, SourceInv, FlagInv

LEMMA LogGrows ==
    ASSUME TypeOK, log' = log \/ \E b \in Batch : log' = Append(log, b)
    PROVE  /\ Len(log') \in Nat /\ Len(log') >= Len(log)
           /\ \A k \in 1 .. Len(log) : log'[k] = log[k]
<1>1. log \in Seq(Batch) /\ Len(log) \in Nat
  BY DEF TypeOK, Batch
<1>2. CASE log' = log
  BY <1>1, <1>2
<1>3. CASE \E b \in Batch : log' = Append(log, b)
  BY <1>1, <1>3, AppendProperties
<1> QED BY <1>2, <1>3

\* The flag of a node is that of the last batch it applied.
LEMMA FlagKept ==
    ASSUME TypeOK, FlagInv, UNCHANGED <<flag, applied>>,
           log' = log \/ \E b \in Batch : log' = Append(log, b)
    PROVE  FlagInv'
<1>1. ASSUME NEW m \in Fog
      PROVE  flag'[m] <=> (applied'[m] > 0 /\ log'[applied'[m]].alert)
  <2>1. Len(log) \in Nat /\ applied[m] \in 0 .. Len(log)
    BY DEF TypeOK
  <2>2. \A k \in 1 .. Len(log) : log'[k] = log[k]
    BY LogGrows
  <2>3. applied[m] > 0 => applied[m] \in 1 .. Len(log)
    BY <2>1
  <2> QED BY <2>2, <2>3 DEF FlagInv
<1> QED BY <1>1 DEF FlagInv

\* An alert that is in the log stays in it.
LEMMA CommittedKept ==
    ASSUME TypeOK, Committed, log' = log \/ \E b \in Batch : log' = Append(log, b)
    PROVE  Committed'
<1>1. PICK k \in 1 .. Len(log) : log[k].alert
  <2>1. log \in Seq(Batch)
    BY DEF TypeOK, Batch
  <2>2. DOMAIN log = 1 .. Len(log)
    BY <2>1
  <2> QED BY <2>2 DEF Committed
<1>2. Len(log') \in Nat /\ Len(log') >= Len(log) /\ log'[k] = log[k]
  BY LogGrows
<1>3. log \in Seq(Batch) /\ Len(log) \in Nat
  BY DEF TypeOK, Batch
<1>4. log' \in Seq(Batch)
  BY <1>3, AppendProperties
<1>5. DOMAIN log' = 1 .. Len(log')
  BY <1>4
<1>6. k \in DOMAIN log'
  <2>1. k \in 1 .. Len(log')
    BY <1>2, <1>3
  <2> QED BY <2>1, <1>5, Zenon
<1> QED BY <1>1, <1>2, <1>6 DEF Committed

\* Steps in which nothing is said, heard or applied.
LEMMA SourceFrame ==
    ASSUME TypeOK, SourceInv, UNCHANGED <<flag, applied, packets, edge, window>>,
           log' = log \/ \E b \in Batch : log' = Append(log, b),
           UNCHANGED <<leader, own>> \/ \A n \in Fog : ~own'[n]
    PROVE  SourceInv'
<1>1. FlagInv'
  BY FlagKept DEF SourceInv
<1>2. Committed => Committed'
  BY CommittedKept
<1>3. ASSUME NEW n \in Fog, own'[n]
      PROVE  n = leader' /\ applied'[n] > 0 /\ window'[n] = WindowOf(flag'[n])
  BY <1>3 DEF SourceInv
<1> QED BY <1>1, <1>2, <1>3 DEF SourceInv, WindowOf

LEMMA CloseWindowSource ==
    ASSUME TypeOK, SourceInv, NEW n \in Fog, NEW content \in {"few", "low", "high"},
           CloseWindow(n, content)
    PROVE  SourceInv'
<1>1. UNCHANGED <<flag, applied, packets, edge, window, leader, own>>
  BY DEF CloseWindow, node
<1>2. CASE content = "few"
  BY <1>1, <1>2, SourceFrame DEF CloseWindow
<1>3. CASE content # "few"
  <2>1. PICK trigger \in BOOLEAN : trigger = (content = "high")
    OBVIOUS
  <2>2. check_alert(n, trigger) /\ submit(n, trigger)
    BY <1>3, <2>1 DEF CloseWindow
  <2>3. raised' \in [Fog -> BOOLEAN]
    BY <2>2, CheckAlertType DEF TypeOK
  <2>4. [alert |-> raised'[n], trigger |-> trigger, by |-> n] \in Batch
    BY <2>3 DEF Batch
  <2>5. log' = log \/ \E b \in Batch : log' = Append(log, b)
    BY <2>2, <2>4 DEF submit
  <2> QED BY <1>1, <2>5, SourceFrame
<1> QED BY <1>2, <1>3

\* The node that applies a batch says and does what the batch says.
LEMMA ApplySource ==
    ASSUME TypeOK, SourceInv, NEW n \in Fog, Apply(n)
    PROVE  SourceInv'
<1>1. PICK b \in BOOLEAN : b = log[applied[n] + 1].alert
  BY NextBatch
<1>2. /\ UNCHANGED <<log, edge, leader>>
      /\ applied' = [applied EXCEPT ![n] = applied[n] + 1]
      /\ check_entry(n, log[applied'[n]])
      /\ applied'[n] = applied[n] + 1 /\ applied[n] \in Nat
      /\ own'[n] <=> (own[n] \/ (n = leader /\ flag'[n] # flag[n]))
      /\ \A m \in Fog \ {n} : applied'[m] = applied[m] /\ own'[m] = own[m]
  <2>1. /\ UNCHANGED <<log, edge, leader>>
        /\ applied' = [applied EXCEPT ![n] = applied[n] + 1]
        /\ check_entry(n, log[applied'[n]])
        /\ own' = [own EXCEPT ![n] = @ \/ (n = leader /\ flag'[n] # flag[n])]
    BY DEF Apply
  <2>2. applied \in [Fog -> 0 .. Len(log)] /\ own \in [Fog -> BOOLEAN] /\ Len(log) \in Nat
    BY DEF TypeOK
  <2>3. applied'[n] = applied[n] + 1 /\ applied[n] \in Nat
    BY <2>1, <2>2
  <2>4. \A m \in Fog \ {n} : applied'[m] = applied[m] /\ own'[m] = own[m]
    BY <2>1, <2>2
  <2>5. own'[n] <=> (own[n] \/ (n = leader /\ flag'[n] # flag[n]))
    BY <2>1, <2>2, Zenon
  <2> QED BY <2>1, <2>3, <2>4, <2>5
<1>3. applied[n] + 1 \in DOMAIN log
  <2>1. log \in Seq(Batch)
    BY DEF TypeOK, Batch
  <2>2. DOMAIN log = 1 .. Len(log)
    BY <2>1
  <2> QED BY <2>2, NextBatch
<1>4. Committed' <=> Committed
  BY <1>2 DEF Committed
<1>5. b => Committed
  BY <1>1, <1>3 DEF Committed
<1>6. CASE b = flag[n]
  <2>1. UNCHANGED <<flag, window, packets>>
    BY <1>1, <1>2, <1>6 DEF check_entry, node
  <2>2. FlagInv'
    <3>1. flag'[n] <=> (applied'[n] > 0 /\ log'[applied'[n]].alert)
      <4>1. applied'[n] > 0 /\ log'[applied'[n]].alert = b
        BY <1>1, <1>2
      <4> QED BY <4>1, <1>6, <2>1
    <3>2. \A m \in Fog \ {n} : flag'[m] <=> (applied'[m] > 0 /\ log'[applied'[m]].alert)
      BY <1>2, <2>1 DEF SourceInv, FlagInv
    <3> QED BY <3>1, <3>2 DEF FlagInv
  <2>3. \A m \in Fog : own'[m] => own[m]
    BY <1>2, <2>1
  <2>4. \A m \in Fog : own'[m] =>
            m = leader' /\ applied'[m] > 0 /\ window'[m] = WindowOf(flag'[m])
    BY <1>2, <2>1, <2>3 DEF SourceInv
  <2> QED BY <1>2, <1>4, <2>1, <2>2, <2>4 DEF SourceInv, WindowOf
<1>7. CASE b # flag[n]
  <2>1. /\ flag' = [flag EXCEPT ![n] = b]
        /\ send_alert(n, b)
        /\ set_window(n, WindowOf(b))
    BY <1>1, <1>2, <1>7 DEF check_entry
  <2>2. /\ flag'[n] = b /\ \A m \in Fog \ {n} : flag'[m] = flag[m]
        /\ window'[n] = WindowOf(b) /\ \A m \in Fog \ {n} : window'[m] = window[m]
    BY <2>1 DEF set_window, TypeOK
  <2>3. FlagInv'
    BY <1>1, <1>2, <2>2 DEF SourceInv, FlagInv
  <2>4. \A p \in packets' : p.active => Committed'
    BY <1>4, <1>5, <2>1 DEF send_alert, SourceInv
  <2>5. \A m \in Fog : window'[m] # Normal => Committed'
    BY <1>4, <1>5, <2>2 DEF SourceInv, WindowOf
  <2>6. \A m \in Fog : own'[m] =>
            m = leader' /\ applied'[m] > 0 /\ window'[m] = WindowOf(flag'[m])
    BY <1>2, <2>2 DEF SourceInv
  <2> QED BY <1>2, <1>4, <2>3, <2>4, <2>5, <2>6 DEF SourceInv, WindowOf
<1> QED BY <1>6, <1>7

\* A packet, however old, was sent on a batch of the log, and a leader ignores it.
LEMMA HandleAlertSource ==
    ASSUME TypeOK, SourceInv, NEW n \in Fog, NEW p \in packets, HandleAlert(n, p)
    PROVE  SourceInv'
<1>1. UNCHANGED <<leader, log, applied, flag, edge, packets, own>> /\ n # leader
  BY DEF HandleAlert, Ignores
<1>2. window'[n] = WindowOf(p.active) /\ \A m \in Fog \ {n} : window'[m] = window[m]
  BY DEF HandleAlert, set_window, TypeOK
<1>3. (Committed' <=> Committed) /\ (p.active => Committed)
  BY <1>1 DEF Committed, SourceInv
<1>4. FlagInv'
  BY <1>1 DEF SourceInv, FlagInv
<1>5. \A m \in Fog : window'[m] # Normal => Committed'
  BY <1>2, <1>3 DEF SourceInv, WindowOf
<1>6. \A m \in Fog : own'[m] =>
          m = leader' /\ applied'[m] > 0 /\ window'[m] = WindowOf(flag'[m])
  BY <1>1, <1>2 DEF SourceInv
<1> QED BY <1>1, <1>3, <1>4, <1>5, <1>6 DEF SourceInv, WindowOf

LEMMA EdgeAlertSource ==
    ASSUME TypeOK, SourceInv, NEW e \in Edge, NEW p \in packets, EdgeAlert(e, p)
    PROVE  SourceInv'
<1>1. UNCHANGED <<leader, log, applied, flag, window, packets, own>>
  BY DEF EdgeAlert, node
<1>2. edge'[e] = p.active /\ \A i \in Edge \ {e} : edge'[i] = edge[i]
  BY DEF EdgeAlert, TypeOK
<1>3. (Committed' <=> Committed) /\ (p.active => Committed)
  BY <1>1 DEF Committed, SourceInv
<1>4. \A i \in Edge : edge'[i] => Committed'
  BY <1>2, <1>3 DEF SourceInv
<1> QED BY <1>1, <1>3, <1>4 DEF SourceInv, FlagInv, WindowOf

LEMMA RestartSource ==
    ASSUME TypeOK, SourceInv, NEW n \in Fog, Restart(n)
    PROVE  SourceInv'
<1>1. /\ UNCHANGED <<leader, log, edge, packets, own>> /\ n # leader
      /\ flag'[n] = FALSE /\ applied'[n] = 0 /\ window'[n] = Normal
      /\ \A m \in Fog \ {n} : /\ flag'[m] = flag[m] /\ applied'[m] = applied[m]
                              /\ window'[m] = window[m]
  BY DEF Restart, TypeOK
<1>2. Committed' <=> Committed
  BY <1>1 DEF Committed
<1>3. FlagInv'
  BY <1>1 DEF SourceInv, FlagInv
<1>4. \A m \in Fog : own'[m] =>
          m = leader' /\ applied'[m] > 0 /\ window'[m] = WindowOf(flag'[m])
  BY <1>1 DEF SourceInv
<1> QED BY <1>1, <1>2, <1>3, <1>4 DEF SourceInv, WindowOf

LEMMA SourceStep ==
    ASSUME TypeOK, SourceInv, [Next]_vars
    PROVE  SourceInv'
<1>1. CASE \E n \in Fog, content \in {"few", "low", "high"} : CloseWindow(n, content)
  BY <1>1, CloseWindowSource
<1>2. CASE UNCHANGED vars \/ Tick \/ \E n \in Fog : WindowExpires(n) \/ Rearm(n)
  <2>1. UNCHANGED <<flag, applied, packets, edge, window, log, leader, own>>
    BY <1>2 DEF vars, node, Tick, WindowExpires, Rearm
  <2> QED BY <2>1, SourceFrame
<1>3. CASE \E n \in Fog : Elect(n)
  <2>1. UNCHANGED <<flag, applied, packets, edge, window, log>> /\ \A m \in Fog : ~own'[m]
    BY <1>3 DEF Elect, node
  <2> QED BY <2>1, SourceFrame
<1>4. CASE \E n \in Fog : Apply(n) \/ Restart(n)
  BY <1>4, ApplySource, RestartSource
<1>5. CASE \/ \E n \in Fog, p \in packets : HandleAlert(n, p)
           \/ \E e \in Edge, p \in packets : EdgeAlert(e, p)
  BY <1>5, HandleAlertSource, EdgeAlertSource
<1> QED BY <1>1, <1>2, <1>3, <1>4, <1>5 DEF Next

\* No node shortens its window and no edge node alarms but on an alert that is in
\* the log, whatever the nodes' own engines raise, whichever batches are lost and
\* in whatever order the packets come.
THEOREM AlertsAreCommitted == Spec => []AlertIsCommitted
<1>1. SourceInv => AlertIsCommitted
  BY DEF SourceInv, AlertIsCommitted, Committed
<1>2. WindowInv => TypeOK
  BY DEF WindowInv
<1> QED BY <1>1, <1>2, WindowInvariant, SourceInvInit, SourceStep, PTL DEF Spec

\* The node that leads and has applied a change of the alert keeps the window of
\* the last batch it applied: late and repeated packets do not take it back.
THEOREM LeaderIsNotMisled == Spec => []LeaderKeepsItsWindow
<1>1. SourceInv /\ TypeOK => LeaderKeepsItsWindow
  BY DEF SourceInv, FlagInv, LeaderKeepsItsWindow, WindowOf, TypeOK
<1>2. WindowInv => TypeOK
  BY DEF WindowInv
<1> QED BY <1>1, <1>2, WindowInvariant, SourceInvInit, SourceStep, PTL DEF Spec

=============================================================================
