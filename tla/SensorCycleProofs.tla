------------------------- MODULE SensorCycleProofs --------------------------
(***************************************************************************)
(* Proofs about SensorCycle: as long as no echo was over before its        *)
(* timeout was armed, the cycle goes through its phases one after the      *)
(* other, and its properties are read off the phase it is in.              *)
(***************************************************************************)
EXTENDS SensorCycle, SequenceTheorems, TLAPS

-----------------------------------------------------------------------------
(* The phases.                                                             *)

\* No timer runs.
Stopped == \A t \in Task : timer[t] = Off

\* Only the timer t runs.
Only(t) == timer[t] # Off /\ \A u \in Task \ {t} : timer[u] = Off

\* Nobody measures.
AtRest == ~armed /\ seq = 0

\* A measurement is under way: no echo has resolved it, and a rising edge the
\* driver remembers was seen since the trigger.
Waiting == reading.state = "IN_FLIGHT" /\ echo = 0 /\ (rising => rose) /\ untaken

\* Reading r is that of the pulse since the trigger, or a timeout without one.
Taken(r) ==
    \/ r.state = "VALID" /\ echo \in Pulse /\ rose /\ r.mm = distance_mm_from_us(echo)
    \/ r.state = "TIMEOUT" /\ echo = 0

\* The node wakes one interval after the last time it did, or at once.
Due == since + timer["sleep"] = period \/ (since > period /\ timer["sleep"] = 0)

Sleeping ==
    /\ pc = "idle" /\ queue = <<>> /\ Only("sleep")
    /\ AtRest /\ ~power
    /\ Due

Waking == pc = "idle" /\ queue = <<"sleep">> /\ Stopped /\ AtRest

WarmingUp == pc = "idle" /\ queue = <<>> /\ Only("warmup") /\ AtRest

WarmedUp == pc = "idle" /\ queue = <<"warmup">> /\ Stopped /\ AtRest

Triggering ==
    /\ pc \in {"publish", "rising", "arm", "guard"} /\ queue = <<>> /\ Stopped
    /\ ~resolved /\ echo = 0 /\ untaken
    /\ armed <=> pc = "guard"
    /\ seq = IF pc = "publish" THEN 1 ELSE 0
    /\ pc # "publish" => reading.state = "IN_FLIGHT"
    /\ pc \in {"arm", "guard"} => (rising => rose)

Measuring ==
    /\ pc = "idle" /\ Waiting /\ armed /\ seq = 0 /\ ~resolved
    /\ \/ queue = <<>> /\ Only("timeout")
       \/ queue = <<"timeout">> /\ Stopped

TimingOut ==
    /\ pc \in {"disarm", "timed_out"} /\ queue = <<>> /\ Stopped
    /\ resolved /\ echo = 0 /\ untaken
    /\ armed <=> pc = "disarm"
    /\ seq = IF pc = "timed_out" THEN 1 ELSE 0

Resolved ==
    /\ pc = "idle" /\ queue \in {<<"read">>, <<"timeout", "read">>} /\ Stopped
    /\ AtRest /\ resolved /\ untaken /\ Taken(reading)

Emitting ==
    /\ pc \in {"emit", "reset"} /\ queue = <<>> /\ Stopped
    /\ AtRest /\ ~power /\ Taken(snap)
    /\ pc = "reset" => sent = calculate_reading(snap.state = "VALID", snap.mm)

Phase ==
    \/ Sleeping \/ Waking \/ WarmingUp \/ WarmedUp \/ Triggering
    \/ Measuring \/ TimingOut \/ Resolved \/ Emitting

Values ==
    /\ timer \in [Task -> Int] /\ \A t \in Task : timer[t] >= -1
    /\ since \in 0 .. MaxSince
    /\ period \in {SleepTicks, AlertTicks}

Orderly == Phase /\ ~spun /\ ~extra

CycleInv ==
    /\ Values
    /\ early \/ Orderly

-----------------------------------------------------------------------------
(* The work queue.                                                         *)

\* Short queues.
LEMMA ShortQueues ==
    ASSUME NEW v, NEW w
    PROVE  /\ Append(<<>>, w) = <<w>>
           /\ Append(<<v>>, w) = <<v, w>>
           /\ <<w>> # <<>> /\ <<v, w>> # <<>>
           /\ Head(<<w>>) = w /\ Tail(<<w>>) = <<>>
           /\ Head(<<v, w>>) = v /\ Tail(<<v, w>>) = <<w>>
<1>1. Append(<<>>, w) = <<w>>
  OBVIOUS
<1>2. Append(<<v>>, w) = <<v, w>>
  <2>1. <<v>> \in Seq({v, w}) /\ <<v, w>> \in Seq({v, w}) /\ Len(<<v>>) = 1
    OBVIOUS
  <2>2. Append(<<v>>, w) \in Seq({v, w}) /\ Len(Append(<<v>>, w)) = 2
        /\ \A i \in 1 .. 2 : Append(<<v>>, w)[i] = <<v, w>>[i]
    BY <2>1, AppendProperties
  <2> QED
    BY <2>1, <2>2, SeqEqual
<1>3. <<w>> # <<>> /\ <<v, w>> # <<>>
  OBVIOUS
<1>4. Head(<<w>>) = w /\ Head(<<v, w>>) = v
  OBVIOUS
<1>5. Tail(<<w>>) = <<>>
  OBVIOUS
<1>6. Tail(<<v, w>>) = <<w>>
  OBVIOUS
<1> QED
  BY <1>1, <1>2, <1>3, <1>4, <1>5, <1>6

\* Submitting to an empty queue.
LEMMA SubmitToEmpty ==
    ASSUME NEW w, queue = <<>>, Submit(w)
    PROVE  queue' = <<w>>
<1>1. w \notin {queue[k] : k \in DOMAIN queue}
  OBVIOUS
<1> QED
  BY <1>1, ShortQueues DEF Submit

\* Submitting behind another item.
LEMMA SubmitBehind ==
    ASSUME NEW v, NEW w, v # w, queue = <<v>>, Submit(w)
    PROVE  queue' = <<v, w>>
<1>1. w \notin {queue[k] : k \in DOMAIN queue}
  OBVIOUS
<1> QED
  BY <1>1, ShortQueues DEF Submit

-----------------------------------------------------------------------------
(* The interval.                                                           *)

\* What is left of an interval.
LEMMA Remaining ==
    ASSUME NEW p \in Nat, since \in Nat
    PROVE  /\ remaining(p) \in Nat
           /\ remaining(p) = IF since <= p THEN p - since ELSE 0
<1> DEFINE r == IF since <= p THEN p - since ELSE 0
<1>1. r \in {p - since, 0} /\ \A y \in {p - since, 0} : r >= y
  OBVIOUS
<1>2. \A x \in {p - since, 0} : (\A y \in {p - since, 0} : x >= y) => x = r
  OBVIOUS
<1>3. remaining(p) = r
  BY <1>1, <1>2 DEF remaining, Max
<1> QED
  BY <1>3

-----------------------------------------------------------------------------
(* Values.                                                                 *)

\* Every step keeps the values of the variables.
LEMMA ValuesKept ==
    ASSUME Values, [Next]_vars
    PROVE  Values'
<1> USE SensorCycleAssumption DEF Values, MaxSince, Off, Task
<1>1. ASSUME NEW t \in Task, Expire(t) PROVE Values'
  BY <1>1 DEF Expire, driver, history
<1>2. CASE Tick
  <2>1. timer' \in [Task -> Int] /\ \A t \in Task : timer'[t] >= -1
    BY <1>2, SMTT(30) DEF Tick
  <2>2. since' \in 0 .. MaxSince /\ period' = period
    BY <1>2 DEF Tick, history
  <2> QED
    BY <2>1, <2>2
<1>3. CASE on_sleep_elapsed
  BY <1>3 DEF on_sleep_elapsed, history
<1>4. CASE on_warmup_elapsed
  BY <1>4 DEF on_warmup_elapsed
<1>5. CASE trigger_publish
  BY <1>5 DEF trigger_publish, kernel, history
<1>6. CASE trigger_rising
  BY <1>6 DEF trigger_rising, kernel, history
<1>7. CASE trigger_arm
  BY <1>7 DEF trigger_arm, kernel, history
<1>8. CASE arm_timeout
  BY <1>8 DEF arm_timeout, driver, history
<1>9. CASE on_timeout_elapsed
  BY <1>9 DEF on_timeout_elapsed, history
<1>10. CASE timeout_disarm
  BY <1>10 DEF timeout_disarm, kernel, history
<1>11. CASE timeout_publish
  BY <1>11 DEF timeout_publish, done, history
<1>12. CASE do_read
  BY <1>12 DEF do_read
<1>13. CASE emit_reading
  BY <1>13 DEF emit_reading, kernel, driver, history
<1>14. CASE schedule_sleep
  <2>1. period' \in {SleepTicks, AlertTicks}
    BY <1>14 DEF schedule_sleep, sleep_interval
  <2>2. remaining(period') \in Nat
    BY <2>1, Remaining
  <2> QED
    BY <1>14, <2>1, <2>2 DEF schedule_sleep
<1>15. CASE Flip
  BY <1>15 DEF Flip, kernel, history
<1>16. CASE on_edge
  <2>1. timer' = timer \/ timer' = [timer EXCEPT !["timeout"] = Off]
    <3>1. CASE rising_edge
      BY <3>1 DEF rising_edge, kernel
    <3>2. CASE falling_edge
      BY <3>2 DEF falling_edge, done
    <3>3. CASE edge_ignored
      BY <3>3 DEF edge_ignored, kernel
    <3> QED
      BY <1>16, <3>1, <3>2, <3>3 DEF on_edge
  <2> QED
    BY <1>16, <2>1 DEF on_edge
<1>17. ASSUME NEW active \in BOOLEAN, on_alert(active) PROVE Values'
  BY <1>17 DEF on_alert, kernel, driver, history
<1>18. CASE UNCHANGED vars
  BY <1>18 DEF vars, kernel, driver, history
<1> QED
  BY <1>1, <1>2, <1>3, <1>4, <1>5, <1>6, <1>7, <1>8, <1>9, <1>10, <1>11,
     <1>12, <1>13, <1>14, <1>15, <1>16, <1>17, <1>18 DEF Next, Thread

-----------------------------------------------------------------------------
(* The phases follow each other.                                           *)

\* The phase is known from the control state of the thread and its queue.
LEMMA PhaseByQueue ==
    ASSUME Phase
    PROVE  /\ pc = "idle" /\ queue = <<>> =>
                  Sleeping \/ WarmingUp \/ (Measuring /\ Only("timeout"))
           /\ pc = "idle" /\ queue = <<"sleep">> => Waking
           /\ pc = "idle" /\ queue = <<"warmup">> => WarmedUp
           /\ pc = "idle" /\ queue = <<"timeout">> => Measuring /\ Stopped
           /\ pc \in {"publish", "rising", "arm", "guard"} => Triggering
           /\ pc \in {"disarm", "timed_out"} => TimingOut
           /\ pc \in {"emit", "reset"} => Emitting
BY ShortQueues DEF Phase, Sleeping, Waking, WarmingUp, WarmedUp, Triggering,
   Measuring, TimingOut, Resolved, Emitting

\* A timer that runs out in its phase queues its work.
LEMMA ExpireOrderly ==
    ASSUME Values, Orderly, NEW t \in Task, Expire(t)
    PROVE  Orderly'
<1>1. timer[t] # Off /\ UNCHANGED <<pc, driver, sent, snap, history, spun>>
  BY DEF Expire, Off
<1>2. ~Stopped
  BY <1>1 DEF Stopped
<1>3. Sleeping \/ WarmingUp \/ (Measuring /\ queue = <<>> /\ Only("timeout"))
  BY <1>2 DEF Orderly, Phase, Sleeping, Waking, WarmingUp, WarmedUp, Triggering,
     Measuring, TimingOut, Resolved, Emitting
<1>4. queue' = <<t>>
  BY <1>3, SubmitToEmpty DEF Expire, Sleeping, WarmingUp
<1>5. Stopped'
  <2>1. timer \in [Task -> Int] /\ timer' = [timer EXCEPT ![t] = Off]
    BY DEF Expire, Values
  <2>2. \A u \in Task \ {t} : timer[u] = Off
    BY <1>1, <1>3 DEF Only, Sleeping, WarmingUp
  <2> QED
    BY <2>1, <2>2 DEF Stopped
<1>6. CASE Sleeping
  <2>1. t = "sleep"
    BY <1>1, <1>6 DEF Sleeping, Only
  <2>2. Waking'
    BY <1>1, <1>4, <1>5, <1>6, <2>1 DEF Sleeping, Waking, AtRest, driver
  <2> QED
    BY <1>1, <2>2 DEF Orderly, Phase, history
<1>7. CASE WarmingUp
  <2>1. t = "warmup"
    BY <1>1, <1>7 DEF WarmingUp, Only
  <2>2. WarmedUp'
    BY <1>1, <1>4, <1>5, <1>7, <2>1 DEF WarmingUp, WarmedUp, AtRest, driver
  <2> QED
    BY <1>1, <2>2 DEF Orderly, Phase, history
<1>8. CASE Measuring /\ Only("timeout")
  <2>1. t = "timeout"
    BY <1>1, <1>8 DEF Only
  <2>2. Measuring'
    BY <1>1, <1>4, <1>5, <1>8, <2>1 DEF Measuring, Waiting, driver, history
  <2> QED
    BY <1>1, <2>2 DEF Orderly, Phase, history
<1> QED
  BY <1>3, <1>6, <1>7, <1>8

\* Time passes in a phase that waits, or in the send.
LEMMA TickOrderly ==
    ASSUME Values, Orderly, Tick
    PROVE  Orderly'
<1> USE SensorCycleAssumption DEF Off
<1>1. UNCHANGED <<queue, pc, driver, sent, snap, history, spun>>
  BY DEF Tick
<1>2. \A t \in Task : timer[t] \in Int /\ timer[t] >= -1 /\ timer[t] # 0
  BY DEF Tick, Values
<1>3. \A t \in Task : timer'[t] = Off <=> timer[t] = Off
  BY <1>2 DEF Tick
<1>4. Sleeping \/ WarmingUp \/ (Measuring /\ queue = <<>> /\ Only("timeout")) \/ (Emitting /\ pc = "emit")
  BY PhaseByQueue DEF Tick, Orderly
<1>5. CASE Sleeping
  <2>1. since' + timer'["sleep"] = period
    <3>1. timer["sleep"] \in Int /\ timer["sleep"] > 0 /\ timer'["sleep"] = timer["sleep"] - 1
      BY <1>2, <1>5 DEF Sleeping, Only, Tick, Task
    <3>2. since + timer["sleep"] = period
      BY <1>5, <3>1 DEF Sleeping, Due
    <3>3. period \in Nat /\ period <= SleepTicks /\ since \in Nat
      BY DEF Values, MaxSince
    <3>4. since < MaxSince
      BY <3>1, <3>2, <3>3 DEF MaxSince
    <3>5. since' = since + 1
      BY <3>4 DEF Tick
    <3> QED
      BY <3>1, <3>2, <3>3, <3>5
  <2>2. Only("sleep")'
    BY <1>3, <1>5 DEF Sleeping, Only, Task
  <2>3. Sleeping'
    BY <1>1, <1>5, <2>1, <2>2 DEF Sleeping, Due, AtRest, driver, history
  <2> QED
    BY <1>1, <2>3 DEF Orderly, Phase, history
<1>6. CASE WarmingUp
  <2>1. Only("warmup")'
    BY <1>3, <1>6 DEF WarmingUp, Only, Task
  <2>2. WarmingUp'
    BY <1>1, <1>6, <2>1 DEF WarmingUp, AtRest, driver
  <2> QED
    BY <1>1, <2>2 DEF Orderly, Phase, history
<1>7. CASE Measuring /\ queue = <<>> /\ Only("timeout")
  <2>1. Only("timeout")'
    BY <1>3, <1>7 DEF Only, Task
  <2>2. Measuring'
    BY <1>1, <1>7, <2>1 DEF Measuring, Waiting, driver, history
  <2> QED
    BY <1>1, <2>2 DEF Orderly, Phase, history
<1>8. CASE Emitting /\ pc = "emit"
  <2>1. Stopped'
    BY <1>3, <1>8 DEF Emitting, Stopped
  <2>2. Emitting'
    BY <1>1, <1>8, <2>1 DEF Emitting, AtRest, Taken, driver, history
  <2> QED
    BY <1>1, <2>2 DEF Orderly, Phase, history
<1> QED
  BY <1>4, <1>5, <1>6, <1>7, <1>8

\* The item at the head of the queue names the phase.
LEMMA TakeByPhase ==
    ASSUME Orderly, NEW w \in Work, Take(w)
    PROVE  /\ w = "sleep" => Waking /\ queue' = <<>>
           /\ w = "warmup" => WarmedUp /\ queue' = <<>>
           /\ w = "read" => Resolved /\ queue' = <<>>
           /\ w = "timeout" => (\/ (Measuring /\ Stopped /\ queue' = <<>>)
                               \/ (Resolved /\ queue' = <<"read">>))
<1>1. pc = "idle" /\ queue # <<>> /\ w = Head(queue) /\ queue' = Tail(queue)
  BY DEF Take
<1>2. \/ Waking \/ WarmedUp \/ (Measuring /\ Stopped /\ queue = <<"timeout">>)
      \/ (Resolved /\ queue = <<"read">>) \/ (Resolved /\ queue = <<"timeout", "read">>)
  BY <1>1 DEF Orderly, Phase, Sleeping, WarmingUp, Triggering, Measuring,
     TimingOut, Resolved, Emitting
<1>3. CASE Waking
  BY <1>1, <1>3, ShortQueues DEF Waking
<1>4. CASE WarmedUp
  BY <1>1, <1>4, ShortQueues DEF WarmedUp
<1>5. CASE Measuring /\ Stopped /\ queue = <<"timeout">>
  BY <1>1, <1>5, ShortQueues
<1>6. CASE Resolved /\ queue = <<"read">>
  BY <1>1, <1>6, ShortQueues
<1>7. CASE Resolved /\ queue = <<"timeout", "read">>
  <2>1. w = "timeout" /\ queue' = <<"read">>
    BY <1>1, <1>7, ShortQueues
  <2> QED
    BY <1>7, <2>1
<1> QED
  BY <1>2, <1>3, <1>4, <1>5, <1>6, <1>7

\* on_sleep_elapsed starts the warm-up.
LEMMA SleepElapsedOrderly ==
    ASSUME Values, Orderly, on_sleep_elapsed
    PROVE  Orderly'
<1>1. Waking /\ queue' = <<>>
  BY TakeByPhase DEF on_sleep_elapsed, Work, Task
<1>2. Only("warmup")'
  BY <1>1, SensorCycleAssumption DEF on_sleep_elapsed, Waking, Stopped, Only, Off, Task, Values
<1>3. WarmingUp'
  BY <1>1, <1>2 DEF on_sleep_elapsed, Take, Waking, WarmingUp, AtRest
<1> QED
  BY <1>3 DEF Orderly, Phase, on_sleep_elapsed, history

\* on_warmup_elapsed begins the trigger.
LEMMA WarmupElapsedOrderly ==
    ASSUME Orderly, on_warmup_elapsed
    PROVE  Orderly'
<1>1. WarmedUp /\ queue' = <<>>
  BY TakeByPhase DEF on_warmup_elapsed, Work, Task
<1>2. Triggering'
  BY <1>1 DEF on_warmup_elapsed, WarmedUp, Triggering, Stopped, AtRest
<1> QED
  BY <1>2 DEF Orderly, Phase, on_warmup_elapsed

\* The steps of the trigger.
LEMMA TriggerOrderly ==
    ASSUME Orderly, trigger_publish \/ trigger_rising \/ trigger_arm
    PROVE  Orderly'
<1>1. Triggering
  BY PhaseByQueue DEF Orderly, trigger_publish, trigger_rising, trigger_arm, At
<1>2. CASE trigger_publish
  <2>1. Triggering'
    BY <1>1, <1>2 DEF trigger_publish, At, Triggering, Stopped, Reading, kernel, history
  <2> QED
    BY <1>2, <2>1 DEF Orderly, Phase, trigger_publish, history
<1>3. CASE trigger_rising
  <2>1. Triggering'
    BY <1>1, <1>3 DEF trigger_rising, At, Triggering, Stopped, kernel, history
  <2> QED
    BY <1>3, <2>1 DEF Orderly, Phase, trigger_rising, history
<1>4. CASE trigger_arm
  <2>1. Triggering'
    BY <1>1, <1>4 DEF trigger_arm, At, Triggering, Stopped, kernel, history
  <2> QED
    BY <1>4, <2>1 DEF Orderly, Phase, trigger_arm, history
<1> QED
  BY <1>2, <1>3, <1>4

\* The timeout is armed and the measurement runs.
LEMMA ArmTimeoutOrderly ==
    ASSUME Values, Orderly, arm_timeout
    PROVE  Orderly'
<1>1. Triggering /\ pc = "guard"
  BY PhaseByQueue DEF Orderly, arm_timeout, At
<1>2. Only("timeout")'
  BY <1>1, SensorCycleAssumption DEF arm_timeout, Triggering, Stopped, Only, Off, Task, Values
<1>3. Measuring'
  BY <1>1, <1>2 DEF arm_timeout, Triggering, Measuring, Waiting, driver, history
<1> QED
  BY <1>3 DEF Orderly, Phase, arm_timeout, history

\* The timeout's work finds the measurement resolved, or resolves it.
LEMMA TimeoutElapsedOrderly ==
    ASSUME Orderly, on_timeout_elapsed
    PROVE  Orderly'
<1>1. \/ (Measuring /\ Stopped /\ queue' = <<>>)
      \/ (Resolved /\ queue' = <<"read">>)
  BY TakeByPhase DEF on_timeout_elapsed, Work, Task
<1>2. CASE Measuring /\ Stopped /\ queue' = <<>>
  <2>1. TimingOut'
    BY <1>2 DEF on_timeout_elapsed, Measuring, Waiting, TimingOut, Stopped, history
  <2> QED
    BY <2>1 DEF Orderly, Phase, on_timeout_elapsed, history
<1>3. CASE Resolved /\ queue' = <<"read">>
  <2>1. Resolved'
    BY <1>3 DEF on_timeout_elapsed, Resolved, Stopped, AtRest, Taken, history
  <2> QED
    BY <2>1 DEF Orderly, Phase, on_timeout_elapsed, history
<1> QED
  BY <1>1, <1>2, <1>3

\* The driver resolves the measurement that timed out.
LEMMA TimingOutOrderly ==
    ASSUME Values, Orderly, timeout_disarm \/ timeout_publish
    PROVE  Orderly'
<1>1. TimingOut
  BY PhaseByQueue DEF Orderly, timeout_disarm, timeout_publish, At
<1>2. CASE timeout_disarm
  <2>1. TimingOut'
    BY <1>1, <1>2 DEF timeout_disarm, TimingOut, Stopped, kernel, history
  <2> QED
    BY <1>2, <2>1 DEF Orderly, Phase, timeout_disarm, history
<1>3. CASE timeout_publish
  <2>1. pc = "timed_out"
    BY <1>3 DEF timeout_publish, At
  <2>2. queue' = <<"read">>
    BY <1>1, <1>3, SubmitToEmpty DEF TimingOut, timeout_publish, done
  <2>3. Stopped'
    BY <1>1, <1>3 DEF TimingOut, timeout_publish, done, Stopped, Values
  <2>4. Taken(reading)' /\ AtRest' /\ untaken' /\ resolved'
    BY <1>1, <1>3, <2>1 DEF TimingOut, timeout_publish, Taken, Reading, AtRest, history
  <2>5. Resolved'
    BY <1>3, <2>2, <2>3, <2>4 DEF timeout_publish, Resolved
  <2> QED
    BY <1>3, <2>5 DEF Orderly, Phase, timeout_publish, history
<1> QED
  BY <1>2, <1>3

\* do_read takes the reading of the trigger.
LEMMA ReadOrderly ==
    ASSUME Orderly, do_read
    PROVE  Orderly'
<1>1. Resolved /\ queue' = <<>>
  BY TakeByPhase DEF do_read, Work, Task
<1>2. Taken(snap)'
  BY <1>1 DEF do_read, Resolved, Taken
<1>3. Emitting'
  BY <1>1, <1>2 DEF do_read, Resolved, Emitting, Stopped, AtRest
<1> QED
  BY <1>1, <1>3 DEF Orderly, Phase, do_read, Resolved

\* The reading is sent, and the node goes to sleep.
LEMMA EmitOrderly ==
    ASSUME Values, Orderly, emit_reading \/ schedule_sleep
    PROVE  Orderly'
<1>1. Emitting
  BY PhaseByQueue DEF Orderly, emit_reading, schedule_sleep, At
<1>2. CASE emit_reading
  <2>1. Taken(snap)'
    BY <1>1, <1>2 DEF emit_reading, Emitting, Taken, history
  <2>2. Emitting'
    BY <1>1, <1>2, <2>1 DEF emit_reading, Emitting, Stopped, AtRest, kernel, driver
  <2> QED
    BY <1>2, <2>2 DEF Orderly, Phase, emit_reading, history
<1>3. CASE schedule_sleep
  <2>1. period' \in Nat /\ since \in Nat
    BY <1>3, SensorCycleAssumption DEF schedule_sleep, sleep_interval, Values, MaxSince
  <2>2. PICK r \in Nat : /\ timer' = [timer EXCEPT !["sleep"] = r]
                         /\ IF since <= period' THEN r = period' - since ELSE r = 0
    BY <1>3, <2>1, Remaining DEF schedule_sleep
  <2>3. timer'["sleep"] = r /\ Only("sleep")'
    <3>1. timer \in [Task -> Int] /\ \A u \in Task : timer[u] = Off
      BY <1>1 DEF Emitting, Stopped, Values
    <3>2. "sleep" \in Task /\ Off \notin Nat
      BY DEF Task, Off
    <3>3. timer'["sleep"] = r /\ timer'["sleep"] # Off
      BY <2>2, <3>1, <3>2
    <3>4. \A u \in Task \ {"sleep"} : timer'[u] = Off
      BY <2>2, <3>1
    <3> QED
      BY <3>3, <3>4 DEF Only
  <2>4. Due'
    BY <1>3, <2>1, <2>2, <2>3 DEF schedule_sleep, Due
  <2>5. Sleeping'
    BY <1>1, <1>3, <2>3, <2>4 DEF schedule_sleep, Emitting, Sleeping, AtRest
  <2> QED
    BY <1>3, <2>5 DEF Orderly, Phase, schedule_sleep
<1> QED
  BY <1>2, <1>3

\* A change of the line leaves the phase alone.
LEMMA FlipOrderly ==
    ASSUME Orderly, Flip
    PROVE  Orderly'
<1>1. UNCHANGED <<kernel, pc, snap, since, power, armed, seq, reading, rising,
                  resolved, sent, history, spun>>
  BY DEF Flip
<1> QED
  BY <1>1 DEF Orderly, Phase, Sleeping, Due, Waking, WarmingUp, WarmedUp, Triggering,
     Measuring, TimingOut, Resolved, Emitting, Stopped, Only, AtRest, Waiting, Taken,
     kernel, history

\* So does an alert, and a step that changes nothing.
LEMMA AlertOrderly ==
    ASSUME Orderly, UNCHANGED <<kernel, pc, snap, since, driver, pin, sent, history, spun>>
    PROVE  Orderly'
BY DEF Orderly, Phase, Sleeping, Due, Waking, WarmingUp, WarmedUp, Triggering,
   Measuring, TimingOut, Resolved, Emitting, Stopped, Only, AtRest, Waiting, Taken,
   kernel, history, driver

\* An armed pin means that no publish is under way.
LEMMA ArmedByPhase ==
    ASSUME Orderly, armed
    PROVE  /\ seq = 0
           /\ \/ Measuring \/ (Triggering /\ pc = "guard") \/ (TimingOut /\ pc = "disarm")
BY DEF Orderly, Phase, Sleeping, Due, Waking, WarmingUp, WarmedUp, Triggering,
   Measuring, TimingOut, Resolved, Emitting, AtRest

\* The distance of a pulse fits in 16 bits.
LEMMA DistanceFits ==
    ASSUME NEW us \in Pulse
    PROVE  distance_mm_from_us(us) % 65536 = distance_mm_from_us(us)
<1>1. us \in Nat /\ us <= 380000
  BY SensorCycleAssumption
<1>2. (us * 10) \div 58 \in Nat /\ (us * 10) \div 58 < 65536
  BY <1>1
<1> QED
  BY <1>2 DEF distance_mm_from_us

\* The interrupt: it remembers a rising edge, resolves the measurement on a
\* falling one, or does nothing.
LEMMA EdgeOrderly ==
    ASSUME Values, ~early, Orderly, on_edge
    PROVE  early' \/ Orderly'
<1>1. seq = 0 /\ (Measuring \/ (Triggering /\ pc = "guard") \/ (TimingOut /\ pc = "disarm"))
  BY ArmedByPhase DEF on_edge
<1>2. ~spun' /\ ~extra' /\ UNCHANGED <<pc, snap, since, power, seq, sent, untaken, period>>
  <2>1. spun' = (seq = 1) /\ ~(seq = 1)
    BY <1>1 DEF on_edge
  <2>2. ~spun'
    BY <2>1, Zenon
  <2>3. UNCHANGED <<pc, snap, since, power, seq, sent, untaken, extra, period>>
    BY DEF on_edge
  <2> QED
    BY <2>2, <2>3 DEF Orderly
<1>3. CASE edge_ignored
  <2>1. Phase'
    BY <1>1, <1>2, <1>3 DEF edge_ignored, Phase, Measuring, Triggering, TimingOut,
       Waiting, Stopped, Only, kernel
  <2> QED
    BY <1>2, <2>1 DEF Orderly
<1>4. CASE rising_edge /\ rises
  <2>1. Phase'
    BY <1>1, <1>2, <1>4 DEF rising_edge, Phase, Measuring, Triggering, TimingOut,
       Waiting, Stopped, Only, kernel
  <2> QED
    BY <1>2, <2>1 DEF Orderly
<1>5. CASE falling_edge /\ falls
  <2>1. CASE pc = "guard"
    <3>1. PICK us \in Pulse : early' = (early \/ pc = "guard")
      BY <1>5 DEF falling_edge
    <3> QED
      BY <2>1, <3>1, Zenon
  <2>2. CASE pc # "guard"
    <3>1. Measuring
      BY <1>1, <1>5, <2>2 DEF falls, TimingOut
    <3>2. PICK us \in Pulse :
             /\ resolved' = TRUE
             /\ armed' = FALSE
             /\ reading' = Reading("VALID", distance_mm_from_us(us) % 65536)
             /\ done
             /\ echo' = us
             /\ UNCHANGED <<rising, rose>>
      BY <1>5 DEF falling_edge
    <3>3. Taken(reading)'
      BY <1>5, <3>1, <3>2, DistanceFits DEF falls, Measuring, Waiting, Taken, Reading
    <3>4. queue' \in {<<"read">>, <<"timeout", "read">>}
      BY <3>1, <3>2, SubmitToEmpty, SubmitBehind DEF Measuring, done
    <3>5. Stopped'
      BY <3>1, <3>2 DEF Measuring, Only, Stopped, done, Values, Task
    <3>6. Resolved'
      BY <1>1, <1>2, <3>1, <3>2, <3>3, <3>4, <3>5 DEF Measuring, Waiting, Resolved, AtRest
    <3> QED
      BY <1>2, <3>6 DEF Orderly, Phase
  <2> QED
    BY <2>1, <2>2
<1> QED
  BY <1>3, <1>4, <1>5 DEF on_edge

-----------------------------------------------------------------------------
(* The theorems.                                                           *)

\* The cycle starts asleep.
LEMMA InitCycle == Init => CycleInv
<1> SUFFICES ASSUME Init PROVE CycleInv
  OBVIOUS
<1> USE SensorCycleAssumption
<1>1. Values
  BY DEF Init, Values, Off, Task, MaxSince
<1>2. Sleeping
  <2>1. timer["sleep"] = SleepTicks /\ Only("sleep")
    BY DEF Init, Only, Off, Task
  <2> QED
    BY <2>1 DEF Init, Sleeping, Due, AtRest
<1> QED
  BY <1>1, <1>2 DEF Init, CycleInv, Orderly, Phase

\* CycleInv is inductive: every step keeps the values and leads from a phase to the
\* next, unless an echo was over too early.
LEMMA NextCycle == CycleInv /\ [Next]_vars => CycleInv'
<1> SUFFICES ASSUME CycleInv, [Next]_vars PROVE CycleInv'
  OBVIOUS
<1>1. Values /\ Values'
  BY ValuesKept DEF CycleInv
<1>2. CASE early
  <2>1. early'
    <3>1. CASE on_edge
      <4>1. CASE rising_edge
        BY <1>2, <4>1 DEF rising_edge
      <4>2. CASE falling_edge
        <5>1. PICK us \in Pulse : early' = (early \/ pc = "guard")
          BY <4>2 DEF falling_edge
        <5> QED
          BY <1>2, <5>1, Zenon
      <4>3. CASE edge_ignored
        BY <1>2, <4>3 DEF edge_ignored
      <4> QED
        BY <3>1, <4>1, <4>2, <4>3 DEF on_edge
    <3>2. CASE ~on_edge
      BY <1>2, <3>2 DEF Next, Thread, Expire, Tick, on_sleep_elapsed, on_warmup_elapsed,
         trigger_publish, trigger_rising, trigger_arm, arm_timeout, on_timeout_elapsed,
         timeout_disarm, timeout_publish, do_read, emit_reading, schedule_sleep, Flip,
         on_alert, vars, history
    <3> QED
      BY <3>1, <3>2
  <2> QED
    BY <1>1, <2>1 DEF CycleInv
<1>3. CASE ~early
  <2>1. Orderly
    BY <1>3 DEF CycleInv
  <2>2. early' \/ Orderly'
    <3> USE <1>1, <2>1
    <3>1. ASSUME NEW t \in Task, Expire(t) PROVE Orderly'
      BY <3>1, ExpireOrderly
    <3>2. CASE Tick
      BY <3>2, TickOrderly
    <3>3. CASE on_sleep_elapsed
      BY <3>3, SleepElapsedOrderly
    <3>4. CASE on_warmup_elapsed
      BY <3>4, WarmupElapsedOrderly
    <3>5. CASE trigger_publish \/ trigger_rising \/ trigger_arm
      BY <3>5, TriggerOrderly
    <3>6. CASE arm_timeout
      BY <3>6, ArmTimeoutOrderly
    <3>7. CASE on_timeout_elapsed
      BY <3>7, TimeoutElapsedOrderly
    <3>8. CASE timeout_disarm \/ timeout_publish
      BY <3>8, TimingOutOrderly
    <3>9. CASE do_read
      BY <3>9, ReadOrderly
    <3>10. CASE emit_reading \/ schedule_sleep
      BY <3>10, EmitOrderly
    <3>11. CASE Flip
      BY <3>11, FlipOrderly
    <3>12. CASE on_edge
      BY <1>3, <3>12, EdgeOrderly
    <3>13. ASSUME NEW active \in BOOLEAN, on_alert(active) PROVE Orderly'
      BY <3>13, AlertOrderly DEF on_alert
    <3>14. CASE UNCHANGED vars
      BY <3>14, AlertOrderly DEF vars
    <3> QED
      BY <3>1, <3>2, <3>3, <3>4, <3>5, <3>6, <3>7, <3>8, <3>9, <3>10, <3>11,
         <3>12, <3>13, <3>14 DEF Next, Thread
  <2> QED
    BY <1>1, <2>2 DEF CycleInv
<1> QED
  BY <1>2, <1>3

\* The cycle goes through its phases in order.
THEOREM CycleInvariant == Spec => []CycleInv
BY InitCycle, NextCycle, PTL DEF Spec

\* The echo interrupt never waits for a publish it interrupted.
THEOREM InterruptNeverSpins == Spec => []NeverSpins
<1>1. CycleInv => NeverSpins
  BY DEF CycleInv, Orderly, NeverSpins
<1> QED
  BY <1>1, CycleInvariant, PTL

\* Every trigger leads to one reading.
THEOREM ReadOncePerTrigger == Spec => []OneReadingPerTrigger
<1>1. CycleInv => OneReadingPerTrigger
  BY DEF CycleInv, Orderly, OneReadingPerTrigger
<1> QED
  BY <1>1, CycleInvariant, PTL

\* While the node sleeps nothing measures, and it wakes when the interval is over.
THEOREM WakesWhenDue == Spec => []SleepsUntilDue
<1>1. CycleInv => SleepsUntilDue
  <2> SUFFICES ASSUME CycleInv, timer["sleep"] # Off, ~early
               PROVE  /\ ~power /\ ~armed
                      /\ timer["warmup"] = Off /\ timer["timeout"] = Off
                      /\ Due
    BY DEF SleepsUntilDue, Due
  <2>1. Sleeping
    BY DEF CycleInv, Orderly, Phase, Sleeping, Waking, WarmingUp, WarmedUp, Triggering,
       Measuring, TimingOut, Resolved, Emitting, Stopped, Only, Task
  <2> QED
    BY <2>1 DEF Sleeping, AtRest, Only, Task
<1> QED
  BY <1>1, CycleInvariant, PTL

\* The larger of 0 and another number.
LEMMA MaxOfTwo ==
    ASSUME NEW d \in Int
    PROVE  Max({0, d}) = IF d < 0 THEN 0 ELSE d
<1> DEFINE m == IF d < 0 THEN 0 ELSE d
<1>1. m \in {0, d} /\ \A y \in {0, d} : m >= y
  OBVIOUS
<1>2. \A x \in {0, d} : (\A y \in {0, d} : x >= y) => x = m
  OBVIOUS
<1> HIDE DEF m
<1>3. Max({0, d}) = m
  BY <1>1, <1>2 DEF Max
<1> QED
  BY <1>3 DEF m

\* The level and the validity of a distance.
LEMMA LevelOfDistance ==
    ASSUME NEW mm \in Nat, NEW r,
           mm > Ground =>
               r = [level |-> 0, validity |-> "QUESTIONABLE", detail |-> "OUT_OF_RANGE"],
           mm < MIN_DISTANCE_MM =>
               r = [level |-> Ground, validity |-> "QUESTIONABLE", detail |-> "OVERFLOW"],
           mm \in MIN_DISTANCE_MM .. Ground =>
               r = [level |-> Ground - mm, validity |-> "GOOD", detail |-> "NONE"]
    PROVE  /\ (r.validity = "GOOD") <=> (mm \in MIN_DISTANCE_MM .. Ground)
           /\ r.level = Max({0, Ground - (IF mm < MIN_DISTANCE_MM THEN 0 ELSE mm)})
<1> DEFINE d == Ground - (IF mm < MIN_DISTANCE_MM THEN 0 ELSE mm)
<1>1. Ground \in Nat /\ Ground >= 250 /\ MIN_DISTANCE_MM = 250
  BY SensorCycleAssumption DEF MIN_DISTANCE_MM
<1>2. CASE mm > Ground
  <2>1. r.level = 0 /\ r.validity = "QUESTIONABLE"
    BY <1>2
  <2>2. d < 0 /\ d \in Int /\ mm \notin MIN_DISTANCE_MM .. Ground
    BY <1>1, <1>2
  <2> HIDE DEF d
  <2>3. Max({0, d}) = 0
    BY <2>2, MaxOfTwo
  <2> QED
    BY <2>1, <2>2, <2>3 DEF d
<1>3. CASE mm < MIN_DISTANCE_MM
  <2>1. r.level = Ground /\ r.validity = "QUESTIONABLE"
    BY <1>3
  <2>2. d = Ground /\ mm \notin MIN_DISTANCE_MM .. Ground
    BY <1>1, <1>3
  <2> HIDE DEF d
  <2>3. Max({0, d}) = Ground
    BY <1>1, <2>2, MaxOfTwo
  <2> QED
    BY <2>1, <2>2, <2>3 DEF d
<1>4. CASE mm \in MIN_DISTANCE_MM .. Ground
  <2>1. r.level = Ground - mm /\ r.validity = "GOOD"
    BY <1>4
  <2>2. d = Ground - mm /\ d \in Nat
    BY <1>1, <1>4
  <2> HIDE DEF d
  <2>3. Max({0, d}) = d
    BY <2>2, MaxOfTwo
  <2> QED
    BY <1>4, <2>1, <2>2, <2>3 DEF d
<1>5. \/ mm > Ground \/ mm < MIN_DISTANCE_MM \/ mm \in MIN_DISTANCE_MM .. Ground
  BY <1>1
<1> QED
  BY <1>2, <1>3, <1>4, <1>5

\* The level that is sent is that of the pulse measured since the trigger.
THEOREM SendsWhatItMeasured == Spec => []SentIsMeasured
<1>1. CycleInv => SentIsMeasured
  <2> SUFFICES ASSUME CycleInv, pc = "reset", ~early PROVE SentIsMeasured
    BY DEF SentIsMeasured
  <2>1. Taken(snap) /\ sent = calculate_reading(snap.state = "VALID", snap.mm)
    BY PhaseByQueue DEF CycleInv, Orderly, Emitting
  <2>2. CASE echo = 0
    <3>1. snap.state # "VALID"
      BY <2>1, <2>2, SensorCycleAssumption DEF Taken
    <3>2. sent.validity = "INVALID"
      BY <2>1, <3>1 DEF calculate_reading
    <3> QED
      BY <2>2, <3>2 DEF SentIsMeasured
  <2>3. CASE echo # 0
    <3>1. snap.state = "VALID" /\ echo \in Pulse /\ rose /\ snap.mm = (echo * 10) \div 58
      BY <2>1, <2>3 DEF Taken, distance_mm_from_us
    <3> DEFINE mm == (echo * 10) \div 58
    <3>2. mm \in Nat
      BY <3>1, SensorCycleAssumption
    <3>3. /\ mm > Ground =>
              sent = [level |-> 0, validity |-> "QUESTIONABLE", detail |-> "OUT_OF_RANGE"]
          /\ mm < MIN_DISTANCE_MM =>
              sent = [level |-> Ground, validity |-> "QUESTIONABLE", detail |-> "OVERFLOW"]
          /\ mm \in MIN_DISTANCE_MM .. Ground =>
              sent = [level |-> Ground - mm, validity |-> "GOOD", detail |-> "NONE"]
      <4> HIDE DEF mm
      <4>1. /\ snap.state = "VALID" /\ snap.mm = mm
            /\ Ground \in Nat /\ Ground >= 250 /\ MIN_DISTANCE_MM = 250
        BY <3>1, SensorCycleAssumption DEF mm, MIN_DISTANCE_MM
      <4>2. CASE mm > Ground
        BY <2>1, <3>2, <4>1, <4>2 DEF calculate_reading
      <4>3. CASE mm < MIN_DISTANCE_MM
        BY <2>1, <3>2, <4>1, <4>3 DEF calculate_reading
      <4>4. CASE mm \in MIN_DISTANCE_MM .. Ground
        BY <2>1, <3>2, <4>1, <4>4 DEF calculate_reading
      <4> QED
        BY <4>2, <4>3, <4>4
    <3>4. /\ (sent.validity = "GOOD") <=> (mm \in MIN_DISTANCE_MM .. Ground)
          /\ sent.level = Max({0, Ground - (IF mm < MIN_DISTANCE_MM THEN 0 ELSE mm)})
      <4> HIDE DEF mm
      <4> QED
        BY <3>2, <3>3, LevelOfDistance
    <3> QED
      BY <2>3, <3>1, <3>4 DEF SentIsMeasured
  <2> QED
    BY <2>2, <2>3
<1> QED
  BY <1>1, CycleInvariant, PTL
=============================================================================
