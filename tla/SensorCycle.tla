---------------------------- MODULE SensorCycle -----------------------------
(***************************************************************************)
(* The edge node's measurement cycle (edge/src/sensor/sensor_cycle.hpp)    *)
(* over the driver of its ultrasonic sensor (edge/src/jsn/driver.hpp).     *)
(*                                                                         *)
(* Three actors share the driver's state on one core: the work queue's     *)
(* thread, which runs the cycle's work items one after the other; the echo *)
(* pin's interrupt, which runs between any two steps of the thread; and    *)
(* the kernel timers, whose interrupts only queue work.  Timers count down *)
(* in ticks of SENSOR_WARMUP_MS.                                           *)
(***************************************************************************)
EXTENDS Integers, Sequences, FiniteSetsExt

CONSTANTS
    Warmup,     \* SENSOR_WARMUP_MS in ticks
    Timeout,    \* SENSOR_TIMEOUT_MS in ticks
    SleepTicks, \* SLEEP_MS, the interval without an alert
    AlertTicks, \* m_alert_interval_ms of an active alert
    Pulse,      \* widths of the echo pulse in us
    Ground      \* GROUND_DIST_MM

MIN_DISTANCE_MM == 250

ASSUME SensorCycleAssumption ==
    /\ {Warmup, Timeout} \subseteq Nat \ {0}
    /\ {SleepTicks, AlertTicks} \subseteq Nat
    /\ AlertTicks > Warmup + Timeout /\ SleepTicks >= AlertTicks
    /\ Ground \in Nat /\ MIN_DISTANCE_MM <= Ground /\ Ground <= 65535
    \* The sensor gives up long before a pulse whose distance needs 17 bits.
    /\ Pulse \subseteq Nat \ {0} /\ \A us \in Pulse : us <= 380000

Task == {"sleep", "warmup", "timeout"}  \* the PeriodicTasks
Work == Task \union {"read"}            \* and the WorkTask m_read_work

Off == -1

VARIABLES
    timer,      \* ticks to the expiry of each PeriodicTask, Off when stopped
    queue,      \* the system work queue
    pc,         \* the step the work queue's thread has reached
    snap,       \* do_read's copy of the reading
    since,      \* time since m_cycle_start_ms
    alert,      \* Edge::m_alert.m_alert_active
    power,      \* the power pin
    armed,      \* whether the echo pin interrupts
    pin,        \* the level of the echo pin
    pending,    \* an edge whose interrupt has not run
    seq,        \* m_seq modulo 2
    reading,    \* m_state and m_distance_mm
    rising,     \* m_rising_cycles # 0
    resolved,   \* m_resolved
    sent,       \* the last reading handed to send_sensor_data
    rose,       \* history: the interrupt saw a rising edge since the trigger
    echo,       \* history: width of the pulse resolved since the trigger, or 0
    early,      \* history: an echo resolved before its timeout was armed
    untaken,    \* history: the last trigger has not led to a reading
    extra,      \* history: a reading no trigger asked for
    period,     \* history: the interval of the last schedule
    spun        \* history: the interrupt met a publish it had interrupted

kernel  == <<timer, queue>>
driver  == <<power, armed, pending, seq, reading, rising, resolved>>
history == <<rose, echo, early, untaken, extra, period>>
vars    == <<kernel, pc, snap, since, alert, driver, pin, sent, history, spun>>

MaxSince == SleepTicks + Timeout    \* bound: since stays here

-----------------------------------------------------------------------------
(* jsn_logic.hpp.                                                          *)

distance_mm_from_us(us) == (us * 10) \div 58

Reading(state, mm) == [state |-> state, mm |-> mm]

\* calculate_reading.
calculate_reading(valid, dist) ==
    CASE ~valid -> [level |-> 0, validity |-> "INVALID", detail |-> "FAILURE"]
      [] valid /\ dist > Ground ->
             [level |-> 0, validity |-> "QUESTIONABLE", detail |-> "OUT_OF_RANGE"]
      [] valid /\ dist < MIN_DISTANCE_MM ->
             [level |-> Ground, validity |-> "QUESTIONABLE", detail |-> "OVERFLOW"]
      [] valid /\ dist \in MIN_DISTANCE_MM .. Ground ->
             [level |-> Ground - dist, validity |-> "GOOD", detail |-> "NONE"]

-----------------------------------------------------------------------------
(* Timers and work items.                                                  *)

\* k_work_submit: an item that is queued is not queued again.
Submit(w) ==
    queue' = IF w \in {queue[k] : k \in DOMAIN queue} THEN queue ELSE Append(queue, w)

\* A PeriodicTask's timer expires: its work is submitted.
Expire(t) ==
    /\ timer[t] = 0 /\ ~spun
    /\ timer' = [timer EXCEPT ![t] = Off]
    /\ Submit(t)
    /\ UNCHANGED <<pc, snap, since, alert, driver, pin, sent, history, spun>>

\* Time passes while the thread is idle or blocked in the CoAP send.
Tick ==
    /\ pc = "emit" \/ (pc = "idle" /\ queue = <<>>)
    /\ \A t \in Task : timer[t] # 0
    /\ timer' = [t \in Task |-> IF timer[t] = Off THEN Off ELSE timer[t] - 1]
    /\ since' = IF since < MaxSince THEN since + 1 ELSE since
    /\ UNCHANGED <<queue, pc, snap, alert, driver, pin, sent, history, spun>>

\* The thread runs a step of the work item it is in.
At(step) == pc = step /\ ~spun

\* The thread takes the next work item.
Take(w) ==
    /\ pc = "idle" /\ ~spun
    /\ queue # <<>>
    /\ Head(queue) = w
    /\ queue' = Tail(queue)

-----------------------------------------------------------------------------
(* The work items.                                                         *)

on_sleep_elapsed ==
    /\ Take("sleep")
    /\ since' = 0
    /\ power' = TRUE
    /\ timer' = [timer EXCEPT !["warmup"] = Warmup]
    /\ UNCHANGED <<pc, snap, alert, armed, pending, seq, reading, rising,
                   resolved, pin, sent, history, spun>>

\* on_warmup_elapsed: Driver::trigger, in its steps.
on_warmup_elapsed ==
    /\ Take("warmup")
    /\ pc' = "publish"
    /\ resolved' = FALSE
    /\ seq' = 1
    /\ rose' = FALSE
    /\ echo' = 0
    /\ untaken' = TRUE
    /\ UNCHANGED <<timer, snap, since, alert, power, armed, pending, reading,
                   rising, pin, sent, early, extra, period, spun>>

trigger_publish ==
    /\ At("publish")
    /\ pc' = "rising"
    /\ reading' = Reading("IN_FLIGHT", 0)
    /\ seq' = 0
    /\ UNCHANGED <<kernel, snap, since, alert, power, armed, pending, rising,
                   resolved, pin, sent, history, spun>>

\* Variant: the time of the last rising edge is kept.
trigger_rising_kept ==
    /\ At("rising")
    /\ pc' = "arm"
    /\ UNCHANGED <<kernel, snap, since, alert, driver, pin, sent, history, spun>>

trigger_rising ==
    /\ At("rising")
    /\ pc' = "arm"
    /\ rising' = FALSE
    /\ UNCHANGED <<kernel, snap, since, alert, power, armed, pending, seq, reading,
                   resolved, pin, sent, history, spun>>

\* gpio_pin_interrupt_configure_dt, then the pulse on the trigger pin.
trigger_arm ==
    /\ At("arm")
    /\ pc' = "guard"
    /\ armed' = TRUE
    /\ UNCHANGED <<kernel, snap, since, alert, power, pending, seq, reading,
                   rising, resolved, pin, sent, history, spun>>

\* m_timeout.one_shot, after trigger() has returned.
arm_timeout ==
    /\ At("guard")
    /\ pc' = "idle"
    /\ timer' = [timer EXCEPT !["timeout"] = Timeout]
    /\ UNCHANGED <<queue, snap, since, alert, driver, pin, sent, history, spun>>

\* Driver::on_timeout: the exchange decides who resolves the measurement.
on_timeout_elapsed ==
    /\ Take("timeout")
    /\ pc' = IF resolved THEN "idle" ELSE "disarm"
    /\ resolved' = TRUE
    /\ UNCHANGED <<timer, snap, since, alert, power, armed, pending, seq, reading,
                   rising, pin, sent, history, spun>>

\* Variant: the reading is published while the echo pin still interrupts.
timeout_disarm_late ==
    /\ At("disarm")
    /\ pc' = "timed_out"
    /\ seq' = 1
    /\ UNCHANGED <<kernel, snap, since, alert, power, armed, pending, reading,
                   rising, resolved, pin, sent, history, spun>>

\* The interrupt is disabled, then the publish begins.
timeout_disarm ==
    /\ At("disarm")
    /\ pc' = "timed_out"
    /\ armed' = FALSE
    /\ pending' = FALSE
    /\ seq' = 1
    /\ UNCHANGED <<kernel, snap, since, alert, power, reading, rising, resolved,
                   pin, sent, history, spun>>

\* Variant: the completion callback leaves the timeout running.
done_keeps_timeout ==
    /\ Submit("read")
    /\ UNCHANGED timer

\* m_done: stop the timeout, submit the read.
done ==
    /\ timer' = [timer EXCEPT !["timeout"] = Off]
    /\ Submit("read")

\* Variant: only the echo calls the completion callback.
timeout_publish_not_done ==
    /\ At("timed_out")
    /\ pc' = "idle"
    /\ reading' = Reading("TIMEOUT", 0)
    /\ seq' = 0
    /\ UNCHANGED <<kernel, snap, since, alert, power, armed, pending, rising,
                   resolved, pin, sent, history, spun>>

timeout_publish ==
    /\ At("timed_out")
    /\ pc' = "idle"
    /\ reading' = Reading("TIMEOUT", 0)
    /\ seq' = 0
    /\ done
    /\ UNCHANGED <<snap, since, alert, power, armed, pending, rising, resolved,
                   pin, sent, history, spun>>

\* do_read: power off and snapshot, emit, reset, schedule the next sleep.
do_read ==
    /\ Take("read")
    /\ pc' = "emit"
    /\ power' = FALSE
    /\ snap' = reading
    /\ untaken' = FALSE
    /\ extra' = (extra \/ ~untaken)
    /\ UNCHANGED <<timer, since, alert, armed, pending, seq, reading, rising,
                   resolved, pin, sent, rose, echo, early, period, spun>>

\* Edge::send_sensor_reading.
emit_reading ==
    /\ At("emit")
    /\ pc' = "reset"
    /\ sent' = calculate_reading(snap.state = "VALID", snap.mm)
    /\ UNCHANGED <<kernel, snap, since, alert, driver, pin, history, spun>>

\* The lambda sleep_interval_ms of Edge.
sleep_interval == IF alert THEN AlertTicks ELSE SleepTicks

\* Variant: a whole interval after the reading.
remaining_from_now(p) == p

\* The interval less what has passed of it since the anchor.
remaining(p) == Max({p - since, 0})

schedule_sleep ==
    /\ At("reset")
    /\ pc' = "idle"
    /\ resolved' = FALSE
    /\ reading' = Reading("IDLE", 0)
    /\ period' = sleep_interval
    /\ timer' = [timer EXCEPT !["sleep"] = remaining(period')]
    /\ UNCHANGED <<queue, snap, since, alert, power, armed, pending, seq, rising,
                   pin, sent, rose, echo, early, untaken, extra, spun>>

-----------------------------------------------------------------------------
(* The echo pin and its interrupt.                                         *)

\* The line changes; an armed pin remembers that it did.
Flip ==
    /\ pin' = 1 - pin
    /\ pending' = armed
    /\ UNCHANGED <<kernel, pc, snap, since, alert, power, armed, seq, reading,
                   rising, resolved, sent, history, spun>>

\* A rising edge of a measurement in flight.
rising_edge ==
    /\ rising' = TRUE
    /\ rose' = TRUE
    /\ UNCHANGED <<kernel, armed, reading, resolved, echo, early>>

\* A falling edge that wins against the timeout: publish and done.
falling_edge ==
    \E us \in Pulse :
        /\ resolved' = TRUE
        /\ armed' = FALSE
        /\ reading' = Reading("VALID", distance_mm_from_us(us) % 65536)
        /\ done
        /\ echo' = us
        /\ early' = (early \/ pc = "guard")
        /\ UNCHANGED <<rising, rose>>

edge_ignored == UNCHANGED <<kernel, armed, reading, resolved, rising, rose, echo, early>>

\* The edges on_edge acts on.
rises == reading.state = "IN_FLIGHT" /\ pin = 1
falls == reading.state = "IN_FLIGHT" /\ pin = 0 /\ rising /\ ~resolved

\* on_edge.  The level is that of the moment the interrupt runs.
\* load_reading waits for a publish to end: over one it interrupted, for ever.
on_edge ==
    /\ armed /\ pending /\ ~spun
    /\ pending' = FALSE
    /\ spun' = (seq = 1)
    /\ IF seq = 0 /\ rises THEN rising_edge
       ELSE IF seq = 0 /\ falls THEN falling_edge
       ELSE edge_ignored
    /\ UNCHANGED <<pc, snap, since, alert, power, seq, pin, sent, untaken, extra,
                   period>>

-----------------------------------------------------------------------------
\* Edge's alert handler, in the context of OpenThread.
on_alert(active) ==
    /\ alert # active
    /\ alert' = active
    /\ UNCHANGED <<kernel, pc, snap, since, driver, pin, sent, history, spun>>

\* Edge::init has called start().
Init ==
    /\ timer = [t \in Task |-> IF t = "sleep" THEN SleepTicks ELSE Off]
    /\ queue = <<>>
    /\ pc = "idle"
    /\ snap = Reading("IDLE", 0)
    /\ since = 0
    /\ alert = FALSE
    /\ power = FALSE
    /\ armed = FALSE
    /\ pin = 0
    /\ pending = FALSE
    /\ seq = 0
    /\ reading = Reading("IDLE", 0)
    /\ rising = FALSE
    /\ resolved = FALSE
    /\ sent = calculate_reading(FALSE, 0)
    /\ rose = FALSE
    /\ echo = 0
    /\ early = FALSE
    /\ untaken = FALSE
    /\ extra = FALSE
    /\ period = SleepTicks
    /\ spun = FALSE

Thread ==
    \/ on_sleep_elapsed
    \/ on_warmup_elapsed \/ trigger_publish \/ trigger_rising \/ trigger_arm \/ arm_timeout
    \/ on_timeout_elapsed \/ timeout_disarm \/ timeout_publish
    \/ do_read \/ emit_reading \/ schedule_sleep

Next ==
    \/ Thread
    \/ \E t \in Task : Expire(t)
    \/ Tick
    \/ Flip
    \/ on_edge
    \/ \E active \in BOOLEAN : on_alert(active)

Spec == Init /\ [][Next]_vars

\* The kernel runs the work queue's thread and delivers interrupts, and time
\* passes.  Nothing makes the sensor echo or an alert arrive.
FairSpec ==
    /\ Spec
    /\ WF_vars(Thread)
    /\ \A t \in Task : WF_vars(Expire(t))
    /\ WF_vars(on_edge)
    /\ WF_vars(Tick)

-----------------------------------------------------------------------------
\* The values the variables take.
TypeOK ==
    /\ timer \in [Task -> -1 .. SleepTicks]
    /\ queue \in Seq(Work) /\ Len(queue) <= 4
    /\ pc \in {"idle", "publish", "rising", "arm", "guard", "disarm", "timed_out",
               "emit", "reset"}
    /\ \A r \in {snap, reading} :
           /\ r.state \in {"IDLE", "IN_FLIGHT", "VALID", "TIMEOUT"}
           /\ r.mm \in 0 .. 65535
    /\ since \in 0 .. MaxSince
    /\ pin \in 0 .. 1 /\ seq \in 0 .. 1
    /\ {alert, power, armed, pending, rising, resolved, rose, early, untaken,
        extra, spun} \subseteq BOOLEAN
    /\ echo \in Pulse \union {0}
    /\ sent.level \in 0 .. Ground

\* The echo interrupt never runs in the middle of a publish of the thread it
\* interrupted, over which load_reading would wait for ever.  An echo that was over
\* before the timeout was armed leaves the timeout running: if the send of its
\* reading then blocks past the next wake-up, two cycles overlap and it may.
NeverSpins == spun => early

\* Every trigger leads to one reading, by the echo or by the timeout but not by
\* both, unless the echo was over before the timeout was armed.
OneReadingPerTrigger == extra => early

\* The level that is sent is that of the pulse whose two edges were seen since
\* the trigger, in the band the width of the pulse calls for; a trigger without
\* such a pulse sends a failure.
SentIsMeasured ==
    pc = "reset" /\ ~early =>
        LET mm == (echo * 10) \div 58
        IN  IF echo = 0 THEN sent.validity = "INVALID"
            ELSE /\ rose
                 /\ (sent.validity = "GOOD") <=> (mm \in MIN_DISTANCE_MM .. Ground)
                 /\ sent.level = Max({0, Ground - (IF mm < MIN_DISTANCE_MM THEN 0 ELSE mm)})

\* While the node sleeps its sensor is off and no measurement is under way, and
\* it wakes one interval after the last time it did, the time of the measurement
\* included, or at once when a send overran the interval.
SleepsUntilDue ==
    timer["sleep"] # Off /\ ~early =>
        /\ ~power /\ ~armed
        /\ timer["warmup"] = Off /\ timer["timeout"] = Off
        /\ \/ since + timer["sleep"] = period
           \/ since > period /\ timer["sleep"] = 0

\* Readings do not end, whatever the sensor and the alerts do.
KeepsReading == []<>(pc = "emit" \/ spun)
=============================================================================
