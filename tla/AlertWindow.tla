---------------------------- MODULE AlertWindow -----------------------------
(***************************************************************************)
(* The way of an alert through the system: the fog nodes close their       *)
(* collection windows (outlier_vote/service.hpp), the leader's batches go  *)
(* into the replicated log with the alert flag of its vote engine, every   *)
(* fog node that applies a batch whose flag differs from its own switches  *)
(* its window and multicasts the change (application.hpp, alert.hpp), and  *)
(* the followers and edge nodes that hear of it switch too.                *)
(*                                                                         *)
(* Raft is represented by the log of committed batches and by the leader.  *)
(* On each fog node the work queue closes windows and applies batches, and *)
(* OpenThread's thread handles packets between any two steps of it.        *)
(* Alert packets are unnumbered multicasts that nobody confirms: each node *)
(* may receive one late, after newer ones, several times or never.         *)
(***************************************************************************)
EXTENDS Integers, Sequences, SequencesExt

CONSTANTS
    Fog, Edge,      \* the fog nodes and the edge nodes
    Normal,         \* m_collection_window_ms in units of the alert window
    ClearWindows,   \* m_alert_clear_windows
    MaxBatches,     \* bound: batches in the log; windows give none after that
    MaxFaults       \* bound: changes of leader, restarts and lost batches together

ASSUME AlertWindowAssumption ==
    /\ Fog \intersect Edge = {}
    /\ {Normal, ClearWindows} \subseteq Nat \ {0}
    /\ {MaxBatches, MaxFaults} \subseteq Nat

Alert == 1      \* ALERT_INTERVAL_MS, the unit of time
Off   == -1

VARIABLES
    leader,     \* the node whose submits succeed
    log,        \* the committed batches: alert flag, trigger, author
    applied,    \* number of batches each node has applied
    flag,       \* Application::m_alert_active
    window,     \* the engine's m_collection_window_ms
    timer,      \* time to the end of the window
    work,       \* where on_window_close is
    next,       \* the next_ms it read, Off outside it
    raised,     \* the engine's m_alert_active
    clean,      \* the engine's m_clean_windows
    edge,       \* Edge::m_alert.m_alert_active of each edge node
    packets,    \* the alert packets sent so far
    clock,      \* the synchronised time modulo Normal
    faults,     \* the kinds of the faults so far
    late,       \* history: the timer was set over a packet that came during
                \* on_window_close
    own         \* history: the node, as leader, applied a change of the alert

engine == <<raised, clean>>
node   == <<flag, window, timer>>
vars   == <<leader, log, applied, node, work, next, engine, edge, packets, clock,
            faults, late, own>>

Fault(kind) == Len(faults) < MaxFaults /\ faults' = Append(faults, kind)

-----------------------------------------------------------------------------
(* VoteService.                                                            *)

\* next_boundary_timeout with a synchronised clock.
next_boundary(period) == period - (clock % period)

\* The timer of the window expires; its work is queued.
WindowExpires(n) ==
    /\ timer[n] = 0
    /\ timer' = [timer EXCEPT ![n] = Off]
    /\ work' = [work EXCEPT ![n] = "queued"]
    /\ late' = [late EXCEPT ![n] = FALSE]
    /\ UNCHANGED <<leader, log, applied, flag, window, next, engine, edge, packets,
                   clock, faults, own>>

\* Variant: the alert ends a window early.
check_alert_one_early(n, trigger) ==
    LET c == IF raised[n] /\ ~trigger THEN clean[n] + 1 ELSE 0
    IN  /\ raised' = [raised EXCEPT ![n] =
                          trigger \/ (raised[n] /\ c + 1 < ClearWindows)]
        /\ clean' = [clean EXCEPT ![n] = IF c + 1 = ClearWindows THEN 0 ELSE c]

\* Engine::check_alert on the batch of this window.
check_alert(n, trigger) ==
    LET c == IF raised[n] /\ ~trigger THEN clean[n] + 1 ELSE 0
    IN  /\ raised' = [raised EXCEPT ![n] =
                          trigger \/ (raised[n] /\ c < ClearWindows)]
        /\ clean' = [clean EXCEPT ![n] = IF c = ClearWindows THEN 0 ELSE c]

\* m_submit: a follower's submit is refused, and what a leader submits may be lost
\* with its office before it commits.
submit(n, trigger) ==
    IF n # leader
    THEN UNCHANGED <<log, faults>>
    ELSE \/ /\ log' = Append(log, [alert |-> raised'[n], trigger |-> trigger, by |-> n])
            /\ UNCHANGED faults
         \/ /\ Fault("lost")
            /\ UNCHANGED log

\* on_window_close up to the submit: fewer than MIN_REPORTERS readings, or a batch
\* with or without a reading that triggers the alert.
CloseWindow(n, content) ==
    /\ work[n] = "queued"
    /\ work' = [work EXCEPT ![n] = "rearm"]
    /\ next' = [next EXCEPT ![n] = window[n]]
    /\ IF content = "few"
       THEN UNCHANGED <<engine, log, faults>>
       ELSE /\ Len(log) < MaxBatches
            /\ check_alert(n, content = "high")
            /\ submit(n, content = "high")
    /\ UNCHANGED <<leader, applied, node, edge, packets, clock, late, own>>

\* Variant: the timer is set again during an alert only.
Rearm_after_alert_only(n) ==
    /\ work[n] = "rearm"
    /\ work' = [work EXCEPT ![n] = "idle"]
    /\ timer' = [timer EXCEPT ![n] = IF raised[n] THEN next_boundary(next[n]) ELSE @]
    /\ next' = [next EXCEPT ![n] = Off]
    /\ UNCHANGED <<leader, log, applied, flag, window, engine, edge, packets, clock,
                   faults, late, own>>

\* The end of on_window_close: re-arm with the window length read above.
Rearm(n) ==
    /\ work[n] = "rearm"
    /\ work' = [work EXCEPT ![n] = "idle"]
    /\ timer' = [timer EXCEPT ![n] = next_boundary(next[n])]
    /\ next' = [next EXCEPT ![n] = Off]
    /\ UNCHANGED <<leader, log, applied, flag, window, engine, edge, packets, clock,
                   faults, late, own>>

\* Variant: the timer runs on with the old length.
set_window_no_resync(n, w) ==
    /\ window' = [window EXCEPT ![n] = w]
    /\ UNCHANGED timer

\* set_collection_window and resync.
set_window(n, w) ==
    /\ window' = [window EXCEPT ![n] = w]
    /\ timer' = [timer EXCEPT ![n] = next_boundary(w)]

-----------------------------------------------------------------------------
(* Application and Alert.                                                  *)

WindowOf(active) == IF active THEN Alert ELSE Normal

\* send_alert: a multicast to every other node.
send_alert(n, active) == packets' = packets \union {[from |-> n, active |-> active]}

\* Variant: the flag of the node's own engine is taken for the batch's.
check_entry_own_engine(n, batch) ==
    IF raised[n] = flag[n]
    THEN UNCHANGED <<node, packets>>
    ELSE /\ flag' = [flag EXCEPT ![n] = raised[n]]
         /\ send_alert(n, raised[n])
         /\ set_window(n, WindowOf(raised[n]))

\* Application::check_alert.
check_entry(n, batch) ==
    IF batch.alert = flag[n]
    THEN UNCHANGED <<node, packets>>
    ELSE /\ flag' = [flag EXCEPT ![n] = batch.alert]
         /\ send_alert(n, batch.alert)
         /\ set_window(n, WindowOf(batch.alert))

\* on_apply of the next batch, on the work queue.
Apply(n) ==
    /\ work[n] # "rearm"
    /\ applied[n] < Len(log)
    /\ applied' = [applied EXCEPT ![n] = @ + 1]
    /\ check_entry(n, log[applied'[n]])
    /\ own' = [own EXCEPT ![n] = @ \/ (n = leader /\ flag'[n] # flag[n])]
    /\ UNCHANGED <<leader, log, work, next, engine, edge, clock, faults, late>>

\* Variant: a leader acts on packets too.
Ignores_none(n) == FALSE

\* The test at the head of the fog node's alert callback.
Ignores(n) == n = leader

\* alert_handler on a fog node, for a packet that is not its own echo.
HandleAlert(n, p) ==
    /\ p.from # n
    /\ ~Ignores(n)
    /\ set_window(n, WindowOf(p.active))
    /\ late' = [late EXCEPT ![n] = work[n] = "rearm"]
    /\ UNCHANGED <<leader, log, applied, flag, work, next, engine, edge, packets,
                   clock, faults, own>>

\* alert_handler on an edge node.
EdgeAlert(e, p) ==
    /\ edge' = [edge EXCEPT ![e] = p.active]
    /\ UNCHANGED <<leader, log, applied, node, work, next, engine, packets, clock,
                   faults, late, own>>

-----------------------------------------------------------------------------
(* The rest of the world.                                                  *)

Elect(n) ==
    /\ n # leader
    /\ Fault("election")
    /\ leader' = n
    /\ own' = [m \in Fog |-> FALSE]
    /\ UNCHANGED <<log, applied, node, work, next, engine, edge, packets, clock, late>>

\* Nothing of this is persisted: the node starts afresh and the leader sends it
\* the log from the beginning.
Restart(n) ==
    /\ n # leader
    /\ Fault("restart")
    /\ applied' = [applied EXCEPT ![n] = 0]
    /\ flag' = [flag EXCEPT ![n] = FALSE]
    /\ window' = [window EXCEPT ![n] = Normal]
    /\ timer' = [timer EXCEPT ![n] = next_boundary(Normal)]
    /\ work' = [work EXCEPT ![n] = "idle"]
    /\ raised' = [raised EXCEPT ![n] = FALSE]
    /\ clean' = [clean EXCEPT ![n] = 0]
    /\ next' = [next EXCEPT ![n] = Off]
    /\ late' = [late EXCEPT ![n] = FALSE]
    /\ UNCHANGED <<leader, log, edge, packets, clock, own>>

\* Time passes when no window is being closed.
Tick ==
    /\ \A n \in Fog : work[n] = "idle" /\ timer[n] # 0
    /\ clock' = (clock + 1) % Normal
    /\ timer' = [n \in Fog |-> timer[n] - 1]
    /\ UNCHANGED <<leader, log, applied, flag, window, work, next, engine, edge,
                   packets, faults, late, own>>

-----------------------------------------------------------------------------
\* Every node has called start(), and a leader is elected.
Init ==
    /\ leader \in Fog
    /\ log = <<>>
    /\ applied = [n \in Fog |-> 0]
    /\ flag = [n \in Fog |-> FALSE]
    /\ window = [n \in Fog |-> Normal]
    /\ timer = [n \in Fog |-> Normal]
    /\ work = [n \in Fog |-> "idle"]
    /\ next = [n \in Fog |-> Off]
    /\ raised = [n \in Fog |-> FALSE]
    /\ clean = [n \in Fog |-> 0]
    /\ edge = [e \in Edge |-> FALSE]
    /\ packets = {}
    /\ clock = 0
    /\ faults = <<>>
    /\ late = [n \in Fog |-> FALSE]
    /\ own = [n \in Fog |-> FALSE]

Next ==
    \/ \E n \in Fog : WindowExpires(n)
    \/ \E n \in Fog, content \in {"few", "low", "high"} : CloseWindow(n, content)
    \/ \E n \in Fog : Rearm(n)
    \/ \E n \in Fog : Apply(n)
    \/ \E n \in Fog, p \in packets : HandleAlert(n, p)
    \/ \E e \in Edge, p \in packets : EdgeAlert(e, p)
    \/ \E n \in Fog : Elect(n)
    \/ \E n \in Fog : Restart(n)
    \/ Tick

Spec == Init /\ [][Next]_vars

-----------------------------------------------------------------------------
\* The values the variables take.
TypeOK ==
    /\ leader \in Fog
    /\ log \in Seq([alert : BOOLEAN, trigger : BOOLEAN, by : Fog])
    /\ applied \in [Fog -> 0 .. Len(log)]
    /\ flag \in [Fog -> BOOLEAN]
    /\ window \in [Fog -> {Alert, Normal}] /\ next \in [Fog -> {Alert, Normal, Off}]
    /\ timer \in [Fog -> -1 .. Normal]
    /\ work \in [Fog -> {"idle", "queued", "rearm"}]
    /\ raised \in [Fog -> BOOLEAN]
    /\ clean \in [Fog -> 0 .. ClearWindows - 1]
    /\ edge \in [Edge -> BOOLEAN]
    /\ packets \subseteq [from : Fog, active : BOOLEAN]
    /\ clock \in 0 .. Normal - 1
    /\ faults \in Seq({"lost", "election", "restart"})
    /\ late \in [Fog -> BOOLEAN] /\ own \in [Fog -> BOOLEAN]

\* Nobody acts on an alert that is in no log: the nodes' own engines raise alerts
\* too, and a leader may lose its office before the batch commits, but a window
\* shorter than the normal one and an edge node's alert go back to a committed batch.
AlertIsCommitted ==
    (\E n \in Fog : window[n] # Normal) \/ (\E e \in Edge : edge[e]) =>
        \E k \in DOMAIN log : log[k].alert

\* A leader that has applied a change of the alert keeps the window that the last
\* batch it applied asks for, whatever packets about earlier changes still arrive.
LeaderKeepsItsWindow ==
    \A n \in Fog :
        n = leader /\ own[n] =>
            applied[n] > 0 /\ window[n] = WindowOf(log[applied[n]].alert)

\* A node that has switched to the window of an alert closes its windows at that
\* pace at once, unless a packet switched it in the middle of on_window_close.
AlertWindowIsPrompt ==
    \A n \in Fog :
        window[n] = Alert /\ timer[n] # Off /\ ~late[n] => timer[n] <= Alert

\* As long as one node leads and every batch it submits commits, an alert is not
\* called off before ClearWindows batches in a row without a trigger.  (A node that
\* leads again counts the windows it closed as a follower too, which are in no log.)
ClearedAfterCleanWindows ==
    {"lost", "election"} \intersect ToSet(faults) = {} =>
        \A k \in 2 .. Len(log) :
            log[k-1].alert /\ ~log[k].alert =>
                /\ k >= ClearWindows
                /\ \A j \in k - ClearWindows + 1 .. k : ~log[j].trigger

\* A fog node never stops closing windows: its timer runs or a window is being
\* closed, with readings or without, whatever packets re-align the timer.
WindowIsArmed == \A n \in Fog : timer[n] # Off \/ work[n] # "idle"
=============================================================================
