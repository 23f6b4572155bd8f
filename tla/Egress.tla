------------------------------- MODULE Egress -------------------------------
(***************************************************************************)
(* The uplink of committed sensor batches: EgressCoordinator and           *)
(* EgressTracker on every fog node, the hooks Application gives them, the  *)
(* LoRaWAN queue they feed (its thread is module LoraWan) and the          *)
(* gateway's duplicate test.                                               *)
(*                                                                         *)
(* Raft is used through what RaftServer shows of it: one log whose         *)
(* committed prefix is stable, a leader that appends to it, nodes that     *)
(* apply committed entries in order, and elections that may cut off what   *)
(* is not committed.  A deposed leader that has not noticed yet appends to *)
(* a log nobody will commit, which is the same as a refused submit.  A     *)
(* crashed node does not come back: what a restart does to the log is      *)
(* RaftServer's subject.                                                   *)
(***************************************************************************)
EXTENDS Integers, Sequences, FiniteSets

CONSTANTS
    Node,               \* the fog nodes
    NoNode,             \* no leader is known
    NoRecord,           \* an egress slot that is not valid
    Cap,                \* TX_EGRESS_QUEUE_SIZE, 4
    QueueDepth,         \* TX_QUEUE_DEPTH, 8
    LogCapacity,        \* Cfg::LOG_CAPACITY
    SnapshotThreshold,  \* Cfg::SNAPSHOT_THRESHOLD
    HistorySize,        \* the gateway's Config.HistorySize
    MaxBatches,         \* bound: batches the vote service submits
    MaxElections,       \* bound: changes of leader
    MaxCrashes          \* bound: nodes that crash

ASSUME EgressAssumption ==
    /\ NoNode \notin Node
    /\ {Cap, QueueDepth, LogCapacity, SnapshotThreshold, HistorySize}
          \subseteq Nat \ {0}
    /\ {MaxBatches, MaxElections, MaxCrashes} \subseteq Nat

VARIABLES
    up,         \* the nodes that have not crashed
    leader,     \* the node whose submits reach the log
    log,        \* the leader's log
    commit,     \* length of the committed prefix
    applied,    \* m_last_applied
    base,       \* m_log.base(): entries up to here are no longer readable
    tracker,    \* m_tracker
    txq,        \* m_tx_q, with the payload the LoRaWAN thread holds
    done,       \* payloads answered with Done whose m_on_complete has not run
    owed,       \* whether the E5 module still owes a Done to an earlier uplink
    history,    \* the gateway's ring of recorded numbers, oldest first
    recorded,   \* history: the uplinks the gateway recorded, in order
    refused,    \* history: the uplinks it dropped as duplicates
    air,        \* history: the uplinks transmitted
    completed,  \* history: the payloads answered with Done
    dropped,    \* history: payloads not sent, for the queue or the log was full
    overlap,    \* history: a batch was submitted while another was in flight
    elections   \* number of elections so far

raftVars == <<up, leader, log, commit, applied, base, elections>>
gateway  == <<history, recorded, refused>>
thread   == <<done, owed>>
past     == <<air, completed, dropped>>
vars     == <<raftVars, tracker, txq, thread, gateway, past, overlap>>

Slot   == 0 .. Cap - 1
Record == [seq : Nat, index : Nat, phase : {"STARTED", "SENT"}]

BatchEntry(b) == [kind |-> "SENSOR_DATA", batch |-> b]
EgressEntry(i, s, p) ==
    [kind |-> "EGRESS_MSG", rec |-> [seq |-> s, index |-> i, phase |-> p]]

-----------------------------------------------------------------------------
(* EgressTracker.                                                          *)

EmptyTracker == [ring |-> [s \in Slot |-> NoRecord], head |-> 0, next |-> 0]

NextSlot(h) == (h + 1) % Cap

\* The slots that track number k.
SlotsOf(t, k) == {s \in Slot : t.ring[s] # NoRecord /\ t.ring[s].seq = k}

\* Variant: an equal number does not advance the next one.
NextAfterOffByOne(t, r) == IF r.seq > t.next THEN r.seq + 1 ELSE t.next

NextAfter(t, r) == IF r.seq >= t.next THEN r.seq + 1 ELSE t.next

\* on_apply: an update in place keeps the index the slot was claimed with.
OnApply(t, r) ==
    IF SlotsOf(t, r.seq) # {}
    THEN [t EXCEPT !.next = NextAfter(t, r),
                   !.ring = [s \in Slot |->
                               IF s \in SlotsOf(t, r.seq)
                               THEN [@[s] EXCEPT !.phase = r.phase] ELSE @[s]]]
    ELSE [ring |-> [t.ring EXCEPT ![t.head] = r],
          head |-> NextSlot(t.head),
          next |-> NextAfter(t, r)]

\* The records outstanding() chooses from.
Started(t) ==
    {r \in {t.ring[s] : s \in Slot} : r # NoRecord /\ r.phase = "STARTED"}

\* The highest of them; m_next_seq becomes its successor, even if it was larger.
Outstanding(t) == CHOOSE r \in Started(t) : \A q \in Started(t) : q.seq <= r.seq

\* Variant: the new leader takes the record for settled.
AdoptSettles(t) ==
    [t EXCEPT !.next = Outstanding(t).seq + 1,
              !.ring = [s \in Slot |-> IF @[s] = Outstanding(t)
                                       THEN [@[s] EXCEPT !.phase = "SENT"] ELSE @[s]]]

Adopt(t) == [t EXCEPT !.next = Outstanding(t).seq + 1]

-----------------------------------------------------------------------------
(* EgressCoordinator and its hooks.                                        *)

\* m_submit_egress: Engine::submit at node n, whose log is L.
Accepts(n, L) == Len(L) - base[n] < LogCapacity

SubmitEgress(n, L, e) == IF Accepts(n, L) THEN Append(L, e) ELSE L

\* m_read_entry: LogRing::at.
Readable(n, L, i) == base[n] < i /\ i <= Len(L)

\* m_lorawan_send: the queue refuses a payload when it is full, which it is
\* with QueueDepth payloads behind the one the thread may hold.  The result of
\* send_batch is ignored.
LorawanSend(n, p) ==
    \/ /\ Len(txq[n]) <= QueueDepth
       /\ txq' = [txq EXCEPT ![n] = Append(@, p)]
       /\ UNCHANGED dropped
    \/ /\ Len(txq[n]) >= QueueDepth
       /\ dropped' = dropped \union {p}
       /\ UNCHANGED txq

\* dispatch of number s for the batch at index i, out of log L: a batch that
\* is no longer in the log is confirmed, for it can never be sent.
Dispatch(n, s, i, L) ==
    IF Readable(n, L, i)
    THEN /\ LorawanSend(n, [seq |-> s, index |-> i, batch |-> L[i].batch])
         /\ log' = L
    ELSE /\ log' = SubmitEgress(n, L, EgressEntry(i, s, "SENT"))
         /\ UNCHANGED <<txq, dropped>>

\* Variant: a batch is not begun while another number is outstanding.
BeginEgressOneAtATime(n, i) ==
    IF n # leader \/ ~Accepts(n, log) \/ Started(tracker[n]) # {}
    THEN UNCHANGED <<log, txq, dropped>>
    ELSE LET s == tracker[n].next
         IN  Dispatch(n, s, i, Append(log, EgressEntry(i, s, "STARTED")))

\* begin_egress(i), called by on_apply of a SENSOR_DATA entry.
BeginEgress(n, i) ==
    LET s == tracker[n].next
        p == [seq |-> s, index |-> i, batch |-> log[i].batch]
    IN  CASE n # leader -> UNCHANGED <<log, txq, dropped>>
          [] n = leader /\ ~Accepts(n, log) ->
                /\ dropped' = dropped \union {p}
                /\ UNCHANGED <<log, txq>>
          [] n = leader /\ Accepts(n, log) ->
                Dispatch(n, s, i, Append(log, EgressEntry(i, s, "STARTED")))

-----------------------------------------------------------------------------
Init ==
    /\ up = Node
    /\ leader = NoNode
    /\ log = <<>>
    /\ commit = 0
    /\ applied = [n \in Node |-> 0]
    /\ base = [n \in Node |-> 0]
    /\ tracker = [n \in Node |-> EmptyTracker]
    /\ txq = [n \in Node |-> <<>>]
    /\ done = [n \in Node |-> <<>>]
    /\ owed = [n \in Node |-> FALSE]
    /\ history = [k \in 1 .. HistorySize |-> 0]
    /\ recorded = <<>>
    /\ refused = {}
    /\ air = {}
    /\ completed = {}
    /\ dropped = {}
    /\ overlap = FALSE
    /\ elections = 0

\* Everything submitted is applied and confirmed on every live node.
Quiet ==
    \A n \in up :
        /\ applied[n] = Len(log)
        /\ Started(tracker[n]) = {}
        /\ txq[n] = <<>> /\ done[n] = <<>>

Batches == {e \in {log[i] : i \in DOMAIN log} : e.kind = "SENSOR_DATA"}

\* The vote service's window closes on the leader: Engine::submit of the batch.
SubmitBatch(b) ==
    /\ leader # NoNode
    /\ \A e \in Batches : e.batch < b
    /\ Accepts(leader, log)
    /\ log' = Append(log, BatchEntry(b))
    /\ overlap' = (overlap \/ ~Quiet)
    /\ UNCHANGED <<up, leader, commit, applied, base, elections, tracker, txq,
                   thread, gateway, past>>

\* Raft commits one more entry of the leader's log.
Commit ==
    /\ leader # NoNode
    /\ commit < Len(log)
    /\ commit' = commit + 1
    /\ UNCHANGED <<up, leader, log, applied, base, elections, tracker, txq,
                   thread, gateway, past, overlap>>

\* Application::on_apply for the next entry.  last: apply_committed's loop ends
\* with it, so maybe_compact runs.
Apply(n, last) ==
    LET i == applied[n] + 1
        e == log[i]
    IN  /\ n \in up
        /\ i <= commit
        /\ ~last => i < commit
        /\ applied' = [applied EXCEPT ![n] = i]
        /\ base' = [base EXCEPT ![n] =
                       IF last /\ i - @ >= SnapshotThreshold THEN i ELSE @]
        /\ IF e.kind = "EGRESS_MSG"
           THEN /\ tracker' = [tracker EXCEPT ![n] = OnApply(@, e.rec)]
                /\ UNCHANGED <<log, txq, dropped>>
           ELSE /\ BeginEgress(n, i)
                /\ UNCHANGED tracker
        /\ UNCHANGED <<up, leader, commit, elections, thread, gateway, air, completed,
                       overlap>>

\* on_became_leader, called by become_leader's set_state.
OnBecameLeader(n, L) ==
    IF Started(tracker[n]) = {}
    THEN /\ log' = L
         /\ UNCHANGED <<tracker, txq, dropped>>
    ELSE LET r == Outstanding(tracker[n])
         IN  /\ tracker' = [tracker EXCEPT ![n] = Adopt(@)]
             /\ Dispatch(n, r.seq, r.index, L)

\* Another node is elected: it holds every committed entry and any part of
\* what was not committed.
BecomeLeader(n, k) ==
    /\ elections < MaxElections
    /\ elections' = elections + 1
    /\ n \in up /\ n # leader
    /\ leader' = n
    /\ OnBecameLeader(n, SubSeq(log, 1, k))
    /\ UNCHANGED <<up, commit, applied, base, thread, gateway, air, completed, overlap>>

\* A node loses power with everything its LoRaWAN queue holds.
Crash(n) ==
    /\ n \in up
    /\ Cardinality(Node \ up) < MaxCrashes
    /\ up' = up \ {n}
    /\ leader' = IF leader = n THEN NoNode ELSE leader
    /\ txq' = [txq EXCEPT ![n] = <<>>]
    /\ done' = [done EXCEPT ![n] = <<>>]
    /\ owed' = [owed EXCEPT ![n] = FALSE]
    /\ UNCHANGED <<log, commit, applied, base, elections, tracker, gateway,
                   past, overlap>>

-----------------------------------------------------------------------------
(* The LoRaWAN thread (module LoraWan) and the gateway.                    *)

\* Hub.IsUnique: an unused slot of the ring holds number 0.
IsUnique(p) == \A k \in DOMAIN history : history[k] # p.seq

\* HandleUplink: a duplicate is dropped, another one recorded.
HandleUplink(p) ==
    IF IsUnique(p)
    THEN /\ history' = Append(Tail(history), p.seq)
         /\ recorded' = Append(recorded, p)
         /\ UNCHANGED refused
    ELSE /\ refused' = refused \union {p}
         /\ UNCHANGED <<history, recorded>>

\* An uplink without acknowledgement may not reach the gateway.
OnAir(p) ==
    /\ air' = air \union {p}
    /\ HandleUplink(p) \/ UNCHANGED gateway

\* The uplink at the head of the queue is answered with Done.
HeadDone(n) ==
    /\ n \in up
    /\ txq[n] # <<>> /\ done[n] = <<>>
    /\ txq' = [txq EXCEPT ![n] = Tail(@)]
    /\ done' = [done EXCEPT ![n] = <<Head(txq[n])>>]
    /\ completed' = completed \union {Head(txq[n])}
    /\ UNCHANGED <<raftVars, tracker, dropped, overlap>>

\* ship_payload, as far as m_on_complete: the module answers Done.
Transmit(n) ==
    /\ HeadDone(n)
    /\ OnAir(Head(txq[n]))
    /\ UNCHANGED owed

\* The same with the Done the module owed to an earlier uplink, which does not say
\* to which it belongs: this one is completed whether or not it goes out, and its
\* own Done may come late in turn.
TransmitMistaken(n) ==
    /\ owed[n]
    /\ HeadDone(n)
    /\ \/ /\ OnAir(Head(txq[n]))
          /\ owed' \in {owed, [owed EXCEPT ![n] = FALSE]}
       \/ /\ owed' = [owed EXCEPT ![n] = FALSE]
          /\ UNCHANGED <<air, gateway>>

\* ship_payload without an answer in time: the payload goes to the end of the
\* queue, whether or not it went out, and is lost when the queue is full.
TransmitFails(n) ==
    /\ n \in up
    /\ txq[n] # <<>> /\ done[n] = <<>>
    /\ \/ /\ OnAir(Head(txq[n]))
          /\ owed' \in {owed, [owed EXCEPT ![n] = TRUE]}
       \/ UNCHANGED <<air, gateway, owed>>
    /\ IF Len(txq[n]) <= QueueDepth
       THEN /\ txq' = [txq EXCEPT ![n] = Append(Tail(@), Head(@))]
            /\ UNCHANGED dropped
       ELSE /\ txq' = [txq EXCEPT ![n] = Tail(@)]
            /\ dropped' = dropped \union {Head(txq[n])}
    /\ UNCHANGED <<raftVars, tracker, done, completed, overlap>>

\* An owed Done that comes when no uplink is waiting is dropped.
DropLateDone(n) ==
    /\ n \in up
    /\ owed[n]
    /\ owed' = [owed EXCEPT ![n] = FALSE]
    /\ UNCHANGED <<raftVars, tracker, txq, done, gateway, past, overlap>>

\* m_on_complete: on_lorawan_ok submits SENT, on the LoRaWAN thread.  On a node
\* that leads no longer the submit is refused and nothing is recorded.
Complete(n) ==
    /\ n \in up
    /\ done[n] # <<>>
    /\ log' = IF n = leader
              THEN SubmitEgress(n, log, EgressEntry(Head(done[n]).index,
                                                    Head(done[n]).seq, "SENT"))
              ELSE log
    /\ done' = [done EXCEPT ![n] = <<>>]
    /\ UNCHANGED <<up, leader, commit, applied, base, elections, tracker, txq, owed,
                   gateway, past, overlap>>

-----------------------------------------------------------------------------
Next ==
    \/ \E b \in 1 .. MaxBatches : SubmitBatch(b)
    \/ Commit
    \/ \E n \in Node, last \in BOOLEAN : Apply(n, last)
    \/ \E n \in Node, k \in commit .. Len(log) : BecomeLeader(n, k)
    \/ \E n \in Node : Crash(n)
    \/ \E n \in Node : Transmit(n)
    \/ \E n \in Node : TransmitMistaken(n)
    \/ \E n \in Node : TransmitFails(n)
    \/ \E n \in Node : DropLateDone(n)
    \/ \E n \in Node : Complete(n)

Spec == Init /\ [][Next]_vars

-----------------------------------------------------------------------------
\* The values the variables take.
TypeOK ==
    /\ up \subseteq Node
    /\ leader \in up \union {NoNode}
    /\ commit \in 0 .. Len(log)
    /\ applied \in [Node -> 0 .. commit]
    /\ \A n \in Node :
          /\ base[n] \in 0 .. applied[n]
          /\ tracker[n].head \in Slot
          /\ tracker[n].next \in Nat
          /\ \A s \in Slot : tracker[n].ring[s] \in Record \union {NoRecord}
          /\ Len(txq[n]) <= QueueDepth + 1

\* Two nodes that applied the same entries track the same records in the same
\* slots, whoever led meanwhile: a new leader finds what the old one left.
TrackersAgree ==
    \A n, m \in Node :
        applied[n] = applied[m] =>
            /\ tracker[n].ring = tracker[m].ring
            /\ tracker[n].head = tracker[m].head

\* As long as batches do not overlap, a number committed as STARTED stands for
\* one batch only, through crashes and changes of leader.
StartedNumbersUnique ==
    ~overlap =>
        \A i, j \in 1 .. commit :
            LET e == log[i]
                f == log[j]
            IN  (e.kind = "EGRESS_MSG" /\ f.kind = "EGRESS_MSG"
                   /\ e.rec.seq = f.rec.seq)
                => e.rec.index = f.rec.index

\* "Resubmits the payload with the same sequence id, then on the gateway side the
\* application can deduplicate" (egress_coordinator.hpp): the gateway records no
\* batch twice while its number is in the history.
RecordedOnce ==
    \A j, k \in DOMAIN recorded :
        j < k /\ k - j <= HistorySize => recorded[j].batch # recorded[k].batch

\* "Check if this is the first time we have seen this uplink." (hub.go): an uplink
\* is dropped as a duplicate only when its number was recorded before.
RefusedWasSeen ==
    \A p \in refused : \E k \in DOMAIN recorded : recorded[k].seq = p.seq

\* While the first leader leads, every batch it applied is queued, answered with
\* Done or lost to a full queue or log; none is passed over.
AppliedIsDispatched ==
    (leader # NoNode /\ elections = 1) =>
        \A i \in 1 .. applied[leader] :
            log[i].kind = "SENSOR_DATA" =>
                \E p \in completed \union dropped \union {txq[leader][k] : k \in DOMAIN txq[leader]} :
                    p.index = i

\* "Commit STARTED first" (egress_coordinator.hpp): an uplink goes out under a
\* number that is safely its own, so that without overlapping batches two
\* uplinks with the same number carry the same batch, and the one the gateway
\* drops as a duplicate is no loss.
NumberIdentifiesBatch ==
    ~overlap => \A p, q \in air : p.seq = q.seq => p.batch = q.batch
=============================================================================
