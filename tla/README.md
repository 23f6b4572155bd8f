# Verification of flood-ews

TLA+ models of the flood early-warning system in this repository, TLC runs that
check them on small instances, and TLAPS proofs of the properties that matter
most. `PROJECT.json` maps every definition to the source lines it models and
lists runs, mutants, hazards, findings and theorems.

## The system

Edge nodes measure a water level and multicast signed, numbered readings over
Thread. Fog nodes accept fresh readings, vote over them to find outliers and
decide on the flood alert, replicate the resulting batches with Raft, and the
leader sends each batch over LoRaWAN to a gateway. The gateway drops duplicates,
records telemetry, and turns alerts and external advisories into actuator
commands, some of which wait for an operator.

| Part | State | Operations | What is hard | What makes it correct |
|---|---|---|---|---|
| Raft server (`fog/src/raft/server`) | term, vote, role, leader, peers' next and match index, commit and applied index, snapshot buffer | message handlers, tick, submit, compaction | lost, repeated, late messages; restarts; deposed leaders | one leader per term; logs match; committed entries stay; state machines agree |
| Log ring (`raft/log/log_ring.hpp`) | base, base term, entries | push, truncate, compact, reset | capacity, index arithmetic | an index names one entry; nothing live is lost |
| Engine, persistence (`raft/engine.hpp`, `fs/persist.hpp`) | term and vote in flash, receive queue | start, receive, drain, save | crash between steps, full queue | no second vote after a restart |
| Sequence numbers (`edge/src/sensor/sensor_coap.hpp`) | next number, number in flash | send, boot | reboot after any send | numbers go forward |
| Ingest, replay detection (`fog/src/sensor`, `fog/src/security`) | last number per sensor | on_reading | repeated and late readings, full table | no number accepted twice |
| Outlier vote (`fog/src/outlier_vote`) | slots, window, reputation, alert | accumulate, close window | a faulty sensor, missing reporters, boundaries | one sensor cannot raise, suppress or keep up the alert |
| Application, vote service (`fog/src/application.hpp`, `fog/src/outlier_vote/service.hpp`) | alert flag, window length, window timer | apply, close window, alert broadcast and its receivers | callbacks of three threads around one timer; late packets | nobody acts on an alert that is in no log; the timer never stops |
| Egress (`fog/src/egress`) | ring of records, next number | begin, confirm, take over | leader change between start and confirmation | every batch uplinked; one number per batch; nothing confirmed unsent |
| LoRaWAN (`fog/src/lorawan`) | joined flag, back-off, transmit queue | join, send, stop | late answers, requeue into a full queue, stop against get | no uplink lost or doubled on the way; the thread ends |
| Measurement cycle (`edge/src/sensor`, `edge/src/jsn`) | reading, seqlock, timers | trigger, echo interrupt, timeout, read | interrupt against timeout against worker | one reading per trigger; readings never end |
| Transport and discovery (`fog/src/raft/coap`, `raft/service`, `common/security`) | table of peers, keys, receive queue | discover, prune, send, receive, drain | restarts with other addresses, full tables, lost wake-ups | at most one delivery, to the right node; nothing left in a queue |
| Telemetry hub, bridge (`gateway/server/telemetry`) | history ring, pending batch | uplink, flush | duplicate test by number only | each uplink counted once |
| Policy, actuators, operator queue (`gateway/server/policy`, `actuator`, `store`, `api`) | rules, actuator states, queue | evaluate, execute, watchdog, approve, reject | concurrent evaluations and requests, failing drives | highest priority wins; an action is executed at most once |

Components interact by callbacks inside one work queue (Raft, vote, egress on a
fog node), by messages (CoAP between nodes, LoRaWAN and MQTT to the gateway) and
by shared objects with locks (LoRaWAN thread, gateway goroutines).

## Modules

| Module | Models | Notes |
|---|---|---|
| `RaftLog` | the log ring, by what it holds | a record of base, base term and live entries; `TermAt` is -1 where `term_at` yields nothing |
| `RaftServer` | all Raft nodes and the network between them | one action per handler branch; extends `RaftLog` |
| `MCRaftSlices` | model-checking instances of `RaftServer` | symmetry; slices (below) |
| `RaftInvariants` | inductive invariants of `RaftServer` | links, views, the kinds of steps |
| `RaftServerProofs` | theorems about `RaftServer` | the log operators, types, elections, `is_leader()`, log matching, commits |
| `SensorReplay`, `MCSensor`, `SensorReplayProofs` | edge numbering and fog replay detection | two components and the network between them |
| `VoteEngine`, `MCVote`, `VoteEngineProofs` | the outlier vote over the readings of one fog node | with a true water level as environment |
| `AlertWindow`, `MCAlertWindow`, `AlertWindowProofs` | vote service, application and edge nodes around an alert | composes the alert hysteresis, the replicated log, the broadcast and the window timers |
| `Egress`, `MCEgress`, `EgressProofs` | egress coordinator and tracker of all nodes, up to the gateway's duplicate test | composes them with the log, the LoRaWAN queue and the hub |
| `LoraWan`, `LoraWanProofs` | the LoRaWAN service's thread and the modem | with `send_batch` and `stop()` as its callers |
| `SensorCycle`, `SensorCycleProofs` | the edge node's cycle and driver | work queue, interrupt and timers on one core |
| `RaftTransport`, `MCRaftTransport`, `RaftTransportProofs` | discovery, signatures, sending, the receive queue | implements `LossyChannel` |
| `LossyChannel` | abstract: what the Raft server may assume of its transport | |

### How the Raft model corresponds to the code

All handlers of a node, its tick and its submits run to completion on one work
queue, so each is one action with everything it calls: a granted vote includes
the flash write, an accepted AppendEntries includes truncation, append, commit,
apply and, at the threshold, compaction.  `Receive` dispatches on the message
type; each handler is split along its early returns into actions
(`RejectStaleAppendEntries`, `RejectAppendEntries`, `AcceptAppendEntries`, ...).
`Restart` keeps what `RaftPersistence` holds and nothing else, since the engine
binds no log persistence.  `ApplyCommitted` appends to `applied`, the state
machine's content.

Time is abstracted: an election timeout may happen at any moment, a node that
knows a leader may or may not consider it live, a leader may or may not have
lost contact.  The network holds a set of messages; sending may lose any of them
and receiving does not remove one, so messages are lost, repeated, delayed and
reordered.  Snapshot contents are chunks tagged with the entries they hold, so
that a mix of two snapshots is visible.  `ballots`, `elected`, `acks` and `torn` are
history variables: votes given, leaders elected, appends accepted, and whether a
snapshot of mixed chunks was loaded.  Not covered: membership changes, a failing flash write,
callbacks that re-enter the server (`become_leader` calls the application back before
it has set up peers and NOOP, and `on_became_leader` may submit there), and the bytes of a snapshot in the firmware's
own configuration, where `m_snapshot_save` yields none (`SnapshotChunks = 0`).
With `SnapshotChunks > 0` the model is the library with a real save function, as
the repository's tests use it.  `HandleSnapshotDone` excludes a snapshot of index 0: a
save needs an applied entry, and a leader that has none could only pass on the first
chunks of an unfinished transfer, which takes three chunks, where `DefaultConfig` has
two.

### Sequence numbers and replay detection

`SendSensorData` numbers a reading and saves at multiples of `SeqStep`;
`RestartSensor` is `init()` after a reboot.  `sent` only grows and `OnReading`
may pick any reading of it: loss, repetition and delay.  A bad signature or a
number that is not fresh changes nothing and is no step.  `accepted` is a history
of one run of a fog node and is reset with its table.

### The outlier vote

The environment has a true water level that changes between windows.  Correct
sensors report it within `Noise`, `Faulty` ones report anything with any validity.
`CloseWindow` is `close_window` followed by `check_alert`; slots are given on
first contact and never freed.  A reading's validity is reduced to good or not.
`recent` is a history of whether each of the last `ClearWindows` batches was taken
in a flood (every correct sensor reads the threshold) or in the dry (no reading
within the tolerance of a correct one reaches it).  That the level is one value
within a window is an assumption on the river, and that at most one of the
sensors is faulty is the code's own n = 2f + 1 with three reporters.

### The alert and its windows

`AlertWindow` follows an alert from the leader's vote engine into the log and
back out: each fog node applies a batch, compares its flag with its own, switches
its collection window and multicasts the change; followers and edge nodes that
hear of it switch too.  Raft is the list of committed batches and the leader.  On
a fog node the work queue (`on_window_close`, `on_apply`) and OpenThread's thread
(the alert resource) interleave; `on_window_close` is split where it reads the
window length, submits, and re-arms its timer, and `check_alert` runs outside the
vote service's lock.  Alert packets carry no number and are not confirmed:
`packets` only grows, and a node may receive any of it at any time, so packets come
late, repeatedly, out of order or never.  The handler acts on every packet, since the
code does so whatever the verification returned.  `clock` is the synchronised time,
taken as common to all nodes.  `late` and `own` are history variables: a packet came
in the middle of `on_window_close`; the node has applied a change of the alert since it
was elected.

### Egress

One log with a committed prefix that elections do not touch, a leader that appends
to it and nodes that apply it in order stand for Raft: what `RaftServer` shows, on
the instances without a restart.  A crashed node stays away.  `Apply` is the whole
of `on_apply` with the tracker's update and, on the leader, `begin_egress` with the
submit of STARTED and the dispatch; becoming leader runs `on_became_leader` inside
the election, in the order of the callbacks.  The LoRaWAN thread is the queue `txq`
with a step per uplink and one for `m_on_complete`.  An uplink that is not answered in
time is requeued whether or not it went out, and the module may still owe its Done
(`owed`), which then completes the next uplink, sent or not (`TransmitMistaken`).  The
gateway is the hub's ring of recent numbers, with 0 in every slot at first, as in the
code.  `air`, `completed`, `recorded`, `refused`, `dropped` and `overlap` are history
variables.

### The LoRaWAN service

Each command to the module is one step of the thread that ends with the expected
line, an error or the timeout.  A module that answers after the timeout leaves `owed`,
an answer that the command then under way takes for its own: the expected line of an
earlier command ends it as a success, the "Please join network first" of an earlier
uplink as `NOT_JOINED`, and any other line is dropped.  `run_join` walks its setup commands in order and starts again after a
failure with a growing delay.  `send_batch` and `stop()` come from other threads at
any point; `stop()` is split at its four calls.

### The measurement cycle

The thread of the work queue runs the cycle's items one after the other.  The
driver's trigger and its timeout are split into steps wherever the echo
interrupt could see a difference (the publish of the sequence lock, the reset of the
rising edge, arming, disarming); the interrupt is one step, since nothing on the
core interrupts it.  Timers only queue work.  The level is computed from the width
of the pulse as the driver and `calculate_reading` do.  `early` marks an echo that
was over before its timeout was armed; then the timeout of the resolved measurement
stays armed and yields a second reading.  The publish in `reset()` is one step, since
the echo pin does not interrupt then.  No pulse is so long that its distance
needs more than 16 bits (`SensorCycleAssumption`); the sensor gives up earlier.

### The transport

One node sends, several receive; nodes start, restart with another address, withdraw
and come back.  `discover_peers` goes through the services of the network data in any
order, prunes what it has not seen for `PeerTimeout` rounds and is where the table of
`MaxPeers` entries fills up; no more than `MaxPeers` peers are advertised at a time,
as in a deployment of up to four fog nodes.  A failing step of `init` leaves a
node that runs without CoAP resources and without an advertisement.  Deriving and
importing the node's own key may fail, and then it sends nothing; importing the keys of
the provisioned devices may stop half-way; a signature may fail and a verification too.  Receiving is
split between `try_put` and the submit of the work item, and the work item between
finding the queue empty and its end.  The air loses and reorders messages and does
not repeat them: CoAP's own duplicate detection is external.

`ImplementsChannel` is the refinement.  A message is in transit while it is on the
air or in a receive queue, delivered once the server has handled it, and lost when it
was sent and is none of these.  `RaftServer` assumes less than `LossyChannel`
gives: its network also repeats messages.

### Variants

Definitions commented "Variant:" are plausible mistakes, used by the mutants of
`PROJECT.json` to show that each property can fail.  No specification uses them.

## Runs

All bounds are named constants.  Three nodes are the smallest cluster with a
majority that is not everybody.  Runs with `CHECK_DEADLOCK FALSE` may stop
because their bounds (timeouts, readings) are used up.

| Run | Instance | Shows |
|---|---|---|
| `raft_election` | 3 nodes, 2 terms, 3 timeouts, 1 restart, 2 messages in flight; and a slice without restart in which snapshots of two chunks are transferred, up to index 3, and a second leader may be elected in the middle | votes bind, also across a restart; one leader per term; `is_leader()` agrees with `m_state` however leadership is won or lost, a step down by AppendEntries or InstallSnapshot included |
| `raft_replication` | slices in which n1 and n2 lead for two, three and four terms and n3 elects them; batches of two, index 3, compaction after every second applied entry | types, next_index above 0 among them; log matching through truncation; commits survive a change of leader and no later leader lacks them; match indices are true; indices are applied in order and state machines agree |
| `sensor_replay` | 2 sensors, 2 fog nodes with one table entry, step 2, 2 restarts | no number accepted twice |
| `vote_alert` | 4 sensors, 1 faulty, 3 slots, 6 levels, code's ratios scaled down | the alert and the reputations withstand one faulty sensor |
| `alert_window` | 2 fog nodes, 1 edge node, normal window twice the alert's, 2 clean windows, 3 batches, 1 fault (election, restart or lost batch), any delivery of packets | the timer never stops; alerts acted on are committed; no packet takes a leader out of its window; an alert's window is prompt; while one node leads, its end needs enough clean windows |
| `egress` | 2 nodes, ring of 2, queue of 1, log of 5 compacted every 3, 2 batches, 2 elections, 1 crash | trackers agree; numbers name one batch unless batches overlap; the first leader passes over none |
| `lorawan` | 2 payloads, queue of 1, 2 setup commands, delays of 500 to 900, 1 lost session, `stop()` | a payload is in one place only; every payload settles; `stop()` returns where its purge wakes the thread |
| `edge_cycle` | warm-up 1, timeout 2, intervals 4 and 5, pulses below, in and beyond the band | no deadlock on the sequence lock; one reading per trigger, of the pulse measured; the interval is kept, also after a send that overran it; readings never end |
| `raft_transport` | 3 peers, table of 2, store of 1 key, timeout 1, queue of 1, 4 starts, 2 messages | implements `LossyChannel`; nothing stranded in a queue; peers that stay are found |
| `raft_restart` | two terms, 1 restart of the voter | violated: state machines agree |
| `sensor_reboot` | 1 reboot of a sensor | violated: numbers go forward |
| `egress_numbers` | as `egress` | violated: a number names one batch |

Further configurations, not among the runs, in which TLC finds a property violated that the
code might be expected to have (see Findings):

| Configuration (module) | Violated |
|---|---|
| `RaftSnapshotRepeat.cfg` (`MCRaftSlices`) | `AppliedInOrder` |
| `RaftSnapshotMixed.cfg` (`MCRaftSlices`) | `NoTornSnapshot` |
| `EgressRecorded.cfg` (`MCEgress`) | `RecordedOnce` |
| `EgressFirst.cfg` (`MCEgress`) | `RefusedWasSeen` |
| `LoraWanLate.cfg` (`LoraWan`) | `ConfirmedWasOnAir` |
| `LoraWanStop.cfg` (`LoraWan`) | `StopAlwaysReturns` |
| `LoraWanFull.cfg` (`LoraWan`) | `AcceptedIsKept` |

`TypeOK` of `AlertWindow`, `Egress`, `LoraWan`, `SensorCycle` and `RaftTransport` says
what values their variables take; the inductive invariants of the proof modules contain
what is needed of it, and the runs spend their properties on the rest.

The slices of `MCRaftSlices` restrict who times out, by an `order` chosen at the start, and
which vote requests arrive.  Each of their behaviours is one of `Spec`; they go deeper
(leaders with entries, conflicting logs) than the whole `Next` allows in minutes.  Their
`VIEW` leaves out `acks`, a history that only the proofs read.  Two messages in flight are
enough for a repeated or overtaken message next to a current one.  Two terms are a deposed
leader with a log of its own and its successor with a NOOP.  With a third, a leader may have entries of two earlier terms, so
that its first batch holds none of its own and the follower reports a last index beyond
it.  An entry of an earlier term on a majority that is overwritten takes four; these two
slices have one message in flight at a time.
In `vote_alert`, levels 0 to 5 with threshold 4,
tolerance 2 and noise 1 contain floods, dry levels, and levels between, and both
exactly at and just beyond the tolerance; scores 1 to 5 reach exclusion by
repeated penalties and readmission by recovery, like 10 to 100 in the code.

In `egress`, two batches, two elections and a crash reach every order of
submit, STARTED, dispatch, confirmation and change of leader for one batch with a
second one before or behind it, and rings and queues that overflow.  Its `VIEW` leaves
out what the gateway saw, which changes nothing on the fog nodes.  `EgressRecorded.cfg`
is a slice with three batches (`RepeatSpec`): its uplinks are answered in time or not sent
at all, and no node crashes.  In `lorawan`
the queue is full while a payload is retried, and the delay reaches its limit.  In
`edge_cycle` the intervals are long enough for a measurement with timeout and short
enough for a send to overrun them.  In `raft_transport` one peer more than the table
holds comes and goes.

Fairness.  `LoraWan`: the kernel runs ready threads (weak fairness of the thread and of
the caller of `stop()`), a command ends at its timeout at the latest (weak fairness of
its end), and the radio network is not unreachable for ever: strong fairness of the
success of each setup command, of joining and of each payload's uplink, and of the
module's reporting a lost session.  Without the last two, `EveryPayloadSettles` cannot
hold of any sender.  `SensorCycle`: weak fairness of the thread, of each timer, of the
interrupt and of time; nothing makes the sensor echo.  `RaftTransport`: weak
fairness of `discover_peers`, which a periodic timer runs; nothing makes messages
arrive.  The Raft, egress, alert and vote specifications state none, and their
properties are safety properties.

## Findings

Where a comment of the code says otherwise, shown by a run:

* `raft_restart`: a restarted node has forgotten entries it acknowledged;
  a leader without them is elected and two nodes apply different entries at one
  index.  `persist.hpp` says term and vote are all that needs to be persisted.
* `sensor_reboot`: the number an edge node saves is the one just reached, not one step
  ahead as `sensor_coap.hpp` says, so a reboot repeats numbers, and fog nodes refuse
  them.  The theorem `FallBackIsBounded` says that fewer than one step are repeated.
* `egress_numbers`: `begin_egress` dispatches a batch as soon as its STARTED record
  is in the leader's own log, not when it is committed as the comment says.  If the
  leader is deposed in between, its successor gives the number to another batch, and
  the gateway drops that one as a duplicate.

Where a property fails that a reader might expect, shown by a configuration:

* `RaftSnapshotRepeat.cfg`: nothing compares the index of an InstallSnapshot with what the
  node has committed.  A repeated last chunk puts state machine and log back to the
  snapshot while `m_last_applied` stays, so that entries are missing from the state
  machine for good.
* `RaftSnapshotMixed.cfg`: a leader saves a new snapshot into the buffer it is sending
  chunks from, and the follower loads a buffer made of both.  This and the previous one
  concern the library with a real save function; the firmware's engine saves no bytes.
* `EgressRecorded.cfg`: a new leader's next number follows the highest unconfirmed one
  although greater ones were used, so a batch already recorded goes out again under
  another number and is recorded twice.
* `EgressFirst.cfg`: the gateway's history starts with 0 in every slot, so number 0 counts
  as a duplicate until the ring has filled.
* `LoraWanLate.cfg`: the answer to an uplink does not say to which it belongs.  One that comes
  after its timeout completes the next payload, which need not have been sent.
* `LoraWanStop.cfg`: `stop()` does not return when it purges the queue between the thread's
  test of `m_running` and its call of `get`.  `main` never calls `stop()`.
* `LoraWanFull.cfg`: a failed uplink is put back into a queue that may have filled, and is
  lost then.

Behaviour of the code met while modelling that bounds what the properties say:

* A follower with a full ring drops an entry silently but commits past it.
* A new leader with a full ring drops its NOOP and leads with nothing of its own term.
* A follower reports its own last index in a reply, not that of the last entry it was
  sent.  With small batches these may be entries of an old term that the leader does not
  have.  `raft_replication` looks for a match index that is wrong for it and finds none: a
  leader backs up only to where its log has parted from the follower's, so that the first
  batch a follower accepts after that removes what the leader does not have.
  A leader that backs up to the follower's hint alone (`BackUpToHint`) breaks it.
* Batches that overlap may be started under one number (`overlap`):
  `StartedNumbersUnique` and `NumberIdentifiesBatch` are about batches that do not.
* A batch that has left the log is confirmed unsent, as the comment in `dispatch` says.
* `AppliedIsDispatched` is about the first leader.  A later one begins what it applies
  itself and adopts at most one record, so what else its predecessor had begun stays
  unsent.
* An echo that is over before the timeout is armed leaves the timeout running and
  brings a second reading (`early`).
* The count of clean windows belongs to a node's engine, and a follower counts too: a
  node that leads again ends an alert after windows some of which are in no log.
  `ClearedAfterCleanWindows` speaks of the time in which one node leads.
* A packet handled in the middle of `on_window_close` is overwritten for one window
  (`late`).  A follower or an edge node that gets an old packet goes by it until the
  alert changes again; only leaders are safe from that, since they ignore packets, and a
  node that becomes leader keeps the window it has until it applies a change (`own`).

`StateMachineSafety`, `LeaderCompleteness`, `AppliedInOrder`, `CommittedAgree` and
`CommittedIsStable` are therefore not theorems of `Spec` alone.  The passing runs leave
out the steps that break them (a restart, a full ring, a snapshot in flight), and the
theorems name them in a hypothesis (`Steady`).

## Proofs

Everything below is proved for every value of the constants that satisfies their named
assumptions: any finite cluster of more than one node, any capacity, threshold and
bound on terms, restarts, elections or losses (`ServerAssumption`, `ConfigAssumption`,
`LogCapacityAssumption`, `EgressAssumption`, ...).  No theorem of a component uses a
theorem of another one.  Each invariant was checked by TLC on the run's instance
before it was proved.

**Raft** (`RaftServerProofs`, with the invariants in `RaftInvariants`)

* `TypeCorrect`: `TypeOK` is inductive.  The lemmas about the log operators give their
  types; one lemma per handler shows that it keeps the types.
* `ElectionInvariant`, `AtMostOneLeader`: one leader per term alone is not inductive.
  `ElectionInv` follows a vote from flash to the elected leader: flash equals the
  node's term and vote; a ballot binds its voter in its term; granted replies in
  flight and counted votes are ballots; a leader holds a majority of ballots.  Two
  majorities share a voter, whose two ballots bind to one candidate.
* `VoteStability`: the action property that terms do not go back and a vote is not
  changed within its term, from `ElectionInv` (a restart reads flash).
* `LeaderFlag`: `currentLeader[i] = i` exactly when `i` is LEADER, inductive together
  with the fact that no message is addressed to its sender.
* `MatchInvariant`, `LogsMatch`: a *link* is an entry with its index and the term of
  the entry before it.  Logs and AppendEntries messages are chains of links, and only a
  leader's push makes a new one; all else copies, cuts, or joins two chains where
  their terms agree.  So there is one link for an index and a term (`OneLink`), because
  a term has one leader and that leader's log reaches every link of its term
  (`LeaderHasLinks`).  Log matching follows by going down from the common index.
  The join that the code makes without comparing terms is at the edge of a snapshot: a
  message that starts below the base counts as matching.  The hypothesis `EdgesAgree`
  says that the entry at the edge, in a message the node may still accept, has the
  term of the edge.  With restarts, which lose the log, the code does not guarantee
  that, and log matching fails with it; it holds in every state of `raft_election` and
  `raft_replication`.  `UncompactedLogsMatch` is the case without a compacted log, where
  the hypothesis holds by itself: there log matching survives restarts, although
  committed entries do not.
* `CommitInvariant`: the safety of commits, `Spec /\ []Steady => []CommitInv`, and with
  it that no step takes a commit back.  `Steady` collects what the code relies on, or the
  proof does, and the code does not check:

  | Part of `Steady` | Without it |
  |---|---|
  | no restart so far | a restarted node has forgotten what it acknowledged (`raft_restart`) |
  | a candidate's ring has room | a new leader drops its NOOP and leads with a log that ends in an old term, so that its messages do not reach its own |
  | no InstallSnapshot in flight | a late one discards committed entries.  With the firmware's engine, which saves no bytes (`SnapshotChunks = 0`), this holds by itself (`NothingToTransfer`) |
  | an AppendEntries reaches an entry of its leader's term | a follower that got only older entries reports the last index of its own log.  The proof needs this part to conclude that the leader has these entries; no run found a case where it has not (`raft_replication`) |
  | an AppendEntries fits the receiver's ring | the follower drops the rest and commits past it |

  `Steady` holds in every state of the two-term slice of `raft_replication` when a batch
  holds a whole log (`MaxAppendEntries = 4`; with batches of two its fourth part fails in
  the slices of three and four terms).  So its behaviours include leaders
  that are deposed with uncommitted entries, truncation, and votes and appends of both
  terms in any order.

  The proof is in two layers.  The first is about *views*: records with terms, roles,
  whole logs from index 1, commit and match indices, messages and the history, in which
  compaction cannot be seen.  An entry is *choosable* while a majority has acknowledged
  it or may still do so in its term; once it is not, it never is again.  `Sound` says
  that links agree and terms rise along chains; that a leader's log ends in its term and
  reaches every link of it; that acknowledgements (replies in flight, match indices) are
  true while the node is in their term; that what is choosable is held by the nodes that
  acknowledged it, by logs that end in a later term, by messages of a later term, and by
  candidates with the vote of a node that acknowledged it; and that what is committed, or
  announced as committed in a message, is part of a log that a majority acknowledged.
  None of these is inductive without the others.  Steps of three kinds keep `Sound`:
  those that leave whole logs alone (`StillSound`; the vote is the hard one), a leader's
  push (`PushSound`; two majorities share a node that voted for the new leader and
  acknowledged the entry), and an accepted AppendEntries (`AcceptSound`; truncation
  meets nothing choosable).  The second layer maps a state to its view: the whole log
  is what the state machine applied up to the edge and the ring above it (`WholeOf`,
  `Stored`), and every action is shown to be one of the three kinds (`NextView`).
* `MachinesAgree`, `MachinesInOrder`, `LeadersComplete`, `MatchIsReplicated`,
  `CommittedTermsAgree`, `SteadyLogsMatch` and, for steps, `CommitsStay` are read off `CommitInv`.
  `SteadyLogsMatch` needs no `EdgesAgree`: below the edge is what a majority has.

**Sensors** (`SensorReplayProofs`, `SensorCycleProofs`)

* `FallBackIsBounded`: the number in flash is a multiple of the step and less than a
  step from the next number on either side, and no reading is a step above either.
  Needs that of two multiples less than a step apart neither is above the other.
* `ReplaysAreRefused`: the table holds the highest accepted number per sensor.
* `InterruptNeverSpins`, `ReadOncePerTrigger`, `SendsWhatItMeasured`, `WakesWhenDue`:
  `CycleInv` says that the cycle is always in one of nine phases (sleeping, waking,
  warming up, ..., emitting), each with the one timer that runs, what the queue holds,
  the state of the sequence lock and of the interrupt.  The properties are read off
  the phase.  An echo over before its timeout is armed (`early`) leaves the phases,
  which is why the properties exempt it.

**The vote** (`VoteEngineProofs`)

* Of any two reporters one is correct, since at most one sensor is faulty
  (`FaultAssumption`).  The median of three or more readings has a reading on either
  side of it or is the mean of two that have, so a correct reading bounds it from above
  and one from below (`InnerRank`, `MedianIsHonest`): it is within `Noise` of the
  true level.  Sorting is `AtRank`; that a level of each rank exists is `RankExists`.
* `CorrectAreTrusted`: a correct reading is within `2 * Noise <= Tolerance` of the median,
  so no correct sensor is ever an outlier.
* `FloodIsReported`, `NoFalseAlarm`: in a flood a correct sensor triggers; in the dry no
  reading within the tolerance of the median reaches the threshold.  `HysteresisInv`
  says that the last trigger was `clean` batches ago, which carries both properties
  through the windows without one.

**Transport** (`RaftTransportProofs`)

* `TransportInvariant` holds the table's soundness (one valid entry per peer, with an
  address of that peer), and that a message is in one place at most: on the air, in a
  receive queue, or handled.  From it `PeersOnceInTable` and `QueueIsDrained`.
  `discover_peers` goes
  through the services in any order, by a recursive function over sets of services;
  that it keeps a table sound is shown by taking a smallest set for which it would not.
* `TransportIsLossyChannel`: the refinement.  Each action is a step of `LossyChannel`
  under the mapping, or leaves its variables alone.

**Alert windows** (`AlertWindowProofs`)

* `WindowsGoOn`, `AlertPaceAtOnce`: what a timer owes to where `on_window_close` is
  (`Timed`), and that the next boundary is at least one unit and at most one period
  away.
* `AlertEndsInTime`: while one node leads and its batches commit, its engine's flag is
  that of the last batch and its count is no more than the clean batches at the end
  of the log (`CountInv`).
* `AlertsAreCommitted` (`SourceInv`): every raised flag, window of an alert, packet about one and edge
  node's alert has a committed batch behind it, since only applying a batch starts any of
  them.
* `LeaderIsNotMisled`: a node that has applied a change while it leads has, until the next
  election, the window of the last batch it applied, and its flag is that batch's; packets
  do not reach it, and a restart is not the leader's.

**LoRaWAN and egress** (`LoraWanProofs`, `EgressProofs`)

* `PayloadsAccountedFor`: accepted payloads are covered by queue, hand, confirmed and
  dropped, which do not meet, and the queue repeats nothing (`OnePlace`).
* `EgressTypes`: with the types, that every record, slot and payload names a committed
  batch, which later actions read without a test.
* `TrackersAreReplicas`: there is one history `h` such that `h[k]` is the tracker of any
  node that applied `k` entries (`TrackerInv`).  A commit extends it, an apply follows
  it, and adopting a record on becoming leader changes only the next number, which
  is no part of ring and head.
* `FirstLeaderDispatches`: before the first election nothing is committed; under the
  first leader a payload only moves from the queue to the air or to the dropped ones, and
  a batch just applied is readable, since compaction stops at what is applied.

Only model-checked:

* All liveness and its fairness (`EveryPayloadSettles`, `StopReturns`, `KeepsReading`,
  `AdvertisedIsFound`): out of the prover's reach, as is
  `ENABLED`.
* Votes, logs and state machines while a snapshot is transferred, beyond types, elections
  and `VoteIsStable`: the theorems on commits stop where a transfer begins, and
  `RaftSnapshotRepeat.cfg` and `RaftSnapshotMixed.cfg` say why.
* `Steady` itself: it is a hypothesis.  TLC finds it true in every state of the
  two-term slice with batches that hold a whole log.
* `StartedNumbersUnique` holds without overlapping batches only, which is a fact about
  whole behaviours (everything submitted before is settled on every node), not about one
  more invariant of a state.
* What a recursive function computes for every input, where that needs induction over
  data.

## Plan

1. Raft with snapshots: a hypothesis on transfers that is weaker than their absence
   (an InstallSnapshot that is not behind the receiver's commit index), and `CommitInv`
   under it.
2. `LogRing`: head and count modulo the capacity, shown to implement `RaftLog`.
3. Gateway: policy, actuators and operator queue.
4. Liveness of Raft: catching up of a follower under a stable leader.

## Not modelled

* The gateway's policy engine, actuator daemon, operator queue, poller and sinks: a Go
  program of its own on another machine.  The models end where an uplink is recorded.
  The dashboard is user interface, the sinks and the API are I/O.
* The ChirpStack codec, the texts of AT commands and the encoding of payloads: fixed
  layouts without state.
* Hashing, signing and verifying: calls of a cryptography library; a signature is good
  or bad.  The CoAP utilities wrap OpenThread.
* `inplace_function.hpp` (a function object container), fault injection (test
  support), logging.
* Within Raft: `add_node` and `remove_node`, which nothing calls; a failing flash write,
  whose result the engine ignores; and the LoRaWAN thread's `submit` in the middle of
  a handler, which would need handlers split into memory accesses.
* The arithmetic of the log ring.
* Liveness of elections: it rests on randomised timeouts, which the model replaces by
  nondeterminism.
