----------------------------- MODULE RaftServer -----------------------------
(***************************************************************************)
(* The Raft cluster of the fog layer: every fog node runs one              *)
(* raft::Server (fog/src/raft/server), driven by Engine (engine.hpp).  All *)
(* handlers run to completion on the system work queue, so each is one     *)
(* action, with everything it calls.                                       *)
(*                                                                         *)
(* Time.  The clock, the deadlines and the contact times are abstracted:   *)
(* an election timeout may fire at any moment, a node that knows a leader  *)
(* may or may not still consider it live, and a leader may or may not      *)
(* have heard from a majority.                                             *)
(*                                                                         *)
(* Network.  The CoAP transport loses, duplicates, delays and reorders.    *)
(* messages holds at most MaxInFlight messages; sending may lose any of    *)
(* them, old or new, and receiving does not take a message away, so a      *)
(* message may arrive late, several times, or never.                       *)
(***************************************************************************)
EXTENDS RaftLog

CONSTANTS
    Server,             \* the EUIs of the cluster
    BAD_NODE,           \* no node (all F's)
    ZERO_NODE,          \* the voted_for that RaftPersistence::load defaults to
    Value,              \* payloads of submitted entries
    NOOP,               \* the payload of a new leader's no-op entry
    MaxAppendEntries,   \* Cfg::MAX_APPEND_ENTRIES, 8 in DefaultConfig
    SnapshotThreshold,  \* Cfg::SNAPSHOT_THRESHOLD, 32 in DefaultConfig
    SnapshotChunks,     \* chunks m_snapshot_save fills: 0 in Engine (it saves
                        \* no bytes), 2 in the tests' SnapshotTracker
    MaxInFlight,        \* bound: messages in flight
    MaxTerm,            \* bound: no election beyond this term
    MaxIndex,           \* bound: no submit beyond this index
    MaxTimeouts,        \* bound: election timeouts of all nodes together
    MaxHeartbeats,      \* bound: heartbeat rounds of all nodes together
    MaxRestarts         \* bound: restarts of all nodes together

ASSUME ServerAssumption ==
    /\ IsFiniteSet(Server)
    /\ Cardinality(Server) > 1
    /\ BAD_NODE \notin Server
    /\ ZERO_NODE \notin Server
    /\ BAD_NODE # ZERO_NODE

ASSUME ConfigAssumption ==
    /\ MaxAppendEntries \in Nat \ {0}
    /\ SnapshotThreshold \in Nat \ {0}
    /\ SnapshotChunks \in Nat
    /\ {MaxInFlight, MaxTerm, MaxIndex, MaxTimeouts, MaxHeartbeats,
        MaxRestarts} \subseteq Nat

VARIABLES
    currentTerm,    \* m_current_term
    votedFor,       \* m_voted_for
    persisted,      \* what RaftPersistence holds in flash
    role,           \* m_state
    currentLeader,  \* m_current_leader
    preVoteActive,  \* m_pre_vote_active
    preVotes,       \* m_pre_votes_granted
    voteGranted,    \* the peers with vote_granted; m_votes_granted counts them
    log,            \* m_log
    commitIndex,    \* m_commit_index
    lastApplied,    \* m_last_applied
    applied,        \* what the state machine holds: the entries m_apply got
    snap,           \* m_snap_len and m_snap_buf, in chunks
    torn,           \* history: a snapshot of mixed chunks was loaded
    nextIndex,      \* m_nodes[].next_index
    matchIndex,     \* m_nodes[].match_index
    snapOffset,     \* m_nodes[].snap_offset, in chunks
    messages,       \* the messages in flight
    ballots,        \* history: the votes given, by voter, term and candidate
    elected,        \* history: the nodes that became leader, with their term
    acks,           \* history: the appends accepted, by node, term and last index
    spent           \* number of timeouts, heartbeats, restarts so far

voteVars == <<currentTerm, votedFor, persisted, role, currentLeader,
              preVoteActive, preVotes, voteGranted>>
logVars  == <<log, commitIndex, lastApplied, applied, snap, torn>>
peerVars == <<nextIndex, matchIndex, snapOffset>>
history  == <<ballots, elected, acks>>
vars     == <<voteVars, logVars, peerVars, messages, history, spent>>

Entry  == [index : Nat, term : Nat, value : Value \union {NOOP}]
Log    == LogOf(Entry)
Chunk  == 1 .. SnapshotChunks

Message ==
    [type : {"RequestVote"}, term : Nat, from : Server, to : Server,
     lastIndex : Nat, lastTerm : Nat, preVote : BOOLEAN]
    \union
    [type : {"RequestVoteResp"}, term : Nat, from : Server, to : Server,
     granted : BOOLEAN, preVote : BOOLEAN]
    \union
    [type : {"AppendEntries"}, term : Nat, from : Server, to : Server,
     prevIndex : Nat, prevTerm : Nat, commit : Nat, entries : Seq(Entry)]
    \union
    [type : {"AppendEntriesResp"}, term : Nat, from : Server, to : Server,
     success : BOOLEAN, conflictIndex : Nat, conflictTerm : Nat,
     lastIndex : Nat]
    \union
    [type : {"InstallSnapshot"}, term : Nat, from : Server, to : Server,
     lastIndex : Nat, lastTerm : Nat, offset : 0 .. SnapshotChunks - 1,
     done : BOOLEAN, data : Seq(Entry)]
    \union
    [type : {"InstallSnapshotResp"}, term : Nat, from : Server, to : Server,
     lastIndex : Nat]

Ballot(voter, t, candidate) ==
    [voter |-> voter, term |-> t, candidate |-> candidate]

Majority == Cardinality(Server) \div 2 + 1

Peers(i) == Server \ {i}

\* A field of m_nodes with the same value for every peer, as the constructor
\* of Peer leaves it.
EveryPeer(x) == [p \in Server |-> x]

Send(ms) ==
    messages' \in {S \in SUBSET (messages \union ms) :
                      Cardinality(S) <= MaxInFlight}

-----------------------------------------------------------------------------
(* Role changes (server_election_impl.inl).                                *)

\* Variant: persist_state is forgotten.
SetWithoutPersist(i, t, v) ==
    /\ currentTerm' = [currentTerm EXCEPT ![i] = t]
    /\ votedFor' = [votedFor EXCEPT ![i] = v]
    /\ UNCHANGED persisted

\* Assignments to term and vote, each followed by persist_state.
SetTermAndVote(i, t, v) ==
    /\ currentTerm' = [currentTerm EXCEPT ![i] = t]
    /\ votedFor' = [votedFor EXCEPT ![i] = v]
    /\ persisted' = [persisted EXCEPT ![i] = [term |-> t, votedFor |-> v]]

\* Variant: the vote is cleared by an equal term too.
VoteInClearsEqual(i, t) == IF t >= currentTerm[i] THEN BAD_NODE ELSE votedFor[i]

\* The vote held in term t: a higher term clears it.
VoteIn(i, t) == IF t > currentTerm[i] THEN BAD_NODE ELSE votedFor[i]

\* Variant: the node still takes itself for the leader.
StepDownKeepsLeader(i, t, v) ==
    /\ SetTermAndVote(i, t, v)
    /\ role' = [role EXCEPT ![i] = "FOLLOWER"]
    /\ UNCHANGED currentLeader

\* maybe_step_down(t) for t > currentTerm[i].
StepDown(i, t, v) ==
    /\ SetTermAndVote(i, t, v)
    /\ role' = [role EXCEPT ![i] = "FOLLOWER"]
    /\ currentLeader' = [currentLeader EXCEPT
                            ![i] = IF role[i] = "FOLLOWER" THEN @ ELSE BAD_NODE]

\* maybe_step_down(t), then become_follower(t, leader), for t >= currentTerm[i].
BecomeFollower(i, t, leader) ==
    /\ SetTermAndVote(i, t, VoteIn(i, t))
    /\ role' = [role EXCEPT ![i] = "FOLLOWER"]
    /\ currentLeader' = [currentLeader EXCEPT ![i] = leader]
    /\ preVoteActive' = [preVoteActive EXCEPT ![i] = FALSE]
    /\ UNCHANGED <<preVotes, voteGranted>>

RequestVoteFrom(i, t, pre) ==
    {[type |-> "RequestVote", term |-> t, from |-> i, to |-> j,
      lastIndex |-> LastIndex(log[i]), lastTerm |-> LastTerm(log[i]),
      preVote |-> pre] : j \in Peers(i)}

BecomeCandidate(i) ==
    /\ currentTerm[i] < MaxTerm
    /\ SetTermAndVote(i, currentTerm[i] + 1, i)
    /\ role' = [role EXCEPT ![i] = "CANDIDATE"]
    /\ currentLeader' = [currentLeader EXCEPT ![i] = BAD_NODE]
    /\ preVoteActive' = [preVoteActive EXCEPT ![i] = FALSE]
    /\ voteGranted' = [voteGranted EXCEPT ![i] = {i}]
    /\ ballots' = ballots \union {Ballot(i, currentTerm[i] + 1, i)}
    /\ Send(RequestVoteFrom(i, currentTerm[i] + 1, FALSE))

\* become_leader: snap_offset keeps the value an earlier leadership left.
BecomeLeader(i) ==
    LET last  == LastIndex(log[i])
        noop  == [index |-> last + 1, term |-> currentTerm[i], value |-> NOOP]
    IN  /\ role' = [role EXCEPT ![i] = "LEADER"]
        /\ currentLeader' = [currentLeader EXCEPT ![i] = i]
        /\ preVoteActive' = [preVoteActive EXCEPT ![i] = FALSE]
        /\ log' = [log EXCEPT ![i] = Push(log[i], noop)]
        /\ nextIndex' = [nextIndex EXCEPT ![i] = EveryPeer(last + 1)]
        /\ matchIndex' = [matchIndex EXCEPT ![i] =
               [j \in Server |-> IF j = i THEN LastIndex(log'[i]) ELSE 0]]
        /\ elected' = elected \union {[term |-> currentTerm[i], leader |-> i]}
        /\ UNCHANGED <<commitIndex, lastApplied, applied, snap, torn, snapOffset>>

-----------------------------------------------------------------------------
(* Messages to a follower, and the commit and apply tail of the handlers.  *)

\* send_install_snapshot: the chunk at offset off, if there is one.
InstallSnapshotTo(i, j, L, sn, off) ==
    IF off >= sn.len
    THEN {}
    ELSE {[type |-> "InstallSnapshot", term |-> currentTerm[i], from |-> i,
           to |-> j, lastIndex |-> L.base, lastTerm |-> L.term,
           offset |-> off, done |-> off + 1 >= sn.len,
           data |-> sn.buf[off + 1]]}

\* send_append_entries to j from next index nx, out of log L.
AppendEntriesTo(i, j, nx, L, c, sn, off) ==
    IF nx - 1 < L.base \/ TermAt(L, nx - 1) = NoTerm
    THEN InstallSnapshotTo(i, j, L, sn, off)
    ELSE {[type |-> "AppendEntries", term |-> currentTerm[i], from |-> i,
           to |-> j, prevIndex |-> nx - 1, prevTerm |-> TermAt(L, nx - 1),
           commit |-> c,
           entries |-> EntriesBetween(L, nx - 1, nx - 1 + MaxAppendEntries)]}

AppendEntriesToPeers(i, L) ==
    UNION {AppendEntriesTo(i, j, nextIndex[i][j], L, commitIndex[i], snap[i],
                           snapOffset[i][j]) : j \in Peers(i)}

\* maybe_compact and begin_snapshot once la entries are applied.
Compacts(L, la) ==
    la - L.base >= SnapshotThreshold /\ TermAt(L, la) # NoTerm

\* apply_committed for commit index c, log L, state machine h at index la, and
\* snapshot buffer sn: applies what is in the log, skips what is not, compacts.
ApplyCommitted(i, L, c, la, h, sn) ==
    LET la2 == Max({la, c})
        h2  == h \o EntriesBetween(L, la, c)
    IN  /\ commitIndex' = [commitIndex EXCEPT ![i] = c]
        /\ lastApplied' = [lastApplied EXCEPT ![i] = la2]
        /\ applied' = [applied EXCEPT ![i] = h2]
        /\ log' = [log EXCEPT ![i] = IF Compacts(L, la2)
                                     THEN CompactTo(L, la2, TermAt(L, la2))
                                     ELSE L]
        /\ snap' = [snap EXCEPT ![i] =
                       IF Compacts(L, la2)
                       THEN [len |-> SnapshotChunks,
                             buf |-> [k \in Chunk |-> h2]]
                       ELSE sn]

Commit(i, L, c) ==
    /\ ApplyCommitted(i, L, c, lastApplied[i], applied[i], snap[i])
    /\ UNCHANGED torn

\* Variant: entries of earlier terms are counted too.
CommitOldTerms(i, mt) ==
    LET onMajority == {n \in commitIndex[i] + 1 .. LastIndex(log[i]) :
            Cardinality({j \in Server : j = i \/ mt[j] >= n}) >= Majority}
    IN  IF onMajority = {} THEN commitIndex[i] ELSE Max(onMajority)

\* leader_advance_commit: the highest index above commitIndex that holds an
\* entry of the current term and that match indices mt put on a majority.
CommitTarget(i, mt) ==
    LET onMajority == {n \in commitIndex[i] + 1 .. LastIndex(log[i]) :
            /\ TermAt(log[i], n) = currentTerm[i]
            /\ Cardinality({j \in Server : j = i \/ mt[j] >= n}) >= Majority}
    IN  IF onMajority = {} THEN commitIndex[i] ELSE Max(onMajority)

-----------------------------------------------------------------------------
(* Initial state and restart.                                              *)

NoSnapshot == [len |-> 0, buf |-> [k \in Chunk |-> <<>>]]

\* A fresh cluster: nothing in flash, so load() yields term 0, voted_for 0.
Init ==
    /\ currentTerm = [i \in Server |-> 0]
    /\ votedFor = [i \in Server |-> ZERO_NODE]
    /\ persisted = [i \in Server |-> [term |-> 0, votedFor |-> ZERO_NODE]]
    /\ role = [i \in Server |-> "FOLLOWER"]
    /\ currentLeader = [i \in Server |-> BAD_NODE]
    /\ preVoteActive = [i \in Server |-> FALSE]
    /\ preVotes = [i \in Server |-> 0]
    /\ voteGranted = [i \in Server |-> {}]
    /\ log = [i \in Server |-> EmptyLog]
    /\ commitIndex = [i \in Server |-> 0]
    /\ lastApplied = [i \in Server |-> 0]
    /\ applied = [i \in Server |-> <<>>]
    /\ snap = [i \in Server |-> NoSnapshot]
    /\ torn = [i \in Server |-> FALSE]
    /\ snapOffset = [i \in Server |-> EveryPeer(0)]
    /\ matchIndex = [i \in Server |-> EveryPeer(0)]
    /\ nextIndex = [i \in Server |-> EveryPeer(1)]
    /\ messages = {}
    /\ ballots = {}
    /\ elected = {}
    /\ acks = {}
    /\ spent = [timeouts |-> 0, heartbeats |-> 0, restarts |-> 0]

\* Variant: the vote is not restored.
RestoredTermOnly(i) == [persisted[i] EXCEPT !.votedFor = BAD_NODE]

\* What restore_state hands to the new Server.
Restored(i) == persisted[i]

\* A node loses power and Engine::start builds a new Server: only term and
\* vote come back from flash (restore_state); the log is gone.  A crash inside
\* a handler is a restart after it whose messages are lost.
Restart(i) ==
    /\ spent.restarts < MaxRestarts
    /\ spent' = [spent EXCEPT !.restarts = @ + 1]
    /\ currentTerm' = [currentTerm EXCEPT ![i] = Restored(i).term]
    /\ votedFor' = [votedFor EXCEPT ![i] = Restored(i).votedFor]
    /\ role' = [role EXCEPT ![i] = "FOLLOWER"]
    /\ currentLeader' = [currentLeader EXCEPT ![i] = BAD_NODE]
    /\ preVoteActive' = [preVoteActive EXCEPT ![i] = FALSE]
    /\ preVotes' = [preVotes EXCEPT ![i] = 0]
    /\ voteGranted' = [voteGranted EXCEPT ![i] = {}]
    /\ log' = [log EXCEPT ![i] = EmptyLog]
    /\ commitIndex' = [commitIndex EXCEPT ![i] = 0]
    /\ lastApplied' = [lastApplied EXCEPT ![i] = 0]
    /\ applied' = [applied EXCEPT ![i] = <<>>]
    /\ snap' = [snap EXCEPT ![i] = NoSnapshot]
    /\ snapOffset' = [snapOffset EXCEPT ![i] = EveryPeer(0)]
    /\ matchIndex' = [matchIndex EXCEPT ![i] = EveryPeer(0)]
    /\ nextIndex' = [nextIndex EXCEPT ![i] = EveryPeer(1)]
    /\ UNCHANGED <<persisted, torn, messages, history>>

-----------------------------------------------------------------------------
(* periodic() and submit() (server_driver_impl.inl).                       *)

\* A leader that lost contact with the majority steps down and returns early.
LeaderLosesContact(i) ==
    /\ role[i] = "LEADER"
    /\ BecomeFollower(i, currentTerm[i], BAD_NODE)
    /\ UNCHANGED <<logVars, peerVars, messages, history, spent>>

\* The heartbeat interval has passed.
Heartbeat(i) ==
    /\ role[i] = "LEADER"
    /\ spent.heartbeats < MaxHeartbeats
    /\ spent' = [spent EXCEPT !.heartbeats = @ + 1]
    /\ Send(AppendEntriesToPeers(i, log[i]))
    /\ Commit(i, log[i], commitIndex[i])
    /\ UNCHANGED <<voteVars, peerVars, history>>

\* The election deadline has passed: start_pre_vote.
ElectionTimeout(i) ==
    /\ role[i] # "LEADER"
    /\ spent.timeouts < MaxTimeouts
    /\ spent' = [spent EXCEPT !.timeouts = @ + 1]
    /\ preVoteActive' = [preVoteActive EXCEPT ![i] = TRUE]
    /\ preVotes' = [preVotes EXCEPT ![i] = 1]
    /\ Send(RequestVoteFrom(i, currentTerm[i] + 1, TRUE))
    /\ Commit(i, log[i], commitIndex[i])
    /\ UNCHANGED <<currentTerm, votedFor, persisted, role, currentLeader,
                   voteGranted, peerVars, history>>

\* periodic() with nothing due still runs apply_committed.
Tick(i) ==
    /\ Commit(i, log[i], commitIndex[i])
    /\ UNCHANGED <<voteVars, peerVars, messages, history, spent>>

\* A submit on any other node, or into a full log, is refused.
Submit(i, v) ==
    LET entry == [index |-> LastIndex(log[i]) + 1, term |-> currentTerm[i],
                  value |-> v]
    IN  /\ role[i] = "LEADER"
        /\ ~Full(log[i])
        /\ LastIndex(log[i]) < MaxIndex
        /\ log' = [log EXCEPT ![i] = Push(log[i], entry)]
        /\ matchIndex' = [matchIndex EXCEPT ![i][i] = entry.index]
        /\ Send(AppendEntriesToPeers(i, log'[i]))
        /\ UNCHANGED <<voteVars, commitIndex, lastApplied, applied, snap, torn,
                       nextIndex, snapOffset, history, spent>>

-----------------------------------------------------------------------------
(* RequestVote (server_election_impl.inl).                                 *)

\* leader_is_live may hold: a leader that has contact with the majority, or a
\* node that heard from its leader recently.  It may always fail to hold.
MayHaveLiveLeader(i) == role[i] = "LEADER" \/ currentLeader[i] # BAD_NODE

VoteReply(m, granted, pre, t) ==
    {[type |-> "RequestVoteResp", term |-> t, from |-> m.to, to |-> m.from,
      granted |-> granted, preVote |-> pre]}

\* request_vote_guard, pre-vote: answer whether we would vote, change nothing.
HandlePreVote(m) ==
    /\ m.type = "RequestVote" /\ m.preVote
    /\ \E live \in BOOLEAN :
          /\ live => MayHaveLiveLeader(m.to)
          /\ LET grant == /\ ~live
                          /\ m.term >= currentTerm[m.to]
                          /\ UpToDate(m.lastIndex, m.lastTerm, log[m.to])
             IN  Send(VoteReply(m, grant, TRUE, currentTerm[m.to]))
    /\ UNCHANGED <<voteVars, logVars, peerVars, history, spent>>

\* request_vote_guard: with a live leader, a higher term is neither adopted
\* nor answered with a vote.
RejectDisruptiveCandidate(m) ==
    /\ m.type = "RequestVote" /\ ~m.preVote
    /\ m.term > currentTerm[m.to]
    /\ MayHaveLiveLeader(m.to)
    /\ Send(VoteReply(m, FALSE, FALSE, currentTerm[m.to]))
    /\ UNCHANGED <<voteVars, logVars, peerVars, history, spent>>

HandleRequestVote(m) ==
    LET i     == m.to
        t     == Max({m.term, currentTerm[i]})
        grant == /\ m.term = t
                 /\ VoteIn(i, t) \in {BAD_NODE, m.from}
                 /\ UpToDate(m.lastIndex, m.lastTerm, log[i])
        vote  == IF grant THEN m.from ELSE VoteIn(i, t)
    IN  /\ m.type = "RequestVote" /\ ~m.preVote
        /\ IF m.term > currentTerm[i]
           THEN StepDown(i, t, vote)
           ELSE SetTermAndVote(i, t, vote) /\ UNCHANGED <<role, currentLeader>>
        /\ Send(VoteReply(m, grant, FALSE, t))
        /\ ballots' = ballots \union {b \in {Ballot(i, t, m.from)} : grant}
        /\ UNCHANGED <<preVoteActive, preVotes, voteGranted, logVars, peerVars,
                       elected, acks, spent>>

\* A granted pre-vote; grants are not told apart by sender.  The majority
\* starts the real election.
HandlePreVoteGranted(m) ==
    LET i == m.to IN
    /\ m.type = "RequestVoteResp" /\ m.preVote /\ m.granted
    /\ preVoteActive[i]
    /\ role[i] # "LEADER"
    /\ m.term <= currentTerm[i] + 1
    /\ preVotes' = [preVotes EXCEPT ![i] = @ + 1]
    /\ IF preVotes[i] + 1 >= Majority
       THEN BecomeCandidate(i)
       ELSE UNCHANGED <<currentTerm, votedFor, persisted, role, currentLeader,
                        preVoteActive, voteGranted, messages, ballots>>
    /\ UNCHANGED <<logVars, peerVars, elected, acks, spent>>

HandleVoteGranted(m) ==
    LET i == m.to IN
    /\ m.type = "RequestVoteResp" /\ ~m.preVote /\ m.granted
    /\ role[i] = "CANDIDATE"
    /\ m.term = currentTerm[i]
    /\ m.from \notin voteGranted[i]
    /\ voteGranted' = [voteGranted EXCEPT ![i] = @ \union {m.from}]
    /\ IF Cardinality(voteGranted'[i]) >= Majority
       THEN BecomeLeader(i)
       ELSE UNCHANGED <<role, currentLeader, preVoteActive, logVars, peerVars,
                        elected>>
    /\ UNCHANGED <<currentTerm, votedFor, persisted, preVotes, messages,
                   ballots, acks, spent>>

\* A response with a higher term: maybe_step_down and return.  A vote response
\* is looked at only by a candidate, a pre-vote response never.
HandleHigherTermResp(m) ==
    LET i == m.to IN
    /\ m.term > currentTerm[i]
    /\ \/ m.type = "RequestVoteResp" /\ ~m.preVote /\ role[i] = "CANDIDATE"
       \/ m.type \in {"AppendEntriesResp", "InstallSnapshotResp"}
    /\ StepDown(i, m.term, BAD_NODE)
    /\ UNCHANGED <<preVoteActive, preVotes, voteGranted, logVars, peerVars,
                   messages, history, spent>>

-----------------------------------------------------------------------------
(* AppendEntries (server_replication_impl.inl).                            *)

AppendReply(m, t, success, conflictIndex, conflictTerm, L) ==
    {[type |-> "AppendEntriesResp", term |-> t, from |-> m.to, to |-> m.from,
      success |-> success, conflictIndex |-> conflictIndex,
      conflictTerm |-> conflictTerm, lastIndex |-> LastIndex(L)]}

\* The first index of the run of entries with the term at p that ends at p.
FirstOfTerm(L, p) ==
    Min({p} \union {k \in L.base + 1 .. p :
                       \A x \in k .. p : TermAt(L, x) = TermAt(L, p)})

\* An entry at or below the snapshot edge counts as matching.
PrevMatches(m, L) ==
    /\ m.prevIndex <= LastIndex(L)
    /\ m.prevIndex < L.base \/ TermAt(L, m.prevIndex) = m.prevTerm

\* From a leader of an earlier term.
RejectStaleAppendEntries(m) ==
    /\ m.type = "AppendEntries"
    /\ m.term < currentTerm[m.to]
    /\ Send(AppendReply(m, currentTerm[m.to], FALSE, 0, 0, log[m.to]))
    /\ UNCHANGED <<voteVars, logVars, peerVars, history, spent>>

\* The log lacks the entry before the new ones: reply with a back-up hint.
RejectAppendEntries(m) ==
    LET L == log[m.to]
        missing == m.prevIndex > LastIndex(L)
    IN  /\ m.type = "AppendEntries"
        /\ m.term >= currentTerm[m.to]
        /\ ~PrevMatches(m, L)
        /\ BecomeFollower(m.to, m.term, m.from)
        /\ Send(AppendReply(m, m.term, FALSE,
                  IF missing THEN LastIndex(L) + 1 ELSE FirstOfTerm(L, m.prevIndex),
                  IF missing THEN 0 ELSE TermAt(L, m.prevIndex), L))
        /\ UNCHANGED <<logVars, peerVars, history, spent>>

\* The reply reports the follower's last index, whatever the message carried;
\* the commit index follows the message, whatever fitted into the log.
AcceptAppendEntries(m) ==
    LET i    == m.to
        L    == AppendFrom(log[i], m.prevIndex, m.entries)
        last == m.prevIndex + Len(m.entries)
    IN  /\ m.type = "AppendEntries"
        /\ m.term >= currentTerm[i]
        /\ PrevMatches(m, log[i])
        /\ BecomeFollower(i, m.term, m.from)
        /\ Send(AppendReply(m, m.term, TRUE, 0, 0, L))
        /\ Commit(i, L, Max({commitIndex[i], Min({m.commit, last})}))
        /\ acks' = acks \union {[node |-> i, term |-> m.term, index |-> LastIndex(L)]}
        /\ UNCHANGED <<peerVars, ballots, elected, spent>>

\* The follower's reply to its leader of the current term.
ReplyForLeader(m) ==
    /\ role[m.to] = "LEADER"
    /\ m.term = currentTerm[m.to]

\* Accepted: advance next, match and commit index, pipeline the next batch out
\* of the log as compaction left it.
HandleAppendEntriesAccepted(m) ==
    LET i  == m.to
        j  == m.from
        nx == Max({m.lastIndex + 1, nextIndex[i][j]})
        mt == [matchIndex[i] EXCEPT ![j] = Max({m.lastIndex, @})]
        c  == CommitTarget(i, mt)
    IN  /\ m.type = "AppendEntriesResp" /\ m.success
        /\ ReplyForLeader(m)
        /\ nextIndex' = [nextIndex EXCEPT ![i][j] = nx]
        /\ matchIndex' = [matchIndex EXCEPT ![i] = mt]
        /\ Commit(i, log[i], c)
        /\ Send(IF nx <= LastIndex(log'[i])
                THEN AppendEntriesTo(i, j, nx, log'[i], c, snap'[i],
                                     snapOffset[i][j])
                ELSE {})
        /\ UNCHANGED <<voteVars, snapOffset, history, spent>>

\* Variant: the follower's hint is taken for the index before the one it asks for.
BackUpBeforeHint(i, m) ==
    IF m.conflictIndex # 0 THEN m.conflictIndex - 1 ELSE nextIndex[i][m.from]

\* Variant: the conflicting term is not looked up in the leader's own log.
BackUpToHint(i, m) ==
    IF m.conflictIndex # 0
    THEN m.conflictIndex
    ELSE Max({nextIndex[i][m.from] - 1, 1})

\* Where to retry: after our last entry of the conflicting term if we have one,
\* at the follower's hint otherwise, one step back without a hint.
BackUp(i, m) ==
    LET ofTerm == {k \in log[i].base + 1 .. LastIndex(log[i]) :
                      TermAt(log[i], k) = m.conflictTerm}
    IN  IF m.conflictTerm # 0 /\ ofTerm # {}
        THEN Max(ofTerm) + 1
        ELSE IF m.conflictIndex # 0
             THEN m.conflictIndex
             ELSE Max({nextIndex[i][m.from] - 1, 1})

HandleAppendEntriesRejected(m) ==
    LET i  == m.to
        j  == m.from
        nx == BackUp(i, m)
    IN  /\ m.type = "AppendEntriesResp" /\ ~m.success
        /\ ReplyForLeader(m)
        /\ nextIndex' = [nextIndex EXCEPT ![i][j] = nx]
        /\ Send(AppendEntriesTo(i, j, nx, log[i], commitIndex[i], snap[i],
                                snapOffset[i][j]))
        /\ Commit(i, log[i], commitIndex[i])
        /\ UNCHANGED <<voteVars, matchIndex, snapOffset, history, spent>>

-----------------------------------------------------------------------------
(* InstallSnapshot (server_snapshot_impl.inl).                             *)

SnapshotReply(m, t, L) ==
    {[type |-> "InstallSnapshotResp", term |-> t, from |-> m.to,
      to |-> m.from, lastIndex |-> L.base]}

RejectStaleInstallSnapshot(m) ==
    /\ m.type = "InstallSnapshot"
    /\ m.term < currentTerm[m.to]
    /\ Send(SnapshotReply(m, currentTerm[m.to], log[m.to]))
    /\ UNCHANGED <<voteVars, logVars, peerVars, history, spent>>

\* The buffer after the chunk of m: offset 0 starts over, any other offset adds
\* to whatever is there.
Assemble(sn, m) ==
    LET len == IF m.offset = 0 THEN 0 ELSE sn.len
    IN  [len |-> Max({len, m.offset + 1}),
         buf |-> [sn.buf EXCEPT ![m.offset + 1] = m.data]]

HandleSnapshotChunk(m) ==
    LET i == m.to IN
    /\ m.type = "InstallSnapshot" /\ ~m.done
    /\ m.term >= currentTerm[i]
    /\ BecomeFollower(i, m.term, m.from)
    /\ snap' = [snap EXCEPT ![i] = Assemble(snap[i], m)]
    /\ Send(SnapshotReply(m, m.term, log[i]))
    /\ UNCHANGED <<log, commitIndex, lastApplied, applied, torn, peerVars,
                   history, spent>>

\* What m_snapshot_load makes of the buffer: a short one is ignored.
Loaded(i, sn, m) == IF sn.len < SnapshotChunks THEN applied[i] ELSE m.data

\* The last chunk: keep the log behind a matching entry or discard all of it,
\* and load the buffer into the state machine.  The model stops short of one
\* case: a leader that never compacted, but holds two of three or more chunks of
\* another's snapshot, offers it as the snapshot of index 0 to a node that has
\* compacted, and compact_to computes with a negative distance.  A buffer has
\* SNAPSHOT_MAX / SNAPSHOT_CHUNK = 2 chunks.
HandleSnapshotDone(m) ==
    LET i      == m.to
        sn     == Assemble(snap[i], m)
        retain == TermAt(log[i], m.lastIndex) = m.lastTerm
        L      == IF retain THEN CompactTo(log[i], m.lastIndex, m.lastTerm)
                            ELSE ResetToSnapshot(m.lastIndex, m.lastTerm)
    IN  /\ m.type = "InstallSnapshot" /\ m.done
        /\ m.term >= currentTerm[i]
        /\ retain => m.lastIndex >= log[i].base
        /\ BecomeFollower(i, m.term, m.from)
        /\ torn' = [torn EXCEPT ![i] =
                       @ \/ \E k \in 1 .. sn.len : sn.buf[k] # m.data]
        /\ ApplyCommitted(i, L, Max({commitIndex[i], L.base}),
                          Max({lastApplied[i], L.base}), Loaded(i, sn, m), sn)
        /\ Send(SnapshotReply(m, m.term, L))
        /\ UNCHANGED <<peerVars, history, spent>>

\* Every reply, of whatever term, moves the cursor of its sender one chunk on.
HandleInstallSnapshotResp(m) ==
    LET i    == m.to
        j    == m.from
        sent == Min({snapOffset[i][j] + 1, snap[i].len})
        nx   == Max({m.lastIndex + 1, nextIndex[i][j]})
    IN  /\ m.type = "InstallSnapshotResp"
        /\ role[i] = "LEADER"
        /\ m.term <= currentTerm[i]
        /\ IF sent < snap[i].len
           THEN /\ snapOffset' = [snapOffset EXCEPT ![i][j] = sent]
                /\ Send(InstallSnapshotTo(i, j, log[i], snap[i], sent))
                /\ UNCHANGED <<logVars, nextIndex, matchIndex>>
           ELSE /\ snapOffset' = [snapOffset EXCEPT ![i][j] = 0]
                /\ nextIndex' = [nextIndex EXCEPT ![i][j] = nx]
                /\ matchIndex' = [matchIndex EXCEPT ![i][j] =
                                     Max({m.lastIndex, @})]
                /\ Send(AppendEntriesTo(i, j, nx, log[i], commitIndex[i],
                                        snap[i], 0))
                /\ Commit(i, log[i], commitIndex[i])
        /\ UNCHANGED <<voteVars, history, spent>>

-----------------------------------------------------------------------------
Receive(m) ==
    \/ HandlePreVote(m)
    \/ RejectDisruptiveCandidate(m)
    \/ HandleRequestVote(m)
    \/ HandlePreVoteGranted(m)
    \/ HandleVoteGranted(m)
    \/ HandleHigherTermResp(m)
    \/ RejectStaleAppendEntries(m)
    \/ RejectAppendEntries(m)
    \/ AcceptAppendEntries(m)
    \/ HandleAppendEntriesAccepted(m)
    \/ HandleAppendEntriesRejected(m)
    \/ RejectStaleInstallSnapshot(m)
    \/ HandleSnapshotChunk(m)
    \/ HandleSnapshotDone(m)
    \/ HandleInstallSnapshotResp(m)

Next ==
    \/ \E i \in Server : \/ Restart(i)
                         \/ LeaderLosesContact(i)
                         \/ Heartbeat(i)
                         \/ ElectionTimeout(i)
                         \/ Tick(i)
                         \/ \E v \in Value : Submit(i, v)
    \/ \E m \in messages : Receive(m)

Spec == Init /\ [][Next]_vars

-----------------------------------------------------------------------------
(* Properties.                                                             *)

Snapshot  == [len : 0 .. SnapshotChunks, buf : [Chunk -> Seq(Entry)]]
Candidate == Server \union {BAD_NODE, ZERO_NODE}

VoteTypeOK ==
    /\ currentTerm \in [Server -> Nat]
    /\ votedFor \in [Server -> Candidate]
    /\ persisted \in [Server -> [term : Nat, votedFor : Candidate]]
    /\ role \in [Server -> {"FOLLOWER", "CANDIDATE", "LEADER"}]
    /\ currentLeader \in [Server -> Server \union {BAD_NODE}]
    /\ preVoteActive \in [Server -> BOOLEAN]
    /\ preVotes \in [Server -> Nat]
    /\ voteGranted \in [Server -> SUBSET Server]

LogTypeOK ==
    /\ log \in [Server -> Log]
    /\ commitIndex \in [Server -> Nat]
    /\ lastApplied \in [Server -> Nat]
    /\ applied \in [Server -> Seq(Entry)]
    /\ snap \in [Server -> Snapshot]
    /\ torn \in [Server -> BOOLEAN]

PeerTypeOK ==
    /\ nextIndex \in [Server -> [Server -> Nat \ {0}]]
    /\ matchIndex \in [Server -> [Server -> Nat]]
    /\ snapOffset \in [Server -> [Server -> 0 .. SnapshotChunks]]

HistoryTypeOK ==
    /\ ballots \subseteq [voter : Server, term : Nat, candidate : Server]
    /\ elected \subseteq [term : Nat, leader : Server]
    /\ acks \subseteq [node : Server, term : Nat, index : Nat]
    /\ spent \in [timeouts : Nat, heartbeats : Nat, restarts : Nat]

\* The types of Server's fields.  Two parts are more than declarations: a next
\* index is never 0, although the leader counts it down on every rejection, and
\* a snapshot cursor never leaves the snapshot.
TypeOK ==
    /\ VoteTypeOK
    /\ LogTypeOK
    /\ PeerTypeOK
    /\ HistoryTypeOK
    /\ messages \subseteq Message

\* The argument for ElectionSafety, step by step.  Flash holds the node's term
\* and vote; a ballot binds its voter, in its term, to its candidate; a vote in
\* flight and a vote counted by a candidate were given; a leader was elected by
\* a majority.
VoteOnFlash ==
    \A i \in Server :
        persisted[i] = [term |-> currentTerm[i], votedFor |-> votedFor[i]]

BallotsBind ==
    \A b \in ballots :
        /\ b.term <= currentTerm[b.voter]
        /\ b.term = currentTerm[b.voter] => votedFor[b.voter] = b.candidate
        /\ \A a \in ballots :
              a.voter = b.voter /\ a.term = b.term => a.candidate = b.candidate

GrantsAreBallots ==
    \A m \in messages :
        m.type = "RequestVoteResp" /\ ~m.preVote /\ m.granted =>
            Ballot(m.from, m.term, m.to) \in ballots

CountedAreBallots ==
    \A i \in Server :
        role[i] = "CANDIDATE" =>
            \A j \in voteGranted[i] : Ballot(j, currentTerm[i], i) \in ballots

ElectedByMajority ==
    \A e \in elected :
        \E Q \in SUBSET Server :
            /\ Cardinality(Q) >= Majority
            /\ \A j \in Q : Ballot(j, e.term, e.leader) \in ballots

\* The inductive invariant behind ElectionSafety: no vote is ever counted that
\* was not given, or given twice in a term, whatever the network and restarts do.
ElectionInv ==
    /\ VoteOnFlash
    /\ BallotsBind
    /\ GrantsAreBallots
    /\ CountedAreBallots
    /\ ElectedByMajority

\* At most one node ever becomes leader of a term (5.2): with lost, repeated and
\* late votes, split elections, and nodes that crash and vote again.  This is
\* what persisting term and vote is for.
ElectionSafety ==
    \A e, f \in elected : e.term = f.term => e.leader = f.leader

\* is_leader(), which the application asks before it submits or answers, compares
\* m_current_leader with the node's own EUI; submit() looks at m_state.  Between
\* handlers the two agree, however the node lost or won its leadership.
LeaderFlagAgrees ==
    \A i \in Server : currentLeader[i] = i <=> role[i] = "LEADER"

\* Two logs that hold an entry of the same term at the same index hold the same
\* entries at every index up to it that both still have (5.3).
LogMatching ==
    \A i, j \in Server :
        LET Li == log[i]
            Lj == log[j]
            Both == {k \in 1 .. Max({LastIndex(Li), LastIndex(Lj)}) :
                        Live(Li, k) /\ Live(Lj, k)}
        IN  \A k \in Both :
               TermAt(Li, k) = TermAt(Lj, k) =>
                   \A x \in Both : x <= k => EntryAt(Li, x) = EntryAt(Lj, x)

\* If two nodes applied an entry at some index, it is the same entry.
StateMachineSafety ==
    \A i, j \in Server :
        \A a \in DOMAIN applied[i], b \in DOMAIN applied[j] :
            applied[i][a].index = applied[j][b].index =>
                applied[i][a] = applied[j][b]

\* Each node applies every index once, in order, without gaps, up to its commit
\* index: the state machine never misses or repeats an entry.
AppliedInOrder ==
    \A i \in Server :
        /\ Len(applied[i]) = lastApplied[i]
        /\ lastApplied[i] = commitIndex[i]
        /\ \A k \in DOMAIN applied[i] : applied[i][k].index = k

\* A leader has every entry that a node in its or an earlier term has applied.
LeaderCompleteness ==
    \A i, j \in Server :
        role[i] = "LEADER" /\ currentTerm[i] >= currentTerm[j] =>
            \A k \in DOMAIN applied[j] :
                \/ k <= log[i].base
                \/ Live(log[i], k) /\ EntryAt(log[i], k) = applied[j][k]

\* What a leader believes about a follower of its term is true: the follower's
\* log reaches its match index and agrees with the leader's up to it.  The
\* follower reports the end of its own log, whatever the message reached, so
\* this rests on where the leader backs up to: no message may end before the
\* two logs part.
MatchIndexIsReplicated ==
    \A i, j \in Server :
        role[i] = "LEADER" /\ currentTerm[j] = currentTerm[i] =>
            /\ matchIndex[i][j] <= LastIndex(log[j])
            /\ \A k \in 1 .. matchIndex[i][j] :
                  Live(log[i], k) /\ Live(log[j], k) =>
                      EntryAt(log[i], k) = EntryAt(log[j], k)

\* What two nodes have committed is the same wherever both still know its term,
\* in the ring or at the edge of their snapshots: compaction moves the edge to
\* the entry it dropped last, and what a peer is told of the edge is true.
CommittedAgree ==
    \A i, j \in Server :
        \A k \in 1 .. Min({commitIndex[i], commitIndex[j]}) :
            NoTerm \notin {TermAt(log[i], k), TermAt(log[j], k)} =>
                TermAt(log[i], k) = TermAt(log[j], k)

\* A snapshot loaded into a state machine comes from one save, as callback.hpp
\* has it ("a fully received snapshot buffer").
NoTornSnapshot == \A i \in Server : ~torn[i]

VoteKept ==
    \A i \in Server :
        /\ currentTerm'[i] >= currentTerm[i]
        /\ currentTerm'[i] = currentTerm[i] /\ votedFor[i] \in Server
              => votedFor'[i] = votedFor[i]

\* A node's term never goes back, and within a term it votes for one node, even
\* across a restart.
VoteIsStable == [][VoteKept]_vars

CommitsKept ==
    \A i \in Server :
        /\ commitIndex'[i] >= commitIndex[i]
        /\ log'[i].base >= log[i].base
        /\ \A k \in 1 .. commitIndex[i] :
              Live(log[i], k) =>
                  \/ k <= log'[i].base
                  \/ Live(log'[i], k) /\ EntryAt(log'[i], k) = EntryAt(log[i], k)

\* No step but a restart takes back a commit, or drops or replaces an entry at
\* or below the commit index, or moves the snapshot edge back.
CommittedIsStable == [][spent'.restarts = spent.restarts => CommitsKept]_vars
=============================================================================
