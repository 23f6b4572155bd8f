-------------------------- MODULE RaftServerProofs --------------------------
(***************************************************************************)
(* Proofs about RaftServer, for any cluster, any log capacity, any bounds: *)
(* what the operators of RaftLog return (E: any set of entries with a      *)
(* term), types, election safety, the leader a node names, log matching,   *)
(* and the safety of commits.                                              *)
(***************************************************************************)
EXTENDS RaftInvariants, SequenceTheorems, FiniteSetTheorems, WellFoundedInduction, TLAPS

-----------------------------------------------------------------------------
(* Minimum and maximum.                                                    *)

\* std::max of two integers.
LEMMA MaxPair ==
    ASSUME NEW a \in Int, NEW b \in Int
    PROVE  Max({a, b}) = IF a >= b THEN a ELSE b
<1>1. PICK x \in {a, b} : \A y \in {a, b} : x >= y
  <2>1. CASE a >= b
    BY <2>1
  <2>2. CASE ~(a >= b)
    BY <2>2
  <2> QED BY <2>1, <2>2
<1>2. Max({a, b}) \in {a, b} /\ \A y \in {a, b} : Max({a, b}) >= y
  BY <1>1 DEF Max
<1> QED BY <1>2

\* std::min of two integers.
LEMMA MinPair ==
    ASSUME NEW a \in Int, NEW b \in Int
    PROVE  Min({a, b}) = IF a =< b THEN a ELSE b
<1>1. PICK x \in {a, b} : \A y \in {a, b} : x =< y
  <2>1. CASE a =< b
    BY <2>1
  <2>2. CASE ~(a =< b)
    BY <2>2
  <2> QED BY <2>1, <2>2
<1>2. Min({a, b}) \in {a, b} /\ \A y \in {a, b} : Min({a, b}) =< y
  BY <1>1 DEF Min
<1> QED BY <1>2

\* A non-empty set of naturals has a least element: the first index a scan meets.
LEMMA MinOfNaturals ==
    ASSUME NEW S \in SUBSET Nat, S # {}
    PROVE  Min(S) \in S /\ \A y \in S : Min(S) =< y
<1> DEFINE R == OpToRel(<, Nat)
<1>1. IsWellFoundedOn(R, Nat)
  BY NatLessThanWellFounded
<1>2. \A x, y \in Nat : x < y => <<x, y>> \in R
  BY Zenon DEF OpToRel
<1> HIDE DEF R
<1>3. PICK x \in S : \A y \in S : ~(<<y, x>> \in R)
  BY <1>1, WFMin
<1>4. \A y \in S : ~(y < x)
  BY <1>2, <1>3, S \subseteq Nat, Zenon
<1>5. \A y \in S : x =< y
  BY <1>4
<1> QED BY <1>5 DEF Min

\* A non-empty bounded set of naturals has a greatest element: the first index a
\* downward scan meets.
LEMMA MaxOfNaturals ==
    ASSUME NEW S \in SUBSET Nat, S # {}, NEW n \in Nat, \A y \in S : y <= n
    PROVE  Max(S) \in S /\ \A y \in S : Max(S) >= y
<1> DEFINE T == {n - y : y \in S}
<1>1. T \in SUBSET Nat /\ T # {}
  <2>1. \A y \in S : n - y \in Nat
    OBVIOUS
  <2>2. T \in SUBSET Nat
    BY <2>1
  <2> QED BY <2>2, Zenon
<1>2. PICK d \in T : \A e \in T : d =< e
  BY <1>1, MinOfNaturals
<1>3. PICK x \in S : d = n - x
  OBVIOUS
<1>4. \A y \in S : x >= y
  <2> TAKE y \in S
  <2>1. n - y \in T
    OBVIOUS
  <2> QED BY <2>1, <1>2, <1>3
<1> QED BY <1>3, <1>4 DEF Max

-----------------------------------------------------------------------------
(* The operators on logs.                                                  *)

\* last_index() is an index, and never below the snapshot edge.
LEMMA LastIndexType ==
    ASSUME NEW E, NEW L \in LogOf(E)
    PROVE  LastIndex(L) \in Nat /\ L.base <= LastIndex(L)
BY DEF LogOf, LastIndex

\* last_term() is a term.
LEMMA LastTermType ==
    ASSUME NEW E, \A e \in E : e.term \in Nat, NEW L \in LogOf(E)
    PROVE  LastTerm(L) \in Nat
<1>1. CASE Len(L.entries) = 0
  BY <1>1 DEF LogOf, LastTerm
<1>2. CASE Len(L.entries) # 0
  <2>1. L.entries \in Seq(E) /\ Len(L.entries) \in 1 .. Len(L.entries)
    BY <1>2 DEF LogOf
  <2>2. L.entries[Len(L.entries)] \in E
    BY <2>1
  <2> QED BY <2>2, <1>2 DEF LastTerm
<1> QED BY <1>1, <1>2

\* term_at() finds a term only at indices up to the last one.
LEMMA TermAtType ==
    ASSUME NEW E, \A e \in E : e.term \in Nat, NEW L \in LogOf(E),
           NEW k \in Nat
    PROVE  /\ TermAt(L, k) \in Nat \union {NoTerm}
           /\ TermAt(L, k) # NoTerm => k <= LastIndex(L) /\ TermAt(L, k) \in Nat
<1> USE DEF LogOf
<1>1. L.base \in Nat /\ L.term \in Nat /\ L.entries \in Seq(E)
  OBVIOUS
<1>2. ASSUME Live(L, k)
      PROVE  EntryAt(L, k).term \in Nat
  <2>1. k - L.base \in 1 .. Len(L.entries)
    BY <1>1, <1>2 DEF Live, LastIndex
  <2>2. EntryAt(L, k) \in E
    BY <1>1, <2>1 DEF EntryAt
  <2> QED BY <2>2
<1>3. CASE k = 0 \/ k = L.base
  BY <1>1, <1>3 DEF TermAt, LastIndex
<1>4. CASE ~(k = 0 \/ k = L.base) /\ Live(L, k)
  BY <1>1, <1>2, <1>4 DEF TermAt, Live
<1>5. CASE ~(k = 0 \/ k = L.base) /\ ~Live(L, k)
  BY <1>5 DEF TermAt
<1> QED BY <1>3, <1>4, <1>5

\* push() keeps a log a log.
LEMMA PushType ==
    ASSUME NEW E, NEW L \in LogOf(E), NEW e \in E
    PROVE  /\ Push(L, e) \in LogOf(E)
           /\ LastIndex(Push(L, e)) \in Nat
<1>1. Append(L.entries, e) \in Seq(E)
  BY DEF LogOf
<1>2. Push(L, e) \in LogOf(E)
  BY <1>1 DEF Push, LogOf
<1> QED BY <1>2, LastIndexType

\* compact_to() keeps a log a log when the new edge is not below the old one.
LEMMA CompactToType ==
    ASSUME NEW E, NEW L \in LogOf(E), NEW k \in Nat, NEW t \in Nat,
           k >= L.base
    PROVE  CompactTo(L, k, t) \in LogOf(E)
<1>1. L.entries \in Seq(E) /\ L.base \in Nat /\ Len(L.entries) \in Nat
  BY DEF LogOf
<1>2. SubSeq(L.entries, k - L.base + 1, Len(L.entries)) \in Seq(E)
  <2>1. \A x \in k - L.base + 1 .. Len(L.entries) : L.entries[x] \in E
    BY <1>1
  <2> QED BY <1>1, <2>1, SubSeqProperties
<1> QED BY <1>2 DEF CompactTo, LogOf

\* What is sent or applied out of a log are entries of it.
LEMMA EntriesBetweenType ==
    ASSUME NEW E, NEW L \in LogOf(E), NEW la \in Nat, NEW c \in Nat
    PROVE  EntriesBetween(L, la, c) \in Seq(E)
<1> DEFINE m == Max({la, L.base}) - L.base + 1
           n == Min({c, LastIndex(L)}) - L.base
<1>1. L.entries \in Seq(E) /\ L.base \in Nat /\ Len(L.entries) \in Nat
  BY DEF LogOf
<1>2. m \in Int /\ m >= 1
  BY <1>1, MaxPair
<1>3. n \in Int /\ n <= Len(L.entries)
  BY <1>1, MinPair DEF LastIndex
<1>4. \A x \in m .. n : L.entries[x] \in E
  BY <1>1, <1>2, <1>3
<1> HIDE DEF m, n
<1>5. SubSeq(L.entries, m, n) \in Seq(E)
  BY <1>2, <1>3, <1>4, SubSeqProperties
<1> QED BY <1>5 DEF EntriesBetween, m, n

\* The append loop of handle(AppendEntries) keeps a log a log when the previous
\* index is in the log, which the consistency check before it guarantees.
LEMMA AppendFromType ==
    ASSUME NEW E, \A e \in E : e.term \in Nat, NEW L \in LogOf(E),
           NEW p \in Nat, p <= LastIndex(L), NEW es \in Seq(E)
    PROVE  AppendFrom(L, p, es) \in LogOf(E)
<1> DEFINE first == Min(NewEntries(L, p, es))
           keep  == SubSeq(L.entries, 1, p + first - 1 - L.base)
           room  == LogCapacity - Len(keep)
           top   == Min({Len(es), first - 1 + room})
           added == SubSeq(es, first, top)
<1>1. L.entries \in Seq(E) /\ L.base \in Nat /\ Len(L.entries) \in Nat
      /\ Len(es) \in Nat
  BY DEF LogOf
<1>2. CASE NewEntries(L, p, es) = {}
  BY <1>2 DEF AppendFrom
<1>3. CASE NewEntries(L, p, es) # {}
  <2>1. first \in NewEntries(L, p, es) /\ \A y \in NewEntries(L, p, es) : first =< y
    <3>1. NewEntries(L, p, es) \in SUBSET Nat
      BY <1>1 DEF NewEntries
    <3> QED BY <3>1, <1>3, MinOfNaturals
  <2>2. first \in 1 .. Len(es) /\ p + first > L.base
    BY <2>1 DEF NewEntries
  <2> HIDE DEF first
  <2>3. p + first - 1 <= LastIndex(L)
    <3>1. CASE first = 1
      BY <3>1
    <3>2. CASE first # 1 /\ p + (first - 1) <= L.base
      BY <3>2, <1>1, <2>2, LastIndexType
    <3>3. CASE first # 1 /\ p + (first - 1) > L.base
      <4>1. first - 1 \in 1 .. Len(es) /\ p + (first - 1) \in Nat
        BY <1>1, <2>2, <3>3
      <4>2. first - 1 \notin NewEntries(L, p, es)
        BY <2>1, <2>2, <4>1
      <4>3. TermAt(L, p + (first - 1)) = es[first - 1].term
        BY <4>1, <4>2, <3>3 DEF NewEntries
      <4>4. es[first - 1] \in E
        BY <4>1
      <4>5. TermAt(L, p + (first - 1)) # NoTerm
        BY <4>3, <4>4 DEF NoTerm
      <4> QED BY <4>1, <4>5, TermAtType, <2>2, <1>1
    <3> QED BY <3>1, <3>2, <3>3, <1>1, <2>2
  <2>4. keep \in Seq(E) /\ Len(keep) \in Nat
    <3>1. p + first - 1 - L.base \in Int /\ p + first - 1 - L.base <= Len(L.entries)
      BY <1>1, <2>2, <2>3 DEF LastIndex
    <3>2. \A x \in 1 .. p + first - 1 - L.base : L.entries[x] \in E
      BY <1>1, <3>1
    <3>3. keep \in Seq(E)
      BY <3>1, <3>2, SubSeqProperties
    <3> HIDE DEF keep
    <3> QED BY <3>3
  <2> HIDE DEF keep
  <2>5. room \in Int
    BY <2>4, LogCapacityAssumption
  <2> HIDE DEF room
  <2>6. top \in Int /\ top <= Len(es)
    <3>1. Len(es) \in Int /\ first - 1 + room \in Int
      BY <2>5, <2>2, <1>1
    <3>2. top = IF Len(es) =< first - 1 + room THEN Len(es) ELSE first - 1 + room
      BY <3>1, MinPair, Zenon
    <3> QED BY <3>1, <3>2
  <2> HIDE DEF top
  <2>7. added \in Seq(E)
    <3>1. \A x \in first .. top : es[x] \in E
      BY <1>1, <2>2, <2>6
    <3> QED BY <2>2, <2>6, <3>1, SubSeqProperties
  <2>8. keep \o added \in Seq(E)
    BY <2>4, <2>7, ConcatProperties
  <2>9. AppendFrom(L, p, es) = [L EXCEPT !.entries = keep \o added]
    BY <1>3, Zenon DEF AppendFrom, first, keep, room, top, added
  <2> QED BY <2>8, <2>9 DEF LogOf
<1> QED BY <1>2, <1>3

-----------------------------------------------------------------------------
(* Messages.                                                               *)

\* Sending and losing messages keeps them messages.
LEMMA SendType ==
    ASSUME messages \subseteq Message, NEW ms, ms \subseteq Message, Send(ms)
    PROVE  messages' \subseteq Message
BY DEF Send

LEMMA EntryTerm == \A e \in Entry : e.term \in Nat
BY DEF Entry

LEMMA PeersType == \A i \in Server : Peers(i) \subseteq Server
BY DEF Peers

LEMMA RequestVoteFromType ==
    ASSUME TypeOK, NEW i \in Server, NEW t \in Nat, NEW pre \in BOOLEAN
    PROVE  RequestVoteFrom(i, t, pre) \subseteq Message
<1>1. log[i] \in LogOf(Entry)
  BY DEF TypeOK, LogTypeOK, Log
<1>2. LastIndex(log[i]) \in Nat /\ LastTerm(log[i]) \in Nat
  BY <1>1, LastIndexType, LastTermType, EntryTerm
<1> QED BY <1>2, PeersType DEF RequestVoteFrom, Message

LEMMA VoteReplyType ==
    ASSUME NEW m \in Message, NEW granted \in BOOLEAN, NEW pre \in BOOLEAN,
           NEW t \in Nat
    PROVE  VoteReply(m, granted, pre, t) \subseteq Message
BY DEF VoteReply, Message

LEMMA AppendReplyType ==
    ASSUME NEW m \in Message, NEW t \in Nat, NEW success \in BOOLEAN,
           NEW ci \in Nat, NEW ct \in Nat, NEW L \in Log
    PROVE  AppendReply(m, t, success, ci, ct, L) \subseteq Message
<1>1. LastIndex(L) \in Nat
  BY LastIndexType DEF Log
<1> QED BY <1>1 DEF AppendReply, Message

LEMMA SnapshotReplyType ==
    ASSUME NEW m \in Message, NEW t \in Nat, NEW L \in Log
    PROVE  SnapshotReply(m, t, L) \subseteq Message
<1>1. L.base \in Nat
  BY DEF Log, LogOf
<1> QED BY <1>1 DEF SnapshotReply, Message

LEMMA InstallSnapshotToType ==
    ASSUME TypeOK, NEW i \in Server, NEW j \in Server, NEW L \in Log,
           NEW sn \in Snapshot, NEW off \in 0 .. SnapshotChunks
    PROVE  InstallSnapshotTo(i, j, L, sn, off) \subseteq Message
<1>1. CASE off >= sn.len
  BY <1>1 DEF InstallSnapshotTo
<1>2. CASE ~(off >= sn.len)
  <2>1. currentTerm[i] \in Nat /\ L.base \in Nat /\ L.term \in Nat
    BY DEF TypeOK, VoteTypeOK, Log, LogOf
  <2>2. off + 1 \in Chunk /\ off \in 0 .. SnapshotChunks - 1
    BY <1>2, ConfigAssumption DEF Snapshot, Chunk
  <2>3. sn.buf[off + 1] \in Seq(Entry)
    BY <2>2 DEF Snapshot
  <2> DEFINE done == off + 1 >= sn.len
             data == sn.buf[off + 1]
  <2>4. done \in BOOLEAN /\ data \in Seq(Entry)
    BY <2>3
  <2>5. InstallSnapshotTo(i, j, L, sn, off) =
          {[type |-> "InstallSnapshot", term |-> currentTerm[i], from |-> i,
            to |-> j, lastIndex |-> L.base, lastTerm |-> L.term,
            offset |-> off, done |-> done, data |-> data]}
    BY <1>2, Zenon DEF InstallSnapshotTo
  <2> HIDE DEF done, data
  <2> QED BY <2>1, <2>2, <2>4, <2>5 DEF Message
<1> QED BY <1>1, <1>2

LEMMA AppendEntriesToType ==
    ASSUME TypeOK, NEW i \in Server, NEW j \in Server, NEW nx \in Nat \ {0},
           NEW L \in Log, NEW c \in Nat, NEW sn \in Snapshot,
           NEW off \in 0 .. SnapshotChunks
    PROVE  AppendEntriesTo(i, j, nx, L, c, sn, off) \subseteq Message
<1>1. CASE nx - 1 < L.base \/ TermAt(L, nx - 1) = NoTerm
  BY <1>1, InstallSnapshotToType DEF AppendEntriesTo
<1>2. CASE ~(nx - 1 < L.base \/ TermAt(L, nx - 1) = NoTerm)
  <2>1. currentTerm[i] \in Nat /\ nx - 1 \in Nat /\ nx - 1 + MaxAppendEntries \in Nat
    BY ConfigAssumption DEF TypeOK, VoteTypeOK
  <2>2. TermAt(L, nx - 1) \in Nat
    BY <1>2, <2>1, TermAtType, EntryTerm DEF Log
  <2>3. EntriesBetween(L, nx - 1, nx - 1 + MaxAppendEntries) \in Seq(Entry)
    BY <2>1, EntriesBetweenType DEF Log
  <2> QED BY <1>2, <2>1, <2>2, <2>3 DEF AppendEntriesTo, Message
<1> QED BY <1>1, <1>2

LEMMA AppendEntriesToPeersType ==
    ASSUME TypeOK, NEW i \in Server, NEW L \in Log
    PROVE  AppendEntriesToPeers(i, L) \subseteq Message
<1>1. \A j \in Peers(i) :
        AppendEntriesTo(i, j, nextIndex[i][j], L, commitIndex[i], snap[i],
                        snapOffset[i][j]) \subseteq Message
  <2> TAKE j \in Peers(i)
  <2>1. j \in Server
    BY PeersType
  <2>2. /\ nextIndex[i][j] \in Nat \ {0}
        /\ commitIndex[i] \in Nat
        /\ snap[i] \in Snapshot
        /\ snapOffset[i][j] \in 0 .. SnapshotChunks
    BY <2>1 DEF TypeOK, LogTypeOK, PeerTypeOK
  <2> QED BY <2>1, <2>2, AppendEntriesToType
<1> QED BY <1>1 DEF AppendEntriesToPeers

\* The fields of a message.
LEMMA MessageFields ==
    ASSUME NEW m \in Message
    PROVE  /\ m.term \in Nat /\ m.from \in Server /\ m.to \in Server
           /\ m.type = "RequestVote" =>
                 m.lastIndex \in Nat /\ m.lastTerm \in Nat /\ m.preVote \in BOOLEAN
           /\ m.type = "RequestVoteResp" =>
                 m.granted \in BOOLEAN /\ m.preVote \in BOOLEAN
           /\ m.type = "AppendEntries" =>
                 /\ m.prevIndex \in Nat /\ m.prevTerm \in Nat /\ m.commit \in Nat
                 /\ m.entries \in Seq(Entry)
           /\ m.type = "AppendEntriesResp" =>
                 /\ m.success \in BOOLEAN /\ m.lastIndex \in Nat
                 /\ m.conflictIndex \in Nat /\ m.conflictTerm \in Nat
           /\ m.type = "InstallSnapshot" =>
                 /\ m.lastIndex \in Nat /\ m.lastTerm \in Nat
                 /\ m.offset \in 0 .. SnapshotChunks - 1
                 /\ m.done \in BOOLEAN /\ m.data \in Seq(Entry)
           /\ m.type = "InstallSnapshotResp" => m.lastIndex \in Nat
BY DEF Message

-----------------------------------------------------------------------------
(* Role changes.                                                           *)

\* Adopting a term and a vote keeps the three variables typed.
LEMMA SetTermAndVoteType ==
    ASSUME VoteTypeOK, NEW i \in Server, NEW t \in Nat, NEW v \in Candidate,
           SetTermAndVote(i, t, v)
    PROVE  /\ currentTerm' \in [Server -> Nat]
           /\ votedFor' \in [Server -> Candidate]
           /\ persisted' \in [Server -> [term : Nat, votedFor : Candidate]]
BY DEF VoteTypeOK, SetTermAndVote

LEMMA VoteInType ==
    ASSUME VoteTypeOK, NEW i \in Server, NEW t \in Nat
    PROVE  VoteIn(i, t) \in Candidate
BY DEF VoteTypeOK, VoteIn, Candidate

LEMMA StepDownType ==
    ASSUME VoteTypeOK, NEW i \in Server, NEW t \in Nat, NEW v \in Candidate,
           StepDown(i, t, v), UNCHANGED <<preVoteActive, preVotes, voteGranted>>
    PROVE  VoteTypeOK'
<1>1. SetTermAndVote(i, t, v)
  BY DEF StepDown
<1>2. role' \in [Server -> {"FOLLOWER", "CANDIDATE", "LEADER"}]
  BY DEF StepDown, VoteTypeOK
<1>3. currentLeader' \in [Server -> Server \union {BAD_NODE}]
  BY DEF StepDown, VoteTypeOK
<1> QED BY <1>1, <1>2, <1>3, SetTermAndVoteType DEF VoteTypeOK

LEMMA BecomeFollowerType ==
    ASSUME VoteTypeOK, NEW i \in Server, NEW t \in Nat,
           NEW leader \in Server \union {BAD_NODE}, BecomeFollower(i, t, leader)
    PROVE  VoteTypeOK'
<1>1. SetTermAndVote(i, t, VoteIn(i, t)) /\ VoteIn(i, t) \in Candidate
  BY VoteInType DEF BecomeFollower
<1>2. role' \in [Server -> {"FOLLOWER", "CANDIDATE", "LEADER"}]
  BY DEF BecomeFollower, VoteTypeOK
<1>3. currentLeader' \in [Server -> Server \union {BAD_NODE}]
  BY DEF BecomeFollower, VoteTypeOK
<1>4. preVoteActive' \in [Server -> BOOLEAN]
  BY DEF BecomeFollower, VoteTypeOK
<1>5. UNCHANGED <<preVotes, voteGranted>>
  BY DEF BecomeFollower
<1> QED BY <1>1, <1>2, <1>3, <1>4, <1>5, SetTermAndVoteType DEF VoteTypeOK

-----------------------------------------------------------------------------
(* Commit and apply.                                                       *)

LEMMA ApplyCommittedType ==
    ASSUME LogTypeOK, NEW i \in Server, NEW L \in Log, NEW c \in Nat,
           NEW la \in Nat, NEW h \in Seq(Entry), NEW sn \in Snapshot,
           ApplyCommitted(i, L, c, la, h, sn), torn' \in [Server -> BOOLEAN]
    PROVE  LogTypeOK'
<1> DEFINE la2 == Max({la, c})
           h2  == h \o EntriesBetween(L, la, c)
           sn2 == [len |-> SnapshotChunks, buf |-> [k \in Chunk |-> h2]]
           L2  == CompactTo(L, la2, TermAt(L, la2))
<1>1. la2 \in Nat
  BY MaxPair
<1>2. h2 \in Seq(Entry)
  BY EntriesBetweenType, ConcatProperties DEF Log
<1>3. sn2 \in Snapshot
  BY <1>2, ConfigAssumption DEF Snapshot
<1>4. ApplyCommitted(i, L, c, la, h, sn) <=>
        /\ commitIndex' = [commitIndex EXCEPT ![i] = c]
        /\ lastApplied' = [lastApplied EXCEPT ![i] = la2]
        /\ applied' = [applied EXCEPT ![i] = h2]
        /\ log' = [log EXCEPT ![i] = IF Compacts(L, la2) THEN L2 ELSE L]
        /\ snap' = [snap EXCEPT ![i] = IF Compacts(L, la2) THEN sn2 ELSE sn]
  BY Zenon DEF ApplyCommitted
<1>5. Compacts(L, la2) => L2 \in Log
  <2> HAVE Compacts(L, la2)
  <2> HIDE DEF la2
  <2>1. TermAt(L, la2) \in Nat
    BY <1>1, TermAtType, EntryTerm DEF Compacts, Log
  <2>2. la2 >= L.base
    BY <1>1, ConfigAssumption DEF Compacts, Log, LogOf
  <2> QED BY <1>1, <2>1, <2>2, CompactToType DEF Log
<1> HIDE DEF la2, h2, sn2, L2
<1>6. log' \in [Server -> Log]
  <2>1. log' = [log EXCEPT ![i] = IF Compacts(L, la2) THEN L2 ELSE L]
    BY <1>4, Zenon
  <2>2. (IF Compacts(L, la2) THEN L2 ELSE L) \in Log
    BY <1>5, Zenon
  <2>3. log \in [Server -> Log]
    BY DEF LogTypeOK
  <2> QED BY <2>1, <2>2, <2>3
<1>7. snap' \in [Server -> Snapshot]
  <2>1. snap' = [snap EXCEPT ![i] = IF Compacts(L, la2) THEN sn2 ELSE sn]
    BY <1>4, Zenon
  <2>2. (IF Compacts(L, la2) THEN sn2 ELSE sn) \in Snapshot
    BY <1>3, Zenon
  <2>3. snap \in [Server -> Snapshot]
    BY DEF LogTypeOK
  <2> QED BY <2>1, <2>2, <2>3
<1>8. commitIndex' \in [Server -> Nat]
  BY DEF ApplyCommitted, LogTypeOK
<1>9. lastApplied' \in [Server -> Nat]
  <2>1. lastApplied' = [lastApplied EXCEPT ![i] = la2]
    BY <1>4, Zenon
  <2> QED BY <1>1, <2>1 DEF LogTypeOK
<1>10. applied' \in [Server -> Seq(Entry)]
  <2>1. applied' = [applied EXCEPT ![i] = h2]
    BY <1>4, Zenon
  <2> QED BY <1>2, <2>1 DEF LogTypeOK
<1> QED BY <1>6, <1>7, <1>8, <1>9, <1>10 DEF LogTypeOK

LEMMA CommitType ==
    ASSUME LogTypeOK, NEW i \in Server, NEW L \in Log, NEW c \in Nat,
           Commit(i, L, c)
    PROVE  LogTypeOK'
<1>1. /\ lastApplied[i] \in Nat
      /\ applied[i] \in Seq(Entry)
      /\ snap[i] \in Snapshot
  BY DEF LogTypeOK
<1>2. ApplyCommitted(i, L, c, lastApplied[i], applied[i], snap[i])
      /\ torn' \in [Server -> BOOLEAN]
  BY DEF Commit, LogTypeOK
<1> QED BY <1>1, <1>2, ApplyCommittedType

\* leader_advance_commit() yields an index, and not one below the old one.
LEMMA CommitTargetType ==
    ASSUME LogTypeOK, NEW i \in Server, NEW mt
    PROVE  CommitTarget(i, mt) \in Nat /\ CommitTarget(i, mt) >= commitIndex[i]
<1> DEFINE N == {n \in commitIndex[i] + 1 .. LastIndex(log[i]) :
            /\ TermAt(log[i], n) = currentTerm[i]
            /\ Cardinality({j \in Server : j = i \/ mt[j] >= n}) >= Majority}
<1>1. commitIndex[i] \in Nat /\ LastIndex(log[i]) \in Nat
  BY LastIndexType DEF LogTypeOK, Log
<1>2. CommitTarget(i, mt) = IF N = {} THEN commitIndex[i] ELSE Max(N)
  BY Zenon DEF CommitTarget
<1>3. /\ N \in SUBSET Nat
      /\ \A n \in N : n <= LastIndex(log[i]) /\ n > commitIndex[i]
  BY <1>1
<1> HIDE DEF N
<1>4. CASE N = {}
  BY <1>1, <1>2, <1>4
<1>5. CASE N # {}
  <2>1. Max(N) \in N
    BY <1>1, <1>3, <1>5, MaxOfNaturals
  <2>2. CommitTarget(i, mt) = Max(N)
    BY <1>2, <1>5, Zenon
  <2>3. Max(N) \in Nat /\ Max(N) > commitIndex[i]
    BY <1>3, <2>1, Zenon
  <2> QED BY <1>1, <2>2, <2>3
<1> QED BY <1>4, <1>5

-----------------------------------------------------------------------------
(* Type correctness: one lemma per action.                                 *)

\* What an action leaves alone stays typed.
LEMMA UnchangedType ==
    /\ VoteTypeOK /\ UNCHANGED voteVars => VoteTypeOK'
    /\ LogTypeOK /\ UNCHANGED logVars => LogTypeOK'
    /\ PeerTypeOK /\ UNCHANGED peerVars => PeerTypeOK'
    /\ HistoryTypeOK /\ UNCHANGED <<history, spent>> => HistoryTypeOK'
<1>1. VoteTypeOK /\ UNCHANGED voteVars => VoteTypeOK'
  BY DEF VoteTypeOK, voteVars
<1>2. LogTypeOK /\ UNCHANGED logVars => LogTypeOK'
  BY DEF LogTypeOK, logVars
<1>3. PeerTypeOK /\ UNCHANGED peerVars => PeerTypeOK'
  BY DEF PeerTypeOK, peerVars
<1>4. HistoryTypeOK /\ UNCHANGED <<history, spent>> => HistoryTypeOK'
  BY DEF HistoryTypeOK, history
<1> QED BY <1>1, <1>2, <1>3, <1>4

\* apply_committed at the end of a handler that commits nothing new.
LEMMA CommitSameType ==
    ASSUME LogTypeOK, NEW i \in Server, Commit(i, log[i], commitIndex[i])
    PROVE  LogTypeOK'
<1>1. log[i] \in Log /\ commitIndex[i] \in Nat
  BY DEF LogTypeOK
<1> QED BY <1>1, CommitType

LEMMA InitType == Init => TypeOK
<1> HAVE Init
<1>1. VoteTypeOK
  BY DEF Init, VoteTypeOK, Candidate
<1>2. LogTypeOK
  <2>1. <<>> \in Seq(Entry)
    OBVIOUS
  <2>2. EmptyLog \in Log
    BY <2>1 DEF EmptyLog, Log, LogOf
  <2>3. NoSnapshot \in Snapshot
    BY <2>1, ConfigAssumption DEF NoSnapshot, Snapshot
  <2> QED BY <2>1, <2>2, <2>3 DEF Init, LogTypeOK
<1>3. PeerTypeOK
  BY ConfigAssumption DEF Init, PeerTypeOK, EveryPeer
<1>4. HistoryTypeOK
  BY DEF Init, HistoryTypeOK
<1>5. messages \subseteq Message
  BY DEF Init
<1> QED BY <1>1, <1>2, <1>3, <1>4, <1>5 DEF TypeOK

LEMMA RestartType ==
    ASSUME TypeOK, NEW i \in Server, Restart(i)
    PROVE  TypeOK'
<1>1. VoteTypeOK'
  <2>1. Restored(i).term \in Nat /\ Restored(i).votedFor \in Candidate
    BY DEF TypeOK, VoteTypeOK, Restored
  <2> QED BY <2>1 DEF Restart, TypeOK, VoteTypeOK
<1>2. LogTypeOK'
  <2>1. <<>> \in Seq(Entry)
    OBVIOUS
  <2>2. EmptyLog \in Log
    BY <2>1 DEF EmptyLog, Log, LogOf
  <2>3. NoSnapshot \in Snapshot
    BY <2>1, ConfigAssumption DEF NoSnapshot, Snapshot
  <2> QED BY <2>1, <2>2, <2>3 DEF Restart, TypeOK, LogTypeOK
<1>3. PeerTypeOK'
  BY ConfigAssumption DEF Restart, TypeOK, PeerTypeOK, EveryPeer
<1>4. HistoryTypeOK'
  <2>1. UNCHANGED <<ballots, elected, acks>>
    BY DEF Restart, history
  <2>2. spent' \in [timeouts : Nat, heartbeats : Nat, restarts : Nat]
    BY DEF Restart, TypeOK, HistoryTypeOK
  <2> QED BY <2>1, <2>2 DEF TypeOK, HistoryTypeOK
<1>5. messages' \subseteq Message
  BY DEF Restart, TypeOK
<1> QED BY <1>1, <1>2, <1>3, <1>4, <1>5 DEF TypeOK

LEMMA LeaderLosesContactType ==
    ASSUME TypeOK, NEW i \in Server, LeaderLosesContact(i)
    PROVE  TypeOK'
<1>1. currentTerm[i] \in Nat
  BY DEF TypeOK, VoteTypeOK
<1>2. VoteTypeOK'
  BY <1>1, BecomeFollowerType DEF LeaderLosesContact, TypeOK
<1> QED BY <1>2, UnchangedType DEF LeaderLosesContact, TypeOK

LEMMA HeartbeatType ==
    ASSUME TypeOK, NEW i \in Server, Heartbeat(i)
    PROVE  TypeOK'
<1>1. LogTypeOK'
  BY CommitSameType DEF Heartbeat, TypeOK
<1>2. HistoryTypeOK'
  BY DEF Heartbeat, TypeOK, HistoryTypeOK, history
<1>3. messages' \subseteq Message
  <2>1. log[i] \in Log
    BY DEF TypeOK, LogTypeOK
  <2> QED BY <2>1, AppendEntriesToPeersType, SendType DEF Heartbeat, TypeOK
<1> QED BY <1>1, <1>2, <1>3, UnchangedType DEF Heartbeat, TypeOK

LEMMA ElectionTimeoutType ==
    ASSUME TypeOK, NEW i \in Server, ElectionTimeout(i)
    PROVE  TypeOK'
<1>1. VoteTypeOK'
  BY DEF ElectionTimeout, TypeOK, VoteTypeOK
<1>2. LogTypeOK'
  BY CommitSameType DEF ElectionTimeout, TypeOK
<1>3. PeerTypeOK'
  BY UnchangedType DEF ElectionTimeout, TypeOK
<1>4. HistoryTypeOK'
  BY DEF ElectionTimeout, TypeOK, HistoryTypeOK, history
<1>5. messages' \subseteq Message
  <2>1. currentTerm[i] + 1 \in Nat
    BY DEF TypeOK, VoteTypeOK
  <2>2. RequestVoteFrom(i, currentTerm[i] + 1, TRUE) \subseteq Message
    BY <2>1, RequestVoteFromType
  <2> QED BY <2>2, SendType DEF ElectionTimeout, TypeOK
<1> QED BY <1>1, <1>2, <1>3, <1>4, <1>5 DEF TypeOK

LEMMA TickType ==
    ASSUME TypeOK, NEW i \in Server, Tick(i)
    PROVE  TypeOK'
<1>1. LogTypeOK'
  BY CommitSameType DEF Tick, TypeOK
<1> QED BY <1>1, UnchangedType DEF Tick, TypeOK

LEMMA SubmitType ==
    ASSUME TypeOK, NEW i \in Server, NEW v \in Value, Submit(i, v)
    PROVE  TypeOK'
<1> DEFINE entry == [index |-> LastIndex(log[i]) + 1, term |-> currentTerm[i],
                     value |-> v]
<1>1. log[i] \in Log /\ LastIndex(log[i]) + 1 \in Nat /\ currentTerm[i] \in Nat
  BY LastIndexType DEF TypeOK, LogTypeOK, VoteTypeOK, Log
<1>2. entry \in Entry
  BY <1>1 DEF Entry
<1>3. log' = [log EXCEPT ![i] = Push(log[i], entry)]
  BY Zenon DEF Submit
<1>4. matchIndex' = [matchIndex EXCEPT ![i][i] = LastIndex(log[i]) + 1]
  BY DEF Submit
<1> HIDE DEF entry
<1>5. Push(log[i], entry) \in Log
  BY <1>1, <1>2, PushType DEF Log
<1>6. LogTypeOK'
  BY <1>3, <1>5 DEF Submit, TypeOK, LogTypeOK
<1>7. PeerTypeOK'
  BY <1>1, <1>4 DEF Submit, TypeOK, PeerTypeOK
<1>8. messages' \subseteq Message
  <2>1. log'[i] \in Log
    BY <1>6 DEF LogTypeOK
  <2>2. AppendEntriesToPeers(i, log'[i]) \subseteq Message
    BY <2>1, AppendEntriesToPeersType
  <2>3. Send(AppendEntriesToPeers(i, log'[i]))
    BY Zenon DEF Submit
  <2> QED BY <2>2, <2>3, SendType DEF TypeOK
<1>9. UNCHANGED voteVars /\ UNCHANGED <<history, spent>>
  BY DEF Submit
<1> QED BY <1>6, <1>7, <1>8, <1>9, UnchangedType DEF TypeOK

\* The handlers that answer and change nothing else.
LEMMA AnswerOnlyType ==
    ASSUME TypeOK, NEW m \in messages,
           \/ HandlePreVote(m)
           \/ RejectDisruptiveCandidate(m)
           \/ RejectStaleAppendEntries(m)
           \/ RejectStaleInstallSnapshot(m)
    PROVE  TypeOK'
<1>1. m \in Message /\ m.to \in Server
  BY MessageFields DEF TypeOK
<1>2. currentTerm[m.to] \in Nat /\ log[m.to] \in Log
  BY <1>1 DEF TypeOK, VoteTypeOK, LogTypeOK
<1>3. UNCHANGED <<voteVars, logVars, peerVars, history, spent>>
  BY DEF HandlePreVote, RejectDisruptiveCandidate, RejectStaleAppendEntries,
         RejectStaleInstallSnapshot
<1>4. messages' \subseteq Message
  <2>1. CASE HandlePreVote(m)
    <3>1. PICK live \in BOOLEAN :
            LET grant == /\ ~live
                         /\ m.term >= currentTerm[m.to]
                         /\ UpToDate(m.lastIndex, m.lastTerm, log[m.to])
            IN  Send(VoteReply(m, grant, TRUE, currentTerm[m.to]))
      BY <2>1, Zenon DEF HandlePreVote
    <3> DEFINE grant == /\ ~live
                        /\ m.term >= currentTerm[m.to]
                        /\ UpToDate(m.lastIndex, m.lastTerm, log[m.to])
    <3>2. Send(VoteReply(m, grant, TRUE, currentTerm[m.to])) /\ grant \in BOOLEAN
      BY <3>1
    <3> HIDE DEF grant
    <3>3. VoteReply(m, grant, TRUE, currentTerm[m.to]) \subseteq Message
      BY <1>1, <1>2, <3>2, VoteReplyType
    <3> QED BY <3>2, <3>3, SendType DEF TypeOK
  <2>2. CASE RejectDisruptiveCandidate(m)
    <3>1. VoteReply(m, FALSE, FALSE, currentTerm[m.to]) \subseteq Message
      BY <1>1, <1>2, VoteReplyType
    <3> QED BY <2>2, <3>1, SendType DEF RejectDisruptiveCandidate, TypeOK
  <2>3. CASE RejectStaleAppendEntries(m)
    <3>1. AppendReply(m, currentTerm[m.to], FALSE, 0, 0, log[m.to]) \subseteq Message
      BY <1>1, <1>2, AppendReplyType
    <3> QED BY <2>3, <3>1, SendType DEF RejectStaleAppendEntries, TypeOK
  <2>4. CASE RejectStaleInstallSnapshot(m)
    <3>1. SnapshotReply(m, currentTerm[m.to], log[m.to]) \subseteq Message
      BY <1>1, <1>2, SnapshotReplyType
    <3> QED BY <2>4, <3>1, SendType DEF RejectStaleInstallSnapshot, TypeOK
  <2> QED BY <2>1, <2>2, <2>3, <2>4
<1> QED BY <1>3, <1>4, UnchangedType DEF TypeOK

LEMMA HandleRequestVoteType ==
    ASSUME TypeOK, NEW m \in messages, HandleRequestVote(m)
    PROVE  TypeOK'
<1> DEFINE i     == m.to
           t     == Max({m.term, currentTerm[i]})
           grant == /\ m.term = t
                    /\ VoteIn(i, t) \in {BAD_NODE, m.from}
                    /\ UpToDate(m.lastIndex, m.lastTerm, log[i])
           vote  == IF grant THEN m.from ELSE VoteIn(i, t)
<1>1. m \in Message /\ m.to \in Server /\ m.from \in Server /\ m.term \in Nat
  BY MessageFields DEF TypeOK
<1>2. t \in Nat
  <2>1. m.term \in Int /\ currentTerm[i] \in Int
        /\ m.term \in Nat /\ currentTerm[i] \in Nat
    BY <1>1 DEF TypeOK, VoteTypeOK
  <2>2. t = IF m.term >= currentTerm[i] THEN m.term ELSE currentTerm[i]
    BY <2>1, MaxPair, Zenon
  <2> QED BY <2>1, <2>2, Zenon
<1>3. vote \in Candidate
  BY <1>1, <1>2, VoteInType DEF Candidate, TypeOK
<1>4. grant \in BOOLEAN
  OBVIOUS
<1>5. /\ \/ StepDown(i, t, vote)
         \/ SetTermAndVote(i, t, vote) /\ UNCHANGED <<role, currentLeader>>
      /\ Send(VoteReply(m, grant, FALSE, t))
      /\ ballots' = ballots \union {b \in {Ballot(i, t, m.from)} : grant}
      /\ UNCHANGED <<preVoteActive, preVotes, voteGranted>>
      /\ UNCHANGED logVars
      /\ UNCHANGED peerVars
      /\ UNCHANGED <<elected, acks, spent>>
  BY Zenon DEF HandleRequestVote
<1> HIDE DEF t, grant, vote
<1>6. VoteTypeOK'
  <2>1. CASE StepDown(i, t, vote)
    BY <1>1, <1>2, <1>3, <1>5, <2>1, StepDownType DEF TypeOK
  <2>2. CASE SetTermAndVote(i, t, vote) /\ UNCHANGED <<role, currentLeader>>
    BY <1>1, <1>2, <1>3, <1>5, <2>2, SetTermAndVoteType DEF TypeOK, VoteTypeOK
  <2> QED BY <1>5, <2>1, <2>2
<1>7. HistoryTypeOK'
  BY <1>1, <1>2, <1>5 DEF TypeOK, HistoryTypeOK, Ballot
<1>8. messages' \subseteq Message
  <2>1. VoteReply(m, grant, FALSE, t) \subseteq Message
    BY <1>1, <1>2, <1>4, VoteReplyType
  <2> QED BY <1>5, <2>1, SendType DEF TypeOK
<1> QED BY <1>5, <1>6, <1>7, <1>8, UnchangedType DEF TypeOK

LEMMA HandlePreVoteGrantedType ==
    ASSUME TypeOK, NEW m \in messages, HandlePreVoteGranted(m)
    PROVE  TypeOK'
<1> DEFINE i == m.to
<1>1. i \in Server /\ currentTerm[i] + 1 \in Nat
  BY MessageFields DEF TypeOK, VoteTypeOK
<1>2. preVotes' \in [Server -> Nat]
  BY <1>1 DEF HandlePreVoteGranted, TypeOK, VoteTypeOK
<1>3. CASE BecomeCandidate(i)
  <2>1. VoteTypeOK'
    <3>1. i \in Candidate /\ SetTermAndVote(i, currentTerm[i] + 1, i)
      BY <1>1, <1>3 DEF BecomeCandidate, Candidate
    <3>2. /\ role' \in [Server -> {"FOLLOWER", "CANDIDATE", "LEADER"}]
          /\ currentLeader' \in [Server -> Server \union {BAD_NODE}]
          /\ preVoteActive' \in [Server -> BOOLEAN]
          /\ voteGranted' \in [Server -> SUBSET Server]
      BY <1>1, <1>3 DEF BecomeCandidate, TypeOK, VoteTypeOK
    <3> QED BY <1>1, <1>2, <3>1, <3>2, SetTermAndVoteType DEF TypeOK, VoteTypeOK
  <2>2. HistoryTypeOK'
    BY <1>1, <1>3
       DEF BecomeCandidate, HandlePreVoteGranted, TypeOK, HistoryTypeOK, Ballot
  <2>3. messages' \subseteq Message
    <3>1. RequestVoteFrom(i, currentTerm[i] + 1, FALSE) \subseteq Message
      BY <1>1, RequestVoteFromType
    <3> QED BY <1>3, <3>1, SendType DEF BecomeCandidate, TypeOK
  <2> QED BY <2>1, <2>2, <2>3, UnchangedType DEF HandlePreVoteGranted, TypeOK
<1>4. CASE UNCHANGED <<currentTerm, votedFor, persisted, role, currentLeader,
                       preVoteActive, voteGranted, messages, ballots>>
  <2>1. VoteTypeOK'
    BY <1>2, <1>4 DEF TypeOK, VoteTypeOK
  <2>2. UNCHANGED <<history, spent>> /\ UNCHANGED logVars /\ UNCHANGED peerVars
    BY <1>4 DEF HandlePreVoteGranted, history
  <2> QED BY <1>4, <2>1, <2>2, UnchangedType DEF TypeOK
<1> QED BY <1>3, <1>4 DEF HandlePreVoteGranted

LEMMA BecomeLeaderType ==
    ASSUME TypeOK, NEW i \in Server, BecomeLeader(i)
    PROVE  /\ role' \in [Server -> {"FOLLOWER", "CANDIDATE", "LEADER"}]
           /\ currentLeader' \in [Server -> Server \union {BAD_NODE}]
           /\ preVoteActive' \in [Server -> BOOLEAN]
           /\ LogTypeOK'
           /\ PeerTypeOK'
           /\ elected' \subseteq [term : Nat, leader : Server]
<1> DEFINE last == LastIndex(log[i])
           noop == [index |-> last + 1, term |-> currentTerm[i], value |-> NOOP]
<1>1. log[i] \in Log /\ last \in Nat /\ currentTerm[i] \in Nat
  BY LastIndexType DEF TypeOK, LogTypeOK, VoteTypeOK, Log
<1>2. noop \in Entry
  BY <1>1 DEF Entry
<1>3. /\ log' = [log EXCEPT ![i] = Push(log[i], noop)]
      /\ nextIndex' = [nextIndex EXCEPT ![i] = [j \in Server |-> last + 1]]
      /\ matchIndex' = [matchIndex EXCEPT ![i] =
               [j \in Server |-> IF j = i THEN LastIndex(log'[i]) ELSE 0]]
      /\ elected' = elected \union {[term |-> currentTerm[i], leader |-> i]}
      /\ UNCHANGED <<commitIndex, lastApplied, applied, snap, torn, snapOffset>>
  BY Zenon DEF BecomeLeader, EveryPeer
<1> HIDE DEF noop, last
<1>4. Push(log[i], noop) \in Log
  BY <1>1, <1>2, PushType DEF Log
<1>5. LogTypeOK'
  BY <1>3, <1>4 DEF TypeOK, LogTypeOK
<1>6. PeerTypeOK'
  <2>1. LastIndex(log'[i]) \in Nat
    BY <1>5, LastIndexType DEF LogTypeOK, Log
  <2>2. last + 1 \in Nat \ {0}
    BY <1>1
  <2> QED BY <1>3, <2>1, <2>2 DEF TypeOK, PeerTypeOK
<1>7. elected' \subseteq [term : Nat, leader : Server]
  BY <1>1, <1>3 DEF TypeOK, HistoryTypeOK
<1>8. /\ role' \in [Server -> {"FOLLOWER", "CANDIDATE", "LEADER"}]
      /\ currentLeader' \in [Server -> Server \union {BAD_NODE}]
      /\ preVoteActive' \in [Server -> BOOLEAN]
  BY DEF BecomeLeader, TypeOK, VoteTypeOK
<1> QED BY <1>5, <1>6, <1>7, <1>8

LEMMA HandleVoteGrantedType ==
    ASSUME TypeOK, NEW m \in messages, HandleVoteGranted(m)
    PROVE  TypeOK'
<1> DEFINE i == m.to
<1>1. i \in Server /\ m.from \in Server
  BY MessageFields DEF TypeOK
<1>2. voteGranted' \in [Server -> SUBSET Server]
  BY <1>1 DEF HandleVoteGranted, TypeOK, VoteTypeOK
<1>3. UNCHANGED <<currentTerm, votedFor, persisted, preVotes, messages, ballots,
                  acks, spent>>
  BY DEF HandleVoteGranted
<1>4. CASE BecomeLeader(i)
  BY <1>1, <1>2, <1>3, <1>4, BecomeLeaderType DEF TypeOK, VoteTypeOK, HistoryTypeOK
<1>5. CASE UNCHANGED <<role, currentLeader, preVoteActive, logVars, peerVars,
                       elected>>
  <2>1. VoteTypeOK'
    BY <1>2, <1>3, <1>5 DEF TypeOK, VoteTypeOK
  <2> QED BY <1>3, <1>5, <2>1, UnchangedType DEF TypeOK, history
<1> QED BY <1>4, <1>5 DEF HandleVoteGranted

LEMMA HandleHigherTermRespType ==
    ASSUME TypeOK, NEW m \in messages, HandleHigherTermResp(m)
    PROVE  TypeOK'
<1>1. m.to \in Server /\ m.term \in Nat /\ BAD_NODE \in Candidate
  BY MessageFields DEF TypeOK, Candidate
<1>2. VoteTypeOK'
  BY <1>1, StepDownType DEF HandleHigherTermResp, TypeOK
<1> QED BY <1>2, UnchangedType DEF HandleHigherTermResp, TypeOK

\* The conflict hint of a follower is an index of its log.
LEMMA FirstOfTermType ==
    ASSUME NEW L \in Log, NEW p \in Nat
    PROVE  FirstOfTerm(L, p) \in Nat
<1> DEFINE S == {p} \union {k \in L.base + 1 .. p :
                               \A x \in k .. p : TermAt(L, x) = TermAt(L, p)}
<1>1. L.base \in Nat
  BY DEF Log, LogOf
<1>2. S \in SUBSET Nat /\ S # {}
  BY <1>1
<1>3. FirstOfTerm(L, p) = Min(S)
  BY Zenon DEF FirstOfTerm
<1> HIDE DEF S
<1>4. Min(S) \in S
  BY <1>2, MinOfNaturals
<1> QED BY <1>2, <1>3, <1>4

LEMMA RejectAppendEntriesType ==
    ASSUME TypeOK, NEW m \in messages, RejectAppendEntries(m)
    PROVE  TypeOK'
<1> DEFINE L  == log[m.to]
           missing == m.prevIndex > LastIndex(L)
           ci == IF missing THEN LastIndex(L) + 1 ELSE FirstOfTerm(L, m.prevIndex)
           ct == IF missing THEN 0 ELSE TermAt(L, m.prevIndex)
<1>1. /\ m \in Message /\ m.to \in Server /\ m.from \in Server /\ m.term \in Nat
      /\ m.prevIndex \in Nat /\ m.prevTerm \in Nat
  BY MessageFields DEF TypeOK, RejectAppendEntries
<1>2. L \in Log /\ LastIndex(L) \in Nat
  BY <1>1, LastIndexType DEF TypeOK, LogTypeOK, Log
<1>3. ci \in Nat
  BY <1>1, <1>2, FirstOfTermType
<1>4. VoteTypeOK'
  BY <1>1, BecomeFollowerType DEF RejectAppendEntries, TypeOK
<1>5. Send(AppendReply(m, m.term, FALSE, ci, ct, L))
      /\ UNCHANGED <<logVars, peerVars, history, spent>> /\ ~PrevMatches(m, L)
  BY Zenon DEF RejectAppendEntries
<1>6. ct \in Nat
  <2>1. CASE missing
    BY <2>1
  <2>2. CASE ~missing
    <3>1. m.prevIndex <= LastIndex(L) /\ m.prevIndex >= L.base
      BY <1>1, <1>2, <1>5, <2>2 DEF PrevMatches, Log, LogOf
    <3>2. TermAt(L, m.prevIndex) # NoTerm
      <4>1. L.term \in Nat /\ L.base \in Nat
        BY <1>2 DEF Log, LogOf
      <4>2. CASE m.prevIndex = 0 \/ m.prevIndex = L.base
        BY <4>1, <4>2 DEF TermAt, NoTerm
      <4>3. CASE m.prevIndex # 0 /\ m.prevIndex # L.base
        <5>1. Live(L, m.prevIndex)
          BY <1>1, <3>1, <4>1, <4>3 DEF Live
        <5>2. EntryAt(L, m.prevIndex) \in Entry
          BY <1>1, <1>2, <3>1, <4>1, <4>3 DEF Log, LogOf, EntryAt, LastIndex
        <5>3. TermAt(L, m.prevIndex) = EntryAt(L, m.prevIndex).term
          BY <4>3, <5>1 DEF TermAt
        <5> QED BY <5>2, <5>3, EntryTerm DEF NoTerm
      <4> QED BY <4>2, <4>3
    <3> QED BY <1>1, <1>2, <2>2, <3>2, TermAtType, EntryTerm DEF Log
  <2> QED BY <2>1, <2>2
<1> HIDE DEF ci, ct, missing
<1>7. AppendReply(m, m.term, FALSE, ci, ct, L) \subseteq Message
  BY <1>1, <1>2, <1>3, <1>6, AppendReplyType
<1>8. messages' \subseteq Message
  BY <1>5, <1>7, SendType DEF TypeOK
<1> QED BY <1>4, <1>5, <1>8, UnchangedType DEF TypeOK

LEMMA AcceptAppendEntriesType ==
    ASSUME TypeOK, NEW m \in messages, AcceptAppendEntries(m)
    PROVE  TypeOK'
<1> DEFINE i    == m.to
           L    == AppendFrom(log[i], m.prevIndex, m.entries)
           last == m.prevIndex + Len(m.entries)
           low  == Min({m.commit, last})
           c    == Max({commitIndex[i], low})
<1>1. /\ m \in Message /\ i \in Server /\ m.from \in Server /\ m.term \in Nat
      /\ m.prevIndex \in Nat /\ m.commit \in Nat /\ m.entries \in Seq(Entry)
  BY MessageFields DEF TypeOK, AcceptAppendEntries
<1>2. log[i] \in Log /\ commitIndex[i] \in Nat
  BY <1>1 DEF TypeOK, LogTypeOK
<1>3. /\ PrevMatches(m, log[i])
      /\ BecomeFollower(i, m.term, m.from)
      /\ Send(AppendReply(m, m.term, TRUE, 0, 0, L))
      /\ Commit(i, L, c)
      /\ acks' = acks \union {[node |-> i, term |-> m.term, index |-> LastIndex(L)]}
      /\ UNCHANGED <<peerVars, ballots, elected, spent>>
  BY Zenon DEF AcceptAppendEntries
<1>4. L \in Log
  <2>1. m.prevIndex <= LastIndex(log[i])
    BY <1>3 DEF PrevMatches
  <2> QED BY <1>1, <1>2, <2>1, AppendFromType, EntryTerm DEF Log
<1>5. c \in Nat
  <2>1. last \in Nat
    BY <1>1
  <2> HIDE DEF last
  <2>2. low \in Nat
    BY <1>1, <2>1, MinPair
  <2> HIDE DEF low
  <2> QED BY <1>2, <2>2, MaxPair
<1> HIDE DEF L, c
<1>6. VoteTypeOK'
  BY <1>1, <1>3, BecomeFollowerType DEF TypeOK
<1>7. LogTypeOK'
  BY <1>1, <1>3, <1>4, <1>5, CommitType DEF TypeOK
<1>8. messages' \subseteq Message
  <2>1. AppendReply(m, m.term, TRUE, 0, 0, L) \subseteq Message
    BY <1>1, <1>4, AppendReplyType
  <2> QED BY <1>3, <2>1, SendType DEF TypeOK
<1>9. HistoryTypeOK'
  <2>1. LastIndex(L) \in Nat
    BY <1>4, LastIndexType DEF Log
  <2>2. [node |-> i, term |-> m.term, index |-> LastIndex(L)]
            \in [node : Server, term : Nat, index : Nat]
    BY <1>1, <2>1
  <2> QED BY <1>3, <2>2 DEF TypeOK, HistoryTypeOK
<1> QED BY <1>3, <1>6, <1>7, <1>8, <1>9, UnchangedType DEF TypeOK

LEMMA HandleAppendEntriesAcceptedType ==
    ASSUME TypeOK, NEW m \in messages, HandleAppendEntriesAccepted(m)
    PROVE  TypeOK'
<1> DEFINE i  == m.to
           j  == m.from
           nx == Max({m.lastIndex + 1, nextIndex[i][j]})
           mi == Max({m.lastIndex, matchIndex[i][j]})
           mt == [matchIndex[i] EXCEPT ![j] = mi]
           c  == CommitTarget(i, mt)
           ms == IF nx <= LastIndex(log'[i])
                 THEN AppendEntriesTo(i, j, nx, log'[i], c, snap'[i],
                                      snapOffset[i][j])
                 ELSE {}
<1>1. i \in Server /\ j \in Server /\ m.lastIndex \in Nat
  BY MessageFields DEF TypeOK, HandleAppendEntriesAccepted
<1>2. /\ log[i] \in Log
      /\ nextIndex[i][j] \in Nat \ {0}
      /\ matchIndex[i] \in [Server -> Nat] /\ matchIndex[i][j] \in Nat
      /\ snapOffset[i][j] \in 0 .. SnapshotChunks
  BY <1>1 DEF TypeOK, LogTypeOK, PeerTypeOK
<1>3. /\ nextIndex' = [nextIndex EXCEPT ![i][j] = nx]
      /\ matchIndex' = [matchIndex EXCEPT ![i] = mt]
      /\ Commit(i, log[i], c)
      /\ Send(ms)
      /\ UNCHANGED voteVars /\ UNCHANGED snapOffset /\ UNCHANGED <<history, spent>>
  BY Zenon DEF HandleAppendEntriesAccepted
<1>4. nx \in Nat \ {0}
  <2>1. m.lastIndex + 1 \in Nat \ {0}
    BY <1>1
  <2> QED BY <1>2, <2>1, MaxPair
<1>5. mi \in Nat
  BY <1>1, <1>2, MaxPair
<1>6. c \in Nat
  BY <1>1, CommitTargetType DEF TypeOK
<1> HIDE DEF nx, mi, c
<1>7. mt \in [Server -> Nat]
  BY <1>2, <1>5
<1> HIDE DEF mt
<1>8. LogTypeOK'
  BY <1>1, <1>2, <1>3, <1>6, CommitType DEF TypeOK
<1>9. PeerTypeOK'
  BY <1>3, <1>4, <1>7 DEF TypeOK, PeerTypeOK
<1>10. messages' \subseteq Message
  <2>1. log'[i] \in Log /\ snap'[i] \in Snapshot
    BY <1>1, <1>8 DEF LogTypeOK
  <2>2. ms \subseteq Message
    BY <1>1, <1>2, <1>4, <1>6, <2>1, AppendEntriesToType
  <2> HIDE DEF ms
  <2> QED BY <1>3, <2>2, SendType DEF TypeOK
<1> QED BY <1>3, <1>8, <1>9, <1>10, UnchangedType DEF TypeOK

\* Wherever the leader retries, it is at index 1 or above.
LEMMA BackUpType ==
    ASSUME TypeOK, NEW m \in Message, m.type = "AppendEntriesResp"
    PROVE  BackUp(m.to, m) \in Nat \ {0}
<1> DEFINE i      == m.to
           ofTerm == {k \in log[i].base + 1 .. LastIndex(log[i]) :
                         TermAt(log[i], k) = m.conflictTerm}
           back   == Max({nextIndex[i][m.from] - 1, 1})
<1>1. i \in Server /\ m.from \in Server /\ m.conflictIndex \in Nat
  BY MessageFields
<1>2. /\ log[i].base \in Nat /\ LastIndex(log[i]) \in Nat
      /\ nextIndex[i][m.from] - 1 \in Int
  <2>1. log[i] \in LogOf(Entry) /\ nextIndex[i][m.from] \in Nat \ {0}
    BY <1>1 DEF TypeOK, LogTypeOK, PeerTypeOK, Log
  <2>2. LastIndex(log[i]) \in Nat
    BY <2>1, LastIndexType
  <2> QED BY <2>1, <2>2 DEF LogOf
<1>3. BackUp(i, m) = IF m.conflictTerm # 0 /\ ofTerm # {}
                     THEN Max(ofTerm) + 1
                     ELSE IF m.conflictIndex # 0 THEN m.conflictIndex ELSE back
  BY Zenon DEF BackUp
<1>4. ofTerm \in SUBSET Nat /\ \A k \in ofTerm : k <= LastIndex(log[i])
  BY <1>2
<1> HIDE DEF ofTerm
<1>5. ofTerm # {} => Max(ofTerm) + 1 \in Nat \ {0}
  <2> HAVE ofTerm # {}
  <2>1. Max(ofTerm) \in ofTerm
    BY <1>2, <1>4, MaxOfNaturals
  <2>2. Max(ofTerm) \in Nat
    BY <1>4, <2>1, Zenon
  <2> QED BY <2>2
<1>6. back \in Nat \ {0}
  BY <1>2, MaxPair
<1> HIDE DEF back
<1> QED BY <1>1, <1>3, <1>5, <1>6

LEMMA HandleAppendEntriesRejectedType ==
    ASSUME TypeOK, NEW m \in messages, HandleAppendEntriesRejected(m)
    PROVE  TypeOK'
<1> DEFINE i  == m.to
           j  == m.from
           nx == BackUp(i, m)
           ms == AppendEntriesTo(i, j, nx, log[i], commitIndex[i], snap[i],
                                 snapOffset[i][j])
<1>1. m \in Message /\ i \in Server /\ j \in Server
  BY MessageFields DEF TypeOK
<1>2. /\ log[i] \in Log /\ commitIndex[i] \in Nat /\ snap[i] \in Snapshot
      /\ snapOffset[i][j] \in 0 .. SnapshotChunks
  BY <1>1 DEF TypeOK, LogTypeOK, PeerTypeOK
<1>3. nx \in Nat \ {0}
  BY <1>1, BackUpType DEF HandleAppendEntriesRejected
<1>4. /\ nextIndex' = [nextIndex EXCEPT ![i][j] = nx]
      /\ Send(ms)
      /\ Commit(i, log[i], commitIndex[i])
      /\ UNCHANGED voteVars /\ UNCHANGED <<matchIndex, snapOffset>>
      /\ UNCHANGED <<history, spent>>
  BY Zenon DEF HandleAppendEntriesRejected
<1> HIDE DEF nx
<1>5. LogTypeOK'
  BY <1>1, <1>4, CommitSameType DEF TypeOK
<1>6. PeerTypeOK'
  BY <1>3, <1>4 DEF TypeOK, PeerTypeOK
<1>7. messages' \subseteq Message
  <2>1. ms \subseteq Message
    BY <1>1, <1>2, <1>3, AppendEntriesToType
  <2> HIDE DEF ms
  <2> QED BY <1>4, <2>1, SendType DEF TypeOK
<1> QED BY <1>4, <1>5, <1>6, <1>7, UnchangedType DEF TypeOK

\* A chunk lands inside the snapshot buffer.
LEMMA AssembleType ==
    ASSUME NEW sn \in Snapshot, NEW m \in Message, m.type = "InstallSnapshot"
    PROVE  Assemble(sn, m) \in Snapshot
<1> DEFINE len  == IF m.offset = 0 THEN 0 ELSE sn.len
           len2 == Max({len, m.offset + 1})
           buf2 == [sn.buf EXCEPT ![m.offset + 1] = m.data]
<1>1. m.offset \in 0 .. SnapshotChunks - 1 /\ m.data \in Seq(Entry)
  BY MessageFields
<1>2. sn.len \in 0 .. SnapshotChunks /\ sn.buf \in [Chunk -> Seq(Entry)]
  BY DEF Snapshot
<1>3. len \in 0 .. SnapshotChunks /\ m.offset + 1 \in 0 .. SnapshotChunks
  BY <1>1, <1>2, ConfigAssumption
<1> HIDE DEF len
<1>4. len2 \in 0 .. SnapshotChunks
  <2>1. len \in Int /\ m.offset + 1 \in Int
    BY <1>3
  <2>2. len2 = IF len >= m.offset + 1 THEN len ELSE m.offset + 1
    BY <2>1, MaxPair, Zenon
  <2> QED BY <1>3, <2>2, Zenon
<1>5. buf2 \in [Chunk -> Seq(Entry)]
  BY <1>1, <1>2
<1>6. Assemble(sn, m) = [len |-> len2, buf |-> buf2]
  BY Zenon DEF Assemble, len
<1> HIDE DEF len2, buf2
<1> QED BY <1>4, <1>5, <1>6 DEF Snapshot

LEMMA HandleSnapshotChunkType ==
    ASSUME TypeOK, NEW m \in messages, HandleSnapshotChunk(m)
    PROVE  TypeOK'
<1> DEFINE i == m.to
<1>1. /\ m \in Message /\ i \in Server /\ m.from \in Server /\ m.term \in Nat
      /\ m.type = "InstallSnapshot"
  BY MessageFields DEF TypeOK, HandleSnapshotChunk
<1>2. log[i] \in Log /\ snap[i] \in Snapshot
  BY <1>1 DEF TypeOK, LogTypeOK
<1>3. VoteTypeOK'
  BY <1>1, BecomeFollowerType DEF HandleSnapshotChunk, TypeOK
<1>4. LogTypeOK'
  <2>1. Assemble(snap[i], m) \in Snapshot
    BY <1>1, <1>2, AssembleType
  <2>2. /\ snap' = [snap EXCEPT ![i] = Assemble(snap[i], m)]
        /\ UNCHANGED <<log, commitIndex, lastApplied, applied, torn>>
    BY Zenon DEF HandleSnapshotChunk
  <2> QED BY <2>1, <2>2 DEF TypeOK, LogTypeOK
<1>5. messages' \subseteq Message
  <2>1. SnapshotReply(m, m.term, log[i]) \subseteq Message
    BY <1>1, <1>2, SnapshotReplyType
  <2> QED BY <2>1, SendType DEF HandleSnapshotChunk, TypeOK
<1> QED BY <1>3, <1>4, <1>5, UnchangedType DEF HandleSnapshotChunk, TypeOK

LEMMA HandleSnapshotDoneType ==
    ASSUME TypeOK, NEW m \in messages, HandleSnapshotDone(m)
    PROVE  TypeOK'
<1> DEFINE i      == m.to
           sn     == Assemble(snap[i], m)
           retain == TermAt(log[i], m.lastIndex) = m.lastTerm
           L      == IF retain THEN CompactTo(log[i], m.lastIndex, m.lastTerm)
                               ELSE ResetToSnapshot(m.lastIndex, m.lastTerm)
           c      == Max({commitIndex[i], L.base})
           la     == Max({lastApplied[i], L.base})
           h      == Loaded(i, sn, m)
<1>1. /\ m \in Message /\ i \in Server /\ m.from \in Server /\ m.term \in Nat
      /\ m.type = "InstallSnapshot"
      /\ m.lastIndex \in Nat /\ m.lastTerm \in Nat /\ m.data \in Seq(Entry)
  BY MessageFields DEF TypeOK, HandleSnapshotDone
<1>2. /\ log[i] \in Log /\ snap[i] \in Snapshot
      /\ commitIndex[i] \in Nat /\ lastApplied[i] \in Nat
      /\ applied[i] \in Seq(Entry)
  BY <1>1 DEF TypeOK, LogTypeOK
<1>3. /\ retain => m.lastIndex >= log[i].base
      /\ BecomeFollower(i, m.term, m.from)
      /\ torn' = [torn EXCEPT ![i] =
                     @ \/ \E k \in 1 .. sn.len : sn.buf[k] # m.data]
      /\ ApplyCommitted(i, L, c, la, h, sn)
      /\ Send(SnapshotReply(m, m.term, L))
      /\ UNCHANGED peerVars /\ UNCHANGED <<history, spent>>
  BY Zenon DEF HandleSnapshotDone
<1>4. L \in Log
  <2>1. retain => CompactTo(log[i], m.lastIndex, m.lastTerm) \in Log
    BY <1>1, <1>2, <1>3, CompactToType DEF Log
  <2>2. ResetToSnapshot(m.lastIndex, m.lastTerm) \in Log
    BY <1>1 DEF ResetToSnapshot, Log, LogOf
  <2> QED BY <2>1, <2>2
<1>5. sn \in Snapshot
  BY <1>1, <1>2, AssembleType
<1>6. h \in Seq(Entry)
  BY <1>1, <1>2 DEF Loaded
<1> HIDE DEF L, sn, h, retain
<1>7. c \in Nat /\ la \in Nat
  <2>1. L.base \in Nat
    BY <1>4 DEF Log, LogOf
  <2> QED BY <1>2, <2>1, MaxPair
<1>8. torn' \in [Server -> BOOLEAN]
  <2> DEFINE mixed == \E k \in 1 .. sn.len : sn.buf[k] # m.data
  <2>1. torn' = [torn EXCEPT ![i] = @ \/ mixed] /\ mixed \in BOOLEAN
    BY <1>3
  <2> HIDE DEF mixed
  <2> QED BY <2>1 DEF TypeOK, LogTypeOK
<1> HIDE DEF c, la
<1>9. LogTypeOK'
  BY <1>1, <1>3, <1>4, <1>5, <1>6, <1>7, <1>8, ApplyCommittedType DEF TypeOK
<1>10. VoteTypeOK'
  BY <1>1, <1>3, BecomeFollowerType DEF TypeOK
<1>11. messages' \subseteq Message
  <2>1. SnapshotReply(m, m.term, L) \subseteq Message
    BY <1>1, <1>4, SnapshotReplyType
  <2> QED BY <1>3, <2>1, SendType DEF TypeOK
<1> QED BY <1>3, <1>9, <1>10, <1>11, UnchangedType DEF TypeOK

LEMMA HandleInstallSnapshotRespType ==
    ASSUME TypeOK, NEW m \in messages, HandleInstallSnapshotResp(m)
    PROVE  TypeOK'
<1> DEFINE i    == m.to
           j    == m.from
           sent == Min({snapOffset[i][j] + 1, snap[i].len})
           nx   == Max({m.lastIndex + 1, nextIndex[i][j]})
           mi   == Max({m.lastIndex, matchIndex[i][j]})
<1>1. i \in Server /\ j \in Server /\ m.lastIndex \in Nat
  BY MessageFields DEF TypeOK, HandleInstallSnapshotResp
<1>2. /\ log[i] \in Log /\ commitIndex[i] \in Nat /\ snap[i] \in Snapshot
      /\ nextIndex[i][j] \in Nat \ {0} /\ matchIndex[i][j] \in Nat
      /\ snapOffset[i][j] \in 0 .. SnapshotChunks
      /\ snap[i].len \in 0 .. SnapshotChunks
  BY <1>1 DEF TypeOK, LogTypeOK, PeerTypeOK, Snapshot
<1>3. sent \in 0 .. SnapshotChunks
  <2>1. snapOffset[i][j] + 1 \in Nat /\ snap[i].len \in Nat
    BY <1>2
  <2>2. sent = IF snapOffset[i][j] + 1 =< snap[i].len
               THEN snapOffset[i][j] + 1 ELSE snap[i].len
    BY <2>1, MinPair
  <2> HIDE DEF sent
  <2> QED BY <1>2, <2>1, <2>2, ConfigAssumption
<1>4. nx \in Nat \ {0}
  <2>1. /\ m.lastIndex + 1 \in Int /\ nextIndex[i][j] \in Int
        /\ m.lastIndex + 1 \in Nat \ {0}
    BY <1>1, <1>2
  <2>2. nx = IF m.lastIndex + 1 >= nextIndex[i][j] THEN m.lastIndex + 1
                                                   ELSE nextIndex[i][j]
    BY <2>1, MaxPair, Zenon
  <2> QED BY <1>2, <2>1, <2>2, Zenon
<1>5. mi \in Nat
  <2>1. m.lastIndex \in Int /\ matchIndex[i][j] \in Int
    BY <1>1, <1>2
  <2>2. mi = IF m.lastIndex >= matchIndex[i][j] THEN m.lastIndex
                                                ELSE matchIndex[i][j]
    BY <2>1, MaxPair, Zenon
  <2> QED BY <1>1, <1>2, <2>2, Zenon
<1>6. UNCHANGED voteVars /\ UNCHANGED <<history, spent>>
  BY DEF HandleInstallSnapshotResp
<1>7. CASE sent < snap[i].len
  <2>1. /\ snapOffset' = [snapOffset EXCEPT ![i][j] = sent]
        /\ Send(InstallSnapshotTo(i, j, log[i], snap[i], sent))
        /\ UNCHANGED logVars /\ UNCHANGED <<nextIndex, matchIndex>>
    BY <1>7, Zenon DEF HandleInstallSnapshotResp
  <2> HIDE DEF sent
  <2>2. PeerTypeOK'
    BY <1>3, <2>1 DEF TypeOK, PeerTypeOK
  <2>3. InstallSnapshotTo(i, j, log[i], snap[i], sent) \subseteq Message
    BY <1>1, <1>2, <1>3, InstallSnapshotToType
  <2>4. messages' \subseteq Message
    BY <2>1, <2>3, SendType DEF TypeOK
  <2> QED BY <1>6, <2>1, <2>2, <2>4, UnchangedType DEF TypeOK
<1>8. CASE ~(sent < snap[i].len)
  <2>1. /\ snapOffset' = [snapOffset EXCEPT ![i][j] = 0]
        /\ nextIndex' = [nextIndex EXCEPT ![i][j] = nx]
        /\ matchIndex' = [matchIndex EXCEPT ![i][j] = mi]
        /\ Send(AppendEntriesTo(i, j, nx, log[i], commitIndex[i], snap[i], 0))
        /\ Commit(i, log[i], commitIndex[i])
    BY <1>8, Zenon DEF HandleInstallSnapshotResp
  <2> HIDE DEF nx, mi
  <2>2. PeerTypeOK'
    <3>1. nextIndex' \in [Server -> [Server -> Nat \ {0}]]
      BY <1>4, <2>1 DEF TypeOK, PeerTypeOK
    <3>2. matchIndex' \in [Server -> [Server -> Nat]]
      BY <1>5, <2>1 DEF TypeOK, PeerTypeOK
    <3>3. snapOffset' \in [Server -> [Server -> 0 .. SnapshotChunks]]
      <4>1. 0 \in 0 .. SnapshotChunks
        BY ConfigAssumption
      <4> QED BY <2>1, <4>1 DEF TypeOK, PeerTypeOK
    <3> QED BY <3>1, <3>2, <3>3 DEF PeerTypeOK
  <2>3. AppendEntriesTo(i, j, nx, log[i], commitIndex[i], snap[i], 0)
          \subseteq Message
    <3>1. 0 \in 0 .. SnapshotChunks
      BY ConfigAssumption
    <3>2. TypeOK
      OBVIOUS
    <3> QED BY <1>1, <1>2, <1>4, <3>1, <3>2, AppendEntriesToType, Zenon
  <2>4. messages' \subseteq Message
    BY <2>1, <2>3, SendType DEF TypeOK
  <2>5. LogTypeOK'
    BY <1>1, <2>1, CommitSameType DEF TypeOK
  <2> QED BY <1>6, <2>2, <2>4, <2>5, UnchangedType DEF TypeOK
<1> QED BY <1>7, <1>8

\* Every step of the cluster keeps the types.
LEMMA NextType == TypeOK /\ [Next]_vars => TypeOK'
<1> SUFFICES ASSUME TypeOK, [Next]_vars PROVE TypeOK'
  OBVIOUS
<1>1. ASSUME NEW i \in Server, Restart(i) PROVE TypeOK'
  BY <1>1, RestartType
<1>2. ASSUME NEW i \in Server, LeaderLosesContact(i) PROVE TypeOK'
  BY <1>2, LeaderLosesContactType
<1>3. ASSUME NEW i \in Server, Heartbeat(i) PROVE TypeOK'
  BY <1>3, HeartbeatType
<1>4. ASSUME NEW i \in Server, ElectionTimeout(i) PROVE TypeOK'
  BY <1>4, ElectionTimeoutType
<1>5. ASSUME NEW i \in Server, Tick(i) PROVE TypeOK'
  BY <1>5, TickType
<1>6. ASSUME NEW i \in Server, NEW v \in Value, Submit(i, v) PROVE TypeOK'
  BY <1>6, SubmitType
<1>7. ASSUME NEW m \in messages, Receive(m) PROVE TypeOK'
  BY <1>7, AnswerOnlyType, HandleRequestVoteType, HandlePreVoteGrantedType,
     HandleVoteGrantedType, HandleHigherTermRespType, RejectAppendEntriesType,
     AcceptAppendEntriesType, HandleAppendEntriesAcceptedType,
     HandleAppendEntriesRejectedType, HandleSnapshotChunkType,
     HandleSnapshotDoneType, HandleInstallSnapshotRespType DEF Receive
<1>8. CASE UNCHANGED vars
  BY <1>8, UnchangedType DEF vars, TypeOK
<1> QED BY <1>1, <1>2, <1>3, <1>4, <1>5, <1>6, <1>7, <1>8 DEF Next

\* The fields of every Server keep their types and ranges in every behaviour of
\* the cluster: in particular a next index never reaches 0 and a snapshot cursor
\* never passes the end of the snapshot.
THEOREM TypeCorrect == Spec => []TypeOK
BY InitType, NextType, PTL DEF Spec

-----------------------------------------------------------------------------
(***************************************************************************)
(* Election safety of the cluster, for any number of nodes, terms,         *)
(* restarts and messages.  The inductive invariant is ElectionInv          *)
(* together with TypeOK.  The actions fall into three kinds: those that    *)
(* leave term and vote alone, those that make a node a follower, and the   *)
(* five that vote, count votes, step down or restart.                      *)
(***************************************************************************)

-----------------------------------------------------------------------------
(* Facts used by several actions.                                          *)

LEMMA BallotFields ==
    ASSUME NEW v, NEW t, NEW c
    PROVE  /\ Ballot(v, t, c).voter = v
           /\ Ballot(v, t, c).term = t
           /\ Ballot(v, t, c).candidate = c
BY DEF Ballot

\* Messages in flight are old ones or just sent, and only a vote makes a grant.
LEMMA GrantsKept ==
    ASSUME GrantsAreBallots, ballots \subseteq ballots', NEW ms,
           messages' \subseteq messages \union ms,
           \A m \in ms : Grant(m) => Ballot(m.from, m.term, m.to) \in ballots'
    PROVE  GrantsAreBallots'
BY DEF GrantsAreBallots, Grant, Ballot

LEMMA ElectedKept ==
    ASSUME ElectedByMajority, elected' = elected, ballots \subseteq ballots'
    PROVE  ElectedByMajority'
BY DEF ElectedByMajority, Ballot

LEMMA SendSubset ==
    ASSUME NEW ms, Send(ms)
    PROVE  messages' \subseteq messages \union ms
BY DEF Send

LEMMA NoGrantIn ==
    /\ \A i, t, pre : \A m \in RequestVoteFrom(i, t, pre) : ~Grant(m)
    /\ \A r, t, L : \A m \in SnapshotReply(r, t, L) : ~Grant(m)
    /\ \A r, t, s, ci, ct, L : \A m \in AppendReply(r, t, s, ci, ct, L) : ~Grant(m)
    /\ \A i, j, L, sn, off : \A m \in InstallSnapshotTo(i, j, L, sn, off) : ~Grant(m)
    /\ \A i, j, nx, L, c, sn, off :
          \A m \in AppendEntriesTo(i, j, nx, L, c, sn, off) : ~Grant(m)
    /\ \A i, L : \A m \in AppendEntriesToPeers(i, L) : ~Grant(m)
<1>1. \A i, t, pre : \A m \in RequestVoteFrom(i, t, pre) : ~Grant(m)
  BY DEF RequestVoteFrom, Grant
<1>2. \A r, t, L : \A m \in SnapshotReply(r, t, L) : ~Grant(m)
  BY DEF SnapshotReply, Grant
<1>3. \A r, t, s, ci, ct, L : \A m \in AppendReply(r, t, s, ci, ct, L) : ~Grant(m)
  BY DEF AppendReply, Grant
<1>4. \A i, j, L, sn, off : \A m \in InstallSnapshotTo(i, j, L, sn, off) : ~Grant(m)
  BY DEF InstallSnapshotTo, Grant
<1>5. \A i, j, nx, L, c, sn, off :
        \A m \in AppendEntriesTo(i, j, nx, L, c, sn, off) : ~Grant(m)
  BY <1>4 DEF AppendEntriesTo, Grant
<1>6. \A i, L : \A m \in AppendEntriesToPeers(i, L) : ~Grant(m)
  BY <1>5 DEF AppendEntriesToPeers
<1> QED BY <1>1, <1>2, <1>3, <1>4, <1>5, <1>6

\* A step that leaves terms, votes, roles and counts alone and sends no vote.
LEMMA QuietStep ==
    ASSUME TypeOK, ElectionInv, NEW ms, messages' \subseteq messages \union ms,
           \A m \in ms : ~Grant(m),
           UNCHANGED <<currentTerm, votedFor, persisted, role, voteGranted,
                       ballots, elected>>
    PROVE  ElectionInv' /\ VoteKept
<1>1. VoteOnFlash' /\ BallotsBind' /\ CountedAreBallots'
  BY DEF ElectionInv, VoteOnFlash, BallotsBind, CountedAreBallots, Ballot
<1>2. GrantsAreBallots'
  BY GrantsKept DEF ElectionInv
<1>3. ElectedByMajority'
  BY ElectedKept DEF ElectionInv
<1>4. VoteKept
  BY DEF VoteKept, TypeOK, VoteTypeOK
<1> QED BY <1>1, <1>2, <1>3, <1>4 DEF ElectionInv

\* Node i adopts term t >= its own as a follower; the vote of an older term is
\* cleared, that of the same term kept.
LEMMA FollowerStep ==
    ASSUME TypeOK, ElectionInv, NEW ms, messages' \subseteq messages \union ms,
           \A m \in ms : ~Grant(m),
           NEW i \in Server, NEW t \in Nat, t >= currentTerm[i],
           SetTermAndVote(i, t, VoteIn(i, t)),
           role' = [role EXCEPT ![i] = "FOLLOWER"],
           UNCHANGED <<voteGranted, ballots, elected>>
    PROVE  ElectionInv' /\ VoteKept
<1>1. VoteOnFlash'
  BY DEF ElectionInv, VoteOnFlash, SetTermAndVote, TypeOK, VoteTypeOK
<1>2. BallotsBind'
  BY DEF ElectionInv, BallotsBind, SetTermAndVote, VoteIn, TypeOK, VoteTypeOK,
         HistoryTypeOK
<1>3. CountedAreBallots'
  BY DEF ElectionInv, CountedAreBallots, SetTermAndVote, Ballot, TypeOK, VoteTypeOK
<1>4. GrantsAreBallots'
  BY GrantsKept DEF ElectionInv
<1>5. ElectedByMajority'
  BY ElectedKept DEF ElectionInv
<1>6. VoteKept
  BY DEF VoteKept, SetTermAndVote, VoteIn, TypeOK, VoteTypeOK
<1> QED BY <1>1, <1>2, <1>3, <1>4, <1>5, <1>6 DEF ElectionInv

-----------------------------------------------------------------------------
(* The steps that vote, count votes or restart.                            *)

\* Term and vote come back from flash as they were.
LEMMA RestartElection ==
    ASSUME TypeOK, ElectionInv, NEW i \in Server, Restart(i)
    PROVE  ElectionInv' /\ VoteKept
<1>1. UNCHANGED <<currentTerm, votedFor, persisted, messages, ballots, elected>>
  <2>1. /\ Restored(i).term = currentTerm[i]
        /\ Restored(i).votedFor = votedFor[i]
    <3>1. persisted[i] = [term |-> currentTerm[i], votedFor |-> votedFor[i]]
      BY DEF ElectionInv, VoteOnFlash
    <3> QED BY <3>1 DEF Restored
  <2>2. currentTerm' = currentTerm
    BY <2>1 DEF Restart, TypeOK, VoteTypeOK
  <2>3. votedFor' = votedFor
    BY <2>1 DEF Restart, TypeOK, VoteTypeOK
  <2> QED BY <2>2, <2>3 DEF Restart, history
<1>2. VoteOnFlash' /\ BallotsBind'
  BY <1>1 DEF ElectionInv, VoteOnFlash, BallotsBind
<1>3. CountedAreBallots'
  BY <1>1 DEF Restart, ElectionInv, CountedAreBallots, Ballot, TypeOK, VoteTypeOK
<1>4. GrantsAreBallots'
  BY <1>1 DEF ElectionInv, GrantsAreBallots, Ballot
<1>5. ElectedByMajority'
  BY <1>1, ElectedKept DEF ElectionInv
<1>6. VoteKept
  BY <1>1 DEF VoteKept, TypeOK, VoteTypeOK
<1> QED BY <1>2, <1>3, <1>4, <1>5, <1>6 DEF ElectionInv

\* A response of a higher term.
LEMMA HandleHigherTermRespElection ==
    ASSUME TypeOK, ElectionInv, NEW m \in messages, HandleHigherTermResp(m)
    PROVE  ElectionInv' /\ VoteKept
<1>1. m.to \in Server /\ m.term \in Nat
  BY MessageFields DEF TypeOK
<1>2. m.term > currentTerm[m.to] /\ m.term >= currentTerm[m.to]
  BY <1>1 DEF HandleHigherTermResp, TypeOK, VoteTypeOK
<1>3. VoteIn(m.to, m.term) = BAD_NODE
  BY <1>2 DEF VoteIn
<1>4. /\ SetTermAndVote(m.to, m.term, VoteIn(m.to, m.term))
      /\ role' = [role EXCEPT ![m.to] = "FOLLOWER"]
      /\ UNCHANGED <<voteGranted, ballots, elected>>
  BY <1>3 DEF HandleHigherTermResp, StepDown, history
<1> DEFINE none == {}
<1>5. messages' \subseteq messages \union none /\ \A r \in none : ~Grant(r)
  BY DEF HandleHigherTermResp
<1> HIDE DEF none
<1> QED BY <1>1, <1>2, <1>4, <1>5, FollowerStep

\* A vote is given only to the candidate already voted for, or to the first of
\* its term.
LEMMA HandleRequestVoteElection ==
    ASSUME TypeOK, ElectionInv, NEW m \in messages, HandleRequestVote(m)
    PROVE  ElectionInv' /\ VoteKept
<1> DEFINE i     == m.to
           t     == Max({m.term, currentTerm[i]})
           grant == /\ m.term = t
                    /\ VoteIn(i, t) \in {BAD_NODE, m.from}
                    /\ UpToDate(m.lastIndex, m.lastTerm, log[i])
           vote  == IF grant THEN m.from ELSE VoteIn(i, t)
<1>1. i \in Server /\ m.from \in Server /\ m.term \in Nat /\ currentTerm[i] \in Nat
  BY MessageFields DEF TypeOK, VoteTypeOK
<1>2. t = IF m.term >= currentTerm[i] THEN m.term ELSE currentTerm[i]
  BY <1>1, MaxPair
<1>3. /\ IF m.term > currentTerm[i]
         THEN StepDown(i, t, vote)
         ELSE SetTermAndVote(i, t, vote) /\ UNCHANGED <<role, currentLeader>>
      /\ Send(VoteReply(m, grant, FALSE, t))
      /\ ballots' = ballots \union {b \in {Ballot(i, t, m.from)} : grant}
      /\ UNCHANGED <<voteGranted, elected>>
  BY Zenon DEF HandleRequestVote
<1>4. /\ grant => VoteIn(i, t) \in {BAD_NODE, m.from} /\ vote = m.from
      /\ ~grant => vote = VoteIn(i, t)
      /\ grant \in BOOLEAN
  OBVIOUS
<1> HIDE DEF t, grant, vote
<1>5. /\ t \in Nat /\ t >= currentTerm[i]
      /\ t > currentTerm[i] <=> m.term > currentTerm[i]
  BY <1>1, <1>2
<1>6. SetTermAndVote(i, t, vote)
  BY <1>3 DEF StepDown
<1>7. VoteOnFlash'
  BY <1>6 DEF SetTermAndVote, ElectionInv, VoteOnFlash, TypeOK, VoteTypeOK
<1>8. /\ ballots \subseteq ballots'
      /\ \A b \in ballots' : b \in ballots \/ (grant /\ b = Ballot(i, t, m.from))
      /\ grant => Ballot(i, t, m.from) \in ballots'
  BY <1>3
<1>9. BallotsBind'
  <2>1. \A b \in ballots : b.voter \in Server /\ b.term \in Nat /\ b.candidate \in Server
    BY DEF TypeOK, HistoryTypeOK
  <2>2. ASSUME NEW b \in ballots, b.voter = i, b.term = t
        PROVE  t = currentTerm[i] /\ votedFor[i] = b.candidate
               /\ VoteIn(i, t) = b.candidate
    <3>1. t = currentTerm[i]
      BY <1>1, <1>5, <2>2 DEF ElectionInv, BallotsBind
    <3>2. votedFor[i] = b.candidate
      BY <2>2, <3>1 DEF ElectionInv, BallotsBind
    <3> QED BY <1>1, <3>1, <3>2 DEF VoteIn
  <2>3. ASSUME NEW b \in ballots, b.voter = i, b.term = t
        PROVE  vote = b.candidate /\ (grant => m.from = b.candidate)
    BY <1>4, <2>1, <2>2, <2>3, ServerAssumption
  <2>4. ASSUME NEW b \in ballots
        PROVE  /\ b.term <= currentTerm'[b.voter]
               /\ b.term = currentTerm'[b.voter] => votedFor'[b.voter] = b.candidate
    <3>1. CASE b.voter = i
      <4>1. currentTerm'[i] = t /\ votedFor'[i] = vote
        BY <1>1, <1>6 DEF SetTermAndVote, TypeOK, VoteTypeOK
      <4>2. b.term <= t
        BY <1>1, <1>5, <2>1, <2>4, <3>1 DEF ElectionInv, BallotsBind
      <4> QED BY <2>3, <3>1, <4>1, <4>2
    <3>2. CASE b.voter # i
      BY <1>6, <2>1, <3>2 DEF SetTermAndVote, ElectionInv, BallotsBind, TypeOK,
         VoteTypeOK
    <3> QED BY <3>1, <3>2
  <2>5. ASSUME grant
        PROVE  currentTerm'[i] = t /\ votedFor'[i] = m.from
    BY <1>1, <1>4, <1>6, <2>5 DEF SetTermAndVote, TypeOK, VoteTypeOK
  <2>6. ASSUME NEW a \in ballots', NEW b \in ballots', a.voter = b.voter,
               a.term = b.term
        PROVE  a.candidate = b.candidate
    <3>1. CASE a \in ballots /\ b \in ballots
      BY <2>6, <3>1 DEF ElectionInv, BallotsBind
    <3>2. CASE a \in ballots /\ b \notin ballots
      BY <1>8, <2>3, <2>6, <3>2, BallotFields
    <3>3. CASE a \notin ballots /\ b \in ballots
      BY <1>8, <2>3, <2>6, <3>3, BallotFields
    <3>4. CASE a \notin ballots /\ b \notin ballots
      BY <1>8, <3>4
    <3> QED BY <3>1, <3>2, <3>3, <3>4
  <2>7. \A b \in ballots' :
            /\ b.term <= currentTerm'[b.voter]
            /\ b.term = currentTerm'[b.voter] => votedFor'[b.voter] = b.candidate
    BY <1>5, <1>8, <2>4, <2>5, BallotFields
  <2> QED BY <2>6, <2>7 DEF BallotsBind
<1>10. CountedAreBallots'
  <2>1. CASE m.term > currentTerm[i]
    <3>1. role' = [role EXCEPT ![i] = "FOLLOWER"]
      BY <1>3, <2>1 DEF StepDown
    <3> QED BY <1>3, <1>6, <1>8, <3>1
        DEF SetTermAndVote, ElectionInv, CountedAreBallots, Ballot, TypeOK, VoteTypeOK
  <2>2. CASE ~(m.term > currentTerm[i])
    <3>1. t = currentTerm[i] /\ UNCHANGED role
      BY <1>1, <1>3, <1>5, <2>2
    <3>2. currentTerm' = currentTerm
      BY <1>6, <3>1 DEF SetTermAndVote, TypeOK, VoteTypeOK
    <3> QED BY <1>3, <1>8, <3>1, <3>2 DEF ElectionInv, CountedAreBallots, Ballot
  <2> QED BY <2>1, <2>2
<1>11. GrantsAreBallots'
  <2>1. messages' \subseteq messages \union VoteReply(m, grant, FALSE, t)
    BY <1>3, SendSubset
  <2>2. \A r \in VoteReply(m, grant, FALSE, t) :
            Grant(r) => Ballot(r.from, r.term, r.to) \in ballots'
    BY <1>4, <1>8 DEF VoteReply, Grant
  <2> QED BY <1>8, <2>1, <2>2, GrantsKept DEF ElectionInv
<1>12. ElectedByMajority'
  BY <1>3, <1>8, ElectedKept DEF ElectionInv
<1>13. VoteKept
  <2>1. currentTerm' = [currentTerm EXCEPT ![i] = t]
        /\ votedFor' = [votedFor EXCEPT ![i] = vote]
    BY <1>6 DEF SetTermAndVote
  <2>2. t = currentTerm[i] /\ votedFor[i] \in Server => vote = votedFor[i]
    BY <1>1, <1>4, ServerAssumption DEF VoteIn
  <2> QED BY <1>1, <1>5, <2>1, <2>2 DEF VoteKept, TypeOK, VoteTypeOK
<1> QED BY <1>7, <1>9, <1>10, <1>11, <1>12, <1>13 DEF ElectionInv

\* A candidate votes for itself, in a term it has never voted in.
LEMMA HandlePreVoteGrantedElection ==
    ASSUME TypeOK, ElectionInv, NEW m \in messages, HandlePreVoteGranted(m)
    PROVE  ElectionInv' /\ VoteKept
<1> DEFINE i == m.to
           t == currentTerm[i] + 1
<1>1. i \in Server /\ currentTerm[i] \in Nat /\ t \in Nat /\ t > currentTerm[i]
  BY MessageFields DEF TypeOK, VoteTypeOK
<1>2. CASE UNCHANGED <<currentTerm, votedFor, persisted, role, currentLeader,
                       preVoteActive, voteGranted, messages, ballots>>
  <2> DEFINE none == {}
  <2>1. UNCHANGED elected
    BY DEF HandlePreVoteGranted
  <2>2. messages' \subseteq messages \union none /\ \A r \in none : ~Grant(r)
    BY <1>2
  <2> HIDE DEF none
  <2> QED BY <1>2, <2>1, <2>2, QuietStep
<1>3. CASE BecomeCandidate(i)
  <2>1. /\ SetTermAndVote(i, t, i)
        /\ role' = [role EXCEPT ![i] = "CANDIDATE"]
        /\ voteGranted' = [voteGranted EXCEPT ![i] = {i}]
        /\ ballots' = ballots \union {Ballot(i, t, i)}
        /\ Send(RequestVoteFrom(i, t, FALSE))
        /\ UNCHANGED elected
    BY <1>3 DEF BecomeCandidate, HandlePreVoteGranted
  <2> HIDE DEF t
  <2>2. /\ currentTerm' = [currentTerm EXCEPT ![i] = t]
        /\ votedFor' = [votedFor EXCEPT ![i] = i]
        /\ currentTerm'[i] = t /\ votedFor'[i] = i
    BY <1>1, <2>1 DEF SetTermAndVote, TypeOK, VoteTypeOK
  <2>3. VoteOnFlash'
    BY <2>1 DEF SetTermAndVote, ElectionInv, VoteOnFlash, TypeOK, VoteTypeOK
  <2>4. \A b \in ballots : b.voter \in Server /\ b.term \in Nat
    BY DEF TypeOK, HistoryTypeOK
  <2>5. \A b \in ballots : b.voter = i => b.term < t
    BY <1>1, <2>4 DEF ElectionInv, BallotsBind
  <2>6. BallotsBind'
    <3>1. ASSUME NEW b \in ballots
          PROVE  /\ b.term <= currentTerm'[b.voter]
                 /\ b.term = currentTerm'[b.voter] => votedFor'[b.voter] = b.candidate
      <4>1. CASE b.voter = i
        BY <1>1, <2>2, <2>4, <2>5, <3>1, <4>1
      <4>2. CASE b.voter # i
        BY <2>2, <2>4, <3>1, <4>2 DEF ElectionInv, BallotsBind, TypeOK, VoteTypeOK
      <4> QED BY <4>1, <4>2
    <3>2. ASSUME NEW b \in ballots', b \notin ballots
          PROVE  b = Ballot(i, t, i)
      BY <2>1, <3>2
    <3>3. ASSUME NEW a \in ballots', NEW b \in ballots', a.voter = b.voter,
                 a.term = b.term
          PROVE  a.candidate = b.candidate
      <4>1. CASE a \in ballots /\ b \in ballots
        BY <3>3, <4>1 DEF ElectionInv, BallotsBind
      <4>2. CASE a \in ballots /\ b \notin ballots
        BY <1>1, <2>4, <2>5, <3>2, <3>3, <4>2, BallotFields
      <4>3. CASE a \notin ballots /\ b \in ballots
        BY <1>1, <2>4, <2>5, <3>2, <3>3, <4>3, BallotFields
      <4>4. CASE a \notin ballots /\ b \notin ballots
        BY <3>2, <4>4
      <4> QED BY <4>1, <4>2, <4>3, <4>4
    <3>4. \A b \in ballots' :
              /\ b.term <= currentTerm'[b.voter]
              /\ b.term = currentTerm'[b.voter] => votedFor'[b.voter] = b.candidate
      BY <1>1, <2>2, <3>1, <3>2, BallotFields
    <3> QED BY <3>3, <3>4 DEF BallotsBind
  <2>7. CountedAreBallots'
    <3> SUFFICES ASSUME NEW k \in Server, role'[k] = "CANDIDATE",
                        NEW j \in voteGranted'[k]
                 PROVE  Ballot(j, currentTerm'[k], k) \in ballots'
      BY DEF CountedAreBallots, Ballot
    <3>1. CASE k = i
      BY <1>1, <2>1, <2>2, <3>1 DEF TypeOK, VoteTypeOK
    <3>2. CASE k # i
      BY <2>1, <2>2, <3>2 DEF ElectionInv, CountedAreBallots, TypeOK, VoteTypeOK
    <3> QED BY <3>1, <3>2
  <2>8. GrantsAreBallots'
    <3>1. messages' \subseteq messages \union RequestVoteFrom(i, t, FALSE)
      BY <2>1, SendSubset
    <3> QED BY <2>1, <3>1, NoGrantIn, GrantsKept DEF ElectionInv
  <2>9. ElectedByMajority'
    BY <2>1, ElectedKept DEF ElectionInv
  <2>10. VoteKept
    BY <1>1, <2>2 DEF VoteKept, TypeOK, VoteTypeOK
  <2> QED BY <2>3, <2>6, <2>7, <2>8, <2>9, <2>10 DEF ElectionInv
<1> QED BY <1>2, <1>3 DEF HandlePreVoteGranted

\* The votes a new leader has counted are ballots of a majority.
LEMMA HandleVoteGrantedElection ==
    ASSUME TypeOK, ElectionInv, NEW m \in messages, HandleVoteGranted(m)
    PROVE  ElectionInv' /\ VoteKept
<1> DEFINE i == m.to
<1>1. i \in Server /\ m.from \in Server
  BY MessageFields DEF TypeOK
<1>2. /\ UNCHANGED <<currentTerm, votedFor, persisted, messages, ballots>>
      /\ voteGranted' = [voteGranted EXCEPT ![i] = @ \union {m.from}]
      /\ role[i] = "CANDIDATE" /\ m.term = currentTerm[i] /\ Grant(m)
  BY DEF HandleVoteGranted, Grant
<1>3. \A j \in voteGranted'[i] : Ballot(j, currentTerm[i], i) \in ballots
  <2>1. Ballot(m.from, currentTerm[i], i) \in ballots
    BY <1>2 DEF ElectionInv, GrantsAreBallots, Grant
  <2>2. \A j \in voteGranted[i] : Ballot(j, currentTerm[i], i) \in ballots
    BY <1>1, <1>2 DEF ElectionInv, CountedAreBallots
  <2>3. voteGranted'[i] = voteGranted[i] \union {m.from}
    BY <1>1, <1>2 DEF TypeOK, VoteTypeOK
  <2> QED BY <2>1, <2>2, <2>3
<1>4. VoteOnFlash' /\ BallotsBind'
  BY <1>2 DEF ElectionInv, VoteOnFlash, BallotsBind
<1>5. GrantsAreBallots'
  BY <1>2 DEF ElectionInv, GrantsAreBallots, Ballot
<1>6. VoteKept
  BY <1>2 DEF VoteKept, TypeOK, VoteTypeOK
<1>7. \A k \in Server : k # i => role'[k] = role[k] /\ voteGranted'[k] = voteGranted[k]
  BY <1>1, <1>2 DEF HandleVoteGranted, BecomeLeader, TypeOK, VoteTypeOK
<1>8. CountedAreBallots'
  BY <1>2, <1>3, <1>7 DEF ElectionInv, CountedAreBallots, Ballot
<1>9. ElectedByMajority'
  <2>1. CASE Cardinality(voteGranted'[i]) >= Majority
    <3>1. elected' = elected \union {[term |-> currentTerm[i], leader |-> i]}
      BY <2>1 DEF HandleVoteGranted, BecomeLeader
    <3>2. voteGranted'[i] \in SUBSET Server
      BY <1>1, <1>2 DEF TypeOK, VoteTypeOK
    <3>3. ASSUME NEW e \in elected', e \notin elected
          PROVE  e.term = currentTerm[i] /\ e.leader = i
      BY <3>1, <3>3
    <3>4. ASSUME NEW e \in elected'
          PROVE  \E Q \in SUBSET Server :
                    /\ Cardinality(Q) >= Majority
                    /\ \A j \in Q : Ballot(j, e.term, e.leader) \in ballots
      <4>1. CASE e \in elected
        BY <4>1 DEF ElectionInv, ElectedByMajority
      <4>2. CASE e \notin elected
        <5>1. \A j \in voteGranted'[i] : Ballot(j, e.term, e.leader) \in ballots
          BY <1>3, <3>3, <4>2
        <5> QED BY <2>1, <3>2, <5>1
      <4> QED BY <4>1, <4>2
    <3> QED BY <1>2, <3>4 DEF ElectedByMajority, Ballot, Majority
  <2>2. CASE ~(Cardinality(voteGranted'[i]) >= Majority)
    <3>1. elected' = elected
      BY <2>2 DEF HandleVoteGranted
    <3> QED BY <1>2, <3>1, ElectedKept DEF ElectionInv
  <2> QED BY <2>1, <2>2
<1> QED BY <1>4, <1>5, <1>6, <1>8, <1>9 DEF ElectionInv

-----------------------------------------------------------------------------
(* The other steps.                                                        *)

\* A node's own steps: they send no votes.
LEMMA DriverElection ==
    ASSUME TypeOK, ElectionInv, NEW i \in Server,
           \/ LeaderLosesContact(i)
           \/ Heartbeat(i)
           \/ ElectionTimeout(i)
           \/ Tick(i)
           \/ \E v \in Value : Submit(i, v)
    PROVE  ElectionInv' /\ VoteKept
<1> DEFINE none == {}
<1>0. \A r \in none : ~Grant(r)
  OBVIOUS
<1>1. messages' = messages => messages' \subseteq messages \union none
  OBVIOUS
<1> HIDE DEF none
<1>2. CASE LeaderLosesContact(i)
  <2>1. currentTerm[i] \in Nat /\ currentTerm[i] >= currentTerm[i]
    BY DEF TypeOK, VoteTypeOK
  <2>2. /\ SetTermAndVote(i, currentTerm[i], VoteIn(i, currentTerm[i]))
        /\ role' = [role EXCEPT ![i] = "FOLLOWER"]
        /\ UNCHANGED <<voteGranted, ballots, elected>>
        /\ messages' = messages
    BY <1>2 DEF LeaderLosesContact, BecomeFollower, history
  <2> QED BY <1>0, <1>1, <2>1, <2>2, FollowerStep
<1>3. CASE Heartbeat(i)
  <2>1. /\ UNCHANGED <<currentTerm, votedFor, persisted, role, voteGranted,
                       ballots, elected>>
        /\ Send(AppendEntriesToPeers(i, log[i]))
    BY <1>3 DEF Heartbeat, voteVars, history
  <2> QED BY <2>1, SendSubset, NoGrantIn, QuietStep
<1>4. CASE ElectionTimeout(i)
  <2>1. /\ UNCHANGED <<currentTerm, votedFor, persisted, role, voteGranted,
                       ballots, elected>>
        /\ Send(RequestVoteFrom(i, currentTerm[i] + 1, TRUE))
    BY <1>4 DEF ElectionTimeout, history
  <2> QED BY <2>1, SendSubset, NoGrantIn, QuietStep
<1>5. CASE Tick(i)
  <2>1. UNCHANGED <<currentTerm, votedFor, persisted, role, voteGranted,
                    ballots, elected>> /\ messages' = messages
    BY <1>5 DEF Tick, voteVars, history
  <2> QED BY <1>0, <1>1, <2>1, QuietStep
<1>6. CASE \E v \in Value : Submit(i, v)
  <2>1. PICK v \in Value : Submit(i, v)
    BY <1>6
  <2>2. Send(AppendEntriesToPeers(i, log'[i]))
    BY <2>1, Zenon DEF Submit
  <2>3. UNCHANGED <<currentTerm, votedFor, persisted, role, voteGranted,
                    ballots, elected>>
    BY <2>1 DEF Submit, voteVars, history
  <2> QED BY <2>2, <2>3, SendSubset, NoGrantIn, QuietStep
<1> QED BY <1>2, <1>3, <1>4, <1>5, <1>6

\* Handlers that answer, or work as leader.
LEMMA QuietHandlers ==
    ASSUME TypeOK, ElectionInv, NEW m \in messages,
           \/ HandlePreVote(m)
           \/ RejectDisruptiveCandidate(m)
           \/ RejectStaleAppendEntries(m)
           \/ RejectStaleInstallSnapshot(m)
           \/ HandleAppendEntriesAccepted(m)
           \/ HandleAppendEntriesRejected(m)
           \/ HandleInstallSnapshotResp(m)
    PROVE  ElectionInv' /\ VoteKept
<1>1. UNCHANGED <<currentTerm, votedFor, persisted, role, voteGranted, ballots,
                  elected>>
  <2>1. UNCHANGED voteVars /\ UNCHANGED history
    BY DEF HandlePreVote, RejectDisruptiveCandidate, RejectStaleAppendEntries,
           RejectStaleInstallSnapshot, HandleAppendEntriesAccepted,
           HandleAppendEntriesRejected, HandleInstallSnapshotResp
  <2> QED BY <2>1 DEF voteVars, history
<1>2. \E ms : messages' \subseteq messages \union ms /\ \A r \in ms : ~Grant(r)
  <2>1. CASE HandlePreVote(m)
    <3>1. \A g, t : \A r \in VoteReply(m, g, TRUE, t) : ~Grant(r)
      BY DEF VoteReply, Grant
    <3>2. \E g : Send(VoteReply(m, g, TRUE, currentTerm[m.to]))
      BY <2>1, Zenon DEF HandlePreVote
    <3> QED BY <3>1, <3>2, SendSubset
  <2>2. CASE RejectDisruptiveCandidate(m)
    <3>1. \A r \in VoteReply(m, FALSE, FALSE, currentTerm[m.to]) : ~Grant(r)
      BY DEF VoteReply, Grant
    <3>2. Send(VoteReply(m, FALSE, FALSE, currentTerm[m.to]))
      BY <2>2 DEF RejectDisruptiveCandidate
    <3> QED BY <3>1, <3>2, SendSubset
  <2>3. CASE RejectStaleAppendEntries(m)
    <3>1. Send(AppendReply(m, currentTerm[m.to], FALSE, 0, 0, log[m.to]))
      BY <2>3 DEF RejectStaleAppendEntries
    <3> QED BY <3>1, NoGrantIn, SendSubset
  <2>4. CASE RejectStaleInstallSnapshot(m)
    <3>1. Send(SnapshotReply(m, currentTerm[m.to], log[m.to]))
      BY <2>4 DEF RejectStaleInstallSnapshot
    <3> QED BY <3>1, NoGrantIn, SendSubset
  <2>5. CASE HandleAppendEntriesAccepted(m)
    <3>1. \E b, nx, L, c, sn, off :
             Send(IF b THEN AppendEntriesTo(m.to, m.from, nx, L, c, sn, off) ELSE {})
      BY <2>5, Zenon DEF HandleAppendEntriesAccepted
    <3>2. PICK b, nx, L, c, sn, off :
             Send(IF b THEN AppendEntriesTo(m.to, m.from, nx, L, c, sn, off) ELSE {})
      BY <3>1
    <3> DEFINE ms == IF b THEN AppendEntriesTo(m.to, m.from, nx, L, c, sn, off)
                          ELSE {}
    <3>3. Send(ms) /\ \A r \in ms : ~Grant(r)
      BY <3>2, NoGrantIn
    <3> HIDE DEF ms
    <3> QED BY <3>3, SendSubset
  <2>6. CASE HandleAppendEntriesRejected(m)
    <3>1. \E nx, L, c, sn, off : Send(AppendEntriesTo(m.to, m.from, nx, L, c, sn, off))
      BY <2>6, Zenon DEF HandleAppendEntriesRejected
    <3> QED BY <3>1, NoGrantIn, SendSubset
  <2>7. CASE HandleInstallSnapshotResp(m)
    <3>1. \/ \E L, sn, off : Send(InstallSnapshotTo(m.to, m.from, L, sn, off))
          \/ \E nx, L, c, sn, off :
                Send(AppendEntriesTo(m.to, m.from, nx, L, c, sn, off))
      BY <2>7, Zenon DEF HandleInstallSnapshotResp
    <3> QED BY <3>1, NoGrantIn, SendSubset
  <2> QED BY <2>1, <2>2, <2>3, <2>4, <2>5, <2>6, <2>7
<1> QED BY <1>1, <1>2, QuietStep

\* Handlers of a leader's messages.
LEMMA FollowerHandlers ==
    ASSUME TypeOK, ElectionInv, NEW m \in messages,
           \/ RejectAppendEntries(m)
           \/ AcceptAppendEntries(m)
           \/ HandleSnapshotChunk(m)
           \/ HandleSnapshotDone(m)
    PROVE  ElectionInv' /\ VoteKept
<1>1. m.to \in Server /\ m.term \in Nat
  BY MessageFields DEF TypeOK
<1>2. /\ m.term >= currentTerm[m.to]
      /\ BecomeFollower(m.to, m.term, m.from)
      /\ UNCHANGED <<ballots, elected>>
  BY DEF RejectAppendEntries, AcceptAppendEntries, HandleSnapshotChunk,
         HandleSnapshotDone, history
<1>3. /\ SetTermAndVote(m.to, m.term, VoteIn(m.to, m.term))
      /\ role' = [role EXCEPT ![m.to] = "FOLLOWER"]
      /\ UNCHANGED <<voteGranted, ballots, elected>>
  BY <1>2 DEF BecomeFollower
<1>4. \E ms : messages' \subseteq messages \union ms /\ \A r \in ms : ~Grant(r)
  <2>1. \/ \E s, ci, ct, L : Send(AppendReply(m, m.term, s, ci, ct, L))
        \/ \E L : Send(SnapshotReply(m, m.term, L))
    BY Zenon DEF RejectAppendEntries, AcceptAppendEntries, HandleSnapshotChunk,
                 HandleSnapshotDone
  <2> QED BY <2>1, NoGrantIn, SendSubset
<1> QED BY <1>1, <1>2, <1>3, <1>4, FollowerStep

LEMMA InitElection == Init => ElectionInv
BY DEF Init, ElectionInv, VoteOnFlash, BallotsBind, GrantsAreBallots,
       CountedAreBallots, ElectedByMajority

LEMMA NextElection ==
    TypeOK /\ ElectionInv /\ [Next]_vars => ElectionInv' /\ [VoteKept]_vars
<1> SUFFICES ASSUME TypeOK, ElectionInv, [Next]_vars
             PROVE  ElectionInv' /\ [VoteKept]_vars
  OBVIOUS
<1>1. CASE UNCHANGED vars
  <2> DEFINE none == {}
  <2>1. messages' \subseteq messages \union none /\ \A r \in none : ~Grant(r)
    BY <1>1 DEF vars
  <2> HIDE DEF none
  <2>2. UNCHANGED <<currentTerm, votedFor, persisted, role, voteGranted, ballots,
                    elected>>
    BY <1>1 DEF vars, voteVars, history
  <2> QED BY <1>1, <2>1, <2>2, QuietStep
<1>2. ASSUME NEW i \in Server, Restart(i)
      PROVE  ElectionInv' /\ VoteKept
  BY <1>2, RestartElection
<1>3. ASSUME NEW i \in Server,
             LeaderLosesContact(i) \/ Heartbeat(i) \/ ElectionTimeout(i)
                \/ Tick(i) \/ \E v \in Value : Submit(i, v)
      PROVE  ElectionInv' /\ VoteKept
  BY <1>3, DriverElection
<1>4. ASSUME NEW m \in messages, Receive(m)
      PROVE  ElectionInv' /\ VoteKept
  BY <1>4, QuietHandlers, FollowerHandlers, HandleRequestVoteElection,
     HandlePreVoteGrantedElection, HandleVoteGrantedElection,
     HandleHigherTermRespElection DEF Receive
<1> QED BY <1>1, <1>2, <1>3, <1>4 DEF Next

\* Two majorities share a voter, and a voter has one ballot per term.
LEMMA MajoritiesElectOne == ElectionInv => ElectionSafety
<1> SUFFICES ASSUME ElectionInv, NEW e \in elected, NEW f \in elected,
                    e.term = f.term
             PROVE  e.leader = f.leader
  BY DEF ElectionSafety
<1>1. PICK P \in SUBSET Server :
         /\ Cardinality(P) >= Majority
         /\ \A j \in P : Ballot(j, e.term, e.leader) \in ballots
  BY DEF ElectionInv, ElectedByMajority
<1>2. PICK Q \in SUBSET Server :
         /\ Cardinality(Q) >= Majority
         /\ \A j \in Q : Ballot(j, f.term, f.leader) \in ballots
  BY DEF ElectionInv, ElectedByMajority
<1>3. Cardinality(Server) \in Nat /\ Cardinality(P) \in Nat /\ Cardinality(Q) \in Nat
  BY ServerAssumption, FS_CardinalityType, FS_Subset
<1>4. Cardinality(P) + Cardinality(Q) > Cardinality(Server)
  BY <1>1, <1>2, <1>3 DEF Majority
<1>5. PICK j \in Server : j \in P /\ j \in Q
  <2>1. P \cap Q # {}
    BY <1>4, ServerAssumption, FS_MajoritiesIntersect
  <2> QED BY <2>1
<1>6. /\ Ballot(j, e.term, e.leader) \in ballots
      /\ Ballot(j, f.term, f.leader) \in ballots
  BY <1>1, <1>2, <1>5
<1> QED BY <1>6, BallotFields DEF ElectionInv, BallotsBind

-----------------------------------------------------------------------------
(* The theorems.                                                           *)

\* No vote is counted that was not given, or given twice in a term.
THEOREM ElectionInvariant == Spec => []ElectionInv
BY InitType, NextType, InitElection, NextElection, PTL DEF Spec

\* Every term has at most one leader, whatever the network does to the votes and
\* however often nodes restart: term and vote, saved before the vote leaves the
\* node, are enough for this.
THEOREM AtMostOneLeader == Spec => []ElectionSafety
BY ElectionInvariant, MajoritiesElectOne, PTL

\* Terms never go back and a vote is never changed within its term, even by a
\* restart.
THEOREM VoteStability == Spec => VoteIsStable
BY InitType, NextType, InitElection, NextElection, PTL DEF Spec, VoteIsStable

-----------------------------------------------------------------------------
(***************************************************************************)
(* m_state and m_current_leader name the same leader between handlers.     *)
(* LeaderFlagAgrees is inductive once it is known that no message is       *)
(* addressed to its sender: otherwise a node could become the follower of  *)
(* itself.                                                                 *)
(***************************************************************************)

-----------------------------------------------------------------------------
(* Messages.                                                               *)

LEMMA SendToAnother ==
    ASSUME ToAnother(messages), NEW ms, ToAnother(ms), Send(ms)
    PROVE  ToAnother(messages)'
BY DEF ToAnother, Send

LEMMA SentToAnother ==
    /\ \A i, t, pre : ToAnother(RequestVoteFrom(i, t, pre))
    /\ \A i, j, L, sn, off : i # j => ToAnother(InstallSnapshotTo(i, j, L, sn, off))
    /\ \A i, j, nx, L, c, sn, off :
          i # j => ToAnother(AppendEntriesTo(i, j, nx, L, c, sn, off))
    /\ \A i, L : ToAnother(AppendEntriesToPeers(i, L))
<1>1. \A i, t, pre : ToAnother(RequestVoteFrom(i, t, pre))
  BY DEF ToAnother, RequestVoteFrom, Peers
<1>2. \A i, j, L, sn, off : i # j => ToAnother(InstallSnapshotTo(i, j, L, sn, off))
  BY DEF ToAnother, InstallSnapshotTo
<1>3. \A i, j, nx, L, c, sn, off :
        i # j => ToAnother(AppendEntriesTo(i, j, nx, L, c, sn, off))
  BY <1>2 DEF ToAnother, AppendEntriesTo
<1>4. \A i, L : ToAnother(AppendEntriesToPeers(i, L))
  BY <1>3 DEF ToAnother, AppendEntriesToPeers, Peers
<1> QED BY <1>1, <1>2, <1>3, <1>4

LEMMA RepliedToAnother ==
    ASSUME NEW m, m.from # m.to
    PROVE  /\ \A g, pre, t : ToAnother(VoteReply(m, g, pre, t))
           /\ \A t, s, ci, ct, L : ToAnother(AppendReply(m, t, s, ci, ct, L))
           /\ \A t, L : ToAnother(SnapshotReply(m, t, L))
BY DEF ToAnother, VoteReply, AppendReply, SnapshotReply

\* Whatever a handler sends goes to another node.
LEMMA ReceiveToAnother ==
    ASSUME ToAnother(messages), NEW m \in messages, Receive(m)
    PROVE  ToAnother(messages)'
<1>1. m.from # m.to
  BY DEF ToAnother
<1>2. CASE HandlePreVote(m) \/ RejectDisruptiveCandidate(m) \/ HandleRequestVote(m)
  <2>1. \E g, pre, t : Send(VoteReply(m, g, pre, t))
    BY <1>2, Zenon DEF HandlePreVote, RejectDisruptiveCandidate, HandleRequestVote
  <2> QED BY <1>1, <2>1, RepliedToAnother, SendToAnother
<1>3. CASE HandlePreVoteGranted(m)
  <2>1. UNCHANGED messages \/ \E t, pre : Send(RequestVoteFrom(m.to, t, pre))
    BY <1>3, Zenon DEF HandlePreVoteGranted, BecomeCandidate
  <2> QED BY <2>1, SentToAnother, SendToAnother DEF ToAnother
<1>4. CASE HandleVoteGranted(m) \/ HandleHigherTermResp(m)
  <2>1. UNCHANGED messages
    BY <1>4 DEF HandleVoteGranted, HandleHigherTermResp
  <2> QED BY <2>1 DEF ToAnother
<1>5. CASE RejectStaleAppendEntries(m) \/ RejectAppendEntries(m)
           \/ AcceptAppendEntries(m)
  <2>1. \E t, s, ci, ct, L : Send(AppendReply(m, t, s, ci, ct, L))
    BY <1>5, Zenon DEF RejectStaleAppendEntries, RejectAppendEntries,
                       AcceptAppendEntries
  <2> QED BY <1>1, <2>1, RepliedToAnother, SendToAnother
<1>6. CASE HandleAppendEntriesAccepted(m)
  <2>1. PICK b, nx, L, c, sn, off :
           Send(IF b THEN AppendEntriesTo(m.to, m.from, nx, L, c, sn, off) ELSE {})
    <3>1. \E b, nx, L, c, sn, off :
             Send(IF b THEN AppendEntriesTo(m.to, m.from, nx, L, c, sn, off) ELSE {})
      BY <1>6, Zenon DEF HandleAppendEntriesAccepted
    <3> QED BY <3>1
  <2> DEFINE ms == IF b THEN AppendEntriesTo(m.to, m.from, nx, L, c, sn, off)
                        ELSE {}
  <2>2. ToAnother(ms)
    BY <1>1, SentToAnother DEF ToAnother
  <2> HIDE DEF ms
  <2>3. Send(ms)
    BY <2>1, Zenon DEF ms
  <2> QED BY <2>2, <2>3, SendToAnother
<1>7. CASE HandleAppendEntriesRejected(m) \/ HandleInstallSnapshotResp(m)
  <2>1. \/ \E L, sn, off : Send(InstallSnapshotTo(m.to, m.from, L, sn, off))
        \/ \E nx, L, c, sn, off :
              Send(AppendEntriesTo(m.to, m.from, nx, L, c, sn, off))
    BY <1>7, Zenon DEF HandleAppendEntriesRejected, HandleInstallSnapshotResp
  <2> QED BY <1>1, <2>1, SentToAnother, SendToAnother
<1>8. CASE RejectStaleInstallSnapshot(m) \/ HandleSnapshotChunk(m)
           \/ HandleSnapshotDone(m)
  <2>1. \E t, L : Send(SnapshotReply(m, t, L))
    BY <1>8, Zenon DEF RejectStaleInstallSnapshot, HandleSnapshotChunk,
                       HandleSnapshotDone
  <2> QED BY <1>1, <2>1, RepliedToAnother, SendToAnother
<1> QED BY <1>2, <1>3, <1>4, <1>5, <1>6, <1>7, <1>8 DEF Receive

-----------------------------------------------------------------------------
(* Role changes.                                                           *)

LEMMA FlagUnchanged ==
    ASSUME LeaderFlagAgrees, UNCHANGED <<role, currentLeader>>
    PROVE  LeaderFlagAgrees'
BY DEF LeaderFlagAgrees

LEMMA BecomeFollowerFlag ==
    ASSUME TypeOK, LeaderFlagAgrees, NEW i \in Server, NEW t, NEW leader,
           leader # i, BecomeFollower(i, t, leader)
    PROVE  LeaderFlagAgrees'
BY DEF LeaderFlagAgrees, BecomeFollower, TypeOK, VoteTypeOK

LEMMA StepDownFlag ==
    ASSUME TypeOK, LeaderFlagAgrees, NEW i \in Server, NEW t, NEW v,
           StepDown(i, t, v)
    PROVE  LeaderFlagAgrees'
BY ServerAssumption DEF LeaderFlagAgrees, StepDown, TypeOK, VoteTypeOK

LEMMA ReceiveFlag ==
    ASSUME TypeOK, LeaderFlagAgrees, ToAnother(messages), NEW m \in messages,
           Receive(m)
    PROVE  LeaderFlagAgrees'
<1>1. m.to \in Server /\ m.from \in Server /\ m.from # m.to
  BY MessageFields DEF TypeOK, ToAnother
<1>2. CASE HandlePreVote(m) \/ RejectDisruptiveCandidate(m)
           \/ RejectStaleAppendEntries(m) \/ RejectStaleInstallSnapshot(m)
           \/ HandleAppendEntriesAccepted(m) \/ HandleAppendEntriesRejected(m)
           \/ HandleInstallSnapshotResp(m)
  <2>1. UNCHANGED voteVars
    BY <1>2 DEF HandlePreVote, RejectDisruptiveCandidate, RejectStaleAppendEntries,
                RejectStaleInstallSnapshot, HandleAppendEntriesAccepted,
                HandleAppendEntriesRejected, HandleInstallSnapshotResp
  <2> QED BY <2>1, FlagUnchanged DEF voteVars
<1>3. CASE HandleRequestVote(m)
  <2>1. \/ \E t, v : StepDown(m.to, t, v)
        \/ UNCHANGED <<role, currentLeader>>
    BY <1>3, Zenon DEF HandleRequestVote
  <2> QED BY <1>1, <2>1, StepDownFlag, FlagUnchanged
<1>4. CASE HandlePreVoteGranted(m)
  <2>1. CASE BecomeCandidate(m.to)
    BY <1>1, <2>1, ServerAssumption
       DEF BecomeCandidate, LeaderFlagAgrees, TypeOK, VoteTypeOK
  <2>2. CASE UNCHANGED <<role, currentLeader>>
    BY <2>2, FlagUnchanged
  <2> QED BY <1>4, <2>1, <2>2 DEF HandlePreVoteGranted
<1>5. CASE HandleVoteGranted(m)
  <2>1. CASE BecomeLeader(m.to)
    <3>1. /\ role' = [role EXCEPT ![m.to] = "LEADER"]
          /\ currentLeader' = [currentLeader EXCEPT ![m.to] = m.to]
      BY <2>1 DEF BecomeLeader
    <3> QED BY <1>1, <3>1 DEF LeaderFlagAgrees, TypeOK, VoteTypeOK
  <2>2. CASE UNCHANGED <<role, currentLeader>>
    BY <2>2, FlagUnchanged
  <2> QED BY <1>5, <2>1, <2>2 DEF HandleVoteGranted
<1>6. CASE HandleHigherTermResp(m)
  BY <1>1, <1>6, StepDownFlag DEF HandleHigherTermResp
<1>7. CASE RejectAppendEntries(m) \/ AcceptAppendEntries(m)
           \/ HandleSnapshotChunk(m) \/ HandleSnapshotDone(m)
  <2>1. BecomeFollower(m.to, m.term, m.from)
    BY <1>7 DEF RejectAppendEntries, AcceptAppendEntries, HandleSnapshotChunk,
                HandleSnapshotDone
  <2> QED BY <1>1, <2>1, BecomeFollowerFlag
<1> QED BY <1>2, <1>3, <1>4, <1>5, <1>6, <1>7 DEF Receive

LEMMA DriverFlag ==
    ASSUME TypeOK, LeaderFlagAgrees, ToAnother(messages), NEW i \in Server,
           \/ Restart(i)
           \/ LeaderLosesContact(i)
           \/ Heartbeat(i)
           \/ ElectionTimeout(i)
           \/ Tick(i)
           \/ \E v \in Value : Submit(i, v)
    PROVE  LeaderFlagAgrees' /\ ToAnother(messages)'
<1>1. CASE Restart(i)
  BY <1>1, ServerAssumption DEF Restart, LeaderFlagAgrees, ToAnother, TypeOK, VoteTypeOK
<1>2. CASE LeaderLosesContact(i)
  <2>1. UNCHANGED messages /\ BecomeFollower(i, currentTerm[i], BAD_NODE)
    BY <1>2 DEF LeaderLosesContact
  <2> QED BY <2>1, BecomeFollowerFlag, ServerAssumption DEF ToAnother
<1>3. CASE Heartbeat(i)
  <2>1. UNCHANGED voteVars /\ Send(AppendEntriesToPeers(i, log[i]))
    BY <1>3 DEF Heartbeat
  <2> QED BY <2>1, FlagUnchanged, SentToAnother, SendToAnother DEF voteVars
<1>4. CASE ElectionTimeout(i)
  <2>1. /\ UNCHANGED <<role, currentLeader>>
        /\ Send(RequestVoteFrom(i, currentTerm[i] + 1, TRUE))
    BY <1>4 DEF ElectionTimeout
  <2> QED BY <2>1, FlagUnchanged, SentToAnother, SendToAnother
<1>5. CASE Tick(i)
  <2>1. UNCHANGED voteVars /\ UNCHANGED messages
    BY <1>5 DEF Tick
  <2> QED BY <2>1, FlagUnchanged DEF voteVars, ToAnother
<1>6. CASE \E v \in Value : Submit(i, v)
  <2>1. UNCHANGED voteVars /\ Send(AppendEntriesToPeers(i, log'[i]))
    BY <1>6, Zenon DEF Submit
  <2> QED BY <2>1, FlagUnchanged, SentToAnother, SendToAnother DEF voteVars
<1> QED BY <1>1, <1>2, <1>3, <1>4, <1>5, <1>6

-----------------------------------------------------------------------------

LEMMA InitFlag == Init => LeaderFlagAgrees /\ ToAnother(messages)
BY ServerAssumption DEF Init, LeaderFlagAgrees, ToAnother

LEMMA NextFlag ==
    TypeOK /\ (LeaderFlagAgrees /\ ToAnother(messages)) /\ [Next]_vars
        => (LeaderFlagAgrees /\ ToAnother(messages))'
<1> SUFFICES ASSUME TypeOK, LeaderFlagAgrees, ToAnother(messages), [Next]_vars
             PROVE  LeaderFlagAgrees' /\ ToAnother(messages)'
  OBVIOUS
<1>1. CASE UNCHANGED vars
  BY <1>1, FlagUnchanged DEF vars, voteVars, ToAnother
<1>2. ASSUME NEW i \in Server,
             Restart(i) \/ LeaderLosesContact(i) \/ Heartbeat(i)
                \/ ElectionTimeout(i) \/ Tick(i) \/ \E v \in Value : Submit(i, v)
      PROVE  LeaderFlagAgrees' /\ ToAnother(messages)'
  BY <1>2, DriverFlag
<1>3. ASSUME NEW m \in messages, Receive(m)
      PROVE  LeaderFlagAgrees' /\ ToAnother(messages)'
  BY <1>3, ReceiveFlag, ReceiveToAnother
<1> QED BY <1>1, <1>2, <1>3 DEF Next

\* is_leader(), which reads m_current_leader, and submit(), which reads m_state,
\* never disagree between handlers.
THEOREM LeaderFlag == Spec => []LeaderFlagAgrees
BY InitType, NextType, InitFlag, NextFlag, PTL DEF Spec

-----------------------------------------------------------------------------
(* Log matching (MatchInv): links of the operations on logs.               *)

LEMMA LogFacts ==
    ASSUME NEW L \in Log
    PROVE  /\ L.base \in Nat /\ L.term \in Nat /\ L.entries \in Seq(Entry)
           /\ Len(L.entries) \in Nat /\ LastIndex(L) = L.base + Len(L.entries)
           /\ LastIndex(L) \in Nat
BY DEF Log, LogOf, LastIndex

\* A part of a sequence.
LEMMA PartFacts ==
    ASSUME NEW s \in Seq(Entry), NEW lo \in Nat \ {0}, NEW hi \in Nat,
           lo <= hi + 1, hi <= Len(s)
    PROVE  LET u == SubSeq(s, lo, hi)
           IN  /\ u \in Seq(Entry) /\ Len(u) = hi - lo + 1
               /\ \A x \in 1 .. hi - lo + 1 : u[x] = s[lo + x - 1]
<1>1. \A x \in lo .. hi : s[x] \in Entry
  OBVIOUS
<1>2. /\ SubSeq(s, lo, hi) \in Seq(Entry)
      /\ Len(SubSeq(s, lo, hi)) = IF lo <= hi THEN hi - lo + 1 ELSE 0
      /\ \A x \in 1 .. hi - lo + 1 : SubSeq(s, lo, hi)[x] = s[lo + x - 1]
  BY <1>1, SubSeqProperties
<1>3. (IF lo <= hi THEN hi - lo + 1 ELSE 0) = hi - lo + 1
  OBVIOUS
<1> QED
  BY <1>2, <1>3

\* A log that agrees with another wherever it has entries has no other links.
LEMMA LinksCovered ==
    ASSUME NEW L, NEW R,
           \A k \in R.base + 1 .. LastIndex(R) :
               /\ k \in L.base + 1 .. LastIndex(L)
               /\ EntryAt(R, k) = EntryAt(L, k)
               /\ TermAt(R, k - 1) = TermAt(L, k - 1)
    PROVE  Links(R) \subseteq Links(L)
BY DEF Links, Link

LEMMA CompactLinks ==
    ASSUME NEW L \in Log, NEW k \in Nat, L.base <= k, k <= LastIndex(L),
           NEW t, t = TermAt(L, k)
    PROVE  /\ Links(CompactTo(L, k, t)) \subseteq Links(L)
           /\ LastIndex(CompactTo(L, k, t)) = LastIndex(L)
<1> DEFINE d == k - L.base
           s == SubSeq(L.entries, d + 1, Len(L.entries))
<1>1. d \in Nat /\ d <= Len(L.entries) /\ LastIndex(L) = L.base + Len(L.entries)
      /\ L.entries \in Seq(Entry) /\ L.base \in Nat /\ Len(L.entries) \in Nat
  BY LogFacts
<1>2. Len(s) = Len(L.entries) - d /\ \A x \in 1 .. Len(L.entries) - d : s[x] = L.entries[d + x]
  <2> DEFINE n == Len(L.entries)
  <2>1. d + 1 \in Nat \ {0} /\ n \in Nat /\ d + 1 <= n + 1 /\ n - (d + 1) + 1 = n - d
    BY <1>1
  <2> HIDE DEF d
  <2>2. Len(s) = n - d /\ \A x \in 1 .. n - d : s[x] = L.entries[(d + 1) + x - 1]
    BY <1>1, <2>1, PartFacts
  <2>3. \A x \in 1 .. n - d : (d + 1) + x - 1 = d + x
    BY <1>1
  <2> QED
    BY <2>2, <2>3
<1>3. PICK R : R = CompactTo(L, k, t)
  OBVIOUS
<1>4. R.base = k /\ R.term = t /\ R.entries = s
  BY <1>3 DEF CompactTo
<1> HIDE DEF s
<1>5. LastIndex(R) = LastIndex(L)
  <2>1. Len(R.entries) = Len(L.entries) - d
    BY <1>2, <1>4
  <2>2. LastIndex(R) = k + (Len(L.entries) - d)
    BY <1>4, <2>1 DEF LastIndex
  <2>3. k + (Len(L.entries) - d) = L.base + Len(L.entries)
    BY <1>1
  <2> QED
    BY <1>1, <2>2, <2>3
<1>6. ASSUME NEW x \in R.base + 1 .. LastIndex(R)
      PROVE  x \in L.base + 1 .. LastIndex(L) /\ EntryAt(R, x) = EntryAt(L, x)
  <2>1. x - k \in 1 .. Len(L.entries) - d /\ d + (x - k) = x - L.base
    BY <1>1, <1>4, <1>5, SMTT(30)
  <2> QED
    BY <1>1, <1>2, <1>4, <1>5, <2>1 DEF EntryAt
<1>7. ASSUME NEW x \in R.base + 1 .. LastIndex(R)
      PROVE  TermAt(R, x - 1) = TermAt(L, x - 1)
  <2>1. CASE x - 1 = 0
    BY <2>1 DEF TermAt
  <2>2. CASE x - 1 # 0 /\ x - 1 = k
    BY <1>4, <2>2 DEF TermAt
  <2>3. CASE x - 1 # 0 /\ x - 1 # k
    <3>1. x - 1 \in R.base + 1 .. LastIndex(R) /\ x - 1 # L.base
      BY <1>1, <1>4, <1>5, <2>3
    <3>2. Live(R, x - 1) /\ Live(L, x - 1) /\ EntryAt(R, x - 1) = EntryAt(L, x - 1)
      BY <1>1, <1>4, <1>5, <1>6, <3>1 DEF Live
    <3> QED
      BY <1>4, <2>3, <3>1, <3>2 DEF TermAt
  <2> QED
    BY <2>1, <2>2, <2>3
<1>8. Links(R) \subseteq Links(L)
  BY <1>6, <1>7, LinksCovered
<1> QED
  BY <1>3, <1>5, <1>8

LEMMA PushLinks ==
    ASSUME NEW L \in Log, NEW e \in Entry
    PROVE  /\ Links(Push(L, e)) \subseteq
                  Links(L) \union {Link(LastIndex(L) + 1, TermAt(L, LastIndex(L)), e)}
           /\ Links(L) \subseteq Links(Push(L, e))
           /\ \/ Full(L) /\ Push(L, e) = L
              \/ ~Full(L) /\ LastIndex(Push(L, e)) = LastIndex(L) + 1
<1>1. CASE Full(L)
  BY <1>1 DEF Push
<1>2. CASE ~Full(L)
  <2> DEFINE n == Len(L.entries)
             s == Append(L.entries, e)
  <2>1. n \in Nat /\ LastIndex(L) = L.base + n /\ L.base \in Nat /\ L.entries \in Seq(Entry)
    BY LogFacts
  <2>2. Len(s) = n + 1 /\ s[n + 1] = e /\ \A x \in 1 .. n : s[x] = L.entries[x]
    BY <2>1
  <2>3. PICK R : R = Push(L, e)
    OBVIOUS
  <2>4. R.base = L.base /\ R.term = L.term /\ R.entries = s
    BY <1>2, <2>3 DEF Push, Log, LogOf
  <2> HIDE DEF s
  <2>5. LastIndex(R) = LastIndex(L) + 1
    <3>1. Len(R.entries) = n + 1
      BY <2>2, <2>4
    <3> QED
      BY <2>1, <2>4, <3>1 DEF LastIndex
  <2> HIDE DEF n
  <2>6. ASSUME NEW k \in L.base + 1 .. LastIndex(L) PROVE EntryAt(R, k) = EntryAt(L, k)
    <3>1. k - L.base \in 1 .. n
      BY <2>1
    <3> QED
      BY <2>2, <2>4, <3>1 DEF EntryAt
  <2>7. ASSUME NEW k \in L.base + 1 .. LastIndex(L) + 1
        PROVE  TermAt(R, k - 1) = TermAt(L, k - 1)
    <3>1. CASE k - 1 = 0 \/ k - 1 = L.base
      BY <2>4, <3>1 DEF TermAt
    <3>2. CASE k - 1 # 0 /\ k - 1 # L.base
      <4>1. k - 1 \in L.base + 1 .. LastIndex(L)
        BY <2>1, <3>2
      <4>2. Live(R, k - 1) /\ Live(L, k - 1) /\ EntryAt(R, k - 1) = EntryAt(L, k - 1)
        BY <2>1, <2>4, <2>5, <2>6, <4>1 DEF Live
      <4> QED
        BY <2>4, <3>2, <4>2 DEF TermAt
    <3> QED
      BY <3>1, <3>2
  <2>8. EntryAt(R, LastIndex(L) + 1) = e
    <3>1. (LastIndex(L) + 1) - L.base = n + 1
      BY <2>1
    <3> QED
      BY <2>2, <2>4, <3>1 DEF EntryAt
  <2>9. ASSUME NEW a \in Links(R)
        PROVE  a \in Links(L) \/ a = Link(LastIndex(L) + 1, TermAt(L, LastIndex(L)), e)
    <3>1. PICK k \in L.base + 1 .. LastIndex(L) + 1 :
             a = Link(k, TermAt(R, k - 1), EntryAt(R, k))
      BY <2>4, <2>5 DEF Links
    <3>2. CASE k = LastIndex(L) + 1
      <4>1. k - 1 = LastIndex(L)
        BY <2>1, <3>2
      <4> QED
        BY <2>7, <2>8, <3>1, <3>2, <4>1
    <3>3. CASE k # LastIndex(L) + 1
      <4>1. k \in L.base + 1 .. LastIndex(L)
        BY <2>1, <3>3
      <4> QED
        BY <2>6, <2>7, <3>1, <4>1 DEF Links
    <3> QED
      BY <3>2, <3>3
  <2>10. Links(L) \subseteq Links(R)
    <3>1. ASSUME NEW k \in L.base + 1 .. LastIndex(L)
          PROVE  k \in R.base + 1 .. LastIndex(R) /\ k \in L.base + 1 .. LastIndex(L) + 1
      BY <2>1, <2>4, <2>5
    <3> QED
      BY <2>6, <2>7, <3>1, LinksCovered
  <2> QED
    BY <1>2, <2>3, <2>5, <2>9, <2>10
<1> QED
  BY <1>1, <1>2

\* A message carries links of the log it was made from.
LEMMA SentLinks ==
    ASSUME NEW L \in Log, NEW i, NEW j, NEW nx \in Nat \ {0}, NEW c, NEW sn, NEW off,
           NEW m \in AppendEntriesTo(i, j, nx, L, c, sn, off), m.type = "AppendEntries"
    PROVE  MessageLinks(m) \subseteq Links(L)
<1> DEFINE p == nx - 1
           lo == Max({p, L.base}) - L.base + 1
           hi == Min({p + MaxAppendEntries, LastIndex(L)}) - L.base
           es == SubSeq(L.entries, lo, hi)
<1>1. ~(p < L.base \/ TermAt(L, p) = NoTerm)
  BY DEF AppendEntriesTo, InstallSnapshotTo
<1>2. m.prevIndex = p /\ m.prevTerm = TermAt(L, p) /\ m.entries = es
  <2>1. m = [type |-> "AppendEntries", term |-> currentTerm[i], from |-> i, to |-> j,
             prevIndex |-> p, prevTerm |-> TermAt(L, p), commit |-> c,
             entries |-> EntriesBetween(L, p, p + MaxAppendEntries)]
    BY <1>1 DEF AppendEntriesTo
  <2>2. EntriesBetween(L, p, p + MaxAppendEntries) = es
    BY DEF EntriesBetween
  <2> HIDE DEF p, es
  <2> QED
    BY <2>1, <2>2
<1>3. /\ L.base \in Nat /\ L.entries \in Seq(Entry) /\ Len(L.entries) \in Nat /\ p \in Nat
      /\ LastIndex(L) = L.base + Len(L.entries) /\ MaxAppendEntries \in Nat
      /\ p >= L.base /\ p <= LastIndex(L)
  <2>1. p \in Nat /\ L \in LogOf(Entry)
    BY DEF Log
  <2>2. p <= LastIndex(L)
    BY <1>1, <2>1, TermAtType, EntryTerm
  <2> QED
    BY <1>1, <2>1, <2>2, LogFacts, ConfigAssumption
<1>4. lo = p - L.base + 1
  BY <1>3, MaxPair
<1>5. hi \in Nat /\ lo \in Nat \ {0} /\ hi <= Len(L.entries) /\ lo <= hi + 1
  <2>1. Min({p + MaxAppendEntries, LastIndex(L)}) =
          IF p + MaxAppendEntries <= LastIndex(L) THEN p + MaxAppendEntries ELSE LastIndex(L)
    BY <1>3, MinPair
  <2>2. PICK q : q = Min({p + MaxAppendEntries, LastIndex(L)})
    OBVIOUS
  <2>3. hi = q - L.base /\ q >= p /\ q <= LastIndex(L) /\ q \in Nat
    BY <1>3, <2>1, <2>2
  <2> HIDE DEF hi, lo
  <2> QED
    BY <1>3, <1>4, <2>3, SMTT(30)
<1> HIDE DEF lo, hi
<1>6. Len(es) = hi - lo + 1 /\ \A x \in 1 .. hi - lo + 1 : es[x] = L.entries[lo + x - 1]
  BY <1>3, <1>5, PartFacts
<1> HIDE DEF es, p
<1>7. ASSUME NEW x \in 1 .. Len(es)
      PROVE  p + x \in L.base + 1 .. LastIndex(L) /\ es[x] = EntryAt(L, p + x)
  <2>1. lo + x - 1 = (p + x) - L.base /\ x \in 1 .. hi - lo + 1
    BY <1>3, <1>4, <1>6
  <2>2. es[x] = EntryAt(L, p + x)
    BY <1>6, <2>1 DEF EntryAt
  <2>3. p + x \in L.base + 1 .. LastIndex(L)
    <3>1. 1 <= x /\ x <= hi - (p - L.base + 1) + 1 /\ x \in Int
      BY <1>3, <1>4, <1>5, <2>1
    <3>2. p + x <= L.base + hi
      BY <1>3, <1>5, <3>1
    <3>3. L.base + hi <= LastIndex(L) /\ p + x >= L.base + 1 /\ p + x \in Int
      BY <1>3, <1>5, <3>1, SMTT(30)
    <3>4. LastIndex(L) \in Int /\ L.base + hi \in Int
      BY <1>3, <1>5
    <3> QED
      BY <1>3, <3>2, <3>3, <3>4
  <2> QED
    BY <2>2, <2>3
<1>8. ASSUME NEW x \in 1 .. Len(es)
      PROVE  (IF x = 1 THEN TermAt(L, p) ELSE es[x - 1].term) = TermAt(L, (p + x) - 1)
  <2>1. CASE x = 1
    BY <1>3, <2>1
  <2>2. CASE x # 1
    <3>1. x - 1 \in 1 .. Len(es)
      <4>1. Len(es) \in Int
        BY <1>5, <1>6
      <4> QED
        BY <2>2, <4>1
    <3>2. /\ p + (x - 1) \in L.base + 1 .. LastIndex(L)
          /\ es[x - 1] = EntryAt(L, p + (x - 1)) /\ p + (x - 1) = (p + x) - 1
      BY <1>3, <1>7, <3>1
    <3>3. Live(L, (p + x) - 1) /\ (p + x) - 1 # 0 /\ (p + x) - 1 # L.base
      BY <1>3, <3>2 DEF Live
    <3> QED
      BY <2>2, <3>2, <3>3 DEF TermAt
  <2> QED
    BY <2>1, <2>2
<1>9. ASSUME NEW a \in MessageLinks(m) PROVE a \in Links(L)
  <2>1. PICK x \in 1 .. Len(es) :
           a = Link(p + x, IF x = 1 THEN TermAt(L, p) ELSE es[x - 1].term, es[x])
    BY <1>2 DEF MessageLinks
  <2>2. a = Link(p + x, TermAt(L, (p + x) - 1), EntryAt(L, p + x))
    BY <1>7, <1>8, <2>1
  <2> QED
    BY <1>7, <2>2 DEF Links
<1> QED
  BY <1>9

\* What the append loop makes: the log itself, or the log up to some entry of the
\* message, followed by that entry and later ones of it.
LEMMA AppendFromShape ==
    ASSUME NEW L \in Log, NEW p \in Nat, p <= LastIndex(L), NEW es \in Seq(Entry),
           NewEntries(L, p, es) # {}
    PROVE  \E f \in 1 .. Len(es), n \in Nat : Joined(L, p, es, AppendFrom(L, p, es), f, n)
<1> DEFINE first == Min(NewEntries(L, p, es))
           keep  == SubSeq(L.entries, 1, p + first - 1 - L.base)
           room  == LogCapacity - Len(keep)
           top   == Min({Len(es), first - 1 + room})
           added == SubSeq(es, first, top)
<1>1. /\ L.entries \in Seq(Entry) /\ L.base \in Nat /\ Len(L.entries) \in Nat
      /\ Len(es) \in Nat /\ LastIndex(L) = L.base + Len(L.entries) /\ LastIndex(L) \in Nat
  BY LogFacts
<1>2. NewEntries(L, p, es) # {}
  OBVIOUS
<1>3. first \in NewEntries(L, p, es) /\ \A y \in NewEntries(L, p, es) : first =< y
  <2>1. NewEntries(L, p, es) \in SUBSET Nat
    BY <1>1 DEF NewEntries
  <2> QED
    BY <1>2, <2>1, MinOfNaturals
<1>4. first \in 1 .. Len(es) /\ p + first > L.base
  BY <1>3 DEF NewEntries
<1>5. AppendFrom(L, p, es) = [L EXCEPT !.entries = keep \o added]
  BY <1>2, Zenon DEF AppendFrom
<1> HIDE DEF first
<1>6. ASSUME first > 1
      PROVE  p + first - 1 <= L.base \/ TermAt(L, p + first - 1) = es[first - 1].term
  <2>1. first - 1 \in 1 .. Len(es) /\ first - 1 \notin NewEntries(L, p, es)
        /\ p + (first - 1) = p + first - 1
    BY <1>1, <1>3, <1>4, <1>6
  <2> QED
    BY <1>1, <1>4, <2>1 DEF NewEntries
<1>7. p + first - 1 <= LastIndex(L)
  <2>1. CASE first = 1
    BY <1>1, <2>1
  <2>2. CASE first # 1 /\ p + first - 1 <= L.base
    BY <1>1, <1>4, <2>2
  <2>3. CASE first # 1 /\ ~(p + first - 1 <= L.base)
    <3>1. first - 1 \in 1 .. Len(es) /\ p + first - 1 \in Nat
      BY <1>1, <1>4, <2>3
    <3>2. es[first - 1] \in Entry
      BY <3>1
    <3>3. TermAt(L, p + first - 1) # NoTerm
      BY <1>4, <1>6, <2>3, <3>2, EntryTerm DEF NoTerm
    <3> QED
      BY <3>1, <3>3, TermAtType, EntryTerm DEF Log
  <2> QED
    BY <2>1, <2>2, <2>3
<1> DEFINE w == p + first - 1 - L.base
<1>8. w \in Nat /\ w <= Len(L.entries) /\ p + first - 1 = L.base + w
  BY <1>1, <1>4, <1>7
<1>9. keep \in Seq(Entry) /\ Len(keep) = w /\ \A x \in 1 .. w : keep[x] = L.entries[x]
  <2> HIDE DEF w
  <2>1. /\ SubSeq(L.entries, 1, w) \in Seq(Entry) /\ Len(SubSeq(L.entries, 1, w)) = w - 1 + 1
        /\ \A x \in 1 .. w - 1 + 1 : SubSeq(L.entries, 1, w)[x] = L.entries[1 + x - 1]
    BY <1>1, <1>8, PartFacts
  <2>2. w - 1 + 1 = w /\ \A x \in 1 .. w : 1 + x - 1 = x
    BY <1>8
  <2>3. keep = SubSeq(L.entries, 1, w)
    BY DEF w
  <2> QED
    BY <2>1, <2>2, <2>3
<1> HIDE DEF keep
<1>10. room \in Int
  BY <1>8, <1>9, LogCapacityAssumption
<1>11a. p + Len(es) <= L.base + LogCapacity => Len(es) <= first - 1 + room
  <2>1. /\ first \in Int /\ p \in Int /\ L.base \in Int /\ Len(es) \in Int /\ LogCapacity \in Int
        /\ Len(keep) = p + first - 1 - L.base
    BY <1>1, <1>4, <1>9, LogCapacityAssumption
  <2>2. room = LogCapacity - (p + first - 1 - L.base)
    BY <2>1
  <2>3. first - 1 + room = LogCapacity + L.base - p
    <3> HIDE DEF room
    <3> QED
      BY <2>1, <2>2
  <2> HIDE DEF room
  <2> QED
    BY <2>1, <2>3
<1> HIDE DEF room
<1>11b. p + Len(es) <= L.base + LogCapacity => top = Len(es)
  <2>1. Len(es) \in Int /\ first - 1 + room \in Int
    BY <1>1, <1>4, <1>10
  <2>2. top = IF Len(es) =< first - 1 + room THEN Len(es) ELSE first - 1 + room
    BY <2>1, MinPair, Zenon
  <2> QED
    BY <1>11a, <2>2, Zenon
<1>11. top \in Int /\ top <= Len(es)
  <2>1. Len(es) \in Int /\ first - 1 + room \in Int
    BY <1>1, <1>4, <1>10
  <2>2. top = IF Len(es) =< first - 1 + room THEN Len(es) ELSE first - 1 + room
    BY <2>1, MinPair, Zenon
  <2> QED
    BY <2>1, <2>2
<1> HIDE DEF top
<1> DEFINE n == Len(added)
<1>12. /\ added \in Seq(Entry) /\ n \in Nat /\ n <= Len(es) - first + 1
       /\ top = Len(es) => n = Len(es) - first + 1
       /\ \A x \in 1 .. n : added[x] = es[first + x - 1]
  <2>1. CASE first <= top
    <3>1. first \in Nat \ {0} /\ top \in Nat /\ first <= top + 1
      BY <1>1, <1>4, <1>11, <2>1
    <3>2. /\ added \in Seq(Entry) /\ Len(added) = top - first + 1
          /\ \A x \in 1 .. top - first + 1 : added[x] = es[first + x - 1]
      BY <1>11, <3>1, PartFacts
    <3> HIDE DEF added
    <3>3. n = top - first + 1 /\ n \in Nat /\ n <= Len(es) - first + 1
      BY <1>1, <1>4, <1>11, <2>1, <3>2
    <3> HIDE DEF n
    <3> QED
      BY <3>2, <3>3
  <2>2. CASE ~(first <= top)
    <3>1. \A x \in first .. top : es[x] \in Entry
      BY <1>4, <1>11, <2>2
    <3>2. added \in Seq(Entry) /\ Len(added) = IF first <= top THEN top - first + 1 ELSE 0
      BY <1>4, <1>11, <3>1, SubSeqProperties
    <3> HIDE DEF added
    <3> QED
      BY <1>1, <1>4, <2>2, <3>2
  <2> QED
    BY <2>1, <2>2
<1> HIDE DEF added
<1>13. PICK R : R = AppendFrom(L, p, es)
  OBVIOUS
<1>14. R.base = L.base /\ R.term = L.term /\ R.entries = keep \o added
  BY <1>5, <1>13 DEF Log, LogOf
<1>15. /\ Len(keep \o added) = w + n
       /\ \A x \in 1 .. w : (keep \o added)[x] = L.entries[x]
       /\ \A x \in w + 1 .. w + n : (keep \o added)[x] = es[first + (x - w) - 1]
  <2> HIDE DEF w
  <2>1. /\ Len(keep \o added) = Len(keep) + Len(added)
        /\ \A x \in 1 .. Len(keep) : (keep \o added)[x] = keep[x]
        /\ \A x \in Len(keep) + 1 .. Len(keep) + Len(added) :
              (keep \o added)[x] = added[x - Len(keep)]
    <3>1. /\ Len(keep \o added) = Len(keep) + Len(added)
          /\ \A x \in 1 .. Len(keep) + Len(added) :
                (keep \o added)[x] = IF x <= Len(keep) THEN keep[x] ELSE added[x - Len(keep)]
      BY <1>9, <1>12, ConcatProperties
    <3>2. Len(keep) \in Nat /\ Len(added) \in Nat
      BY <1>8, <1>9, <1>12
    <3> QED
      BY <3>1, <3>2
  <2>2. \A x \in w + 1 .. w + n : x - w \in 1 .. n
    BY <1>8, <1>12
  <2> QED
    BY <1>9, <1>12, <2>1, <2>2
<1>16. LastIndex(R) = p + first - 1 + n
  <2>1. Len(R.entries) = w + n
    BY <1>14, <1>15
  <2>2. LastIndex(R) = L.base + (w + n)
    BY <1>14, <2>1 DEF LastIndex
  <2> QED
    BY <1>1, <1>8, <1>12, <2>2
<1> HIDE DEF w, n
<1>17. ASSUME NEW k \in L.base + 1 .. p + first - 1
       PROVE  EntryAt(R, k) = EntryAt(L, k)
  <2>1. k - L.base \in 1 .. w
    BY <1>1, <1>8
  <2>2. EntryAt(R, k) = R.entries[k - L.base]
    BY <1>14 DEF EntryAt
  <2> QED
    BY <1>14, <1>15, <2>1, <2>2 DEF EntryAt
<1>18. ASSUME NEW k \in p + first .. p + first - 1 + n
       PROVE  EntryAt(R, k) = es[k - p]
  <2>1. n \in Nat /\ w \in Nat /\ p + first - 1 = L.base + w
    BY <1>8, <1>12 DEF n
  <2>2. k - L.base \in w + 1 .. w + n /\ first + ((k - L.base) - w) - 1 = k - p
    <3>1. first \in Int /\ p \in Int /\ L.base \in Int /\ k \in Int /\ w = p + first - 1 - L.base
      BY <1>1, <1>4, <2>1, SMTT(30)
    <3>2. p + first <= k /\ k <= p + first - 1 + n
      BY <2>1, <3>1
    <3>3. w + 1 <= k - L.base /\ k - L.base <= w + n
      BY <2>1, <3>1, <3>2, SMTT(30)
    <3>4. first + ((k - L.base) - w) - 1 = k - p
      <4>1. (k - L.base) - w = k - p - first + 1
        BY <2>1, <3>1
      <4>2. first + (k - p - first + 1) - 1 = k - p
        BY <3>1
      <4> QED
        BY <4>1, <4>2
    <3> QED
      BY <2>1, <3>1, <3>3, <3>4
  <2>3. EntryAt(R, k) = R.entries[k - L.base]
    BY <1>14 DEF EntryAt
  <2> QED
    BY <1>14, <1>15, <2>2, <2>3
<1>19. Joined(L, p, es, R, first, n)
  BY <1>3, <1>4, <1>6, <1>7, <1>11b, <1>12, <1>14, <1>16, <1>17, <1>18 DEF n, Joined
<1>20. first \in 1 .. Len(es) /\ n \in Nat
  BY <1>4, <1>12 DEF n
<1> QED
  BY <1>13, <1>19, <1>20

\* Where the message is joined to the log their terms agree: the consistency check
\* and the loop compared them, or the edge hides one that EdgesAgree speaks of.
LEMMA AppendLinks ==
    ASSUME NEW L \in Log, NEW m, m.prevIndex \in Nat, m.entries \in Seq(Entry),
           PrevMatches(m, L),
           \A k \in 1 .. Len(m.entries) :
               m.prevIndex + k = L.base => m.entries[k].term = L.term
    PROVE  Links(AppendFrom(L, m.prevIndex, m.entries)) \subseteq Links(L) \union MessageLinks(m)
<1>1. PICK p, es, R : p = m.prevIndex /\ es = m.entries /\ R = AppendFrom(L, p, es)
  OBVIOUS
<1>2. p \in Nat /\ es \in Seq(Entry) /\ Len(es) \in Nat
  BY <1>1
<1>3. p <= LastIndex(L) /\ (p < L.base \/ TermAt(L, p) = m.prevTerm)
  BY <1>1 DEF PrevMatches
<1>4. /\ L.base \in Nat /\ LastIndex(L) \in Nat
      /\ \A k \in 1 .. Len(es) : p + k = L.base => es[k].term = L.term
  BY <1>1, LogFacts
<1>5. CASE R = L
  BY <1>1, <1>5
<1>6. CASE R # L
  <2>00. NewEntries(L, p, es) # {}
    BY <1>1, <1>6 DEF AppendFrom
  <2>0. PICK f \in 1 .. Len(es), n \in Nat : Joined(L, p, es, R, f, n)
    BY <1>1, <1>2, <1>3, <2>00, AppendFromShape
  <2>1. /\ p + f > L.base /\ p + f - 1 <= LastIndex(L) /\ n <= Len(es) - f + 1
        /\ f > 1 => p + f - 1 <= L.base \/ TermAt(L, p + f - 1) = es[f - 1].term
        /\ R.base = L.base /\ R.term = L.term /\ LastIndex(R) = p + f - 1 + n
        /\ \A k \in L.base + 1 .. p + f - 1 : EntryAt(R, k) = EntryAt(L, k)
        /\ \A k \in p + f .. p + f - 1 + n : EntryAt(R, k) = es[k - p]
        /\ f \in Nat /\ f >= 1
    BY <1>2, <2>0 DEF Joined
  <2>2. PICK j : j = p + f - 1
    OBVIOUS
  <2>3. j \in Nat /\ j >= L.base /\ j <= LastIndex(L) /\ j >= p
    BY <1>2, <1>4, <2>1, <2>2, SMTT(30)
  <2>4. ASSUME NEW x \in L.base .. j PROVE TermAt(R, x) = TermAt(L, x)
    <3>1. CASE x = 0 \/ x = L.base
      BY <2>1, <3>1 DEF TermAt
    <3>2. CASE x # 0 /\ x # L.base
      <4>1. x \in L.base + 1 .. p + f - 1 /\ x <= LastIndex(R) /\ x <= LastIndex(L)
        BY <1>2, <1>4, <2>1, <2>2, <2>3, <3>2
      <4>2. EntryAt(R, x) = EntryAt(L, x) /\ Live(R, x) /\ Live(L, x)
        BY <1>4, <2>1, <4>1 DEF Live
      <4> QED
        BY <2>1, <3>2, <4>2 DEF TermAt
    <3> QED
      BY <3>1, <3>2
  <2>5. ASSUME NEW a \in Links(R) PROVE a \in Links(L) \/ a \in MessageLinks(m)
    <3>1. PICK k \in L.base + 1 .. j + n : a = Link(k, TermAt(R, k - 1), EntryAt(R, k))
      BY <2>1, <2>2 DEF Links
    <3>2. CASE k <= j
      <4>1. k \in L.base + 1 .. p + f - 1 /\ k - 1 \in L.base .. j
            /\ k \in L.base + 1 .. LastIndex(L)
        BY <1>4, <2>2, <2>3, <3>2
      <4> QED
        BY <2>1, <2>4, <3>1, <4>1 DEF Links
    <3>3. CASE ~(k <= j)
      <4>1. PICK x : x = k - p
        OBVIOUS
      <4>2. x \in 1 .. Len(es) /\ k = p + x /\ k \in p + f .. p + f - 1 + n
        <5>1. k \in Int /\ k >= p + f /\ k <= p + f - 1 + n
          BY <1>2, <1>4, <2>1, <2>2, <2>3, <3>3
        <5>2. x \in Int /\ x >= f /\ x <= f - 1 + n /\ k = p + x
          <6>1. x \in Int /\ k = p + x
            BY <1>2, <4>1, <5>1
          <6>2. p + x >= p + f /\ p + x <= p + f - 1 + n
            BY <5>1, <6>1
          <6>3. p \in Int /\ f \in Int /\ n \in Int
            BY <1>2, <2>1
          <6>4. x >= f
            BY <6>1, <6>2, <6>3
          <6>5. x <= f - 1 + n
            BY <6>1, <6>2, <6>3
          <6> QED
            BY <6>1, <6>4, <6>5
        <5>3. x <= Len(es)
          BY <1>2, <2>1, <5>2
        <5> QED
          BY <1>2, <2>1, <5>1, <5>2, <5>3
      <4>3. EntryAt(R, k) = es[x]
        BY <2>1, <4>1, <4>2
      <4>4. TermAt(R, k - 1) = IF x = 1 THEN m.prevTerm ELSE es[x - 1].term
        <5>1. CASE k - 1 # j
          <6>1. k - 1 \in p + f .. p + f - 1 + n /\ k - 1 > L.base /\ k - 1 <= LastIndex(R)
                /\ (k - 1) - p = x - 1 /\ x # 1 /\ k - 1 # 0
            BY <1>2, <1>4, <2>1, <2>2, <2>3, <3>3, <4>2, <5>1
          <6>2. EntryAt(R, k - 1) = es[x - 1] /\ Live(R, k - 1)
            BY <2>1, <6>1 DEF Live
          <6> QED
            BY <1>4, <2>1, <6>1, <6>2 DEF TermAt
        <5>2. CASE k - 1 = j
          <6>1. TermAt(R, k - 1) = TermAt(L, j) /\ x = f
            <7>1. j \in L.base .. j
              BY <1>4, <2>3
            <7>2. x = f
              BY <1>2, <2>1, <2>2, <4>2, <5>2
            <7> QED
              BY <2>4, <5>2, <7>1, <7>2
          <6>2. CASE f = 1
            <7>1. j = p /\ ~(p < L.base)
              BY <1>2, <1>4, <2>1, <2>2, <6>2
            <7> QED
              BY <1>3, <6>1, <6>2, <7>1
          <6>3. CASE f # 1 /\ j # L.base
            BY <1>4, <2>1, <2>2, <2>3, <6>1, <6>3
          <6>4. CASE f # 1 /\ j = L.base
            <7>1. f - 1 \in 1 .. Len(es) /\ p + (f - 1) = L.base /\ j # 0
              <8>1. f - 1 \in 1 .. Len(es)
                BY <1>2, <2>1, <6>4
              <8>2. p + (f - 1) = j
                BY <1>2, <2>1, <2>2
              <8> QED
                BY <1>2, <6>4, <8>1, <8>2
            <7>2. TermAt(L, j) = L.term
              BY <6>4, <7>1 DEF TermAt
            <7> QED
              BY <1>4, <6>1, <6>4, <7>1, <7>2
          <6> QED
            BY <6>2, <6>3, <6>4
        <5> QED
          BY <5>1, <5>2
      <4>5. a = Link(p + x, IF x = 1 THEN m.prevTerm ELSE es[x - 1].term, es[x])
        BY <3>1, <4>2, <4>3, <4>4
      <4> QED
        BY <1>1, <4>2, <4>5 DEF MessageLinks
    <3> QED
      BY <3>2, <3>3
  <2> QED
    BY <1>1, <2>5
<1> QED
  BY <1>5, <1>6

\* Links are made of indices and entries.
LEMMA LinkType ==
    ASSUME TypeOK
    PROVE  \A a \in AllLinks : a.index \in Nat
<1>1. ASSUME NEW i \in Server, NEW a \in Links(log[i]) PROVE a.index \in Nat
  <2>1. log[i].base \in Nat /\ LastIndex(log[i]) \in Nat
    BY LogFacts DEF TypeOK, LogTypeOK
  <2> QED
    BY <2>1 DEF Links, Link
<1>2. ASSUME NEW m \in messages, m.type = "AppendEntries", NEW a \in MessageLinks(m)
      PROVE  a.index \in Nat
  <2>1. m.prevIndex \in Nat /\ Len(m.entries) \in Nat
    BY <1>2, MessageFields DEF TypeOK
  <2> QED
    BY <2>1 DEF MessageLinks, Link
<1> QED
  BY <1>1, <1>2 DEF AllLinks

-----------------------------------------------------------------------------
(* No step but a push makes a link.                                        *)

LEMMA AllLinksHas ==
    /\ \A i \in Server : Links(log[i]) \subseteq AllLinks
    /\ \A m \in messages : m.type = "AppendEntries" => MessageLinks(m) \subseteq AllLinks
BY DEF AllLinks

LEMMA LinksKept ==
    ASSUME NEW A, \A j \in Server : Links(log'[j]) \subseteq A, AllLinks \subseteq A,
           NEW ms, messages' \subseteq messages \union ms,
           \A m \in ms : Plain(m) \/ MessageLinks(m) \subseteq A
    PROVE  AllLinks' \subseteq A
<1>1. \A m \in messages' : m.type = "AppendEntries" => MessageLinks(m) \subseteq A
  BY AllLinksHas DEF Plain
<1>2. AllLinks' = (UNION {Links(log'[i]) : i \in Server})
          \union (UNION {MessageLinks(m) : m \in {r \in messages' : r.type = "AppendEntries"}})
  BY DEF AllLinks
<1> QED
  BY <1>1, <1>2

\* What is elected stays so, and a node that was elected is no candidate again.
LEMMA ElectedOnceKept ==
    ASSUME TypeOK, TypeOK', ElectedOnce, elected' = elected, RolesKept
    PROVE  ElectedOnce'
<1> SUFFICES ASSUME NEW e \in elected
             PROVE  /\ e.term <= currentTerm'[e.leader]
                    /\ role'[e.leader] = "CANDIDATE" => e.term < currentTerm'[e.leader]
  BY DEF ElectedOnce
<1>1. e.leader \in Server /\ e.term \in Nat /\ currentTerm[e.leader] \in Nat
      /\ currentTerm'[e.leader] \in Nat
  BY DEF TypeOK, HistoryTypeOK, VoteTypeOK
<1>2. /\ e.term <= currentTerm[e.leader]
      /\ role[e.leader] = "CANDIDATE" => e.term < currentTerm[e.leader]
  BY DEF ElectedOnce
<1>3. PICK i \in Server : i = e.leader
  BY <1>1
<1> QED
  BY <1>1, <1>2, <1>3 DEF RolesKept

LEMMA MatchKept ==
    ASSUME TypeOK, TypeOK', MatchInv, elected' = elected, RolesKept,
           \A j \in Server : Links(log'[j]) \subseteq AllLinks,
           \A j \in Server : role'[j] = "LEADER" => LastIndex(log'[j]) >= LastIndex(log[j]),
           NEW ms, messages' \subseteq messages \union ms,
           \A m \in ms : Plain(m) \/ MessageLinks(m) \subseteq AllLinks
    PROVE  MatchInv'
<1>1. AllLinks' \subseteq AllLinks
  BY LinksKept
<1>2. OneLink'
  BY <1>1 DEF MatchInv, OneLink
<1>3. LinksOfElected'
  BY <1>1 DEF MatchInv, LinksOfElected
<1>4. LeaderHasLinks'
  <2> SUFFICES ASSUME NEW i \in Server, role'[i] = "LEADER"
               PROVE  /\ [term |-> currentTerm'[i], leader |-> i] \in elected
                      /\ \A a \in AllLinks' :
                            a.entry.term = currentTerm'[i] => a.index <= LastIndex(log'[i])
    BY DEF LeaderHasLinks
  <2>1. role[i] = "LEADER" /\ currentTerm'[i] = currentTerm[i]
    BY DEF RolesKept
  <2>2. /\ [term |-> currentTerm[i], leader |-> i] \in elected
        /\ \A a \in AllLinks : a.entry.term = currentTerm[i] => a.index <= LastIndex(log[i])
    BY <2>1 DEF MatchInv, LeaderHasLinks
  <2>3. LastIndex(log'[i]) \in Nat /\ LastIndex(log[i]) \in Nat
        /\ LastIndex(log'[i]) >= LastIndex(log[i])
    BY LogFacts DEF TypeOK, LogTypeOK
  <2>4. \A a \in AllLinks : a.index \in Nat
    BY LinkType
  <2> QED
    BY <1>1, <2>1, <2>2, <2>3, <2>4
<1>5. ElectedOnce'
  BY ElectedOnceKept DEF MatchInv
<1> QED
  BY <1>2, <1>3, <1>4, <1>5 DEF MatchInv

\* apply_committed compacts, or leaves the log as it is.
LEMMA ApplyLinks ==
    ASSUME LogTypeOK, NEW i \in Server, NEW L \in Log, NEW c \in Nat, NEW la \in Nat,
           NEW h, NEW sn, ApplyCommitted(i, L, c, la, h, sn)
    PROVE  /\ Links(log'[i]) \subseteq Links(L) /\ LastIndex(log'[i]) = LastIndex(L)
           /\ \A j \in Server : j # i => log'[j] = log[j]
<1>1. PICK n : n = Max({la, c})
  OBVIOUS
<1>2. n \in Nat
  BY <1>1, MaxPair
<1>3. log' = [log EXCEPT ![i] = IF Compacts(L, n) THEN CompactTo(L, n, TermAt(L, n)) ELSE L]
  BY <1>1 DEF ApplyCommitted
<1>4. /\ log'[i] = IF Compacts(L, n) THEN CompactTo(L, n, TermAt(L, n)) ELSE L
      /\ \A j \in Server : j # i => log'[j] = log[j]
  BY <1>3 DEF LogTypeOK
<1>5. CASE Compacts(L, n)
  <2>1. L.base \in Nat /\ n - L.base >= SnapshotThreshold /\ SnapshotThreshold \in Nat
        /\ TermAt(L, n) # NoTerm
    BY <1>5, ConfigAssumption, LogFacts DEF Compacts
  <2>2. L.base <= n
    BY <1>2, <2>1
  <2>3. n <= LastIndex(L)
    BY <1>2, <2>1, TermAtType, EntryTerm DEF Log
  <2> QED
    BY <1>2, <1>4, <1>5, <2>2, <2>3, CompactLinks
<1>6. CASE ~Compacts(L, n)
  BY <1>4, <1>6
<1> QED
  BY <1>5, <1>6

\* A step of node i that only applies what is committed.
LEMMA CommitLinks ==
    ASSUME TypeOK, NEW i \in Server, NEW c \in Nat, Commit(i, log[i], c)
    PROVE  \A j \in Server :
               Links(log'[j]) \subseteq Links(log[j]) /\ LastIndex(log'[j]) = LastIndex(log[j])
<1>1. log[i] \in Log /\ lastApplied[i] \in Nat /\ LogTypeOK
  BY DEF TypeOK, LogTypeOK
<1>2. ApplyCommitted(i, log[i], c, lastApplied[i], applied[i], snap[i])
  BY DEF Commit
<1> QED
  BY <1>1, <1>2, ApplyLinks

LEMMA PlainMessages ==
    /\ \A i, t, pre : \A m \in RequestVoteFrom(i, t, pre) : Plain(m)
    /\ \A r, g, pre, t : \A m \in VoteReply(r, g, pre, t) : Plain(m)
    /\ \A r, t, L : \A m \in SnapshotReply(r, t, L) : Plain(m)
    /\ \A r, t, s, ci, ct, L : \A m \in AppendReply(r, t, s, ci, ct, L) : Plain(m)
    /\ \A i, j, L, sn, off : \A m \in InstallSnapshotTo(i, j, L, sn, off) : Plain(m)
<1>1. \A i, t, pre : \A m \in RequestVoteFrom(i, t, pre) : Plain(m)
  BY DEF RequestVoteFrom, Plain
<1>2. \A r, g, pre, t : \A m \in VoteReply(r, g, pre, t) : Plain(m)
  BY DEF VoteReply, Plain
<1>3. \A r, t, L : \A m \in SnapshotReply(r, t, L) : Plain(m)
  BY DEF SnapshotReply, Plain
<1>4. \A r, t, s, ci, ct, L : \A m \in AppendReply(r, t, s, ci, ct, L) : Plain(m)
  BY DEF AppendReply, Plain
<1>5. \A i, j, L, sn, off : \A m \in InstallSnapshotTo(i, j, L, sn, off) : Plain(m)
  BY DEF InstallSnapshotTo, Plain
<1> QED
  BY <1>1, <1>2, <1>3, <1>4, <1>5

LEMMA PeersLinks ==
    ASSUME TypeOK, NEW i \in Server, NEW L \in Log, NEW m \in AppendEntriesToPeers(i, L)
    PROVE  Plain(m) \/ MessageLinks(m) \subseteq Links(L)
<1>1. PICK j \in Peers(i) :
         m \in AppendEntriesTo(i, j, nextIndex[i][j], L, commitIndex[i], snap[i], snapOffset[i][j])
  BY DEF AppendEntriesToPeers
<1>2. j \in Server
  BY PeersType
<1>3. nextIndex[i][j] \in Nat \ {0}
  BY <1>2 DEF TypeOK, PeerTypeOK
<1> QED
  BY <1>1, <1>3, SentLinks DEF Plain

\* A step that leaves terms and roles alone, and adds no link.
LEMMA RolesSame ==
    ASSUME TypeOK, UNCHANGED <<currentTerm, role>>
    PROVE  RolesKept
<1>1. \A i \in Server : currentTerm[i] \in Nat
  BY DEF TypeOK, VoteTypeOK
<1> QED
  BY <1>1 DEF RolesKept

LEMMA RolesFollower ==
    ASSUME TypeOK, NEW i \in Server, NEW t \in Nat, t >= currentTerm[i],
           currentTerm' = [currentTerm EXCEPT ![i] = t],
           role' = [role EXCEPT ![i] = "FOLLOWER"]
    PROVE  RolesKept /\ role'[i] # "LEADER"
<1>1. \A j \in Server : currentTerm[j] \in Nat
  BY DEF TypeOK, VoteTypeOK
<1>2. ASSUME NEW j \in Server
      PROVE  /\ currentTerm'[j] = IF j = i THEN t ELSE currentTerm[j]
             /\ role'[j] = IF j = i THEN "FOLLOWER" ELSE role[j]
  BY DEF TypeOK, VoteTypeOK
<1> QED
  BY <1>1, <1>2 DEF RolesKept

\* The steps that leave terms, roles and the history of elections alone, and
\* whose logs only shrink.
LEMMA QuietMatch ==
    ASSUME TypeOK, TypeOK', MatchInv, UNCHANGED <<currentTerm, role, elected>>,
           \A j \in Server :
               Links(log'[j]) \subseteq Links(log[j]) /\ LastIndex(log'[j]) = LastIndex(log[j]),
           NEW ms, messages' \subseteq messages \union ms,
           \A m \in ms : Plain(m) \/ \E j \in Server : MessageLinks(m) \subseteq Links(log[j])
    PROVE  MatchInv'
<1>1. \A j \in Server : Links(log'[j]) \subseteq AllLinks
  BY AllLinksHas
<1>2. \A j \in Server : role'[j] = "LEADER" => LastIndex(log'[j]) >= LastIndex(log[j])
  BY LogFacts DEF TypeOK, LogTypeOK
<1>3. \A m \in ms : Plain(m) \/ MessageLinks(m) \subseteq AllLinks
  BY AllLinksHas
<1> QED
  BY <1>1, <1>2, <1>3, RolesSame, MatchKept

LEMMA SameLogs ==
    ASSUME UNCHANGED log
    PROVE  \A j \in Server :
               Links(log'[j]) \subseteq Links(log[j]) /\ LastIndex(log'[j]) = LastIndex(log[j])
OBVIOUS

\* A restarted node has no entries.
LEMMA RestartMatch ==
    ASSUME TypeOK, TypeOK', ElectionInv, MatchInv, NEW i \in Server, Restart(i)
    PROVE  MatchInv'
<1>1. currentTerm[i] \in Nat /\ Restored(i).term = currentTerm[i]
  <2>1. persisted[i] = [term |-> currentTerm[i], votedFor |-> votedFor[i]]
    BY DEF ElectionInv, VoteOnFlash
  <2> QED
    BY <2>1 DEF Restored, TypeOK, VoteTypeOK
<1>2. /\ currentTerm' = [currentTerm EXCEPT ![i] = currentTerm[i]]
      /\ role' = [role EXCEPT ![i] = "FOLLOWER"]
      /\ log' = [log EXCEPT ![i] = EmptyLog]
      /\ messages' = messages /\ elected' = elected
  BY <1>1 DEF Restart, history
<1>3. RolesKept /\ role'[i] # "LEADER"
  <2>1. PICK t \in Nat : t = currentTerm[i] /\ t >= currentTerm[i]
    BY <1>1
  <2> QED
    BY <1>2, <2>1, RolesFollower
<1>4. ASSUME NEW j \in Server
      PROVE  /\ Links(log'[j]) \subseteq AllLinks
             /\ role'[j] = "LEADER" => LastIndex(log'[j]) >= LastIndex(log[j])
  <2>1. CASE j = i
    <3>1. log'[j] = EmptyLog
      BY <1>2, <2>1 DEF TypeOK, LogTypeOK
    <3>2. Links(EmptyLog) = {}
      <4>1. EmptyLog.base + 1 = 1 /\ LastIndex(EmptyLog) = 0
        BY DEF EmptyLog, LastIndex
      <4> QED
        BY <4>1 DEF Links
    <3> QED
      BY <1>3, <2>1, <3>1, <3>2
  <2>2. CASE j # i
    <3>1. log'[j] = log[j] /\ LastIndex(log[j]) \in Nat
      BY <1>2, <2>2, LogFacts DEF TypeOK, LogTypeOK
    <3> QED
      BY <3>1, AllLinksHas
  <2> QED
    BY <2>1, <2>2
<1> DEFINE none == {}
<1>5. messages' \subseteq messages \union none
      /\ \A m \in none : Plain(m) \/ MessageLinks(m) \subseteq AllLinks
  BY <1>2
<1> HIDE DEF none
<1> QED
  BY <1>2, <1>3, <1>4, <1>5, MatchKept

LEMMA DriverMatch ==
    ASSUME TypeOK, TypeOK', MatchInv, NEW i \in Server,
           \/ LeaderLosesContact(i)
           \/ Heartbeat(i)
           \/ ElectionTimeout(i)
           \/ Tick(i)
    PROVE  MatchInv'
<1>1. log[i] \in Log /\ commitIndex[i] \in Nat /\ currentTerm[i] \in Nat
  BY DEF TypeOK, LogTypeOK, VoteTypeOK
<1> DEFINE none == {}
<1>2. \A m \in none : Plain(m) \/ \E j \in Server : MessageLinks(m) \subseteq Links(log[j])
  OBVIOUS
<1>3. UNCHANGED messages => messages' \subseteq messages \union none
  OBVIOUS
<1> HIDE DEF none
<1>4. CASE LeaderLosesContact(i)
  <2>1. /\ currentTerm' = [currentTerm EXCEPT ![i] = currentTerm[i]]
        /\ role' = [role EXCEPT ![i] = "FOLLOWER"]
        /\ log' = log /\ messages' = messages /\ elected' = elected
    BY <1>4 DEF LeaderLosesContact, BecomeFollower, SetTermAndVote, history, logVars
  <2>2. RolesKept
    <3>1. PICK t \in Nat : t = currentTerm[i] /\ t >= currentTerm[i]
      BY <1>1
    <3> QED
      BY <2>1, <3>1, RolesFollower
  <2>3. \A j \in Server : /\ Links(log'[j]) \subseteq AllLinks
                          /\ LastIndex(log'[j]) >= LastIndex(log[j])
    BY <2>1, AllLinksHas, LogFacts DEF TypeOK, LogTypeOK
  <2>4. \A m \in none : Plain(m) \/ MessageLinks(m) \subseteq AllLinks
    BY <1>2, AllLinksHas
  <2> QED
    BY <1>3, <2>1, <2>2, <2>3, <2>4, MatchKept
<1>5. CASE Heartbeat(i)
  <2>1. /\ UNCHANGED <<currentTerm, role, elected>> /\ Commit(i, log[i], commitIndex[i])
        /\ Send(AppendEntriesToPeers(i, log[i]))
    BY <1>5 DEF Heartbeat, voteVars, history
  <2>2. \A m \in AppendEntriesToPeers(i, log[i]) :
            Plain(m) \/ \E j \in Server : MessageLinks(m) \subseteq Links(log[j])
    BY <1>1, PeersLinks
  <2>3. messages' \subseteq messages \union AppendEntriesToPeers(i, log[i])
    BY <2>1, SendSubset
  <2> QED
    BY <1>1, <2>1, <2>2, <2>3, CommitLinks, QuietMatch
<1>6. CASE ElectionTimeout(i)
  <2>1. /\ UNCHANGED <<currentTerm, role, elected>> /\ Commit(i, log[i], commitIndex[i])
        /\ Send(RequestVoteFrom(i, currentTerm[i] + 1, TRUE))
    BY <1>6 DEF ElectionTimeout, history
  <2>2. \A m \in RequestVoteFrom(i, currentTerm[i] + 1, TRUE) :
            Plain(m) \/ \E j \in Server : MessageLinks(m) \subseteq Links(log[j])
    BY PlainMessages
  <2>3. messages' \subseteq messages \union RequestVoteFrom(i, currentTerm[i] + 1, TRUE)
    BY <2>1, SendSubset
  <2> QED
    BY <1>1, <2>1, <2>2, <2>3, CommitLinks, QuietMatch
<1>7. CASE Tick(i)
  <2>1. /\ UNCHANGED <<currentTerm, role, elected>> /\ Commit(i, log[i], commitIndex[i])
        /\ UNCHANGED messages
    BY <1>7 DEF Tick, voteVars, history
  <2> QED
    BY <1>1, <1>2, <1>3, <2>1, CommitLinks, QuietMatch
<1> QED
  BY <1>4, <1>5, <1>6, <1>7

\* The handlers that answer, and the ones with which a leader goes on.
LEMMA QuietHandlersMatch ==
    ASSUME TypeOK, TypeOK', MatchInv, NEW m \in messages,
           \/ HandlePreVote(m)
           \/ RejectDisruptiveCandidate(m)
           \/ RejectStaleAppendEntries(m)
           \/ RejectStaleInstallSnapshot(m)
           \/ HandleAppendEntriesAccepted(m)
           \/ HandleAppendEntriesRejected(m)
           \/ HandleInstallSnapshotResp(m)
    PROVE  MatchInv'
<1> DEFINE Sent(ms) ==
             /\ messages' \subseteq messages \union ms
             /\ \A r \in ms : Plain(r) \/ \E k \in Server : MessageLinks(r) \subseteq Links(log[k])
           Shrunk ==
             \A k \in Server :
                 Links(log'[k]) \subseteq Links(log[k]) /\ LastIndex(log'[k]) = LastIndex(log[k])
<1>1. UNCHANGED <<currentTerm, role, elected>>
  <2>1. UNCHANGED voteVars /\ UNCHANGED history
    BY DEF HandlePreVote, RejectDisruptiveCandidate, RejectStaleAppendEntries,
           RejectStaleInstallSnapshot, HandleAppendEntriesAccepted,
           HandleAppendEntriesRejected, HandleInstallSnapshotResp
  <2> QED
    BY <2>1 DEF voteVars, history
<1>2. m \in Message /\ m.to \in Server /\ m.from \in Server
  BY MessageFields DEF TypeOK
<1>3. /\ log[m.to] \in Log /\ commitIndex[m.to] \in Nat
      /\ nextIndex[m.to][m.from] \in Nat \ {0}
  <2>1. log \in [Server -> Log] /\ commitIndex \in [Server -> Nat]
    BY DEF TypeOK, LogTypeOK
  <2>2. nextIndex \in [Server -> [Server -> Nat \ {0}]]
    BY DEF TypeOK, PeerTypeOK
  <2> QED
    BY <1>2, <2>1, <2>2
<1>4. CASE HandlePreVote(m)
  <2>1. \E g : Send(VoteReply(m, g, TRUE, currentTerm[m.to]))
    BY <1>4, Zenon DEF HandlePreVote
  <2>2. UNCHANGED log
    BY <1>4 DEF HandlePreVote, logVars
  <2>3. \E ms : Sent(ms)
    BY <2>1, PlainMessages, SendSubset
  <2> QED
    BY <1>1, <2>2, <2>3, SameLogs, QuietMatch
<1>5. CASE RejectDisruptiveCandidate(m)
  <2>1. Send(VoteReply(m, FALSE, FALSE, currentTerm[m.to])) /\ UNCHANGED log
    BY <1>5 DEF RejectDisruptiveCandidate, logVars
  <2>2. \E ms : Sent(ms)
    BY <2>1, PlainMessages, SendSubset
  <2> QED
    BY <1>1, <2>1, <2>2, SameLogs, QuietMatch
<1>6. CASE RejectStaleAppendEntries(m)
  <2>1. Send(AppendReply(m, currentTerm[m.to], FALSE, 0, 0, log[m.to])) /\ UNCHANGED log
    BY <1>6 DEF RejectStaleAppendEntries, logVars
  <2>2. \E ms : Sent(ms)
    BY <2>1, PlainMessages, SendSubset
  <2> QED
    BY <1>1, <2>1, <2>2, SameLogs, QuietMatch
<1>7. CASE RejectStaleInstallSnapshot(m)
  <2>1. Send(SnapshotReply(m, currentTerm[m.to], log[m.to])) /\ UNCHANGED log
    BY <1>7 DEF RejectStaleInstallSnapshot, logVars
  <2>2. \E ms : Sent(ms)
    BY <2>1, PlainMessages, SendSubset
  <2> QED
    BY <1>1, <2>1, <2>2, SameLogs, QuietMatch
<1>8. CASE HandleAppendEntriesAccepted(m)
  <2>1. PICK nx, mt, L, sn :
          /\ nx = Max({m.lastIndex + 1, nextIndex[m.to][m.from]})
          /\ L = log'[m.to]
          /\ Commit(m.to, log[m.to], CommitTarget(m.to, mt))
          /\ Send(IF nx <= LastIndex(L)
                  THEN AppendEntriesTo(m.to, m.from, nx, L, CommitTarget(m.to, mt), sn,
                                       snapOffset[m.to][m.from])
                  ELSE {})
    BY <1>8, Zenon DEF HandleAppendEntriesAccepted
  <2>2. PICK c : c = CommitTarget(m.to, mt)
    OBVIOUS
  <2>3. c \in Nat
    BY <1>2, <2>2, CommitTargetType DEF TypeOK
  <2>4. nx \in Nat \ {0} /\ L \in Log
    <3>1. m.lastIndex \in Nat
      BY <1>2, <1>8, MessageFields DEF HandleAppendEntriesAccepted
    <3>2. nx \in Nat \ {0}
      <4>1. m.lastIndex + 1 \in Nat \ {0} /\ m.lastIndex + 1 \in Int
            /\ nextIndex[m.to][m.from] \in Int
        BY <1>3, <3>1
      <4> QED
        BY <1>3, <2>1, <4>1, MaxPair
    <3>3. L \in Log
      BY <1>2, <2>1 DEF TypeOK, LogTypeOK
    <3> QED
      BY <3>2, <3>3
  <2>5. Shrunk
    BY <1>2, <2>1, <2>2, <2>3, CommitLinks
  <2>6. \A r \in AppendEntriesTo(m.to, m.from, nx, L, c, sn, snapOffset[m.to][m.from]) :
            Plain(r) \/ \E k \in Server : MessageLinks(r) \subseteq Links(log[k])
    BY <1>2, <2>1, <2>4, <2>5, SentLinks DEF Plain
  <2>7. \E ms : Sent(ms)
    <3>1. PICK ms : /\ ms = IF nx <= LastIndex(L)
                            THEN AppendEntriesTo(m.to, m.from, nx, L, c, sn,
                                                 snapOffset[m.to][m.from])
                            ELSE {}
                    /\ Send(ms)
      BY <2>1, <2>2
    <3> QED
      BY <2>6, <3>1, SendSubset
  <2> QED
    BY <1>1, <2>5, <2>7, QuietMatch
<1>9. CASE HandleAppendEntriesRejected(m)
  <2>1. PICK nx : nx = BackUp(m.to, m)
    OBVIOUS
  <2>2. /\ Send(AppendEntriesTo(m.to, m.from, nx, log[m.to], commitIndex[m.to], snap[m.to],
                                snapOffset[m.to][m.from]))
        /\ Commit(m.to, log[m.to], commitIndex[m.to])
    BY <1>9, <2>1, Zenon DEF HandleAppendEntriesRejected
  <2>3. nx \in Nat \ {0}
    BY <1>2, <1>9, <2>1, BackUpType DEF HandleAppendEntriesRejected
  <2>4. \A r \in AppendEntriesTo(m.to, m.from, nx, log[m.to], commitIndex[m.to], snap[m.to],
                                 snapOffset[m.to][m.from]) :
            Plain(r) \/ \E k \in Server : MessageLinks(r) \subseteq Links(log[k])
    BY <1>2, <1>3, <2>3, SentLinks DEF Plain
  <2>5. \E ms : Sent(ms)
    BY <2>2, <2>4, SendSubset
  <2>6. Shrunk
    BY <1>2, <1>3, <2>2, CommitLinks
  <2> QED
    BY <1>1, <2>5, <2>6, QuietMatch
<1>10. CASE HandleInstallSnapshotResp(m)
  <2>1. PICK sent, nx :
          /\ nx = Max({m.lastIndex + 1, nextIndex[m.to][m.from]})
          /\ \/ /\ Send(InstallSnapshotTo(m.to, m.from, log[m.to], snap[m.to], sent))
                /\ UNCHANGED logVars
             \/ /\ Send(AppendEntriesTo(m.to, m.from, nx, log[m.to], commitIndex[m.to],
                                        snap[m.to], 0))
                /\ Commit(m.to, log[m.to], commitIndex[m.to])
    BY <1>10, Zenon DEF HandleInstallSnapshotResp
  <2>2. nx \in Nat \ {0}
    <3>1. m.lastIndex \in Nat
      BY <1>2, <1>10, MessageFields DEF HandleInstallSnapshotResp
    <3>2. m.lastIndex + 1 \in Nat \ {0} /\ m.lastIndex + 1 \in Int
          /\ nextIndex[m.to][m.from] \in Int
      BY <1>3, <3>1
    <3> QED
      BY <1>3, <2>1, <3>2, MaxPair
  <2>3. CASE /\ Send(InstallSnapshotTo(m.to, m.from, log[m.to], snap[m.to], sent))
             /\ UNCHANGED logVars
    <3>1. \E ms : Sent(ms)
      BY <2>3, PlainMessages, SendSubset
    <3>2. UNCHANGED log
      BY <2>3 DEF logVars
    <3> QED
      BY <1>1, <3>1, <3>2, SameLogs, QuietMatch
  <2>4. CASE /\ Send(AppendEntriesTo(m.to, m.from, nx, log[m.to], commitIndex[m.to],
                                     snap[m.to], 0))
             /\ Commit(m.to, log[m.to], commitIndex[m.to])
    <3>1. \A r \in AppendEntriesTo(m.to, m.from, nx, log[m.to], commitIndex[m.to],
                                   snap[m.to], 0) :
              Plain(r) \/ \E k \in Server : MessageLinks(r) \subseteq Links(log[k])
      BY <1>2, <1>3, <2>2, SentLinks DEF Plain
    <3>2. \E ms : Sent(ms)
      BY <2>4, <3>1, SendSubset
    <3>3. Shrunk
      BY <1>2, <1>3, <2>4, CommitLinks
    <3> QED
      BY <1>1, <3>2, <3>3, QuietMatch
  <2> QED
    BY <2>1, <2>3, <2>4
<1> QED
  BY <1>4, <1>5, <1>6, <1>7, <1>8, <1>9, <1>10

\* Node i, which is no leader any more, takes log R; the others keep theirs.
LEMMA FollowerMatch ==
    ASSUME TypeOK, TypeOK', MatchInv, elected' = elected, RolesKept,
           NEW i \in Server, role'[i] # "LEADER" \/ log'[i] = log[i],
           Links(log'[i]) \subseteq AllLinks,
           \A j \in Server : j # i => log'[j] = log[j],
           NEW ms, messages' \subseteq messages \union ms, \A m \in ms : Plain(m)
    PROVE  MatchInv'
<1>1. \A j \in Server : Links(log'[j]) \subseteq AllLinks
  BY AllLinksHas
<1>2. ASSUME NEW j \in Server, role'[j] = "LEADER"
      PROVE  LastIndex(log'[j]) >= LastIndex(log[j])
  <2>1. log'[j] = log[j]
    BY <1>2
  <2>2. LastIndex(log[j]) \in Nat
    BY LogFacts DEF TypeOK, LogTypeOK
  <2> QED
    BY <2>1, <2>2
<1> QED
  BY <1>1, <1>2, MatchKept

\* What BecomeFollower does to terms and roles.
LEMMA BecomeFollowerRoles ==
    ASSUME TypeOK, NEW i \in Server, NEW t \in Nat, t >= currentTerm[i], NEW l,
           BecomeFollower(i, t, l)
    PROVE  RolesKept /\ role'[i] # "LEADER"
<1>1. currentTerm' = [currentTerm EXCEPT ![i] = t] /\ role' = [role EXCEPT ![i] = "FOLLOWER"]
  BY DEF BecomeFollower, SetTermAndVote
<1> QED
  BY <1>1, RolesFollower

LEMMA FollowerHandlersMatch ==
    ASSUME TypeOK, TypeOK', MatchInv, EdgesAgree, NEW m \in messages,
           \/ RejectAppendEntries(m)
           \/ AcceptAppendEntries(m)
           \/ HandleSnapshotChunk(m)
           \/ HandleSnapshotDone(m)
    PROVE  MatchInv'
<1>1. m \in Message /\ m.to \in Server /\ m.from \in Server /\ m.term \in Nat
  BY MessageFields DEF TypeOK
<1>2. log[m.to] \in Log /\ LogTypeOK /\ commitIndex[m.to] \in Nat /\ lastApplied[m.to] \in Nat
  BY <1>1 DEF TypeOK, LogTypeOK
<1>3. /\ m.term >= currentTerm[m.to] /\ BecomeFollower(m.to, m.term, m.from)
      /\ elected' = elected
  BY DEF RejectAppendEntries, AcceptAppendEntries, HandleSnapshotChunk, HandleSnapshotDone,
         history
<1>4. RolesKept /\ role'[m.to] # "LEADER"
  BY <1>1, <1>3, BecomeFollowerRoles
<1>5. CASE RejectAppendEntries(m)
  <2>1. UNCHANGED log /\ \E ci, ct : Send(AppendReply(m, m.term, FALSE, ci, ct, log[m.to]))
    BY <1>5, Zenon DEF RejectAppendEntries, logVars
  <2>2. \E ms : messages' \subseteq messages \union ms /\ \A r \in ms : Plain(r)
    BY <2>1, PlainMessages, SendSubset
  <2> QED
    BY <1>1, <1>3, <1>4, <2>1, <2>2, AllLinksHas, FollowerMatch
<1>6. CASE AcceptAppendEntries(m)
  <2>1. PICK L, c : /\ L = AppendFrom(log[m.to], m.prevIndex, m.entries)
                    /\ c = Max({commitIndex[m.to], Min({m.commit, m.prevIndex + Len(m.entries)})})
                    /\ Commit(m.to, L, c) /\ PrevMatches(m, log[m.to])
                    /\ Send(AppendReply(m, m.term, TRUE, 0, 0, L))
                    /\ m.type = "AppendEntries"
    BY <1>6, Zenon DEF AcceptAppendEntries
  <2>2. m.prevIndex \in Nat /\ m.entries \in Seq(Entry) /\ m.commit \in Nat
    BY <1>1, <2>1, MessageFields
  <2>3. L \in Log
    <3>1. m.prevIndex <= LastIndex(log[m.to])
      BY <2>1 DEF PrevMatches
    <3> QED
      BY <1>2, <2>1, <2>2, <3>1, AppendFromType, EntryTerm DEF Log
  <2>4. c \in Nat
    <3>1. m.prevIndex + Len(m.entries) \in Nat
      BY <2>2
    <3>2. Min({m.commit, m.prevIndex + Len(m.entries)}) \in Nat
      BY <2>2, <3>1, MinPair
    <3>3. PICK q \in Nat : q = Min({m.commit, m.prevIndex + Len(m.entries)})
      BY <3>2
    <3>4. c = Max({commitIndex[m.to], q})
      BY <2>1, <3>3, Zenon
    <3> QED
      BY <1>2, <3>4, MaxPair
  <2>5. Links(L) \subseteq AllLinks
    <3>1. \A k \in 1 .. Len(m.entries) :
              m.prevIndex + k = log[m.to].base => m.entries[k].term = log[m.to].term
      BY <1>3, <2>1 DEF EdgesAgree
    <3>2. Links(L) \subseteq Links(log[m.to]) \union MessageLinks(m)
      BY <1>2, <2>1, <2>2, <3>1, AppendLinks
    <3> QED
      BY <1>1, <2>1, <3>2, AllLinksHas
  <2>6. /\ Links(log'[m.to]) \subseteq Links(L)
        /\ \A j \in Server : j # m.to => log'[j] = log[j]
    BY <1>1, <1>2, <2>1, <2>3, <2>4, ApplyLinks DEF Commit
  <2>7. \E ms : messages' \subseteq messages \union ms /\ \A r \in ms : Plain(r)
    BY <2>1, PlainMessages, SendSubset
  <2> QED
    BY <1>1, <1>3, <1>4, <2>5, <2>6, <2>7, FollowerMatch
<1>7. CASE HandleSnapshotChunk(m)
  <2>1. UNCHANGED log /\ Send(SnapshotReply(m, m.term, log[m.to]))
    BY <1>7 DEF HandleSnapshotChunk
  <2>2. \E ms : messages' \subseteq messages \union ms /\ \A r \in ms : Plain(r)
    BY <2>1, PlainMessages, SendSubset
  <2> QED
    BY <1>1, <1>3, <1>4, <2>1, <2>2, AllLinksHas, FollowerMatch
<1>8. CASE HandleSnapshotDone(m)
  <2>1. PICK L, h, sn :
          /\ L = IF TermAt(log[m.to], m.lastIndex) = m.lastTerm
                 THEN CompactTo(log[m.to], m.lastIndex, m.lastTerm)
                 ELSE ResetToSnapshot(m.lastIndex, m.lastTerm)
          /\ TermAt(log[m.to], m.lastIndex) = m.lastTerm => m.lastIndex >= log[m.to].base
          /\ ApplyCommitted(m.to, L, Max({commitIndex[m.to], L.base}),
                            Max({lastApplied[m.to], L.base}), h, sn)
          /\ Send(SnapshotReply(m, m.term, L))
          /\ m.type = "InstallSnapshot"
    BY <1>8, Zenon DEF HandleSnapshotDone
  <2>2. m.lastIndex \in Nat /\ m.lastTerm \in Nat
    BY <1>1, <2>1, MessageFields
  <2>3. L \in Log /\ Links(L) \subseteq Links(log[m.to])
    <3>1. CASE TermAt(log[m.to], m.lastIndex) = m.lastTerm
      <4>1. TermAt(log[m.to], m.lastIndex) # NoTerm
        BY <2>2, <3>1 DEF NoTerm
      <4>2. m.lastIndex <= LastIndex(log[m.to])
        BY <1>2, <2>2, <4>1, TermAtType, EntryTerm DEF Log
      <4>3. log[m.to].base \in Nat /\ log[m.to].base <= m.lastIndex
        BY <1>2, <2>1, <2>2, <3>1, LogFacts
      <4>4. Links(L) \subseteq Links(log[m.to])
        BY <1>2, <2>1, <2>2, <3>1, <4>2, <4>3, CompactLinks
      <4>5. L \in Log
        BY <1>2, <2>1, <2>2, <3>1, CompactToType DEF Log
      <4> QED
        BY <4>4, <4>5
    <3>2. CASE TermAt(log[m.to], m.lastIndex) # m.lastTerm
      <4>1. L = [base |-> m.lastIndex, term |-> m.lastTerm, entries |-> <<>>]
        BY <2>1, <3>2 DEF ResetToSnapshot
      <4>2. L \in Log
        BY <2>2, <4>1 DEF Log, LogOf
      <4>3. LastIndex(L) = L.base /\ L.base \in Nat
        BY <2>2, <4>1 DEF LastIndex
      <4>4. Links(L) = {}
        BY <4>3 DEF Links
      <4> QED
        BY <4>2, <4>4
    <3> QED
      BY <3>1, <3>2
  <2>4. Max({commitIndex[m.to], L.base}) \in Nat /\ Max({lastApplied[m.to], L.base}) \in Nat
    <3>1. L.base \in Nat
      BY <2>3, LogFacts
    <3>2. /\ Max({commitIndex[m.to], L.base}) =
              IF commitIndex[m.to] >= L.base THEN commitIndex[m.to] ELSE L.base
          /\ Max({lastApplied[m.to], L.base}) =
              IF lastApplied[m.to] >= L.base THEN lastApplied[m.to] ELSE L.base
      BY <1>2, <3>1, MaxPair
    <3> QED
      BY <1>2, <3>1, <3>2
  <2>5. /\ Links(log'[m.to]) \subseteq Links(L)
        /\ \A j \in Server : j # m.to => log'[j] = log[j]
    BY <1>1, <1>2, <2>1, <2>3, <2>4, ApplyLinks
  <2>6. \E ms : messages' \subseteq messages \union ms /\ \A r \in ms : Plain(r)
    BY <2>1, PlainMessages, SendSubset
  <2>7. Links(log'[m.to]) \subseteq AllLinks
    BY <1>1, <2>3, <2>5, AllLinksHas
  <2> QED
    BY <1>1, <1>3, <1>4, <2>5, <2>6, <2>7, FollowerMatch
<1> QED
  BY <1>5, <1>6, <1>7, <1>8

\* The handlers of votes, without the one that makes a leader.
LEMMA VoteHandlersMatch ==
    ASSUME TypeOK, TypeOK', MatchInv, NEW m \in messages,
           \/ HandleRequestVote(m)
           \/ HandlePreVoteGranted(m)
           \/ HandleHigherTermResp(m)
    PROVE  MatchInv'
<1>1. m \in Message /\ m.to \in Server /\ m.from \in Server /\ m.term \in Nat
      /\ currentTerm[m.to] \in Nat
  BY MessageFields DEF TypeOK, VoteTypeOK
<1>2. UNCHANGED log /\ elected' = elected
  BY DEF HandleRequestVote, HandlePreVoteGranted, HandleHigherTermResp, logVars, history
<1>3. \E ms : messages' \subseteq messages \union ms /\ \A r \in ms : Plain(r)
  <2>1. CASE HandleRequestVote(m)
    <3>1. \E g, t : Send(VoteReply(m, g, FALSE, t))
      BY <2>1, Zenon DEF HandleRequestVote
    <3> QED
      BY <3>1, PlainMessages, SendSubset
  <2>2. CASE HandlePreVoteGranted(m)
    <3>1. CASE Send(RequestVoteFrom(m.to, currentTerm[m.to] + 1, FALSE))
      BY <3>1, PlainMessages, SendSubset
    <3>2. CASE UNCHANGED messages
      <4>1. PICK none : none = {}
        OBVIOUS
      <4>2. messages' \subseteq messages \union none /\ \A r \in none : Plain(r)
        BY <3>2, <4>1
      <4> QED
        BY <4>2
    <3> QED
      BY <2>2, <3>1, <3>2 DEF HandlePreVoteGranted, BecomeCandidate
  <2>3. CASE HandleHigherTermResp(m)
    <3>1. PICK none : none = {}
      OBVIOUS
    <3>2. messages' \subseteq messages \union none /\ \A r \in none : Plain(r)
      BY <2>3, <3>1 DEF HandleHigherTermResp
    <3> QED
      BY <3>2
  <2> QED
    BY <2>1, <2>2, <2>3
<1>4. RolesKept
  <2>1. CASE HandleRequestVote(m)
    <3>1. PICK t, vote :
            /\ t = Max({m.term, currentTerm[m.to]})
            /\ IF m.term > currentTerm[m.to]
               THEN StepDown(m.to, t, vote)
               ELSE SetTermAndVote(m.to, t, vote) /\ UNCHANGED <<role, currentLeader>>
      BY <2>1, Zenon DEF HandleRequestVote
    <3>2. t = IF m.term >= currentTerm[m.to] THEN m.term ELSE currentTerm[m.to]
      BY <1>1, <3>1, MaxPair
    <3>3. CASE m.term > currentTerm[m.to]
      <4>1. t = m.term /\ t >= currentTerm[m.to]
        BY <1>1, <3>2, <3>3
      <4>2. /\ currentTerm' = [currentTerm EXCEPT ![m.to] = t]
            /\ role' = [role EXCEPT ![m.to] = "FOLLOWER"]
        BY <3>1, <3>3 DEF StepDown, SetTermAndVote
      <4> QED
        BY <1>1, <4>1, <4>2, RolesFollower
    <3>4. CASE ~(m.term > currentTerm[m.to])
      <4>1. t = currentTerm[m.to]
        BY <1>1, <3>2, <3>4
      <4>2. currentTerm' = currentTerm /\ UNCHANGED role
        <5>1. currentTerm' = [currentTerm EXCEPT ![m.to] = currentTerm[m.to]] /\ role' = role
          BY <3>1, <3>4, <4>1 DEF SetTermAndVote
        <5>2. currentTerm \in [Server -> Nat]
          BY DEF TypeOK, VoteTypeOK
        <5> QED
          BY <1>1, <5>1, <5>2
      <4> QED
        BY <4>2, RolesSame
    <3> QED
      BY <3>3, <3>4
  <2>2. CASE HandlePreVoteGranted(m)
    <3>1. CASE UNCHANGED <<currentTerm, role>>
      BY <3>1, RolesSame
    <3>2. CASE BecomeCandidate(m.to)
      <4>1. /\ currentTerm' = [currentTerm EXCEPT ![m.to] = currentTerm[m.to] + 1]
            /\ role' = [role EXCEPT ![m.to] = "CANDIDATE"]
        BY <3>2 DEF BecomeCandidate, SetTermAndVote
      <4>2. ASSUME NEW j \in Server
            PROVE  /\ currentTerm[j] \in Nat
                   /\ currentTerm'[j] = IF j = m.to THEN currentTerm[j] + 1 ELSE currentTerm[j]
                   /\ role'[j] = IF j = m.to THEN "CANDIDATE" ELSE role[j]
        BY <1>1, <4>1 DEF TypeOK, VoteTypeOK
      <4> QED
        BY <4>2 DEF RolesKept
    <3> QED
      BY <2>2, <3>1, <3>2 DEF HandlePreVoteGranted
  <2>3. CASE HandleHigherTermResp(m)
    <3>1. /\ currentTerm' = [currentTerm EXCEPT ![m.to] = m.term]
          /\ role' = [role EXCEPT ![m.to] = "FOLLOWER"]
          /\ m.term >= currentTerm[m.to]
      BY <1>1, <2>3 DEF HandleHigherTermResp, StepDown, SetTermAndVote
    <3> QED
      BY <1>1, <3>1, RolesFollower
  <2> QED
    BY <2>1, <2>2, <2>3
<1> QED
  BY <1>1, <1>2, <1>3, <1>4, AllLinksHas, FollowerMatch

-----------------------------------------------------------------------------
(* The two steps that make a link.                                         *)

\* A link made at an index that has no entry of its term.
LEMMA FreshLink ==
    ASSUME MatchInv, NEW x, AllLinks' \subseteq AllLinks \union {x},
           \A b \in AllLinks : b.entry.term = x.entry.term => b.index # x.index
    PROVE  OneLink'
<1> SUFFICES ASSUME NEW a \in AllLinks', NEW b \in AllLinks', a.index = b.index,
                    a.entry.term = b.entry.term
             PROVE  a = b
  BY DEF OneLink
<1>1. CASE a \in AllLinks /\ b \in AllLinks
  BY <1>1 DEF MatchInv, OneLink
<1>2. CASE a = x \/ b = x
  BY <1>2
<1> QED
  BY <1>1, <1>2

LEMMA SubmitMatch ==
    ASSUME TypeOK, TypeOK', ElectionInv, MatchInv, NEW i \in Server, NEW v \in Value,
           Submit(i, v)
    PROVE  MatchInv'
<1>1. PICK n, e : n = LastIndex(log[i]) /\ e = [index |-> n + 1, term |-> currentTerm[i], value |-> v]
  OBVIOUS
<1>2. /\ role[i] = "LEADER" /\ ~Full(log[i])
      /\ log' = [log EXCEPT ![i] = Push(log[i], e)]
      /\ Send(AppendEntriesToPeers(i, log'[i]))
      /\ UNCHANGED <<currentTerm, role, elected>>
  BY <1>1 DEF Submit, voteVars, history
<1>3. log[i] \in Log /\ n \in Nat /\ currentTerm[i] \in Nat /\ e \in Entry /\ log'[i] \in Log
  <2>1. log[i] \in Log /\ currentTerm[i] \in Nat /\ log'[i] \in Log
    BY DEF TypeOK, LogTypeOK, VoteTypeOK
  <2>2. n \in Nat
    BY <1>1, <2>1, LogFacts
  <2>3. e \in Entry
    BY <1>1, <2>1, <2>2 DEF Entry
  <2> QED
    BY <2>1, <2>2, <2>3
<1>4. PICK x : x = Link(n + 1, TermAt(log[i], n), e)
  OBVIOUS
<1>5. x.index = n + 1 /\ x.entry.term = currentTerm[i]
  BY <1>1, <1>4 DEF Link
<1>6. log'[i] = Push(log[i], e) /\ \A j \in Server : j # i => log'[j] = log[j]
  BY <1>2 DEF TypeOK, LogTypeOK
<1>7. Links(log'[i]) \subseteq Links(log[i]) \union {x} /\ LastIndex(log'[i]) = n + 1
  BY <1>1, <1>2, <1>3, <1>4, <1>6, PushLinks
<1>8. AllLinks' \subseteq AllLinks \union {x}
  <2>1. PICK A : A = AllLinks \union {x}
    OBVIOUS
  <2>2. \A j \in Server : Links(log'[j]) \subseteq A
    BY <1>6, <1>7, <2>1, AllLinksHas
  <2>3. PICK L \in Log : L = log'[i]
    BY <1>3
  <2>4. \A m \in AppendEntriesToPeers(i, L) : Plain(m) \/ MessageLinks(m) \subseteq A
    BY <2>2, <2>3, PeersLinks
  <2>5. messages' \subseteq messages \union AppendEntriesToPeers(i, L)
    BY <1>2, <2>3, SendSubset
  <2> QED
    BY <2>1, <2>2, <2>4, <2>5, LinksKept
<1>9. /\ [term |-> currentTerm[i], leader |-> i] \in elected
      /\ \A a \in AllLinks : a.entry.term = currentTerm[i] => a.index <= n
  BY <1>1, <1>2 DEF MatchInv, LeaderHasLinks
<1>10. OneLink'
  BY <1>3, <1>5, <1>8, <1>9, LinkType, FreshLink
<1>11. LinksOfElected'
  <2>1. PICK w \in elected : w.term = currentTerm[i]
    BY <1>9
  <2> QED
    BY <1>2, <1>5, <1>8, <2>1 DEF MatchInv, LinksOfElected
<1>12. LeaderHasLinks'
  <2> SUFFICES ASSUME NEW j \in Server, role[j] = "LEADER"
               PROVE  /\ [term |-> currentTerm[j], leader |-> j] \in elected
                      /\ \A a \in AllLinks' :
                            a.entry.term = currentTerm[j] => a.index <= LastIndex(log'[j])
    BY <1>2 DEF LeaderHasLinks
  <2>1. /\ [term |-> currentTerm[j], leader |-> j] \in elected
        /\ \A a \in AllLinks : a.entry.term = currentTerm[j] => a.index <= LastIndex(log[j])
    BY DEF MatchInv, LeaderHasLinks
  <2>2. currentTerm[j] = currentTerm[i] => j = i
    <3>1. ElectionSafety
      BY MajoritiesElectOne
    <3>2. PICK y \in elected : y.term = currentTerm[i] /\ y.leader = i
      BY <1>9
    <3>3. PICK z \in elected : z.term = currentTerm[j] /\ z.leader = j
      BY <2>1
    <3> QED
      BY <3>1, <3>2, <3>3 DEF ElectionSafety
  <2>3. LastIndex(log[j]) \in Nat /\ \A a \in AllLinks : a.index \in Nat
    BY LogFacts, LinkType DEF TypeOK, LogTypeOK
  <2>4. CASE j = i
    BY <1>1, <1>3, <1>5, <1>7, <1>8, <2>1, <2>3, <2>4
  <2>5. CASE j # i
    BY <1>5, <1>6, <1>8, <2>1, <2>2, <2>5
  <2> QED
    BY <2>4, <2>5
<1>13. ElectedOnce'
  BY <1>2, RolesSame, ElectedOnceKept DEF MatchInv
<1> QED
  BY <1>10, <1>11, <1>12, <1>13 DEF MatchInv

\* A term gets its first entry when its leader is elected.
LEMMA HandleVoteGrantedMatch ==
    ASSUME TypeOK, TypeOK', ElectionInv', MatchInv, NEW m \in messages, HandleVoteGranted(m)
    PROVE  MatchInv'
<1>1. PICK i \in Server : i = m.to
  BY MessageFields DEF TypeOK
<1>2. /\ role[i] = "CANDIDATE" /\ UNCHANGED <<currentTerm, messages>>
  BY <1>1 DEF HandleVoteGranted
<1>3. PICK none : none = {}
  OBVIOUS
<1>4. messages' \subseteq messages \union none /\ \A r \in none : Plain(r)
  BY <1>2, <1>3
<1>5. CASE UNCHANGED <<role, log, elected>>
  BY <1>1, <1>2, <1>4, <1>5, RolesSame, AllLinksHas, FollowerMatch
<1>6. CASE BecomeLeader(i)
  <2>1. PICK n, e : n = LastIndex(log[i]) /\ e = [index |-> n + 1, term |-> currentTerm[i], value |-> NOOP]
    OBVIOUS
  <2>2. /\ role' = [role EXCEPT ![i] = "LEADER"]
        /\ log' = [log EXCEPT ![i] = Push(log[i], e)]
        /\ elected' = elected \union {[term |-> currentTerm[i], leader |-> i]}
    BY <1>6, <2>1 DEF BecomeLeader
  <2>3. log[i] \in Log /\ n \in Nat /\ currentTerm[i] \in Nat /\ e \in Entry
    <3>1. log[i] \in Log /\ currentTerm[i] \in Nat
      BY DEF TypeOK, LogTypeOK, VoteTypeOK
    <3>2. n \in Nat
      BY <2>1, <3>1, LogFacts
    <3>3. e \in Entry
      BY <2>1, <3>1, <3>2 DEF Entry
    <3> QED
      BY <3>1, <3>2, <3>3
  <2>4. PICK x : x = Link(n + 1, TermAt(log[i], n), e)
    OBVIOUS
  <2>5. x.index = n + 1 /\ x.entry.term = currentTerm[i]
    BY <2>1, <2>4 DEF Link
  <2>6. log'[i] = Push(log[i], e) /\ \A j \in Server : j # i => log'[j] = log[j]
    BY <2>2 DEF TypeOK, LogTypeOK
  <2>7. /\ Links(log'[i]) \subseteq Links(log[i]) \union {x}
        /\ \/ log'[i] = log[i]
           \/ LastIndex(log'[i]) = n + 1
    BY <2>1, <2>3, <2>4, <2>6, PushLinks
  <2>8. AllLinks' \subseteq AllLinks \union {x}
    <3>1. PICK A : A = AllLinks \union {x}
      OBVIOUS
    <3>2. \A j \in Server : Links(log'[j]) \subseteq A
      BY <2>6, <2>7, <3>1, AllLinksHas
    <3>3. \A r \in none : Plain(r) \/ MessageLinks(r) \subseteq A
      BY <1>4
    <3> QED
      BY <1>4, <3>1, <3>2, <3>3, LinksKept
  <2>9. log'[i] = log[i] => AllLinks' \subseteq AllLinks
    <3>1. ASSUME log'[i] = log[i]
          PROVE  \A j \in Server : Links(log'[j]) \subseteq AllLinks
      BY <2>6, <3>1, AllLinksHas
    <3> QED
      BY <1>4, <3>1, LinksKept
  <2>10. ASSUME NEW y \in elected', y.term = currentTerm[i]
         PROVE  y.leader = i /\ y \notin elected
    <3>1. ElectionSafety'
      BY MajoritiesElectOne, PTL
    <3>2. PICK z : z = [term |-> currentTerm[i], leader |-> i]
      OBVIOUS
    <3>3. z \in elected' /\ z.term = currentTerm[i] /\ z.leader = i
      BY <2>2, <3>2
    <3>4. y.leader = i
      BY <2>10, <3>1, <3>3 DEF ElectionSafety
    <3>5. y \notin elected
      BY <1>2, <2>3, <2>10, <3>4 DEF MatchInv, ElectedOnce
    <3> QED
      BY <3>4, <3>5
  <2>11. \A b \in AllLinks : b.entry.term # currentTerm[i]
    BY <2>2, <2>10 DEF MatchInv, LinksOfElected
  <2>12. OneLink'
    BY <2>5, <2>8, <2>11, FreshLink
  <2>13. LinksOfElected'
    <3>1. PICK w : w = [term |-> currentTerm[i], leader |-> i]
      OBVIOUS
    <3>2. w \in elected' /\ w.term = currentTerm[i]
      BY <2>2, <3>1
    <3> QED
      BY <2>2, <2>5, <2>8, <3>2 DEF MatchInv, LinksOfElected
  <2>14. LeaderHasLinks'
    <3> SUFFICES ASSUME NEW j \in Server, role'[j] = "LEADER"
                 PROVE  /\ [term |-> currentTerm[j], leader |-> j] \in elected'
                        /\ \A a \in AllLinks' :
                              a.entry.term = currentTerm[j] => a.index <= LastIndex(log'[j])
      BY <1>2 DEF LeaderHasLinks
    <3>1. CASE j = i
      <4>1. ASSUME NEW a \in AllLinks', a.entry.term = currentTerm[i]
            PROVE  a = x /\ log'[i] # log[i]
        BY <2>8, <2>9, <2>11, <4>1
      <4> QED
        BY <2>2, <2>3, <2>5, <2>7, <3>1, <4>1
    <3>2. CASE j # i
      <4>1. role[j] = "LEADER"
        BY <2>2, <3>2 DEF TypeOK, VoteTypeOK
      <4>2. /\ [term |-> currentTerm[j], leader |-> j] \in elected
            /\ \A a \in AllLinks : a.entry.term = currentTerm[j] => a.index <= LastIndex(log[j])
        BY <4>1 DEF MatchInv, LeaderHasLinks
      <4>3. currentTerm[j] # currentTerm[i]
        <5>1. PICK z \in elected : z.term = currentTerm[j] /\ z.leader = j
          BY <4>2
        <5> QED
          BY <2>2, <2>10, <3>2, <5>1
      <4> QED
        BY <2>2, <2>5, <2>6, <2>8, <3>2, <4>2, <4>3
    <3> QED
      BY <3>1, <3>2
  <2>15. ElectedOnce'
    <3> SUFFICES ASSUME NEW y \in elected'
                 PROVE  /\ y.term <= currentTerm[y.leader]
                        /\ role'[y.leader] = "CANDIDATE" => y.term < currentTerm[y.leader]
      BY <1>2 DEF ElectedOnce
    <3>1. CASE y \in elected
      <4>1. y.leader \in Server
        BY <3>1 DEF TypeOK, HistoryTypeOK
      <4>2. role'[y.leader] = "CANDIDATE" => role[y.leader] = "CANDIDATE"
        BY <2>2, <4>1 DEF TypeOK, VoteTypeOK
      <4> QED
        BY <3>1, <4>2 DEF MatchInv, ElectedOnce
    <3>2. CASE y \notin elected
      <4>1. y.term = currentTerm[i] /\ y.leader = i
        BY <2>2, <3>2
      <4>2. role'[i] = "LEADER"
        BY <2>2 DEF TypeOK, VoteTypeOK
      <4> QED
        BY <2>3, <4>1, <4>2
    <3> QED
      BY <3>1, <3>2
  <2> QED
    BY <2>12, <2>13, <2>14, <2>15 DEF MatchInv
<1> QED
  BY <1>1, <1>5, <1>6 DEF HandleVoteGranted, logVars

-----------------------------------------------------------------------------
(* The invariant, and LogMatching from it.                                 *)

LEMMA InitMatch == Init => MatchInv
<1> SUFFICES ASSUME Init PROVE MatchInv
  OBVIOUS
<1>1. \A i \in Server : Links(log[i]) = {}
  <2>1. EmptyLog.base + 1 = 1 /\ LastIndex(EmptyLog) = 0
    BY DEF EmptyLog, LastIndex
  <2>2. Links(EmptyLog) = {}
    BY <2>1 DEF Links
  <2> QED
    BY <2>2 DEF Init
<1>2. AllLinks = {}
  BY <1>1 DEF AllLinks, Init
<1> QED
  BY <1>2 DEF Init, MatchInv, OneLink, LinksOfElected, LeaderHasLinks, ElectedOnce

LEMMA NextMatch ==
    TypeOK /\ TypeOK' /\ ElectionInv /\ ElectionInv' /\ EdgesAgree /\ MatchInv /\ [Next]_vars
        => MatchInv'
<1> SUFFICES ASSUME TypeOK, TypeOK', ElectionInv, ElectionInv', EdgesAgree, MatchInv, [Next]_vars
             PROVE  MatchInv'
  OBVIOUS
<1>1. CASE UNCHANGED vars
  <2>1. PICK none : none = {}
    OBVIOUS
  <2>2. /\ UNCHANGED <<currentTerm, role, elected, log>>
        /\ messages' \subseteq messages \union none
        /\ \A m \in none : Plain(m) \/ \E j \in Server : MessageLinks(m) \subseteq Links(log[j])
    BY <1>1, <2>1 DEF vars, voteVars, logVars, history
  <2> QED
    BY <2>2, SameLogs, QuietMatch
<1>2. CASE Next
  BY <1>2, RestartMatch, DriverMatch, SubmitMatch, QuietHandlersMatch, FollowerHandlersMatch,
     VoteHandlersMatch, HandleVoteGrantedMatch DEF Next, Receive
<1> QED
  BY <1>1, <1>2

\* The link of a log at a live index.
LEMMA LinkAt ==
    ASSUME TypeOK, NEW i \in Server, NEW k \in Nat, Live(log[i], k)
    PROVE  Link(k, TermAt(log[i], k - 1), EntryAt(log[i], k)) \in AllLinks
<1>1. log[i].base \in Nat /\ LastIndex(log[i]) \in Nat
  BY LogFacts DEF TypeOK, LogTypeOK
<1>2. k \in log[i].base + 1 .. LastIndex(log[i])
  BY <1>1 DEF Live
<1>3. Link(k, TermAt(log[i], k - 1), EntryAt(log[i], k)) \in Links(log[i])
  BY <1>2 DEF Links
<1> QED
  BY <1>3, AllLinksHas

\* Equal terms at an index mean equal entries, and equal terms before them.
LEMMA SameLink ==
    ASSUME TypeOK, MatchInv, NEW i \in Server, NEW j \in Server, NEW k \in Nat,
           Live(log[i], k), Live(log[j], k), EntryAt(log[i], k).term = EntryAt(log[j], k).term
    PROVE  EntryAt(log[i], k) = EntryAt(log[j], k) /\ TermAt(log[i], k - 1) = TermAt(log[j], k - 1)
<1>1. PICK a \in AllLinks, b \in AllLinks :
         /\ a = Link(k, TermAt(log[i], k - 1), EntryAt(log[i], k))
         /\ b = Link(k, TermAt(log[j], k - 1), EntryAt(log[j], k))
  BY LinkAt
<1>2. a = b
  BY <1>1 DEF MatchInv, OneLink, Link
<1> QED
  BY <1>1, <1>2 DEF Link

\* Down from an index where the terms agree, link by link.
LEMMA ChainsMatch == TypeOK /\ MatchInv => LogMatching
<1> SUFFICES ASSUME TypeOK, MatchInv, NEW i \in Server, NEW j \in Server,
                    NEW k \in Nat, NEW x \in Nat, x <= k,
                    Live(log[i], k), Live(log[j], k), Live(log[i], x), Live(log[j], x),
                    TermAt(log[i], k) = TermAt(log[j], k)
             PROVE  EntryAt(log[i], x) = EntryAt(log[j], x)
  BY DEF LogMatching
<1>1. /\ log[i].base \in Nat /\ LastIndex(log[i]) \in Nat
      /\ log[j].base \in Nat /\ LastIndex(log[j]) \in Nat
  BY LogFacts DEF TypeOK, LogTypeOK
<1>2. ASSUME NEW y \in Nat, x <= y, y <= k
      PROVE  /\ Live(log[i], y) /\ Live(log[j], y)
             /\ TermAt(log[i], y) = EntryAt(log[i], y).term
             /\ TermAt(log[j], y) = EntryAt(log[j], y).term
  <2>1. Live(log[i], y) /\ Live(log[j], y) /\ y # 0 /\ y # log[i].base /\ y # log[j].base
    BY <1>1, <1>2 DEF Live
  <2> QED
    BY <2>1 DEF TermAt
<1> DEFINE S == {y \in Nat : x <= y /\ y <= k /\ EntryAt(log[i], y) = EntryAt(log[j], y)}
<1>3. k \in S
  BY <1>2, SameLink
<1>4. S \in SUBSET Nat /\ S # {}
  BY <1>3
<1>5. PICK y \in S : \A z \in S : y <= z
  BY <1>4, MinOfNaturals
<1>6. CASE y = x
  BY <1>5, <1>6
<1>7. CASE y # x
  <2>1. y - 1 \in Nat /\ x <= y - 1 /\ y - 1 <= k /\ y \in Nat /\ x <= y /\ y <= k
        /\ EntryAt(log[i], y) = EntryAt(log[j], y)
    BY <1>5, <1>7
  <2>2. TermAt(log[i], y - 1) = TermAt(log[j], y - 1)
    BY <1>2, <2>1, SameLink
  <2>3. EntryAt(log[i], y - 1) = EntryAt(log[j], y - 1)
    BY <1>2, <2>1, <2>2, SameLink
  <2>4. y - 1 \in S
    BY <2>1, <2>3
  <2> QED
    BY <1>5, <2>1, <2>4
<1> QED
  BY <1>6, <1>7

\* As long as no node is sent entries that differ from the edge of its snapshot,
\* there is one entry for an index and a term in all logs and messages: whatever
\* the network does, and however often nodes restart without their logs.
THEOREM MatchInvariant == Spec /\ []EdgesAgree => []MatchInv
BY TypeCorrect, ElectionInvariant, InitMatch, NextMatch, PTL DEF Spec

\* Two logs that agree on the term at an index agree on all entries up to it, with
\* restarts, full rings, compaction and snapshots: what handle(AppendEntries) checks
\* before it appends is enough, given what it does not check at the snapshot edge.
THEOREM LogsMatch == Spec /\ []EdgesAgree => []LogMatching
BY TypeCorrect, MatchInvariant, ChainsMatch, PTL

\* Until the first compaction the hypothesis above is no restriction: messages carry
\* entries from index 1 on, and the edge is at 0.
THEOREM UncompactedLogsMatch == Spec /\ []Uncompacted => []LogMatching
<1>1. TypeOK /\ Uncompacted => EdgesAgree
  <2> SUFFICES ASSUME TypeOK, Uncompacted, NEW m \in messages, m.type = "AppendEntries",
                      NEW k \in 1 .. Len(m.entries), m.prevIndex + k = log[m.to].base
               PROVE  FALSE
    BY DEF EdgesAgree
  <2>1. m.to \in Server /\ m.prevIndex \in Nat
    BY MessageFields DEF TypeOK
  <2>2. m.prevIndex + k = 0
    BY <2>1 DEF Uncompacted
  <2> QED
    BY <2>1, <2>2
<1> QED
  BY <1>1, TypeCorrect, LogsMatch, PTL

-----------------------------------------------------------------------------
(* The safety of commits (CommitInv): chains of terms.                     *)

\* Terms that do not fall from one index to the next do not fall at all.
LEMMA StepwiseAscending ==
    ASSUME NEW f, NEW lo \in Nat, NEW hi \in Nat,
           \A k \in lo .. hi : f[k] \in Nat,
           \A k \in lo + 1 .. hi : f[k - 1] <= f[k]
    PROVE  \A x, y \in lo .. hi : x <= y => f[x] <= f[y]
<1> SUFFICES ASSUME NEW x \in lo .. hi, NEW y \in lo .. hi, x <= y, ~(f[x] <= f[y])
             PROVE  FALSE
  OBVIOUS
<1> DEFINE S == {k \in x .. y : f[x] <= f[k]}
<1>1. x \in S /\ S \in SUBSET Nat /\ y \in Nat /\ \A k \in S : k <= y
  OBVIOUS
<1>2. PICK z \in S : \A k \in S : k <= z
  <2> HIDE DEF S
  <2>1. Max(S) \in S /\ \A k \in S : Max(S) >= k
    BY <1>1, MaxOfNaturals
  <2> QED
    BY <1>1, <2>1
<1>3. z # y /\ z + 1 \in x .. y /\ z + 1 \in lo + 1 .. hi
  BY <1>2
<1>4. f[z] <= f[z + 1]
  BY <1>3
<1>5. z + 1 \in S
  BY <1>2, <1>3, <1>4
<1> QED
  BY <1>2, <1>3, <1>5

\* Chains that agree at n, and before every index where they agree, agree up to n.
LEMMA AgreeBackwards ==
    ASSUME NEW f, NEW g, NEW lo \in Nat, NEW n \in Nat, lo <= n, f[n] = g[n],
           AgreeBefore(f, g, lo, n)
    PROVE  \A k \in lo .. n : f[k] = g[k]
<1> SUFFICES ASSUME NEW x \in lo .. n, f[x] # g[x]
             PROVE  FALSE
  OBVIOUS
<1> DEFINE S == {k \in lo .. n : f[k] # g[k]}
<1>1. x \in S /\ S \subseteq Nat /\ \A k \in S : k <= n
  OBVIOUS
<1>2. PICK z \in S : \A k \in S : k <= z
  BY <1>1, MaxOfNaturals
<1>3. z # n /\ z + 1 \in lo + 1 .. n /\ (z + 1) - 1 = z
  BY <1>2
<1>4. f[z + 1] = g[z + 1]
  BY <1>2, <1>3
<1> QED
  BY <1>2, <1>3, <1>4 DEF AgreeBefore

\* If a term starts nowhere above k, a chain that has it at n has it at k.
LEMMA TermReachesDown ==
    ASSUME NEW f, NEW t, NEW k \in Nat, NEW n \in Nat, k <= n, f[n] = t,
           NoStartAbove(f, t, k, n)
    PROVE  f[k] = t
<1> DEFINE g == [x \in k .. n |-> t]
<1>1. f[n] = g[n] /\ AgreeBefore(f, g, k, n)
  BY DEF AgreeBefore, NoStartAbove
<1> HIDE DEF g
<1>2. \A x \in k .. n : f[x] = g[x]
  BY <1>1, AgreeBackwards
<1> QED
  BY <1>2 DEF g

-----------------------------------------------------------------------------
(* Views.                                                                  *)

LEMMA LogShape ==
    ASSUME NEW s, Shape(s), NEW i \in Server
    PROVE  /\ s.log[i] \in Seq(Entry) /\ Len(s.log[i]) \in Nat
           /\ \A k \in 1 .. Len(s.log[i]) :
                 s.log[i][k] \in Entry /\ s.log[i][k].term \in Nat
           /\ \A k \in 0 .. Len(s.log[i]) : TermOf(s.log[i], k) \in Nat
<1>1. s.log[i] \in Seq(Entry)
  BY DEF Shape
<1>2. \A k \in 1 .. Len(s.log[i]) : s.log[i][k] \in Entry /\ s.log[i][k].term \in Nat
  BY <1>1, EntryTerm
<1> QED
  BY <1>1, <1>2 DEF TermOf

LEMMA MessageShape ==
    ASSUME NEW s, Shape(s), NEW m \in s.msgs, IsAppend(m)
    PROVE  /\ m.prevIndex \in Nat /\ m.prevTerm \in Nat /\ m.term \in Nat /\ m.commit \in Nat
           /\ m.from \in Server /\ m.to \in Server
           /\ m.entries \in Seq(Entry) /\ Len(m.entries) \in Nat /\ MsgLast(m) \in Nat
           /\ MsgLast(m) = m.prevIndex + Len(m.entries)
           /\ \A y \in m.prevIndex + 1 .. MsgLast(m) :
                 /\ y - m.prevIndex \in 1 .. Len(m.entries)
                 /\ m.entries[y - m.prevIndex] \in Entry
                 /\ MsgTerm(m, y) = m.entries[y - m.prevIndex].term
           /\ \A y \in m.prevIndex .. MsgLast(m) : MsgTerm(m, y) \in Nat
<1>1. m \in Message
  BY DEF Shape
<1>2. /\ m.prevIndex \in Nat /\ m.prevTerm \in Nat /\ m.term \in Nat /\ m.commit \in Nat
      /\ m.from \in Server /\ m.to \in Server /\ m.entries \in Seq(Entry)
  BY <1>1, MessageFields DEF IsAppend
<1>3. \A y \in m.prevIndex + 1 .. MsgLast(m) :
         /\ y - m.prevIndex \in 1 .. Len(m.entries) /\ y # m.prevIndex
         /\ m.entries[y - m.prevIndex] \in Entry
  BY <1>2 DEF MsgLast
<1> QED
  BY <1>2, <1>3, EntryTerm DEF MsgLast, MsgTerm

LEMMA LogLink ==
    ASSUME NEW s, NEW i \in Server, NEW k \in 1 .. Len(s.log[i])
    PROVE  Link(k, TermOf(s.log[i], k - 1), s.log[i][k]) \in Chains(s)
BY DEF Chains, ChainOf

LEMMA MessageLink ==
    ASSUME NEW s, Shape(s), NEW m \in s.msgs, IsAppend(m),
           NEW y \in m.prevIndex + 1 .. MsgLast(m)
    PROVE  Link(y, MsgTerm(m, y - 1), m.entries[y - m.prevIndex]) \in Chains(s)
<1>1. /\ m.prevIndex \in Nat /\ Len(m.entries) \in Nat
      /\ y - m.prevIndex \in 1 .. Len(m.entries)
  BY MessageShape
<1> DEFINE x == y - m.prevIndex
<1>2. /\ m.prevIndex + x = y
      /\ MsgTerm(m, y - 1) = IF x = 1 THEN m.prevTerm ELSE m.entries[x - 1].term
  BY <1>1 DEF MsgTerm
<1>3. Link(y, MsgTerm(m, y - 1), m.entries[x]) \in MessageLinks(m)
  BY <1>1, <1>2 DEF MessageLinks
<1> QED
  BY <1>3 DEF Chains

\* Every link is one of these.
LEMMA ChainCases ==
    ASSUME NEW s, Shape(s), NEW a \in Chains(s)
    PROVE  \/ \E i \in Server : \E k \in 1 .. Len(s.log[i]) :
                 a = Link(k, TermOf(s.log[i], k - 1), s.log[i][k])
           \/ \E m \in s.msgs : \E y \in m.prevIndex + 1 .. MsgLast(m) :
                 IsAppend(m) /\ a = Link(y, MsgTerm(m, y - 1), m.entries[y - m.prevIndex])
<1>1. CASE \E i \in Server : a \in ChainOf(s.log[i])
  BY <1>1 DEF ChainOf
<1>2. CASE \E m \in s.msgs : IsAppend(m) /\ a \in MessageLinks(m)
  <2>1. PICK m \in s.msgs : IsAppend(m) /\ a \in MessageLinks(m)
    BY <1>2
  <2>2. PICK x \in 1 .. Len(m.entries) :
            a = Link(m.prevIndex + x,
                     IF x = 1 THEN m.prevTerm ELSE m.entries[x - 1].term, m.entries[x])
    BY <2>1 DEF MessageLinks
  <2>3. m.prevIndex \in Nat /\ Len(m.entries) \in Nat
    BY <2>1, MessageShape
  <2> DEFINE y == m.prevIndex + x
  <2>4. /\ y \in m.prevIndex + 1 .. MsgLast(m) /\ y - m.prevIndex = x
        /\ MsgTerm(m, y - 1) = IF x = 1 THEN m.prevTerm ELSE m.entries[x - 1].term
    BY <2>3 DEF MsgTerm, MsgLast
  <2> QED
    BY <2>1, <2>2, <2>4
<1> QED
  BY <1>1, <1>2 DEF Chains

-----------------------------------------------------------------------------
(* What links say about whole chains.                                      *)

LEMMA LinkFields ==
    \A k, t, e : Link(k, t, e).index = k /\ Link(k, t, e).prev = t /\ Link(k, t, e).entry = e
BY DEF Link

LEMMA LogAscends ==
    ASSUME NEW s, Linked(s), NEW i \in Server,
           NEW x \in 0 .. Len(s.log[i]), NEW y \in 0 .. Len(s.log[i]), x <= y
    PROVE  TermOf(s.log[i], x) <= TermOf(s.log[i], y)
<1> DEFINE W == s.log[i]
           f == [k \in 0 .. Len(W) |-> TermOf(W, k)]
<1>1. Len(W) \in Nat /\ \A k \in 0 .. Len(W) : TermOf(W, k) \in Nat
  BY LogShape DEF Linked
<1>2. ASSUME NEW k \in 1 .. Len(W) PROVE TermOf(W, k - 1) <= TermOf(W, k)
  <2>1. Link(k, TermOf(W, k - 1), W[k]).prev <= Link(k, TermOf(W, k - 1), W[k]).entry.term
    BY LogLink DEF Linked, LinksRise
  <2> QED
    BY <1>1, <2>1, LinkFields DEF TermOf
<1>3. \A k \in 0 + 1 .. Len(W) : f[k - 1] <= f[k]
  BY <1>1, <1>2
<1>4. \A k \in 0 .. Len(W) : f[k] \in Nat
  BY <1>1
<1> HIDE DEF f
<1>5. \A u, v \in 0 .. Len(W) : u <= v => f[u] <= f[v]
  BY <1>1, <1>3, <1>4, StepwiseAscending
<1>6. f[x] <= f[y]
  BY <1>5
<1> QED
  BY <1>6 DEF f

LEMMA MessageAscends ==
    ASSUME NEW s, Linked(s), NEW m \in s.msgs, IsAppend(m),
           NEW x \in m.prevIndex .. MsgLast(m), NEW y \in m.prevIndex .. MsgLast(m), x <= y
    PROVE  MsgTerm(m, x) <= MsgTerm(m, y)
<1> DEFINE p == m.prevIndex
           q == MsgLast(m)
           f == [k \in p .. q |-> MsgTerm(m, k)]
<1>1. p \in Nat /\ q \in Nat /\ \A k \in p .. q : MsgTerm(m, k) \in Nat
  BY MessageShape DEF Linked
<1>2. ASSUME NEW k \in p + 1 .. q PROVE MsgTerm(m, k - 1) <= MsgTerm(m, k)
  <2> DEFINE a == Link(k, MsgTerm(m, k - 1), m.entries[k - p])
  <2>1. a \in Chains(s)
    BY MessageLink DEF Linked
  <2>2. a.prev <= a.entry.term
    BY <2>1 DEF Linked, LinksRise
  <2>3. MsgTerm(m, k) = m.entries[k - p].term
    BY MessageShape DEF Linked
  <2> QED
    BY <2>2, <2>3, LinkFields
<1>3. \A k \in p + 1 .. q : f[k - 1] <= f[k]
  BY <1>1, <1>2
<1>4. \A k \in p .. q : f[k] \in Nat
  BY <1>1
<1> HIDE DEF f
<1>5. \A u, v \in p .. q : u <= v => f[u] <= f[v]
  BY <1>1, <1>3, <1>4, StepwiseAscending
<1>6. f[x] <= f[y]
  BY <1>5
<1> QED
  BY <1>6 DEF f

\* Two logs with the same term at n are the same up to n.
LEMMA SameUpTo ==
    ASSUME NEW s, Linked(s), NEW i \in Server, NEW j \in Server, NEW n \in Nat,
           n <= Len(s.log[i]), n <= Len(s.log[j]),
           TermOf(s.log[i], n) = TermOf(s.log[j], n)
    PROVE  \A k \in 1 .. n : s.log[i][k] = s.log[j][k]
<1> DEFINE V == s.log[i]
           W == s.log[j]
           f == [k \in 0 .. n |-> TermOf(V, k)]
           g == [k \in 0 .. n |-> TermOf(W, k)]
<1>1. Len(V) \in Nat /\ Len(W) \in Nat
  BY LogShape DEF Linked
<1>2. ASSUME NEW k \in 1 .. n, TermOf(V, k) = TermOf(W, k)
      PROVE  V[k] = W[k] /\ TermOf(V, k - 1) = TermOf(W, k - 1)
  <2> DEFINE a == Link(k, TermOf(V, k - 1), V[k])
             b == Link(k, TermOf(W, k - 1), W[k])
  <2>1. a \in Chains(s) /\ b \in Chains(s)
    BY <1>1, LogLink
  <2>2. a.entry.term = b.entry.term /\ a.index = b.index
    BY <1>2, LinkFields DEF TermOf
  <2>3. a = b
    BY <2>1, <2>2 DEF Linked, LinksAgree
  <2> HIDE DEF V, W
  <2> QED
    BY <2>3, LinkFields
<1>3. f[n] = g[n] /\ AgreeBefore(f, g, 0, n)
  BY <1>1, <1>2 DEF AgreeBefore
<1> HIDE DEF f, g
<1>4. \A k \in 0 .. n : f[k] = g[k]
  <2>1. 0 \in Nat /\ 0 <= n
    OBVIOUS
  <2> QED
    BY <1>3, <2>1, AgreeBackwards
<1>5. \A k \in 1 .. n : TermOf(V, k) = TermOf(W, k)
  BY <1>4 DEF f, g
<1> QED
  BY <1>2, <1>5

\* A log and a message with the same term at n are the same from there down to
\* where the message starts.
LEMMA SameWithMessage ==
    ASSUME NEW s, Linked(s), NEW i \in Server, NEW m \in s.msgs, IsAppend(m),
           NEW n \in m.prevIndex .. MsgLast(m), n <= Len(s.log[i]),
           TermOf(s.log[i], n) = MsgTerm(m, n)
    PROVE  /\ TermOf(s.log[i], m.prevIndex) = m.prevTerm
           /\ \A y \in m.prevIndex + 1 .. n :
                 s.log[i][y] = m.entries[y - m.prevIndex] /\ s.log[i][y].term = MsgTerm(m, y)
<1> DEFINE V == s.log[i]
           p == m.prevIndex
           f == [k \in p .. n |-> TermOf(V, k)]
           g == [k \in p .. n |-> MsgTerm(m, k)]
<1>1. /\ Len(V) \in Nat /\ p \in Nat /\ MsgLast(m) \in Nat
      /\ \A y \in p + 1 .. MsgLast(m) : MsgTerm(m, y) = m.entries[y - p].term
  BY LogShape, MessageShape DEF Linked
<1>2. ASSUME NEW k \in p + 1 .. n, TermOf(V, k) = MsgTerm(m, k)
      PROVE  V[k] = m.entries[k - p] /\ TermOf(V, k - 1) = MsgTerm(m, k - 1)
  <2> DEFINE a == Link(k, TermOf(V, k - 1), V[k])
             b == Link(k, MsgTerm(m, k - 1), m.entries[k - p])
  <2>0. k \in 1 .. Len(V) /\ k \in p + 1 .. MsgLast(m)
    BY <1>1
  <2>1. a \in Chains(s) /\ b \in Chains(s)
    BY <2>0, LogLink, MessageLink DEF Linked
  <2>2. a.entry.term = b.entry.term /\ a.index = b.index
    <3>1. V[k].term = m.entries[k - p].term
      <4>1. k # 0 /\ MsgTerm(m, k) = m.entries[k - p].term
        BY <1>1, <2>0
      <4> HIDE DEF V, p
      <4> QED
        BY <1>2, <4>1 DEF TermOf
    <3> HIDE DEF V, p
    <3> QED
      BY <3>1, LinkFields
  <2>3. a = b
    BY <2>1, <2>2 DEF Linked, LinksAgree
  <2> HIDE DEF V
  <2> QED
    BY <2>3, LinkFields
<1>3. f[n] = g[n] /\ AgreeBefore(f, g, p, n)
  BY <1>1, <1>2 DEF AgreeBefore
<1> HIDE DEF f, g
<1>4. \A k \in p .. n : f[k] = g[k]
  <2>1. p \in Nat /\ n \in Nat /\ p <= n
    BY <1>1
  <2> QED
    BY <1>3, <2>1, AgreeBackwards
<1>5. \A k \in p .. n : TermOf(V, k) = MsgTerm(m, k)
  BY <1>4 DEF f, g
<1>6. TermOf(V, p) = m.prevTerm
  BY <1>1, <1>5 DEF MsgTerm
<1>7. \A y \in p + 1 .. n : V[y] = m.entries[y - p] /\ V[y].term = MsgTerm(m, y)
  <2> TAKE y \in p + 1 .. n
  <2>1. y \in p .. n /\ y \in p + 1 .. MsgLast(m)
    BY <1>1
  <2>2. V[y] = m.entries[y - p]
    BY <1>2, <1>5, <2>1
  <2> QED
    BY <1>1, <2>1, <2>2
<1> QED
  BY <1>6, <1>7

\* A log that has a term at n has it down to the index where the term starts.
LEMMA LogHasFrom ==
    ASSUME NEW s, Shape(s), NEW i \in Server, NEW n, NEW t, NEW d \in Nat \ {0},
           Holds(s.log[i], n, t), d <= n, StartsBy(s, t, d)
    PROVE  Holds(s.log[i], d, t)
<1> DEFINE V == s.log[i]
           f == [k \in d .. n |-> TermOf(V, k)]
<1>1. Len(V) \in Nat /\ n \in 1 .. Len(V) /\ n \in Nat /\ TermOf(V, n) = t
  BY LogShape DEF Holds, TermOf
<1>2. ASSUME NEW k \in d + 1 .. n, TermOf(V, k) = t PROVE TermOf(V, k - 1) = t
  <2> DEFINE b == Link(k, TermOf(V, k - 1), V[k])
  <2>0. k \in 1 .. Len(V)
    BY <1>1
  <2>1. b \in Chains(s) /\ b.entry.term = t /\ b.index = k /\ b.prev = TermOf(V, k - 1)
    BY <1>2, <2>0, LogLink, LinkFields DEF TermOf
  <2>2. b.prev # t => b.index <= d
    BY <2>1 DEF StartsBy
  <2> QED
    BY <2>1, <2>2
<1>3. f[n] = t /\ NoStartAbove(f, t, d, n)
  BY <1>1, <1>2 DEF NoStartAbove
<1> HIDE DEF f
<1>4. f[d] = t
  BY <1>1, <1>3, TermReachesDown
<1>5. TermOf(V, d) = t
  BY <1>1, <1>4 DEF f
<1> QED
  BY <1>1, <1>5 DEF Holds, TermOf

\* A log that has a term at n has it wherever below n there is an entry of the term.
LEMMA LogReachesDown ==
    ASSUME NEW s, Linked(s), NEW i \in Server, NEW n, NEW a \in Chains(s),
           Holds(s.log[i], n, a.entry.term), a.index \in Nat \ {0}, a.index <= n
    PROVE  Holds(s.log[i], a.index, a.entry.term)
<1>1. StartsBy(s, a.entry.term, a.index)
  BY DEF Linked, LinksAgree, StartsBy
<1> QED
  BY <1>1, LogHasFrom DEF Linked

LEMMA MessageReachesDown ==
    ASSUME NEW s, Linked(s), NEW m \in s.msgs, IsAppend(m), NEW a \in Chains(s),
           NEW n \in m.prevIndex .. MsgLast(m), MsgTerm(m, n) = a.entry.term,
           a.index \in m.prevIndex .. n
    PROVE  MsgTerm(m, a.index) = a.entry.term
<1> DEFINE t == a.entry.term
           d == a.index
           p == m.prevIndex
           f == [k \in d .. n |-> MsgTerm(m, k)]
<1>1. /\ p \in Nat /\ MsgLast(m) \in Nat /\ n \in Nat /\ d \in Nat /\ d <= n
      /\ \A y \in p + 1 .. MsgLast(m) : MsgTerm(m, y) = m.entries[y - p].term
  BY MessageShape DEF Linked
<1>2. ASSUME NEW k \in d + 1 .. n, MsgTerm(m, k) = t PROVE MsgTerm(m, k - 1) = t
  <2> DEFINE b == Link(k, MsgTerm(m, k - 1), m.entries[k - p])
  <2>0. k \in p + 1 .. MsgLast(m)
    BY <1>1
  <2>1. b \in Chains(s) /\ b.entry.term = t /\ b.index = k /\ b.prev = MsgTerm(m, k - 1)
    BY <1>1, <1>2, <2>0, MessageLink, LinkFields DEF Linked
  <2>2. b.prev # t => b.index <= d
    BY <2>1 DEF Linked, LinksAgree
  <2> QED
    BY <1>1, <2>1, <2>2
<1>3. f[n] = t /\ NoStartAbove(f, t, d, n)
  BY <1>1, <1>2 DEF NoStartAbove
<1> HIDE DEF f
<1>4. f[d] = t
  <2>1. d \in Nat /\ n \in Nat /\ d <= n
    BY <1>1
  <2> HIDE DEF d, t
  <2> QED
    BY <1>3, <2>1, TermReachesDown
<1> QED
  BY <1>1, <1>4 DEF f

-----------------------------------------------------------------------------
(* Majorities.                                                             *)

LEMMA MajoritiesMeet ==
    ASSUME NEW P \in SUBSET Server, NEW Q \in SUBSET Server,
           Cardinality(P) >= Majority, Cardinality(Q) >= Majority
    PROVE  \E j \in Server : j \in P /\ j \in Q
<1>1. IsFiniteSet(Server) /\ Cardinality(Server) \in Nat
  BY ServerAssumption, FS_CardinalityType
<1>2. /\ IsFiniteSet(P) /\ IsFiniteSet(Q) /\ IsFiniteSet(P \cup Q)
      /\ Cardinality(P) \in Nat /\ Cardinality(Q) \in Nat
      /\ Cardinality(P \cup Q) <= Cardinality(Server)
  BY <1>1, FS_Subset, FS_CardinalityType
<1>3. /\ Cardinality(P \cap Q) \in Nat
      /\ Cardinality(P \cup Q) = Cardinality(P) + Cardinality(Q) - Cardinality(P \cap Q)
  BY <1>2, FS_Union, FS_Intersection, FS_CardinalityType
<1>4. 2 * Majority > Cardinality(Server) /\ Majority \in Nat
  BY <1>1 DEF Majority
<1>5. Cardinality(P \cap Q) # 0
  BY <1>1, <1>2, <1>3, <1>4
<1>6. P \cap Q # {}
  BY <1>5, FS_EmptySet
<1> QED
  BY <1>6

\* An entry that may still be chosen was acknowledged by a voter of any later leader.
LEMMA VoterAcknowledged ==
    ASSUME NEW s, Shape(s), VotesBind(s), NEW e \in s.elected, NEW n, NEW t \in Nat,
           t < e.term, Choosable(s, n, t)
    PROVE  \E j \in Server : /\ Acked(s, j, n, t) /\ t < s.term[j]
                             /\ Ballot(j, e.term, e.leader) \in s.ballots
<1>1. PICK P \in SUBSET Server :
          /\ Cardinality(P) >= Majority
          /\ \A j \in P : Ballot(j, e.term, e.leader) \in s.ballots
  BY DEF VotesBind
<1>2. PICK Q \in SUBSET Server :
          Cardinality(Q) >= Majority /\ \A j \in Q : s.term[j] <= t \/ Acked(s, j, n, t)
  BY DEF Choosable
<1>3. PICK j \in Server : j \in P /\ j \in Q
  BY <1>1, <1>2, MajoritiesMeet
<1>4. Ballot(j, e.term, e.leader) \in s.ballots
  BY <1>1, <1>3
<1>5. e.term <= s.term[j]
  <2>1. Ballot(j, e.term, e.leader).term <= s.term[Ballot(j, e.term, e.leader).voter]
    BY <1>4 DEF VotesBind
  <2> QED
    BY <2>1 DEF Ballot
<1>6. e.term \in Nat /\ s.term[j] \in Nat
  BY DEF Shape
<1>7. t < s.term[j] /\ Acked(s, j, n, t)
  BY <1>2, <1>3, <1>5, <1>6
<1> QED
  BY <1>4, <1>7

LEMMA AckedStays ==
    ASSUME NEW s, NEW u, Onward(s, u), NEW j, NEW n, NEW t, Acked(s, j, n, t)
    PROVE  Acked(u, j, n, t)
BY DEF Onward, Acked

LEMMA ChosenStays ==
    ASSUME NEW s, NEW u, Onward(s, u), NEW n, NEW t, Chosen(s, n, t)
    PROVE  Chosen(u, n, t)
BY AckedStays DEF Chosen

LEMMA ChosenIsChoosable ==
    ASSUME NEW s, NEW n, NEW t, Chosen(s, n, t)
    PROVE  Choosable(s, n, t)
BY DEF Chosen, Choosable

\* What may be chosen after a step might have been chosen before it.
LEMMA ChoosableWas ==
    ASSUME NEW s, NEW u, Onward(s, u), NEW n, NEW t \in Nat, Choosable(u, n, t)
    PROVE  Choosable(s, n, t)
<1>1. PICK Q \in SUBSET Server :
          Cardinality(Q) >= Majority /\ \A j \in Q : u.term[j] <= t \/ Acked(u, j, n, t)
  BY DEF Choosable
<1>2. ASSUME NEW j \in Q PROVE s.term[j] <= t \/ Acked(s, j, n, t)
  <2>0. j \in Server /\ s.term[j] \in Nat /\ u.term[j] \in Nat /\ s.term[j] <= u.term[j]
    BY DEF Onward, Shape
  <2>1. CASE u.term[j] <= t
    BY <2>0, <2>1
  <2>2. CASE [term |-> t, leader |-> j] \in u.elected
    BY <2>2 DEF Onward, Acked
  <2>3. CASE \E a \in u.acks : a.node = j /\ a.term = t /\ n <= a.index
    BY <2>3 DEF Onward, Acked
  <2> QED
    BY <1>1, <2>1, <2>2, <2>3 DEF Acked
<1> QED
  BY <1>1, <1>2 DEF Choosable

-----------------------------------------------------------------------------
(* Messages just sent.                                                     *)

LEMMA LinkParts ==
    ASSUME NEW s, Linked(s), NEW a \in Chains(s)
    PROVE  a.index \in Nat \ {0} /\ a.prev \in Nat /\ a.entry.term \in Nat
<1>0. Shape(s)
  BY DEF Linked
<1>1. CASE \E i \in Server : \E k \in 1 .. Len(s.log[i]) :
              a = Link(k, TermOf(s.log[i], k - 1), s.log[i][k])
  <2>0. PICK i \in Server : \E k \in 1 .. Len(s.log[i]) :
            a = Link(k, TermOf(s.log[i], k - 1), s.log[i][k])
    BY <1>1
  <2>1. PICK k \in 1 .. Len(s.log[i]) : a = Link(k, TermOf(s.log[i], k - 1), s.log[i][k])
    BY <2>0
  <2>2. Len(s.log[i]) \in Nat
    BY <1>0, LogShape
  <2>3. k \in Nat \ {0} /\ k - 1 \in 0 .. Len(s.log[i])
    BY <2>2
  <2>4. s.log[i][k].term \in Nat /\ TermOf(s.log[i], k - 1) \in Nat
    BY <1>0, <2>3, LogShape
  <2> QED
    BY <2>1, <2>3, <2>4, LinkFields
<1>2. CASE \E m \in s.msgs : \E y \in m.prevIndex + 1 .. MsgLast(m) :
              IsAppend(m) /\ a = Link(y, MsgTerm(m, y - 1), m.entries[y - m.prevIndex])
  <2>0. PICK m \in s.msgs : \E y \in m.prevIndex + 1 .. MsgLast(m) :
            IsAppend(m) /\ a = Link(y, MsgTerm(m, y - 1), m.entries[y - m.prevIndex])
    BY <1>2
  <2>1. PICK y \in m.prevIndex + 1 .. MsgLast(m) :
            IsAppend(m) /\ a = Link(y, MsgTerm(m, y - 1), m.entries[y - m.prevIndex])
    BY <2>0
  <2>2. m.prevIndex \in Nat /\ MsgLast(m) \in Nat
    BY <1>0, <2>1, MessageShape
  <2>3. y \in Nat \ {0} /\ y - 1 \in m.prevIndex .. MsgLast(m)
    BY <2>2
  <2>4. m.entries[y - m.prevIndex] \in Entry /\ MsgTerm(m, y - 1) \in Nat
    BY <1>0, <2>1, <2>3, MessageShape
  <2>5. m.entries[y - m.prevIndex].term \in Nat
    BY <2>4, EntryTerm
  <2> QED
    BY <2>1, <2>3, <2>4, <2>5, LinkFields
<1> QED
  BY <1>0, <1>1, <1>2, ChainCases

\* A message just sent is part of the sender's log.
LEMMA SentTerms ==
    ASSUME NEW u, Shape(u), NEW m \in u.msgs, IsAppend(m), SentBy(u, m)
    PROVE  /\ \A y \in m.prevIndex .. MsgLast(m) : MsgTerm(m, y) = TermOf(u.log[m.from], y)
           /\ \A y \in m.prevIndex + 1 .. MsgLast(m) :
                 m.entries[y - m.prevIndex] = u.log[m.from][y]
           /\ MsgLast(m) <= Len(u.log[m.from]) /\ m.prevIndex <= MsgLast(m)
<1> DEFINE p == m.prevIndex
           q == MsgLast(m)
           W == u.log[m.from]
<1>1. /\ p \in Nat /\ q \in Nat /\ Len(m.entries) \in Nat /\ q = p + Len(m.entries)
      /\ \A y \in p + 1 .. q : /\ y - p \in 1 .. Len(m.entries)
                               /\ MsgTerm(m, y) = m.entries[y - p].term
  BY MessageShape
<1>2. /\ q <= Len(W) /\ m.prevTerm = TermOf(W, p)
      /\ \A k \in 1 .. Len(m.entries) : m.entries[k] = W[p + k]
  BY DEF SentBy
<1>3. ASSUME NEW y \in p + 1 .. q
      PROVE  m.entries[y - p] = W[y] /\ MsgTerm(m, y) = TermOf(W, y)
  <2>1. y - p \in 1 .. Len(m.entries) /\ p + (y - p) = y /\ y # 0
    BY <1>1
  <2>2. m.entries[y - p] = W[y]
    BY <1>2, <2>1
  <2> QED
    BY <1>1, <2>1, <2>2 DEF TermOf
<1>4. MsgTerm(m, p) = TermOf(W, p)
  BY <1>2 DEF MsgTerm
<1>5. ASSUME NEW y \in p .. q PROVE MsgTerm(m, y) = TermOf(W, y)
  <2>1. y = p \/ y \in p + 1 .. q
    BY <1>1
  <2> QED
    BY <1>3, <1>4, <2>1
<1> QED
  BY <1>1, <1>2, <1>3, <1>5

\* The links after a step: those of the logs, and old ones.
LEMMA ChainsAfter ==
    ASSUME NEW s, NEW u, Onward(s, u), NEW a \in Chains(u)
    PROVE  \/ a \in Chains(s)
           \/ \E i \in Server : \E k \in 1 .. Len(u.log[i]) :
                 a = Link(k, TermOf(u.log[i], k - 1), u.log[i][k])
<1>0. Shape(s) /\ Shape(u)
  BY DEF Onward
<1>1. CASE \E m \in u.msgs : \E y \in m.prevIndex + 1 .. MsgLast(m) :
              IsAppend(m) /\ a = Link(y, MsgTerm(m, y - 1), m.entries[y - m.prevIndex])
  <2>0. PICK m \in u.msgs : \E y \in m.prevIndex + 1 .. MsgLast(m) :
            IsAppend(m) /\ a = Link(y, MsgTerm(m, y - 1), m.entries[y - m.prevIndex])
    BY <1>1
  <2>1. PICK y \in m.prevIndex + 1 .. MsgLast(m) :
            IsAppend(m) /\ a = Link(y, MsgTerm(m, y - 1), m.entries[y - m.prevIndex])
    BY <2>0
  <2>2. CASE m \in s.msgs
    BY <1>0, <2>1, <2>2, MessageLink
  <2>3. CASE SentBy(u, m)
    <3>1. /\ m.entries[y - m.prevIndex] = u.log[m.from][y]
          /\ MsgLast(m) <= Len(u.log[m.from]) /\ m.from \in Server
      BY <1>0, <2>1, <2>3, SentTerms DEF SentBy
    <3>2. m.prevIndex \in Nat /\ MsgLast(m) \in Nat /\ Len(u.log[m.from]) \in Nat
      BY <1>0, <2>1, <3>1, MessageShape, LogShape
    <3>3. y - 1 \in m.prevIndex .. MsgLast(m) /\ y \in 1 .. Len(u.log[m.from])
      BY <3>1, <3>2
    <3>4. MsgTerm(m, y - 1) = TermOf(u.log[m.from], y - 1)
      BY <1>0, <2>1, <2>3, <3>3, SentTerms
    <3> QED
      BY <2>1, <3>1, <3>3, <3>4
  <2> QED
    BY <2>1, <2>2, <2>3 DEF Onward
<1> QED
  BY <1>0, <1>1, ChainCases

\* A message just sent is as ChoosableIsSent wants it.
LEMMA SentIsTrue ==
    ASSUME NEW u, Linked(u), LeadersLead(u), ChoosableIsHeld(u), ReachesTerm(u),
           NEW m \in u.msgs, IsAppend(m), SentBy(u, m), NEW a \in Chains(u)
    PROVE  /\ a.index <= m.prevIndex =>
                 \/ a.entry.term > m.term
                 \/ a.entry.term < m.term /\ ~Choosable(u, a.index, a.entry.term)
                 \/ m.prevTerm >= a.entry.term
           /\ a.entry.term < m.term /\ Choosable(u, a.index, a.entry.term) =>
                 /\ a.index < MsgLast(m)
                 /\ m.prevIndex <= a.index => MsgTerm(m, a.index) = a.entry.term
<1> DEFINE i == m.from
           W == u.log[i]
           n == a.index
           t == a.entry.term
           p == m.prevIndex
           q == MsgLast(m)
<1>0. Shape(u)
  BY DEF Linked
<1>1. /\ i \in Server /\ u.role[i] = "LEADER" /\ m.term = u.term[i]
      /\ q <= Len(W) /\ p <= q
      /\ \A y \in p .. q : MsgTerm(m, y) = TermOf(W, y)
  BY <1>0, SentTerms DEF SentBy
<1>2. /\ p \in Nat /\ q \in Nat /\ Len(W) \in Nat /\ n \in Nat \ {0} /\ t \in Nat /\ m.term \in Nat
      /\ \A k \in 0 .. Len(W) : TermOf(W, k) \in Nat
  BY <1>0, <1>1, LogShape, MessageShape, LinkParts
<1>3. TermOf(W, Len(W)) = m.term /\ TermOf(W, q) = m.term /\ TermOf(W, p) = m.prevTerm
  <2>1. MsgTerm(m, q) = m.term
    BY DEF ReachesTerm
  <2>2. MsgTerm(m, p) = m.prevTerm
    BY DEF MsgTerm
  <2>3. TermOf(W, Len(W)) = m.term
    BY <1>1 DEF LeadersLead
  <2>4. p \in p .. q /\ q \in p .. q
    BY <1>1, <1>2
  <2>5. MsgTerm(m, q) = TermOf(W, q) /\ MsgTerm(m, p) = TermOf(W, p)
    BY <1>1, <2>4
  <2> QED
    BY <2>1, <2>2, <2>3, <2>5
<1>4. ASSUME t < m.term, Choosable(u, n, t) PROVE Holds(W, n, t)
  BY <1>1, <1>2, <1>3, <1>4 DEF ChoosableIsHeld
<1>5. ASSUME t = m.term, n <= Len(W) PROVE Holds(W, n, t)
  <2>1. Holds(W, Len(W), t)
    <3>1. Len(W) # 0
      BY <1>2, <1>5
    <3> QED
      BY <1>2, <1>3, <1>5, <3>1 DEF Holds, TermOf
  <2> QED
    BY <1>1, <1>2, <1>5, <2>1, LogReachesDown
<1>6. ASSUME Holds(W, n, t) PROVE n \in 1 .. Len(W) /\ TermOf(W, n) = t
  BY <1>2, <1>6 DEF Holds, TermOf
<1>7. ASSUME NEW x \in 0 .. Len(W), NEW y \in 0 .. Len(W), x <= y
      PROVE  TermOf(W, x) <= TermOf(W, y)
  BY <1>1, <1>7, LogAscends
<1>8. ASSUME n <= p, ~(t > m.term), ~(t < m.term /\ ~Choosable(u, n, t))
      PROVE  m.prevTerm >= t
  <2>1. Holds(W, n, t)
    BY <1>1, <1>2, <1>4, <1>5, <1>8
  <2>2. TermOf(W, n) <= TermOf(W, p)
    BY <1>1, <1>2, <1>7, <1>8
  <2> QED
    BY <1>2, <1>3, <1>6, <2>1, <2>2
<1>9. ASSUME t < m.term, Choosable(u, n, t)
      PROVE  n < q /\ (p <= n => MsgTerm(m, n) = t)
  <2>1. n \in 1 .. Len(W) /\ TermOf(W, n) = t
    BY <1>4, <1>6, <1>9
  <2>2. n < q
    <3>1. q <= n => TermOf(W, q) <= TermOf(W, n)
      BY <1>1, <1>2, <1>7, <2>1
    <3> QED
      BY <1>2, <1>3, <1>9, <2>1, <3>1
  <2> QED
    BY <1>1, <1>2, <2>1, <2>2
<1> QED
  BY <1>8, <1>9

-----------------------------------------------------------------------------
(* What survives every step.                                               *)

LEMMA EvidenceStays ==
    ASSUME NEW s, NEW u, Follows(s, u), KeepsChosen(s, u),
           NEW x \in Server, NEW n \in Nat, NEW t \in Nat, Evidence(s, x, n, t)
    PROVE  Evidence(u, x, n, t) /\ Keeps(s, u, x, n)
<1>1. Holds(s.log[x], n, t) /\ Acked(s, x, n, t) /\ Choosable(s, n, t)
  BY ChosenIsChoosable DEF Evidence
<1>2. Keeps(s, u, x, n)
  BY <1>1 DEF KeepsChosen
<1>3. Shape(s) /\ Shape(u) /\ Onward(s, u)
  BY DEF Follows, Onward
<1>4. Len(s.log[x]) \in Nat /\ Len(u.log[x]) \in Nat
  BY <1>3, LogShape
<1>5. Holds(u.log[x], n, t)
  BY <1>1, <1>2, <1>4 DEF Keeps, Holds
<1>6. Chosen(u, n, t) /\ Acked(u, x, n, t)
  BY <1>3, AckedStays, ChosenStays DEF Evidence
<1> QED
  BY <1>2, <1>5, <1>6 DEF Evidence

LEMMA CommittedStays ==
    ASSUME NEW s, NEW u, Follows(s, u), KeepsChosen(s, u),
           NEW i \in Server, u.commit[i] = s.commit[i]
    PROVE  CommittedAt(u, i)
<1> SUFFICES ASSUME u.commit[i] > 0
             PROVE  /\ u.commit[i] <= Len(u.log[i])
                    /\ \E x \in Server, n \in Nat, t \in Nat :
                          /\ u.commit[i] <= n /\ t <= u.term[i] /\ Evidence(u, x, n, t)
                          /\ \A k \in 1 .. u.commit[i] : u.log[x][k] = u.log[i][k]
  BY DEF CommittedAt
<1>0. s.commit[i] \in Nat /\ s.term[i] \in Nat /\ u.term[i] \in Nat /\ s.term[i] <= u.term[i]
  BY DEF Follows, Onward, Shape
<1>1. CommittedAt(s, i)
  BY DEF Follows, Sound, CommittedIsChosen
<1>2. PICK x \in Server, n \in Nat, t \in Nat :
          /\ s.commit[i] <= n /\ t <= s.term[i] /\ Evidence(s, x, n, t)
          /\ \A k \in 1 .. s.commit[i] : s.log[x][k] = s.log[i][k]
  BY <1>1 DEF CommittedAt
<1>3. Evidence(u, x, n, t) /\ Keeps(s, u, x, n)
  BY <1>2, EvidenceStays
<1>4. Keeps(s, u, i, s.commit[i])
  BY DEF KeepsChosen
<1>5. ASSUME NEW k \in 1 .. u.commit[i] PROVE u.log[x][k] = u.log[i][k]
  <2>1. k \in 1 .. s.commit[i] /\ k \in 1 .. n
    BY <1>0, <1>2
  <2>2. u.log[x][k] = s.log[x][k] /\ u.log[i][k] = s.log[i][k]
    BY <1>3, <1>4, <2>1 DEF Keeps
  <2> QED
    BY <1>2, <2>1, <2>2
<1>6. u.commit[i] <= Len(u.log[i])
  BY <1>4 DEF Keeps
<1>7. u.commit[i] <= n /\ t <= u.term[i]
  BY <1>0, <1>2
<1> QED
  BY <1>3, <1>5, <1>6, <1>7

LEMMA AppendsAfter ==
    ASSUME NEW s, NEW u, Follows(s, u), KeepsChosen(s, u), LeadersWere(s, u),
           Linked(u), LeadersLead(u), CommittedIsChosen(u),
           \A m \in s.msgs : IsAppend(m) /\ m.prevTerm = m.term =>
               StartsBy(u, m.term, m.prevIndex)
    PROVE  AppendsTrue(u)
<1> SUFFICES ASSUME NEW m \in u.msgs, IsAppend(m)
             PROVE  /\ [term |-> m.term, leader |-> m.from] \in u.elected
                    /\ m.prevIndex = 0 => m.prevTerm = 0
                    /\ m.prevTerm = m.term => StartsBy(u, m.term, m.prevIndex)
                    /\ u.role[m.from] = "LEADER" /\ u.term[m.from] = m.term =>
                          MsgLast(m) <= Len(u.log[m.from])
                    /\ m.commit > 0 =>
                          \E x \in Server, n \in Nat, t \in Nat :
                              m.commit <= n /\ t <= m.term /\ Evidence(u, x, n, t)
  BY DEF AppendsTrue
<1>0. Onward(s, u) /\ Shape(s) /\ Shape(u) /\ Sound(s)
  BY DEF Follows, Onward
<1>1. CASE m \in s.msgs
  <2>1. /\ [term |-> m.term, leader |-> m.from] \in s.elected
        /\ m.prevIndex = 0 => m.prevTerm = 0
        /\ s.role[m.from] = "LEADER" /\ s.term[m.from] = m.term =>
              MsgLast(m) <= Len(s.log[m.from])
        /\ m.commit > 0 =>
              \E x \in Server, n \in Nat, t \in Nat :
                  m.commit <= n /\ t <= m.term /\ Evidence(s, x, n, t)
    BY <1>0, <1>1 DEF Sound, AppendsTrue
  <2>2. [term |-> m.term, leader |-> m.from] \in u.elected
    BY <1>0, <2>1 DEF Onward
  <2>3. m.from \in Server /\ MsgLast(m) \in Nat /\ m.term \in Nat
    BY <1>0, <1>1, MessageShape
  <2>4. ASSUME u.role[m.from] = "LEADER", u.term[m.from] = m.term
        PROVE  MsgLast(m) <= Len(u.log[m.from])
    <3>1. /\ s.term[m.from] = m.term /\ Len(s.log[m.from]) <= Len(u.log[m.from])
          /\ s.role[m.from] = "LEADER" \/ s.role[m.from] = "CANDIDATE"
      BY <2>3, <2>4 DEF LeadersWere
    <3>2. s.role[m.from] # "CANDIDATE"
      <4> DEFINE e == [term |-> m.term, leader |-> m.from]
      <4>1. s.role[e.leader] = "CANDIDATE" => e.term < s.term[e.leader]
        BY <1>0, <2>1 DEF Sound, LeadersLead
      <4>2. e.leader = m.from /\ e.term = m.term
        OBVIOUS
      <4> HIDE DEF e
      <4> QED
        BY <2>3, <3>1, <4>1, <4>2
    <3>3. Len(s.log[m.from]) \in Nat /\ Len(u.log[m.from]) \in Nat
      BY <1>0, <2>3, LogShape
    <3> QED
      BY <2>1, <2>3, <3>1, <3>2, <3>3
  <2>5. ASSUME m.commit > 0
        PROVE  \E x \in Server, n \in Nat, t \in Nat :
                   m.commit <= n /\ t <= m.term /\ Evidence(u, x, n, t)
    BY <2>1, <2>5, EvidenceStays
  <2> QED
    BY <1>1, <2>1, <2>2, <2>4, <2>5
<1>2. CASE SentBy(u, m)
  <2> DEFINE i == m.from
             p == m.prevIndex
             W == u.log[i]
  <2>1. /\ i \in Server /\ u.role[i] = "LEADER" /\ m.term = u.term[i]
        /\ MsgLast(m) <= Len(W) /\ m.prevTerm = TermOf(W, p) /\ m.commit = u.commit[i]
    BY <1>2 DEF SentBy
  <2>2. [term |-> m.term, leader |-> i] \in u.elected
    BY <2>1 DEF LeadersLead
  <2>3. m.prevIndex = 0 => m.prevTerm = 0
    BY <2>1 DEF TermOf
  <2>4. m.commit > 0 =>
            \E x \in Server, n \in Nat, t \in Nat :
                m.commit <= n /\ t <= m.term /\ Evidence(u, x, n, t)
    <3>1. CommittedAt(u, i)
      BY <2>1 DEF CommittedIsChosen
    <3> QED
      BY <2>1, <3>1 DEF CommittedAt
  <2>5. ASSUME m.prevTerm = m.term PROVE StartsBy(u, m.term, p)
    <3>0. /\ p \in Nat /\ MsgLast(m) \in Nat /\ Len(W) \in Nat /\ p <= MsgLast(m)
      BY <1>0, <1>2, <2>1, MessageShape, LogShape, SentTerms
    <3>1. p # 0
      <4> DEFINE e == [term |-> m.term, leader |-> i]
      <4>1. 0 < e.term
        BY <2>2 DEF LeadersLead
      <4>2. e.term = m.term
        OBVIOUS
      <4> HIDE DEF e
      <4> QED
        BY <2>3, <2>5, <4>1, <4>2
    <3>2. p \in 1 .. Len(W)
      BY <2>1, <3>0, <3>1
    <3> DEFINE a == Link(p, TermOf(W, p - 1), W[p])
    <3>3. a \in Chains(u) /\ a.entry.term = m.term /\ a.index = p
      BY <2>1, <2>5, <3>1, <3>2, LogLink, LinkFields DEF TermOf
    <3> QED
      BY <3>3 DEF Linked, LinksAgree, StartsBy
  <2> QED
    BY <2>1, <2>2, <2>3, <2>4, <2>5
<1> QED
  BY <1>0, <1>1, <1>2 DEF Onward

LEMMA SentAfter ==
    ASSUME NEW s, NEW u, Follows(s, u), Linked(u), LeadersLead(u), ChoosableIsHeld(u),
           \A a \in Chains(u) : a \in Chains(s) \/ FreshTo(s, u, a)
    PROVE  ChoosableIsSent(u)
<1> SUFFICES ASSUME NEW a \in Chains(u), NEW m \in u.msgs, IsAppend(m)
             PROVE  /\ a.index <= m.prevIndex =>
                          \/ a.entry.term > m.term
                          \/ a.entry.term < m.term /\ ~Choosable(u, a.index, a.entry.term)
                          \/ m.prevTerm >= a.entry.term
                    /\ a.entry.term < m.term /\ Choosable(u, a.index, a.entry.term) =>
                          /\ a.index < MsgLast(m)
                          /\ m.prevIndex <= a.index => MsgTerm(m, a.index) = a.entry.term
  BY DEF ChoosableIsSent
<1>0. Onward(s, u) /\ ReachesTerm(u) /\ Shape(u) /\ ChoosableIsSent(s)
  BY DEF Follows, Onward, Sound
<1>1. a.index \in Nat /\ a.entry.term \in Nat /\ m.term \in Nat /\ m.prevIndex \in Nat
  BY <1>0, LinkParts, MessageShape
<1>2. CASE SentBy(u, m)
  BY <1>0, <1>2, SentIsTrue
<1>3. CASE m \in s.msgs /\ a \in Chains(s)
  <2>1. Choosable(u, a.index, a.entry.term) => Choosable(s, a.index, a.entry.term)
    BY <1>0, <1>1, ChoosableWas
  <2> QED
    BY <1>0, <1>3, <2>1 DEF ChoosableIsSent
<1>4. CASE m \in s.msgs /\ FreshTo(s, u, a)
  <2>1. /\ a.entry.term < m.term => ~Choosable(u, a.index, a.entry.term)
        /\ a.entry.term = m.term => a.index > m.prevIndex
    BY <1>4 DEF FreshTo
  <2> QED
    BY <1>1, <2>1
<1> QED
  BY <1>0, <1>2, <1>3, <1>4 DEF Onward

-----------------------------------------------------------------------------
(* Steps that leave the logs alone.                                        *)

LEMMA StillChains ==
    ASSUME NEW s, NEW u, Follows(s, u), Still(s, u)
    PROVE  Chains(u) \subseteq Chains(s) /\ Linked(u) /\ KeepsChosen(s, u)
<1>0. Onward(s, u) /\ Shape(u) /\ Shape(s) /\ Linked(s) /\ u.log = s.log /\ u.elected = s.elected
  BY DEF Follows, Onward, Sound, Still
<1>1. Chains(u) \subseteq Chains(s)
  <2> SUFFICES ASSUME NEW a \in Chains(u) PROVE a \in Chains(s)
    OBVIOUS
  <2> QED
    BY <1>0, ChainsAfter, LogLink
<1>2. Linked(u)
  BY <1>0, <1>1 DEF Linked, LinksAgree, LinksRise
<1>3. ASSUME NEW i \in Server
      PROVE  s.commit[i] <= Len(s.log[i]) /\ s.commit[i] \in Nat /\ Len(s.log[i]) \in Nat
  <2>1. CommittedAt(s, i) /\ s.commit[i] \in Nat
    BY <1>0 DEF Follows, Sound, CommittedIsChosen, Shape
  <2>2. Len(s.log[i]) \in Nat
    BY <1>0, LogShape
  <2> QED
    BY <2>1, <2>2 DEF CommittedAt
<1>4. KeepsChosen(s, u)
  BY <1>0, <1>3 DEF KeepsChosen, Keeps, Holds
<1> QED
  BY <1>1, <1>2, <1>4

LEMMA StillLeads ==
    ASSUME NEW s, NEW u, Follows(s, u), Still(s, u)
    PROVE  LeadersLead(u) /\ AcksTrue(u)
<1>0. /\ Onward(s, u) /\ Shape(u) /\ Shape(s) /\ LeadersLead(s) /\ AcksTrue(s)
      /\ u.log = s.log /\ u.elected = s.elected /\ u.acks = s.acks
  BY DEF Follows, Onward, Sound, Still
<1>1. Chains(u) \subseteq Chains(s)
  BY StillChains
<1>2. ASSUME NEW i \in Server
      PROVE  /\ s.term[i] \in Nat /\ u.term[i] \in Nat /\ s.term[i] <= u.term[i]
             /\ \A k \in 1 .. Len(s.log[i]) : s.log[i][k].term \in Nat
  BY <1>0, LogShape DEF Onward, Shape
<1>3. ASSUME NEW i \in Server, NEW k \in 1 .. Len(u.log[i])
      PROVE  u.log[i][k].term <= u.term[i]
  <2>1. s.log[i][k].term <= s.term[i]
    BY <1>0 DEF LeadersLead
  <2> QED
    BY <1>0, <1>2, <2>1
<1>4. ASSUME NEW i \in Server, u.role[i] = "CANDIDATE" PROVE 0 < u.term[i]
  <2>1. (s.role[i] = "CANDIDATE" /\ u.term[i] = s.term[i]) \/ s.term[i] < u.term[i]
    BY <1>4 DEF Still
  <2>2. s.role[i] = "CANDIDATE" => 0 < s.term[i]
    BY <1>0 DEF LeadersLead
  <2>3. s.term[i] \in Nat /\ u.term[i] \in Nat
    BY <1>2
  <2> QED
    BY <2>1, <2>2, <2>3
<1>5. ASSUME NEW i \in Server, u.role[i] = "LEADER"
      PROVE  /\ s.role[i] = "LEADER" /\ u.term[i] = s.term[i]
             /\ [term |-> u.term[i], leader |-> i] \in u.elected
             /\ TermOf(u.log[i], Len(u.log[i])) = u.term[i]
             /\ \A a \in Chains(u) : a.entry.term = u.term[i] => a.index <= Len(u.log[i])
  <2>1. s.role[i] = "LEADER" /\ u.term[i] = s.term[i]
    BY <1>5 DEF Still
  <2> QED
    BY <1>0, <1>1, <2>1 DEF LeadersLead
<1>6. ASSUME NEW e \in u.elected
      PROVE  /\ 0 < e.term /\ e.term <= u.term[e.leader]
             /\ u.role[e.leader] = "CANDIDATE" => e.term < u.term[e.leader]
  <2>1. e \in s.elected /\ e.leader \in Server /\ e.term \in Nat
    BY <1>0 DEF Shape
  <2>2. /\ 0 < e.term /\ e.term <= s.term[e.leader]
        /\ s.role[e.leader] = "CANDIDATE" => e.term < s.term[e.leader]
    BY <1>0, <2>1 DEF LeadersLead
  <2>3. u.role[e.leader] = "CANDIDATE" =>
            \/ s.role[e.leader] = "CANDIDATE" /\ u.term[e.leader] = s.term[e.leader]
            \/ s.term[e.leader] < u.term[e.leader]
    BY <2>1 DEF Still
  <2> QED
    BY <1>2, <2>1, <2>2, <2>3
<1>7. LeadersLead(u)
  BY <1>3, <1>4, <1>5, <1>6 DEF LeadersLead
<1>8. ASSUME NEW a \in u.acks
      PROVE  /\ a.term <= u.term[a.node]
             /\ \E e \in u.elected : e.term = a.term
             /\ a.term = u.term[a.node] => Holds(u.log[a.node], a.index, a.term)
             /\ \A i \in Server :
                   u.role[i] = "LEADER" /\ u.term[i] = a.term => a.index <= Len(u.log[i])
  <2>1. a \in s.acks /\ a.node \in Server /\ a.term \in Nat
    BY <1>0 DEF Shape
  <2>2. /\ a.term <= s.term[a.node]
        /\ \E e \in s.elected : e.term = a.term
        /\ a.term = s.term[a.node] => Holds(s.log[a.node], a.index, a.term)
        /\ \A i \in Server :
              s.role[i] = "LEADER" /\ s.term[i] = a.term => a.index <= Len(s.log[i])
    BY <1>0, <2>1 DEF AcksTrue
  <2>3. s.term[a.node] \in Nat /\ u.term[a.node] \in Nat /\ s.term[a.node] <= u.term[a.node]
    BY <1>2, <2>1
  <2>4. a.term <= u.term[a.node] /\ (a.term = u.term[a.node] => a.term = s.term[a.node])
    BY <2>1, <2>2, <2>3
  <2> QED
    BY <1>0, <1>5, <2>2, <2>4
<1>9. ASSUME NEW m \in u.msgs, m.type = "AppendEntriesResp", m.success
      PROVE  [node |-> m.from, term |-> m.term, index |-> m.lastIndex] \in u.acks
  BY <1>0, <1>9 DEF AcksTrue, Still
<1>10. ASSUME NEW i \in Server, NEW j \in Server, u.role[i] = "LEADER", i # j
       PROVE  \/ u.match[i][j] = 0
              \/ [node |-> j, term |-> u.term[i], index |-> u.match[i][j]] \in u.acks
  <2>1. s.role[i] = "LEADER" /\ u.term[i] = s.term[i]
    BY <1>5, <1>10
  <2>2. \/ u.match[i][j] = s.match[i][j]
        \/ [node |-> j, term |-> u.term[i], index |-> u.match[i][j]] \in s.acks
    BY <1>10 DEF Still
  <2>3. \/ s.match[i][j] = 0
        \/ [node |-> j, term |-> s.term[i], index |-> s.match[i][j]] \in s.acks
    BY <1>0, <1>10, <2>1 DEF AcksTrue
  <2> QED
    BY <1>0, <2>1, <2>2, <2>3
<1>11. AcksTrue(u)
  BY <1>8, <1>9, <1>10 DEF AcksTrue
<1> QED
  BY <1>7, <1>11

LEMMA StillVotes ==
    ASSUME NEW s, NEW u, Follows(s, u), Still(s, u)
    PROVE  CandidatesTrue(u)
<1>0. /\ Onward(s, u) /\ Shape(u) /\ Shape(s) /\ CandidatesTrue(s) /\ u.log = s.log
  BY DEF Follows, Onward, Sound, Still
<1>2. ASSUME NEW i \in Server
      PROVE  s.term[i] \in Nat /\ u.term[i] \in Nat /\ s.term[i] <= u.term[i]
  BY <1>0 DEF Onward, Shape
<1>3. ASSUME NEW b \in u.ballots PROVE b.term <= u.term[b.candidate]
  <2>1. b.candidate \in Server /\ b.term \in Nat
    BY <1>0 DEF Shape
  <2>2. /\ s.term[b.candidate] \in Nat /\ u.term[b.candidate] \in Nat
        /\ s.term[b.candidate] <= u.term[b.candidate]
    BY <1>2, <2>1
  <2>3. CASE b \in s.ballots
    BY <1>0, <2>1, <2>2, <2>3 DEF CandidatesTrue
  <2>4. CASE OwnVote(s, u, b)
    BY <2>1, <2>2, <2>4 DEF OwnVote
  <2>5. CASE \E m \in s.msgs : GivenFor(s, b, m)
    <3>1. PICK m \in s.msgs : GivenFor(s, b, m)
      BY <2>5
    <3>2. m.type = "RequestVote" /\ ~m.preVote /\ m.from = b.candidate /\ m.term = b.term
      BY <3>1 DEF GivenFor
    <3>3. m.term <= s.term[m.from]
      BY <1>0, <3>2 DEF CandidatesTrue
    <3> QED
      BY <2>1, <2>2, <3>2, <3>3
  <2> QED
    BY <2>3, <2>4, <2>5 DEF Still
<1>4. ASSUME NEW m \in u.msgs, m.type = "RequestVote", ~m.preVote
      PROVE  /\ m.term <= u.term[m.from]
             /\ m.term = u.term[m.from] /\ u.role[m.from] = "CANDIDATE" =>
                   /\ m.lastIndex = Len(u.log[m.from])
                   /\ m.lastTerm = TermOf(u.log[m.from], Len(u.log[m.from]))
  <2>1. m.from \in Server /\ m.term \in Nat
    <3>1. m \in Message
      BY <1>0 DEF Shape
    <3> QED
      BY <1>4, <3>1, MessageFields
  <2>2. /\ s.term[m.from] \in Nat /\ u.term[m.from] \in Nat
        /\ s.term[m.from] <= u.term[m.from]
    BY <1>2, <2>1
  <2>3. CASE AsksTruly(u, m)
    BY <2>2, <2>3 DEF AsksTruly
  <2>4. CASE m \in s.msgs
    <3>1. /\ m.term <= s.term[m.from]
          /\ m.term = s.term[m.from] /\ s.role[m.from] = "CANDIDATE" =>
                /\ m.lastIndex = Len(s.log[m.from])
                /\ m.lastTerm = TermOf(s.log[m.from], Len(s.log[m.from]))
      BY <1>0, <1>4, <2>4 DEF CandidatesTrue
    <3>2. u.role[m.from] = "CANDIDATE" =>
              \/ s.role[m.from] = "CANDIDATE" /\ u.term[m.from] = s.term[m.from]
              \/ s.term[m.from] < u.term[m.from]
      BY <2>1 DEF Still
    <3>3. m.term = u.term[m.from] /\ u.role[m.from] = "CANDIDATE" =>
              m.term = s.term[m.from] /\ s.role[m.from] = "CANDIDATE"
      BY <2>1, <2>2, <3>1, <3>2
    <3>4. m.term <= u.term[m.from]
      BY <2>1, <2>2, <3>1
    <3> QED
      BY <1>0, <3>1, <3>3, <3>4
  <2> QED
    BY <1>4, <2>3, <2>4 DEF Still
<1> QED
  BY <1>3, <1>4 DEF CandidatesTrue

\* What the voter's acknowledgement and the comparison of the logs show of the
\* candidate's log.
LEMMA VoteIsInformed ==
    ASSUME NEW s, Sound(s), NEW a \in Chains(s), Choosable(s, a.index, a.entry.term),
           NEW j \in Server, NEW c \in Server, Acked(s, j, a.index, a.entry.term),
           LET W == s.log[j]
               V == s.log[c]
           IN  \/ TermOf(V, Len(V)) > TermOf(W, Len(W))
               \/ TermOf(V, Len(V)) = TermOf(W, Len(W)) /\ Len(V) >= Len(W)
    PROVE  Holds(s.log[c], a.index, a.entry.term)
<1> DEFINE W == s.log[j]
           V == s.log[c]
           n == a.index
           t == a.entry.term
<1>0. Linked(s) /\ Shape(s) /\ ChoosableIsHeld(s)
  BY DEF Sound, Linked
<1>1. /\ Len(V) \in Nat /\ Len(W) \in Nat /\ n \in Nat \ {0} /\ t \in Nat
      /\ TermOf(V, Len(V)) \in Nat /\ TermOf(W, Len(W)) \in Nat
  BY <1>0, LogShape, LinkParts
<1>2. Holds(W, n, t)
  BY <1>0 DEF ChoosableIsHeld
<1>3. n \in 1 .. Len(W) /\ TermOf(W, n) = t
  BY <1>1, <1>2 DEF Holds, TermOf
<1>4. t <= TermOf(W, Len(W))
  <2>1. TermOf(W, n) <= TermOf(W, Len(W))
    BY <1>0, <1>1, <1>3, LogAscends
  <2> QED
    BY <1>3, <2>1
<1>5. CASE TermOf(V, Len(V)) > t
  BY <1>0, <1>5 DEF ChoosableIsHeld
<1>6. CASE TermOf(V, Len(V)) = t /\ n <= Len(V)
  <2>1. Holds(V, Len(V), t)
    BY <1>1, <1>6 DEF Holds, TermOf
  <2> QED
    BY <1>0, <1>1, <1>6, <2>1, LogReachesDown
<1> QED
  BY <1>1, <1>3, <1>4, <1>5, <1>6

LEMMA StillChoosable ==
    ASSUME NEW s, NEW u, Follows(s, u), Still(s, u)
    PROVE  ChoosableIsHeld(u) /\ ChoosableIsVoted(u) /\ ChoosableIsSent(u)
<1>0. /\ Onward(s, u) /\ Shape(u) /\ Shape(s) /\ Sound(s) /\ Linked(s)
      /\ u.log = s.log /\ u.elected = s.elected /\ u.acks = s.acks
  BY DEF Follows, Onward, Sound, Still
<1>1. Chains(u) \subseteq Chains(s) /\ Linked(u) /\ LeadersLead(u)
  BY StillChains, StillLeads
<1>2. ASSUME NEW a \in Chains(u), Choosable(u, a.index, a.entry.term)
      PROVE  a \in Chains(s) /\ Choosable(s, a.index, a.entry.term)
  <2>1. a \in Chains(s) /\ a.entry.term \in Nat
    BY <1>1, LinkParts
  <2> QED
    BY <1>0, <1>2, <2>1, ChoosableWas
<1>3. \A j, n, t : Acked(u, j, n, t) <=> Acked(s, j, n, t)
  BY <1>0 DEF Acked
<1>4. ChoosableIsHeld(u)
  <2> SUFFICES ASSUME NEW a \in Chains(u), Choosable(u, a.index, a.entry.term), NEW j \in Server,
                      \/ Acked(u, j, a.index, a.entry.term)
                      \/ TermOf(u.log[j], Len(u.log[j])) > a.entry.term
               PROVE  Holds(u.log[j], a.index, a.entry.term)
    BY DEF ChoosableIsHeld
  <2>1. a \in Chains(s) /\ Choosable(s, a.index, a.entry.term)
    BY <1>2
  <2>2. \/ Acked(s, j, a.index, a.entry.term)
        \/ TermOf(s.log[j], Len(s.log[j])) > a.entry.term
    BY <1>0, <1>3
  <2>3. Holds(s.log[j], a.index, a.entry.term)
    BY <1>0, <2>1, <2>2 DEF Sound, ChoosableIsHeld
  <2> QED
    BY <1>0, <2>3
<1>5. ChoosableIsSent(u)
  BY <1>1, <1>4, SentAfter
<1>6. ChoosableIsVoted(u)
  <2> SUFFICES ASSUME NEW a \in Chains(u), NEW b \in u.ballots,
                      Choosable(u, a.index, a.entry.term),
                      a.entry.term < b.term, u.term[b.candidate] = b.term,
                      u.role[b.candidate] = "CANDIDATE",
                      Acked(u, b.voter, a.index, a.entry.term)
               PROVE  Holds(u.log[b.candidate], a.index, a.entry.term)
    BY DEF ChoosableIsVoted
  <2> DEFINE c == b.candidate
  <2>1. /\ a \in Chains(s) /\ Choosable(s, a.index, a.entry.term)
        /\ Acked(s, b.voter, a.index, a.entry.term)
    BY <1>2, <1>3
  <2>2. /\ c \in Server /\ b.voter \in Server /\ b.term \in Nat
        /\ s.term[c] \in Nat /\ u.term[c] \in Nat
    BY <1>0 DEF Shape
  <2>3. (s.role[c] = "CANDIDATE" /\ u.term[c] = s.term[c]) \/ s.term[c] < u.term[c]
    BY <2>2 DEF Still
  <2>4. CASE b \in s.ballots
    <3>1. b.term <= s.term[c]
      BY <1>0, <2>4 DEF Sound, CandidatesTrue
    <3>2. s.role[c] = "CANDIDATE" /\ s.term[c] = b.term
      BY <2>2, <2>3, <3>1
    <3>3. Holds(s.log[c], a.index, a.entry.term)
      BY <1>0, <2>1, <2>4, <3>2 DEF Sound, ChoosableIsVoted
    <3> QED
      BY <1>0, <3>3
  <2>5. CASE OwnVote(s, u, b)
    <3>1. b.voter = c
      BY <2>5 DEF OwnVote
    <3>2. Holds(s.log[c], a.index, a.entry.term)
      BY <1>0, <2>1, <2>2, <3>1 DEF Sound, ChoosableIsHeld
    <3> QED
      BY <1>0, <3>2
  <2>6. CASE \E m \in s.msgs : GivenFor(s, b, m)
    <3>1. PICK m \in s.msgs : GivenFor(s, b, m)
      BY <2>6
    <3>2. m.type = "RequestVote" /\ ~m.preVote /\ m.from = c /\ m.term = b.term
      BY <3>1 DEF GivenFor
    <3>3. m.term <= s.term[c]
      BY <1>0, <3>2 DEF Sound, CandidatesTrue
    <3>4. s.role[c] = "CANDIDATE" /\ s.term[c] = m.term
      BY <2>2, <2>3, <3>2, <3>3
    <3>5. m.lastIndex = Len(s.log[c]) /\ m.lastTerm = TermOf(s.log[c], Len(s.log[c]))
      BY <1>0, <3>2, <3>4 DEF Sound, CandidatesTrue
    <3>6. LET W == s.log[b.voter]
              V == s.log[c]
          IN  \/ TermOf(V, Len(V)) > TermOf(W, Len(W))
              \/ TermOf(V, Len(V)) = TermOf(W, Len(W)) /\ Len(V) >= Len(W)
      BY <3>1, <3>5 DEF GivenFor
    <3>7. Holds(s.log[c], a.index, a.entry.term)
      BY <1>0, <2>1, <2>2, <3>6, VoteIsInformed
    <3> QED
      BY <1>0, <3>7
  <2> QED
    BY <2>4, <2>5, <2>6 DEF Still
<1> QED
  BY <1>4, <1>5, <1>6

LEMMA StillCommitted ==
    ASSUME NEW s, NEW u, Follows(s, u), Still(s, u)
    PROVE  CommittedIsChosen(u)
<1> SUFFICES ASSUME NEW i \in Server PROVE CommittedAt(u, i)
  BY DEF CommittedIsChosen
<1>0. /\ Onward(s, u) /\ Shape(u) /\ u.log = s.log
      /\ KeepsChosen(s, u) /\ LeadersLead(u) /\ AcksTrue(u)
  BY StillChains, StillLeads DEF Follows, Onward, Still
<1>1. CASE u.commit[i] = s.commit[i]
  BY <1>0, <1>1, CommittedStays
<1>2. CASE CommitsAt(s, u, i)
  <2> DEFINE n == u.commit[i]
             t == u.term[i]
  <2>1. n \in Nat /\ t \in Nat /\ Len(u.log[i]) \in Nat
    BY <1>0, LogShape DEF Shape
  <2>2. u.role[i] = "LEADER" /\ Holds(u.log[i], n, t)
    BY <1>0, <1>2 DEF CommitsAt
  <2>3. PICK Q \in SUBSET Server :
            Cardinality(Q) >= Majority /\ \A j \in Q : j = i \/ u.match[i][j] >= n
    BY <1>2 DEF CommitsAt
  <2>4. [term |-> t, leader |-> i] \in u.elected
    BY <1>0, <2>2 DEF LeadersLead
  <2>5. n > 0 /\ n <= Len(u.log[i])
    BY <2>1, <2>2 DEF Holds
  <2>6. ASSUME NEW j \in Q PROVE Acked(u, j, n, t)
    <3>1. CASE j = i
      BY <2>4, <3>1 DEF Acked
    <3>2. CASE j # i
      <4> DEFINE k == u.match[i][j]
                 a == [node |-> j, term |-> t, index |-> k]
      <4>1. k >= n /\ k \in Nat /\ j \in Server
        BY <1>0, <2>3, <3>2 DEF Shape
      <4>2. k = 0 \/ a \in u.acks
        BY <1>0, <2>2, <3>2, <4>1 DEF AcksTrue
      <4>3. a \in u.acks /\ a.node = j /\ a.term = t /\ n <= a.index
        BY <2>1, <2>5, <4>1, <4>2
      <4> HIDE DEF a
      <4> QED
        BY <4>3 DEF Acked
    <3> QED
      BY <3>1, <3>2
  <2>7. Chosen(u, n, t) /\ Acked(u, i, n, t)
    BY <2>3, <2>4, <2>6 DEF Chosen, Acked
  <2>8. Evidence(u, i, n, t)
    BY <2>2, <2>7 DEF Evidence
  <2>9. n <= n /\ t <= t
    BY <2>1
  <2> QED
    BY <2>1, <2>5, <2>8, <2>9 DEF CommittedAt
<1> QED
  BY <1>1, <1>2 DEF Still

LEMMA StillSound ==
    ASSUME NEW s, NEW u, Follows(s, u), Still(s, u)
    PROVE  Sound(u) /\ KeepsChosen(s, u)
<1>1. /\ Linked(u) /\ LeadersLead(u) /\ AcksTrue(u) /\ CandidatesTrue(u) /\ ChoosableIsHeld(u)
      /\ ChoosableIsVoted(u) /\ ChoosableIsSent(u) /\ CommittedIsChosen(u) /\ KeepsChosen(s, u)
      /\ Chains(u) \subseteq Chains(s)
  BY StillChains, StillLeads, StillVotes, StillChoosable, StillCommitted
<1>2. VotesBind(u) /\ ReachesTerm(u) /\ Shape(s) /\ AppendsTrue(s)
  BY DEF Follows, Sound, Linked
<1>3. LeadersWere(s, u)
  <2>1. \A i \in Server : Len(s.log[i]) \in Nat /\ u.log[i] = s.log[i]
    BY <1>2, LogShape DEF Still
  <2> QED
    BY <2>1 DEF LeadersWere, Still
<1>4. ASSUME NEW m \in s.msgs, IsAppend(m), m.prevTerm = m.term
      PROVE  StartsBy(u, m.term, m.prevIndex)
  <2>1. StartsBy(s, m.term, m.prevIndex)
    BY <1>2, <1>4 DEF AppendsTrue
  <2> QED
    BY <1>1, <2>1 DEF StartsBy
<1>5. AppendsTrue(u)
  BY <1>1, <1>3, <1>4, AppendsAfter
<1> QED
  BY <1>1, <1>2, <1>5 DEF Sound

-----------------------------------------------------------------------------
(* A leader appends to its log.                                            *)

LEMMA PushTerm ==
    ASSUME NEW s, NEW u, Follows(s, u), NEW i, Pushes(s, u, i)
    PROVE  /\ i \in Server /\ s.term[i] \in Nat /\ Len(s.log[i]) \in Nat /\ 0 < s.term[i]
           /\ [term |-> s.term[i], leader |-> i] \in u.elected
           /\ OnlyLeader(u, s.term[i], i)
           /\ s.role[i] = "CANDIDATE" => NoLeader(s, s.term[i])
           /\ s.role[i] = "LEADER" \/ s.role[i] = "CANDIDATE"
<1>0. /\ Shape(s) /\ Shape(u) /\ LeadersLead(s) /\ VotesBind(u) /\ Onward(s, u)
      /\ i \in Server /\ s.term[i] \in Nat
  BY DEF Follows, Onward, Sound, Pushes, Shape
<1>1. Len(s.log[i]) \in Nat
  BY <1>0, LogShape
<1> DEFINE d == [term |-> s.term[i], leader |-> i]
<1>2. d \in u.elected /\ d.term = s.term[i] /\ d.leader = i
  BY <1>0 DEF Pushes, LeadersLead
<1>3. ASSUME NEW e \in u.elected, e.term = s.term[i] PROVE e.leader = i
  <2> HIDE DEF d
  <2> QED
    BY <1>0, <1>2, <1>3 DEF VotesBind
<1>4. ASSUME s.role[i] = "CANDIDATE", NEW e \in s.elected, e.term = s.term[i] PROVE FALSE
  <2>1. e \in u.elected
    BY <1>0 DEF Onward
  <2>2. e.leader = i
    BY <1>3, <1>4, <2>1
  <2>3. e.term < s.term[i]
    BY <1>0, <1>4, <2>2 DEF LeadersLead
  <2> QED
    BY <1>0, <1>4, <2>3
<1>5. s.role[i] = "LEADER" \/ s.role[i] = "CANDIDATE"
  BY DEF Pushes
<1>6. 0 < s.term[i]
  <2>1. CASE s.role[i] = "CANDIDATE"
    BY <1>0, <2>1 DEF LeadersLead
  <2>2. CASE s.role[i] = "LEADER"
    <3>1. d \in s.elected
      BY <1>0, <2>2 DEF LeadersLead
    <3>2. 0 < d.term
      BY <1>0, <3>1 DEF LeadersLead
    <3> QED
      BY <3>2
  <2> QED
    BY <1>5, <2>1, <2>2
<1> HIDE DEF d
<1>7. [term |-> s.term[i], leader |-> i] \in u.elected
  BY <1>2 DEF d
<1> QED
  BY <1>0, <1>1, <1>3, <1>4, <1>5, <1>6, <1>7 DEF OnlyLeader, NoLeader

\* Nothing of the leader's term is beyond its log, and nothing at all of the term
\* of one just elected.
LEMMA PushIsFirst ==
    ASSUME NEW s, NEW u, Follows(s, u), NEW i, Pushes(s, u, i)
    PROVE  /\ \A a \in Chains(s) : a.entry.term = s.term[i] =>
                 /\ s.role[i] = "LEADER" /\ a.index <= Len(s.log[i])
                 /\ TermOf(s.log[i], Len(s.log[i])) = s.term[i]
           /\ \A a \in s.acks : a.term = s.term[i] =>
                 s.role[i] = "LEADER" /\ a.index <= Len(s.log[i])
           /\ \A m \in s.msgs : IsAppend(m) /\ m.term = s.term[i] =>
                 s.role[i] = "LEADER" /\ MsgLast(m) <= Len(s.log[i])
<1>0. /\ Shape(s) /\ Linked(s) /\ LeadersLead(s) /\ AcksTrue(s) /\ AppendsTrue(s)
      /\ Onward(s, u)
  BY DEF Follows, Onward, Sound
<1>a. /\ i \in Server /\ (s.role[i] = "LEADER" \/ s.role[i] = "CANDIDATE")
      /\ OnlyLeader(u, s.term[i], i) /\ (s.role[i] = "CANDIDATE" => NoLeader(s, s.term[i]))
  BY PushTerm
<1>1. /\ i \in Server
      /\ \A e \in u.elected : e.term = s.term[i] => e.leader = i
      /\ s.role[i] = "CANDIDATE" => \A e \in s.elected : e.term # s.term[i]
      /\ s.role[i] = "LEADER" \/ s.role[i] = "CANDIDATE"
  BY <1>a DEF OnlyLeader, NoLeader
<1>2. ASSUME NEW a \in Chains(s), a.entry.term = s.term[i]
      PROVE  /\ s.role[i] = "LEADER" /\ a.index <= Len(s.log[i])
             /\ TermOf(s.log[i], Len(s.log[i])) = s.term[i]
  <2>1. \E e \in s.elected : e.term = s.term[i]
    BY <1>0, <1>2 DEF Linked, LinksRise
  <2>2. s.role[i] = "LEADER"
    BY <1>1, <2>1
  <2> QED
    BY <1>0, <1>1, <1>2, <2>2 DEF LeadersLead
<1>3. ASSUME NEW a \in s.acks, a.term = s.term[i]
      PROVE  s.role[i] = "LEADER" /\ a.index <= Len(s.log[i])
  <2>1. \E e \in s.elected : e.term = s.term[i]
    BY <1>0, <1>3 DEF AcksTrue
  <2>2. s.role[i] = "LEADER"
    BY <1>1, <2>1
  <2> QED
    BY <1>0, <1>1, <1>3, <2>2 DEF AcksTrue
<1>4. ASSUME NEW m \in s.msgs, IsAppend(m), m.term = s.term[i]
      PROVE  s.role[i] = "LEADER" /\ MsgLast(m) <= Len(s.log[i])
  <2> DEFINE e == [term |-> m.term, leader |-> m.from]
  <2>1. e \in s.elected /\ e.term = s.term[i] /\ e.leader = m.from
    BY <1>0, <1>4 DEF AppendsTrue
  <2>2. e \in u.elected
    BY <1>0, <2>1 DEF Onward
  <2> HIDE DEF e
  <2>3. s.role[i] = "LEADER" /\ m.from = i
    BY <1>1, <2>1, <2>2
  <2> QED
    BY <1>0, <1>4, <2>3 DEF AppendsTrue
<1> QED
  BY <1>2, <1>3, <1>4

LEMMA PushChains ==
    ASSUME NEW s, NEW u, Follows(s, u), NEW i, Pushes(s, u, i)
    PROVE  /\ \A a \in Chains(u) : a \in Chains(s) \/ a = NewLink(s, u, i)
           /\ NewLink(s, u, i).index = Len(s.log[i]) + 1
           /\ NewLink(s, u, i).entry.term = s.term[i]
           /\ NewLink(s, u, i).entry.index = Len(s.log[i]) + 1
           /\ NewLink(s, u, i).prev = TermOf(s.log[i], Len(s.log[i]))
<1>0. Shape(s) /\ Shape(u) /\ Onward(s, u) /\ i \in Server /\ Len(s.log[i]) \in Nat
  BY PushTerm DEF Follows, Onward
<1> DEFINE L == Len(s.log[i])
<1>1. ASSUME NEW a \in Chains(u) PROVE a \in Chains(s) \/ a = NewLink(s, u, i)
  <2> SUFFICES ASSUME NEW j \in Server, NEW k \in 1 .. Len(u.log[j]),
                      a = Link(k, TermOf(u.log[j], k - 1), u.log[j][k])
               PROVE  a \in Chains(s) \/ a = NewLink(s, u, i)
    BY <1>0, ChainsAfter
  <2>1. CASE j # i
    <3>1. u.log[j] = s.log[j]
      BY <2>1 DEF Pushes
    <3> QED
      BY <3>1, LogLink
  <2>2. CASE j = i /\ k <= L
    <3>1. /\ k \in 1 .. L /\ u.log[i][k] = s.log[i][k]
          /\ k - 1 = 0 \/ u.log[i][k - 1] = s.log[i][k - 1]
      <4>1. \A x \in 1 .. L : u.log[i][x] = s.log[i][x]
        BY DEF Pushes
      <4>2. k \in 1 .. L /\ (k - 1 = 0 \/ k - 1 \in 1 .. L)
        <5>1. Len(u.log[i]) \in Nat
          BY <1>0, LogShape
        <5> QED
          BY <1>0, <2>2, <5>1
      <4> QED
        BY <4>1, <4>2
    <3>2. TermOf(u.log[i], k - 1) = TermOf(s.log[i], k - 1)
      BY <3>1 DEF TermOf
    <3>3. Link(k, TermOf(s.log[i], k - 1), s.log[i][k]) \in Chains(s)
      BY <1>0, <3>1, LogLink
    <3> QED
      BY <2>2, <3>1, <3>2, <3>3
  <2>3. CASE j = i /\ k = L + 1
    <3>1. k - 1 = L /\ (L = 0 \/ u.log[i][L] = s.log[i][L])
      BY <1>0, <2>3 DEF Pushes
    <3>2. TermOf(u.log[i], k - 1) = TermOf(s.log[i], L)
      BY <3>1 DEF TermOf
    <3> QED
      BY <2>3, <3>2 DEF NewLink
  <2>4. j = i => k <= L \/ k = L + 1
    BY <1>0 DEF Pushes
  <2> QED
    BY <2>1, <2>2, <2>3, <2>4
<1>2. /\ NewLink(s, u, i).index = L + 1
      /\ NewLink(s, u, i).entry = u.log[i][L + 1]
      /\ NewLink(s, u, i).prev = TermOf(s.log[i], L)
  BY LinkFields DEF NewLink
<1>3. u.log[i][L + 1].term = s.term[i] /\ u.log[i][L + 1].index = L + 1
  BY DEF Pushes
<1> QED
  BY <1>1, <1>2, <1>3

LEMMA PushLinked ==
    ASSUME NEW s, NEW u, Follows(s, u), NEW i, Pushes(s, u, i)
    PROVE  Linked(u)
<1>0. Shape(s) /\ Shape(u) /\ Onward(s, u) /\ Linked(s) /\ LeadersLead(s)
  BY DEF Follows, Onward, Sound
<1> DEFINE l == NewLink(s, u, i)
           L == Len(s.log[i])
<1>1. /\ \A a \in Chains(u) : a \in Chains(s) \/ a = l
      /\ l.index = L + 1 /\ l.entry.term = s.term[i] /\ l.entry.index = L + 1
      /\ l.prev = TermOf(s.log[i], L)
  BY PushChains
<1>2. /\ i \in Server /\ s.term[i] \in Nat /\ L \in Nat
      /\ [term |-> s.term[i], leader |-> i] \in u.elected
  BY PushTerm
<1>3. \A a \in Chains(s) : a.entry.term = s.term[i] =>
          a.index <= L /\ TermOf(s.log[i], L) = s.term[i]
  BY PushIsFirst
<1>4. \A a \in Chains(s) : a.index \in Nat /\ a.entry.term \in Nat
  BY <1>0, LinkParts
<1> HIDE DEF l
<1>5. LinksAgree(u)
  <2> SUFFICES ASSUME NEW a \in Chains(u), NEW b \in Chains(u), a.entry.term = b.entry.term
               PROVE  /\ a.index = b.index => a = b
                      /\ b.prev # b.entry.term => b.index <= a.index
    BY DEF LinksAgree
  <2>1. CASE a \in Chains(s) /\ b \in Chains(s)
    BY <1>0, <2>1 DEF Linked, LinksAgree
  <2>2. CASE a = l /\ b \in Chains(s)
    BY <1>1, <1>2, <1>3, <1>4, <2>2
  <2>3. CASE a \in Chains(s) /\ b = l
    BY <1>1, <1>2, <1>3, <1>4, <2>3
  <2>4. CASE a = l /\ b = l
    BY <1>1, <1>2, <2>4
  <2> QED
    BY <1>1, <2>1, <2>2, <2>3, <2>4
<1>6. LinksRise(u)
  <2> SUFFICES ASSUME NEW a \in Chains(u)
               PROVE  /\ \E e \in u.elected : e.term = a.entry.term
                      /\ a.prev <= a.entry.term
                      /\ a.entry.index = a.index
    BY DEF LinksRise
  <2>1. CASE a \in Chains(s)
    BY <1>0, <2>1 DEF Linked, LinksRise, Onward
  <2>2. CASE a = l
    <3>1. TermOf(s.log[i], L) <= s.term[i]
      <4>1. L # 0 => s.log[i][L].term <= s.term[i]
        BY <1>0, <1>2 DEF LeadersLead
      <4> QED
        BY <1>2, <4>1 DEF TermOf
    <3>2. \E e \in u.elected : e.term = s.term[i]
      <4> DEFINE e == [term |-> s.term[i], leader |-> i]
      <4>1. e \in u.elected /\ e.term = s.term[i]
        BY <1>2
      <4> HIDE DEF e
      <4> QED
        BY <4>1
    <3> QED
      BY <1>1, <2>2, <3>1, <3>2
  <2> QED
    BY <1>1, <2>1, <2>2
<1> QED
  BY <1>0, <1>5, <1>6 DEF Linked

LEMMA PushKeeps ==
    ASSUME NEW s, NEW u, Follows(s, u), NEW i, Pushes(s, u, i)
    PROVE  /\ KeepsChosen(s, u)
           /\ \A j \in Server : \A n, t : Holds(s.log[j], n, t) => Holds(u.log[j], n, t)
<1>0. Shape(s) /\ Shape(u) /\ i \in Server /\ \A j \in Server : CommittedAt(s, j)
  BY PushTerm DEF Follows, Onward, Sound, CommittedIsChosen
<1>1. ASSUME NEW j \in Server
      PROVE  /\ Len(s.log[j]) \in Nat /\ Len(u.log[j]) \in Nat
             /\ Len(s.log[j]) <= Len(u.log[j])
             /\ \A k \in 1 .. Len(s.log[j]) : u.log[j][k] = s.log[j][k]
  <2>1. Len(s.log[j]) \in Nat /\ Len(u.log[j]) \in Nat
    BY <1>0, LogShape
  <2>2. CASE j = i
    BY <2>1, <2>2 DEF Pushes
  <2>3. CASE j # i
    <3>1. u.log[j] = s.log[j]
      BY <2>3 DEF Pushes
    <3> QED
      BY <2>1, <3>1
  <2> QED
    BY <2>2, <2>3
<1>2. ASSUME NEW j \in Server PROVE s.commit[j] \in Nat /\ s.commit[j] <= Len(s.log[j])
  <2>1. s.commit[j] \in Nat /\ CommittedAt(s, j) /\ Len(s.log[j]) \in Nat
    BY <1>0, <1>1 DEF Shape
  <2> QED
    BY <2>1 DEF CommittedAt
<1>3. ASSUME NEW j \in Server, NEW n \in Nat, n <= Len(s.log[j]) PROVE Keeps(s, u, j, n)
  BY <1>1, <1>3 DEF Keeps
<1>4. KeepsChosen(s, u)
  <2>1. \A j \in Server : Keeps(s, u, j, s.commit[j])
    BY <1>2, <1>3
  <2>2. ASSUME NEW j \in Server, NEW n \in Nat, NEW t \in Nat, Holds(s.log[j], n, t)
        PROVE  Keeps(s, u, j, n)
    <3>1. n <= Len(s.log[j])
      BY <1>1, <2>2 DEF Holds
    <3> QED
      BY <1>3, <3>1
  <2> QED
    BY <2>1, <2>2 DEF KeepsChosen
<1>5. ASSUME NEW j \in Server, NEW n, NEW t, Holds(s.log[j], n, t) PROVE Holds(u.log[j], n, t)
  BY <1>1, <1>5 DEF Holds
<1> QED
  BY <1>4, <1>5

LEMMA PushLeads ==
    ASSUME NEW s, NEW u, Follows(s, u), NEW i, Pushes(s, u, i)
    PROVE  LeadersLead(u)
<1>0. /\ Shape(s) /\ Shape(u) /\ Onward(s, u) /\ LeadersLead(s) /\ Linked(u)
      /\ i \in Server /\ s.term[i] \in Nat /\ Len(s.log[i]) \in Nat /\ 0 < s.term[i]
      /\ [term |-> s.term[i], leader |-> i] \in u.elected
      /\ OnlyLeader(u, s.term[i], i)
  BY PushTerm, PushLinked DEF Follows, Onward, Sound
<1> DEFINE l == NewLink(s, u, i)
           L == Len(s.log[i])
<1>1. /\ \A a \in Chains(u) : a \in Chains(s) \/ a = l
      /\ l.index = L + 1 /\ l.entry.term = s.term[i]
  BY PushChains
<1>2. \A a \in Chains(s) : a.entry.term = s.term[i] => a.index <= L
  BY PushIsFirst
<1>3. \A a \in Chains(s) : a.index \in Nat
  BY LinkParts DEF Follows, Sound
<1> HIDE DEF l
<1>4. ASSUME NEW j \in Server PROVE u.term[j] = s.term[j]
  BY DEF Pushes
<1>5. ASSUME NEW j \in Server, j # i
      PROVE  u.log[j] = s.log[j] /\ u.role[j] = s.role[j]
  BY <1>5 DEF Pushes
<1>6. /\ Len(u.log[i]) = L + 1 /\ u.role[i] = "LEADER"
      /\ \A k \in 1 .. L : u.log[i][k] = s.log[i][k]
      /\ u.log[i][L + 1].term = s.term[i]
  BY DEF Pushes
<1>7. ASSUME NEW j \in Server
      PROVE  /\ \A k \in 1 .. Len(u.log[j]) : u.log[j][k].term <= u.term[j]
             /\ u.role[j] = "CANDIDATE" => 0 < u.term[j]
             /\ u.role[j] = "LEADER" =>
                   /\ [term |-> u.term[j], leader |-> j] \in u.elected
                   /\ TermOf(u.log[j], Len(u.log[j])) = u.term[j]
                   /\ \A a \in Chains(u) :
                         a.entry.term = u.term[j] => a.index <= Len(u.log[j])
  <2>1. CASE j = i
    <3>1. ASSUME NEW k \in 1 .. Len(u.log[i]) PROVE u.log[i][k].term <= u.term[i]
      <4>1. k \in 1 .. L \/ k = L + 1
        BY <1>0, <1>6
      <4>2. \A x \in 1 .. L : s.log[i][x].term <= s.term[i]
        BY <1>0 DEF LeadersLead
      <4>3. u.term[i] = s.term[i]
        BY <1>0, <1>4
      <4>4. CASE k \in 1 .. L
        <5>1. u.log[i][k] = s.log[i][k] /\ s.log[i][k].term <= s.term[i]
          BY <1>6, <4>2, <4>4
        <5> QED
          BY <4>3, <5>1
      <4>5. CASE k = L + 1
        <5>1. u.log[i][k].term = s.term[i]
          BY <1>6, <4>5
        <5> QED
          BY <1>0, <4>3, <5>1
      <4> QED
        BY <4>1, <4>4, <4>5
    <3>2. TermOf(u.log[i], Len(u.log[i])) = u.term[i]
      BY <1>0, <1>4, <1>6 DEF TermOf
    <3>3. ASSUME NEW a \in Chains(u), a.entry.term = u.term[i]
          PROVE  a.index <= Len(u.log[i])
      BY <1>0, <1>1, <1>2, <1>3, <1>4, <1>6, <3>3
    <3> QED
      BY <1>0, <1>4, <1>6, <2>1, <3>1, <3>2, <3>3
  <2>2. CASE j # i
    <3>1. u.term[j] = s.term[j] /\ u.log[j] = s.log[j] /\ u.role[j] = s.role[j]
      BY <1>4, <1>5, <2>2
    <3>2. ASSUME u.role[j] = "LEADER"
          PROVE  /\ [term |-> u.term[j], leader |-> j] \in u.elected
                 /\ TermOf(u.log[j], Len(u.log[j])) = u.term[j]
                 /\ \A a \in Chains(u) : a.entry.term = u.term[j] => a.index <= Len(u.log[j])
      <4> DEFINE e == [term |-> s.term[j], leader |-> j]
      <4>1. /\ e \in s.elected /\ TermOf(s.log[j], Len(s.log[j])) = s.term[j]
            /\ \A a \in Chains(s) : a.entry.term = s.term[j] => a.index <= Len(s.log[j])
        BY <1>0, <3>1, <3>2 DEF LeadersLead
      <4>2. e \in u.elected /\ e.term = s.term[j] /\ e.leader = j
        BY <1>0, <4>1 DEF Onward
      <4>3. s.term[j] # s.term[i]
        <5> HIDE DEF e
        <5> QED
          BY <1>0, <2>2, <4>2 DEF OnlyLeader
      <4> QED
        BY <1>1, <3>1, <4>1, <4>2, <4>3
    <3> QED
      BY <1>0, <3>1, <3>2 DEF LeadersLead
  <2> QED
    BY <2>1, <2>2
<1>8. ASSUME NEW e \in u.elected
      PROVE  /\ 0 < e.term /\ e.term <= u.term[e.leader]
             /\ u.role[e.leader] = "CANDIDATE" => e.term < u.term[e.leader]
  <2>0. e.leader \in Server /\ u.term[e.leader] = s.term[e.leader]
    BY <1>0, <1>4 DEF Shape
  <2>1. CASE e \in s.elected
    <3>1. /\ 0 < e.term /\ e.term <= s.term[e.leader]
          /\ s.role[e.leader] = "CANDIDATE" => e.term < s.term[e.leader]
      BY <1>0, <2>1 DEF LeadersLead
    <3>2. u.role[e.leader] = "CANDIDATE" => s.role[e.leader] = "CANDIDATE"
      BY <1>5, <1>6, <2>0
    <3> QED
      BY <2>0, <3>1, <3>2
  <2>2. CASE e = [term |-> s.term[i], leader |-> i]
    <3>1. e.term = s.term[i] /\ e.leader = i
      BY <2>2
    <3> QED
      BY <1>0, <1>6, <2>0, <3>1
  <2> QED
    BY <2>1, <2>2 DEF Pushes
<1> QED
  BY <1>7, <1>8 DEF LeadersLead

LEMMA PushAcks ==
    ASSUME NEW s, NEW u, Follows(s, u), NEW i, Pushes(s, u, i)
    PROVE  AcksTrue(u) /\ CandidatesTrue(u)
<1>0. /\ Shape(s) /\ Shape(u) /\ Onward(s, u) /\ AcksTrue(s) /\ CandidatesTrue(s)
      /\ i \in Server /\ s.term[i] \in Nat /\ Len(s.log[i]) \in Nat
      /\ u.acks = s.acks /\ u.ballots = s.ballots /\ s.elected \subseteq u.elected
  <2>1. i \in Server /\ s.term[i] \in Nat /\ Len(s.log[i]) \in Nat
    BY PushTerm
  <2>2. u.acks = s.acks /\ u.ballots = s.ballots
    BY DEF Pushes
  <2> QED
    BY <2>1, <2>2 DEF Follows, Onward, Sound
<1>1. \A j \in Server : \A n, t : Holds(s.log[j], n, t) => Holds(u.log[j], n, t)
  BY PushKeeps
<1>2. \A a \in s.acks : a.term = s.term[i] => a.index <= Len(s.log[i])
  BY PushIsFirst
<1>4. ASSUME NEW j \in Server PROVE u.term[j] = s.term[j]
  BY DEF Pushes
<1>5. ASSUME NEW j \in Server, j # i
      PROVE  u.log[j] = s.log[j] /\ u.role[j] = s.role[j] /\ u.match[j] = s.match[j]
  BY <1>5 DEF Pushes
<1>6. /\ Len(u.log[i]) = Len(s.log[i]) + 1 /\ u.role[i] = "LEADER"
  BY DEF Pushes
<1>7. ASSUME NEW a \in u.acks
      PROVE  /\ a.term <= u.term[a.node]
             /\ \E e \in u.elected : e.term = a.term
             /\ a.term = u.term[a.node] => Holds(u.log[a.node], a.index, a.term)
             /\ \A j \in Server :
                   u.role[j] = "LEADER" /\ u.term[j] = a.term => a.index <= Len(u.log[j])
  <2>1. a \in s.acks /\ a.node \in Server /\ a.index \in Nat
    BY <1>0 DEF Shape
  <2>2. /\ a.term <= s.term[a.node]
        /\ \E e \in s.elected : e.term = a.term
        /\ a.term = s.term[a.node] => Holds(s.log[a.node], a.index, a.term)
        /\ \A j \in Server :
              s.role[j] = "LEADER" /\ s.term[j] = a.term => a.index <= Len(s.log[j])
    BY <1>0, <2>1 DEF AcksTrue
  <2>3. ASSUME NEW j \in Server, u.role[j] = "LEADER", u.term[j] = a.term
        PROVE  a.index <= Len(u.log[j])
    <3>1. CASE j = i
      BY <1>0, <1>2, <1>4, <1>6, <2>1, <2>3, <3>1
    <3>2. CASE j # i
      BY <1>4, <1>5, <2>2, <2>3, <3>2
    <3> QED
      BY <3>1, <3>2
  <2>4. u.term[a.node] = s.term[a.node]
    BY <1>4, <2>1
  <2> QED
    BY <1>0, <1>1, <2>1, <2>2, <2>3, <2>4
<1>8. ASSUME NEW m \in u.msgs, m.type = "AppendEntriesResp", m.success
      PROVE  [node |-> m.from, term |-> m.term, index |-> m.lastIndex] \in u.acks
  BY <1>0, <1>8 DEF AcksTrue, Pushes
<1>9. ASSUME NEW x \in Server, NEW j \in Server, u.role[x] = "LEADER", x # j
      PROVE  \/ u.match[x][j] = 0
             \/ [node |-> j, term |-> u.term[x], index |-> u.match[x][j]] \in u.acks
  <2>0. u.term[x] = s.term[x]
    BY <1>4
  <2>1. CASE s.role[x] = "LEADER" /\ u.match[x][j] = s.match[x][j]
    <3>1. \/ s.match[x][j] = 0
          \/ [node |-> j, term |-> s.term[x], index |-> s.match[x][j]] \in s.acks
      BY <1>0, <1>9, <2>1 DEF AcksTrue
    <3> QED
      BY <1>0, <2>0, <2>1, <3>1
  <2>2. CASE x # i
    BY <1>5, <1>9, <2>1, <2>2
  <2>3. CASE x = i
    BY <1>9, <2>1, <2>3 DEF Pushes
  <2> QED
    BY <2>2, <2>3
<1>10. AcksTrue(u)
  BY <1>7, <1>8, <1>9 DEF AcksTrue
<1>11. CandidatesTrue(u)
  <2>1. ASSUME NEW b \in u.ballots PROVE b.term <= u.term[b.candidate]
    <3>1. b \in s.ballots /\ b.candidate \in Server
      BY <1>0 DEF Shape
    <3> QED
      BY <1>0, <1>4, <3>1 DEF CandidatesTrue
  <2>2. ASSUME NEW m \in u.msgs, m.type = "RequestVote", ~m.preVote
        PROVE  /\ m.term <= u.term[m.from]
               /\ m.term = u.term[m.from] /\ u.role[m.from] = "CANDIDATE" =>
                     /\ m.lastIndex = Len(u.log[m.from])
                     /\ m.lastTerm = TermOf(u.log[m.from], Len(u.log[m.from]))
    <3>1. m \in s.msgs /\ m \in Message
      BY <1>0, <2>2 DEF Pushes, Shape
    <3>2. m.from \in Server
      BY <2>2, <3>1, MessageFields
    <3>3. /\ m.term <= s.term[m.from]
          /\ m.term = s.term[m.from] /\ s.role[m.from] = "CANDIDATE" =>
                /\ m.lastIndex = Len(s.log[m.from])
                /\ m.lastTerm = TermOf(s.log[m.from], Len(s.log[m.from]))
      BY <1>0, <2>2, <3>1 DEF CandidatesTrue
    <3>4. u.term[m.from] = s.term[m.from]
      BY <1>4, <3>2
    <3>5. u.role[m.from] = "CANDIDATE" =>
              s.role[m.from] = "CANDIDATE" /\ u.log[m.from] = s.log[m.from]
      BY <1>5, <1>6, <3>2
    <3> QED
      BY <3>3, <3>4, <3>5
  <2> QED
    BY <2>1, <2>2 DEF CandidatesTrue
<1> QED
  BY <1>10, <1>11

\* The new entry is acknowledged by its leader alone, so that it cannot be chosen
\* any more once a later term had a leader.
LEMMA PushAcked ==
    ASSUME NEW s, NEW u, Follows(s, u), NEW i, Pushes(s, u, i)
    PROVE  /\ \A j \in Server : \A n, t : Acked(u, j, n, t) =>
                 Acked(s, j, n, t) \/ (j = i /\ t = s.term[i])
           /\ \A j \in Server, n \in Nat :
                 n > Len(s.log[i]) /\ Acked(u, j, n, s.term[i]) => j = i
           /\ \A e \in u.elected :
                 e.term > s.term[i] => ~Choosable(u, Len(s.log[i]) + 1, s.term[i])
<1>0. /\ Shape(s) /\ Shape(u) /\ VotesBind(u)
      /\ i \in Server /\ s.term[i] \in Nat /\ Len(s.log[i]) \in Nat
      /\ OnlyLeader(u, s.term[i], i)
  BY PushTerm DEF Follows, Onward
<1>a. u.acks = s.acks /\ u.term[i] = s.term[i]
  BY <1>0 DEF Pushes
<1>1. ASSUME NEW j \in Server, NEW n, NEW t, Acked(u, j, n, t), ~Acked(s, j, n, t)
      PROVE  j = i /\ t = s.term[i]
  <2> DEFINE e == [term |-> t, leader |-> j]
  <2>1. e \in u.elected /\ e \notin s.elected
    BY <1>a, <1>1 DEF Acked
  <2>2. e = [term |-> s.term[i], leader |-> i]
    BY <2>1 DEF Pushes
  <2> QED
    BY <2>2
<1>2. ASSUME NEW j \in Server, NEW n \in Nat, n > Len(s.log[i]), Acked(u, j, n, s.term[i])
      PROVE  j = i
  <2>1. CASE [term |-> s.term[i], leader |-> j] \in u.elected
    <3> DEFINE e == [term |-> s.term[i], leader |-> j]
    <3>1. e \in u.elected /\ e.term = s.term[i] /\ e.leader = j
      BY <2>1
    <3> HIDE DEF e
    <3> QED
      BY <1>0, <3>1 DEF OnlyLeader
  <2>2. CASE \E a \in u.acks : a.node = j /\ a.term = s.term[i] /\ n <= a.index
    <3>1. PICK a \in s.acks : a.term = s.term[i] /\ n <= a.index
      BY <1>a, <2>2
    <3>2. a.index <= Len(s.log[i])
      BY <3>1, PushIsFirst
    <3>3. a.index \in Nat
      BY <1>0 DEF Shape
    <3> QED
      BY <1>0, <1>2, <3>1, <3>2, <3>3
  <2> QED
    BY <1>2, <2>1, <2>2 DEF Acked
<1>3. ASSUME NEW e \in u.elected, e.term > s.term[i],
             Choosable(u, Len(s.log[i]) + 1, s.term[i])
      PROVE  FALSE
  <2>0. e.term \in Nat /\ Len(s.log[i]) + 1 \in Nat /\ Len(s.log[i]) + 1 > Len(s.log[i])
    <3>1. e.term \in Nat
      BY <1>0 DEF Shape
    <3> QED
      BY <1>0, <3>1
  <2>1. s.term[i] < e.term
    BY <1>0, <1>3, <2>0
  <2>2. PICK j \in Server : Acked(u, j, Len(s.log[i]) + 1, s.term[i]) /\ s.term[i] < u.term[j]
    BY <1>0, <1>3, <2>1, VoterAcknowledged
  <2>3. j = i
    BY <1>2, <2>0, <2>2
  <2> QED
    BY <1>0, <1>a, <2>2, <2>3
<1> QED
  BY <1>1, <1>2, <1>3

LEMMA PushHeld ==
    ASSUME NEW s, NEW u, Follows(s, u), NEW i, Pushes(s, u, i)
    PROVE  ChoosableIsHeld(u)
<1> SUFFICES ASSUME NEW a \in Chains(u), Choosable(u, a.index, a.entry.term), NEW j \in Server,
                    \/ Acked(u, j, a.index, a.entry.term)
                    \/ TermOf(u.log[j], Len(u.log[j])) > a.entry.term
             PROVE  Holds(u.log[j], a.index, a.entry.term)
  BY DEF ChoosableIsHeld
<1> DEFINE n == a.index
           t == a.entry.term
           L == Len(s.log[i])
<1>0. /\ Shape(s) /\ Shape(u) /\ Onward(s, u) /\ VotesBind(u) /\ Linked(u) /\ Linked(s)
      /\ ChoosableIsHeld(s) /\ ChoosableIsVoted(s) /\ LeadersLead(u) /\ LeadersLead(s)
  BY PushLinked, PushLeads DEF Follows, Onward, Sound
<1>1. /\ i \in Server /\ s.term[i] \in Nat /\ L \in Nat
      /\ [term |-> s.term[i], leader |-> i] \in u.elected
      /\ s.role[i] = "LEADER" \/ s.role[i] = "CANDIDATE"
  BY PushTerm
<1>2. n \in Nat \ {0} /\ t \in Nat /\ Choosable(s, n, t)
  <2>1. n \in Nat \ {0} /\ t \in Nat
    BY <1>0, LinkParts
  <2> QED
    BY <1>0, <2>1, ChoosableWas
<1>3. Holds(s.log[j], n, t) => Holds(u.log[j], n, t)
  BY PushKeeps
<1>4. u.role[i] = "LEADER" /\ u.term[i] = s.term[i] /\ u.ballots = s.ballots
  BY <1>1 DEF Pushes
<1>5. TermOf(u.log[i], Len(u.log[i])) = s.term[i]
  BY <1>0, <1>1, <1>4 DEF LeadersLead
<1>6. CASE a \in Chains(s)
  <2>1. ASSUME Acked(s, j, n, t) \/ TermOf(s.log[j], Len(s.log[j])) > t
        PROVE  Holds(u.log[j], n, t)
    BY <1>0, <1>2, <1>3, <1>6, <2>1 DEF ChoosableIsHeld
  <2>2. CASE Acked(u, j, n, t)
    <3>1. CASE Acked(s, j, n, t)
      BY <2>1, <3>1
    <3>2. CASE j = i /\ t = s.term[i]
      <4>1. s.role[i] = "LEADER"
        BY <1>6, <3>2, PushIsFirst
      <4>2. [term |-> t, leader |-> i] \in s.elected
        BY <1>0, <1>1, <3>2, <4>1 DEF LeadersLead
      <4> QED
        BY <2>1, <3>2, <4>2 DEF Acked
    <3> QED
      BY <2>2, <3>1, <3>2, PushAcked
  <2>3. CASE TermOf(u.log[j], Len(u.log[j])) > t
    <3>1. CASE j # i
      <4>1. u.log[j] = s.log[j]
        BY <3>1 DEF Pushes
      <4> QED
        BY <2>1, <2>3, <4>1
    <3>2. CASE j = i /\ s.role[i] = "LEADER"
      <4>1. TermOf(s.log[i], Len(s.log[i])) = s.term[i]
        BY <1>0, <1>1, <3>2 DEF LeadersLead
      <4> QED
        BY <1>5, <2>1, <2>3, <3>2, <4>1
    <3>3. CASE j = i /\ s.role[i] = "CANDIDATE"
      <4> DEFINE e == [term |-> s.term[i], leader |-> i]
      <4>1. e \in u.elected /\ e.term = s.term[i] /\ e.leader = i /\ t < e.term
        BY <1>1, <1>2, <1>5, <2>3, <3>3
      <4> HIDE DEF e
      <4>2. PICK x \in Server : Acked(u, x, n, t) /\ Ballot(x, e.term, e.leader) \in u.ballots
        BY <1>0, <1>2, <4>1, VoterAcknowledged
      <4>3. Acked(s, x, n, t)
        <5>1. t # s.term[i]
          BY <1>1, <1>2, <4>1
        <5> QED
          BY <4>2, <5>1, PushAcked
      <4> DEFINE b == Ballot(x, s.term[i], i)
      <4>4. b \in s.ballots /\ b.term = s.term[i] /\ b.candidate = i /\ b.voter = x
        BY <1>4, <4>1, <4>2 DEF Ballot
      <4> HIDE DEF b
      <4>5. Holds(s.log[b.candidate], a.index, a.entry.term)
        BY <1>0, <1>1, <1>2, <1>6, <3>3, <4>1, <4>3, <4>4 DEF ChoosableIsVoted
      <4> QED
        BY <1>3, <3>3, <4>4, <4>5
    <3> QED
      BY <1>1, <3>1, <3>2, <3>3
  <2> QED
    BY <2>2, <2>3
<1>7. CASE a = NewLink(s, u, i)
  <2>1. n = L + 1 /\ t = s.term[i]
    BY <1>7, PushChains
  <2>2. CASE j = i
    <3>1. Len(u.log[i]) = L + 1 /\ u.log[i][L + 1].term = s.term[i]
      BY DEF Pushes
    <3> QED
      BY <1>1, <2>1, <2>2, <3>1 DEF Holds
  <2>3. CASE j # i
    <3>1. ~Acked(u, j, n, t)
      <4>1. n \in Nat /\ n > L
        BY <1>1, <2>1
      <4> QED
        BY <2>1, <2>3, <4>1, PushAcked
    <3> DEFINE V == u.log[j]
    <3>2. TermOf(V, Len(V)) > t /\ Len(V) \in Nat /\ TermOf(V, Len(V)) \in Nat
      BY <1>0, <3>1, LogShape
    <3>3. Len(V) # 0
      BY <1>2, <3>2 DEF TermOf
    <3> DEFINE c == Link(Len(V), TermOf(V, Len(V) - 1), V[Len(V)])
    <3>4. c \in Chains(u) /\ c.entry.term = TermOf(V, Len(V))
      <4>1. Len(V) \in 1 .. Len(V)
        BY <3>2, <3>3
      <4>2. c \in Chains(u)
        BY <4>1, LogLink
      <4> QED
        BY <3>3, <4>2, LinkFields DEF TermOf
    <3> HIDE DEF c
    <3>5. PICK e \in u.elected : e.term = c.entry.term
      BY <1>0, <3>4 DEF Linked, LinksRise
    <3>6. e.term > s.term[i]
      BY <2>1, <3>2, <3>4, <3>5
    <3>7. ~Choosable(u, n, t)
      BY <2>1, <3>6, PushAcked
    <3> QED
      BY <3>7
  <2> QED
    BY <2>2, <2>3
<1> QED
  BY <1>6, <1>7, PushChains

LEMMA PushVoted ==
    ASSUME NEW s, NEW u, Follows(s, u), NEW i, Pushes(s, u, i)
    PROVE  ChoosableIsVoted(u)
<1> SUFFICES ASSUME NEW a \in Chains(u), NEW b \in u.ballots,
                    Choosable(u, a.index, a.entry.term),
                    a.entry.term < b.term, u.term[b.candidate] = b.term,
                    u.role[b.candidate] = "CANDIDATE",
                    Acked(u, b.voter, a.index, a.entry.term)
             PROVE  Holds(u.log[b.candidate], a.index, a.entry.term)
  BY DEF ChoosableIsVoted
<1> DEFINE n == a.index
           t == a.entry.term
           c == b.candidate
<1>0. /\ Shape(s) /\ Shape(u) /\ Onward(s, u) /\ VotesBind(u) /\ Linked(u)
      /\ ChoosableIsVoted(s) /\ i \in Server /\ s.term[i] \in Nat /\ Len(s.log[i]) \in Nat
  BY PushLinked, PushTerm DEF Follows, Onward, Sound
<1>1. n \in Nat \ {0} /\ t \in Nat /\ Choosable(s, n, t)
  <2>1. n \in Nat \ {0} /\ t \in Nat
    BY <1>0, LinkParts
  <2> QED
    BY <1>0, <2>1, ChoosableWas
<1>2. c \in Server /\ b.voter \in Server /\ b.term \in Nat
  BY <1>0 DEF Shape
<1>3. b.term <= u.term[b.voter]
  BY <1>0 DEF VotesBind
<1>4. u.role[i] = "LEADER" /\ u.term[i] = s.term[i] /\ u.ballots = s.ballots
  BY <1>0 DEF Pushes
<1>5. ~(b.voter = i /\ t = s.term[i])
  BY <1>0, <1>1, <1>2, <1>3, <1>4
<1>6. Acked(s, b.voter, n, t)
  BY <1>2, <1>5, PushAcked
<1>7. c # i /\ s.role[c] = "CANDIDATE" /\ s.term[c] = b.term
  <2>1. c # i
    BY <1>4
  <2>2. s.role[c] = u.role[c] /\ s.term[c] = u.term[c]
    BY <1>2, <2>1 DEF Pushes
  <2> QED
    BY <2>1, <2>2
<1>8. CASE a \in Chains(s)
  <2>1. Holds(s.log[c], n, t)
    BY <1>0, <1>1, <1>4, <1>6, <1>7, <1>8 DEF ChoosableIsVoted
  <2> QED
    BY <1>2, <2>1, PushKeeps
<1>9. CASE a = NewLink(s, u, i)
  <2>1. n = Len(s.log[i]) + 1 /\ t = s.term[i]
    BY <1>9, PushChains
  <2>2. n > Len(s.log[i]) /\ n \in Nat
    BY <1>0, <2>1
  <2>3. b.voter = i
    BY <1>2, <2>1, <2>2, PushAcked
  <2> QED
    BY <1>5, <2>1, <2>3
<1> QED
  BY <1>8, <1>9, PushChains

LEMMA PushSound ==
    ASSUME NEW s, NEW u, Follows(s, u), NEW i, Pushes(s, u, i)
    PROVE  Sound(u) /\ KeepsChosen(s, u)
<1>1. /\ Linked(u) /\ LeadersLead(u) /\ AcksTrue(u) /\ CandidatesTrue(u) /\ ChoosableIsHeld(u)
      /\ ChoosableIsVoted(u) /\ KeepsChosen(s, u)
  BY PushLinked, PushLeads, PushAcks, PushHeld, PushVoted, PushKeeps
<1>2. /\ VotesBind(u) /\ ReachesTerm(u) /\ Shape(s) /\ Shape(u) /\ Onward(s, u)
      /\ AppendsTrue(s) /\ Linked(s)
  BY DEF Follows, Sound, Linked, Onward
<1>3. /\ i \in Server /\ s.term[i] \in Nat /\ Len(s.log[i]) \in Nat
      /\ s.role[i] = "LEADER" \/ s.role[i] = "CANDIDATE"
  BY PushTerm
<1>4. CommittedIsChosen(u)
  <2>1. \A j \in Server : u.commit[j] = s.commit[j]
    BY DEF Pushes
  <2> QED
    BY <1>1, <2>1, CommittedStays DEF CommittedIsChosen
<1> DEFINE l == NewLink(s, u, i)
           L == Len(s.log[i])
<1>5. /\ \A a \in Chains(u) : a \in Chains(s) \/ a = l
      /\ l.index = L + 1 /\ l.entry.term = s.term[i] /\ l.prev = TermOf(s.log[i], L)
  BY PushChains
<1> HIDE DEF l
<1>6. ASSUME NEW m \in s.msgs, IsAppend(m), m.term = s.term[i]
      PROVE  /\ MsgLast(m) <= L /\ m.prevIndex <= MsgLast(m) /\ MsgLast(m) \in Nat
             /\ m.prevIndex \in Nat /\ TermOf(s.log[i], L) = s.term[i]
  <2>1. s.role[i] = "LEADER" /\ MsgLast(m) <= L
    BY <1>6, PushIsFirst
  <2>2. TermOf(s.log[i], L) = s.term[i]
    BY <1>3, <2>1 DEF Follows, Sound, LeadersLead
  <2>3. m.prevIndex \in Nat /\ Len(m.entries) \in Nat /\ MsgLast(m) = m.prevIndex + Len(m.entries)
    BY <1>2, <1>6, MessageShape
  <2> QED
    BY <2>1, <2>2, <2>3
<1>7. FreshTo(s, u, l)
  <2> SUFFICES ASSUME NEW m \in s.msgs, IsAppend(m)
               PROVE  /\ l.entry.term < m.term => ~Choosable(u, l.index, l.entry.term)
                      /\ l.entry.term = m.term => l.index > m.prevIndex
    BY DEF FreshTo
  <2>1. l.entry.term = m.term => l.index > m.prevIndex
    BY <1>3, <1>5, <1>6
  <2>2. ASSUME l.entry.term < m.term PROVE ~Choosable(u, l.index, l.entry.term)
    <3> DEFINE e == [term |-> m.term, leader |-> m.from]
    <3>1. e \in s.elected /\ e.term = m.term
      BY <1>2 DEF AppendsTrue
    <3>2. e \in u.elected /\ m.term \in Nat
      BY <1>2, <3>1, MessageShape DEF Onward
    <3> HIDE DEF e
    <3>3. e.term > s.term[i]
      BY <1>3, <1>5, <2>2, <3>1, <3>2
    <3> QED
      BY <1>5, <3>2, <3>3, PushAcked
  <2> QED
    BY <2>1, <2>2
<1>8. ChoosableIsSent(u)
  BY <1>1, <1>5, <1>7, SentAfter
<1>9. LeadersWere(s, u)
  <2> SUFFICES ASSUME NEW j \in Server, u.role[j] = "LEADER"
               PROVE  /\ u.term[j] = s.term[j] /\ Len(s.log[j]) <= Len(u.log[j])
                      /\ s.role[j] = "LEADER" \/ s.role[j] = "CANDIDATE"
    BY DEF LeadersWere
  <2>1. Len(s.log[j]) \in Nat /\ Len(u.log[j]) \in Nat /\ u.term[j] = s.term[j]
    BY <1>2, LogShape DEF Pushes
  <2>2. CASE j = i
    BY <1>3, <2>1, <2>2 DEF Pushes
  <2>3. CASE j # i
    <3>1. u.log[j] = s.log[j] /\ u.role[j] = s.role[j]
      BY <2>3 DEF Pushes
    <3> QED
      BY <2>1, <3>1
  <2> QED
    BY <2>2, <2>3
<1>10. ASSUME NEW m \in s.msgs, IsAppend(m), m.prevTerm = m.term
       PROVE  StartsBy(u, m.term, m.prevIndex)
  <2>1. StartsBy(s, m.term, m.prevIndex)
    BY <1>2, <1>10 DEF AppendsTrue
  <2>2. l.entry.term = m.term => l.prev = m.term
    BY <1>5, <1>6, <1>10
  <2> QED
    BY <1>5, <2>1, <2>2 DEF StartsBy
<1>11. AppendsTrue(u)
  BY <1>1, <1>4, <1>9, <1>10, AppendsAfter
<1> QED
  BY <1>1, <1>2, <1>4, <1>8, <1>11 DEF Sound

-----------------------------------------------------------------------------
(* A follower accepts a message.                                           *)

\* A message agrees with a log that holds an entry of the message's term, or an
\* earlier entry that may still be chosen, as far down as both reach.
LEMMA MessageAgrees ==
    ASSUME NEW s, Sound(s), NEW m \in s.msgs, IsAppend(m), NEW x \in Server,
           NEW n, NEW t, Holds(s.log[x], n, t),
           t = m.term \/ (t < m.term /\ Choosable(s, n, t))
    PROVE  /\ m.prevIndex <= n => TermOf(s.log[x], m.prevIndex) = m.prevTerm
           /\ \A y \in m.prevIndex + 1 .. MsgLast(m) :
                 y <= n => /\ s.log[x][y] = m.entries[y - m.prevIndex]
                           /\ s.log[x][y].term = MsgTerm(m, y)
           /\ n < m.prevIndex => t <= m.prevTerm
<1> DEFINE V == s.log[x]
           p == m.prevIndex
           q == MsgLast(m)
           a == Link(n, TermOf(V, n - 1), V[n])
<1>0. /\ Linked(s) /\ Shape(s) /\ LeadersLead(s) /\ AppendsTrue(s) /\ ChoosableIsSent(s)
      /\ ReachesTerm(s)
  BY DEF Sound, Linked
<1>1. /\ p \in Nat /\ q \in Nat /\ p <= q /\ m.term \in Nat /\ m.prevTerm \in Nat
      /\ q = p + Len(m.entries) /\ Len(m.entries) \in Nat
  <2>1. /\ p \in Nat /\ m.term \in Nat /\ m.prevTerm \in Nat
        /\ q = p + Len(m.entries) /\ Len(m.entries) \in Nat
    BY <1>0, MessageShape
  <2> QED
    BY <2>1
<1>2. Len(V) \in Nat /\ n \in 1 .. Len(V) /\ V[n].term = t
  BY <1>0, LogShape DEF Holds
<1>3. a \in Chains(s) /\ a.index = n /\ a.entry.term = t /\ n \in Nat \ {0} /\ t \in Nat
  <2>1. a \in Chains(s) /\ a.index = n /\ a.entry.term = t
    BY <1>2, LogLink, LinkFields
  <2> QED
    BY <1>0, <2>1, LinkParts
<1>4. \A y \in 1 .. Len(V) : TermOf(V, y) = V[y].term
  BY <1>2 DEF TermOf
<1> HIDE DEF a
<1>5. MsgTerm(m, q) = m.term
  BY <1>0 DEF ReachesTerm
<1>6. ASSUME NEW y \in p .. q, y <= n, TermOf(V, y) = MsgTerm(m, y)
      PROVE  /\ TermOf(V, p) = m.prevTerm
             /\ \A k \in p + 1 .. y : V[k] = m.entries[k - p] /\ V[k].term = MsgTerm(m, k)
  <2>1. y <= Len(V)
    BY <1>1, <1>2, <1>6
  <2> QED
    BY <1>0, <1>6, <2>1, SameWithMessage
<1>7. CASE n < p
  <2>1. t <= m.prevTerm
    <3>1. \/ a.entry.term > m.term
          \/ a.entry.term < m.term /\ ~Choosable(s, a.index, a.entry.term)
          \/ m.prevTerm >= a.entry.term
      <4>1. a.index <= m.prevIndex
        BY <1>1, <1>3, <1>7
      <4> QED
        BY <1>0, <1>3, <4>1 DEF ChoosableIsSent
    <3> QED
      BY <1>1, <1>3, <3>1
  <2> QED
    BY <1>1, <1>3, <1>7, <2>1
<1>8. CASE p <= n /\ n <= q
  <2>1. MsgTerm(m, n) = t
    <3>1. CASE t < m.term /\ Choosable(s, n, t)
      BY <1>0, <1>3, <1>8, <3>1 DEF ChoosableIsSent
    <3>2. CASE t = m.term
      <4>1. /\ q \in m.prevIndex .. MsgLast(m) /\ MsgTerm(m, q) = a.entry.term
            /\ a.index \in m.prevIndex .. q
        BY <1>1, <1>3, <1>5, <1>8, <3>2
      <4>2. MsgTerm(m, a.index) = a.entry.term
        BY <1>0, <1>3, <4>1, MessageReachesDown
      <4> QED
        BY <1>3, <4>2
    <3> QED
      BY <3>1, <3>2
  <2>2. n \in p .. q /\ n <= n /\ TermOf(V, n) = MsgTerm(m, n)
    BY <1>1, <1>2, <1>3, <1>4, <1>8, <2>1
  <2>3. /\ TermOf(V, p) = m.prevTerm
        /\ \A k \in p + 1 .. n : V[k] = m.entries[k - p] /\ V[k].term = MsgTerm(m, k)
    BY <1>6, <2>2
  <2> QED
    BY <1>1, <1>3, <1>8, <2>3
<1>9. CASE q < n
  <2>1. t = m.term
    <3>1. t < m.term /\ Choosable(s, n, t) => n < q
      BY <1>0, <1>3 DEF ChoosableIsSent
    <3> QED
      BY <1>1, <1>3, <1>9, <3>1
  <2>2. TermOf(V, q) = t
    <3>1. CASE p < q
      <4> DEFINE c == Link(q, MsgTerm(m, q - 1), m.entries[q - p])
      <4>1. q \in m.prevIndex + 1 .. MsgLast(m)
        BY <1>1, <3>1
      <4>2. c \in Chains(s) /\ c.index = q /\ c.entry = m.entries[q - p]
        BY <1>0, <4>1, MessageLink, LinkFields
      <4>3. m.entries[q - p].term = t
        BY <1>0, <1>5, <2>1, <4>1, MessageShape
      <4> HIDE DEF c
      <4>4. /\ Holds(s.log[x], n, c.entry.term) /\ c.index \in Nat \ {0} /\ c.index <= n
        BY <1>1, <1>3, <1>9, <3>1, <4>2, <4>3
      <4>5. Holds(s.log[x], c.index, c.entry.term)
        BY <1>0, <4>2, <4>4, LogReachesDown
      <4> QED
        BY <1>4, <4>2, <4>3, <4>5 DEF Holds
    <3>2. CASE p = q
      <4>1. m.prevTerm = m.term
        BY <1>5, <3>2 DEF MsgTerm
      <4>2. StartsBy(s, t, p)
        BY <1>0, <2>1, <4>1 DEF AppendsTrue
      <4>3. p # 0
        <5> DEFINE e == [term |-> m.term, leader |-> m.from]
        <5>1. e \in s.elected /\ e.term = m.term /\ (p = 0 => m.prevTerm = 0)
          BY <1>0 DEF AppendsTrue
        <5> HIDE DEF e
        <5>2. 0 < e.term
          BY <1>0, <5>1 DEF LeadersLead
        <5> QED
          BY <4>1, <5>1, <5>2
      <4>4. Holds(s.log[x], p, t)
        <5>1. p \in Nat \ {0} /\ p <= n
          BY <1>1, <1>3, <1>9, <3>2, <4>3
        <5> QED
          BY <1>0, <4>2, <5>1, LogHasFrom
      <4> QED
        BY <1>4, <3>2, <4>4 DEF Holds
    <3> QED
      BY <1>1, <3>1, <3>2
  <2>3. q \in p .. q /\ q <= n /\ TermOf(V, q) = MsgTerm(m, q)
    BY <1>1, <1>3, <1>5, <1>9, <2>1, <2>2
  <2>4. /\ TermOf(V, p) = m.prevTerm
        /\ \A k \in p + 1 .. q : V[k] = m.entries[k - p] /\ V[k].term = MsgTerm(m, k)
    BY <1>6, <2>3
  <2> QED
    BY <1>1, <1>3, <1>9, <2>4
<1> QED
  BY <1>1, <1>3, <1>7, <1>8, <1>9

LEMMA AcceptJoins ==
    ASSUME NEW s, Sound(s), NEW m \in s.msgs, IsAppend(m), s.term[m.to] <= m.term,
           NEW V, NEW b \in Nat, NEW f \in Nat, b <= s.commit[m.to],
           Joins(s.log[m.to], V, m, b, f)
    PROVE  /\ TermOf(s.log[m.to], m.prevIndex) = m.prevTerm
           /\ \A y \in m.prevIndex + 1 .. f - 1 : s.log[m.to][y] = m.entries[y - m.prevIndex]
           /\ NothingLost(s, m, f)
<1> DEFINE j == m.to
           W == s.log[j]
           p == m.prevIndex
           q == MsgLast(m)
<1>0. /\ Sound(s) /\ Linked(s) /\ Shape(s) /\ LeadersLead(s) /\ CommittedIsChosen(s)
      /\ m \in s.msgs /\ IsAppend(m) /\ s.term[j] <= m.term
  BY DEF Sound, Linked
<1>1. /\ p \in Nat /\ q \in Nat /\ m.term \in Nat /\ j \in Server /\ p <= q
      /\ Len(m.entries) \in Nat
  <2>1. /\ p \in Nat /\ m.term \in Nat /\ j \in Server
        /\ q = p + Len(m.entries) /\ Len(m.entries) \in Nat
    BY <1>0, MessageShape
  <2> QED
    BY <2>1
<1>2. Len(W) \in Nat /\ s.commit[j] \in Nat /\ s.term[j] \in Nat
  BY <1>0, <1>1, LogShape DEF Shape
<1>3. /\ f \in p + 1 .. q + 1 /\ f - 1 <= Len(W)
      /\ b <= p => TermOf(W, p) = m.prevTerm
      /\ \A y \in p + 1 .. f - 1 : b < y => W[y].term = MsgTerm(m, y)
      /\ f <= q => b < f /\ (f <= Len(W) => W[f].term # MsgTerm(m, f))
  BY DEF Joins
\* What is committed agrees with the message.
<1>4. ASSUME s.commit[j] > 0
      PROVE  /\ p <= s.commit[j] => TermOf(W, p) = m.prevTerm
             /\ \A y \in p + 1 .. q :
                   y <= s.commit[j] => W[y] = m.entries[y - p] /\ W[y].term = MsgTerm(m, y)
             /\ s.commit[j] <= Len(W)
  <2>1. CommittedAt(s, j)
    BY <1>0, <1>1 DEF CommittedIsChosen
  <2>2. PICK x \in Server, n \in Nat, t \in Nat :
            /\ s.commit[j] <= n /\ t <= s.term[j] /\ Evidence(s, x, n, t)
            /\ \A k \in 1 .. s.commit[j] : s.log[x][k] = W[k]
    BY <1>4, <2>1 DEF CommittedAt
  <2>3. Holds(s.log[x], n, t) /\ Choosable(s, n, t)
    BY <2>2, ChosenIsChoosable DEF Evidence
  <2>4. t = m.term \/ (t < m.term /\ Choosable(s, n, t))
    BY <1>0, <1>1, <1>2, <2>2, <2>3
  <2>5. /\ p <= n => TermOf(s.log[x], p) = m.prevTerm
        /\ \A y \in p + 1 .. q :
              y <= n => s.log[x][y] = m.entries[y - p] /\ s.log[x][y].term = MsgTerm(m, y)
    BY <1>0, <2>3, <2>4, MessageAgrees
  <2>6. ASSUME p <= s.commit[j] PROVE TermOf(W, p) = m.prevTerm
    <3>1. p = 0 \/ s.log[x][p] = W[p]
      <4>1. p = 0 \/ p \in 1 .. s.commit[j]
        BY <1>1, <1>2, <2>6
      <4> HIDE DEF p
      <4> QED
        BY <2>2, <4>1
    <3>2. TermOf(W, p) = TermOf(s.log[x], p)
      BY <3>1 DEF TermOf
    <3> QED
      BY <1>1, <1>2, <2>2, <2>5, <2>6, <3>2
  <2>7. ASSUME NEW y \in p + 1 .. q, y <= s.commit[j]
        PROVE  W[y] = m.entries[y - p] /\ W[y].term = MsgTerm(m, y)
    <3>1. y \in 1 .. s.commit[j] /\ y <= n
      BY <1>1, <1>2, <2>2, <2>7
    <3>2. s.log[x][y] = W[y]
      BY <2>2, <3>1
    <3> QED
      BY <2>5, <3>1, <3>2
  <2>8. s.commit[j] <= Len(W)
    BY <1>4, <2>1 DEF CommittedAt
  <2> QED
    BY <2>6, <2>7, <2>8
<1>5. TermOf(W, p) = m.prevTerm
  <2>1. CASE b <= p
    BY <1>3, <2>1
  <2>2. CASE p < b
    BY <1>1, <1>2, <1>4, <2>2
  <2> QED
    BY <1>1, <2>1, <2>2
<1>6. ASSUME NEW y \in p + 1 .. f - 1 PROVE W[y] = m.entries[y - p]
  <2>0. y \in p + 1 .. q /\ y <= Len(W) /\ y # 0
    BY <1>1, <1>2, <1>3
  <2>1. CASE y <= b
    BY <1>1, <1>2, <1>4, <2>0, <2>1
  <2>2. CASE b < y
    <3>1. W[y].term = MsgTerm(m, y)
      BY <1>3, <2>2
    <3>2. y \in m.prevIndex .. MsgLast(m) /\ TermOf(W, y) = MsgTerm(m, y)
      BY <1>1, <2>0, <3>1 DEF TermOf
    <3>3. \A k \in p + 1 .. y : W[k] = m.entries[k - p]
      BY <1>0, <1>1, <2>0, <3>2, SameWithMessage
    <3>4. y \in p + 1 .. y
      BY <1>1
    <3> QED
      BY <3>3, <3>4
  <2> QED
    BY <1>1, <2>1, <2>2
<1>7. ASSUME f <= q
      PROVE  /\ s.commit[j] < f
             /\ \A n, t : /\ Holds(W, n, t)
                          /\ t = m.term \/ (t < m.term /\ Choosable(s, n, t))
                          => n < f
  <2>0. f \in p + 1 .. q /\ (f <= Len(W) => W[f].term # MsgTerm(m, f))
    BY <1>1, <1>3, <1>7
  <2>1. s.commit[j] < f
    <3>1. f <= s.commit[j] => s.commit[j] > 0
      BY <1>1, <1>2, <2>0
    <3>2. f <= s.commit[j] => W[f].term = MsgTerm(m, f) /\ f <= Len(W)
      BY <1>1, <1>2, <1>4, <2>0, <3>1
    <3> QED
      BY <1>1, <1>2, <2>0, <3>2
  <2>2. ASSUME NEW n, NEW t, Holds(W, n, t),
               t = m.term \/ (t < m.term /\ Choosable(s, n, t))
        PROVE  n < f
    <3>1. n \in 1 .. Len(W)
      BY <2>2 DEF Holds
    <3>2. \A y \in p + 1 .. q : y <= n => W[y].term = MsgTerm(m, y)
      BY <1>0, <1>1, <2>2, MessageAgrees
    <3> QED
      BY <1>1, <1>2, <2>0, <3>1, <3>2
  <2> QED
    BY <2>1, <2>2
<1>8. NothingLost(s, m, f)
  BY <1>7 DEF NothingLost
<1> QED
  BY <1>5, <1>6, <1>8

LEMMA AcceptedLog ==
    ASSUME NEW s, NEW u, Follows(s, u), NEW m, Accepts(s, u, m)
    PROVE  /\ Carries(s.log[m.to], u.log[m.to], m)
           /\ KeepsChosen(s, u)
           /\ \A n : Holds(s.log[m.to], n, m.term) => Holds(u.log[m.to], n, m.term)
           /\ \A k \in 1 .. Len(u.log[m.to]) :
                 Link(k, TermOf(u.log[m.to], k - 1), u.log[m.to][k]) \in Chains(s)
<1> DEFINE j == m.to
           W == s.log[j]
           V == u.log[j]
           p == m.prevIndex
           q == MsgLast(m)
<1>0. /\ Sound(s) /\ Linked(s) /\ Shape(s) /\ Shape(u) /\ LeadersLead(s) /\ CommittedIsChosen(s)
      /\ m \in s.msgs /\ IsAppend(m) /\ s.term[j] <= m.term
  BY DEF Follows, Sound, Linked, Accepts, Onward
<1>1. /\ p \in Nat /\ q \in Nat /\ m.term \in Nat /\ j \in Server /\ p <= q
      /\ \A y \in p + 1 .. q : MsgTerm(m, y) = m.entries[y - p].term
  <2>1. /\ p \in Nat /\ m.term \in Nat /\ j \in Server
        /\ q = p + Len(m.entries) /\ Len(m.entries) \in Nat
        /\ \A y \in p + 1 .. q : MsgTerm(m, y) = m.entries[y - p].term
    BY <1>0, MessageShape
  <2> QED
    BY <2>1
<1>2. Len(W) \in Nat /\ Len(V) \in Nat /\ s.commit[j] \in Nat /\ s.term[j] \in Nat
  BY <1>0, <1>1, LogShape DEF Shape
<1>3. PICK b \in Nat, f \in Nat : b <= s.commit[j] /\ Joins(W, V, m, b, f)
  BY DEF Accepts
<1>4. /\ TermOf(W, p) = m.prevTerm
      /\ \A y \in p + 1 .. f - 1 : W[y] = m.entries[y - p]
      /\ NothingLost(s, m, f)
  BY <1>0, <1>3, AcceptJoins
<1>5. /\ f \in p + 1 .. q + 1 /\ f - 1 <= Len(W)
      /\ f = q + 1 => V = W
      /\ f <= q => /\ Len(V) = q
                   /\ \A k \in 1 .. f - 1 : V[k] = W[k]
                   /\ \A k \in f .. q : V[k] = m.entries[k - p]
  BY <1>3 DEF Joins
<1>6. f = q + 1 \/ f <= q
  BY <1>1, <1>5
<1>7. \A k \in 1 .. f - 1 : V[k] = W[k]
  BY <1>5, <1>6
<1>8. q <= Len(V) /\ p <= Len(W) /\ p <= Len(V)
  BY <1>1, <1>2, <1>5, <1>6
<1>9. \A k \in 1 .. p : V[k] = W[k]
  BY <1>1, <1>5, <1>7
<1>10. ASSUME NEW y \in p + 1 .. q
       PROVE  V[y] = m.entries[y - p] /\ V[y].term = MsgTerm(m, y)
  <2>1. y \in p + 1 .. f - 1 \/ (y \in f .. q /\ f <= q)
    BY <1>1, <1>5
  <2>2. y \in p + 1 .. f - 1 => y \in 1 .. f - 1
    BY <1>1
  <2>3. V[y] = m.entries[y - p]
    BY <1>4, <1>5, <1>7, <2>1, <2>2
  <2> QED
    BY <1>1, <2>3
<1>11. TermOf(V, p) = m.prevTerm
  <2>1. p = 0 \/ p \in 1 .. p
    BY <1>1
  <2>2. p = 0 \/ V[p] = W[p]
    BY <1>9, <2>1
  <2> QED
    BY <1>4, <2>2 DEF TermOf
<1>12. Carries(W, V, m)
  BY <1>8, <1>9, <1>10, <1>11 DEF Carries
<1>13. ASSUME NEW n \in Nat, n <= Len(W), f <= q => n < f PROVE Keeps(s, u, j, n)
  <2>1. CASE f = q + 1
    BY <1>2, <1>5, <1>13, <2>1 DEF Keeps
  <2>2. CASE f <= q
    BY <1>1, <1>2, <1>5, <1>7, <1>13, <2>2 DEF Keeps
  <2> QED
    BY <1>6, <2>1, <2>2
<1>14. ASSUME NEW n, NEW t \in Nat, Holds(W, n, t),
              t = m.term \/ (t < m.term /\ Choosable(s, n, t))
       PROVE  Keeps(s, u, j, n) /\ Holds(V, n, t)
  <2>1. n \in 1 .. Len(W) /\ n \in Nat
    BY <1>2, <1>14 DEF Holds
  <2>2. f <= q => n < f
    BY <1>4, <1>14 DEF NothingLost
  <2>3. Keeps(s, u, j, n)
    BY <1>2, <1>13, <2>1, <2>2
  <2>4. Holds(V, n, t)
    BY <1>2, <1>14, <2>1, <2>3 DEF Keeps, Holds
  <2> QED
    BY <2>3, <2>4
<1>15. KeepsChosen(s, u)
  <2> SUFFICES ASSUME NEW i \in Server
               PROVE  /\ Keeps(s, u, i, s.commit[i])
                      /\ \A n \in Nat, t \in Nat :
                            Holds(s.log[i], n, t) /\ Acked(s, i, n, t) /\ Choosable(s, n, t) =>
                                Keeps(s, u, i, n)
    BY DEF KeepsChosen
  <2>0. s.commit[i] \in Nat /\ s.commit[i] <= Len(s.log[i]) /\ Len(s.log[i]) \in Nat
    <3>1. CommittedAt(s, i) /\ s.commit[i] \in Nat /\ Len(s.log[i]) \in Nat
      BY <1>0, LogShape DEF CommittedIsChosen, Shape
    <3> QED
      BY <3>1 DEF CommittedAt
  <2>1. CASE i # j
    <3>1. u.log[i] = s.log[i]
      BY <2>1 DEF Accepts
    <3> QED
      BY <2>0, <3>1 DEF Keeps, Holds
  <2>2. CASE i = j
    <3>1. Keeps(s, u, j, s.commit[j])
      <4>1. f <= q => s.commit[j] < f
        BY <1>4 DEF NothingLost
      <4> QED
        BY <1>13, <2>0, <2>2, <4>1
    <3>2. ASSUME NEW n \in Nat, NEW t \in Nat, Holds(W, n, t), Choosable(s, n, t)
          PROVE  Keeps(s, u, j, n)
      <4>1. t <= s.term[j]
        BY <1>0, <1>1, <3>2 DEF LeadersLead, Holds
      <4>2. t = m.term \/ t < m.term
        BY <1>0, <1>1, <1>2, <4>1
      <4> QED
        BY <1>14, <3>2, <4>2
    <3> QED
      BY <2>2, <3>1, <3>2
  <2> QED
    BY <2>1, <2>2
<1>16. ASSUME NEW k \in 1 .. Len(V) PROVE Link(k, TermOf(V, k - 1), V[k]) \in Chains(s)
  <2>1. CASE k \in 1 .. f - 1 \/ f = q + 1
    <3>1. /\ k \in 1 .. Len(W) /\ V[k] = W[k]
          /\ k - 1 = 0 \/ V[k - 1] = W[k - 1]
      <4>1. CASE f = q + 1
        BY <1>5, <4>1
      <4>2. CASE k \in 1 .. f - 1
        <5>1. k \in 1 .. Len(W) /\ (k - 1 = 0 \/ k - 1 \in 1 .. f - 1)
          BY <1>1, <1>2, <1>5, <4>2
        <5> QED
          BY <1>7, <4>2, <5>1
      <4> QED
        BY <2>1, <4>1, <4>2
    <3>2. TermOf(V, k - 1) = TermOf(W, k - 1)
      BY <3>1 DEF TermOf
    <3>3. Link(k, TermOf(W, k - 1), W[k]) \in Chains(s)
      BY <1>1, <3>1, LogLink
    <3> QED
      BY <3>1, <3>2, <3>3
  <2>2. CASE f <= q /\ k \in f .. q
    <3>2. k \in p + 1 .. q
      BY <1>1, <1>5, <2>2
    <3>3. TermOf(V, k - 1) = MsgTerm(m, k - 1)
      <4>1. CASE k - 1 = p
        BY <1>11, <4>1 DEF MsgTerm
      <4>2. CASE k - 1 \in p + 1 .. q
        <5>1. k - 1 # 0
          BY <1>1, <4>2
        <5> QED
          BY <1>10, <4>2, <5>1 DEF TermOf
      <4> QED
        BY <1>1, <3>2, <4>1, <4>2
    <3>4. V[k] = m.entries[k - p]
      BY <1>10, <3>2
    <3>5. Link(k, MsgTerm(m, k - 1), m.entries[k - p]) \in Chains(s)
      BY <1>0, <3>2, MessageLink
    <3> QED
      BY <3>3, <3>4, <3>5
  <2> QED
    BY <1>1, <1>2, <1>5, <1>6, <2>1, <2>2
<1> QED
  BY <1>1, <1>12, <1>14, <1>15, <1>16

LEMMA AcceptLinked ==
    ASSUME NEW s, NEW u, Follows(s, u), NEW m, Accepts(s, u, m)
    PROVE  Chains(u) \subseteq Chains(s) /\ Linked(u)
<1>0. Onward(s, u) /\ Shape(u) /\ Shape(s) /\ Linked(s) /\ u.elected = s.elected
  BY DEF Follows, Onward, Sound, Accepts
<1>1. ASSUME NEW a \in Chains(u) PROVE a \in Chains(s)
  <2> SUFFICES ASSUME NEW i \in Server, NEW k \in 1 .. Len(u.log[i]),
                      a = Link(k, TermOf(u.log[i], k - 1), u.log[i][k])
               PROVE  a \in Chains(s)
    BY <1>0, ChainsAfter
  <2>1. CASE i = m.to
    BY <2>1, AcceptedLog
  <2>2. CASE i # m.to
    <3>1. u.log[i] = s.log[i]
      BY <2>2 DEF Accepts
    <3> QED
      BY <3>1, LogLink
  <2> QED
    BY <2>1, <2>2
<1>2. Linked(u)
  BY <1>0, <1>1 DEF Linked, LinksAgree, LinksRise
<1> QED
  BY <1>1, <1>2

\* The message reaches its term, and so does the log of the follower.
LEMMA AcceptReaches ==
    ASSUME NEW s, NEW u, Follows(s, u), NEW m, Accepts(s, u, m)
    PROVE  /\ Holds(u.log[m.to], Len(u.log[m.to]), m.term)
           /\ \A k \in 1 .. Len(u.log[m.to]) : u.log[m.to][k].term <= m.term
<1> DEFINE j == m.to
           W == s.log[j]
           V == u.log[j]
           p == m.prevIndex
           q == MsgLast(m)
<1>0. /\ Sound(s) /\ Linked(s) /\ Shape(s) /\ Shape(u) /\ Linked(u) /\ LeadersLead(s)
      /\ m \in s.msgs /\ IsAppend(m) /\ s.term[j] <= m.term /\ Carries(W, V, m)
  BY AcceptLinked, AcceptedLog DEF Follows, Sound, Linked, Accepts
<1>1. /\ p \in Nat /\ q \in Nat /\ m.term \in Nat /\ j \in Server /\ p <= q
      /\ \A y \in p + 1 .. q : MsgTerm(m, y) = m.entries[y - p].term
  <2>1. /\ p \in Nat /\ m.term \in Nat /\ j \in Server
        /\ q = p + Len(m.entries) /\ Len(m.entries) \in Nat
        /\ \A y \in p + 1 .. q : MsgTerm(m, y) = m.entries[y - p].term
    BY <1>0, MessageShape
  <2> QED
    BY <2>1
<1>2. /\ Len(W) \in Nat /\ Len(V) \in Nat /\ s.term[j] \in Nat
      /\ \A k \in 1 .. Len(V) : V[k].term \in Nat
      /\ \A k \in 0 .. Len(V) : TermOf(V, k) \in Nat
  BY <1>0, <1>1, LogShape DEF Shape
<1>3. MsgTerm(m, q) = m.term /\ 0 < m.term /\ (p = 0 => m.prevTerm = 0)
  <2> DEFINE e == [term |-> m.term, leader |-> m.from]
  <2>1. e \in s.elected /\ e.term = m.term /\ (p = 0 => m.prevTerm = 0)
    BY <1>0 DEF Sound, AppendsTrue
  <2> HIDE DEF e
  <2>2. 0 < e.term
    BY <1>0, <2>1 DEF LeadersLead
  <2> QED
    BY <1>0, <2>1, <2>2 DEF Sound, ReachesTerm
<1>4. q <= Len(V) /\ TermOf(V, q) = m.term
  <2>1. q = p \/ q \in p + 1 .. q
    BY <1>1
  <2>2. q = p => MsgTerm(m, q) = m.prevTerm
    BY DEF MsgTerm
  <2>3. q <= Len(V) /\ TermOf(V, p) = m.prevTerm
        /\ \A y \in p + 1 .. q : V[y].term = MsgTerm(m, y)
    BY <1>0 DEF Carries
  <2>4. q \in p + 1 .. q => q # 0
    BY <1>1
  <2>5. CASE q = p
    BY <1>3, <2>2, <2>3, <2>5
  <2>6. CASE q \in p + 1 .. q
    <3>1. V[q].term = MsgTerm(m, q)
      BY <2>3, <2>6
    <3> QED
      BY <1>3, <2>3, <2>4, <2>6, <3>1 DEF TermOf
  <2> QED
    BY <2>1, <2>5, <2>6
<1>5. Len(V) # 0
  BY <1>1, <1>2, <1>3, <1>4 DEF TermOf
<1>6. ASSUME NEW k \in 1 .. Len(V) PROVE V[k].term <= m.term
  <2>1. PICK b \in Nat, f \in Nat : Joins(W, V, m, b, f)
    BY DEF Accepts
  <2>2. CASE k <= Len(W) /\ V[k] = W[k]
    <3>1. W[k].term <= s.term[j] /\ W[k].term \in Nat
      <4>1. k \in 1 .. Len(W)
        BY <1>2, <2>2
      <4>2. \A x \in 1 .. Len(W) : W[x].term <= s.term[j]
        BY <1>0, <1>1 DEF LeadersLead
      <4> QED
        BY <1>2, <2>2, <4>1, <4>2
    <3> QED
      BY <1>0, <1>1, <1>2, <2>2, <3>1
  <2>3. CASE k \in p + 1 .. q
    <3>1. MsgTerm(m, k) <= MsgTerm(m, q)
      <4>1. k \in m.prevIndex .. MsgLast(m) /\ q \in m.prevIndex .. MsgLast(m) /\ k <= q
        BY <1>1, <2>3
      <4> QED
        BY <1>0, <4>1, MessageAscends
    <3>2. V[k].term = MsgTerm(m, k)
      BY <1>0, <2>3 DEF Carries
    <3> QED
      BY <1>3, <3>1, <3>2
  <2>4. CASE k \in 1 .. p
    <3>1. p <= Len(W) /\ \A x \in 1 .. p : V[x] = W[x]
      BY <1>0 DEF Carries
    <3>2. V[k] = W[k]
      BY <2>4, <3>1
    <3> HIDE DEF V, W, p
    <3>3. k <= Len(W)
      BY <1>1, <1>2, <2>4, <3>1
    <3> QED
      BY <2>2, <3>2, <3>3
  <2>5. CASE q < k
    <3>1. V = W
      BY <1>1, <1>2, <2>1, <2>5 DEF Joins
    <3> QED
      BY <1>2, <2>2, <3>1
  <2> QED
    BY <1>1, <1>2, <2>3, <2>4, <2>5
<1>7. TermOf(V, q) <= TermOf(V, Len(V))
  <2>1. q \in 0 .. Len(V) /\ Len(V) \in 0 .. Len(V)
    BY <1>1, <1>2, <1>4
  <2> QED
    BY <1>0, <1>1, <1>4, <2>1, LogAscends
<1>8. Len(V) \in 1 .. Len(V) /\ V[Len(V)].term = m.term
  <2>1. Len(V) \in 1 .. Len(V) /\ TermOf(V, Len(V)) = V[Len(V)].term
    BY <1>2, <1>5 DEF TermOf
  <2>2. V[Len(V)].term <= m.term /\ V[Len(V)].term \in Nat
    BY <1>2, <1>6, <2>1
  <2>3. m.term <= V[Len(V)].term
    BY <1>4, <1>7, <2>1
  <2> QED
    BY <1>1, <2>1, <2>2, <2>3
<1> QED
  BY <1>6, <1>8 DEF Holds

LEMMA AcceptLeads ==
    ASSUME NEW s, NEW u, Follows(s, u), NEW m, Accepts(s, u, m)
    PROVE  LeadersLead(u) /\ AcksTrue(u) /\ CandidatesTrue(u)
<1> DEFINE j == m.to
<1>0. /\ Shape(u) /\ Shape(s) /\ Onward(s, u) /\ LeadersLead(s) /\ AcksTrue(s) /\ CandidatesTrue(s)
      /\ AppendsTrue(s) /\ Chains(u) \subseteq Chains(s) /\ u.elected = s.elected
      /\ u.ballots = s.ballots /\ s.acks \subseteq u.acks
      /\ u.role[j] = "FOLLOWER" /\ u.term[j] = m.term /\ m \in s.msgs /\ IsAppend(m)
  BY AcceptLinked DEF Follows, Onward, Sound, Accepts
<1>1. /\ Holds(u.log[j], Len(u.log[j]), m.term)
      /\ \A k \in 1 .. Len(u.log[j]) : u.log[j][k].term <= m.term
  BY AcceptReaches
<1>2. ASSUME NEW i \in Server, i # j
      PROVE  /\ u.term[i] = s.term[i] /\ u.role[i] = s.role[i] /\ u.log[i] = s.log[i]
             /\ u.match[i] = s.match[i]
  BY <1>2 DEF Accepts
<1>3. j \in Server /\ m.term \in Nat
  BY <1>0, MessageShape
<1>4. ASSUME NEW i \in Server
      PROVE  s.term[i] \in Nat /\ u.term[i] \in Nat /\ s.term[i] <= u.term[i]
  BY <1>0 DEF Onward, Shape
<1>5. LeadersLead(u)
  <2>1. ASSUME NEW i \in Server
        PROVE  /\ \A k \in 1 .. Len(u.log[i]) : u.log[i][k].term <= u.term[i]
               /\ u.role[i] = "CANDIDATE" => 0 < u.term[i]
               /\ u.role[i] = "LEADER" =>
                     /\ [term |-> u.term[i], leader |-> i] \in u.elected
                     /\ TermOf(u.log[i], Len(u.log[i])) = u.term[i]
                     /\ \A a \in Chains(u) :
                           a.entry.term = u.term[i] => a.index <= Len(u.log[i])
    <3>1. CASE i = j
      BY <1>0, <1>1, <3>1
    <3>2. CASE i # j
      <4>1. u.term[i] = s.term[i] /\ u.role[i] = s.role[i] /\ u.log[i] = s.log[i]
        BY <1>2, <3>2
      <4> QED
        BY <1>0, <4>1 DEF LeadersLead
    <3> QED
      BY <3>1, <3>2
  <2>2. ASSUME NEW e \in u.elected
        PROVE  /\ 0 < e.term /\ e.term <= u.term[e.leader]
               /\ u.role[e.leader] = "CANDIDATE" => e.term < u.term[e.leader]
    <3>1. e \in s.elected /\ e.leader \in Server /\ e.term \in Nat
      BY <1>0 DEF Shape
    <3>2. /\ 0 < e.term /\ e.term <= s.term[e.leader]
          /\ s.role[e.leader] = "CANDIDATE" => e.term < s.term[e.leader]
      BY <1>0, <3>1 DEF LeadersLead
    <3>3. u.role[e.leader] = "CANDIDATE" =>
              s.role[e.leader] = "CANDIDATE" /\ u.term[e.leader] = s.term[e.leader]
      BY <1>0, <1>2, <3>1
    <3>4. /\ s.term[e.leader] \in Nat /\ u.term[e.leader] \in Nat
          /\ s.term[e.leader] <= u.term[e.leader]
      BY <1>4, <3>1
    <3> QED
      BY <3>1, <3>2, <3>3, <3>4
  <2> QED
    BY <2>1, <2>2 DEF LeadersLead
<1> DEFINE d == [node |-> j, term |-> m.term, index |-> Len(u.log[j])]
<1>6. u.acks = s.acks \union {d} /\ d.node = j /\ d.term = m.term /\ d.index = Len(u.log[j])
  BY DEF Accepts
<1> HIDE DEF d
<1>7. ASSUME NEW a \in s.acks
      PROVE  /\ a.term <= u.term[a.node]
             /\ \E e \in u.elected : e.term = a.term
             /\ a.term = u.term[a.node] => Holds(u.log[a.node], a.index, a.term)
             /\ \A i \in Server :
                   u.role[i] = "LEADER" /\ u.term[i] = a.term => a.index <= Len(u.log[i])
  <2>1. a.node \in Server /\ a.term \in Nat
    BY <1>0 DEF Shape
  <2>2. /\ a.term <= s.term[a.node]
        /\ \E e \in s.elected : e.term = a.term
        /\ a.term = s.term[a.node] => Holds(s.log[a.node], a.index, a.term)
        /\ \A i \in Server :
              s.role[i] = "LEADER" /\ s.term[i] = a.term => a.index <= Len(s.log[i])
    BY <1>0 DEF AcksTrue
  <2>3. s.term[a.node] \in Nat /\ u.term[a.node] \in Nat /\ s.term[a.node] <= u.term[a.node]
    BY <1>4, <2>1
  <2>4. a.term <= u.term[a.node] /\ (a.term = u.term[a.node] => a.term = s.term[a.node])
    BY <2>1, <2>2, <2>3
  <2>5. ASSUME a.term = u.term[a.node] PROVE Holds(u.log[a.node], a.index, a.term)
    <3>1. Holds(s.log[a.node], a.index, a.term)
      BY <2>2, <2>4, <2>5
    <3>2. CASE a.node = j
      <4>1. a.term = m.term
        BY <1>0, <2>5, <3>2
      <4> QED
        BY <3>1, <3>2, <4>1, AcceptedLog
    <3>3. CASE a.node # j
      <4>1. u.log[a.node] = s.log[a.node]
        BY <1>2, <2>1, <3>3
      <4> QED
        BY <3>1, <4>1
    <3> QED
      BY <3>2, <3>3
  <2>6. ASSUME NEW i \in Server, u.role[i] = "LEADER", u.term[i] = a.term
        PROVE  a.index <= Len(u.log[i])
    <3>1. i # j
      BY <1>0, <2>6
    <3>2. u.term[i] = s.term[i] /\ u.role[i] = s.role[i] /\ u.log[i] = s.log[i]
      BY <1>2, <3>1
    <3> QED
      BY <2>2, <2>6, <3>2
  <2> QED
    BY <1>0, <2>2, <2>4, <2>5, <2>6
<1>8. /\ d.term <= u.term[d.node]
      /\ \E e \in u.elected : e.term = d.term
      /\ d.term = u.term[d.node] => Holds(u.log[d.node], d.index, d.term)
      /\ \A i \in Server :
            u.role[i] = "LEADER" /\ u.term[i] = d.term => d.index <= Len(u.log[i])
  <2>1. \E e \in u.elected : e.term = m.term
    <3> DEFINE e == [term |-> m.term, leader |-> m.from]
    <3>1. e \in u.elected /\ e.term = m.term
      BY <1>0 DEF AppendsTrue
    <3> HIDE DEF e
    <3> QED
      BY <3>1
  <2>2. ASSUME NEW i \in Server, u.role[i] = "LEADER", u.term[i] = m.term
        PROVE  Len(u.log[j]) <= Len(u.log[i])
    <3> DEFINE n == Len(u.log[j])
               a == Link(n, TermOf(u.log[j], n - 1), u.log[j][n])
    <3>1. n \in 1 .. n /\ u.log[j][n].term = m.term
      BY <1>1 DEF Holds
    <3>2. a \in Chains(u) /\ a.index = n /\ a.entry.term = m.term
      BY <1>3, <3>1, LogLink, LinkFields
    <3> HIDE DEF a, n
    <3>3. n <= Len(u.log[i])
      BY <1>5, <2>2, <3>2 DEF LeadersLead
    <3> QED
      BY <3>3 DEF n
  <2>3. m.term <= m.term
    BY <1>3
  <2> QED
    BY <1>0, <1>1, <1>6, <2>1, <2>2, <2>3
<1>9. ASSUME NEW r \in u.msgs, r.type = "AppendEntriesResp", r.success
      PROVE  [node |-> r.from, term |-> r.term, index |-> r.lastIndex] \in u.acks
  <2>1. CASE r \in s.msgs
    BY <1>0, <1>9, <2>1 DEF AcksTrue
  <2>2. CASE r.from = j /\ r.term = m.term /\ r.lastIndex = Len(u.log[j])
    BY <1>6, <2>2 DEF d
  <2> QED
    BY <1>9, <2>1, <2>2 DEF Accepts
<1>10. ASSUME NEW i \in Server, NEW x \in Server, u.role[i] = "LEADER", i # x
       PROVE  \/ u.match[i][x] = 0
              \/ [node |-> x, term |-> u.term[i], index |-> u.match[i][x]] \in u.acks
  <2>1. i # j
    BY <1>0, <1>10
  <2>2. /\ u.term[i] = s.term[i] /\ u.role[i] = s.role[i] /\ u.match[i] = s.match[i]
    BY <1>2, <2>1
  <2>3. \/ s.match[i][x] = 0
        \/ [node |-> x, term |-> s.term[i], index |-> s.match[i][x]] \in s.acks
    BY <1>0, <1>10, <2>2 DEF AcksTrue
  <2> QED
    BY <1>0, <2>2, <2>3
<1>11. AcksTrue(u)
  <2>1. \A a \in u.acks : a \in s.acks \/ a = d
    BY <1>6
  <2>2. ASSUME NEW a \in u.acks
        PROVE  /\ a.term <= u.term[a.node]
               /\ \E e \in u.elected : e.term = a.term
               /\ a.term = u.term[a.node] => Holds(u.log[a.node], a.index, a.term)
               /\ \A i \in Server :
                     u.role[i] = "LEADER" /\ u.term[i] = a.term => a.index <= Len(u.log[i])
    BY <1>7, <1>8, <2>1
  <2> QED
    BY <1>9, <1>10, <2>2 DEF AcksTrue
<1>12. CandidatesTrue(u)
  <2>1. ASSUME NEW b \in u.ballots PROVE b.term <= u.term[b.candidate]
    <3>1. b \in s.ballots /\ b.candidate \in Server /\ b.term \in Nat
      BY <1>0 DEF Shape
    <3>2. b.term <= s.term[b.candidate]
      BY <1>0, <3>1 DEF CandidatesTrue
    <3> QED
      BY <1>4, <3>1, <3>2
  <2>2. ASSUME NEW r \in u.msgs, r.type = "RequestVote", ~r.preVote
        PROVE  /\ r.term <= u.term[r.from]
               /\ r.term = u.term[r.from] /\ u.role[r.from] = "CANDIDATE" =>
                     /\ r.lastIndex = Len(u.log[r.from])
                     /\ r.lastTerm = TermOf(u.log[r.from], Len(u.log[r.from]))
    <3>1. r \in s.msgs /\ r \in Message
      BY <1>0, <2>2 DEF Accepts, Shape
    <3>2. r.from \in Server /\ r.term \in Nat
      BY <2>2, <3>1, MessageFields
    <3>3. /\ r.term <= s.term[r.from]
          /\ r.term = s.term[r.from] /\ s.role[r.from] = "CANDIDATE" =>
                /\ r.lastIndex = Len(s.log[r.from])
                /\ r.lastTerm = TermOf(s.log[r.from], Len(s.log[r.from]))
      BY <1>0, <2>2, <3>1 DEF CandidatesTrue
    <3>4. u.role[r.from] = "CANDIDATE" =>
              /\ s.role[r.from] = "CANDIDATE" /\ u.log[r.from] = s.log[r.from]
              /\ u.term[r.from] = s.term[r.from]
      BY <1>0, <1>2, <3>2
    <3>5. r.term <= u.term[r.from]
      BY <1>4, <3>2, <3>3
    <3> QED
      BY <3>3, <3>4, <3>5
  <2> QED
    BY <2>1, <2>2 DEF CandidatesTrue
<1> QED
  BY <1>5, <1>11, <1>12

\* A follower that accepts a message of a later term holds, up to where the message
\* starts, what may still be chosen.
LEMMA AcceptHadBelow ==
    ASSUME NEW s, NEW u, Follows(s, u), NEW m, Accepts(s, u, m), NEW a \in Chains(s),
           a.index < m.prevIndex, Choosable(s, a.index, a.entry.term), a.entry.term <= m.term
    PROVE  Holds(s.log[m.to], a.index, a.entry.term)
<1> DEFINE W == s.log[m.to]
           p == m.prevIndex
           n == a.index
           t == a.entry.term
<1>0. /\ Sound(s) /\ Linked(s) /\ Shape(s) /\ ChoosableIsHeld(s) /\ ChoosableIsSent(s)
      /\ m \in s.msgs /\ IsAppend(m)
  BY DEF Follows, Sound, Linked, Accepts
<1>1. p \in Nat /\ m.to \in Server /\ m.prevTerm \in Nat /\ m.term \in Nat
  BY <1>0, MessageShape
<1>2. Len(W) \in Nat /\ \A k \in 0 .. Len(W) : TermOf(W, k) \in Nat
  BY <1>0, <1>1, LogShape
<1>3. n \in Nat \ {0} /\ t \in Nat
  BY <1>0, LinkParts
<1>4. t <= m.prevTerm
  <2>1. a.index <= m.prevIndex
    BY <1>1, <1>3
  <2>2. \/ a.entry.term > m.term
        \/ a.entry.term < m.term /\ ~Choosable(s, a.index, a.entry.term)
        \/ m.prevTerm >= a.entry.term
    BY <1>0, <2>1 DEF ChoosableIsSent
  <2> QED
    BY <1>1, <1>3, <2>2
<1>5. p <= Len(W) /\ TermOf(W, p) = m.prevTerm
  <2>1. Carries(W, u.log[m.to], m)
    BY AcceptedLog
  <2>2. p = 0 \/ p \in 1 .. p
    BY <1>1
  <2>3. p = 0 \/ u.log[m.to][p] = W[p]
    BY <2>1, <2>2 DEF Carries
  <2> QED
    BY <2>1, <2>3 DEF Carries, TermOf
<1>6. CASE m.prevTerm = t
  <2>1. Holds(W, p, t)
    BY <1>1, <1>2, <1>3, <1>5, <1>6 DEF Holds, TermOf
  <2>2. n <= p
    BY <1>1, <1>3
  <2> QED
    BY <1>0, <1>1, <1>3, <2>1, <2>2, LogReachesDown
<1>7. CASE t < m.prevTerm
  <2>1. TermOf(W, p) <= TermOf(W, Len(W))
    <3>1. p \in 0 .. Len(W) /\ Len(W) \in 0 .. Len(W)
      BY <1>1, <1>2, <1>5
    <3> QED
      BY <1>0, <1>1, <1>5, <3>1, LogAscends
  <2>2. TermOf(W, Len(W)) > t
    <3>1. TermOf(W, Len(W)) \in Nat
      BY <1>2
    <3> QED
      BY <1>1, <1>3, <1>5, <1>7, <2>1, <3>1
  <2> QED
    BY <1>0, <1>1, <1>3, <2>2 DEF ChoosableIsHeld
<1> QED
  BY <1>1, <1>3, <1>4, <1>6, <1>7

LEMMA AcceptHeld ==
    ASSUME NEW s, NEW u, Follows(s, u), NEW m, Accepts(s, u, m)
    PROVE  ChoosableIsHeld(u)
<1> SUFFICES ASSUME NEW a \in Chains(u), Choosable(u, a.index, a.entry.term), NEW i \in Server,
                    \/ Acked(u, i, a.index, a.entry.term)
                    \/ TermOf(u.log[i], Len(u.log[i])) > a.entry.term
             PROVE  Holds(u.log[i], a.index, a.entry.term)
  BY DEF ChoosableIsHeld
<1> DEFINE j == m.to
           n == a.index
           t == a.entry.term
           W == s.log[j]
           V == u.log[j]
           p == m.prevIndex
           q == MsgLast(m)
<1>0. /\ Shape(s) /\ Shape(u) /\ Onward(s, u) /\ Sound(s) /\ Linked(u) /\ a \in Chains(s)
      /\ Linked(s) /\ ChoosableIsHeld(s) /\ ChoosableIsSent(s) /\ m \in s.msgs /\ IsAppend(m)
  BY AcceptLinked DEF Follows, Onward, Sound, Accepts
<1>1. n \in Nat \ {0} /\ t \in Nat /\ Choosable(s, n, t)
  <2>1. n \in Nat \ {0} /\ t \in Nat
    BY <1>0, LinkParts
  <2> QED
    BY <1>0, <2>1, ChoosableWas
<1>2. ASSUME NEW x \in Server, Acked(s, x, n, t) \/ TermOf(s.log[x], Len(s.log[x])) > t
      PROVE  Holds(s.log[x], n, t)
  BY <1>0, <1>1, <1>2 DEF ChoosableIsHeld
<1>3. ASSUME NEW x \in Server, Acked(u, x, n, t)
      PROVE  \/ Acked(s, x, n, t)
             \/ x = j /\ t = m.term /\ n <= Len(V)
  BY <1>3 DEF Accepts, Acked
<1>4. CASE i # j
  <2>1. u.log[i] = s.log[i]
    BY <1>4 DEF Accepts
  <2> QED
    BY <1>2, <1>3, <1>4, <2>1
<1>5. CASE i = j
  <2>0. /\ p \in Nat /\ q \in Nat /\ m.term \in Nat /\ j \in Server
        /\ Len(V) \in Nat /\ Len(W) \in Nat
    BY <1>0, <1>5, MessageShape, LogShape
  <2>1. Holds(V, Len(V), m.term) /\ Carries(W, V, m) /\ KeepsChosen(s, u)
    BY AcceptReaches, AcceptedLog
  <2>2. CASE Acked(s, j, n, t)
    <3>1. Holds(W, n, t)
      BY <1>2, <2>0, <2>2
    <3>2. Keeps(s, u, j, n)
      BY <1>1, <2>0, <2>1, <2>2, <3>1 DEF KeepsChosen
    <3>3. n <= Len(V) /\ \A x \in 1 .. n : V[x] = W[x]
      BY <3>2 DEF Keeps
    <3>4. W[n].term = t
      BY <3>1 DEF Holds
    <3> HIDE DEF V, W, n, t
    <3>5. n \in 1 .. n /\ n \in 1 .. Len(V)
      BY <1>1, <2>0, <3>3
    <3>6. V[n] = W[n]
      BY <3>3, <3>5
    <3>7. Holds(V, n, t)
      BY <3>4, <3>5, <3>6 DEF Holds
    <3> QED
      BY <1>5, <3>7 DEF V, n, t
  <2>3. CASE t = m.term /\ n <= Len(V)
    <3>1. /\ Holds(u.log[j], Len(V), a.entry.term) /\ a.index \in Nat \ {0} /\ a.index <= Len(V)
          /\ Len(V) \in Nat /\ j \in Server /\ Linked(u) /\ a \in Chains(u)
      BY <1>0, <1>1, <2>0, <2>1, <2>3
    <3> HIDE DEF V, j
    <3>2. Holds(u.log[j], a.index, a.entry.term)
      BY <3>1, LogReachesDown
    <3> QED
      BY <1>5, <3>2
  <2>4. CASE TermOf(V, Len(V)) > t
    <3>1. t < m.term
      <4>1. TermOf(V, Len(V)) = m.term
        BY <2>0, <2>1 DEF Holds, TermOf
      <4> QED
        BY <1>1, <2>0, <2>4, <4>1
    <3>2. n < q /\ (p <= n => MsgTerm(m, n) = t)
      BY <1>0, <1>1, <3>1 DEF ChoosableIsSent
    <3>3. CASE p < n
      <4>1. n \in p + 1 .. q
        BY <1>1, <2>0, <3>2, <3>3
      <4>2. V[n].term = t
        <5>1. V[n].term = MsgTerm(m, n)
          BY <2>1, <4>1 DEF Carries
        <5> QED
          BY <1>1, <2>0, <3>2, <3>3, <5>1
      <4>3. n \in 1 .. Len(V)
        BY <1>1, <2>0, <2>1, <4>1 DEF Carries
      <4> QED
        BY <1>5, <4>2, <4>3 DEF Holds
    <3>4. CASE p = n
      <4>1. TermOf(V, p) = t
        BY <1>1, <2>1, <3>2, <3>4 DEF Carries, MsgTerm
      <4>2. n \in 1 .. Len(V)
        BY <1>1, <2>0, <2>1, <3>4 DEF Carries
      <4> QED
        BY <1>1, <1>5, <3>4, <4>1, <4>2 DEF Holds, TermOf
    <3>5. CASE n < p
      <4>1. Holds(W, n, t)
        <5>1. t <= m.term
          BY <1>1, <2>0, <3>1
        <5> QED
          BY <1>0, <1>1, <3>5, <5>1, AcceptHadBelow
      <4>2. n \in 1 .. p /\ n \in 1 .. Len(V)
        BY <1>1, <2>0, <2>1, <3>5 DEF Carries
      <4>3. V[n] = W[n]
        BY <2>1, <4>2 DEF Carries
      <4> QED
        BY <1>5, <4>1, <4>2, <4>3 DEF Holds
    <3> QED
      BY <1>1, <2>0, <3>3, <3>4, <3>5
  <2> QED
    BY <1>3, <1>5, <2>0, <2>2, <2>3, <2>4
<1> QED
  BY <1>4, <1>5

LEMMA AcceptVoted ==
    ASSUME NEW s, NEW u, Follows(s, u), NEW m, Accepts(s, u, m)
    PROVE  ChoosableIsVoted(u)
<1> SUFFICES ASSUME NEW a \in Chains(u), NEW b \in u.ballots,
                    Choosable(u, a.index, a.entry.term),
                    a.entry.term < b.term, u.term[b.candidate] = b.term,
                    u.role[b.candidate] = "CANDIDATE",
                    Acked(u, b.voter, a.index, a.entry.term)
             PROVE  Holds(u.log[b.candidate], a.index, a.entry.term)
  BY DEF ChoosableIsVoted
<1> DEFINE n == a.index
           t == a.entry.term
           c == b.candidate
           j == m.to
<1>0. /\ Shape(s) /\ Shape(u) /\ Onward(s, u) /\ VotesBind(u) /\ Linked(u) /\ a \in Chains(s)
      /\ ChoosableIsVoted(s) /\ u.ballots = s.ballots
      /\ u.role[j] = "FOLLOWER" /\ u.term[j] = m.term
  BY AcceptLinked DEF Follows, Onward, Sound, Accepts
<1>1. n \in Nat \ {0} /\ t \in Nat /\ Choosable(s, n, t)
  <2>1. n \in Nat \ {0} /\ t \in Nat
    BY <1>0, LinkParts
  <2> QED
    BY <1>0, <2>1, ChoosableWas
<1>2. c \in Server /\ b.voter \in Server /\ b.term \in Nat /\ u.term[b.voter] \in Nat
  BY <1>0 DEF Shape
<1>3. b.term <= u.term[b.voter]
  BY <1>0 DEF VotesBind
<1>4. Acked(s, b.voter, n, t)
  <2>1. b.voter = j => t # m.term
    BY <1>0, <1>1, <1>2, <1>3
  <2> QED
    BY <2>1 DEF Accepts, Acked
<1>5. c # j
  BY <1>0
<1>6. s.role[c] = "CANDIDATE" /\ s.term[c] = b.term /\ u.log[c] = s.log[c]
  <2>1. s.role[c] = u.role[c] /\ s.term[c] = u.term[c] /\ u.log[c] = s.log[c]
    BY <1>2, <1>5 DEF Accepts
  <2> QED
    BY <2>1
<1>7. Holds(s.log[c], n, t)
  BY <1>0, <1>1, <1>4, <1>6 DEF ChoosableIsVoted
<1> QED
  BY <1>6, <1>7

LEMMA AcceptCommitted ==
    ASSUME NEW s, NEW u, Follows(s, u), NEW m, Accepts(s, u, m)
    PROVE  CommittedIsChosen(u)
<1> SUFFICES ASSUME NEW i \in Server PROVE CommittedAt(u, i)
  BY DEF CommittedIsChosen
<1> DEFINE j == m.to
           W == s.log[j]
           V == u.log[j]
           p == m.prevIndex
           q == MsgLast(m)
           c == u.commit[j]
<1>0. /\ Shape(s) /\ Shape(u) /\ Onward(s, u) /\ Sound(s) /\ Linked(s) /\ AppendsTrue(s)
      /\ m \in s.msgs /\ IsAppend(m) /\ u.term[j] = m.term
      /\ Carries(W, V, m) /\ KeepsChosen(s, u)
  BY AcceptedLog DEF Follows, Onward, Sound, Accepts
<1>1. CASE u.commit[i] = s.commit[i]
  BY <1>0, <1>1, CommittedStays
<1>2. CASE u.commit[i] # s.commit[i]
  <2>1. i = j /\ c <= m.commit /\ c <= q
    BY <1>2 DEF Accepts
  <2>2. /\ p \in Nat /\ q \in Nat /\ m.term \in Nat /\ m.commit \in Nat /\ j \in Server
        /\ Len(W) \in Nat /\ Len(V) \in Nat /\ c \in Nat
    BY <1>0, <2>1, MessageShape, LogShape DEF Shape
  <2> SUFFICES ASSUME c > 0
               PROVE  /\ c <= Len(V)
                      /\ \E x \in Server, n \in Nat, t \in Nat :
                            /\ c <= n /\ t <= u.term[j] /\ Evidence(u, x, n, t)
                            /\ \A k \in 1 .. c : u.log[x][k] = V[k]
    BY <2>1 DEF CommittedAt
  <2>3. c <= Len(V)
    BY <1>0, <2>1, <2>2 DEF Carries
  <2>4. PICK x \in Server, n \in Nat, t \in Nat :
            m.commit <= n /\ t <= m.term /\ Evidence(s, x, n, t)
    <3>1. m.commit > 0
      BY <2>1, <2>2
    <3> QED
      BY <1>0, <3>1 DEF AppendsTrue
  <2>5. Evidence(u, x, n, t) /\ Keeps(s, u, x, n)
    BY <1>0, <2>4, EvidenceStays
  <2>6. Holds(s.log[x], n, t) /\ Choosable(s, n, t) /\ Len(s.log[x]) \in Nat
    BY <1>0, <2>4, ChosenIsChoosable, LogShape DEF Evidence
  <2>7. n \in 1 .. Len(s.log[x])
    BY <2>6 DEF Holds
  <2>8. t = m.term \/ (t < m.term /\ Choosable(s, n, t))
    BY <2>2, <2>4, <2>6
  <2>9. /\ p <= n => TermOf(s.log[x], p) = m.prevTerm
        /\ \A y \in p + 1 .. q : y <= n => s.log[x][y] = m.entries[y - p]
    BY <1>0, <2>6, <2>8, MessageAgrees
  <2>10. /\ q <= Len(V) /\ p <= Len(W) /\ TermOf(V, p) = m.prevTerm
         /\ \A k \in 1 .. p : V[k] = W[k]
         /\ \A y \in p + 1 .. q : V[y] = m.entries[y - p]
    BY <1>0 DEF Carries
  <2>11. ASSUME NEW k \in 1 .. c PROVE s.log[x][k] = V[k]
    <3>1. CASE p < k
      <4>1. k \in p + 1 .. q /\ k <= n
        BY <2>1, <2>2, <2>4, <3>1
      <4> QED
        BY <2>9, <2>10, <4>1
    <3>2. CASE k <= p /\ p <= n
      <4>1. TermOf(W, p) = TermOf(s.log[x], p)
        <5>1. p \in 1 .. p /\ p # 0
          BY <2>2, <3>2
        <5>2. V[p] = W[p]
          BY <2>10, <5>1
        <5> QED
          BY <2>9, <2>10, <3>2, <5>1, <5>2 DEF TermOf
      <4>2. p <= Len(s.log[x]) /\ p <= Len(W)
        BY <2>2, <2>6, <2>7, <2>10, <3>2
      <4>3. \A y \in 1 .. p : W[y] = s.log[x][y]
        BY <1>0, <2>2, <4>1, <4>2, SameUpTo
      <4>4. k \in 1 .. p
        BY <2>2, <3>2
      <4> QED
        BY <2>10, <4>3, <4>4
    <3>3. CASE n < p
      <4> DEFINE a == Link(n, TermOf(s.log[x], n - 1), s.log[x][n])
      <4>1. a \in Chains(s) /\ a.index = n /\ a.entry.term = t
        BY <2>6, <2>7, LogLink, LinkFields DEF Holds
      <4> HIDE DEF a
      <4>2. Holds(W, n, t)
        BY <2>4, <2>6, <3>3, <4>1, AcceptHadBelow
      <4>3. n <= Len(W) /\ n <= Len(s.log[x]) /\ TermOf(W, n) = TermOf(s.log[x], n)
        BY <2>2, <2>6, <2>7, <4>2 DEF Holds, TermOf
      <4>4. \A y \in 1 .. n : W[y] = s.log[x][y]
        <5>1. j \in Server /\ Linked(s)
          BY <1>0, <2>2
        <5> HIDE DEF j
        <5> QED
          BY <4>3, <5>1, SameUpTo
      <4>5. k \in 1 .. n /\ k \in 1 .. p
        BY <2>1, <2>2, <2>4, <3>3
      <4> QED
        BY <2>10, <4>4, <4>5
    <3> QED
      BY <2>2, <3>1, <3>2, <3>3
  <2>12. ASSUME NEW k \in 1 .. c PROVE u.log[x][k] = V[k]
    <3>1. k \in 1 .. n
      BY <2>1, <2>2, <2>4
    <3>2. u.log[x][k] = s.log[x][k]
      BY <2>5, <3>1 DEF Keeps
    <3> QED
      BY <2>11, <3>2
  <2>13. c <= n /\ t <= u.term[j]
    BY <1>0, <2>1, <2>2, <2>4
  <2> QED
    BY <2>3, <2>5, <2>12, <2>13
<1> QED
  BY <1>1, <1>2

LEMMA AcceptSound ==
    ASSUME NEW s, NEW u, Follows(s, u), NEW m, Accepts(s, u, m)
    PROVE  Sound(u) /\ KeepsChosen(s, u)
<1>1. /\ Linked(u) /\ LeadersLead(u) /\ AcksTrue(u) /\ CandidatesTrue(u) /\ ChoosableIsHeld(u)
      /\ ChoosableIsVoted(u) /\ CommittedIsChosen(u) /\ KeepsChosen(s, u)
      /\ Chains(u) \subseteq Chains(s)
  BY AcceptLinked, AcceptLeads, AcceptHeld, AcceptVoted, AcceptCommitted, AcceptedLog
<1>2. VotesBind(u) /\ ReachesTerm(u) /\ Shape(s) /\ AppendsTrue(s)
  BY DEF Follows, Sound, Linked
<1>3. LeadersWere(s, u)
  <2> SUFFICES ASSUME NEW i \in Server, u.role[i] = "LEADER"
               PROVE  /\ u.term[i] = s.term[i] /\ Len(s.log[i]) <= Len(u.log[i])
                      /\ s.role[i] = "LEADER" \/ s.role[i] = "CANDIDATE"
    BY DEF LeadersWere
  <2>1. i # m.to
    BY DEF Accepts
  <2>2. u.term[i] = s.term[i] /\ u.role[i] = s.role[i] /\ u.log[i] = s.log[i]
    BY <2>1 DEF Accepts
  <2>3. Len(s.log[i]) \in Nat
    BY <1>2, LogShape
  <2> QED
    BY <2>2, <2>3
<1>4. ASSUME NEW r \in s.msgs, IsAppend(r), r.prevTerm = r.term
      PROVE  StartsBy(u, r.term, r.prevIndex)
  <2>1. StartsBy(s, r.term, r.prevIndex)
    BY <1>2, <1>4 DEF AppendsTrue
  <2> QED
    BY <1>1, <2>1 DEF StartsBy
<1>5. AppendsTrue(u)
  BY <1>1, <1>3, <1>4, AppendsAfter
<1>6. ChoosableIsSent(u)
  BY <1>1, SentAfter
<1> QED
  BY <1>1, <1>2, <1>5, <1>6 DEF Sound

-----------------------------------------------------------------------------
(* What a sound view promises.                                             *)

LEMMA EvidenceReaches ==
    ASSUME NEW s, Sound(s), NEW x \in Server, NEW n \in Nat, NEW t \in Nat, Evidence(s, x, n, t),
           NEW y \in Server, NEW o \in Nat, NEW r \in Nat, Holds(s.log[y], o, r),
           t < r \/ (t = r /\ n <= o)
    PROVE  n <= Len(s.log[y]) /\ \A k \in 1 .. n : s.log[y][k] = s.log[x][k]
<1> DEFINE a == Link(n, TermOf(s.log[x], n - 1), s.log[x][n])
<1>0. Linked(s) /\ Shape(s) /\ ChoosableIsHeld(s)
  BY DEF Sound, Linked
<1>1. Holds(s.log[x], n, t) /\ Choosable(s, n, t)
  BY ChosenIsChoosable DEF Evidence
<1>2. /\ Len(s.log[x]) \in Nat /\ Len(s.log[y]) \in Nat
      /\ \A k \in 0 .. Len(s.log[y]) : TermOf(s.log[y], k) \in Nat
  BY <1>0, LogShape
<1>3. a \in Chains(s) /\ a.index = n /\ a.entry.term = t /\ n \in 1 .. Len(s.log[x])
  BY <1>1, LogLink, LinkFields DEF Holds
<1> HIDE DEF a
<1>4. Holds(s.log[y], n, t)
  <2>1. CASE t < r
    <3>1. o \in 0 .. Len(s.log[y]) /\ TermOf(s.log[y], o) = r
      BY <1>2 DEF Holds, TermOf
    <3>2. Len(s.log[y]) \in 0 .. Len(s.log[y]) /\ o <= Len(s.log[y])
      BY <1>2, <3>1
    <3>3. TermOf(s.log[y], o) <= TermOf(s.log[y], Len(s.log[y]))
      BY <1>0, <3>1, <3>2, LogAscends
    <3>4. TermOf(s.log[y], Len(s.log[y])) > t
      <4>1. TermOf(s.log[y], Len(s.log[y])) \in Nat
        BY <1>2, <3>2
      <4> QED
        BY <2>1, <3>1, <3>3, <4>1
    <3> QED
      BY <1>0, <1>1, <1>3, <3>4 DEF ChoosableIsHeld
  <2>2. CASE t = r /\ n <= o
    <3>1. Holds(s.log[y], o, a.entry.term) /\ a.index \in Nat \ {0} /\ a.index <= o
      BY <1>2, <1>3, <2>2
    <3> QED
      BY <1>0, <1>3, <3>1, LogReachesDown
  <2> QED
    BY <2>1, <2>2
<1>5. n <= Len(s.log[y]) /\ n <= Len(s.log[x]) /\ TermOf(s.log[y], n) = TermOf(s.log[x], n)
  BY <1>1, <1>2, <1>3, <1>4 DEF Holds, TermOf
<1> QED
  BY <1>0, <1>5, SameUpTo

\* What two nodes have committed is the same.
LEMMA CommitsAgree ==
    ASSUME NEW s, Sound(s), NEW i \in Server, NEW j \in Server, NEW k \in Nat \ {0},
           k <= s.commit[i], k <= s.commit[j]
    PROVE  s.log[i][k] = s.log[j][k]
<1>0. /\ Shape(s) /\ CommittedAt(s, i) /\ CommittedAt(s, j)
      /\ s.commit[i] \in Nat /\ s.commit[j] \in Nat
  BY DEF Sound, Linked, CommittedIsChosen, Shape
<1>1. PICK x \in Server, n \in Nat, t \in Nat :
          /\ s.commit[i] <= n /\ Evidence(s, x, n, t)
          /\ \A z \in 1 .. s.commit[i] : s.log[x][z] = s.log[i][z]
  <2>1. s.commit[i] > 0
    BY <1>0
  <2> QED
    BY <1>0, <2>1 DEF CommittedAt
<1>2. PICK y \in Server, o \in Nat, r \in Nat :
          /\ s.commit[j] <= o /\ Evidence(s, y, o, r)
          /\ \A z \in 1 .. s.commit[j] : s.log[y][z] = s.log[j][z]
  <2>1. s.commit[j] > 0
    BY <1>0
  <2> QED
    BY <1>0, <2>1 DEF CommittedAt
<1>3. Holds(s.log[x], n, t) /\ Holds(s.log[y], o, r)
  BY <1>1, <1>2 DEF Evidence
<1>4. k \in 1 .. n /\ k \in 1 .. o
  BY <1>0, <1>1, <1>2
<1>5. s.log[x][k] = s.log[y][k]
  <2>1. CASE t < r \/ (t = r /\ n <= o)
    BY <1>1, <1>3, <1>4, <2>1, EvidenceReaches
  <2>2. CASE r < t \/ (r = t /\ o <= n)
    BY <1>2, <1>3, <1>4, <2>2, EvidenceReaches
  <2> QED
    BY <2>1, <2>2
<1>6. s.log[x][k] = s.log[i][k] /\ s.log[y][k] = s.log[j][k]
  BY <1>0, <1>1, <1>2
<1> QED
  BY <1>5, <1>6

\* The log of a leader that has its entries' term at the end.
LEMMA LeaderEnds ==
    ASSUME NEW s, Sound(s), NEW i \in Server, s.role[i] = "LEADER"
    PROVE  /\ Len(s.log[i]) \in Nat /\ s.term[i] \in Nat
           /\ Holds(s.log[i], Len(s.log[i]), s.term[i])
<1>0. Shape(s) /\ LeadersLead(s) /\ Len(s.log[i]) \in Nat /\ s.term[i] \in Nat
  BY LogShape DEF Sound, Linked, Shape
<1>1. TermOf(s.log[i], Len(s.log[i])) = s.term[i]
  BY <1>0 DEF LeadersLead
<1>2. 0 < s.term[i]
  <2> DEFINE e == [term |-> s.term[i], leader |-> i]
  <2>1. e \in s.elected /\ e.term = s.term[i]
    BY <1>0 DEF LeadersLead
  <2> HIDE DEF e
  <2>2. 0 < e.term
    BY <1>0, <2>1 DEF LeadersLead
  <2> QED
    BY <2>1, <2>2
<1> QED
  BY <1>0, <1>1, <1>2 DEF Holds, TermOf

\* A leader has what nodes of its or an earlier term have committed.
LEMMA LeaderHasCommits ==
    ASSUME NEW s, Sound(s), NEW i \in Server, NEW j \in Server, s.role[i] = "LEADER",
           s.term[j] <= s.term[i], NEW k \in Nat \ {0}, k <= s.commit[j]
    PROVE  k <= Len(s.log[i]) /\ s.log[i][k] = s.log[j][k]
<1> DEFINE L == Len(s.log[i])
<1>0. /\ Shape(s) /\ CommittedAt(s, j) /\ LeadersLead(s)
      /\ s.commit[j] \in Nat /\ s.term[j] \in Nat
  BY DEF Sound, Linked, CommittedIsChosen, Shape
<1>1. PICK x \in Server, n \in Nat, t \in Nat :
          /\ s.commit[j] <= n /\ t <= s.term[j] /\ Evidence(s, x, n, t)
          /\ \A z \in 1 .. s.commit[j] : s.log[x][z] = s.log[j][z]
  <2>1. s.commit[j] > 0
    BY <1>0
  <2> QED
    BY <1>0, <2>1 DEF CommittedAt
<1>2. L \in Nat /\ s.term[i] \in Nat /\ Holds(s.log[i], L, s.term[i])
  BY LeaderEnds
<1>3. t = s.term[i] => n <= L
  <2> DEFINE a == Link(n, TermOf(s.log[x], n - 1), s.log[x][n])
  <2>1. a \in Chains(s) /\ a.index = n /\ a.entry.term = t
    BY <1>1, LogLink, LinkFields DEF Evidence, Holds
  <2> HIDE DEF a
  <2> QED
    BY <1>0, <2>1 DEF LeadersLead
<1>4. t < s.term[i] \/ (t = s.term[i] /\ n <= L)
  BY <1>0, <1>1, <1>2, <1>3
<1>5. n <= L /\ \A z \in 1 .. n : s.log[i][z] = s.log[x][z]
  BY <1>1, <1>2, <1>4, EvidenceReaches
<1>6. k \in 1 .. n /\ k <= L /\ k \in 1 .. s.commit[j]
  BY <1>0, <1>1, <1>2, <1>5
<1> QED
  BY <1>1, <1>5, <1>6

\* What a leader counts on a follower of its term is there.
LEMMA MatchIsHeld ==
    ASSUME NEW s, Sound(s), NEW i \in Server, NEW j \in Server, s.role[i] = "LEADER",
           i # j, s.term[j] = s.term[i]
    PROVE  /\ s.match[i][j] \in Nat
           /\ s.match[i][j] <= Len(s.log[j]) /\ s.match[i][j] <= Len(s.log[i])
           /\ \A k \in 1 .. s.match[i][j] : s.log[i][k] = s.log[j][k]
<1> DEFINE n == s.match[i][j]
           t == s.term[i]
           c == [node |-> j, term |-> t, index |-> n]
<1>0. Shape(s) /\ Linked(s) /\ AcksTrue(s) /\ n \in Nat /\ Len(s.log[j]) \in Nat
  BY LogShape DEF Sound, Linked, Shape
<1>1. Len(s.log[i]) \in Nat /\ Holds(s.log[i], Len(s.log[i]), t)
  BY LeaderEnds
<1>2. CASE n = 0
  BY <1>0, <1>1, <1>2
<1>3. CASE n # 0
  <2>1. c \in s.acks /\ c.node = j /\ c.term = t /\ c.index = n
    BY <1>0, <1>3 DEF AcksTrue
  <2> HIDE DEF c
  <2>2. Holds(s.log[j], n, t) /\ n <= Len(s.log[i])
    BY <1>0, <2>1 DEF AcksTrue
  <2> DEFINE a == Link(n, TermOf(s.log[j], n - 1), s.log[j][n])
  <2>3. a \in Chains(s) /\ a.index = n /\ a.entry.term = t
    BY <2>2, LogLink, LinkFields DEF Holds
  <2> HIDE DEF a
  <2>4. Holds(s.log[i], n, t)
    <3>1. /\ Holds(s.log[i], Len(s.log[i]), a.entry.term) /\ a.index \in Nat \ {0}
          /\ a.index <= Len(s.log[i])
      BY <1>0, <1>1, <1>3, <2>2, <2>3
    <3> QED
      BY <1>0, <2>3, <3>1, LogReachesDown
  <2>5. n <= Len(s.log[j]) /\ TermOf(s.log[i], n) = TermOf(s.log[j], n)
    BY <1>0, <2>2, <2>4 DEF Holds, TermOf
  <2>6. \A k \in 1 .. n : s.log[i][k] = s.log[j][k]
    BY <1>0, <2>2, <2>5, SameUpTo
  <2> QED
    BY <1>0, <2>2, <2>5, <2>6
<1> QED
  BY <1>2, <1>3

-----------------------------------------------------------------------------
(* The whole log of a node.                                                *)

LEMMA WholeEntries ==
    ASSUME NEW L \in Log, NEW h \in Seq(Entry), L.base <= Len(h)
    PROVE  /\ WholeOf(L, h) \in Seq(Entry) /\ Len(WholeOf(L, h)) = LastIndex(L)
           /\ LastIndex(L) \in Nat /\ L.base \in Nat /\ L.base <= LastIndex(L)
           /\ \A k \in L.base + 1 .. LastIndex(L) : WholeOf(L, h)[k] = EntryAt(L, k)
           /\ \A k \in 1 .. L.base : WholeOf(L, h)[k] = h[k]
<1> DEFINE W == WholeOf(L, h)
<1>1. /\ L.base \in Nat /\ L.entries \in Seq(Entry) /\ Len(L.entries) \in Nat
      /\ LastIndex(L) = L.base + Len(L.entries) /\ LastIndex(L) \in Nat /\ L.base <= LastIndex(L)
  BY LogFacts
<1>3. \A k \in 1 .. LastIndex(L) : W[k] = IF k <= L.base THEN h[k] ELSE EntryAt(L, k)
  BY DEF WholeOf
<1>4. ASSUME NEW k \in 1 .. LastIndex(L) PROVE W[k] \in Entry
  <2>1. CASE k <= L.base
    <3>1. k \in 1 .. Len(h)
      BY <1>1, <2>1
    <3>2. h[k] \in Entry
      BY <3>1
    <3> QED
      BY <1>3, <2>1, <3>2
  <2>2. CASE ~(k <= L.base)
    <3>1. k - L.base \in 1 .. Len(L.entries)
      BY <1>1, <2>2
    <3>2. L.entries[k - L.base] \in Entry
      BY <1>1, <3>1
    <3> QED
      BY <1>3, <2>2, <3>2 DEF EntryAt
  <2> QED
    BY <2>1, <2>2
<1>5. W \in Seq(Entry) /\ Len(W) = LastIndex(L)
  <2>1. W = [k \in 1 .. LastIndex(L) |-> IF k <= L.base THEN h[k] ELSE EntryAt(L, k)]
    BY DEF WholeOf
  <2>2. W \in [1 .. LastIndex(L) -> Entry]
    BY <1>3, <1>4, <2>1
  <2> HIDE DEF W
  <2> QED
    BY <1>1, <2>2
<1>6. ASSUME NEW k \in L.base + 1 .. LastIndex(L) PROVE W[k] = EntryAt(L, k)
  <2>1. k \in 1 .. LastIndex(L) /\ ~(k <= L.base)
    BY <1>1
  <2> QED
    BY <1>3, <2>1
<1>7. ASSUME NEW k \in 1 .. L.base PROVE W[k] = h[k]
  <2>1. k \in 1 .. LastIndex(L) /\ k <= L.base
    BY <1>1
  <2> QED
    BY <1>3, <2>1
<1> QED
  BY <1>1, <1>5, <1>6, <1>7

LEMMA WholeShape ==
    ASSUME NEW L \in Log, NEW h \in Seq(Entry), NEW c \in Nat, Stored(L, h, c)
    PROVE  /\ WholeOf(L, h) \in Seq(Entry) /\ Len(WholeOf(L, h)) = LastIndex(L)
           /\ LastIndex(L) \in Nat /\ L.base \in Nat /\ L.base <= LastIndex(L)
           /\ \A k \in L.base + 1 .. LastIndex(L) : WholeOf(L, h)[k] = EntryAt(L, k)
           /\ \A k \in 1 .. c : WholeOf(L, h)[k] = h[k]
<1> DEFINE W == WholeOf(L, h)
<1>1. L.base <= c /\ c = Len(h) /\ c <= LastIndex(L)
  BY DEF Stored
<1>2. /\ W \in Seq(Entry) /\ Len(W) = LastIndex(L)
      /\ LastIndex(L) \in Nat /\ L.base \in Nat /\ L.base <= LastIndex(L)
      /\ \A k \in L.base + 1 .. LastIndex(L) : W[k] = EntryAt(L, k)
      /\ \A k \in 1 .. L.base : W[k] = h[k]
  BY <1>1, WholeEntries
<1> HIDE DEF W
<1>3. ASSUME NEW k \in 1 .. c PROVE W[k] = h[k]
  <2>1. CASE k <= L.base
    BY <1>2, <2>1
  <2>2. CASE ~(k <= L.base)
    <3>1. k \in L.base + 1 .. c /\ k \in L.base + 1 .. LastIndex(L)
      BY <1>1, <1>2, <2>2
    <3> QED
      BY <1>2, <3>1 DEF Stored
  <2> QED
    BY <2>1, <2>2
<1> QED
  BY <1>2, <1>3 DEF W

\* term_at and last_term answer for the whole log.
LEMMA WholeTerm ==
    ASSUME NEW L \in Log, NEW h \in Seq(Entry), NEW c \in Nat, Stored(L, h, c),
           NEW k \in Nat, L.base <= k, k <= LastIndex(L)
    PROVE  TermAt(L, k) = TermOf(WholeOf(L, h), k) /\ TermAt(L, k) # NoTerm
<1> DEFINE W == WholeOf(L, h)
<1>0. /\ LastIndex(L) \in Nat /\ L.base \in Nat /\ L.base <= c /\ c \in Nat
      /\ \A x \in L.base + 1 .. LastIndex(L) : W[x] = EntryAt(L, x)
      /\ \A x \in 1 .. c : W[x] = h[x]
      /\ W \in Seq(Entry) /\ Len(W) = LastIndex(L)
  BY WholeShape DEF Stored
<1> HIDE DEF W
<1>1. TermAt(L, k) = TermOf(W, k)
  <2>1. CASE k = 0
    BY <2>1 DEF TermAt, TermOf
  <2>2. CASE k # 0 /\ k = L.base
    <3>1. TermAt(L, k) = L.term
      BY <2>2 DEF TermAt
    <3>2. L.term = TermOf(h, k)
      BY <2>2 DEF Stored
    <3>3. k \in 1 .. c
      BY <1>0, <2>2
    <3>4. W[k] = h[k]
      BY <1>0, <3>3
    <3> QED
      BY <2>2, <3>1, <3>2, <3>4 DEF TermOf
  <2>3. CASE k # 0 /\ k # L.base
    <3>1. k \in L.base + 1 .. LastIndex(L) /\ Live(L, k)
      BY <1>0, <2>3 DEF Live
    <3>2. TermAt(L, k) = EntryAt(L, k).term
      BY <2>3, <3>1 DEF TermAt
    <3> QED
      BY <1>0, <2>3, <3>1, <3>2 DEF TermOf
  <2> QED
    BY <2>1, <2>2, <2>3
<1>2. TermOf(W, k) \in Nat
  <2>1. k # 0 => W[k] \in Entry
    <3>1. k # 0 => k \in 1 .. Len(W)
      BY <1>0
    <3> QED
      BY <1>0, <3>1
  <2> QED
    BY <2>1, EntryTerm DEF TermOf
<1> QED
  BY <1>1, <1>2 DEF NoTerm, W

LEMMA WholeLastTerm ==
    ASSUME NEW L \in Log, NEW h \in Seq(Entry), NEW c \in Nat, Stored(L, h, c)
    PROVE  LastTerm(L) = TermOf(WholeOf(L, h), LastIndex(L))
<1>0. /\ LastIndex(L) \in Nat /\ L.base \in Nat /\ L.base <= LastIndex(L)
      /\ LastIndex(L) = L.base + Len(L.entries) /\ Len(L.entries) \in Nat
  BY LogFacts
<1>1. TermAt(L, LastIndex(L)) = TermOf(WholeOf(L, h), LastIndex(L))
  BY <1>0, WholeTerm
<1>2. CASE Len(L.entries) = 0
  <2>1. LastTerm(L) = L.term /\ LastIndex(L) = L.base
    BY <1>0, <1>2 DEF LastTerm
  <2>2. CASE L.base = 0
    <3>1. L.term = 0
      BY <2>2 DEF Stored, TermOf
    <3> QED
      BY <1>1, <2>1, <2>2, <3>1 DEF TermAt
  <2>3. CASE L.base # 0
    BY <1>1, <2>1, <2>3 DEF TermAt
  <2> QED
    BY <2>2, <2>3
<1>3. CASE Len(L.entries) # 0
  <2>1. LastIndex(L) # 0 /\ LastIndex(L) # L.base /\ Live(L, LastIndex(L))
        /\ LastIndex(L) - L.base = Len(L.entries)
    BY <1>0, <1>3 DEF Live
  <2>2. TermAt(L, LastIndex(L)) = L.entries[Len(L.entries)].term
    BY <2>1 DEF TermAt, EntryAt
  <2> QED
    BY <1>1, <1>3, <2>2 DEF LastTerm
<1> QED
  BY <1>2, <1>3

-----------------------------------------------------------------------------
(* Applying, compacting, appending and sending, on the whole log.          *)

\* compact_to hides entries and loses none.
LEMMA CompactWhole ==
    ASSUME NEW L \in Log, NEW h \in Seq(Entry), NEW c \in Nat, Stored(L, h, c)
    PROVE  Kept(L, h, c, Compacted(L, c), h, c)
<1> DEFINE R == Compacted(L, c)
           d == c - L.base
           s == SubSeq(L.entries, d + 1, Len(L.entries))
<1>0. /\ L.base \in Nat /\ L.entries \in Seq(Entry) /\ Len(L.entries) \in Nat
      /\ LastIndex(L) = L.base + Len(L.entries) /\ LastIndex(L) \in Nat
      /\ L.base <= c /\ c = Len(h) /\ c <= LastIndex(L)
  BY LogFacts DEF Stored
<1>1. d \in Nat /\ d <= Len(L.entries) /\ c = L.base + d
  BY <1>0
<1> HIDE DEF d
<1>2. /\ s \in Seq(Entry) /\ Len(s) = Len(L.entries) - d
      /\ \A x \in 1 .. Len(L.entries) - d : s[x] = L.entries[d + x]
  <2>1. /\ s \in Seq(Entry) /\ Len(s) = Len(L.entries) - (d + 1) + 1
        /\ \A x \in 1 .. Len(L.entries) - (d + 1) + 1 : s[x] = L.entries[(d + 1) + x - 1]
    BY <1>0, <1>1, PartFacts
  <2>2. /\ Len(L.entries) - (d + 1) + 1 = Len(L.entries) - d
        /\ \A x \in 1 .. Len(L.entries) - d : (d + 1) + x - 1 = d + x
    BY <1>0, <1>1
  <2> HIDE DEF s
  <2> QED
    BY <2>1, <2>2
<1>3. R.base = c /\ R.term = TermAt(L, c) /\ R.entries = s
  BY DEF Compacted, CompactTo, d
<1>4. LastIndex(R) = LastIndex(L)
  <2> HIDE DEF s, R
  <2> QED
    BY <1>0, <1>1, <1>2, <1>3 DEF LastIndex
<1>5. R \in Log
  <2>1. TermAt(L, c) \in Nat
    BY <1>0, WholeTerm, TermAtType, EntryTerm DEF Log
  <2> QED
    BY <2>1, <1>0, CompactToType DEF Log, Compacted
<1> HIDE DEF s, R<1>6. ASSUME NEW k \in c + 1 .. LastIndex(L) PROVE EntryAt(R, k) = EntryAt(L, k)
  <2>1. k - c \in 1 .. Len(L.entries) - d /\ d + (k - c) = k - L.base
    <3> DEFINE b == L.base
               N == Len(L.entries)
    <3>1. b \in Nat /\ N \in Nat /\ c = b + d /\ LastIndex(L) = b + N /\ d <= N /\ k \in Int
      BY <1>0, <1>1
    <3>2. c + 1 <= k /\ k <= LastIndex(L)
      BY <1>0
    <3> HIDE DEF b, N
    <3>3. k - c \in 1 .. N - d /\ d + (k - c) = k - b
      BY <1>1, <3>1, <3>2
    <3> QED
      BY <3>3 DEF b, N
  <2> QED
    BY <1>2, <1>3, <2>1 DEF EntryAt
<1>7. TermOf(WholeOf(L, h), c) = TermOf(h, c) /\ R.term = TermOf(h, c)
  <2>1. TermAt(L, c) = TermOf(WholeOf(L, h), c)
    BY <1>0, WholeTerm
  <2>2. c # 0 => WholeOf(L, h)[c] = h[c]
    <3>1. c # 0 => c \in 1 .. c
      OBVIOUS
    <3> QED
      BY <3>1, WholeShape
  <2> QED
    BY <1>3, <2>1, <2>2 DEF TermOf
<1>8. Stored(R, h, c)
  BY <1>0, <1>3, <1>4, <1>7 DEF Stored
<1>9. WholeOf(R, h) = WholeOf(L, h)
  <2>1. ASSUME NEW k \in 1 .. LastIndex(L) PROVE WholeOf(R, h)[k] = WholeOf(L, h)[k]
    <3>1. CASE k <= c
      <4>1. k \in 1 .. c
        BY <3>1
      <4> QED
        BY <1>5, <1>8, <4>1, WholeShape
    <3>2. CASE ~(k <= c)
      <4>1. k \in c + 1 .. LastIndex(L) /\ k \in L.base + 1 .. LastIndex(L)
        BY <1>0, <3>2
      <4>2. WholeOf(L, h)[k] = EntryAt(L, k)
        BY <4>1, WholeShape
      <4>3. WholeOf(R, h)[k] = EntryAt(R, k)
        BY <1>3, <1>4, <1>5, <1>8, <4>1, WholeShape
      <4> QED
        BY <1>6, <4>1, <4>2, <4>3
    <3> QED
      BY <3>1, <3>2
  <2> QED
    BY <1>4, <2>1 DEF WholeOf
<1> QED
  BY <1>0, <1>3, <1>4, <1>5, <1>8, <1>9 DEF Kept, R

\* apply_committed hands the entries up to the new commit index to the state machine.
LEMMA ApplyWhole ==
    ASSUME NEW L \in Log, NEW h \in Seq(Entry), NEW c \in Nat, Stored(L, h, c),
           NEW n \in Nat, c <= n, n <= LastIndex(L)
    PROVE  Kept(L, h, c, L, Grown(L, h, c, n), n)
<1> DEFINE g == Grown(L, h, c, n)
           b == L.base
           es == EntriesBetween(L, c, n)
<1>0. /\ b \in Nat /\ L.entries \in Seq(Entry) /\ Len(L.entries) \in Nat
      /\ LastIndex(L) = b + Len(L.entries) /\ LastIndex(L) \in Nat
      /\ b <= c /\ c = Len(h) /\ c <= LastIndex(L)
  BY LogFacts DEF Stored
<1> DEFINE N == Len(L.entries)
<1>00. /\ b \in Nat /\ N \in Nat /\ LastIndex(L) = b + N /\ LastIndex(L) \in Nat
       /\ b <= c /\ c <= n /\ n <= b + N
  BY <1>0
<1> HIDE DEF b, N
<1>1. es = SubSeq(L.entries, c - b + 1, n - b)
  <2>1. Max({c, b}) = c /\ Min({n, LastIndex(L)}) = n
    <3>1. c \in Int /\ b \in Int /\ n \in Int /\ LastIndex(L) \in Int /\ c >= b /\ n =< LastIndex(L)
      BY <1>00
    <3> QED
      BY <3>1, MaxPair, MinPair
  <2> QED
    BY <2>1 DEF EntriesBetween, b
<1>2. /\ es \in Seq(Entry) /\ Len(es) = n - c
      /\ \A x \in 1 .. n - c : es[x] = L.entries[c - b + x]
  <2>0. c - b + 1 \in Nat \ {0} /\ n - b \in Nat /\ c - b + 1 <= n - b + 1 /\ n - b <= N
    BY <1>00
  <2>1. /\ es \in Seq(Entry) /\ Len(es) = (n - b) - (c - b + 1) + 1
        /\ \A x \in 1 .. (n - b) - (c - b + 1) + 1 : es[x] = L.entries[(c - b + 1) + x - 1]
    BY <1>0, <1>1, <2>0, PartFacts DEF N
  <2>2. /\ (n - b) - (c - b + 1) + 1 = n - c
        /\ \A x \in 1 .. n - c : (c - b + 1) + x - 1 = c - b + x
    BY <1>00
  <2> HIDE DEF es
  <2> QED
    BY <2>1, <2>2
<1> HIDE DEF es
<1>3. /\ g \in Seq(Entry) /\ Len(g) = n
      /\ \A k \in 1 .. n : g[k] = IF k <= c THEN h[k] ELSE es[k - c]
  <2>1. g = h \o es
    BY DEF es, Grown
  <2>2. /\ h \o es \in Seq(Entry) /\ Len(h \o es) = Len(h) + Len(es)
        /\ \A k \in 1 .. Len(h) + Len(es) : (h \o es)[k] = IF k <= Len(h) THEN h[k] ELSE es[k - Len(h)]
    BY <1>2, ConcatProperties
  <2>3. Len(h) + Len(es) = n
    BY <1>0, <1>2
  <2> QED
    BY <1>0, <2>1, <2>2, <2>3
<1> HIDE DEF g
<1>4. \A k \in 1 .. c : g[k] = h[k]
  BY <1>0, <1>3
<1>5. ASSUME NEW k \in b + 1 .. n PROVE g[k] = EntryAt(L, k)
  <2>1. CASE k <= c
    <3>1. k \in b + 1 .. c /\ k \in 1 .. c
      BY <1>00, <2>1
    <3> QED
      BY <1>4, <3>1 DEF Stored, b
  <2>2. CASE ~(k <= c)
    <3>1. k \in 1 .. n /\ k - c \in 1 .. n - c /\ c - b + (k - c) = k - b
      BY <1>00, <2>2
    <3> QED
      BY <1>2, <1>3, <2>2, <3>1 DEF EntryAt, b
  <2> QED
    BY <2>1, <2>2
<1>6. L.term = TermOf(g, b)
  <2>1. L.term = TermOf(h, b)
    BY DEF Stored, b
  <2>2. b # 0 => b \in 1 .. c
    BY <1>00
  <2> QED
    BY <1>4, <2>1, <2>2 DEF TermOf
<1>7. Stored(L, g, n)
  <2>1. b <= n
    BY <1>00
  <2> QED
    BY <1>3, <1>5, <1>6, <2>1 DEF Stored, b
<1>8. WholeOf(L, g) = WholeOf(L, h)
  <2>1. ASSUME NEW k \in 1 .. LastIndex(L), k <= b PROVE g[k] = h[k]
    <3>1. k \in 1 .. c
      BY <1>00, <2>1
    <3> QED
      BY <1>4, <3>1
  <2> QED
    BY <2>1 DEF WholeOf, b
<1>9. L.base <= L.base
  BY LogFacts
<1>10. Kept(L, h, c, L, g, n)
  BY <1>3, <1>4, <1>7, <1>8, <1>9 DEF Kept
<1> QED
  BY <1>10 DEF g

\* apply_committed with its compaction.
LEMMA CommitWhole ==
    ASSUME NEW L \in Log, NEW h \in Seq(Entry), NEW c \in Nat, Stored(L, h, c),
           NEW n \in Nat, c <= n, n <= LastIndex(L)
    PROVE  Kept(L, h, c, Trimmed(L, n), Grown(L, h, c, n), n)
<1> DEFINE g == Grown(L, h, c, n)
<1>1. Kept(L, h, c, L, g, n)
  BY ApplyWhole
<1>2. CASE Compacts(L, n)
  <2>1. Trimmed(L, n) = Compacted(L, n)
    BY <1>2 DEF Trimmed
  <2>2. g \in Seq(Entry) /\ Stored(L, g, n)
    BY <1>1 DEF Kept
  <2> HIDE DEF g
  <2>3. Kept(L, g, n, Compacted(L, n), g, n)
    BY <2>2, CompactWhole
  <2> QED
    BY <1>1, <2>1, <2>3 DEF Kept, g
<1>3. CASE ~Compacts(L, n)
  BY <1>1, <1>3 DEF Trimmed
<1> QED
  BY <1>2, <1>3

\* push adds the entry at the end, if there is room.
LEMMA PushWhole ==
    ASSUME NEW L \in Log, NEW h \in Seq(Entry), NEW c \in Nat, Stored(L, h, c),
           NEW e \in Entry, ~Full(L)
    PROVE  /\ Push(L, e) \in Log /\ Push(L, e).base = L.base /\ Stored(Push(L, e), h, c)
           /\ LastIndex(Push(L, e)) = LastIndex(L) + 1
           /\ \A k \in 1 .. LastIndex(L) : WholeOf(Push(L, e), h)[k] = WholeOf(L, h)[k]
           /\ WholeOf(Push(L, e), h)[LastIndex(L) + 1] = e
           /\ \A k \in L.base + 1 .. LastIndex(L) : EntryAt(Push(L, e), k) = EntryAt(L, k)
<1> DEFINE R == Push(L, e)
           b == L.base
           N == Len(L.entries)
<1>1. /\ b \in Nat /\ L.entries \in Seq(Entry) /\ N \in Nat
      /\ LastIndex(L) = b + N /\ LastIndex(L) \in Nat
      /\ b <= c /\ c = Len(h) /\ c <= LastIndex(L)
  BY LogFacts DEF Stored
<1>2. R.base = b /\ R.term = L.term /\ R.entries = Append(L.entries, e)
  BY DEF Push, Log, LogOf
<1>3. /\ Len(R.entries) = N + 1 /\ R.entries[N + 1] = e
      /\ \A x \in 1 .. N : R.entries[x] = L.entries[x]
  BY <1>1, <1>2
<1>4. R \in Log
  BY PushType DEF Log
<1> HIDE DEF R, b, N
<1>5. LastIndex(R) = LastIndex(L) + 1
  BY <1>1, <1>2, <1>3 DEF LastIndex
<1>6. ASSUME NEW k \in b + 1 .. LastIndex(L) PROVE EntryAt(R, k) = EntryAt(L, k)
  <2>1. k - b \in 1 .. N
    BY <1>1
  <2>2. EntryAt(R, k) = R.entries[k - b]
    BY <1>2 DEF EntryAt
  <2>3. EntryAt(L, k) = L.entries[k - b]
    BY DEF EntryAt, b
  <2> QED
    BY <1>3, <2>1, <2>2, <2>3
<1>7. EntryAt(R, LastIndex(L) + 1) = e
  <2>1. (LastIndex(L) + 1) - b = N + 1
    BY <1>1
  <2>2. EntryAt(R, LastIndex(L) + 1) = R.entries[(LastIndex(L) + 1) - R.base]
    BY DEF EntryAt
  <2> QED
    BY <1>2, <1>3, <2>1, <2>2
<1>8. Stored(R, h, c)
  <2>1. \A k \in b + 1 .. c : k \in b + 1 .. LastIndex(L)
    BY <1>1
  <2>2. \A k \in b + 1 .. c : h[k] = EntryAt(R, k)
    BY <1>6, <2>1 DEF Stored, b
  <2>3. c <= LastIndex(R) /\ b <= c /\ c = Len(h)
    BY <1>1, <1>5
  <2>4. R.term = TermOf(h, R.base)
    BY <1>2 DEF Stored, b
  <2> QED
    BY <1>2, <2>2, <2>3, <2>4 DEF Stored
<1>9. ASSUME NEW k \in 1 .. LastIndex(L) PROVE WholeOf(R, h)[k] = WholeOf(L, h)[k]
  <2>1. CASE k <= b
    <3>1. k \in 1 .. c
      BY <1>1, <2>1
    <3> QED
      BY <1>4, <1>8, <3>1, WholeShape
  <2>2. CASE ~(k <= b)
    <3>1. k \in b + 1 .. LastIndex(L) /\ k \in R.base + 1 .. LastIndex(R)
      BY <1>1, <1>2, <1>5, <2>2
    <3>2. WholeOf(L, h)[k] = EntryAt(L, k)
      BY <3>1, WholeShape DEF b
    <3>3. WholeOf(R, h)[k] = EntryAt(R, k)
      BY <1>4, <1>8, <3>1, WholeShape
    <3> QED
      BY <1>6, <3>1, <3>2, <3>3
  <2> QED
    BY <2>1, <2>2
<1>10. WholeOf(R, h)[LastIndex(L) + 1] = e
  <2>1. LastIndex(L) + 1 \in R.base + 1 .. LastIndex(R)
    BY <1>1, <1>2, <1>5
  <2>2. WholeOf(R, h)[LastIndex(L) + 1] = EntryAt(R, LastIndex(L) + 1)
    BY <1>4, <1>8, <2>1, WholeShape
  <2> QED
    BY <1>7, <2>2
<1> QED
  BY <1>2, <1>4, <1>5, <1>6, <1>8, <1>9, <1>10 DEF R, b

\* Entry g of N, the first that is new, after index p of a log that ends at l.
LEMMA JoinPlaces ==
    ASSUME NEW p \in Nat, NEW N \in Nat, NEW g \in Int, 1 <= g, g <= N, NEW n, n = N - g + 1,
           NEW q, q = p + N, NEW b \in Int, NEW l \in Int, p + g > b, p + g - 1 <= l
    PROVE  /\ p + g \in Nat /\ p + g \in p + 1 .. q /\ p + g \in p + 1 .. q + 1
           /\ (p + g) - 1 <= l /\ b < p + g
           /\ p + g <= q /\ p + g # q + 1 /\ p + g - 1 + n = q /\ (p + g) - p = g
OBVIOUS

LEMMA AppendWhole ==
    ASSUME NEW L \in Log, NEW h \in Seq(Entry), NEW c \in Nat, Stored(L, h, c),
           NEW m \in Message, IsAppend(m), PrevMatches(m, L), MsgLast(m) <= L.base + LogCapacity
    PROVE  \E f \in Nat : AppendsAt(L, h, m, f)
<1> DEFINE R == Appended(L, m)
           W == WholeOf(L, h)
           V == WholeOf(R, h)
           p == m.prevIndex
           es == m.entries
           q == MsgLast(m)
           b == L.base
<1>1. /\ p \in Nat /\ es \in Seq(Entry) /\ Len(es) \in Nat /\ q = p + Len(es) /\ q \in Nat
      /\ m.prevTerm \in Nat
  BY MessageFields DEF IsAppend, MsgLast
<1>2. /\ b \in Nat /\ LastIndex(L) \in Nat /\ b <= LastIndex(L) /\ b <= Len(h)
      /\ W \in Seq(Entry) /\ Len(W) = LastIndex(L)
      /\ \A k \in b + 1 .. LastIndex(L) : W[k] = EntryAt(L, k)
      /\ \A k \in 1 .. b : W[k] = h[k]
  BY WholeEntries DEF Stored
<1>3. p <= LastIndex(L) /\ (p < b \/ TermAt(L, p) = m.prevTerm)
  BY DEF PrevMatches
<1>4. R \in Log
  BY <1>1, <1>3, AppendFromType, EntryTerm DEF Appended, Log
<1>5. b <= p => TermOf(W, p) = m.prevTerm
  <2>1. b <= p => TermAt(L, p) = TermOf(W, p)
    BY <1>1, <1>3, WholeTerm
  <2> QED
    BY <1>1, <1>2, <1>3, <2>1
<1>6. \A y \in p + 1 .. q : y - p \in 1 .. Len(es) /\ MsgTerm(m, y) = es[y - p].term /\ y # p
  BY <1>1 DEF MsgTerm
\* An index of the message without a new entry.
<1>7. ASSUME NEW y \in p + 1 .. q, y - p \notin NewEntries(L, p, es), b < y
      PROVE  y <= LastIndex(L) /\ W[y].term = MsgTerm(m, y)
  <2>1. y - p \in 1 .. Len(es) /\ p + (y - p) = y /\ y \in Nat /\ y # 0
    BY <1>1, <1>6
  <2>2. TermAt(L, y) = es[y - p].term
    BY <1>7, <2>1 DEF NewEntries
  <2>3. es[y - p].term \in Nat
    BY <1>1, <2>1, EntryTerm
  <2>4. TermAt(L, y) # NoTerm
    BY <2>2, <2>3 DEF NoTerm
  <2>5. y <= LastIndex(L)
    BY <2>1, <2>4, TermAtType, EntryTerm DEF Log
  <2>6. TermAt(L, y) = TermOf(W, y)
    <3>1. b <= y
      BY <1>2, <1>7, <2>1
    <3> QED
      BY <2>1, <2>5, <3>1, WholeTerm
  <2> QED
    BY <1>6, <2>1, <2>2, <2>5, <2>6 DEF TermOf
<1>8. CASE NewEntries(L, p, es) = {}
  <2>1. R = L
    BY <1>8 DEF Appended, AppendFrom
  <2>2. q <= LastIndex(L)
    <3>1. CASE q = p
      BY <1>3, <3>1
    <3>2. CASE q # p /\ b < q
      <4>1. q \in p + 1 .. q
        BY <1>1, <3>2
      <4> QED
        BY <1>7, <1>8, <3>2, <4>1
    <3>3. CASE ~(b < q)
      BY <1>1, <1>2, <3>3
    <3> QED
      BY <3>1, <3>2, <3>3
  <2>3. \A y \in p + 1 .. q : b < y => W[y].term = MsgTerm(m, y)
    BY <1>7, <1>8
  <2>4. q + 1 \in p + 1 .. q + 1 /\ ~(q + 1 <= q) /\ q + 1 - 1 = q
    BY <1>1
  <2> DEFINE f == q + 1
  <2>5. Joins(W, V, m, b, f)
    <3>1. V = W /\ f = q + 1 /\ f - 1 = q /\ ~(f <= q) /\ f \in p + 1 .. q + 1
      BY <1>1, <2>1
    <3> HIDE DEF V, W, R, b, f
    <3> QED
      BY <1>2, <1>5, <2>2, <2>3, <3>1 DEF Joins
  <2>6. AppendsAt(L, h, m, f)
    <3>1. f = q + 1 /\ ~(f <= q) /\ f - 1 = q
      BY <1>1
    <3> HIDE DEF f
    <3> QED
      BY <1>4, <2>1, <2>2, <2>4, <2>5, <3>1 DEF AppendsAt
  <2> QED
    BY <1>1, <2>6
<1>9. CASE NewEntries(L, p, es) # {}
  <2>0. PICK g \in 1 .. Len(es), n \in Nat : Joined(L, p, es, R, g, n)
    BY <1>1, <1>3, <1>9, AppendFromShape DEF Appended
  <2> DEFINE f == p + g
  <2>1. /\ p + g > L.base /\ p + g - 1 <= LastIndex(L)
        /\ g \in NewEntries(L, p, es) /\ \A x \in NewEntries(L, p, es) : g <= x
        /\ R.base = L.base /\ R.term = L.term /\ LastIndex(R) = p + g - 1 + n
        /\ \A k \in L.base + 1 .. p + g - 1 : EntryAt(R, k) = EntryAt(L, k)
        /\ \A k \in p + g .. p + g - 1 + n : EntryAt(R, k) = es[k - p]
    BY <2>0 DEF Joined
  <2>2. n = Len(es) - g + 1
    <3>1. p + Len(es) <= L.base + LogCapacity
      BY DEF MsgLast
    <3> QED
      BY <2>0, <3>1 DEF Joined
  <2>3. /\ f \in Nat /\ f \in p + 1 .. q /\ f \in p + 1 .. q + 1 /\ f - 1 <= LastIndex(L) /\ b < f
        /\ f <= q /\ f # q + 1 /\ p + g - 1 + n = q /\ f - p = g
    <3> DEFINE N == Len(es)
    <3>1. /\ g \in Int /\ 1 <= g /\ g <= N /\ N \in Nat /\ q = p + N /\ n = N - g + 1 /\ p \in Nat
          /\ p + g > b /\ p + g - 1 <= LastIndex(L)
      BY <1>1, <2>1, <2>2
    <3>2. LastIndex(L) \in Int /\ b \in Int
      BY <1>2
    <3> HIDE DEF N, q, p, b
    <3> QED
      BY <3>1, <3>2, JoinPlaces
  <2>4. LastIndex(R) = q
    BY <2>1, <2>3
  <2>5. ASSUME NEW y \in p + 1 .. f - 1, b < y PROVE W[y].term = MsgTerm(m, y)
    <3>1. y \in p + 1 .. q /\ y - p < g /\ y - p \in Int
      <4> HIDE DEF q, p, b
      <4> QED
        BY <1>1, <2>3
    <3>2. y - p \notin NewEntries(L, p, es)
      <4> SUFFICES ASSUME y - p \in NewEntries(L, p, es) PROVE FALSE
        OBVIOUS
      <4>1. g <= y - p
        BY <2>1
      <4> QED
        BY <3>1, <4>1
    <3> QED
      BY <1>7, <2>5, <3>1, <3>2
  <2>6. f <= Len(W) => W[f].term # MsgTerm(m, f)
    <3>1. TermAt(L, f) # es[g].term
      BY <2>1 DEF NewEntries
    <3>2. MsgTerm(m, f) = es[g].term
      BY <1>6, <2>3
    <3>3. f <= LastIndex(L) => TermAt(L, f) = TermOf(W, f)
      <4>1. b <= f
        BY <1>2, <2>3
      <4> QED
        BY <2>3, <4>1, WholeTerm
    <3>4. f # 0
      BY <1>1, <2>3
    <3> QED
      BY <1>2, <3>1, <3>2, <3>3, <3>4 DEF TermOf
  <2>7. /\ V \in Seq(Entry) /\ Len(V) = q
        /\ \A k \in b + 1 .. q : V[k] = EntryAt(R, k)
        /\ \A k \in 1 .. b : V[k] = h[k]
    <3>1. R.base <= Len(h)
      BY <1>2, <2>1
    <3> HIDE DEF R
    <3>2. /\ V \in Seq(Entry) /\ Len(V) = LastIndex(R)
          /\ \A k \in R.base + 1 .. LastIndex(R) : V[k] = EntryAt(R, k)
          /\ \A k \in 1 .. R.base : V[k] = h[k]
      BY <1>4, <3>1, WholeEntries
    <3> QED
      BY <2>1, <2>4, <3>2
  <2>11. \A k \in b + 1 .. f - 1 : EntryAt(R, k) = EntryAt(L, k)
    <3>1. p + g - 1 = f - 1
      BY <1>1, <2>3
    <3> HIDE DEF R, f
    <3> QED
      BY <2>1, <3>1
  <2>8. ASSUME NEW k \in 1 .. f - 1 PROVE V[k] = W[k]
    <3>1. CASE k <= b
      BY <1>2, <2>7, <3>1
    <3>2. CASE ~(k <= b)
      <4>1. k \in b + 1 .. f - 1 /\ k \in b + 1 .. q /\ k \in b + 1 .. LastIndex(L)
        <5> HIDE DEF q, p, b, f
        <5> QED
          BY <1>1, <1>2, <2>3, <3>2
      <4>2. EntryAt(R, k) = EntryAt(L, k)
        BY <2>11, <4>1
      <4> HIDE DEF V, W, R
      <4> QED
        BY <1>2, <2>7, <4>1, <4>2
    <3> QED
      BY <3>1, <3>2
  <2>9. ASSUME NEW k \in f .. q PROVE V[k] = es[k - p]
    <3>1. k \in b + 1 .. q /\ k \in p + g .. p + g - 1 + n
      <4> HIDE DEF q, p, b
      <4> QED
        BY <1>1, <1>2, <2>3
    <3>2. EntryAt(R, k) = es[k - p]
      BY <2>1, <3>1
    <3> HIDE DEF V, R
    <3> QED
      BY <2>7, <3>1, <3>2
  <2>10. Joins(W, V, m, b, f)
    <3> HIDE DEF V, W, R, f, b
    <3> QED
      BY <1>2, <1>5, <2>3, <2>5, <2>6, <2>7, <2>8, <2>9 DEF Joins
  <2>12. AppendsAt(L, h, m, f)
    <3> HIDE DEF f
    <3> QED
      BY <1>4, <2>1, <2>3, <2>4, <2>10, <2>11 DEF AppendsAt
  <2> QED
    BY <2>3, <2>12
<1> QED
  BY <1>8, <1>9

\* Where nothing committed is cut, the store survives the append loop.
LEMMA AppendStored ==
    ASSUME NEW L \in Log, NEW h \in Seq(Entry), NEW c \in Nat, Stored(L, h, c),
           NEW m \in Message, IsAppend(m), NEW f \in Nat, AppendsAt(L, h, m, f),
           f <= MsgLast(m) => c < f
    PROVE  /\ Appended(L, m) \in Log /\ Stored(Appended(L, m), h, c)
           /\ Appended(L, m).base = L.base /\ MsgLast(m) <= LastIndex(Appended(L, m))
<1> DEFINE R == Appended(L, m)
           q == MsgLast(m)
           b == L.base
<1>1. /\ q \in Nat /\ m.prevIndex \in Nat
  BY MessageFields DEF IsAppend, MsgLast
<1>2. /\ b \in Nat /\ LastIndex(L) \in Nat /\ b <= c /\ c = Len(h) /\ c <= LastIndex(L)
  BY LogFacts DEF Stored
<1>3. /\ R \in Log /\ R.base = b /\ R.term = L.term
      /\ f \in m.prevIndex + 1 .. q + 1 /\ f - 1 <= LastIndex(L)
      /\ f = q + 1 => R = L
      /\ f <= q =>
            /\ LastIndex(R) = q /\ b < f
            /\ \A k \in b + 1 .. f - 1 : EntryAt(R, k) = EntryAt(L, k)
  BY DEF AppendsAt
<1> HIDE DEF R, q
<1>4. CASE f = q + 1
  <2>1. R = L /\ q <= LastIndex(L)
    BY <1>1, <1>2, <1>3, <1>4
  <2> QED
    BY <2>1 DEF R, q
<1>5. CASE f <= q
  <2>1. c < f
    BY <1>5 DEF q
  <2>2. ASSUME NEW k \in b + 1 .. c PROVE h[k] = EntryAt(R, k)
    <3>1. k \in b + 1 .. f - 1
      BY <1>2, <2>1
    <3>2. EntryAt(R, k) = EntryAt(L, k)
      BY <1>3, <1>5, <3>1
    <3> QED
      BY <3>2 DEF Stored
  <2>3. R.term = TermOf(h, b)
    BY <1>3 DEF Stored
  <2>4. c <= LastIndex(R) /\ q <= LastIndex(R)
    BY <1>1, <1>2, <1>3, <1>5, <2>1
  <2>5. Stored(R, h, c)
    <3> HIDE DEF b
    <3> QED
      BY <1>2, <1>3, <2>2, <2>3, <2>4 DEF Stored
  <2> QED
    BY <1>3, <2>4, <2>5 DEF R, q
<1>6. f = q + 1 \/ f <= q
  BY <1>1, <1>3
<1> QED
  BY <1>4, <1>5, <1>6

LEMMA SentWhole ==
    ASSUME NEW L \in Log, NEW h \in Seq(Entry), NEW c \in Nat, Stored(L, h, c),
           NEW i, NEW j, NEW nx \in Nat \ {0}, NEW d, NEW sn, NEW off,
           NEW m \in AppendEntriesTo(i, j, nx, L, d, sn, off), IsAppend(m)
    PROVE  /\ m.from = i /\ m.term = currentTerm[i] /\ m.commit = d
           /\ Quotes(m, WholeOf(L, h))
<1> DEFINE p == nx - 1
           b == L.base
           N == Len(L.entries)
           W == WholeOf(L, h)
           lo == Max({p, b}) - b + 1
           hi == Min({p + MaxAppendEntries, LastIndex(L)}) - b
           es == SubSeq(L.entries, lo, hi)
<1>1. ~(p < b \/ TermAt(L, p) = NoTerm)
  BY DEF AppendEntriesTo, InstallSnapshotTo, IsAppend
<1>2. /\ m.from = i /\ m.term = currentTerm[i] /\ m.commit = d
      /\ m.prevIndex = p /\ m.prevTerm = TermAt(L, p) /\ m.entries = es
  <2>1. m = [type |-> "AppendEntries", term |-> currentTerm[i], from |-> i, to |-> j,
             prevIndex |-> p, prevTerm |-> TermAt(L, p), commit |-> d,
             entries |-> EntriesBetween(L, p, p + MaxAppendEntries)]
    BY <1>1 DEF AppendEntriesTo
  <2>2. EntriesBetween(L, p, p + MaxAppendEntries) = es
    BY DEF EntriesBetween
  <2> HIDE DEF p, es
  <2> QED
    BY <2>1, <2>2
<1>3. /\ b \in Nat /\ L.entries \in Seq(Entry) /\ N \in Nat
      /\ LastIndex(L) = b + N /\ LastIndex(L) \in Nat /\ p \in Nat
  BY LogFacts
<1>4. b <= p /\ p <= LastIndex(L)
  <2>1. TermAt(L, p) # NoTerm
    BY <1>1
  <2>2. p <= LastIndex(L)
    BY <1>3, <2>1, TermAtType, EntryTerm DEF Log
  <2> QED
    BY <1>1, <1>3, <2>2
<1>5. TermAt(L, p) = TermOf(W, p)
  BY <1>3, <1>4, WholeTerm
<1>6. /\ W \in Seq(Entry) /\ Len(W) = LastIndex(L)
      /\ \A k \in b + 1 .. LastIndex(L) : W[k] = EntryAt(L, k)
  BY WholeShape
<1>7. PICK x \in Nat : x = hi /\ x <= N /\ p - b <= x
  <2>1. MaxAppendEntries \in Nat
    BY ConfigAssumption
  <2>2. Min({p + MaxAppendEntries, LastIndex(L)}) =
           IF p + MaxAppendEntries =< LastIndex(L) THEN p + MaxAppendEntries ELSE LastIndex(L)
    <3>1. p + MaxAppendEntries \in Int /\ LastIndex(L) \in Int
      BY <1>3, <2>1
    <3> QED
      BY <3>1, MinPair
  <2> HIDE DEF b, N, p
  <2>3. hi \in Nat /\ hi <= N /\ p - b <= hi
    BY <1>3, <1>4, <2>1, <2>2
  <2> QED
    BY <2>3
<1>8. lo = p - b + 1 /\ p - b \in Nat
  <2>1. Max({p, b}) = p
    <3>1. p \in Int /\ b \in Int /\ p >= b
      BY <1>3, <1>4
    <3> HIDE DEF p, b
    <3> QED
      BY <3>1, MaxPair
  <2> HIDE DEF p, b
  <2> QED
    BY <1>3, <1>4, <2>1
<1> DEFINE y == p - b
<1>9. /\ es \in Seq(Entry) /\ Len(es) = x - y
      /\ \A k \in 1 .. x - y : es[k] = L.entries[y + k]
  <2>1. es = SubSeq(L.entries, y + 1, x)
    BY <1>7, <1>8
  <2>2. y + 1 \in Nat \ {0} /\ y + 1 <= x + 1 /\ y \in Nat
    BY <1>7, <1>8
  <2> HIDE DEF y
  <2>3. /\ SubSeq(L.entries, y + 1, x) \in Seq(Entry)
        /\ Len(SubSeq(L.entries, y + 1, x)) = x - (y + 1) + 1
        /\ \A k \in 1 .. x - (y + 1) + 1 :
              SubSeq(L.entries, y + 1, x)[k] = L.entries[(y + 1) + k - 1]
    BY <1>3, <1>7, <2>2, PartFacts
  <2>4. x - (y + 1) + 1 = x - y /\ \A k \in 1 .. x - y : (y + 1) + k - 1 = y + k
    BY <1>7, <2>2
  <2> HIDE DEF es
  <2> QED
    BY <2>1, <2>3, <2>4
<1> HIDE DEF es, W
<1>10. MsgLast(m) <= Len(W)
  <2>1. MsgLast(m) = p + (x - (p - b))
    BY <1>2, <1>9 DEF MsgLast
  <2> HIDE DEF p, b, N
  <2> QED
    BY <1>3, <1>6, <1>7, <2>1
<1>11. ASSUME NEW k \in 1 .. Len(m.entries) PROVE m.entries[k] = W[m.prevIndex + k]
  <2>1. k \in 1 .. x - y /\ k \in Nat
    BY <1>2, <1>9
  <2>2. m.entries[k] = L.entries[y + k]
    BY <1>2, <1>9, <2>1
  <2>3. p + k \in b + 1 .. LastIndex(L) /\ (p + k) - b = y + k
    <3>1. 1 <= k /\ k <= x - (p - b)
      BY <1>3, <1>7, <1>8, <2>1
    <3> HIDE DEF p, b, N
    <3> QED
      BY <1>3, <1>4, <1>7, <2>1, <3>1
  <2>4. W[p + k] = EntryAt(L, p + k)
    <3> HIDE DEF p, b
    <3> QED
      BY <1>6, <2>3
  <2>5. EntryAt(L, p + k) = L.entries[(p + k) - b]
    BY DEF EntryAt
  <2> HIDE DEF p, b
  <2> QED
    BY <1>2, <2>2, <2>3, <2>4, <2>5
<1> HIDE DEF p
<1> QED
  BY <1>2, <1>5, <1>10, <1>11 DEF Quotes, W

-----------------------------------------------------------------------------
(* The view of a state.                                                    *)

LEMMA ViewFields ==
    /\ View.term = currentTerm /\ View.role = role /\ View.commit = commitIndex
    /\ View.match = matchIndex /\ View.msgs = messages /\ View.ballots = ballots
    /\ View.elected = elected /\ View.acks = acks
    /\ \A i \in Server : View.log[i] = WholeOf(log[i], applied[i])
BY DEF View, Whole

LEMMA NextFields ==
    /\ View'.term = currentTerm' /\ View'.role = role' /\ View'.commit = commitIndex'
    /\ View'.match = matchIndex' /\ View'.msgs = messages' /\ View'.ballots = ballots'
    /\ View'.elected = elected' /\ View'.acks = acks'
    /\ \A i \in Server : View'.log[i] = WholeOf(log'[i], applied'[i])
BY DEF View, Whole

LEMMA StoreType ==
    ASSUME TypeOK, StoreOK, NEW i \in Server
    PROVE  /\ log[i] \in Log /\ applied[i] \in Seq(Entry) /\ commitIndex[i] \in Nat
           /\ Stored(log[i], applied[i], commitIndex[i]) /\ lastApplied[i] = commitIndex[i]
BY DEF TypeOK, LogTypeOK, StoreOK

LEMMA StoreTypeNext ==
    ASSUME TypeOK', StoreOK', NEW i \in Server
    PROVE  /\ log'[i] \in Log /\ applied'[i] \in Seq(Entry) /\ commitIndex'[i] \in Nat
           /\ Stored(log'[i], applied'[i], commitIndex'[i]) /\ lastApplied'[i] = commitIndex'[i]
BY DEF TypeOK, LogTypeOK, StoreOK

LEMMA ViewShape ==
    ASSUME TypeOK, StoreOK
    PROVE  Shape(View)
<1>1. \A i \in Server : WholeOf(log[i], applied[i]) \in Seq(Entry)
  BY StoreType, WholeShape
<1>2. View.log \in [Server -> Seq(Entry)]
  BY <1>1 DEF View, Whole
<1> QED
  BY <1>2, ViewFields DEF Shape, TypeOK, VoteTypeOK, LogTypeOK, PeerTypeOK, HistoryTypeOK

LEMMA NextShape ==
    ASSUME TypeOK', StoreOK'
    PROVE  Shape(View')
<1>1. \A i \in Server : WholeOf(log'[i], applied'[i]) \in Seq(Entry)
  BY StoreTypeNext, WholeShape
<1>2. View'.log \in [Server -> Seq(Entry)]
  BY <1>1 DEF View, Whole
<1> QED
  BY <1>2, NextFields DEF Shape, TypeOK, VoteTypeOK, LogTypeOK, PeerTypeOK, HistoryTypeOK

LEMMA NextVotes ==
    ASSUME ElectionInv', ElectionSafety'
    PROVE  VotesBind(View')
BY NextFields DEF VotesBind, ElectionInv, ElectionSafety, BallotsBind, ElectedByMajority

LEMMA NextReaches ==
    ASSUME Steady'
    PROVE  ReachesTerm(View')
BY NextFields DEF ReachesTerm, Steady

-----------------------------------------------------------------------------
(* Steps of the specification as steps between views.                      *)

LEMMA ViewFollows ==
    ASSUME Steps, StoreOK', elected \subseteq elected', acks \subseteq acks', ballots \subseteq ballots',
           \A e \in elected' : e \in elected \/ currentTerm[e.leader] <= e.term,
           \A a \in acks' : a \in acks \/ currentTerm[a.node] <= a.term,
           \A m \in messages' : IsAppend(m) => m \in messages \/ SentBy(View', m)
    PROVE  Follows(View, View')
<1>1. Shape(View) /\ Shape(View')
  BY ViewShape, NextShape DEF Steps, CommitInv
<1>2. VotesBind(View') /\ ReachesTerm(View') /\ Sound(View)
  BY NextVotes, NextReaches DEF Steps, CommitInv
<1>3. \A i \in Server : View.term[i] <= View'.term[i]
  <2>1. \A i \in Server : currentTerm[i] \in Nat /\ currentTerm'[i] \in Nat
    BY DEF Steps, TypeOK, VoteTypeOK
  <2>2. \A i \in Server : currentTerm'[i] >= currentTerm[i]
    BY DEF Steps, VoteKept
  <2> QED
    BY <2>1, <2>2, ViewFields, NextFields
<1>4. Onward(View, View')
  BY <1>1, <1>3, ViewFields, NextFields DEF Onward
<1> QED
  BY <1>2, <1>4 DEF Follows

LEMMA StillStep ==
    ASSUME Steps, StoreOK', OwnMatch', SameWhole, elected' = elected, acks' = acks,
           MessagesTold, RolesStill, BallotsStill, MatchStill, CommitStill
    PROVE  Safely
<1>1. Follows(View, View')
  <2>1. \A m \in messages' : IsAppend(m) => m \in messages \/ SentBy(View', m)
    BY DEF MessagesTold, Told, Passive, IsAppend
  <2>2. ballots \subseteq ballots'
    BY DEF BallotsStill
  <2> QED
    BY <2>1, <2>2, ViewFollows
<1>2. View'.log = View.log
  BY DEF View, Whole, SameWhole
<1>3. \A m \in View'.msgs :
          /\ m.type = "RequestVote" /\ ~m.preVote => m \in View.msgs \/ AsksTruly(View', m)
          /\ m.type = "AppendEntriesResp" /\ m.success => m \in View.msgs
  BY ViewFields, NextFields DEF MessagesTold, Told, Passive, IsAppend
<1>4. \A b \in View'.ballots :
          b \in View.ballots \/ OwnVote(View, View', b) \/ \E m \in View.msgs : GivenFor(View, b, m)
  BY ViewFields, NextFields DEF BallotsStill
<1>5. \A i, j \in Server :
          View'.role[i] = "LEADER" /\ i # j =>
              \/ View'.match[i][j] = View.match[i][j]
              \/ [node |-> j, term |-> View'.term[i], index |-> View'.match[i][j]] \in View.acks
  BY ViewFields, NextFields DEF MatchStill
<1>6. \A i \in Server : View'.commit[i] = View.commit[i] \/ CommitsAt(View, View', i)
  BY ViewFields, NextFields DEF CommitStill
<1>7. \A i \in Server :
          /\ View'.role[i] = "LEADER" => View.role[i] = "LEADER" /\ View'.term[i] = View.term[i]
          /\ View'.role[i] = "CANDIDATE" =>
                (View.role[i] = "CANDIDATE" /\ View'.term[i] = View.term[i])
                    \/ View.term[i] < View'.term[i]
  BY ViewFields, NextFields DEF RolesStill
<1>8. Still(View, View')
  <2>1. View'.elected = View.elected /\ View'.acks = View.acks
    BY ViewFields, NextFields
  <2> QED
    BY <1>2, <1>3, <1>4, <1>5, <1>6, <1>7, <2>1 DEF Still
<1>9. Sound(View') /\ KeepsChosen(View, View')
  BY <1>1, <1>8, StillSound
<1>10. NoAnswers'
  BY DEF MessagesTold, Told, Passive, IsAppend, NoAnswers, Steps, CommitInv
<1> QED
  BY <1>9, <1>10 DEF CommitInv, Safely, SameWhole

\* apply_committed, on the whole log of its node.
LEMMA ApplyStep ==
    ASSUME TypeOK, NEW i \in Server, NEW L \in Log, Stored(L, applied[i], commitIndex[i]),
           lastApplied[i] = commitIndex[i], NEW c \in Nat, commitIndex[i] <= c, c <= LastIndex(L),
           Commit(i, L, c)
    PROVE  /\ Kept(L, applied[i], commitIndex[i], log'[i], applied'[i], c)
           /\ commitIndex'[i] = c /\ lastApplied'[i] = c
           /\ \A j \in Server \ {i} :
                 /\ log'[j] = log[j] /\ applied'[j] = applied[j]
                 /\ commitIndex'[j] = commitIndex[j] /\ lastApplied'[j] = lastApplied[j]
<1> DEFINE a == commitIndex[i]
<1>1. /\ applied[i] \in Seq(Entry) /\ a \in Nat /\ log \in [Server -> Log]
      /\ applied \in [Server -> Seq(Entry)] /\ commitIndex \in [Server -> Nat]
      /\ lastApplied \in [Server -> Nat]
  BY DEF TypeOK, LogTypeOK
<1>2. Kept(L, applied[i], a, Trimmed(L, c), Grown(L, applied[i], a, c), c)
  BY <1>1, CommitWhole
<1>3. PICK la2, h2 : /\ la2 = Max({a, c}) /\ h2 = Grown(L, applied[i], a, c)
                     /\ commitIndex' = [commitIndex EXCEPT ![i] = c]
                     /\ lastApplied' = [lastApplied EXCEPT ![i] = la2]
                     /\ applied' = [applied EXCEPT ![i] = h2]
                     /\ log' = [log EXCEPT ![i] = IF Compacts(L, la2)
                                                  THEN CompactTo(L, la2, TermAt(L, la2)) ELSE L]
  BY DEF Commit, ApplyCommitted, Grown
<1>4. la2 = c
  <2>1. a \in Int /\ c \in Int /\ (a >= c => a = c)
    BY <1>1
  <2> QED
    BY <1>3, <2>1, MaxPair
<1>5. log' = [log EXCEPT ![i] = Trimmed(L, c)]
  BY <1>3, <1>4 DEF Trimmed, Compacted
<1> QED
  BY <1>1, <1>2, <1>3, <1>4, <1>5

\* The store after apply_committed.
LEMMA CommitStep ==
    ASSUME TypeOK, StoreOK, NEW i \in Server, NEW c \in Nat, commitIndex[i] <= c,
           c <= LastIndex(log[i]), Commit(i, log[i], c)
    PROVE  /\ StoreOK' /\ SameWhole /\ commitIndex'[i] = c
           /\ \A j \in Server : LastIndex(log'[j]) = LastIndex(log[j])
           /\ \A j \in Server \ {i} : commitIndex'[j] = commitIndex[j]
<1>1. /\ log[i] \in Log /\ Stored(log[i], applied[i], commitIndex[i])
      /\ lastApplied[i] = commitIndex[i]
  BY StoreType
<1>2. /\ Kept(log[i], applied[i], commitIndex[i], log'[i], applied'[i], c)
      /\ commitIndex'[i] = c /\ lastApplied'[i] = c
      /\ \A j \in Server \ {i} :
            /\ log'[j] = log[j] /\ applied'[j] = applied[j]
            /\ commitIndex'[j] = commitIndex[j] /\ lastApplied'[j] = lastApplied[j]
  BY <1>1, ApplyStep
<1>3. /\ Stored(log'[i], applied'[i], c) /\ LastIndex(log'[i]) = LastIndex(log[i])
      /\ WholeOf(log'[i], applied'[i]) = WholeOf(log[i], applied[i])
  BY <1>2 DEF Kept
<1>4. StoreOK'
  BY <1>2, <1>3 DEF StoreOK
<1>5. Forward
  <2>1. \A j \in Server : log[j].base \in Nat /\ commitIndex[j] \in Nat
    BY LogFacts DEF TypeOK, LogTypeOK
  <2>2. log[i].base <= log'[i].base /\ log'[i].base \in Nat
    BY <1>2, LogFacts DEF Kept
  <2>3. log'[i].base >= log[i].base /\ commitIndex'[i] >= commitIndex[i]
    BY <1>2, <2>1, <2>2
  <2>4. \A j \in Server \ {i} : log'[j].base >= log[j].base /\ commitIndex'[j] >= commitIndex[j]
    BY <1>2, <2>1
  <2> QED
    BY <2>3, <2>4 DEF Forward
<1>6. SameWhole
  BY <1>2, <1>3, <1>5 DEF SameWhole
<1> QED
  BY <1>2, <1>3, <1>4, <1>6

\* What a leader sends out of its log as the step leaves it.
LEMMA SentTold ==
    ASSUME NEW i \in Server, NEW L \in Log, NEW h \in Seq(Entry), NEW c \in Nat, Stored(L, h, c),
           WholeOf(L, h) = WholeOf(log'[i], applied'[i]),
           role'[i] = "LEADER", currentTerm'[i] = currentTerm[i],
           NEW j, NEW nx \in Nat \ {0}, NEW sn, NEW off,
           NEW m \in AppendEntriesTo(i, j, nx, L, commitIndex'[i], sn, off)
    PROVE  Told(m)
<1>1. CASE IsAppend(m)
  <2>1. /\ m.from = i /\ m.term = currentTerm[i] /\ m.commit = commitIndex'[i]
        /\ Quotes(m, WholeOf(L, h))
    BY <1>1, SentWhole
  <2>2. Quotes(m, View'.log[i])
    BY <2>1, NextFields
  <2>3. SentBy(View', m)
    BY <2>1, <2>2, NextFields DEF SentBy, Quotes
  <2> QED
    BY <1>1, <2>3 DEF Told
<1>2. CASE ~IsAppend(m)
  <2>1. m.type = "InstallSnapshot"
    BY <1>2 DEF AppendEntriesTo, InstallSnapshotTo, IsAppend
  <2> QED
    BY <1>2, <2>1 DEF Told, Passive
<1> QED
  BY <1>1, <1>2

LEMMA PeersTold ==
    ASSUME TypeOK, NEW i \in Server, NEW L \in Log, NEW h \in Seq(Entry), NEW c \in Nat,
           Stored(L, h, c), WholeOf(L, h) = WholeOf(log'[i], applied'[i]),
           role'[i] = "LEADER", currentTerm'[i] = currentTerm[i], commitIndex'[i] = commitIndex[i],
           NEW m \in AppendEntriesToPeers(i, L)
    PROVE  Told(m)
<1>1. PICK j \in Peers(i) :
         m \in AppendEntriesTo(i, j, nextIndex[i][j], L, commitIndex'[i], snap[i], snapOffset[i][j])
  BY DEF AppendEntriesToPeers
<1>2. j \in Server
  BY PeersType
<1>3. nextIndex[i][j] \in Nat \ {0}
  BY <1>2 DEF TypeOK, PeerTypeOK
<1> QED
  BY <1>1, <1>3, SentTold

LEMMA PassiveTold ==
    /\ \A i, t : \A m \in RequestVoteFrom(i, t, TRUE) : Told(m)
    /\ \A r, g, pre, t : \A m \in VoteReply(r, g, pre, t) : Told(m)
    /\ \A r, t, ci, ct, L : \A m \in AppendReply(r, t, FALSE, ci, ct, L) : Told(m)
<1>1. \A i, t : \A m \in RequestVoteFrom(i, t, TRUE) : Told(m)
  BY DEF RequestVoteFrom, Told, Passive, IsAppend
<1>2. \A r, g, pre, t : \A m \in VoteReply(r, g, pre, t) : Told(m)
  BY DEF VoteReply, Told, Passive, IsAppend
<1>3. \A r, t, ci, ct, L : \A m \in AppendReply(r, t, FALSE, ci, ct, L) : Told(m)
  BY DEF AppendReply, Told, Passive, IsAppend
<1> QED
  BY <1>1, <1>2, <1>3

LEMMA SendTold ==
    ASSUME NEW ms, Send(ms), \A m \in ms : Told(m)
    PROVE  MessagesTold
BY DEF Send, MessagesTold

\* Steps that commit nothing new.
LEMMA HeldStep ==
    ASSUME Steps, NEW i \in Server,
           Commit(i, log[i], commitIndex[i]) \/ UNCHANGED <<log, commitIndex, lastApplied, applied>>
    PROVE  /\ StoreOK' /\ SameWhole
           /\ \A j \in Server : LastIndex(log'[j]) = LastIndex(log[j])
           /\ \A j \in Server : commitIndex'[j] = commitIndex[j]
<1>0. TypeOK /\ StoreOK
  BY DEF Steps, CommitInv
<1>1. CASE Commit(i, log[i], commitIndex[i])
  <2>1. commitIndex[i] \in Nat /\ commitIndex[i] <= commitIndex[i] /\ commitIndex[i] <= LastIndex(log[i])
    BY <1>0, StoreType DEF Stored
  <2>2. /\ StoreOK' /\ SameWhole /\ commitIndex'[i] = commitIndex[i]
        /\ \A j \in Server : LastIndex(log'[j]) = LastIndex(log[j])
        /\ \A j \in Server \ {i} : commitIndex'[j] = commitIndex[j]
    BY <1>0, <1>1, <2>1, CommitStep
  <2> QED
    BY <2>2
<1>2. CASE UNCHANGED <<log, commitIndex, lastApplied, applied>>
  <2>1. log' = log /\ commitIndex' = commitIndex /\ lastApplied' = lastApplied /\ applied' = applied
    BY <1>2
  <2>2. \A j \in Server : log[j].base \in Nat /\ commitIndex[j] \in Nat
    BY <1>0, LogFacts DEF TypeOK, LogTypeOK
  <2>3. Forward
    BY <2>1, <2>2 DEF Forward
  <2> QED
    BY <1>0, <2>1, <2>3 DEF StoreOK, SameWhole
<1> QED
  BY <1>1, <1>2

\* Steps that leave terms, roles, votes, match indices and commit indices alone.
LEMMA QuietView ==
    ASSUME Steps, StoreOK', SameWhole, \A j \in Server : LastIndex(log'[j]) = LastIndex(log[j]),
           \A j \in Server : commitIndex'[j] = commitIndex[j],
           UNCHANGED <<currentTerm, role, matchIndex, ballots, elected, acks>>, MessagesTold
    PROVE  Safely
<1>0. /\ currentTerm' = currentTerm /\ role' = role /\ matchIndex' = matchIndex
      /\ ballots' = ballots /\ elected' = elected /\ acks' = acks
  OBVIOUS
<1>1. OwnMatch'
  BY <1>0 DEF OwnMatch, Steps, CommitInv
<1>2. RolesStill /\ BallotsStill /\ MatchStill /\ CommitStill
  BY <1>0 DEF RolesStill, BallotsStill, MatchStill, CommitStill
<1> QED
  BY <1>0, <1>1, <1>2, StillStep

\* periodic(), and the handlers that only answer or only send.
LEMMA DriverView ==
    ASSUME Steps, NEW i \in Server, Heartbeat(i) \/ ElectionTimeout(i) \/ Tick(i)
    PROVE  Safely
<1>0. TypeOK /\ StoreOK
  BY DEF Steps, CommitInv
<1>1. /\ Commit(i, log[i], commitIndex[i])
      /\ UNCHANGED <<currentTerm, role, matchIndex, ballots, elected, acks>>
  BY DEF Heartbeat, ElectionTimeout, Tick, voteVars, peerVars, history
<1>2. /\ StoreOK' /\ SameWhole /\ \A j \in Server : LastIndex(log'[j]) = LastIndex(log[j])
      /\ \A j \in Server : commitIndex'[j] = commitIndex[j]
  BY <1>1, HeldStep
<1>3. MessagesTold
  <2>1. CASE Heartbeat(i)
    <3>1. /\ role'[i] = "LEADER" /\ currentTerm'[i] = currentTerm[i]
          /\ Send(AppendEntriesToPeers(i, log[i]))
      BY <2>1 DEF Heartbeat, voteVars
    <3>2. /\ log[i] \in Log /\ applied[i] \in Seq(Entry) /\ commitIndex[i] \in Nat
          /\ Stored(log[i], applied[i], commitIndex[i])
      BY <1>0, StoreType
    <3>3. WholeOf(log[i], applied[i]) = WholeOf(log'[i], applied'[i])
      BY <1>2 DEF SameWhole
    <3>4. commitIndex'[i] = commitIndex[i]
      BY <1>2
    <3>5. \A m \in AppendEntriesToPeers(i, log[i]) : Told(m)
      BY <1>0, <3>1, <3>2, <3>3, <3>4, PeersTold
    <3> QED
      BY <3>1, <3>5, SendTold
  <2>2. CASE ElectionTimeout(i)
    <3>1. Send(RequestVoteFrom(i, currentTerm[i] + 1, TRUE))
      BY <2>2 DEF ElectionTimeout
    <3> QED
      BY <3>1, PassiveTold, SendTold
  <2>3. CASE Tick(i)
    BY <2>3 DEF Tick, MessagesTold
  <2> QED
    BY <2>1, <2>2, <2>3
<1> QED
  BY <1>1, <1>2, <1>3, QuietView

LEMMA AnswerView ==
    ASSUME Steps, NEW m \in messages,
           HandlePreVote(m) \/ RejectDisruptiveCandidate(m) \/ RejectStaleAppendEntries(m)
    PROVE  Safely
<1>0. m.to \in Server
  BY MessageFields DEF Steps, TypeOK
<1>1. /\ UNCHANGED <<log, commitIndex, lastApplied, applied>>
      /\ UNCHANGED <<currentTerm, role, matchIndex, ballots, elected, acks>>
  BY DEF HandlePreVote, RejectDisruptiveCandidate, RejectStaleAppendEntries, voteVars, peerVars,
         history, logVars
<1>2. /\ StoreOK' /\ SameWhole /\ \A j \in Server : LastIndex(log'[j]) = LastIndex(log[j])
      /\ \A j \in Server : commitIndex'[j] = commitIndex[j]
  BY <1>0, <1>1, HeldStep
<1>3. MessagesTold
  <2>1. CASE HandlePreVote(m)
    <3>1. PICK g : Send(VoteReply(m, g, TRUE, currentTerm[m.to]))
      BY <2>1 DEF HandlePreVote
    <3> QED
      BY <3>1, PassiveTold, SendTold
  <2>2. CASE RejectDisruptiveCandidate(m)
    <3>1. Send(VoteReply(m, FALSE, FALSE, currentTerm[m.to]))
      BY <2>2 DEF RejectDisruptiveCandidate
    <3> QED
      BY <3>1, PassiveTold, SendTold
  <2>3. CASE RejectStaleAppendEntries(m)
    <3>1. Send(AppendReply(m, currentTerm[m.to], FALSE, 0, 0, log[m.to]))
      BY <2>3 DEF RejectStaleAppendEntries
    <3> QED
      BY <3>1, PassiveTold, SendTold
  <2> QED
    BY <2>1, <2>2, <2>3
<1> QED
  BY <1>1, <1>2, <1>3, QuietView

LEMMA RejectedView ==
    ASSUME Steps, NEW m \in messages, HandleAppendEntriesRejected(m)
    PROVE  Safely
<1> DEFINE i == m.to
           j == m.from
<1>0. TypeOK /\ StoreOK /\ m \in Message /\ i \in Server /\ j \in Server /\ m.type = "AppendEntriesResp"
  BY MessageFields DEF Steps, CommitInv, TypeOK, HandleAppendEntriesRejected
<1>1. /\ Commit(i, log[i], commitIndex[i])
      /\ UNCHANGED <<currentTerm, role, matchIndex, ballots, elected, acks>>
      /\ role[i] = "LEADER"
      /\ Send(AppendEntriesTo(i, j, BackUp(i, m), log[i], commitIndex[i], snap[i], snapOffset[i][j]))
  BY DEF HandleAppendEntriesRejected, voteVars, history, ReplyForLeader
<1>2. /\ StoreOK' /\ SameWhole /\ \A k \in Server : LastIndex(log'[k]) = LastIndex(log[k])
      /\ \A k \in Server : commitIndex'[k] = commitIndex[k]
  BY <1>0, <1>1, HeldStep
<1>3. BackUp(i, m) \in Nat \ {0}
  BY <1>0, BackUpType
<1>4. MessagesTold
  <2>1. role'[i] = "LEADER" /\ currentTerm'[i] = currentTerm[i]
    BY <1>1
  <2>2. /\ log[i] \in Log /\ applied[i] \in Seq(Entry) /\ commitIndex[i] \in Nat
        /\ Stored(log[i], applied[i], commitIndex[i])
    BY <1>0, StoreType
  <2>3. WholeOf(log[i], applied[i]) = WholeOf(log'[i], applied'[i])
    BY <1>0, <1>2 DEF SameWhole
  <2>4. commitIndex'[i] = commitIndex[i]
    BY <1>0, <1>2
  <2> DEFINE ms == AppendEntriesTo(i, j, BackUp(i, m), log[i], commitIndex'[i], snap[i], snapOffset[i][j])
  <2>5. \A r \in ms : Told(r)
    BY <1>0, <1>3, <2>1, <2>2, <2>3, SentTold
  <2>6. Send(ms)
    BY <1>1, <2>4
  <2> HIDE DEF ms
  <2> QED
    BY <2>5, <2>6, SendTold
<1> QED
  BY <1>1, <1>2, <1>4, QuietView

\* Steps of one node that falls back to follower, in its term or a later one.
LEMMA FollowerView ==
    ASSUME Steps, NEW i \in Server, UNCHANGED <<log, commitIndex, lastApplied, applied>>,
           UNCHANGED <<matchIndex, ballots, elected, acks>>,
           \A j \in Server \ {i} : role'[j] = role[j] /\ currentTerm'[j] = currentTerm[j],
           role'[i] = "FOLLOWER", MessagesTold
    PROVE  Safely
<1>0. /\ matchIndex' = matchIndex /\ log' = log /\ commitIndex' = commitIndex
      /\ ballots' = ballots /\ elected' = elected /\ acks' = acks
  OBVIOUS
<1>1. StoreOK' /\ SameWhole
  BY HeldStep
<1>2. OwnMatch'
  BY <1>0 DEF OwnMatch, Steps, CommitInv
<1>3. RolesStill /\ BallotsStill /\ MatchStill /\ CommitStill
  BY <1>0 DEF RolesStill, BallotsStill, MatchStill, CommitStill
<1> QED
  BY <1>0, <1>1, <1>2, <1>3, StillStep

LEMMA LosesContactView ==
    ASSUME Steps, NEW i \in Server, LeaderLosesContact(i)
    PROVE  Safely
<1>1. /\ UNCHANGED <<log, commitIndex, lastApplied, applied>>
      /\ UNCHANGED <<matchIndex, ballots, elected, acks>> /\ messages' = messages
      /\ role' = [role EXCEPT ![i] = "FOLLOWER"]
      /\ currentTerm' = [currentTerm EXCEPT ![i] = currentTerm[i]]
  BY DEF LeaderLosesContact, BecomeFollower, SetTermAndVote, peerVars, history, logVars
<1>2. /\ role'[i] = "FOLLOWER"
      /\ \A j \in Server \ {i} : role'[j] = role[j] /\ currentTerm'[j] = currentTerm[j]
  BY <1>1 DEF Steps, TypeOK, VoteTypeOK
<1>3. MessagesTold
  BY <1>1 DEF MessagesTold
<1> QED
  BY <1>1, <1>2, <1>3, FollowerView

LEMMA FollowerHandlersView ==
    ASSUME Steps, NEW m \in messages, RejectAppendEntries(m) \/ HandleHigherTermResp(m)
    PROVE  Safely
<1>0. TypeOK /\ m.to \in Server
  BY MessageFields DEF Steps, TypeOK
<1>1. /\ UNCHANGED <<log, commitIndex, lastApplied, applied>>
      /\ UNCHANGED <<matchIndex, ballots, elected, acks>>
  BY DEF RejectAppendEntries, HandleHigherTermResp, peerVars, history, logVars
<1>2. MessagesTold
  <2>1. CASE RejectAppendEntries(m)
    <3>1. PICK ci, ct : Send(AppendReply(m, m.term, FALSE, ci, ct, log[m.to]))
      BY <2>1 DEF RejectAppendEntries
    <3> QED
      BY <3>1, PassiveTold, SendTold
  <2>2. CASE HandleHigherTermResp(m)
    BY <2>2 DEF MessagesTold, HandleHigherTermResp
  <2> QED
    BY <2>1, <2>2
<1>3. PICK t : /\ role' = [role EXCEPT ![m.to] = "FOLLOWER"]
               /\ currentTerm' = [currentTerm EXCEPT ![m.to] = t]
  BY DEF RejectAppendEntries, HandleHigherTermResp, BecomeFollower, StepDown, SetTermAndVote
<1>4. /\ role'[m.to] = "FOLLOWER"
      /\ \A j \in Server \ {m.to} : role'[j] = role[j] /\ currentTerm'[j] = currentTerm[j]
  BY <1>0, <1>3 DEF TypeOK, VoteTypeOK
<1> QED
  BY <1>0, <1>1, <1>2, <1>4, FollowerView

\* UpToDate compares with the end of the voter's whole log.
LEMMA UpToDateWhole ==
    ASSUME TypeOK, StoreOK, NEW i \in Server, NEW n \in Nat, NEW t \in Nat, UpToDate(n, t, log[i])
    PROVE  LET W == View.log[i] IN
           \/ t > TermOf(W, Len(W))
           \/ t = TermOf(W, Len(W)) /\ n >= Len(W)
<1>1. /\ log[i] \in Log /\ applied[i] \in Seq(Entry) /\ commitIndex[i] \in Nat
      /\ Stored(log[i], applied[i], commitIndex[i])
  BY StoreType
<1>2. View.log[i] = WholeOf(log[i], applied[i])
  BY ViewFields
<1>3. /\ Len(View.log[i]) = LastIndex(log[i])
      /\ LastTerm(log[i]) = TermOf(View.log[i], Len(View.log[i]))
  BY <1>1, <1>2, WholeShape, WholeLastTerm
<1> QED
  BY <1>3 DEF UpToDate

LEMMA RequestVoteView ==
    ASSUME Steps, NEW m \in messages, HandleRequestVote(m)
    PROVE  Safely
<1> DEFINE i == m.to
<1>0. /\ TypeOK /\ StoreOK /\ m \in Message /\ i \in Server /\ m.type = "RequestVote" /\ ~m.preVote
      /\ m.term \in Nat /\ m.lastIndex \in Nat /\ m.lastTerm \in Nat /\ currentTerm[i] \in Nat
  BY MessageFields DEF Steps, CommitInv, TypeOK, VoteTypeOK, HandleRequestVote
<1>1. /\ UNCHANGED <<log, commitIndex, lastApplied, applied>>
      /\ UNCHANGED <<matchIndex, elected, acks>>
  BY DEF HandleRequestVote, peerVars, logVars
<1>2. StoreOK' /\ SameWhole
  BY <1>0, <1>1, HeldStep
<1>3. PICK t, v, g : /\ t = Max({m.term, currentTerm[i]})
                     /\ g = (/\ m.term = t /\ VoteIn(i, t) \in {BAD_NODE, m.from}
                             /\ UpToDate(m.lastIndex, m.lastTerm, log[i]))
                     /\ IF m.term > currentTerm[i]
                        THEN StepDown(i, t, v)
                        ELSE SetTermAndVote(i, t, v) /\ UNCHANGED <<role, currentLeader>>
                     /\ Send(VoteReply(m, g, FALSE, t))
                     /\ ballots' = ballots \union {b \in {Ballot(i, t, m.from)} : g}
  BY DEF HandleRequestVote
<1>4. MessagesTold
  BY <1>3, PassiveTold, SendTold
<1>5. t = IF m.term >= currentTerm[i] THEN m.term ELSE currentTerm[i]
  BY <1>0, <1>3, MaxPair
<1>6. /\ \A j \in Server \ {i} : role'[j] = role[j] /\ currentTerm'[j] = currentTerm[j]
      /\ \/ role'[i] = "FOLLOWER"
         \/ role'[i] = role[i] /\ currentTerm'[i] = currentTerm[i]
  <2>1. CASE m.term > currentTerm[i]
    <3>1. role' = [role EXCEPT ![i] = "FOLLOWER"] /\ currentTerm' = [currentTerm EXCEPT ![i] = t]
      BY <1>3, <2>1 DEF StepDown, SetTermAndVote
    <3> QED
      BY <1>0, <3>1 DEF TypeOK, VoteTypeOK
  <2>2. CASE ~(m.term > currentTerm[i])
    <3>1. role' = role /\ currentTerm' = [currentTerm EXCEPT ![i] = t]
      BY <1>3, <2>2 DEF SetTermAndVote
    <3>2. t = currentTerm[i]
      BY <1>0, <1>5, <2>2
    <3> QED
      BY <1>0, <3>1, <3>2 DEF TypeOK, VoteTypeOK
  <2> QED
    BY <2>1, <2>2
<1>7. OwnMatch' /\ RolesStill /\ MatchStill /\ CommitStill
  <2>1. matchIndex' = matchIndex /\ log' = log /\ commitIndex' = commitIndex
    BY <1>1
  <2>2. OwnMatch
    BY DEF Steps, CommitInv
  <2>3. RolesStill
    BY <1>6 DEF RolesStill
  <2>4. OwnMatch'
    BY <2>1, <2>2, <2>3 DEF OwnMatch, RolesStill
  <2> QED
    BY <2>1, <2>3, <2>4 DEF MatchStill, CommitStill
<1>8. BallotsStill
  <2>1. ASSUME NEW b \in ballots', b \notin ballots PROVE GivenFor(View, b, m)
    <3>1. g /\ b = Ballot(i, t, m.from)
      BY <1>3, <2>1
    <3>2. b.voter = i /\ b.term = t /\ b.candidate = m.from
      BY <3>1 DEF Ballot
    <3>3. m.term = t /\ UpToDate(m.lastIndex, m.lastTerm, log[i])
      BY <1>3, <3>1
    <3>4. \/ m.lastTerm > TermOf(View.log[i], Len(View.log[i]))
          \/ m.lastTerm = TermOf(View.log[i], Len(View.log[i])) /\ m.lastIndex >= Len(View.log[i])
      BY <1>0, <3>3, UpToDateWhole
    <3> QED
      BY <1>0, <3>2, <3>3, <3>4 DEF GivenFor
  <2>2. ballots \subseteq ballots'
    BY <1>3
  <2> QED
    BY <2>1, <2>2 DEF BallotsStill
<1> QED
  BY <1>1, <1>2, <1>4, <1>7, <1>8, StillStep

\* A majority of pre-votes: a new candidate, in a new term.
LEMMA PreVoteGrantedView ==
    ASSUME Steps, NEW m \in messages, HandlePreVoteGranted(m)
    PROVE  Safely
<1> DEFINE i == m.to
           t == currentTerm[i] + 1
<1>0. TypeOK /\ StoreOK /\ i \in Server /\ currentTerm[i] \in Nat
  BY MessageFields DEF Steps, CommitInv, TypeOK, VoteTypeOK
<1>1. /\ UNCHANGED <<log, commitIndex, lastApplied, applied>> /\ UNCHANGED <<matchIndex, elected, acks>>
  BY DEF HandlePreVoteGranted, peerVars, logVars
<1>2. StoreOK' /\ SameWhole /\ (\A j \in Server : LastIndex(log'[j]) = LastIndex(log[j]))
      /\ (\A j \in Server : commitIndex'[j] = commitIndex[j])
  BY <1>0, <1>1, HeldStep
<1>3. CASE BecomeCandidate(i)
  <2>1. /\ currentTerm' = [currentTerm EXCEPT ![i] = t]
        /\ role' = [role EXCEPT ![i] = "CANDIDATE"]
        /\ ballots' = ballots \union {Ballot(i, t, i)}
        /\ Send(RequestVoteFrom(i, t, FALSE))
    BY <1>3 DEF BecomeCandidate, SetTermAndVote
  <2>2. /\ currentTerm'[i] = t /\ role'[i] = "CANDIDATE" /\ currentTerm[i] < currentTerm'[i]
        /\ \A j \in Server \ {i} : role'[j] = role[j] /\ currentTerm'[j] = currentTerm[j]
    BY <1>0, <2>1 DEF TypeOK, VoteTypeOK
  <2>3. RolesStill
    BY <2>2 DEF RolesStill
  <2>4. OwnMatch' /\ MatchStill /\ CommitStill
    <3>1. matchIndex' = matchIndex /\ log' = log /\ commitIndex' = commitIndex
      BY <1>1
    <3>2. OwnMatch'
      BY <2>3, <3>1 DEF OwnMatch, RolesStill, Steps, CommitInv
    <3> QED
      BY <3>1, <3>2 DEF MatchStill, CommitStill
  <2>5. BallotsStill
    <3>1. ASSUME NEW b \in ballots', b \notin ballots PROVE OwnVote(View, View', b)
      <4>1. b = Ballot(i, t, i)
        BY <2>1, <3>1
      <4>2. b.voter = i /\ b.term = t /\ b.candidate = i
        BY <4>1 DEF Ballot
      <4> QED
        BY <1>0, <2>2, <4>2, ViewFields, NextFields DEF OwnVote
    <3>2. ballots \subseteq ballots'
      BY <2>1
    <3> QED
      BY <3>1, <3>2 DEF BallotsStill
  <2>6. ASSUME NEW r \in RequestVoteFrom(i, t, FALSE) PROVE Told(r)
    <3>1. /\ r.type = "RequestVote" /\ r.from = i /\ r.term = t
          /\ r.lastIndex = LastIndex(log[i]) /\ r.lastTerm = LastTerm(log[i])
      BY DEF RequestVoteFrom
    <3>2. /\ log[i] \in Log /\ applied[i] \in Seq(Entry) /\ commitIndex[i] \in Nat
          /\ Stored(log[i], applied[i], commitIndex[i])
      BY <1>0, StoreType
    <3>3. View'.log[i] = WholeOf(log[i], applied[i])
      BY <1>0, <1>2, NextFields DEF SameWhole
    <3>4. LastIndex(log[i]) = Len(View'.log[i]) /\ LastTerm(log[i]) = TermOf(View'.log[i], Len(View'.log[i]))
      BY <3>2, <3>3, WholeShape, WholeLastTerm
    <3>5. AsksTruly(View', r)
      BY <1>0, <2>2, <3>1, <3>4, NextFields DEF AsksTruly
    <3> QED
      BY <3>1, <3>5 DEF Told
  <2>7. MessagesTold
    BY <2>1, <2>6, SendTold
  <2> QED
    BY <1>1, <1>2, <2>3, <2>4, <2>5, <2>7, StillStep
<1>4. CASE ~BecomeCandidate(i)
  <2>1. UNCHANGED <<currentTerm, role, messages, ballots>>
    BY <1>4 DEF HandlePreVoteGranted
  <2>2. MessagesTold
    BY <2>1 DEF MessagesTold
  <2> QED
    BY <1>1, <1>2, <2>1, <2>2, QuietView
<1> QED
  BY <1>3, <1>4

\* A leader, old or new, pushes an entry of its term into its log.
LEMMA PushedView ==
    ASSUME Steps, NEW i \in Server, NEW e \in Entry, ~Full(log[i]),
           log' = [log EXCEPT ![i] = Push(log[i], e)],
           UNCHANGED <<applied, commitIndex, lastApplied>>
    PROVE  /\ StoreOK' /\ LastIndex(log'[i]) = LastIndex(log[i]) + 1
           /\ log'[i] \in Log /\ Stored(log'[i], applied[i], commitIndex[i])
           /\ Len(View.log[i]) = LastIndex(log[i])
           /\ Len(View'.log[i]) = Len(View.log[i]) + 1
           /\ \A k \in 1 .. Len(View.log[i]) : View'.log[i][k] = View.log[i][k]
           /\ View'.log[i][Len(View.log[i]) + 1] = e
           /\ \A j \in Server \ {i} : log'[j] = log[j] /\ View'.log[j] = View.log[j]
           /\ Forward
<1>0. TypeOK /\ StoreOK
  BY DEF Steps, CommitInv
<1>1. /\ log[i] \in Log /\ applied[i] \in Seq(Entry) /\ commitIndex[i] \in Nat
      /\ Stored(log[i], applied[i], commitIndex[i])
  BY <1>0, StoreType
<1>2. log'[i] = Push(log[i], e) /\ \A j \in Server \ {i} : log'[j] = log[j]
  BY <1>0 DEF TypeOK, LogTypeOK
<1>3. /\ log'[i] \in Log /\ Stored(log'[i], applied[i], commitIndex[i])
      /\ LastIndex(log'[i]) = LastIndex(log[i]) + 1
      /\ \A k \in 1 .. LastIndex(log[i]) :
            WholeOf(log'[i], applied[i])[k] = WholeOf(log[i], applied[i])[k]
      /\ WholeOf(log'[i], applied[i])[LastIndex(log[i]) + 1] = e
  BY <1>1, <1>2, PushWhole
<1>4. applied' = applied /\ commitIndex' = commitIndex /\ lastApplied' = lastApplied
  OBVIOUS
<1>5. StoreOK'
  BY <1>0, <1>2, <1>3, <1>4 DEF StoreOK
<1>6. View.log[i] = WholeOf(log[i], applied[i]) /\ View'.log[i] = WholeOf(log'[i], applied[i])
  BY <1>4, ViewFields, NextFields
<1>7. Len(View.log[i]) = LastIndex(log[i]) /\ Len(View'.log[i]) = LastIndex(log'[i])
  BY <1>1, <1>3, <1>6, WholeShape
<1>8. \A j \in Server \ {i} : log'[j] = log[j] /\ View'.log[j] = View.log[j]
  BY <1>2, <1>4, ViewFields, NextFields
<1>9. Forward
  <2>1. \A j \in Server : log[j].base \in Nat /\ commitIndex[j] \in Nat
    BY <1>0, LogFacts DEF TypeOK, LogTypeOK
  <2>2. log'[i].base = log[i].base
    BY <1>1, <1>2 DEF Push, Log, LogOf
  <2> QED
    BY <1>2, <1>4, <2>1, <2>2 DEF Forward
<1> QED
  BY <1>3, <1>5, <1>6, <1>7, <1>8, <1>9

LEMMA SubmitView ==
    ASSUME Steps, NEW i \in Server, NEW v \in Value, Submit(i, v)
    PROVE  Safely
<1> DEFINE e == [index |-> LastIndex(log[i]) + 1, term |-> currentTerm[i], value |-> v]
           n == LastIndex(log[i])
<1>0. /\ TypeOK /\ StoreOK /\ log[i] \in Log /\ n \in Nat /\ currentTerm[i] \in Nat
  BY LogFacts DEF Steps, CommitInv, TypeOK, VoteTypeOK, LogTypeOK
<1>1. /\ role[i] = "LEADER" /\ ~Full(log[i])
      /\ log' = [log EXCEPT ![i] = Push(log[i], e)]
      /\ matchIndex' = [matchIndex EXCEPT ![i][i] = e.index]
      /\ Send(AppendEntriesToPeers(i, log'[i]))
      /\ UNCHANGED <<currentTerm, role, applied, commitIndex, lastApplied, ballots, elected, acks>>
  BY DEF Submit, voteVars, history
<1>2. e \in Entry /\ e.index = n + 1 /\ e.term = currentTerm[i]
  BY <1>0 DEF Entry
<1> HIDE DEF e
<1>3. /\ StoreOK' /\ LastIndex(log'[i]) = n + 1
      /\ log'[i] \in Log /\ Stored(log'[i], applied[i], commitIndex[i])
      /\ Len(View.log[i]) = n
      /\ Len(View'.log[i]) = Len(View.log[i]) + 1
      /\ \A k \in 1 .. Len(View.log[i]) : View'.log[i][k] = View.log[i][k]
      /\ View'.log[i][Len(View.log[i]) + 1] = e
      /\ \A j \in Server \ {i} : log'[j] = log[j] /\ View'.log[j] = View.log[j]
      /\ Forward
  BY <1>1, <1>2, PushedView
<1>4. /\ currentTerm' = currentTerm /\ role' = role /\ applied' = applied /\ commitIndex' = commitIndex
      /\ ballots' = ballots /\ elected' = elected /\ acks' = acks
  BY <1>1
<1>5. /\ matchIndex'[i][i] = n + 1 /\ \A j \in Server \ {i} : matchIndex'[i][j] = matchIndex[i][j]
      /\ \A j \in Server \ {i} : matchIndex'[j] = matchIndex[j]
  BY <1>0, <1>1, <1>2 DEF TypeOK, PeerTypeOK
<1>6. \A m \in AppendEntriesToPeers(i, log'[i]) : Told(m)
  <2>1. /\ applied[i] \in Seq(Entry) /\ commitIndex[i] \in Nat
    BY <1>0 DEF TypeOK, LogTypeOK
  <2>2. /\ WholeOf(log'[i], applied[i]) = WholeOf(log'[i], applied'[i])
        /\ role'[i] = "LEADER" /\ currentTerm'[i] = currentTerm[i] /\ commitIndex'[i] = commitIndex[i]
    BY <1>1, <1>4
  <2> QED
    BY <1>0, <1>3, <2>1, <2>2, PeersTold
<1>7. MessagesTold
  BY <1>1, <1>6, SendTold
<1>8. \A m \in messages' : /\ IsAppend(m) => m \in messages \/ SentBy(View', m)
                           /\ m.type # "InstallSnapshotResp"
                           /\ \/ m.type = "RequestVote" /\ ~m.preVote
                              \/ m.type = "AppendEntriesResp" /\ m.success
                              => m \in messages
  <2>1. \A m \in AppendEntriesToPeers(i, log'[i]) : m.type \in {"AppendEntries", "InstallSnapshot"}
    BY DEF AppendEntriesToPeers, AppendEntriesTo, InstallSnapshotTo
  <2>2. \A m \in messages' : m \in messages \/ m \in AppendEntriesToPeers(i, log'[i])
    BY <1>1 DEF Send
  <2> QED
    BY <1>7, <2>1, <2>2 DEF MessagesTold, Told, Passive, IsAppend, Steps, CommitInv, NoAnswers
<1>9. Follows(View, View')
  <2>1. /\ elected \subseteq elected' /\ acks \subseteq acks' /\ ballots \subseteq ballots'
        /\ \A x \in elected' : x \in elected \/ currentTerm[x.leader] <= x.term
        /\ \A a \in acks' : a \in acks \/ currentTerm[a.node] <= a.term
    BY <1>4
  <2> QED
    BY <1>3, <1>8, <2>1, ViewFollows
<1>10. Pushes(View, View', i)
  <2>1. \A j \in Server : View'.term[j] = View.term[j] /\ View'.commit[j] = View.commit[j]
    BY <1>4, ViewFields, NextFields
  <2>2. \A j \in Server \ {i} :
            View'.log[j] = View.log[j] /\ View'.role[j] = View.role[j] /\ View'.match[j] = View.match[j]
    BY <1>3, <1>4, <1>5, ViewFields, NextFields
  <2>3. /\ View'.acks = View.acks /\ View'.ballots = View.ballots /\ View'.elected = View.elected
        /\ View.role[i] = "LEADER" /\ View'.role[i] = "LEADER"
        /\ \A j \in Server \ {i} : View'.match[i][j] = View.match[i][j]
    BY <1>1, <1>4, <1>5, ViewFields, NextFields
  <2>4. \A m \in View'.msgs :
            \/ m.type = "RequestVote" /\ ~m.preVote
            \/ m.type = "AppendEntriesResp" /\ m.success
            => m \in View.msgs
    BY <1>8, ViewFields, NextFields
  <2>5. /\ View'.log[i][Len(View.log[i]) + 1].term = View.term[i]
        /\ View'.log[i][Len(View.log[i]) + 1].index = Len(View.log[i]) + 1
    BY <1>2, <1>3, ViewFields
  <2> QED
    BY <1>3, <2>1, <2>2, <2>3, <2>4, <2>5 DEF Pushes
<1>11. Sound(View') /\ KeepsChosen(View, View')
  BY <1>9, <1>10, PushSound
<1>12. OwnMatch'
  <2>1. \A j \in Server \ {i} : matchIndex'[j][j] = matchIndex[j][j] /\ log'[j] = log[j]
    BY <1>3, <1>5
  <2>2. matchIndex'[i][i] <= LastIndex(log'[i])
    BY <1>0, <1>3, <1>5
  <2> QED
    BY <1>4, <2>1, <2>2 DEF OwnMatch, Steps, CommitInv
<1>13. NoAnswers'
  BY <1>8 DEF NoAnswers
<1> QED
  BY <1>3, <1>11, <1>12, <1>13 DEF Safely, CommitInv

\* A vote: a majority makes the candidate a leader, which pushes its no-op.
LEMMA VoteGrantedView ==
    ASSUME Steps, NEW r \in messages, HandleVoteGranted(r)
    PROVE  Safely
<1> DEFINE i == r.to
           n == LastIndex(log[i])
           e == [index |-> n + 1, term |-> currentTerm[i], value |-> NOOP]
<1>0. /\ TypeOK /\ StoreOK /\ i \in Server /\ log[i] \in Log /\ n \in Nat /\ currentTerm[i] \in Nat
  BY MessageFields, LogFacts DEF Steps, CommitInv, TypeOK, VoteTypeOK, LogTypeOK
<1>1. /\ role[i] = "CANDIDATE" /\ ~Full(log[i])
      /\ UNCHANGED <<currentTerm, messages, ballots, acks>>
  BY <1>0 DEF HandleVoteGranted, Steps, Steady
<1>2. CASE BecomeLeader(i)
  <2>1. /\ log' = [log EXCEPT ![i] = Push(log[i], e)]
        /\ matchIndex' = [matchIndex EXCEPT ![i] =
               [j \in Server |-> IF j = i THEN LastIndex(log'[i]) ELSE 0]]
        /\ role' = [role EXCEPT ![i] = "LEADER"]
        /\ elected' = elected \union {[term |-> currentTerm[i], leader |-> i]}
        /\ UNCHANGED <<applied, commitIndex, lastApplied>>
    BY <1>2 DEF BecomeLeader
  <2>2. e \in Entry /\ e.index = n + 1 /\ e.term = currentTerm[i]
    BY <1>0 DEF Entry
  <2> HIDE DEF e
  <2>3. /\ StoreOK' /\ LastIndex(log'[i]) = n + 1
        /\ log'[i] \in Log /\ Stored(log'[i], applied[i], commitIndex[i])
        /\ Len(View.log[i]) = n
        /\ Len(View'.log[i]) = Len(View.log[i]) + 1
        /\ \A k \in 1 .. Len(View.log[i]) : View'.log[i][k] = View.log[i][k]
        /\ View'.log[i][Len(View.log[i]) + 1] = e
        /\ \A j \in Server \ {i} : log'[j] = log[j] /\ View'.log[j] = View.log[j]
        /\ Forward
    BY <1>0, <1>1, <2>1, <2>2, PushedView
  <2>4. /\ currentTerm' = currentTerm /\ applied' = applied /\ commitIndex' = commitIndex
        /\ ballots' = ballots /\ acks' = acks /\ messages' = messages
    BY <1>1, <2>1
  <2>5. /\ matchIndex'[i][i] = LastIndex(log'[i]) /\ \A j \in Server \ {i} : matchIndex'[i][j] = 0
        /\ \A j \in Server \ {i} : matchIndex'[j] = matchIndex[j]
        /\ role'[i] = "LEADER" /\ \A j \in Server \ {i} : role'[j] = role[j]
    BY <1>0, <2>1 DEF TypeOK, VoteTypeOK, PeerTypeOK
  <2>6. Follows(View, View')
    <3>1. \A x \in elected' : x \in elected \/ currentTerm[x.leader] <= x.term
      BY <1>0, <2>1
    <3>2. /\ elected \subseteq elected' /\ acks \subseteq acks' /\ ballots \subseteq ballots'
          /\ \A a \in acks' : a \in acks \/ currentTerm[a.node] <= a.term
          /\ \A m \in messages' : IsAppend(m) => m \in messages \/ SentBy(View', m)
      BY <2>1, <2>4
    <3> QED
      BY <2>3, <3>1, <3>2, ViewFollows
  <2>7. Pushes(View, View', i)
    <3>1. \A j \in Server : View'.term[j] = View.term[j] /\ View'.commit[j] = View.commit[j]
      BY <2>4, ViewFields, NextFields
    <3>2. \A j \in Server \ {i} :
              View'.log[j] = View.log[j] /\ View'.role[j] = View.role[j] /\ View'.match[j] = View.match[j]
      BY <2>3, <2>5, ViewFields, NextFields
    <3>3. /\ View'.acks = View.acks /\ View'.ballots = View.ballots
          /\ View'.elected = View.elected \union {[term |-> View.term[i], leader |-> i]}
          /\ View.role[i] = "CANDIDATE" /\ View'.role[i] = "LEADER"
          /\ \A j \in Server \ {i} : View'.match[i][j] = 0
      BY <1>1, <2>1, <2>4, <2>5, ViewFields, NextFields
    <3>4. \A m \in View'.msgs : m \in View.msgs
      BY <2>4, ViewFields, NextFields
    <3>5. /\ View'.log[i][Len(View.log[i]) + 1].term = View.term[i]
          /\ View'.log[i][Len(View.log[i]) + 1].index = Len(View.log[i]) + 1
      BY <2>2, <2>3, ViewFields
    <3> QED
      BY <1>0, <2>3, <3>1, <3>2, <3>3, <3>4, <3>5 DEF Pushes
  <2>8. Sound(View') /\ KeepsChosen(View, View')
    BY <2>6, <2>7, PushSound
  <2>9. OwnMatch'
    <3>1. \A j \in Server \ {i} : matchIndex'[j][j] = matchIndex[j][j] /\ log'[j] = log[j] /\ role'[j] = role[j]
      BY <2>3, <2>5
    <3>2. matchIndex'[i][i] <= LastIndex(log'[i])
      BY <1>0, <2>3, <2>5
    <3> QED
      BY <3>1, <3>2 DEF OwnMatch, Steps, CommitInv
  <2>10. NoAnswers'
    BY <2>4 DEF NoAnswers, Steps, CommitInv
  <2> QED
    BY <2>3, <2>8, <2>9, <2>10 DEF Safely, CommitInv
<1>3. CASE ~BecomeLeader(i)
  <2>1. UNCHANGED <<role, log, commitIndex, lastApplied, applied, matchIndex, elected>>
    BY <1>3 DEF HandleVoteGranted, logVars, peerVars
  <2>2. /\ StoreOK' /\ SameWhole /\ (\A j \in Server : LastIndex(log'[j]) = LastIndex(log[j]))
        /\ (\A j \in Server : commitIndex'[j] = commitIndex[j])
    BY <1>0, <2>1, HeldStep
  <2>3. MessagesTold
    BY <1>1 DEF MessagesTold
  <2> QED
    BY <1>1, <2>1, <2>2, <2>3, QuietView
<1> QED
  BY <1>2, <1>3

\* An accepted AppendEntries, with the commit index it carries.
LEMMA AcceptView ==
    ASSUME Steps, NEW m \in messages, AcceptAppendEntries(m)
    PROVE  Safely
<1> DEFINE i == m.to
           L == log[i]
           h == applied[i]
           c == commitIndex[i]
           R == Appended(L, m)
           q == MsgLast(m)
           d == Max({c, Min({m.commit, q})})
           ack == [node |-> i, term |-> m.term, index |-> LastIndex(R)]
<1>0. /\ TypeOK /\ StoreOK /\ m \in Message /\ i \in Server /\ IsAppend(m) /\ Sound(View)
      /\ m.term \in Nat /\ m.commit \in Nat /\ q \in Nat /\ currentTerm[i] \in Nat
  <2>1. m \in Message
    BY DEF Steps, TypeOK
  <2>2. IsAppend(m)
    BY DEF AcceptAppendEntries, IsAppend
  <2>3. m.entries \in Seq(Entry) /\ m.prevIndex \in Nat /\ m.commit \in Nat /\ m.term \in Nat /\ i \in Server
    BY <2>1, <2>2, MessageFields DEF IsAppend
  <2>4. q \in Nat
    BY <2>3 DEF MsgLast
  <2> QED
    BY <2>1, <2>2, <2>3, <2>4 DEF Steps, CommitInv, TypeOK, VoteTypeOK
<1>1. /\ m.term >= currentTerm[i] /\ PrevMatches(m, L)
      /\ BecomeFollower(i, m.term, m.from)
      /\ Send(AppendReply(m, m.term, TRUE, 0, 0, R))
      /\ Commit(i, R, d) /\ acks' = acks \union {ack}
      /\ UNCHANGED <<matchIndex, ballots, elected>>
  BY DEF AcceptAppendEntries, Appended, MsgLast, peerVars
<1>2. /\ L \in Log /\ h \in Seq(Entry) /\ c \in Nat /\ Stored(L, h, c) /\ lastApplied[i] = c
  BY <1>0, StoreType
<1>3. View.log[i] = WholeOf(L, h) /\ View.commit[i] = c /\ View.term[i] = currentTerm[i]
  BY <1>0, ViewFields
<1>4. PICK f \in Nat : AppendsAt(L, h, m, f)
  <2>1. q <= L.base + LogCapacity
    BY <1>0 DEF Steps, Steady
  <2> QED
    BY <1>0, <1>1, <1>2, <2>1, AppendWhole
<1>5. Joins(View.log[i], WholeOf(R, h), m, L.base, f)
  BY <1>3, <1>4 DEF AppendsAt
<1>6. L.base \in Nat /\ L.base <= c
  BY <1>2, LogFacts DEF Stored
<1>7. NothingLost(View, m, f)
  <2>1. m \in View.msgs /\ View.term[m.to] <= m.term /\ L.base <= View.commit[m.to]
    BY <1>0, <1>1, <1>3, <1>6, ViewFields
  <2> HIDE DEF R, L
  <2> QED
    BY <1>0, <1>5, <1>6, <2>1, AcceptJoins
<1>8. f <= q => c < f
  BY <1>3, <1>7 DEF NothingLost
<1>9. R \in Log /\ Stored(R, h, c) /\ R.base = L.base /\ q <= LastIndex(R)
  BY <1>0, <1>2, <1>4, <1>8, AppendStored
<1> HIDE DEF R
<1>10. /\ d \in Nat /\ c <= d /\ d <= LastIndex(R)
       /\ d = c \/ (d <= m.commit /\ d <= q)
  <2>1. PICK x : x = Min({m.commit, q})
    OBVIOUS
  <2>2. x = IF m.commit =< q THEN m.commit ELSE q
    BY <1>0, <2>1, MinPair
  <2>3. x \in Nat /\ x <= m.commit /\ x <= q
    BY <1>0, <2>2
  <2>4. d = IF c >= x THEN c ELSE x
    <3>1. d = Max({c, x})
      BY <2>1
    <3>2. c \in Int /\ x \in Int
      BY <1>2, <2>3
    <3> HIDE DEF d, c
    <3> QED
      BY <3>1, <3>2, MaxPair
  <2>5. c <= LastIndex(R) /\ LastIndex(R) \in Nat
    BY <1>9, LogFacts DEF Stored
  <2> HIDE DEF d, q, c
  <2>6. c \in Nat /\ q \in Nat /\ m.commit \in Nat
    BY <1>0, <1>2
  <2> QED
    BY <1>9, <2>3, <2>4, <2>5, <2>6
<1> HIDE DEF d
<1>11. /\ Kept(R, h, c, log'[i], applied'[i], d)
       /\ commitIndex'[i] = d /\ lastApplied'[i] = d
       /\ \A j \in Server \ {i} :
             /\ log'[j] = log[j] /\ applied'[j] = applied[j]
             /\ commitIndex'[j] = commitIndex[j] /\ lastApplied'[j] = lastApplied[j]
  BY <1>0, <1>1, <1>2, <1>9, <1>10, ApplyStep
<1>12. /\ Stored(log'[i], applied'[i], d) /\ LastIndex(log'[i]) = LastIndex(R)
       /\ WholeOf(log'[i], applied'[i]) = WholeOf(R, h)
  BY <1>11 DEF Kept
<1>13. StoreOK'
  BY <1>0, <1>11, <1>12 DEF StoreOK
<1>14. /\ View'.log[i] = WholeOf(R, h) /\ Len(View'.log[i]) = LastIndex(R)
       /\ \A j \in Server \ {i} : View'.log[j] = View.log[j]
  <2>1. View'.log[i] = WholeOf(R, h) /\ \A j \in Server \ {i} : View'.log[j] = View.log[j]
    BY <1>0, <1>11, <1>12, ViewFields, NextFields
  <2>2. Len(WholeOf(R, h)) = LastIndex(R)
    BY <1>2, <1>9, WholeShape
  <2> QED
    BY <2>1, <2>2
<1>15. /\ currentTerm'[i] = m.term /\ role'[i] = "FOLLOWER"
       /\ \A j \in Server \ {i} : role'[j] = role[j] /\ currentTerm'[j] = currentTerm[j]
       /\ matchIndex' = matchIndex /\ ballots' = ballots /\ elected' = elected
  <2>1. /\ role' = [role EXCEPT ![i] = "FOLLOWER"]
        /\ currentTerm' = [currentTerm EXCEPT ![i] = m.term]
    BY <1>1 DEF BecomeFollower, SetTermAndVote
  <2> QED
    BY <1>0, <1>1, <2>1 DEF TypeOK, VoteTypeOK
<1>16. \A r \in messages' :
           \/ r \in messages
           \/ /\ r.type = "AppendEntriesResp" /\ r.from = i /\ r.term = m.term
              /\ r.lastIndex = LastIndex(R)
  BY <1>1 DEF Send, AppendReply
<1>17. Follows(View, View')
  <2>1. \A a \in acks' : a \in acks \/ currentTerm[a.node] <= a.term
    BY <1>0, <1>1
  <2>2. \A r \in messages' : IsAppend(r) => r \in messages \/ SentBy(View', r)
    BY <1>16 DEF IsAppend
  <2>3. elected \subseteq elected' /\ acks \subseteq acks' /\ ballots \subseteq ballots'
        /\ \A x \in elected' : x \in elected \/ currentTerm[x.leader] <= x.term
    BY <1>1, <1>15
  <2> QED
    BY <1>13, <2>1, <2>2, <2>3, ViewFollows
<1>18. Accepts(View, View', m)
  <2>1. /\ m \in View.msgs /\ IsAppend(m) /\ View.term[i] <= m.term
        /\ View'.term[i] = m.term /\ View'.role[i] = "FOLLOWER"
    BY <1>0, <1>1, <1>3, <1>15, ViewFields, NextFields
  <2>2. \E b \in Nat, g \in Nat : b <= View.commit[i] /\ Joins(View.log[i], View'.log[i], m, b, g)
    BY <1>3, <1>5, <1>6, <1>14
  <2>3. View'.commit[i] = View.commit[i] \/ (View'.commit[i] <= m.commit /\ View'.commit[i] <= MsgLast(m))
    BY <1>3, <1>10, <1>11, NextFields
  <2>4. \A j \in Server \ {i} :
          /\ View'.term[j] = View.term[j] /\ View'.role[j] = View.role[j] /\ View'.log[j] = View.log[j]
          /\ View'.commit[j] = View.commit[j] /\ View'.match[j] = View.match[j]
    BY <1>11, <1>14, <1>15, ViewFields, NextFields
  <2>5. View'.elected = View.elected /\ View'.ballots = View.ballots
    BY <1>15, ViewFields, NextFields
  <2>6. View'.acks = View.acks \union {[node |-> i, term |-> m.term, index |-> Len(View'.log[i])]}
    BY <1>1, <1>14, ViewFields, NextFields
  <2>7. \A r \in View'.msgs :
          /\ IsAppend(r) => r \in View.msgs
          /\ r.type = "RequestVote" /\ ~r.preVote => r \in View.msgs
          /\ r.type = "AppendEntriesResp" /\ r.success =>
                r \in View.msgs \/ (r.from = i /\ r.term = m.term /\ r.lastIndex = Len(View'.log[i]))
    BY <1>14, <1>16, ViewFields, NextFields DEF IsAppend
  <2> QED
    BY <2>1, <2>2, <2>3, <2>4, <2>5, <2>6, <2>7 DEF Accepts
<1>19. Sound(View') /\ KeepsChosen(View, View')
  BY <1>17, <1>18, AcceptSound
<1>20. OwnMatch'
  <2>1. \A j \in Server \ {i} : log'[j] = log[j] /\ role'[j] = role[j] /\ matchIndex'[j][j] = matchIndex[j][j]
    BY <1>11, <1>15
  <2> QED
    BY <1>15, <2>1 DEF OwnMatch, Steps, CommitInv
<1>21. NoAnswers'
  BY <1>16 DEF NoAnswers, Steps, CommitInv
<1>22. Forward
  <2>1. \A j \in Server : log[j].base \in Nat /\ commitIndex[j] \in Nat
    BY <1>0, LogFacts DEF TypeOK, LogTypeOK
  <2>2. log[i].base <= log'[i].base /\ log'[i].base \in Nat
    BY <1>9, <1>11, LogFacts DEF Kept
  <2>3. log'[i].base >= log[i].base /\ commitIndex'[i] >= commitIndex[i]
    BY <1>0, <1>10, <1>11, <2>1, <2>2
  <2>4. \A j \in Server \ {i} : log'[j].base >= log[j].base /\ commitIndex'[j] >= commitIndex[j]
    BY <1>11, <2>1
  <2> QED
    BY <2>3, <2>4 DEF Forward
<1> QED
  BY <1>13, <1>19, <1>20, <1>21, <1>22 DEF Safely, CommitInv
\* leader_advance_commit: the commit index stays, or moves to an entry of the
\* leader's term that the match indices put on a majority.
LEMMA CommitTargetIs ==
    ASSUME LogTypeOK, NEW i \in Server, NEW mt, CommitTarget(i, mt) # commitIndex[i]
    PROVE  LET c == CommitTarget(i, mt) IN
           /\ c \in Nat /\ commitIndex[i] < c /\ c <= LastIndex(log[i])
           /\ TermAt(log[i], c) = currentTerm[i]
           /\ Cardinality({j \in Server : j = i \/ mt[j] >= c}) >= Majority
<1> DEFINE N == {n \in commitIndex[i] + 1 .. LastIndex(log[i]) :
            /\ TermAt(log[i], n) = currentTerm[i]
            /\ Cardinality({j \in Server : j = i \/ mt[j] >= n}) >= Majority}
<1>1. commitIndex[i] \in Nat /\ LastIndex(log[i]) \in Nat
  BY LastIndexType DEF LogTypeOK, Log
<1>2. CommitTarget(i, mt) = IF N = {} THEN commitIndex[i] ELSE Max(N)
  BY Zenon DEF CommitTarget
<1>3. N \in SUBSET Nat /\ \A n \in N : n <= LastIndex(log[i])
  BY <1>1
<1>4. CommitTarget(i, mt) \in N
  <2> HIDE DEF N
  <2>1. N # {} /\ CommitTarget(i, mt) = Max(N)
    BY <1>2, Zenon
  <2>2. Max(N) \in N
    BY <1>1, <1>3, <2>1, MaxOfNaturals
  <2> QED
    BY <2>1, <2>2, Zenon
<1> DEFINE c == CommitTarget(i, mt)
<1>5. c \in N
  BY <1>4
<1> HIDE DEF c
<1>6. /\ c \in commitIndex[i] + 1 .. LastIndex(log[i]) /\ TermAt(log[i], c) = currentTerm[i]
      /\ Cardinality({j \in Server : j = i \/ mt[j] >= c}) >= Majority
  BY <1>5
<1>7. c \in Nat /\ commitIndex[i] < c /\ c <= LastIndex(log[i])
  BY <1>1, <1>6
<1> QED
  BY <1>6, <1>7 DEF c

\* A positive answer: a match index moves up to what was acknowledged, and the
\* commit index after it.
LEMMA AcceptedView ==
    ASSUME Steps, NEW m \in messages, HandleAppendEntriesAccepted(m)
    PROVE  Safely
<1> DEFINE i  == m.to
           j  == m.from
           mi == Max({m.lastIndex, matchIndex[i][j]})
           mt == [matchIndex[i] EXCEPT ![j] = mi]
           c  == CommitTarget(i, mt)
           nx == Max({m.lastIndex + 1, nextIndex[i][j]})
           ms == IF nx <= LastIndex(log'[i])
                 THEN AppendEntriesTo(i, j, nx, log'[i], c, snap'[i], snapOffset[i][j])
                 ELSE {}
<1>0. /\ TypeOK /\ StoreOK /\ Sound(View) /\ m \in Message /\ i \in Server /\ j \in Server /\ i # j
      /\ m.type = "AppendEntriesResp" /\ m.success /\ m.lastIndex \in Nat
  BY MessageFields DEF Steps, CommitInv, TypeOK, HandleAppendEntriesAccepted, ToAnother
<1>1. /\ role[i] = "LEADER" /\ m.term = currentTerm[i]
      /\ matchIndex' = [matchIndex EXCEPT ![i] = mt]
      /\ Commit(i, log[i], c) /\ Send(ms)
      /\ UNCHANGED <<currentTerm, role, ballots, elected, acks>>
  BY DEF HandleAppendEntriesAccepted, ReplyForLeader, voteVars, history
<1>2. /\ log[i] \in Log /\ applied[i] \in Seq(Entry) /\ commitIndex[i] \in Nat
      /\ Stored(log[i], applied[i], commitIndex[i])
      /\ matchIndex \in [Server -> [Server -> Nat]] /\ matchIndex[i][j] \in Nat
      /\ nextIndex[i][j] \in Nat \ {0}
  BY <1>0, StoreType DEF TypeOK, PeerTypeOK
<1>3. nx \in Nat \ {0}
  <2>1. PICK a \in Nat \ {0}, b \in Nat \ {0} : nx = Max({a, b})
    <3>1. m.lastIndex + 1 \in Nat \ {0}
      BY <1>0
    <3> QED
      BY <1>2, <3>1
  <2> QED
    BY <2>1, MaxPair
<1>4. mi = m.lastIndex \/ mi = matchIndex[i][j]
  <2>1. m.lastIndex \in Int /\ matchIndex[i][j] \in Int
    BY <1>0, <1>2
  <2>2. mi = IF m.lastIndex >= matchIndex[i][j] THEN m.lastIndex ELSE matchIndex[i][j]
    BY <2>1, MaxPair, Zenon
  <2> QED
    BY <2>2
<1> HIDE DEF mi, nx
<1>5. /\ \A k \in Server \ {i} : matchIndex'[k] = matchIndex[k]
      /\ matchIndex'[i] = mt /\ mt[j] = mi /\ \A k \in Server \ {j} : mt[k] = matchIndex[i][k]
  BY <1>0, <1>1, <1>2
<1>6. /\ currentTerm' = currentTerm /\ role' = role /\ ballots' = ballots
      /\ elected' = elected /\ acks' = acks
  BY <1>1
<1> HIDE DEF mt
<1>7. c \in Nat /\ commitIndex[i] <= c /\ c <= LastIndex(log[i])
  <2>1. LogTypeOK
    BY <1>0 DEF TypeOK
  <2>2. c \in Nat /\ c >= commitIndex[i]
    BY <1>0, <2>1, CommitTargetType
  <2>3. c # commitIndex[i] => c <= LastIndex(log[i])
    BY <1>0, <2>1, CommitTargetIs
  <2>4. commitIndex[i] <= LastIndex(log[i])
    BY <1>2 DEF Stored
  <2> HIDE DEF c
  <2> QED
    BY <1>2, <2>2, <2>3, <2>4
<1>8. c # commitIndex[i] =>
          /\ commitIndex[i] < c /\ TermAt(log[i], c) = currentTerm[i]
          /\ Cardinality({k \in Server : k = i \/ mt[k] >= c}) >= Majority
  BY <1>0, CommitTargetIs DEF TypeOK
<1> HIDE DEF c
<1>9. /\ StoreOK' /\ SameWhole /\ commitIndex'[i] = c
      /\ \A k \in Server : LastIndex(log'[k]) = LastIndex(log[k])
      /\ \A k \in Server \ {i} : commitIndex'[k] = commitIndex[k]
  BY <1>0, <1>1, <1>7, CommitStep
<1>10. OwnMatch'
  <2>1. \A k \in Server : matchIndex'[k][k] = matchIndex[k][k]
    BY <1>0, <1>5
  <2> QED
    BY <1>6, <1>9, <2>1 DEF OwnMatch, Steps, CommitInv
<1>11. RolesStill /\ BallotsStill
  BY <1>6 DEF RolesStill, BallotsStill
<1>12. MatchStill
  <2>1. [node |-> j, term |-> currentTerm[i], index |-> m.lastIndex] \in acks
    BY <1>0, <1>1, ViewFields DEF Sound, AcksTrue
  <2>2. \/ matchIndex'[i][j] = matchIndex[i][j]
        \/ [node |-> j, term |-> currentTerm'[i], index |-> matchIndex'[i][j]] \in acks
    BY <1>4, <1>5, <1>6, <2>1
  <2>3. \A a, b \in Server : a # i \/ b # j => matchIndex'[a][b] = matchIndex[a][b]
    BY <1>5
  <2> QED
    BY <2>2, <2>3 DEF MatchStill
<1>13. CommitStill
  <2>1. ASSUME c # commitIndex[i] PROVE CommitsAt(View, View', i)
    <3>1. commitIndex[i] < c /\ TermAt(log[i], c) = currentTerm[i]
      BY <1>8, <2>1
    <3>2. log[i].base \in Nat /\ log[i].base <= c
      <4>1. log[i].base \in Nat /\ log[i].base <= commitIndex[i]
        BY <1>2, LogFacts DEF Stored
      <4> QED
        BY <1>2, <1>7, <4>1
    <3>3. TermOf(WholeOf(log[i], applied[i]), c) = currentTerm[i]
      BY <1>2, <1>7, <3>1, <3>2, WholeTerm
    <3>4. Len(WholeOf(log[i], applied[i])) = LastIndex(log[i]) /\ LastIndex(log[i]) \in Nat
      BY <1>2, WholeShape
    <3>5. c # 0 /\ c \in 1 .. LastIndex(log[i])
      BY <1>2, <1>7, <3>1, <3>4
    <3>6. Holds(WholeOf(log[i], applied[i]), c, currentTerm[i])
      BY <3>3, <3>4, <3>5 DEF Holds, TermOf
    <3>7. /\ View'.role[i] = "LEADER" /\ Holds(View.log[i], View'.commit[i], View'.term[i])
      BY <1>0, <1>1, <1>6, <1>9, <3>6, ViewFields, NextFields
    <3> DEFINE Q == {k \in Server : k = i \/ mt[k] >= c}
    <3>8. Q \in SUBSET Server /\ Cardinality(Q) >= Majority
      BY <1>8, <2>1
    <3>9. \A k \in Q : k = i \/ View'.match[i][k] >= View'.commit[i]
      BY <1>5, <1>9, NextFields
    <3> HIDE DEF Q
    <3> QED
      BY <3>7, <3>8, <3>9 DEF CommitsAt
  <2> QED
    BY <1>9, <2>1 DEF CommitStill
<1>14. MessagesTold
  <2>1. /\ log'[i] \in Log /\ applied'[i] \in Seq(Entry) /\ commitIndex'[i] \in Nat
        /\ Stored(log'[i], applied'[i], commitIndex'[i])
    BY <1>0, <1>9, StoreTypeNext DEF Steps
  <2>2. role'[i] = "LEADER" /\ currentTerm'[i] = currentTerm[i]
    BY <1>1, <1>6
  <2> DEFINE es == AppendEntriesTo(i, j, nx, log'[i], commitIndex'[i], snap'[i], snapOffset[i][j])
  <2>3. \A r \in es : Told(r)
    BY <1>0, <1>3, <2>1, <2>2, SentTold
  <2>4. \A r \in ms : r \in es
    BY <1>9
  <2> HIDE DEF ms, es
  <2> QED
    BY <1>1, <2>3, <2>4, SendTold
<1> QED
  BY <1>6, <1>9, <1>10, <1>11, <1>12, <1>13, <1>14, StillStep
\* Without restarts and snapshots in flight these handlers do not run.
LEMMA SnapshotView ==
    ASSUME Steps, NEW m \in messages,
           \/ RejectStaleInstallSnapshot(m) \/ HandleSnapshotChunk(m)
           \/ HandleSnapshotDone(m) \/ HandleInstallSnapshotResp(m)
    PROVE  FALSE
<1>1. m.type # "InstallSnapshot" /\ m.type # "InstallSnapshotResp"
  BY DEF Steps, Steady, CommitInv, NoAnswers
<1>2. m.type = "InstallSnapshot" \/ m.type = "InstallSnapshotResp"
  BY DEF RejectStaleInstallSnapshot, HandleSnapshotChunk, HandleSnapshotDone,
         HandleInstallSnapshotResp
<1> QED
  BY <1>1, <1>2

LEMMA RestartView ==
    ASSUME Steps, NEW i \in Server, Restart(i)
    PROVE  FALSE
<1>1. spent' = [spent EXCEPT !.restarts = @ + 1]
  BY DEF Restart
<1>2. spent.restarts = 0 /\ spent'.restarts = 0 /\ spent \in [timeouts : Nat, heartbeats : Nat, restarts : Nat]
  BY DEF Steps, Steady, TypeOK, HistoryTypeOK
<1> QED
  BY <1>1, <1>2

LEMMA StutterView ==
    ASSUME Steps, UNCHANGED vars
    PROVE  Safely
<1>1. /\ UNCHANGED <<log, commitIndex, lastApplied, applied>>
      /\ UNCHANGED <<currentTerm, role, matchIndex, ballots, elected, acks>> /\ messages' = messages
  BY DEF vars, voteVars, logVars, peerVars, history
<1>2. MessagesTold
  BY <1>1 DEF MessagesTold
<1>3. PICK i : i \in Server
  <2>1. Server # {}
    BY ServerAssumption, FS_EmptySet
  <2> QED
    BY <2>1
<1>4. /\ StoreOK' /\ SameWhole /\ \A j \in Server : LastIndex(log'[j]) = LastIndex(log[j])
      /\ \A j \in Server : commitIndex'[j] = commitIndex[j]
  BY <1>1, <1>3, HeldStep
<1> QED
  BY <1>1, <1>2, <1>4, QuietView

LEMMA NextView ==
    ASSUME Steps, [Next]_vars
    PROVE  Safely
<1>1. ASSUME NEW i \in Server, Restart(i) PROVE Safely
  BY <1>1, RestartView
<1>2. ASSUME NEW i \in Server, LeaderLosesContact(i) PROVE Safely
  BY <1>2, LosesContactView
<1>3. ASSUME NEW i \in Server, Heartbeat(i) \/ ElectionTimeout(i) \/ Tick(i) PROVE Safely
  BY <1>3, DriverView
<1>4. ASSUME NEW i \in Server, NEW v \in Value, Submit(i, v) PROVE Safely
  BY <1>4, SubmitView
<1>5. ASSUME NEW m \in messages, Receive(m) PROVE Safely
  <2>1. CASE HandlePreVote(m) \/ RejectDisruptiveCandidate(m) \/ RejectStaleAppendEntries(m)
    BY <1>5, <2>1, AnswerView
  <2>2. CASE HandleRequestVote(m)
    BY <1>5, <2>2, RequestVoteView
  <2>3. CASE HandlePreVoteGranted(m)
    BY <1>5, <2>3, PreVoteGrantedView
  <2>4. CASE HandleVoteGranted(m)
    BY <1>5, <2>4, VoteGrantedView
  <2>5. CASE RejectAppendEntries(m) \/ HandleHigherTermResp(m)
    BY <1>5, <2>5, FollowerHandlersView
  <2>6. CASE AcceptAppendEntries(m)
    BY <1>5, <2>6, AcceptView
  <2>7. CASE HandleAppendEntriesAccepted(m)
    BY <1>5, <2>7, AcceptedView
  <2>8. CASE HandleAppendEntriesRejected(m)
    BY <1>5, <2>8, RejectedView
  <2>9. CASE \/ RejectStaleInstallSnapshot(m) \/ HandleSnapshotChunk(m)
             \/ HandleSnapshotDone(m) \/ HandleInstallSnapshotResp(m)
    BY <1>5, <2>9, SnapshotView
  <2> QED
    BY <1>5, <2>1, <2>2, <2>3, <2>4, <2>5, <2>6, <2>7, <2>8, <2>9 DEF Receive
<1>6. CASE UNCHANGED vars
  BY <1>6, StutterView
<1> QED
  BY <1>1, <1>2, <1>3, <1>4, <1>5, <1>6 DEF Next

LEMMA InitView ==
    ASSUME Init, TypeOK, ElectionInv, ElectionSafety
    PROVE  CommitInv
<1>1. /\ messages = {} /\ ballots = {} /\ elected = {} /\ acks = {}
      /\ \A i \in Server : /\ log[i] = EmptyLog /\ applied[i] = <<>> /\ commitIndex[i] = 0
                           /\ lastApplied[i] = 0 /\ role[i] = "FOLLOWER"
  BY DEF Init
<1>2. LastIndex(EmptyLog) = 0 /\ EmptyLog.base = 0 /\ EmptyLog.term = 0
  BY DEF LastIndex, EmptyLog
<1>3. StoreOK
  BY <1>1, <1>2 DEF StoreOK, Stored, TermOf
<1>4. OwnMatch /\ NoAnswers
  BY <1>1 DEF OwnMatch, NoAnswers
<1>5. \A i \in Server : Len(View.log[i]) = 0
  <2>1. \A i \in Server : View.log[i] = WholeOf(log[i], applied[i])
    BY ViewFields
  <2>2. \A i \in Server : Len(WholeOf(log[i], applied[i])) = 0
    BY <1>1, <1>2, <1>3, StoreType, WholeShape
  <2> QED
    BY <2>1, <2>2
<1>6. /\ View.msgs = {} /\ View.ballots = {} /\ View.elected = {} /\ View.acks = {}
      /\ \A i \in Server : View.role[i] = "FOLLOWER" /\ View.commit[i] = 0
  BY <1>1, ViewFields
<1>7. Chains(View) = {}
  <2>1. \A i \in Server : ChainOf(View.log[i]) = {}
    BY <1>5 DEF ChainOf
  <2> QED
    BY <1>6, <2>1 DEF Chains
<1>8. Shape(View)
  BY <1>3, ViewShape
<1>9. Linked(View)
  BY <1>7, <1>8 DEF Linked, LinksAgree, LinksRise
<1>10. VotesBind(View) /\ AcksTrue(View) /\ CandidatesTrue(View) /\ AppendsTrue(View) /\ ReachesTerm(View)
  BY <1>6 DEF VotesBind, AcksTrue, CandidatesTrue, AppendsTrue, ReachesTerm
<1>11. LeadersLead(View)
  BY <1>5, <1>6 DEF LeadersLead
<1>12. ChoosableIsHeld(View) /\ ChoosableIsSent(View) /\ ChoosableIsVoted(View)
  BY <1>7 DEF ChoosableIsHeld, ChoosableIsSent, ChoosableIsVoted
<1>13. CommittedIsChosen(View)
  BY <1>6 DEF CommittedIsChosen, CommittedAt
<1> QED
  BY <1>3, <1>4, <1>9, <1>10, <1>11, <1>12, <1>13 DEF CommitInv, Sound
-----------------------------------------------------------------------------
(* What the invariant says about the nodes' state.                         *)

LEMMA AppliedIsWhole ==
    ASSUME TypeOK, StoreOK, NEW i \in Server, NEW k \in DOMAIN applied[i]
    PROVE  /\ k \in Nat \ {0} /\ k <= commitIndex[i] /\ commitIndex[i] \in Nat
           /\ k \in 1 .. Len(View.log[i])
           /\ View.log[i][k] = applied[i][k]
<1>1. /\ log[i] \in Log /\ applied[i] \in Seq(Entry) /\ commitIndex[i] \in Nat
      /\ Stored(log[i], applied[i], commitIndex[i])
  BY StoreType
<1>2. commitIndex[i] = Len(applied[i]) /\ commitIndex[i] <= LastIndex(log[i])
  BY <1>1 DEF Stored
<1>3. /\ Len(WholeOf(log[i], applied[i])) = LastIndex(log[i]) /\ LastIndex(log[i]) \in Nat
      /\ \A x \in 1 .. commitIndex[i] : WholeOf(log[i], applied[i])[x] = applied[i][x]
  BY <1>1, WholeShape
<1>4. k \in 1 .. commitIndex[i]
  BY <1>1, <1>2
<1> QED
  BY <1>1, <1>2, <1>3, <1>4, ViewFields

LEMMA LiveIsWhole ==
    ASSUME TypeOK, StoreOK, NEW i \in Server
    PROVE  /\ Len(View.log[i]) = LastIndex(log[i]) /\ LastIndex(log[i]) \in Nat /\ log[i].base \in Nat
           /\ \A k \in Nat : Live(log[i], k) => EntryAt(log[i], k) = View.log[i][k]
           /\ \A k \in Nat : log[i].base < k /\ k <= Len(View.log[i]) => Live(log[i], k)
<1>1. /\ log[i] \in Log /\ applied[i] \in Seq(Entry) /\ commitIndex[i] \in Nat
      /\ Stored(log[i], applied[i], commitIndex[i])
  BY StoreType
<1>2. /\ Len(View.log[i]) = LastIndex(log[i]) /\ LastIndex(log[i]) \in Nat /\ log[i].base \in Nat
      /\ \A x \in log[i].base + 1 .. LastIndex(log[i]) : View.log[i][x] = EntryAt(log[i], x)
  BY <1>1, WholeShape, ViewFields
<1>3. \A k \in Nat : Live(log[i], k) <=> k \in log[i].base + 1 .. LastIndex(log[i])
  BY <1>2 DEF Live
<1> QED
  BY <1>2, <1>3 DEF Live

LEMMA WholeIndex ==
    ASSUME TypeOK, CommitInv, NEW i \in Server, NEW k \in 1 .. Len(View.log[i])
    PROVE  View.log[i][k].index = k
<1> DEFINE a == Link(k, TermOf(View.log[i], k - 1), View.log[i][k])
<1>1. a \in Chains(View) /\ a.index = k /\ a.entry = View.log[i][k]
  BY LogLink, LinkFields
<1> HIDE DEF a
<1>2. a.entry.index = a.index
  BY <1>1 DEF CommitInv, Sound, Linked, LinksRise
<1> QED
  BY <1>1, <1>2

LEMMA CommitImplies ==
    ASSUME TypeOK, CommitInv
    PROVE  /\ StateMachineSafety /\ AppliedInOrder /\ LeaderCompleteness
           /\ MatchIndexIsReplicated /\ LogMatching
<1>0. StoreOK /\ Sound(View) /\ OwnMatch
  BY DEF CommitInv
<1>1. AppliedInOrder
  <2>1. ASSUME NEW i \in Server
        PROVE  Len(applied[i]) = lastApplied[i] /\ lastApplied[i] = commitIndex[i]
    BY <1>0, StoreType DEF Stored
  <2>2. ASSUME NEW i \in Server, NEW k \in DOMAIN applied[i]
        PROVE  applied[i][k].index = k
    BY <1>0, AppliedIsWhole, WholeIndex
  <2> QED
    BY <2>1, <2>2 DEF AppliedInOrder
<1>2. StateMachineSafety
  <2> SUFFICES ASSUME NEW i \in Server, NEW j \in Server, NEW a \in DOMAIN applied[i],
                      NEW b \in DOMAIN applied[j], applied[i][a].index = applied[j][b].index
               PROVE  applied[i][a] = applied[j][b]
    BY DEF StateMachineSafety
  <2>1. a = b
    BY <1>1 DEF AppliedInOrder
  <2>2. /\ a \in Nat \ {0} /\ a <= View.commit[i] /\ View.log[i][a] = applied[i][a]
        /\ a <= View.commit[j] /\ View.log[j][a] = applied[j][a]
    BY <1>0, <2>1, AppliedIsWhole, ViewFields
  <2>3. View.log[i][a] = View.log[j][a]
    BY <1>0, <2>2, CommitsAgree
  <2> QED
    BY <2>1, <2>2, <2>3
<1>3. LeaderCompleteness
  <2> SUFFICES ASSUME NEW i \in Server, NEW j \in Server, role[i] = "LEADER",
                      currentTerm[i] >= currentTerm[j], NEW k \in DOMAIN applied[j]
               PROVE  \/ k <= log[i].base
                      \/ Live(log[i], k) /\ EntryAt(log[i], k) = applied[j][k]
    BY DEF LeaderCompleteness
  <2>1. k \in Nat \ {0} /\ k <= View.commit[j] /\ View.log[j][k] = applied[j][k]
    BY <1>0, AppliedIsWhole, ViewFields
  <2>2. View.role[i] = "LEADER" /\ View.term[j] <= View.term[i]
    <3>1. currentTerm[i] \in Nat /\ currentTerm[j] \in Nat
      BY DEF TypeOK, VoteTypeOK
    <3>2. currentTerm[j] <= currentTerm[i]
      BY <3>1
    <3> QED
      BY <3>2, ViewFields
  <2>3. k <= Len(View.log[i]) /\ View.log[i][k] = View.log[j][k]
    BY <1>0, <2>1, <2>2, LeaderHasCommits
  <2>4. /\ log[i].base \in Nat
        /\ \A x \in Nat : Live(log[i], x) => EntryAt(log[i], x) = View.log[i][x]
        /\ \A x \in Nat : log[i].base < x /\ x <= Len(View.log[i]) => Live(log[i], x)
    BY <1>0, LiveIsWhole
  <2> QED
    BY <2>1, <2>3, <2>4
<1>4. MatchIndexIsReplicated
  <2> SUFFICES ASSUME NEW i \in Server, NEW j \in Server, role[i] = "LEADER",
                      currentTerm[j] = currentTerm[i]
               PROVE  /\ matchIndex[i][j] <= LastIndex(log[j])
                      /\ \A k \in 1 .. matchIndex[i][j] :
                            Live(log[i], k) /\ Live(log[j], k) =>
                                EntryAt(log[i], k) = EntryAt(log[j], k)
    BY DEF MatchIndexIsReplicated
  <2>1. CASE i = j
    BY <1>0, <2>1 DEF OwnMatch
  <2>2. CASE i # j
    <3>1. View.role[i] = "LEADER" /\ View.term[j] = View.term[i] /\ View.match[i][j] = matchIndex[i][j]
      BY ViewFields
    <3>2. /\ matchIndex[i][j] \in Nat /\ matchIndex[i][j] <= Len(View.log[j])
          /\ \A k \in 1 .. matchIndex[i][j] : View.log[i][k] = View.log[j][k]
      BY <1>0, <2>2, <3>1, MatchIsHeld
    <3>3. Len(View.log[j]) = LastIndex(log[j])
      BY <1>0, LiveIsWhole
    <3>4. \A k \in Nat : /\ Live(log[i], k) => EntryAt(log[i], k) = View.log[i][k]
                         /\ Live(log[j], k) => EntryAt(log[j], k) = View.log[j][k]
      BY <1>0, LiveIsWhole
    <3>5. \A k \in 1 .. matchIndex[i][j] : k \in Nat
      BY <3>2
    <3> QED
      BY <3>2, <3>3, <3>4, <3>5
  <2> QED
    BY <2>1, <2>2
<1>5. LogMatching
  <2> SUFFICES ASSUME NEW i \in Server, NEW j \in Server,
                      NEW k \in Nat \ {0}, Live(log[i], k), Live(log[j], k),
                      TermAt(log[i], k) = TermAt(log[j], k),
                      NEW x \in Nat \ {0}, Live(log[i], x), Live(log[j], x), x <= k
               PROVE  EntryAt(log[i], x) = EntryAt(log[j], x)
    <3>1. \A i, j \in Server : 1 .. Max({LastIndex(log[i]), LastIndex(log[j])}) \subseteq Nat \ {0}
      OBVIOUS
    <3> QED
      BY <3>1 DEF LogMatching
  <2>1. ASSUME NEW n \in Server, Live(log[n], k), Live(log[n], x)
        PROVE  /\ k <= Len(View.log[n]) /\ TermAt(log[n], k) = TermOf(View.log[n], k)
               /\ EntryAt(log[n], x) = View.log[n][x]
    <3>1. /\ Len(View.log[n]) = LastIndex(log[n]) /\ LastIndex(log[n]) \in Nat
          /\ log[n].base \in Nat /\ EntryAt(log[n], x) = View.log[n][x]
      BY <1>0, <2>1, LiveIsWhole
    <3>2. log[n].base <= k /\ k <= LastIndex(log[n])
      BY <2>1, <3>1 DEF Live
    <3>3. TermAt(log[n], k) = TermOf(WholeOf(log[n], applied[n]), k)
      BY <1>0, <3>2, StoreType, WholeTerm
    <3> QED
      BY <3>1, <3>2, <3>3, ViewFields
  <2>2. Linked(View) /\ TermOf(View.log[i], k) = TermOf(View.log[j], k)
    BY <1>0, <2>1 DEF Sound
  <2>3. \A z \in 1 .. k : View.log[i][z] = View.log[j][z]
    BY <2>1, <2>2, SameUpTo
  <2>4. x \in 1 .. k
    OBVIOUS
  <2> QED
    BY <2>1, <2>3, <2>4
<1> QED
  BY <1>1, <1>2, <1>3, <1>4, <1>5

\* What a node knows of the term at a committed index is the term of its whole log.
LEMMA CommittedTerm ==
    ASSUME TypeOK, StoreOK, NEW i \in Server, NEW k \in Nat \ {0}, k <= commitIndex[i],
           TermAt(log[i], k) # NoTerm
    PROVE  TermAt(log[i], k) = View.log[i][k].term
<1>1. /\ log[i] \in Log /\ applied[i] \in Seq(Entry) /\ commitIndex[i] \in Nat
      /\ Stored(log[i], applied[i], commitIndex[i])
  BY StoreType
<1>2. log[i].base \in Nat /\ LastIndex(log[i]) \in Nat /\ commitIndex[i] <= LastIndex(log[i])
  BY <1>1, LiveIsWhole DEF Stored
<1>3. log[i].base <= k /\ k <= LastIndex(log[i])
  BY <1>1, <1>2 DEF TermAt, Live
<1>4. TermAt(log[i], k) = TermOf(WholeOf(log[i], applied[i]), k)
  BY <1>1, <1>3, WholeTerm
<1> QED
  BY <1>4, ViewFields DEF TermOf

LEMMA CommitsHaveOneTerm ==
    ASSUME TypeOK, CommitInv
    PROVE  CommittedAgree
<1>0. StoreOK /\ Sound(View)
  BY DEF CommitInv
<1> SUFFICES ASSUME NEW i \in Server, NEW j \in Server,
                    NEW k \in 1 .. Min({commitIndex[i], commitIndex[j]}),
                    TermAt(log[i], k) # NoTerm, TermAt(log[j], k) # NoTerm
             PROVE  TermAt(log[i], k) = TermAt(log[j], k)
  BY DEF CommittedAgree
<1>1. k \in Nat \ {0} /\ k <= commitIndex[i] /\ k <= commitIndex[j]
  <2>1. commitIndex[i] \in Nat /\ commitIndex[j] \in Nat
    BY DEF TypeOK, LogTypeOK
  <2> QED
    BY <2>1, MinPair
<1>2. View.log[i][k] = View.log[j][k]
  BY <1>0, <1>1, CommitsAgree, ViewFields
<1> QED
  BY <1>0, <1>1, <1>2, CommittedTerm

\* A step keeps what was committed, seen in the rings before and after it.
LEMMA SafelyKeeps ==
    ASSUME TypeOK, TypeOK', CommitInv, Safely
    PROVE  CommitsKept
<1> SUFFICES ASSUME NEW i \in Server
             PROVE  /\ commitIndex'[i] >= commitIndex[i]
                    /\ log'[i].base >= log[i].base
                    /\ \A k \in 1 .. commitIndex[i] :
                          Live(log[i], k) =>
                              \/ k <= log'[i].base
                              \/ Live(log'[i], k) /\ EntryAt(log'[i], k) = EntryAt(log[i], k)
  BY DEF CommitsKept
<1>1. commitIndex'[i] >= commitIndex[i] /\ log'[i].base >= log[i].base
  BY DEF Safely, Forward
<1>2. /\ View.commit[i] <= Len(View'.log[i])
      /\ \A k \in 1 .. View.commit[i] : View'.log[i][k] = View.log[i][k]
  BY DEF Safely, KeepsChosen, Keeps
<1>3. StoreOK /\ StoreOK'
  BY DEF CommitInv, Safely
<1>4. \A k \in Nat : Live(log[i], k) => EntryAt(log[i], k) = View.log[i][k]
  BY <1>3, LiveIsWhole
<1>5. /\ log'[i] \in Log /\ applied'[i] \in Seq(Entry) /\ commitIndex'[i] \in Nat
      /\ Stored(log'[i], applied'[i], commitIndex'[i])
  BY <1>3, StoreTypeNext
<1>6. /\ Len(View'.log[i]) = LastIndex(log'[i]) /\ LastIndex(log'[i]) \in Nat /\ log'[i].base \in Nat
      /\ \A x \in log'[i].base + 1 .. LastIndex(log'[i]) : View'.log[i][x] = EntryAt(log'[i], x)
  BY <1>5, WholeShape, NextFields
<1>7. ASSUME NEW k \in 1 .. commitIndex[i], Live(log[i], k), ~(k <= log'[i].base)
      PROVE  Live(log'[i], k) /\ EntryAt(log'[i], k) = EntryAt(log[i], k)
  <2>1. commitIndex[i] \in Nat /\ View.commit[i] = commitIndex[i]
    BY ViewFields DEF TypeOK, LogTypeOK
  <2>2. k \in Nat /\ k <= LastIndex(log'[i]) /\ k \in log'[i].base + 1 .. LastIndex(log'[i])
    BY <1>2, <1>6, <1>7, <2>1
  <2>3. View'.log[i][k] = View.log[i][k]
    BY <1>2, <2>1
  <2>4. Live(log'[i], k)
    BY <1>6, <2>2 DEF Live
  <2> QED
    BY <1>4, <1>6, <1>7, <2>2, <2>3, <2>4
<1> QED
  BY <1>1, <1>7

LEMMA NextSafely ==
    ASSUME Elections, Elections', Steady, Steady', CommitInv, [Next]_vars
    PROVE  Safely /\ CommitsKept
<1>1. TypeOK /\ ElectionInv /\ TypeOK'
  BY DEF Elections
<1>2. VoteKept
  <2>1. [VoteKept]_vars
    BY <1>1, NextElection
  <2>2. CASE UNCHANGED vars
    <3>1. currentTerm' = currentTerm /\ votedFor' = votedFor
      BY <2>2 DEF vars, voteVars
    <3>2. \A i \in Server : currentTerm[i] \in Nat
      BY <1>1 DEF TypeOK, VoteTypeOK
    <3> QED
      BY <3>1, <3>2 DEF VoteKept
  <2> QED
    BY <2>1, <2>2
<1>3. Steps
  BY <1>2 DEF Steps, Elections
<1>4. Safely
  BY <1>3, NextView
<1> QED
  BY <1>1, <1>4, SafelyKeeps

\* CommitInv holds in every behaviour of a steady cluster, and no step takes a
\* commit back.
THEOREM CommitInvariant == Spec /\ []Steady => []CommitInv /\ [][CommitsKept]_vars
<1>1. Spec => []Elections
  <2>1. Spec => []ToAnother(messages)
    BY InitType, NextType, InitFlag, NextFlag, PTL DEF Spec
  <2> QED
    BY <2>1, TypeCorrect, ElectionInvariant, AtMostOneLeader, PTL DEF Elections
<1>2. Init /\ Elections => CommitInv
  BY InitView DEF Elections
<1>3. Elections /\ Elections' /\ Steady /\ Steady' /\ CommitInv /\ [Next]_vars
        => CommitInv' /\ CommitsKept
  BY NextSafely DEF Safely
<1> QED
  BY <1>1, <1>2, <1>3, PTL DEF Spec

\* apply_committed hands the same entry to the state machine at every index, on
\* every node, whatever messages are lost, repeated, late or out of order, and
\* whichever leaders come and go, in a steady cluster.
THEOREM MachinesAgree == Spec /\ []Steady => []StateMachineSafety
BY TypeCorrect, CommitInvariant, CommitImplies, PTL

\* apply_committed misses no index and repeats none, and compaction happens behind
\* it, in a steady cluster.
THEOREM MachinesInOrder == Spec /\ []Steady => []AppliedInOrder
BY TypeCorrect, CommitInvariant, CommitImplies, PTL

\* begin_snapshot leaves at the edge the term of the entry it dropped last: nodes
\* know the same term at every index they both have committed, in a steady cluster.
THEOREM CommittedTermsAgree == Spec /\ []Steady => []CommittedAgree
BY TypeCorrect, CommitInvariant, CommitsHaveOneTerm, PTL

\* The log check of handle(RequestVote) makes every leader one that has what was
\* committed before it, in a steady cluster.
THEOREM LeadersComplete == Spec /\ []Steady => []LeaderCompleteness
BY TypeCorrect, CommitInvariant, CommitImplies, PTL

\* What leader_advance_commit counts is stored on the nodes it counts, in a steady
\* cluster.
THEOREM MatchIsReplicated == Spec /\ []Steady => []MatchIndexIsReplicated
BY TypeCorrect, CommitInvariant, CommitImplies, PTL

\* Neither the truncation of handle(AppendEntries) nor compaction reaches an entry
\* that its node has committed, other than by hiding it in the snapshot, and no
\* commit index goes back, in a steady cluster.
THEOREM CommitsStay == Spec /\ []Steady => CommittedIsStable
<1>1. CommitsKept => (spent'.restarts = spent.restarts => CommitsKept)
  OBVIOUS
<1> QED
  BY <1>1, CommitInvariant, PTL DEF CommittedIsStable

\* Logs match through compaction too: what handle(AppendEntries) skips unseen below
\* the snapshot edge would have compared equal, in a steady cluster.
THEOREM SteadyLogsMatch == Spec /\ []Steady => []LogMatching
BY TypeCorrect, CommitInvariant, CommitImplies, PTL

-----------------------------------------------------------------------------
(* Without bytes to transfer.                                              *)

\* An engine whose m_snapshot_save yields no bytes sends no snapshot.
LEMMA NothingToTransfer ==
    ASSUME TypeOK, SnapshotChunks = 0, NEW m \in messages
    PROVE  m.type # "InstallSnapshot"
<1> SUFFICES ASSUME m.type = "InstallSnapshot" PROVE FALSE
  OBVIOUS
<1>1. m \in Message
  BY DEF TypeOK
<1>2. m.offset \in 0 .. SnapshotChunks - 1
  BY <1>1 DEF Message
<1> QED
  BY <1>2

=============================================================================
