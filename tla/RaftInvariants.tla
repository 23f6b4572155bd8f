-------------------------- MODULE RaftInvariants --------------------------
(***************************************************************************)
(* What RaftServerProofs proves by induction: the invariants behind        *)
(* LogMatching and behind the safety of commits, and the kinds of steps    *)
(* into which the proofs sort the actions of RaftServer.                   *)
(***************************************************************************)
EXTENDS RaftServer

IsAppend(m) == m.type = "AppendEntries"

\* The last index an AppendEntries speaks of, and the term it gives to index y.
MsgLast(m) == m.prevIndex + Len(m.entries)

MsgTerm(m, y) ==
    IF y = m.prevIndex THEN m.prevTerm ELSE m.entries[y - m.prevIndex].term

\* What commits rest on and no handler checks: no node lost its log, a new leader
\* finds room for its NOOP and a follower for what it is sent, no snapshot is on
\* its way, and every AppendEntries reaches an entry of its leader's own term, so
\* that the last index a follower reports is one the leader has.
Steady ==
    /\ spent.restarts = 0
    /\ \A i \in Server : role[i] = "CANDIDATE" => ~Full(log[i])
    /\ \A m \in messages :
          /\ m.type # "InstallSnapshot"
          /\ IsAppend(m) =>
                /\ MsgTerm(m, MsgLast(m)) = m.term
                /\ MsgLast(m) <= log[m.to].base + LogCapacity

\* A message that is a real vote.
Grant(m) == m.type = "RequestVoteResp" /\ ~m.preVote /\ m.granted

ToAnother(ms) == \A m \in ms : m.from # m.to

-----------------------------------------------------------------------------
(***************************************************************************)
(* A link is an entry with its index and the term of the entry before it.  *)
(* Logs and AppendEntries messages are chains of links, and no step makes  *)
(* a link but the leader's push: everything else copies, cuts, or joins    *)
(* two chains where their terms agree.  So there is one link for an index  *)
(* and a term, and two logs that share a link share all links before it.   *)
(*                                                                         *)
(* The one join the code makes without comparing terms is at a snapshot    *)
(* edge: a message that starts below the edge counts as matching, and its  *)
(* entries up to the edge are skipped unseen.  EdgesAgree says that they   *)
(* would have compared equal.                                              *)
(***************************************************************************)

Link(k, t, e) == [index |-> k, prev |-> t, entry |-> e]

\* The links of a log, and of a message m that carries entries.
Links(L) ==
    {Link(k, TermAt(L, k - 1), EntryAt(L, k)) : k \in L.base + 1 .. LastIndex(L)}

MessageLinks(m) ==
    {Link(m.prevIndex + k,
          IF k = 1 THEN m.prevTerm ELSE m.entries[k - 1].term,
          m.entries[k]) : k \in 1 .. Len(m.entries)}

AllLinks ==
    (UNION {Links(log[i]) : i \in Server})
        \union (UNION {MessageLinks(m) : m \in {r \in messages : r.type = "AppendEntries"}})

\* What a node may still accept agrees with the edge of its snapshot.
EdgesAgree ==
    \A m \in messages :
        m.type = "AppendEntries" /\ m.term >= currentTerm[m.to] =>
            \A k \in 1 .. Len(m.entries) :
                m.prevIndex + k = log[m.to].base => m.entries[k].term = log[m.to].term

\* One link for an index and a term.
OneLink ==
    \A a, b \in AllLinks :
        a.index = b.index /\ a.entry.term = b.entry.term => a = b

\* Entries are of terms that had a leader.
LinksOfElected == \A a \in AllLinks : \E e \in elected : e.term = a.entry.term

\* A leader was elected, and its log holds every index that has an entry of its term.
LeaderHasLinks ==
    \A i \in Server :
        role[i] = "LEADER" =>
            /\ [term |-> currentTerm[i], leader |-> i] \in elected
            /\ \A a \in AllLinks :
                   a.entry.term = currentTerm[i] => a.index <= LastIndex(log[i])

\* A node that was elected is no candidate of that term any more.
ElectedOnce ==
    \A e \in elected :
        /\ e.term <= currentTerm[e.leader]
        /\ role[e.leader] = "CANDIDATE" => e.term < currentTerm[e.leader]

MatchInv == OneLink /\ LinksOfElected /\ LeaderHasLinks /\ ElectedOnce

\* R is L up to index p + f - 1, followed by n entries of es from the f-th on, the
\* first new one; all of them, when they fit into the ring.
Joined(L, p, es, R, f, n) ==
    /\ p + f > L.base /\ p + f - 1 <= LastIndex(L) /\ n <= Len(es) - f + 1
    /\ f \in NewEntries(L, p, es) /\ \A x \in NewEntries(L, p, es) : f <= x
    /\ p + Len(es) <= L.base + LogCapacity => n = Len(es) - f + 1
    /\ f > 1 => p + f - 1 <= L.base \/ TermAt(L, p + f - 1) = es[f - 1].term
    /\ R.base = L.base /\ R.term = L.term /\ LastIndex(R) = p + f - 1 + n
    /\ \A k \in L.base + 1 .. p + f - 1 : EntryAt(R, k) = EntryAt(L, k)
    /\ \A k \in p + f .. p + f - 1 + n : EntryAt(R, k) = es[k - p]

\* A node keeps its role and term, becomes a follower, or a candidate of a new
\* term.
RolesKept ==
    \A i \in Server :
        /\ currentTerm'[i] >= currentTerm[i]
        /\ \/ role'[i] = "FOLLOWER"
           \/ role'[i] = role[i] /\ currentTerm'[i] = currentTerm[i]
           \/ role'[i] = "CANDIDATE" /\ currentTerm'[i] > currentTerm[i]

\* A message without entries.
Plain(m) == m.type # "AppendEntries"

\* No node has compacted its log or loaded a snapshot yet.
Uncompacted == \A i \in Server : log[i].base = 0

-----------------------------------------------------------------------------
(***************************************************************************)
(* Commits, in a steady cluster.  The argument is about views: records of  *)
(* terms, roles, whole logs from index 1, commit and match indices,        *)
(* messages and history, in which compaction cannot be seen.  Sound is the *)
(* invariant of a view.  An entry is choosable while a majority has        *)
(* acknowledged it or may still do so in its term; what is choosable is    *)
(* held by every node that acknowledged it, by every log that ends in a    *)
(* later term, by every message of a later term and by every candidate     *)
(* with the vote of a node that acknowledged it.  A choosable entry was    *)
(* choosable before, so that only steps which add an entry, a vote or an   *)
(* acknowledgement need an argument.                                       *)
(*                                                                         *)
(* Three kinds of steps follow: those that leave whole logs alone (Still), *)
(* a leader's push (Pushes), and an accepted AppendEntries (Accepts).      *)
(* Then the state of RaftServer is mapped to a view, and each action to    *)
(* one of the three.                                                       *)
(***************************************************************************)

(* Chains: logs and messages as sequences of terms.                        *)

\* The term of the entry at k of the log W, whose first entry is at index 1.
TermOf(W, k) == IF k = 0 THEN 0 ELSE W[k].term

Holds(W, n, t) == n \in 1 .. Len(W) /\ W[n].term = t

ChainOf(W) == {Link(k, TermOf(W, k - 1), W[k]) : k \in 1 .. Len(W)}

\* Where f and g agree, they agree one index before.
AgreeBefore(f, g, lo, n) == \A k \in lo + 1 .. n : f[k] = g[k] => f[k - 1] = g[k - 1]

\* Above k, no run of t starts in f.
NoStartAbove(f, t, k, n) == \A x \in k + 1 .. n : f[x] = t => f[x - 1] = t

-----------------------------------------------------------------------------
(***************************************************************************)
(* A view s of the state: s.log[i] is the whole log of node i, from index  *)
(* 1, whatever part of it has been compacted.                              *)
(***************************************************************************)

Shape(s) ==
    /\ s.term \in [Server -> Nat]
    /\ s.role \in [Server -> {"FOLLOWER", "CANDIDATE", "LEADER"}]
    /\ s.log \in [Server -> Seq(Entry)]
    /\ s.commit \in [Server -> Nat]
    /\ s.match \in [Server -> [Server -> Nat]]
    /\ s.msgs \subseteq Message
    /\ s.ballots \subseteq [voter : Server, term : Nat, candidate : Server]
    /\ s.elected \subseteq [term : Nat, leader : Server]
    /\ s.acks \subseteq [node : Server, term : Nat, index : Nat]

\* Every link of a log or of a message in flight.
Chains(s) ==
    (UNION {ChainOf(s.log[i]) : i \in Server})
        \union (UNION {MessageLinks(m) : m \in {r \in s.msgs : IsAppend(r)}})

\* One link for an index and a term, and a term starts at its lowest index.
LinksAgree(s) ==
    \A a, b \in Chains(s) :
        a.entry.term = b.entry.term =>
            /\ a.index = b.index => a = b
            /\ b.prev # b.entry.term => b.index <= a.index

\* Entries are of terms that had a leader, and terms do not fall along a chain.
LinksRise(s) ==
    \A a \in Chains(s) :
        /\ \E e \in s.elected : e.term = a.entry.term
        /\ a.prev <= a.entry.term
        /\ a.entry.index = a.index

Linked(s) == Shape(s) /\ LinksAgree(s) /\ LinksRise(s)

\* No link starts the term t above index d.
StartsBy(s, t, d) == \A b \in Chains(s) : b.entry.term = t /\ b.prev # t => b.index <= d

-----------------------------------------------------------------------------
(* The invariant, on a view.                                               *)

\* Of the election: see ElectionInv.
VotesBind(s) ==
    /\ \A b \in s.ballots : b.term <= s.term[b.voter]
    /\ \A e \in s.elected :
          \E Q \in SUBSET Server :
              /\ Cardinality(Q) >= Majority
              /\ \A j \in Q : Ballot(j, e.term, e.leader) \in s.ballots
    /\ \A e, f \in s.elected : e.term = f.term => e.leader = f.leader

\* A node's entries are of its terms.  A leader was elected, has an entry of its
\* term at the end of its log, and has every entry of its term.
LeadersLead(s) ==
    /\ \A i \in Server :
          /\ \A k \in 1 .. Len(s.log[i]) : s.log[i][k].term <= s.term[i]
          /\ s.role[i] = "CANDIDATE" => 0 < s.term[i]
          /\ s.role[i] = "LEADER" =>
                /\ [term |-> s.term[i], leader |-> i] \in s.elected
                /\ TermOf(s.log[i], Len(s.log[i])) = s.term[i]
                /\ \A a \in Chains(s) :
                      a.entry.term = s.term[i] => a.index <= Len(s.log[i])
    /\ \A e \in s.elected :
          /\ 0 < e.term /\ e.term <= s.term[e.leader]
          /\ s.role[e.leader] = "CANDIDATE" => e.term < s.term[e.leader]

\* Node j acknowledged index n in term t: as its leader, or to its leader.
Acked(s, j, n, t) ==
    \/ [term |-> t, leader |-> j] \in s.elected
    \/ \E a \in s.acks : a.node = j /\ a.term = t /\ n <= a.index

\* A majority acknowledged n in t; a majority did, or still may.
Chosen(s, n, t) ==
    \E Q \in SUBSET Server :
        Cardinality(Q) >= Majority /\ \A j \in Q : Acked(s, j, n, t)

Choosable(s, n, t) ==
    \E Q \in SUBSET Server :
        Cardinality(Q) >= Majority /\ \A j \in Q : s.term[j] <= t \/ Acked(s, j, n, t)

\* Acknowledgements are of a leader's term, and true while the node is in it.
\* Replies in flight and match indices are acknowledgements.
AcksTrue(s) ==
    /\ \A a \in s.acks :
          /\ a.term <= s.term[a.node]
          /\ \E e \in s.elected : e.term = a.term
          /\ a.term = s.term[a.node] => Holds(s.log[a.node], a.index, a.term)
          /\ \A i \in Server :
                s.role[i] = "LEADER" /\ s.term[i] = a.term => a.index <= Len(s.log[i])
    /\ \A m \in s.msgs :
          m.type = "AppendEntriesResp" /\ m.success =>
              [node |-> m.from, term |-> m.term, index |-> m.lastIndex] \in s.acks
    /\ \A i, j \in Server :
          s.role[i] = "LEADER" /\ i # j =>
              \/ s.match[i][j] = 0
              \/ [node |-> j, term |-> s.term[i], index |-> s.match[i][j]] \in s.acks

\* Votes are asked for and given in the candidate's term or an earlier one, and a
\* candidate's request tells the truth about its log.
CandidatesTrue(s) ==
    /\ \A b \in s.ballots : b.term <= s.term[b.candidate]
    /\ \A m \in s.msgs :
          m.type = "RequestVote" /\ ~m.preVote =>
              /\ m.term <= s.term[m.from]
              /\ m.term = s.term[m.from] /\ s.role[m.from] = "CANDIDATE" =>
                    /\ m.lastIndex = Len(s.log[m.from])
                    /\ m.lastTerm = TermOf(s.log[m.from], Len(s.log[m.from]))

\* Node x holds the entry of term t at n, and a majority acknowledged it.
Evidence(s, x, n, t) ==
    Holds(s.log[x], n, t) /\ Chosen(s, n, t) /\ Acked(s, x, n, t)

\* Messages come from elected leaders, whose logs they are part of, and the commit
\* index in them is of entries a majority acknowledged.
AppendsTrue(s) ==
    \A m \in s.msgs :
        IsAppend(m) =>
            /\ [term |-> m.term, leader |-> m.from] \in s.elected
            /\ m.prevIndex = 0 => m.prevTerm = 0
            /\ m.prevTerm = m.term => StartsBy(s, m.term, m.prevIndex)
            /\ s.role[m.from] = "LEADER" /\ s.term[m.from] = m.term =>
                  MsgLast(m) <= Len(s.log[m.from])
            /\ m.commit > 0 =>
                  \E x \in Server, n \in Nat, t \in Nat :
                      m.commit <= n /\ t <= m.term /\ Evidence(s, x, n, t)

\* An entry that may still be chosen is held by those who acknowledged it, and by
\* every log that ends in a later term.
ChoosableIsHeld(s) ==
    \A a \in Chains(s) :
        Choosable(s, a.index, a.entry.term) =>
            \A j \in Server :
                \/ Acked(s, j, a.index, a.entry.term)
                \/ TermOf(s.log[j], Len(s.log[j])) > a.entry.term
                => Holds(s.log[j], a.index, a.entry.term)

\* A message of a later term agrees with it and reaches past it; a message of its
\* own term or a later one that starts at or above it starts with no earlier term.
ChoosableIsSent(s) ==
    \A a \in Chains(s), m \in s.msgs :
        IsAppend(m) =>
            /\ a.index <= m.prevIndex =>
                  \/ a.entry.term > m.term
                  \/ a.entry.term < m.term /\ ~Choosable(s, a.index, a.entry.term)
                  \/ m.prevTerm >= a.entry.term
            /\ a.entry.term < m.term /\ Choosable(s, a.index, a.entry.term) =>
                  /\ a.index < MsgLast(m)
                  /\ m.prevIndex <= a.index => MsgTerm(m, a.index) = a.entry.term

\* A candidate with the vote of a node that acknowledged it holds it.
ChoosableIsVoted(s) ==
    \A a \in Chains(s), b \in s.ballots :
        /\ Choosable(s, a.index, a.entry.term)
        /\ a.entry.term < b.term
        /\ s.term[b.candidate] = b.term /\ s.role[b.candidate] = "CANDIDATE"
        /\ Acked(s, b.voter, a.index, a.entry.term)
        => Holds(s.log[b.candidate], a.index, a.entry.term)

\* What node i has committed is part of a log that a majority acknowledged.
CommittedAt(s, i) ==
    s.commit[i] > 0 =>
        /\ s.commit[i] <= Len(s.log[i])
        /\ \E x \in Server, n \in Nat, t \in Nat :
              /\ s.commit[i] <= n /\ t <= s.term[i] /\ Evidence(s, x, n, t)
              /\ \A k \in 1 .. s.commit[i] : s.log[x][k] = s.log[i][k]

CommittedIsChosen(s) == \A i \in Server : CommittedAt(s, i)

\* A message carries the leader's log into the leader's own term.
ReachesTerm(s) ==
    \A m \in s.msgs : IsAppend(m) => MsgTerm(m, MsgLast(m)) = m.term

\* The invariant of a view.
Sound(s) ==
    /\ Linked(s)
    /\ VotesBind(s)
    /\ LeadersLead(s)
    /\ AcksTrue(s)
    /\ CandidatesTrue(s)
    /\ AppendsTrue(s)
    /\ ChoosableIsHeld(s)
    /\ ChoosableIsSent(s)
    /\ ChoosableIsVoted(s)
    /\ CommittedIsChosen(s)
    /\ ReachesTerm(s)

-----------------------------------------------------------------------------
(* Steps between views.                                                    *)

\* m was just sent by its sender, the leader, out of its log.
SentBy(u, m) ==
    LET i == m.from IN
    /\ i \in Server /\ u.role[i] = "LEADER" /\ m.term = u.term[i]
    /\ MsgLast(m) <= Len(u.log[i])
    /\ m.prevTerm = TermOf(u.log[i], m.prevIndex)
    /\ \A k \in 1 .. Len(m.entries) : m.entries[k] = u.log[i][m.prevIndex + k]
    /\ m.commit = u.commit[i]

\* What all steps have in common.
Onward(s, u) ==
    /\ Shape(s) /\ Shape(u)
    /\ \A i \in Server : s.term[i] <= u.term[i]
    /\ s.elected \subseteq u.elected /\ s.acks \subseteq u.acks /\ s.ballots \subseteq u.ballots
    /\ \A e \in u.elected : e \in s.elected \/ s.term[e.leader] <= e.term
    /\ \A a \in u.acks : a \in s.acks \/ s.term[a.node] <= a.term
    /\ \A m \in u.msgs : IsAppend(m) => m \in s.msgs \/ SentBy(u, m)

Keeps(s, u, i, n) ==
    n <= Len(s.log[i]) /\ n <= Len(u.log[i]) /\ \A k \in 1 .. n : u.log[i][k] = s.log[i][k]

\* Nobody drops an entry that it acknowledged and that may still be chosen, or that
\* is committed.
KeepsChosen(s, u) ==
    \A i \in Server :
        /\ Keeps(s, u, i, s.commit[i])
        /\ \A n \in Nat, t \in Nat :
              Holds(s.log[i], n, t) /\ Acked(s, i, n, t) /\ Choosable(s, n, t) =>
                  Keeps(s, u, i, n)

\* What every step may assume.
Follows(s, u) == Sound(s) /\ Onward(s, u) /\ VotesBind(u) /\ ReachesTerm(u)

\* A leader was leader before, or is the candidate just elected.
LeadersWere(s, u) ==
    \A i \in Server :
        u.role[i] = "LEADER" =>
            /\ u.term[i] = s.term[i] /\ Len(s.log[i]) <= Len(u.log[i])
            /\ s.role[i] = "LEADER" \/ s.role[i] = "CANDIDATE"

\* A new link is of no later leader's concern.
FreshTo(s, u, a) ==
    \A m \in s.msgs :
        IsAppend(m) =>
            /\ a.entry.term < m.term => ~Choosable(u, a.index, a.entry.term)
            /\ a.entry.term = m.term => a.index > m.prevIndex

-----------------------------------------------------------------------------
(* Steps that leave the logs alone: voting, asking for votes, stepping down,  *)
(* sending out of a leader's log, counting acknowledgements.               *)

\* A request for votes just sent.
AsksTruly(u, m) ==
    /\ m.from \in Server /\ m.term = u.term[m.from]
    /\ m.lastIndex = Len(u.log[m.from])
    /\ m.lastTerm = TermOf(u.log[m.from], Len(u.log[m.from]))

\* A vote given to the sender of a request that is up to date with the voter's log.
GivenFor(s, b, m) ==
    LET W == s.log[b.voter] IN
    /\ m.type = "RequestVote" /\ ~m.preVote /\ m.from = b.candidate /\ m.term = b.term
    /\ \/ m.lastTerm > TermOf(W, Len(W))
       \/ m.lastTerm = TermOf(W, Len(W)) /\ m.lastIndex >= Len(W)

\* The vote of a new candidate for itself.
OwnVote(s, u, b) ==
    b.voter = b.candidate /\ s.term[b.voter] < b.term /\ u.term[b.voter] = b.term

\* A leader commits an entry of its term that its match indices put on a majority.
CommitsAt(s, u, i) ==
    /\ u.role[i] = "LEADER" /\ Holds(s.log[i], u.commit[i], u.term[i])
    /\ \E Q \in SUBSET Server :
          Cardinality(Q) >= Majority /\ \A j \in Q : j = i \/ u.match[i][j] >= u.commit[i]

Still(s, u) ==
    /\ u.log = s.log /\ u.elected = s.elected /\ u.acks = s.acks
    /\ \A i \in Server :
          u.role[i] = "LEADER" => s.role[i] = "LEADER" /\ u.term[i] = s.term[i]
    /\ \A i \in Server :
          u.role[i] = "CANDIDATE" =>
              (s.role[i] = "CANDIDATE" /\ u.term[i] = s.term[i]) \/ s.term[i] < u.term[i]
    /\ \A m \in u.msgs :
          /\ m.type = "RequestVote" /\ ~m.preVote => m \in s.msgs \/ AsksTruly(u, m)
          /\ m.type = "AppendEntriesResp" /\ m.success => m \in s.msgs
    /\ \A b \in u.ballots :
          b \in s.ballots \/ OwnVote(s, u, b) \/ \E m \in s.msgs : GivenFor(s, b, m)
    /\ \A i, j \in Server :
          u.role[i] = "LEADER" /\ i # j =>
              \/ u.match[i][j] = s.match[i][j]
              \/ [node |-> j, term |-> u.term[i], index |-> u.match[i][j]] \in s.acks
    /\ \A i \in Server : u.commit[i] = s.commit[i] \/ CommitsAt(s, u, i)

-----------------------------------------------------------------------------
(* A leader appends to its log: a submitted entry, or the no-op entry with    *)
(* which it takes office.                                                  *)

\* The link a leader adds.
NewLink(s, u, i) ==
    Link(Len(s.log[i]) + 1, TermOf(s.log[i], Len(s.log[i])), u.log[i][Len(s.log[i]) + 1])

Pushes(s, u, i) ==
    /\ i \in Server /\ u.role[i] = "LEADER"
    /\ Len(u.log[i]) = Len(s.log[i]) + 1
    /\ \A k \in 1 .. Len(s.log[i]) : u.log[i][k] = s.log[i][k]
    /\ u.log[i][Len(s.log[i]) + 1].term = s.term[i]
    /\ u.log[i][Len(s.log[i]) + 1].index = Len(s.log[i]) + 1
    /\ \A j \in Server : u.term[j] = s.term[j] /\ u.commit[j] = s.commit[j]
    /\ \A j \in Server \ {i} :
          u.log[j] = s.log[j] /\ u.role[j] = s.role[j] /\ u.match[j] = s.match[j]
    /\ u.acks = s.acks /\ u.ballots = s.ballots
    /\ \/ /\ s.role[i] = "LEADER" /\ u.elected = s.elected
          /\ \A j \in Server \ {i} : u.match[i][j] = s.match[i][j]
       \/ /\ s.role[i] = "CANDIDATE"
          /\ u.elected = s.elected \union {[term |-> s.term[i], leader |-> i]}
          /\ \A j \in Server \ {i} : u.match[i][j] = 0
    /\ \A m \in u.msgs :
          \/ m.type = "RequestVote" /\ ~m.preVote
          \/ m.type = "AppendEntriesResp" /\ m.success
          => m \in s.msgs

OnlyLeader(u, t, i) == \A e \in u.elected : e.term = t => e.leader = i

NoLeader(s, t) == \A e \in s.elected : e.term # t

-----------------------------------------------------------------------------
(* A follower accepts a message.                                           *)

\* The follower m.to, compacted up to b, has the entry before those of m and, from b
\* on, those of m before f.  At f the log is cut and the rest of m appended, unless
\* nothing of m is new.
Joins(W, V, m, b, f) ==
    LET p == m.prevIndex
        q == MsgLast(m)
    IN  /\ f \in p + 1 .. q + 1 /\ f - 1 <= Len(W)
        /\ b <= p => TermOf(W, p) = m.prevTerm
        /\ \A y \in p + 1 .. f - 1 : b < y => W[y].term = MsgTerm(m, y)
        /\ f = q + 1 => V = W
        /\ f <= q =>
              /\ b < f /\ (f <= Len(W) => W[f].term # MsgTerm(m, f))
              /\ Len(V) = q
              /\ \A k \in 1 .. f - 1 : V[k] = W[k]
              /\ \A k \in f .. q : V[k] = m.entries[k - p]

Accepts(s, u, m) ==
    LET j == m.to IN
    /\ m \in s.msgs /\ IsAppend(m)
    /\ s.term[j] <= m.term /\ u.term[j] = m.term /\ u.role[j] = "FOLLOWER"
    /\ \E b \in Nat, f \in Nat : b <= s.commit[j] /\ Joins(s.log[j], u.log[j], m, b, f)
    /\ u.commit[j] = s.commit[j] \/ (u.commit[j] <= m.commit /\ u.commit[j] <= MsgLast(m))
    /\ \A i \in Server \ {j} :
          /\ u.term[i] = s.term[i] /\ u.role[i] = s.role[i] /\ u.log[i] = s.log[i]
          /\ u.commit[i] = s.commit[i] /\ u.match[i] = s.match[i]
    /\ u.elected = s.elected /\ u.ballots = s.ballots
    /\ u.acks = s.acks \union {[node |-> j, term |-> m.term, index |-> Len(u.log[j])]}
    /\ \A r \in u.msgs :
          /\ IsAppend(r) => r \in s.msgs
          /\ r.type = "RequestVote" /\ ~r.preVote => r \in s.msgs
          /\ r.type = "AppendEntriesResp" /\ r.success =>
                r \in s.msgs \/ (r.from = j /\ r.term = m.term /\ r.lastIndex = Len(u.log[j]))

\* Where the log is cut, no entry is lost that is committed, or of the message's
\* term, or that may still be chosen.
NothingLost(s, m, f) ==
    LET j == m.to IN
    f <= MsgLast(m) =>
        /\ s.commit[j] < f
        /\ \A n, t : /\ Holds(s.log[j], n, t)
                     /\ t = m.term \/ (t < m.term /\ Choosable(s, n, t))
                     => n < f

\* The follower's log after the message: the message and what the follower had up
\* to it.
Carries(W, V, m) ==
    /\ MsgLast(m) <= Len(V) /\ m.prevIndex <= Len(W) /\ m.prevIndex <= Len(V)
    /\ TermOf(V, m.prevIndex) = m.prevTerm
    /\ \A k \in 1 .. m.prevIndex : V[k] = W[k]
    /\ \A y \in m.prevIndex + 1 .. MsgLast(m) :
          V[y] = m.entries[y - m.prevIndex] /\ V[y].term = MsgTerm(m, y)

-----------------------------------------------------------------------------
(* The whole log of a node: what it applied and compacted, and what is live. *)

WholeOf(L, h) == [k \in 1 .. LastIndex(L) |-> IF k <= L.base THEN h[k] ELSE EntryAt(L, k)]

\* The state machine h holds the log L up to c; what was compacted is part of it.
Stored(L, h, c) ==
    /\ L.base <= c /\ c = Len(h) /\ c <= LastIndex(L)
    /\ L.term = TermOf(h, L.base)
    /\ \A k \in L.base + 1 .. c : h[k] = EntryAt(L, k)

(* Applying, compacting, appending and sending, on the whole log.          *)

Compacted(L, n) == CompactTo(L, n, TermAt(L, n))

\* What apply_committed leaves of the log, and the state machine it leaves.
Trimmed(L, n) == IF Compacts(L, n) THEN Compacted(L, n) ELSE L

Grown(L, h, c, n) == h \o EntriesBetween(L, c, n)

\* The store (L, h, c) became (R, g, n), with the same whole log.
Kept(L, h, c, R, g, n) ==
    /\ R \in Log /\ g \in Seq(Entry) /\ Stored(R, g, n) /\ WholeOf(R, g) = WholeOf(L, h)
    /\ LastIndex(R) = LastIndex(L) /\ L.base <= R.base
    /\ \A k \in 1 .. c : g[k] = h[k]

\* The append loop, on the whole log: nothing new, or the log up to the first new
\* entry followed by the rest of the message, which fits into the ring.
Appended(L, m) == AppendFrom(L, m.prevIndex, m.entries)

AppendsAt(L, h, m, f) ==
    LET R == Appended(L, m) IN
    /\ R \in Log /\ R.base = L.base /\ R.term = L.term
    /\ Joins(WholeOf(L, h), WholeOf(R, h), m, L.base, f)
    /\ f \in m.prevIndex + 1 .. MsgLast(m) + 1 /\ f - 1 <= LastIndex(L)
    /\ f = MsgLast(m) + 1 => R = L
    /\ f <= MsgLast(m) =>
          /\ LastIndex(R) = MsgLast(m) /\ L.base < f
          /\ \A k \in L.base + 1 .. f - 1 : EntryAt(R, k) = EntryAt(L, k)

\* What send_append_entries puts into a message is part of the whole log.
Quotes(m, W) ==
    /\ MsgLast(m) <= Len(W) /\ m.prevTerm = TermOf(W, m.prevIndex)
    /\ \A k \in 1 .. Len(m.entries) : m.entries[k] = W[m.prevIndex + k]

-----------------------------------------------------------------------------
(* The view of a state.                                                    *)

Whole == [i \in Server |-> WholeOf(log[i], applied[i])]

View ==
    [term |-> currentTerm, role |-> role, log |-> Whole, commit |-> commitIndex,
     match |-> matchIndex, msgs |-> messages, ballots |-> ballots, elected |-> elected,
     acks |-> acks]

\* What a node has applied is its log up to its commit index.
StoreOK ==
    \A i \in Server :
        Stored(log[i], applied[i], commitIndex[i]) /\ lastApplied[i] = commitIndex[i]

\* A leader's own match index, which it does not look at, is in its log.
OwnMatch == \A i \in Server : role[i] = "LEADER" => matchIndex[i][i] <= LastIndex(log[i])

\* Without snapshots in flight there are no answers to them.
NoAnswers == \A m \in messages : m.type # "InstallSnapshotResp"

CommitInv == StoreOK /\ OwnMatch /\ NoAnswers /\ Sound(View)

-----------------------------------------------------------------------------
(* Steps of the specification as steps between views.                      *)

\* What every step may assume.
Steps ==
    /\ TypeOK /\ TypeOK' /\ CommitInv /\ ElectionInv' /\ ElectionSafety' /\ VoteKept
    /\ Steady /\ Steady' /\ ToAnother(messages)

\* Commit indices and snapshot edges do not go back.
Forward ==
    \A i \in Server : commitIndex'[i] >= commitIndex[i] /\ log'[i].base >= log[i].base

\* What every step achieves.
Safely == CommitInv' /\ KeepsChosen(View, View') /\ Forward

\* Nothing is appended or cut; entries may be applied, and compacted.
SameWhole ==
    /\ Forward
    /\ \A i \in Server : WholeOf(log'[i], applied'[i]) = WholeOf(log[i], applied[i])

\* Messages that say nothing about logs.
Passive(m) ==
    /\ ~IsAppend(m) /\ m.type # "InstallSnapshotResp"
    /\ ~(m.type = "RequestVote" /\ ~m.preVote)
    /\ ~(m.type = "AppendEntriesResp" /\ m.success)

Told(m) ==
    \/ Passive(m)
    \/ IsAppend(m) /\ SentBy(View', m)
    \/ m.type = "RequestVote" /\ AsksTruly(View', m)

MessagesTold == \A m \in messages' : m \in messages \/ Told(m)

RolesStill ==
    \A i \in Server :
        /\ role'[i] = "LEADER" => role[i] = "LEADER" /\ currentTerm'[i] = currentTerm[i]
        /\ role'[i] = "CANDIDATE" =>
              \/ role[i] = "CANDIDATE" /\ currentTerm'[i] = currentTerm[i]
              \/ currentTerm[i] < currentTerm'[i]

BallotsStill ==
    /\ ballots \subseteq ballots'
    /\ \A b \in ballots' :
          b \in ballots \/ OwnVote(View, View', b) \/ \E m \in messages : GivenFor(View, b, m)

MatchStill ==
    \A i, j \in Server :
        role'[i] = "LEADER" /\ i # j =>
            \/ matchIndex'[i][j] = matchIndex[i][j]
            \/ [node |-> j, term |-> currentTerm'[i], index |-> matchIndex'[i][j]] \in acks

CommitStill ==
    \A i \in Server : commitIndex'[i] = commitIndex[i] \/ CommitsAt(View, View', i)

\* What the earlier theorems add to a step of the specification.
Elections == TypeOK /\ ElectionInv /\ ElectionSafety /\ ToAnother(messages)

=============================================================================
