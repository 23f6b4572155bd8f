---------------------------- MODULE MCRaftSlices ----------------------------
(***************************************************************************)
(* Slices of RaftServer: each keeps the part of Next its question is       *)
(* about.  Every behaviour of these specifications is a behaviour of Spec. *)
(*                                                                         *)
(* The nodes time out in a fixed order, which tells the slices apart; it   *)
(* is chosen at the start and empty where any node may time out.           *)
(***************************************************************************)
EXTENDS RaftServer, TLC

CONSTANTS n1, n2, n3

VARIABLE order

Symmetry == Permutations({n1, n2, n3})

\* States but for acks: no step looks at it, and no property beyond its type.
WithoutAcks ==
    <<order, voteVars, logVars, peerVars, messages, ballots, elected, spent>>

TimeoutInOrder ==
    /\ spent.timeouts < Len(order)
    /\ ElectionTimeout(order[spent.timeouts + 1])

\* At most one message is in flight.
Sparse == Cardinality(messages') <= 1

-----------------------------------------------------------------------------
(* Elections among nodes that crash: no submits, no heartbeats.            *)
ElectionNext ==
    \/ \E i \in Server : \/ Restart(i)
                         \/ LeaderLosesContact(i)
                         \/ ElectionTimeout(i)
                         \/ Tick(i)
    \/ \E m \in messages : Receive(m)

(* A leader compacts while another node lags; a second one may depose it   *)
(* in the middle of the transfer of its snapshot and transfer its own.     *)
TransferNext ==
    \/ TimeoutInOrder
    \/ \E i \in {order[1], order[2]} : Heartbeat(i)
    \/ \E v \in Value : Submit(order[1], v)
    \/ \E m \in messages : (m.type = "RequestVote" => m.to # order[1]) /\ Receive(m)

ElectionOrTransfer ==
    /\ \/ order = <<>> /\ ElectionNext
       \/ order # <<>> /\ TransferNext /\ Sparse
    /\ UNCHANGED order

ElectionInit == Init /\ order \in {<<>>} \union {o \in Server \X Server : o[1] # o[2]}

ElectionSpec == ElectionInit /\ [][ElectionOrTransfer]_<<vars, order>>

\* Transfers alone, with more messages in flight.
TransferOnly == TransferNext /\ UNCHANGED order

TransferInit == Init /\ order = <<n1, n2>>

TransferSpec == TransferInit /\ [][TransferOnly]_<<vars, order>>

-----------------------------------------------------------------------------
(* Leaders with entries: n1 and n2 lead, n3 elects them.                   *)
TwoTerms   == <<n1, n2>>
ThreeTerms == <<n1, n2, n2>>
FourTerms  == <<n1, n2, n2, n1, n1, n2, n2>>

Delivery == \E m \in messages : (m.type = "RequestVote" => m.to = n3) /\ Receive(m)

\* A deposed leader and its successor, whose only entry is its NOOP, with
\* overtaken and repeated messages.
TwoTermNext ==
    \/ TimeoutInOrder
    \/ spent.heartbeats = 0 /\ \E i \in {n1, n2} : Heartbeat(i)
    \/ \E v \in Value : Submit(n1, v)
    \/ Delivery

\* n2 leads twice: its log may part from n1's below the entries of its own term.
ThreeTermNext ==
    \/ TimeoutInOrder
    \/ LeaderLosesContact(n2)
    \/ \E i \in {n1, n2} : Heartbeat(i)
    \/ \E i \in {n1, n2}, v \in Value : Submit(i, v)
    \/ Delivery

\* n1 and n2 lead in turn and hear nothing of each other; a node that was away
\* needs a timeout to catch up with the term.  n1 starts with a batch of two.
FourTermNext ==
    \/ TimeoutInOrder
    \/ spent.timeouts = 1 /\ LastIndex(log[n1]) < 2 /\ \E v \in Value : Submit(n1, v)
    \/ \E i \in {n1, n2} : LeaderLosesContact(i) \/ Heartbeat(i)
    \/ \E m \in messages : n3 \in {m.from, m.to} /\ Receive(m)

Replication ==
    /\ \/ order = TwoTerms /\ TwoTermNext
       \/ order = ThreeTerms /\ ThreeTermNext /\ Sparse
       \/ order = FourTerms /\ FourTermNext /\ Sparse
    /\ UNCHANGED order

ReplicationInit == Init /\ order \in {TwoTerms, ThreeTerms, FourTerms}

ReplicationSpec == ReplicationInit /\ [][Replication]_<<vars, order>>

\* Two leaders with a restart of the voter they share.
RestartNext ==
    /\ \/ TwoTermNext
       \/ \E i \in {n1, n2} : Heartbeat(i)
       \/ Restart(n3)
    /\ UNCHANGED order

RestartInit == Init /\ order = TwoTerms

RestartSpec == RestartInit /\ [][RestartNext]_<<vars, order>>
=============================================================================
