--------------------------- MODULE RaftTransport ----------------------------
(***************************************************************************)
(* How a Raft message gets from one fog node to another: the table of      *)
(* peers the sender keeps from Thread's network data (NetworkService), the *)
(* signature (CoapServer, TrustedDeviceStore), the CoAP message, and the   *)
(* receiver's queue, filled in the context of OpenThread and drained by a  *)
(* work item (Engine, MessageQueue, WorkTask).                             *)
(*                                                                         *)
(* One node sends, the other nodes, the peers, receive.  Nodes start and   *)
(* restart; a start that fails half-way leaves a node without its CoAP     *)
(* resources and without an advertisement, but running.                    *)
(***************************************************************************)
EXTENDS Integers, FiniteSets, SequencesExt

CONSTANTS
    Sender,         \* the node that sends
    Peer,           \* the nodes it sends to
    Msg,            \* the messages it sends, each once: the peer and a number
    NoAddr,         \* no address
    TRUSTED_DEVICES,\* the sequence of nodes whose keys are provisioned
    MaxKeys,        \* TrustedDeviceStore::MAX_PEERS, 8
    MaxPeers,       \* NetworkService::MAX_PEERS, 3
    PeerTimeout,    \* PEER_TIMEOUT_MS in rounds of discovery, 2
    QueueDepth,     \* QUEUE_DEPTH, 8
    MaxStarts       \* bound: starts and restarts of all nodes

ASSUME RaftTransportAssumption ==
    /\ IsFiniteSet(Peer) /\ Sender \notin Peer
    /\ NoAddr \notin [of : Peer, start : Nat]
    /\ Msg \subseteq Peer \X Nat
    /\ {MaxKeys, MaxPeers, QueueDepth} \subseteq Nat \ {0}
    /\ {PeerTimeout, MaxStarts} \subseteq Nat
    /\ TRUSTED_DEVICES \in Seq(Peer \union {Sender})

Dest(m) == m[1]     \* Message::to

VARIABLES
    table,      \* the sender's m_peers
    key,        \* whether the sender's key pair is in m_my_key_id
    addr,       \* the address of each peer
    adv,        \* the address each peer is advertised with in the network data
    open,       \* whether the peer has registered its CoAP resources
    trusted,    \* the nodes whose keys are in the peer's TrustedDeviceStore
    rx,         \* the peer's m_rx_queue
    ot,         \* whether OpenThread's thread is between try_put and submit
    work,       \* m_message_pending_work: idle, queued, running or returning
    again,      \* it was submitted while it ran
    net,        \* messages on the air
    starts,     \* number of starts so far
    sent,       \* history: messages sent
    handled     \* history: messages each peer passed to Server::handle

receiver == <<addr, adv, open, trusted>>
queue    == <<rx, ot, work, again>>
vars     == <<table, key, receiver, queue, net, starts, sent, handled>>

-----------------------------------------------------------------------------
(* NetworkService.                                                         *)

Slot == 1 .. MaxPeers
EmptySlot == [eui |-> Sender, addr |-> NoAddr, age |-> 0, valid |-> FALSE]

Lowest(S) == CHOOSE k \in S : \A j \in S : k <= j

\* Variant: a free slot is taken before the others are searched.
find_or_create_free_first(t, p) ==
    LET mine == {k \in Slot : t[k].valid /\ t[k].eui = p}
        free == {k \in Slot : ~t[k].valid}
    IN  IF free # {} THEN Lowest(free) ELSE IF mine # {} THEN Lowest(mine) ELSE 0

\* find_or_create_peer: the slot, or 0 when the table is full.
find_or_create_peer(t, p) ==
    LET mine == {k \in Slot : t[k].valid /\ t[k].eui = p}
        free == {k \in Slot : ~t[k].valid}
    IN  IF mine # {} THEN Lowest(mine) ELSE IF free # {} THEN Lowest(free) ELSE 0

\* One service of the network data.
see(t, p) ==
    LET k == find_or_create_peer(t, p)
    IN  IF k = 0 THEN t
        ELSE [t EXCEPT ![k] = [eui |-> p, addr |-> adv[p], age |-> 0, valid |-> TRUE]]

\* Variant: peers stay once they are in the table.
prune_nothing(t) == t

\* prune_stale_peers.
prune_stale_peers(t) ==
    [k \in Slot |-> IF t[k].valid /\ t[k].age > PeerTimeout
                    THEN [t[k] EXCEPT !.valid = FALSE] ELSE t[k]]

\* The time since last_seen_ms, in rounds.
Older(t) ==
    [k \in Slot |-> [t[k] EXCEPT !.age = IF t[k].valid /\ @ <= PeerTimeout THEN @ + 1 ELSE @]]

\* The tables that the services of the nodes in S may lead to, whatever the order
\* in which the network data lists them.
seen[S \in SUBSET Peer] ==
    IF S = {} THEN {Older(table)}
    ELSE UNION {{see(t, p) : t \in seen[S \ {p}]} : p \in S}

SeeAll == seen[{p \in Peer : adv[p] # NoAddr}]

\* discover_peers, once a second.
discover_peers ==
    /\ table' \in {prune_stale_peers(t) : t \in SeeAll}
    /\ UNCHANGED <<key, receiver, queue, net, starts, sent, handled>>

\* Variant: the first peer of the table, whichever it is.
get_addr_any(p) ==
    LET ks == {k \in Slot : table[k].valid}
    IN  IF ks = {} THEN NoAddr ELSE table[Lowest(ks)].addr

get_addr_from_eui(p) ==
    LET ks == {k \in Slot : table[k].valid /\ table[k].eui = p}
    IN  IF ks = {} THEN NoAddr ELSE table[Lowest(ks)].addr

-----------------------------------------------------------------------------
(* TrustedDeviceStore and CoapServer.                                      *)

\* Whether derive_identity_seed yields the seed, which comes from the EUI and the
\* hardware and is the same at every start: one of its calls may fail.
derive_identity_seed == BOOLEAN

\* init: the key pair is volatile, so it is imported again at every start.  Without
\* a seed, or when the import fails, m_my_key_id stays 0.
load_key ==
    \E derived \in derive_identity_seed, imported \in BOOLEAN :
        key' = (derived /\ imported)

\* trust_peers: the keys in the store when trust_peer has succeeded n times.
trust_peers(n) == {TRUSTED_DEVICES[k] : k \in 1 .. n}

\* The numbers of keys that trust_peers may come to: an import fails, or the store
\* is full, and the rest is left out.
Imported == {n \in 0 .. Len(TRUSTED_DEVICES) : n <= MaxKeys}

\* send_msg, coap_put and sign: a message for a peer that is not in the table is
\* dropped, and one that is not signed, for want of a key or because a call fails.
send_msg(m) ==
    /\ m \notin sent
    /\ sent' = sent \union {m}
    /\ LET a == get_addr_from_eui(Dest(m))
       IN  \E signed \in BOOLEAN :
               /\ signed => key
               /\ net' = IF a = NoAddr \/ ~signed THEN net
                         ELSE net \union {[msg |-> m, addr |-> a]}
    /\ UNCHANGED <<table, key, receiver, queue, starts, handled>>

\* The envelope arrives: decode_response, with verify, which fails for a sender that
\* is not in the store and may fail for another; Engine::receive up to try_put.
receive(x, p) ==
    /\ addr[p] = x.addr
    /\ open[p] /\ ot[p] = "idle"
    /\ net' = net \ {x}
    /\ \E verified \in BOOLEAN :
           /\ verified => Sender \in trusted[p]
           /\ IF verified /\ Len(rx[p]) < QueueDepth
              THEN /\ rx' = [rx EXCEPT ![p] = Append(@, x.msg)]
                   /\ ot' = [ot EXCEPT ![p] = "submit"]
              ELSE UNCHANGED <<rx, ot>>
    /\ UNCHANGED <<table, key, receiver, work, again, starts, sent, handled>>

\* Variant: a work item that runs is not queued again.
submit_idle_only(p) ==
    /\ ot[p] = "submit"
    /\ ot' = [ot EXCEPT ![p] = "idle"]
    /\ work' = [work EXCEPT ![p] = IF @ = "idle" THEN "queued" ELSE @]
    /\ UNCHANGED <<table, key, receiver, rx, again, net, starts, sent, handled>>

\* m_message_pending_work.submit().
submit(p) ==
    /\ ot[p] = "submit"
    /\ ot' = [ot EXCEPT ![p] = "idle"]
    /\ work' = [work EXCEPT ![p] = IF @ = "idle" THEN "queued" ELSE @]
    /\ again' = [again EXCEPT ![p] = @ \/ work[p] \in {"running", "returning"}]
    /\ UNCHANGED <<table, key, receiver, rx, net, starts, sent, handled>>

-----------------------------------------------------------------------------
(* Engine::drain on the work queue.                                        *)

drain_start(p) ==
    /\ work[p] = "queued"
    /\ work' = [work EXCEPT ![p] = "running"]
    /\ UNCHANGED <<table, key, receiver, rx, ot, again, net, starts, sent, handled>>

drain_get(p) ==
    /\ work[p] = "running"
    /\ rx[p] # <<>>
    /\ rx' = [rx EXCEPT ![p] = Tail(@)]
    /\ handled' = [handled EXCEPT ![p] = Append(@, Head(rx[p]))]
    /\ UNCHANGED <<table, key, receiver, ot, work, again, net, starts, sent>>

\* drain finds the queue empty and returns.
drain_empty(p) ==
    /\ work[p] = "running"
    /\ rx[p] = <<>>
    /\ work' = [work EXCEPT ![p] = "returning"]
    /\ UNCHANGED <<table, key, receiver, rx, ot, again, net, starts, sent, handled>>

\* The work queue is done with the item, and queues it again if it was submitted.
drain_end(p) ==
    /\ work[p] = "returning"
    /\ work' = [work EXCEPT ![p] = IF again[p] THEN "queued" ELSE "idle"]
    /\ again' = [again EXCEPT ![p] = FALSE]
    /\ UNCHANGED <<table, key, receiver, rx, ot, net, starts, sent, handled>>

-----------------------------------------------------------------------------
(* Starts.                                                                 *)

\* Application::init and start() of a peer, whose address may have changed.  A step
\* of init that fails returns early, with the n keys it has imported and before
\* resources and advertisement; start() runs all the same.
start_peer(p, n, ok) ==
    /\ starts < MaxStarts
    /\ ok => n = Len(TRUSTED_DEVICES)
    /\ ok => Cardinality({q \in Peer \ {p} : adv[q] # NoAddr}) < MaxPeers
    /\ starts' = starts + 1
    /\ addr' = [addr EXCEPT ![p] = [of |-> p, start |-> starts']]
    /\ adv' = [adv EXCEPT ![p] = IF ok THEN addr'[p] ELSE @]
    /\ open' = [open EXCEPT ![p] = ok]
    /\ trusted' = [trusted EXCEPT ![p] = trust_peers(n)]
    /\ rx' = [rx EXCEPT ![p] = <<>>]
    /\ ot' = [ot EXCEPT ![p] = "idle"]
    /\ work' = [work EXCEPT ![p] = "idle"]
    /\ again' = [again EXCEPT ![p] = FALSE]
    /\ UNCHANGED <<table, key, net, sent, handled>>

\* The sender starts again, with or without its key.
start_sender ==
    /\ starts < MaxStarts
    /\ starts' = starts + 1
    /\ table' = [k \in Slot |-> EmptySlot]
    /\ load_key
    /\ UNCHANGED <<receiver, queue, net, sent, handled>>

\* Thread's leader removes the service of a node that is gone.
withdraw(p) ==
    /\ adv[p] # NoAddr
    /\ adv' = [adv EXCEPT ![p] = NoAddr]
    /\ starts < MaxStarts
    /\ starts' = starts + 1
    /\ UNCHANGED <<table, key, addr, open, trusted, queue, net, sent, handled>>

\* A message is lost on the air.
lose(x) ==
    /\ net' = net \ {x}
    /\ UNCHANGED <<table, key, receiver, queue, starts, sent, handled>>

-----------------------------------------------------------------------------
\* The sender runs; no peer has started yet.
Init ==
    /\ table = [k \in Slot |-> EmptySlot]
    /\ key = TRUE
    /\ addr = [p \in Peer |-> NoAddr]
    /\ adv = [p \in Peer |-> NoAddr]
    /\ open = [p \in Peer |-> FALSE]
    /\ trusted = [p \in Peer |-> {}]
    /\ rx = [p \in Peer |-> <<>>]
    /\ ot = [p \in Peer |-> "idle"]
    /\ work = [p \in Peer |-> "idle"]
    /\ again = [p \in Peer |-> FALSE]
    /\ net = {}
    /\ starts = 0
    /\ sent = {}
    /\ handled = [p \in Peer |-> <<>>]

Next ==
    \/ discover_peers
    \/ \E m \in Msg : send_msg(m)
    \/ \E x \in net, p \in Peer : receive(x, p)
    \/ \E p \in Peer : submit(p)
    \/ \E p \in Peer : drain_start(p)
    \/ \E p \in Peer : drain_get(p)
    \/ \E p \in Peer : drain_empty(p)
    \/ \E p \in Peer : drain_end(p)
    \/ \E p \in Peer, n \in Imported, ok \in BOOLEAN : start_peer(p, n, ok)
    \/ start_sender
    \/ \E p \in Peer : withdraw(p)
    \/ \E x \in net : lose(x)

Spec == Init /\ [][Next]_vars

\* The periodic discovery goes on.
FairSpec == Spec /\ WF_vars(discover_peers)

-----------------------------------------------------------------------------
\* The values the variables take.
TypeOK ==
    /\ \A k \in Slot : /\ table[k].eui \in Peer \union {Sender}
                       /\ table[k].age \in 0 .. PeerTimeout + 1
                       /\ table[k].valid \in BOOLEAN
    /\ \A p \in Peer : /\ rx[p] \in Seq(Msg) /\ Len(rx[p]) <= QueueDepth
                       /\ handled[p] \in Seq(Msg)
                       /\ trusted[p] \subseteq Peer \union {Sender}
    /\ ot \in [Peer -> {"idle", "submit"}]
    /\ work \in [Peer -> {"idle", "queued", "running", "returning"}]
    /\ again \in [Peer -> BOOLEAN]
    /\ open \in [Peer -> BOOLEAN]
    /\ sent \subseteq Msg /\ key \in BOOLEAN

\* The table never holds two valid entries for a node, of which get_addr_from_eui
\* would go on using the older: no order of the services in the network data
\* and no pruning in between brings it about.
OneEntryPerPeer ==
    \A j, k \in Slot :
        table[j].valid /\ table[k].valid /\ table[j].eui = table[k].eui => j = k

\* No message stays behind in a receive queue: when there is one, the work item
\* that drains the queue is due, will be queued again when it returns, or is about to
\* be submitted, also when the message came after drain had found the queue empty.
NothingStranded ==
    \A p \in Peer :
        rx[p] # <<>> => work[p] \in {"queued", "running"} \/ again[p] \/ ot[p] = "submit"

\* A peer that stays advertised, with one address, is in the end found under that
\* address and no other, also when the table was full of nodes that are gone.
AdvertisedIsFound ==
    \A p \in Peer :
        <>[](adv[p] # NoAddr) => <>[](get_addr_from_eui(p) = adv[p])

\* The transport is the channel RaftServer takes it for.
Status(m) ==
    IF m \notin sent THEN "unsent"
    ELSE IF \E p \in Peer : m \in ToSet(handled[p]) THEN "delivered"
    ELSE IF (\E x \in net : x.msg = m) \/ (\E p \in Peer : m \in ToSet(rx[p])) THEN "transit"
    ELSE "lost"

Channel == INSTANCE LossyChannel WITH
    Node   <- Peer,
    status <- [m \in Msg |-> Status(m)],
    got    <- handled

ImplementsChannel == Channel!Spec
=============================================================================
