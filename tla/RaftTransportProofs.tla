------------------------ MODULE RaftTransportProofs -------------------------
(***************************************************************************)
(* Proofs about RaftTransport: the sender's table of peers, the receive    *)
(* queue, and that the transport implements LossyChannel.                  *)
(***************************************************************************)
EXTENDS RaftTransport, FiniteSetTheorems, SequenceTheorems, TLAPS

-----------------------------------------------------------------------------
(* The invariant.                                                          *)

Address == [of : Peer, start : Nat]
Entry   == [eui : Peer \union {Sender}, addr : Address \union {NoAddr}, age : Nat,
            valid : BOOLEAN]
Table   == [Slot -> Entry]

\* A table has one valid entry for a node, with an address of that node.
Sound(t) ==
    /\ t \in Table
    /\ \A k \in Slot : t[k].valid => /\ t[k].eui \in Peer
                                     /\ t[k].addr \in Address
                                     /\ t[k].addr.of = t[k].eui
    /\ \A j, k \in Slot : t[j].valid /\ t[k].valid /\ t[j].eui = t[k].eui => j = k

\* A node is advertised and reached under addresses of its own.
Addresses ==
    /\ starts \in Nat
    /\ \A f \in {addr, adv} :
           /\ f \in [Peer -> Address \union {NoAddr}]
           /\ \A p \in Peer : f[p] # NoAddr => f[p].of = p

Queues ==
    /\ rx \in [Peer -> Seq(Msg)]
    /\ handled \in [Peer -> Seq(Msg)]
    /\ ot \in [Peer -> {"idle", "submit"}]
    /\ work \in [Peer -> {"idle", "queued", "running", "returning"}]
    /\ DOMAIN again = Peer

\* What is on the air was sent, to an address of its node.
Air ==
    /\ sent \subseteq Msg
    /\ \A x \in net : /\ x.msg \in sent
                      /\ x.addr \in Address /\ x.addr.of = Dest(x.msg)

\* A message is in one place at most: on the air, in the queue of its node, or
\* handled by it.
OncePerNode(p) ==
    /\ \A m \in ToSet(rx[p]) \union ToSet(handled[p]) : m \in sent /\ Dest(m) = p
    /\ \A m \in ToSet(rx[p]) : m \notin ToSet(handled[p])
    /\ \A i, j \in DOMAIN rx[p] : rx[p][i] = rx[p][j] => i = j
    /\ \A x \in net : x.msg \notin ToSet(rx[p]) /\ x.msg \notin ToSet(handled[p])

Once ==
    /\ \A x, y \in net : x.msg = y.msg => x = y
    /\ \A p \in Peer : OncePerNode(p)

TransportInv ==
    /\ Sound(table) /\ Addresses /\ Queues /\ Air /\ Once
    /\ NothingStranded

-----------------------------------------------------------------------------
(* The table of peers.                                                     *)

\* A set of slots that is not empty has a lowest one.
LEMMA LowestIn ==
    ASSUME NEW S \in SUBSET Nat, S # {}
    PROVE  Lowest(S) \in S
<1>1. PICK k \in S : \A j \in S : <<j, k>> \notin OpToRel(<, Nat)
  BY NatLessThanWellFounded, WFMin
<1>2. \A j \in S : ~(j < k)
  <2>1. SUFFICES ASSUME NEW j \in S, j < k PROVE <<j, k>> \in OpToRel(<, Nat)
    BY <1>1, Zenon
  <2>2. j \in Nat /\ k \in Nat
    OBVIOUS
  <2> QED
    BY <2>1, <2>2, Zenon DEF OpToRel
<1>3. \A j \in S : k <= j
  BY <1>2
<1> QED
  BY <1>3 DEF Lowest

\* The slot for a node is the node's own, or a free one when it has none.
LEMMA SlotFound ==
    ASSUME NEW t, NEW p
    PROVE  LET k == find_or_create_peer(t, p)
           IN  \/ k = 0
               \/ k \in Slot /\ t[k].valid /\ t[k].eui = p
               \/ /\ k \in Slot /\ ~t[k].valid
                  /\ \A j \in Slot : ~(t[j].valid /\ t[j].eui = p)
<1> DEFINE mine == {k \in Slot : t[k].valid /\ t[k].eui = p}
           free == {k \in Slot : ~t[k].valid}
<1>1. mine \in SUBSET Nat /\ free \in SUBSET Nat
  BY RaftTransportAssumption DEF Slot
<1>2. CASE mine # {}
  <2>1. find_or_create_peer(t, p) = Lowest(mine) /\ Lowest(mine) \in mine
    BY <1>1, <1>2, LowestIn DEF find_or_create_peer
  <2> QED
    BY <2>1
<1>3. CASE mine = {} /\ free # {}
  <2>1. find_or_create_peer(t, p) = Lowest(free) /\ Lowest(free) \in free
    BY <1>1, <1>3, LowestIn DEF find_or_create_peer
  <2> QED
    BY <1>3, <2>1
<1>4. CASE mine = {} /\ free = {}
  BY <1>4 DEF find_or_create_peer
<1> QED
  BY <1>2, <1>3, <1>4

\* A service of the network data leaves the table sound.
LEMMA SeeSound ==
    ASSUME NEW t, Sound(t), NEW p \in Peer, adv[p] \in Address, adv[p].of = p
    PROVE  Sound(see(t, p))
<1> DEFINE k == find_or_create_peer(t, p)
           e == [eui |-> p, addr |-> adv[p], age |-> 0, valid |-> TRUE]
<1>1. CASE k = 0
  BY <1>1 DEF see
<1>2. CASE k # 0
  <2>1. k \in Slot /\ \A j \in Slot \ {k} : ~(t[j].valid /\ t[j].eui = p)
    BY <1>2, SlotFound DEF Sound
  <2>2. see(t, p) = [t EXCEPT ![k] = e]
    BY <1>2 DEF see
  <2> HIDE DEF k
  <2>3. e \in Entry /\ e.eui = p /\ e.addr = adv[p] /\ e.valid
    BY DEF Entry
  <2> HIDE DEF e
  <2>4. PICK u : u = [t EXCEPT ![k] = e]
    OBVIOUS
  <2>5. u \in Table /\ u[k] = e /\ \A j \in Slot \ {k} : u[j] = t[j]
    BY <2>1, <2>3, <2>4 DEF Sound, Table
  <2>6. Sound(u)
    BY <2>1, <2>3, <2>5 DEF Sound
  <2> QED
    BY <2>2, <2>4, <2>6
<1> QED
  BY <1>1, <1>2

\* So do the passing of time and the pruning.
LEMMA OlderSound ==
    ASSUME NEW t, Sound(t)
    PROVE  Sound(Older(t))
<1>1. PICK u : u = Older(t)
  OBVIOUS
<1>2. ASSUME NEW k \in Slot
      PROVE  /\ u[k] \in Entry /\ u[k].valid = t[k].valid /\ u[k].eui = t[k].eui
             /\ u[k].addr = t[k].addr
  <2>1. u[k] = [t[k] EXCEPT !.age = IF t[k].valid /\ @ <= PeerTimeout THEN @ + 1 ELSE @]
    BY <1>1 DEF Older
  <2>2. t[k] \in Entry
    BY DEF Sound, Table
  <2> QED
    BY <2>1, <2>2 DEF Entry
<1>3. u \in Table
  BY <1>1, <1>2 DEF Older, Table
<1>4. Sound(u)
  BY <1>2, <1>3 DEF Sound
<1> QED
  BY <1>1, <1>4

LEMMA PruneSound ==
    ASSUME NEW t, Sound(t)
    PROVE  Sound(prune_stale_peers(t))
<1>1. PICK u : u = prune_stale_peers(t)
  OBVIOUS
<1>2. ASSUME NEW k \in Slot
      PROVE  u[k] \in Entry /\ (u[k].valid => u[k] = t[k])
  <2>1. t[k] \in Entry
    BY DEF Sound, Table
  <2>2. u[k] = IF t[k].valid /\ t[k].age > PeerTimeout
               THEN [t[k] EXCEPT !.valid = FALSE] ELSE t[k]
    BY <1>1 DEF prune_stale_peers
  <2> QED
    BY <2>1, <2>2 DEF Entry
<1>3. u \in Table
  BY <1>1, <1>2 DEF prune_stale_peers, Table
<1>4. Sound(u)
  BY <1>2, <1>3 DEF Sound
<1> QED
  BY <1>1, <1>4

-----------------------------------------------------------------------------
(* All services of the network data, in any order.                         *)

\* One unfolding of seen.
Unfold(f, S) ==
    IF S = {} THEN {Older(table)}
    ELSE UNION {{see(t, p) : t \in f[S \ {p}]} : p \in S}

Closed(f) == \A S \in SUBSET Peer : Unfold(f, S) \subseteq f[S]

LEMMA UnfoldMonotone ==
    ASSUME NEW f, NEW g, \A T \in SUBSET Peer : f[T] \subseteq g[T],
           NEW S \in SUBSET Peer
    PROVE  Unfold(f, S) \subseteq Unfold(g, S)
<1>1. \A p \in S : f[S \ {p}] \subseteq g[S \ {p}]
  OBVIOUS
<1> QED
  BY <1>1 DEF Unfold

\* The services lead from tables to tables.
LEMMA UnfoldTables ==
    ASSUME table \in Table, Addresses,
           NEW f \in [SUBSET Peer -> SUBSET Table], NEW S \in SUBSET Peer
    PROVE  Unfold(f, S) \subseteq Table
<1>1. Older(table) \in Table
  <2>1. ASSUME NEW k \in Slot PROVE Older(table)[k] \in Entry
    <3>1. table[k] \in Entry
      BY DEF Table
    <3> QED
      BY <3>1 DEF Older, Entry
  <2> QED
    BY <2>1 DEF Older, Table
<1>2. ASSUME NEW t \in Table, NEW p \in Peer PROVE see(t, p) \in Table
  <2> DEFINE k == find_or_create_peer(t, p)
             e == [eui |-> p, addr |-> adv[p], age |-> 0, valid |-> TRUE]
  <2>1. k = 0 \/ k \in Slot
    BY SlotFound
  <2>2. e \in Entry
    BY DEF Addresses, Entry
  <2>3. see(t, p) = IF k = 0 THEN t ELSE [t EXCEPT ![k] = e]
    BY DEF see
  <2> HIDE DEF k, e
  <2> QED
    BY <2>1, <2>2, <2>3 DEF Table
<1>3. ASSUME NEW u \in Unfold(f, S) PROVE u \in Table
  <2>1. CASE S = {}
    BY <1>1, <2>1 DEF Unfold
  <2>2. CASE S # {}
    <3>1. PICK p \in S : \E t \in f[S \ {p}] : u = see(t, p)
      BY <2>2 DEF Unfold
    <3>2. PICK t \in f[S \ {p}] : u = see(t, p)
      BY <3>1
    <3>3. f[S \ {p}] \subseteq Table
      OBVIOUS
    <3> QED
      BY <1>2, <3>2, <3>3
  <2> QED
    BY <2>1, <2>2
<1> QED
  BY <1>3

\* seen is defined by its equation: the least function closed under the services
\* satisfies it.
LEMMA SeenUnfolds ==
    ASSUME table \in Table, Addresses
    PROVE  \A S \in SUBSET Peer : seen[S] = Unfold(seen, S)
<1> DEFINE F == [SUBSET Peer -> SUBSET Table]
           g == [S \in SUBSET Peer |-> {t \in Table : \A f \in F : Closed(f) => t \in f[S]}]
           h == [S \in SUBSET Peer |-> Unfold(g, S)]
<1>1. g \in F
  OBVIOUS
<1>2. ASSUME NEW f \in F, Closed(f), NEW S \in SUBSET Peer
      PROVE  g[S] \subseteq f[S]
  BY <1>2
<1>3. ASSUME NEW S \in SUBSET Peer PROVE Unfold(g, S) \subseteq g[S]
  <2>1. ASSUME NEW f \in F, Closed(f) PROVE Unfold(g, S) \subseteq f[S]
    <3>1. \A T \in SUBSET Peer : g[T] \subseteq f[T]
      BY <1>2, <2>1
    <3> HIDE DEF g, F
    <3>2. Unfold(g, S) \subseteq Unfold(f, S)
      BY <3>1, UnfoldMonotone
    <3> QED
      BY <2>1, <3>2 DEF Closed
  <2>2. Unfold(g, S) \subseteq Table
    <3> HIDE DEF g
    <3> QED
      BY <1>1, UnfoldTables
  <2> QED
    BY <2>1, <2>2
<1>4. h \in F
  <2> HIDE DEF g
  <2> QED
    BY <1>1, UnfoldTables
<1>5. Closed(h)
  <2> HIDE DEF g
  <2>1. \A T \in SUBSET Peer : h[T] \subseteq g[T]
    BY <1>3
  <2>2. ASSUME NEW S \in SUBSET Peer PROVE Unfold(h, S) \subseteq h[S]
    <3>1. h[S] = Unfold(g, S)
      OBVIOUS
    <3> HIDE DEF h
    <3>2. Unfold(h, S) \subseteq Unfold(g, S)
      BY <2>1, UnfoldMonotone
    <3> QED
      BY <3>1, <3>2
  <2> HIDE DEF h
  <2> QED
    BY <2>2 DEF Closed
<1>6. \A S \in SUBSET Peer : g[S] = Unfold(g, S)
  <2>1. \A S \in SUBSET Peer : h[S] = Unfold(g, S)
    OBVIOUS
  <2> HIDE DEF g, h, F
  <2> QED
    BY <1>2, <1>3, <1>4, <1>5, <2>1
<1>7. \E f : f = [S \in SUBSET Peer |-> Unfold(f, S)]
  <2>1. g = [S \in SUBSET Peer |-> g[S]]
    OBVIOUS
  <2> HIDE DEF g
  <2>2. g = [S \in SUBSET Peer |-> Unfold(g, S)]
    BY <1>6, <2>1
  <2> QED
    BY <2>2
<1>8. seen = [S \in SUBSET Peer |-> Unfold(seen, S)]
  BY <1>7 DEF seen, Unfold
<1> HIDE DEF g, h, F
<1>9. ASSUME NEW f, f = [S \in SUBSET Peer |-> Unfold(f, S)]
      PROVE  \A S \in SUBSET Peer : f[S] = Unfold(f, S)
  BY <1>9
<1> QED
  BY <1>8, <1>9, Zenon

\* Every table that the services lead to is sound.
LEMMA SeenSound ==
    ASSUME Sound(table), Addresses
    PROVE  \A t \in SeeAll : Sound(t)
<1> DEFINE A == {p \in Peer : adv[p] # NoAddr}
           B == {S \in SUBSET A : \E t \in seen[S] : ~Sound(t)}
<1>1. IsWellFoundedOn(StrictSubsetOrdering(A), SUBSET A)
  <2>1. IsFiniteSet(A)
    BY RaftTransportAssumption, FS_Subset
  <2> QED
    BY <2>1, FS_StrictSubsetOrderingWellFounded, FS_FiniteSubsetsOfFinite
<1>2. B = {}
  <2> SUFFICES ASSUME B # {} PROVE FALSE
    OBVIOUS
  <2>1. PICK S \in B : \A T \in B : <<T, S>> \notin StrictSubsetOrdering(A)
    <3> HIDE DEF A
    <3>1. B \subseteq SUBSET A
      OBVIOUS
    <3> HIDE DEF B
    <3> QED
      BY <1>1, <3>1, WFMin
  <2>2. PICK t \in seen[S] : ~Sound(t)
    OBVIOUS
  <2>3. t \in Unfold(seen, S)
    BY <2>2, SeenUnfolds DEF Sound
  <2>4. CASE S = {}
    BY <2>2, <2>3, <2>4, OlderSound DEF Unfold
  <2>5. CASE S # {}
    <3>1. PICK p \in S : \E u \in seen[S \ {p}] : t = see(u, p)
      BY <2>3, <2>5 DEF Unfold
    <3>2. PICK u \in seen[S \ {p}] : t = see(u, p)
      BY <3>1
    <3>3. S \ {p} \in SUBSET A /\ <<S \ {p}, S>> \in StrictSubsetOrdering(A)
      BY DEF StrictSubsetOrdering
    <3>4. Sound(u)
      BY <2>1, <3>2, <3>3
    <3>5. adv[p] \in Address /\ adv[p].of = p
      BY DEF Addresses
    <3> QED
      BY <2>2, <3>2, <3>4, <3>5, SeeSound
  <2> QED
    BY <2>4, <2>5
<1> QED
  BY <1>2 DEF SeeAll

-----------------------------------------------------------------------------
(* Sequences.                                                              *)

Distinct(s) == \A i, j \in DOMAIN s : s[i] = s[j] => i = j

LEMMA ToSetEmpty == ToSet(<<>>) = {}
BY DEF ToSet

LEMMA AppendFacts ==
    ASSUME NEW T, NEW s \in Seq(T), NEW m \in T
    PROVE  /\ Append(s, m) \in Seq(T)
           /\ ToSet(Append(s, m)) = ToSet(s) \union {m}
           /\ Distinct(s) /\ m \notin ToSet(s) => Distinct(Append(s, m))
<1> DEFINE a == Append(s, m)
<1>1. /\ a \in Seq(T) /\ Len(a) = Len(s) + 1
      /\ \A i \in 1 .. Len(s) : a[i] = s[i]
      /\ a[Len(s) + 1] = m
  BY AppendProperties
<1>2. DOMAIN s = 1 .. Len(s) /\ DOMAIN a = 1 .. Len(s) + 1 /\ Len(s) \in Nat
  BY <1>1
<1> HIDE DEF a
<1>3. ToSet(a) = ToSet(s) \union {m}
  BY <1>1, <1>2 DEF ToSet
<1>4. ASSUME Distinct(s), m \notin ToSet(s) PROVE Distinct(a)
  BY <1>1, <1>2, <1>4 DEF ToSet, Distinct
<1> QED
  BY <1>1, <1>3, <1>4 DEF a

LEMMA TailFacts ==
    ASSUME NEW T, NEW s \in Seq(T), s # <<>>
    PROVE  /\ Head(s) \in T /\ Tail(s) \in Seq(T)
           /\ ToSet(s) = ToSet(Tail(s)) \union {Head(s)}
           /\ Distinct(s) => Distinct(Tail(s)) /\ Head(s) \notin ToSet(Tail(s))
<1> DEFINE u == Tail(s)
<1>1. /\ Head(s) = s[1] /\ Head(s) \in T
      /\ u \in Seq(T) /\ Len(u) = Len(s) - 1
      /\ \A i \in 1 .. Len(u) : u[i] = s[i + 1]
      /\ Len(s) \in Nat /\ Len(s) >= 1
  BY HeadTailProperties, EmptySeq
<1>2. DOMAIN s = 1 .. Len(s) /\ DOMAIN u = 1 .. Len(s) - 1
  BY <1>1
<1> HIDE DEF u
<1>3. ASSUME NEW x PROVE x \in ToSet(s) <=> x \in ToSet(u) \/ x = Head(s)
  <2>1. ASSUME x \in ToSet(s), x # Head(s) PROVE x \in ToSet(u)
    <3>1. PICK i \in 1 .. Len(s) : x = s[i]
      BY <1>2, <2>1 DEF ToSet
    <3>2. i - 1 \in 1 .. Len(s) - 1 /\ u[i - 1] = s[i]
      BY <1>1, <2>1, <3>1
    <3> QED
      BY <1>2, <3>1, <3>2 DEF ToSet
  <2>2. ASSUME x \in ToSet(u) PROVE x \in ToSet(s)
    <3>1. PICK i \in 1 .. Len(s) - 1 : x = u[i]
      BY <1>2, <2>2 DEF ToSet
    <3>2. i + 1 \in 1 .. Len(s) /\ u[i] = s[i + 1]
      BY <1>1, <3>1
    <3> QED
      BY <1>2, <3>1, <3>2 DEF ToSet
  <2>3. Head(s) \in ToSet(s)
    BY <1>1, <1>2 DEF ToSet
  <2> QED
    BY <2>1, <2>2, <2>3
<1>4. ASSUME Distinct(s) PROVE Distinct(u) /\ Head(s) \notin ToSet(u)
  <2>1. ASSUME NEW i \in DOMAIN u PROVE i + 1 \in DOMAIN s /\ u[i] = s[i + 1] /\ i + 1 # 1
    BY <1>1, <1>2
  <2>2. ASSUME NEW i \in DOMAIN u, NEW j \in DOMAIN u, u[i] = u[j] PROVE i = j
    <3>1. i + 1 = j + 1
      BY <1>4, <2>1, <2>2 DEF Distinct
    <3> QED
      BY <1>1, <1>2, <3>1
  <2>3. ASSUME NEW i \in DOMAIN u PROVE u[i] # Head(s)
    <3>1. 1 \in DOMAIN s
      BY <1>1, <1>2
    <3> QED
      BY <1>1, <1>4, <2>1, <3>1 DEF Distinct
  <2> QED
    BY <2>2, <2>3 DEF ToSet, Distinct
<1> QED
  BY <1>1, <1>3, <1>4 DEF u

-----------------------------------------------------------------------------
(* TransportInv is inductive.                                              *)

LEMMA InitTransport == Init => TransportInv
<1> SUFFICES ASSUME Init PROVE TransportInv
  OBVIOUS
<1>1. Sound(table)
  BY DEF Init, Sound, Table, Entry, EmptySlot
<1>2. Addresses
  BY DEF Init, Addresses
<1>3. Queues
  BY DEF Init, Queues
<1>4. Air /\ Once
  BY ToSetEmpty DEF Init, Air, Once, OncePerNode
<1>5. NothingStranded
  BY DEF Init, NothingStranded
<1> QED
  BY <1>1, <1>2, <1>3, <1>4, <1>5 DEF TransportInv

\* The table changes in a round of discovery and when the sender starts.
LEMMA NextSound ==
    ASSUME TransportInv, [Next]_vars
    PROVE  Sound(table)'
<1>1. CASE discover_peers
  <2>1. PICK t \in SeeAll : table' = prune_stale_peers(t)
    BY <1>1 DEF discover_peers
  <2>2. Sound(table')
    BY <2>1, SeenSound, PruneSound DEF TransportInv
  <2> QED
    BY <2>2 DEF Sound
<1>2. ASSUME start_sender PROVE Sound(table)'
  BY <1>2 DEF start_sender, Sound, Table, Entry, EmptySlot
<1>3. CASE UNCHANGED table
  BY <1>3 DEF TransportInv, Sound
<1> QED
  BY <1>1, <1>2, <1>3 DEF Next, vars, send_msg, receive, submit, drain_start, drain_get,
     drain_empty, drain_end, start_peer, withdraw, lose

\* Addresses change when a peer starts, advertisements also when one is withdrawn.
LEMMA NextAddresses ==
    ASSUME TransportInv, [Next]_vars
    PROVE  Addresses'
<1> USE DEF TransportInv
<1>1. ASSUME NEW p \in Peer, NEW n \in Imported, NEW ok \in BOOLEAN,
             start_peer(p, n, ok) PROVE Addresses'
  <2>1. starts' \in Nat
    BY <1>1 DEF start_peer, Addresses
  <2> DEFINE a == [of |-> p, start |-> starts']
  <2>2. a \in Address /\ a.of = p
    BY <2>1 DEF Address
  <2>3. addr' = [addr EXCEPT ![p] = a] /\ (adv' = [adv EXCEPT ![p] = a] \/ adv' = adv)
    <3>1. addr' = [addr EXCEPT ![p] = a] /\ adv' = [adv EXCEPT ![p] = IF ok THEN addr'[p] ELSE @]
      BY <1>1 DEF start_peer
    <3> HIDE DEF a
    <3>2. addr'[p] = a
      BY <3>1 DEF Addresses
    <3> QED
      BY <3>1, <3>2 DEF Addresses
  <2> HIDE DEF a
  <2> QED
    BY <2>1, <2>2, <2>3 DEF Addresses
<1>2. ASSUME NEW p \in Peer, withdraw(p) PROVE Addresses'
  BY <1>2 DEF withdraw, Addresses
<1>3. ASSUME start_sender PROVE Addresses'
  BY <1>3 DEF start_sender, receiver, Addresses
<1>4. CASE UNCHANGED <<addr, adv, starts>>
  BY <1>4 DEF Addresses
<1> QED
  BY <1>1, <1>2, <1>3, <1>4 DEF Next, vars, receiver, discover_peers, send_msg, receive,
     submit, drain_start, drain_get, drain_empty, drain_end, lose

\* The queues keep their types.
LEMMA NextQueues ==
    ASSUME TransportInv, [Next]_vars
    PROVE  Queues'
<1> USE DEF TransportInv
<1>1. ASSUME NEW x \in net, NEW p \in Peer, receive(x, p) PROVE Queues'
  <2>1. x.msg \in Msg
    BY DEF Air
  <2>2. Append(rx[p], x.msg) \in Seq(Msg)
    BY <2>1, AppendFacts DEF Queues
  <2> QED
    BY <1>1, <2>2 DEF receive, Queues
<1>2. ASSUME NEW p \in Peer, drain_get(p) PROVE Queues'
  <2>1. Tail(rx[p]) \in Seq(Msg) /\ Head(rx[p]) \in Msg
    BY <1>2, TailFacts DEF drain_get, Queues
  <2>2. Append(handled[p], Head(rx[p])) \in Seq(Msg)
    BY <2>1, AppendFacts DEF Queues
  <2> QED
    BY <1>2, <2>1, <2>2 DEF drain_get, Queues
<1>3. ASSUME NEW p \in Peer,
             submit(p) \/ drain_start(p) \/ drain_empty(p) \/ drain_end(p)
      PROVE  Queues'
  BY <1>3 DEF submit, drain_start, drain_empty, drain_end, Queues
<1>4. ASSUME NEW p \in Peer, NEW n \in Imported, NEW ok \in BOOLEAN,
             start_peer(p, n, ok) PROVE Queues'
  BY <1>4, EmptySeq DEF start_peer, Queues
<1>5. CASE UNCHANGED <<rx, handled, ot, work, again>>
  BY <1>5 DEF Queues
<1> QED
  BY <1>1, <1>2, <1>3, <1>4, <1>5 DEF Next, vars, queue, discover_peers, send_msg,
     start_sender, withdraw, lose

\* The address a message is sent to is one of its node.
LEMMA AddressOfDest ==
    ASSUME Sound(table), NEW p \in Peer, get_addr_from_eui(p) # NoAddr
    PROVE  get_addr_from_eui(p) \in Address /\ get_addr_from_eui(p).of = p
<1> DEFINE ks == {k \in Slot : table[k].valid /\ table[k].eui = p}
<1>1. ks \in SUBSET Nat /\ ks # {}
  BY RaftTransportAssumption DEF Slot, get_addr_from_eui
<1>2. get_addr_from_eui(p) = table[Lowest(ks)].addr /\ Lowest(ks) \in ks
  BY <1>1, LowestIn DEF get_addr_from_eui
<1> QED
  BY <1>2 DEF Sound

\* What sending puts on the air.
LEMMA SendFacts ==
    ASSUME TransportInv, NEW m \in Msg, send_msg(m)
    PROVE  \/ net' = net
           \/ \E x : /\ net' = net \union {x} /\ x.msg = m
                     /\ x.addr \in Address /\ x.addr.of = Dest(m)
<1> DEFINE a == get_addr_from_eui(Dest(m))
<1>1. net' = net \/ (a # NoAddr /\ net' = net \union {[msg |-> m, addr |-> a]})
  BY DEF send_msg
<1>2. CASE a # NoAddr /\ net' = net \union {[msg |-> m, addr |-> a]}
  <2>1. Dest(m) \in Peer
    BY RaftTransportAssumption DEF Dest
  <2>2. a \in Address /\ a.of = Dest(m)
    BY <1>2, <2>1, AddressOfDest DEF TransportInv
  <2> HIDE DEF a
  <2> QED
    BY <1>2, <2>2
<1> QED
  BY <1>1, <1>2

LEMMA NextAir ==
    ASSUME TransportInv, [Next]_vars
    PROVE  Air'
<1> USE DEF TransportInv
<1>1. ASSUME NEW m \in Msg, send_msg(m) PROVE Air'
  <2>1. sent' = sent \union {m}
    BY <1>1 DEF send_msg
  <2>2. \/ net' = net
        \/ \E x : /\ net' = net \union {x} /\ x.msg = m
                  /\ x.addr \in Address /\ x.addr.of = Dest(m)
    BY <1>1, SendFacts
  <2> QED
    BY <2>1, <2>2 DEF Air
<1>2. ASSUME NEW x \in net, net' = net \ {x}, sent' = sent PROVE Air'
  BY <1>2 DEF Air
<1>3. CASE UNCHANGED <<net, sent>>
  BY <1>3 DEF Air
<1> QED
  BY <1>1, <1>2, <1>3 DEF Next, vars, discover_peers, receive, submit, drain_start,
     drain_get, drain_empty, drain_end, start_peer, start_sender, withdraw, lose

\* A message reaches the node it is for: no other node has its address.
LEMMA ReachesDest ==
    ASSUME TransportInv, NEW x \in net, NEW p \in Peer, receive(x, p)
    PROVE  Dest(x.msg) = p
BY RaftTransportAssumption DEF TransportInv, Air, Addresses, receive, Address

\* A message does not come to be in two places.
LEMMA NextOnce ==
    ASSUME TransportInv, [Next]_vars
    PROVE  Once'
<1> USE DEF TransportInv
<1>1. ASSUME NEW m \in Msg, send_msg(m) PROVE Once'
  <2>1. sent' = sent \union {m} /\ m \notin sent /\ UNCHANGED <<rx, handled>>
    BY <1>1 DEF send_msg, queue
  <2>2. net' = net \/ \E x : net' = net \union {x} /\ x.msg = m
    BY <1>1, SendFacts
  <2>3. \A x \in net : x.msg # m
    BY <2>1 DEF Air
  <2>4. ASSUME NEW p \in Peer PROVE OncePerNode(p)'
    <3>1. m \notin ToSet(rx[p]) /\ m \notin ToSet(handled[p])
      BY <2>1 DEF Once, OncePerNode
    <3>2. OncePerNode(p)
      BY DEF Once
    <3> QED
      BY <2>1, <2>2, <3>1, <3>2 DEF OncePerNode
  <2>5. \A x, y \in net' : x.msg = y.msg => x = y
    BY <2>2, <2>3 DEF Once
  <2> QED
    BY <2>4, <2>5 DEF Once
<1>2. ASSUME NEW x \in net, NEW p \in Peer, receive(x, p) PROVE Once'
  <2>1. net' = net \ {x} /\ sent' = sent /\ handled' = handled
    BY <1>2 DEF receive
  <2>2. rx' = rx \/ rx' = [rx EXCEPT ![p] = Append(rx[p], x.msg)]
    BY <1>2 DEF receive
  <2>3. \A y \in net' : y.msg # x.msg
    BY <2>1 DEF Once
  <2>4. OncePerNode(p)'
    <3>1. OncePerNode(p) /\ x.msg \in sent /\ Dest(x.msg) = p
      BY <1>2, ReachesDest DEF Once, Air
    <3>2. CASE rx' = rx
      BY <2>1, <3>1, <3>2 DEF OncePerNode
    <3>3. CASE rx' = [rx EXCEPT ![p] = Append(rx[p], x.msg)]
      <4>1. rx'[p] = Append(rx[p], x.msg)
        BY <3>3 DEF Queues
      <4>2. /\ ToSet(rx'[p]) = ToSet(rx[p]) \union {x.msg}
            /\ Distinct(rx[p]) /\ x.msg \notin ToSet(rx[p]) => Distinct(rx'[p])
        BY <4>1, AppendFacts DEF Queues, Air
      <4> QED
        BY <2>1, <2>3, <3>1, <4>2 DEF OncePerNode, Distinct
    <3> QED
      BY <2>2, <3>2, <3>3
  <2>5. ASSUME NEW q \in Peer \ {p} PROVE OncePerNode(q)'
    <3>1. rx'[q] = rx[q]
      BY <2>2 DEF Queues
    <3>2. OncePerNode(q)
      BY DEF Once
    <3> QED
      BY <2>1, <3>1, <3>2 DEF OncePerNode
  <2> QED
    BY <2>1, <2>4, <2>5 DEF Once
<1>3. ASSUME NEW p \in Peer, drain_get(p) PROVE Once'
  <2>1. /\ rx[p] # <<>> /\ net' = net /\ sent' = sent
        /\ rx' = [rx EXCEPT ![p] = Tail(rx[p])]
        /\ handled' = [handled EXCEPT ![p] = Append(handled[p], Head(rx[p]))]
    BY <1>3 DEF drain_get
  <2>2. OncePerNode(p)'
    <3>1. OncePerNode(p)
      BY DEF Once
    <3>2. rx'[p] = Tail(rx[p]) /\ handled'[p] = Append(handled[p], Head(rx[p]))
      BY <2>1 DEF Queues
    <3>3. /\ Head(rx[p]) \in Msg
          /\ ToSet(rx[p]) = ToSet(rx'[p]) \union {Head(rx[p])}
          /\ Distinct(rx[p]) => Distinct(rx'[p]) /\ Head(rx[p]) \notin ToSet(rx'[p])
      BY <2>1, <3>2, TailFacts DEF Queues
    <3>4. ToSet(handled'[p]) = ToSet(handled[p]) \union {Head(rx[p])}
      BY <3>2, <3>3, AppendFacts DEF Queues
    <3> QED
      BY <2>1, <3>1, <3>3, <3>4 DEF OncePerNode, Distinct
  <2>3. ASSUME NEW q \in Peer \ {p} PROVE OncePerNode(q)'
    <3>1. rx'[q] = rx[q] /\ handled'[q] = handled[q]
      BY <2>1 DEF Queues
    <3>2. OncePerNode(q)
      BY DEF Once
    <3> QED
      BY <2>1, <3>1, <3>2 DEF OncePerNode
  <2> QED
    BY <2>1, <2>2, <2>3 DEF Once
<1>4. ASSUME NEW p \in Peer, NEW n \in Imported, NEW ok \in BOOLEAN,
             start_peer(p, n, ok) PROVE Once'
  <2>1. rx' = [rx EXCEPT ![p] = <<>>] /\ UNCHANGED <<net, sent, handled>>
    BY <1>4 DEF start_peer
  <2>2. ASSUME NEW q \in Peer PROVE OncePerNode(q)'
    <3>1. OncePerNode(q) /\ rx'[q] = IF q = p THEN <<>> ELSE rx[q]
      BY <2>1 DEF Once, Queues
    <3>2. CASE q = p
      BY <2>1, <3>1, <3>2, ToSetEmpty DEF OncePerNode
    <3>3. CASE q # p
      BY <2>1, <3>1, <3>3 DEF OncePerNode
    <3> QED
      BY <3>2, <3>3
  <2> QED
    BY <2>1, <2>2 DEF Once
<1>5. ASSUME NEW x \in net, lose(x) PROVE Once'
  BY <1>5 DEF lose, queue, Once, OncePerNode
<1>6. CASE UNCHANGED <<net, sent, rx, handled>>
  BY <1>6 DEF Once, OncePerNode
<1> QED
  BY <1>1, <1>2, <1>3, <1>4, <1>5, <1>6 DEF Next, vars, queue, discover_peers, submit,
     drain_start, drain_empty, drain_end, start_sender, withdraw

\* The work item is due whenever the queue holds a message.
LEMMA NextStranded ==
    ASSUME TransportInv, [Next]_vars
    PROVE  NothingStranded'
<1> USE DEF TransportInv
<1>1. ASSUME NEW x \in net, NEW p \in Peer, receive(x, p) PROVE NothingStranded'
  <2>1. /\ UNCHANGED <<work, again>>
        /\ \/ UNCHANGED <<rx, ot>>
           \/ rx' = [rx EXCEPT ![p] = Append(rx[p], x.msg)] /\ ot' = [ot EXCEPT ![p] = "submit"]
    BY <1>1 DEF receive
  <2> QED
    BY <2>1 DEF NothingStranded, Queues
<1>2. ASSUME NEW p \in Peer, submit(p) PROVE NothingStranded'
  <2>1. /\ UNCHANGED rx /\ ot' = [ot EXCEPT ![p] = "idle"]
        /\ work' = [work EXCEPT ![p] = IF work[p] = "idle" THEN "queued" ELSE work[p]]
        /\ again' = [again EXCEPT ![p] = again[p] \/ work[p] \in {"running", "returning"}]
    BY <1>2 DEF submit
  <2>2. \A q \in Peer \ {p} : ot'[q] = ot[q] /\ work'[q] = work[q] /\ again'[q] = again[q]
    BY <2>1 DEF Queues
  <2>3. work'[p] \in {"queued", "running"} \/ again'[p]
    BY <2>1 DEF Queues
  <2> QED
    BY <2>1, <2>2, <2>3 DEF NothingStranded
<1>3. ASSUME NEW p \in Peer, drain_end(p) PROVE NothingStranded'
  <2>1. /\ UNCHANGED <<rx, ot>> /\ work[p] = "returning"
        /\ work' = [work EXCEPT ![p] = IF again[p] THEN "queued" ELSE "idle"]
        /\ again' = [again EXCEPT ![p] = FALSE]
    BY <1>3 DEF drain_end
  <2>2. \A q \in Peer \ {p} : work'[q] = work[q] /\ again'[q] = again[q]
    BY <2>1 DEF Queues
  <2>3. again[p] => work'[p] = "queued"
    BY <2>1 DEF Queues
  <2> QED
    BY <2>1, <2>2, <2>3 DEF NothingStranded
<1>4. ASSUME NEW p \in Peer, drain_start(p) \/ drain_get(p) \/ drain_empty(p)
      PROVE  NothingStranded'
  BY <1>4 DEF drain_start, drain_get, drain_empty, NothingStranded, Queues
<1>5. ASSUME NEW p \in Peer, NEW n \in Imported, NEW ok \in BOOLEAN,
             start_peer(p, n, ok) PROVE NothingStranded'
  BY <1>5 DEF start_peer, NothingStranded, Queues
<1>6. CASE UNCHANGED <<rx, ot, work, again>>
  BY <1>6 DEF NothingStranded
<1> QED
  BY <1>1, <1>2, <1>3, <1>4, <1>5, <1>6 DEF Next, vars, queue, discover_peers, send_msg,
     start_sender, withdraw, lose

\* The transport keeps its invariant.
THEOREM TransportInvariant == Spec => []TransportInv
<1>1. TransportInv /\ [Next]_vars => TransportInv'
  BY NextSound, NextAddresses, NextQueues, NextAir, NextOnce, NextStranded
  DEF TransportInv
<1> QED
  BY <1>1, InitTransport, PTL DEF Spec

\* The sender's table has one valid entry for a peer: find_or_create_peer and
\* prune_stale_peers see to it for any number of peers and slots.
THEOREM PeersOnceInTable == Spec => []OneEntryPerPeer
<1>1. TransportInv => OneEntryPerPeer
  BY DEF TransportInv, Sound, OneEntryPerPeer
<1> QED
  BY <1>1, TransportInvariant, PTL

\* No message stays behind in a receive queue that no work item will drain.
THEOREM QueueIsDrained == Spec => []NothingStranded
<1>1. TransportInv => NothingStranded
  BY DEF TransportInv
<1> QED
  BY <1>1, TransportInvariant, PTL

-----------------------------------------------------------------------------
(* The transport implements LossyChannel.                                  *)

InTransit(m) == (\E x \in net : x.msg = m) \/ (\E p \in Peer : m \in ToSet(rx[p]))
Delivered(m) == \E p \in Peer : m \in ToSet(handled[p])

\* A message that is on the air or in a queue has not been handled.
LEMMA StatusFacts ==
    ASSUME TransportInv, NEW m \in Msg
    PROVE  /\ InTransit(m) => Status(m) = "transit"
           /\ Status(m) = "transit" => InTransit(m)
           /\ m \notin sent <=> Status(m) = "unsent"
           /\ Delivered(m) => Status(m) = "delivered"
           /\ Status(m) = "delivered" => Delivered(m)
           /\ Status(m) \in {"unsent", "transit", "delivered", "lost"}
<1>1. InTransit(m) => m \in sent /\ ~Delivered(m)
  <2>1. ASSUME NEW x \in net, x.msg = m PROVE m \in sent /\ ~Delivered(m)
    BY <2>1 DEF TransportInv, Air, Once, OncePerNode, Delivered
  <2>2. ASSUME NEW p \in Peer, m \in ToSet(rx[p]) PROVE m \in sent /\ ~Delivered(m)
    <3>1. m \in sent /\ Dest(m) = p /\ m \notin ToSet(handled[p])
      BY <2>2 DEF TransportInv, Once, OncePerNode
    <3>2. \A q \in Peer : m \in ToSet(handled[q]) => Dest(m) = q
      BY DEF TransportInv, Once, OncePerNode
    <3> QED
      BY <3>1, <3>2 DEF Delivered
  <2> QED
    BY <2>1, <2>2 DEF InTransit
<1>2. Delivered(m) => m \in sent
  BY DEF TransportInv, Once, OncePerNode, Delivered
<1> QED
  BY <1>1, <1>2 DEF Status, InTransit, Delivered

\* The status of a message depends on where it is.
LEMMA StatusUnchanged ==
    ASSUME TransportInv, TransportInv', NEW m \in Msg,
           m \in sent <=> m \in sent',
           InTransit(m) <=> InTransit(m)',
           Delivered(m) <=> Delivered(m)'
    PROVE  Status(m)' = Status(m)
BY DEF Status, InTransit, Delivered

LEMMA InitChannel == Init => Channel!Init
BY DEF Init, Channel!Init, Status

\* Sending.
LEMMA SendImplements ==
    ASSUME TransportInv, TransportInv', NEW m \in Msg, send_msg(m)
    PROVE  Channel!Send(m)
<1>1. m \notin sent /\ sent' = sent \union {m} /\ UNCHANGED <<rx, handled>>
  BY DEF send_msg, queue
<1>2. net' = net \/ \E x : net' = net \union {x} /\ x.msg = m
  BY SendFacts
<1>3. ASSUME NEW k \in Msg \ {m} PROVE Status(k)' = Status(k)
  <2>1. InTransit(k) <=> InTransit(k)'
    BY <1>1, <1>2 DEF InTransit
  <2>2. Delivered(k) <=> Delivered(k)'
    BY <1>1 DEF Delivered
  <2> QED
    BY <1>1, <2>1, <2>2, StatusUnchanged
<1>4. Status(m) = "unsent"
  BY <1>1, StatusFacts
<1>5. Status(m)' \in {"transit", "lost"}
  <2>1. ~Delivered(m)
    BY <1>4, StatusFacts
  <2>2. m \in sent' /\ ~Delivered(m)'
    BY <1>1, <2>1 DEF Delivered
  <2> QED
    BY <2>2 DEF Status, Delivered
<1> DEFINE f == [k \in Msg |-> Status(k)]
<1>6. f[m] = "unsent" /\ f' = [f EXCEPT ![m] = Status(m)']
  BY <1>3, <1>4
<1> QED
  BY <1>1, <1>5, <1>6 DEF Channel!Send

\* Losing: a set of messages in transit is nowhere afterwards.
LEMMA LoseImplements ==
    ASSUME TransportInv, TransportInv', NEW S \in SUBSET Msg,
           UNCHANGED <<sent, handled>>,
           \A m \in S : InTransit(m) /\ ~InTransit(m)',
           \A m \in Msg \ S : InTransit(m) <=> InTransit(m)'
    PROVE  Channel!Lose(S)
<1>1. ASSUME NEW m \in Msg PROVE Delivered(m) <=> Delivered(m)'
  BY DEF Delivered
<1>2. ASSUME NEW m \in S PROVE Status(m) = "transit" /\ Status(m)' = "lost"
  <2>1. Status(m) = "transit" /\ m \in sent
    BY StatusFacts
  <2>2. ~Delivered(m)
    BY <2>1, StatusFacts
  <2> QED
    BY <1>1, <2>1, <2>2 DEF Status, InTransit, Delivered
<1>3. ASSUME NEW m \in Msg \ S PROVE Status(m)' = Status(m)
  BY <1>1, StatusUnchanged
<1> DEFINE f == [k \in Msg |-> Status(k)]
<1>4. \A m \in S : f[m] = "transit"
  BY <1>2
<1>5. f' = [m \in Msg |-> IF m \in S THEN "lost" ELSE f[m]]
  BY <1>2, <1>3
<1> QED
  BY <1>4, <1>5 DEF Channel!Lose

\* A message leaves the air: it is lost, or it is in the queue of its node.
LEMMA ReceiveImplements ==
    ASSUME TransportInv, TransportInv', NEW x \in net, NEW p \in Peer, receive(x, p)
    PROVE  Channel!Lose({x.msg}) \/ UNCHANGED Channel!channelVars
<1> USE DEF TransportInv
<1>1. net' = net \ {x} /\ UNCHANGED <<sent, handled>> /\ x.msg \in Msg
  BY DEF receive, Air
<1>2. \A y \in net' : y.msg # x.msg
  BY <1>1 DEF Once
<1>3. CASE rx' = rx
  <2>1. InTransit(x.msg) /\ ~InTransit(x.msg)'
    BY <1>1, <1>2, <1>3 DEF InTransit, Once, OncePerNode
  <2>2. ASSUME NEW m \in Msg \ {x.msg} PROVE InTransit(m) <=> InTransit(m)'
    BY <1>1, <1>3 DEF InTransit
  <2>3. {x.msg} \in SUBSET Msg
    BY <1>1
  <2> QED
    BY <1>1, <2>1, <2>2, <2>3, LoseImplements
<1>4. CASE rx' = [rx EXCEPT ![p] = Append(rx[p], x.msg)]
  <2>1. /\ ToSet(rx'[p]) = ToSet(rx[p]) \union {x.msg}
        /\ \A q \in Peer \ {p} : rx'[q] = rx[q]
    BY <1>1, <1>4, AppendFacts DEF Queues
  <2>2. ASSUME NEW m \in Msg PROVE Status(m)' = Status(m)
    <3>1. InTransit(m) <=> InTransit(m)'
      BY <1>1, <2>1 DEF InTransit
    <3>2. Delivered(m) <=> Delivered(m)'
      BY <1>1 DEF Delivered
    <3> QED
      BY <1>1, <3>1, <3>2, StatusUnchanged
  <2> QED
    BY <1>1, <2>2 DEF Channel!channelVars
<1> QED
  BY <1>3, <1>4 DEF receive

\* The work item handles the message at the head of the queue.
LEMMA GetImplements ==
    ASSUME TransportInv, TransportInv', NEW p \in Peer, drain_get(p)
    PROVE  Channel!Deliver(Head(rx[p])) /\ Head(rx[p]) \in Msg
<1> USE DEF TransportInv
<1>1. PICK h \in Msg : h = Head(rx[p])
  BY TailFacts DEF drain_get, Queues
<1>2. /\ UNCHANGED <<net, sent>> /\ rx[p] # <<>>
      /\ rx' = [rx EXCEPT ![p] = Tail(rx[p])]
      /\ handled' = [handled EXCEPT ![p] = Append(handled[p], h)]
  BY <1>1 DEF drain_get
<1>3. /\ ToSet(rx[p]) = ToSet(rx'[p]) \union {h}
      /\ \A q \in Peer \ {p} : rx'[q] = rx[q]
  BY <1>1, <1>2, TailFacts DEF Queues
<1>4. /\ ToSet(handled'[p]) = ToSet(handled[p]) \union {h}
      /\ \A q \in Peer \ {p} : handled'[q] = handled[q]
  BY <1>2, <1>3, AppendFacts DEF Queues
<1>5. Dest(h) = p
  BY <1>3 DEF Once, OncePerNode
<1>6. Status(h) = "transit" /\ Status(h)' = "delivered"
  <2>1. InTransit(h) /\ Delivered(h)'
    BY <1>3, <1>4 DEF InTransit, Delivered
  <2>2. Status(h) = "transit" /\ h \in sent'
    BY <1>2, <1>3, <2>1, StatusFacts
  <2> QED
    BY <2>1, <2>2 DEF Status, Delivered
<1>7. ASSUME NEW m \in Msg \ {h} PROVE Status(m)' = Status(m)
  <2>1. InTransit(m) <=> InTransit(m)'
    BY <1>2, <1>3 DEF InTransit
  <2>2. Delivered(m) <=> Delivered(m)'
    BY <1>4 DEF Delivered
  <2> QED
    BY <1>2, <2>1, <2>2, StatusUnchanged
<1> DEFINE f == [k \in Msg |-> Status(k)]
<1>8. f[h] = "transit" /\ f' = [f EXCEPT ![h] = "delivered"]
  BY <1>6, <1>7
<1>9. Channel!Deliver(h)
  BY <1>2, <1>5, <1>8 DEF Channel!Deliver
<1> QED
  BY <1>1, <1>9

\* A peer that starts loses what was in its queue.
LEMMA StartImplements ==
    ASSUME TransportInv, TransportInv', NEW p \in Peer, NEW n \in Imported, NEW ok \in BOOLEAN,
             start_peer(p, n, ok)
    PROVE  Channel!Lose(ToSet(rx[p])) /\ ToSet(rx[p]) \in SUBSET Msg
<1> USE DEF TransportInv
<1>1. rx' = [rx EXCEPT ![p] = <<>>] /\ UNCHANGED <<net, sent, handled>>
  BY DEF start_peer
<1>2. ToSet(rx'[p]) = {} /\ \A q \in Peer \ {p} : rx'[q] = rx[q]
  BY <1>1, ToSetEmpty DEF Queues
<1>3. \A m \in ToSet(rx[p]) : Dest(m) = p /\ m \in Msg
  BY DEF Once, OncePerNode, Air
<1>4. ASSUME NEW m \in ToSet(rx[p]) PROVE InTransit(m) /\ ~InTransit(m)'
  <2>1. \A x \in net : x.msg # m
    BY DEF Once, OncePerNode
  <2>2. \A q \in Peer \ {p} : m \notin ToSet(rx[q])
    BY <1>3 DEF Once, OncePerNode
  <2> QED
    BY <1>1, <1>2, <2>1, <2>2 DEF InTransit
<1>5. ASSUME NEW m \in Msg \ ToSet(rx[p]) PROVE InTransit(m) <=> InTransit(m)'
  BY <1>1, <1>2 DEF InTransit
<1>6. ToSet(rx[p]) \in SUBSET Msg
  BY <1>3
<1> QED
  BY <1>1, <1>4, <1>5, <1>6, LoseImplements

LEMMA AirLossImplements ==
    ASSUME TransportInv, TransportInv', NEW x \in net, lose(x)
    PROVE  Channel!Lose({x.msg}) /\ x.msg \in Msg
<1> USE DEF TransportInv
<1>1. net' = net \ {x} /\ UNCHANGED <<sent, handled, rx>> /\ x.msg \in Msg
  BY DEF lose, queue, Air
<1>2. InTransit(x.msg) /\ ~InTransit(x.msg)'
  BY <1>1 DEF InTransit, Once, OncePerNode
<1>3. ASSUME NEW m \in Msg \ {x.msg} PROVE InTransit(m) <=> InTransit(m)'
  BY <1>1 DEF InTransit
<1>4. {x.msg} \in SUBSET Msg
  BY <1>1
<1> QED
  BY <1>1, <1>2, <1>3, <1>4, LoseImplements

\* Every step of the transport is one of the channel, or none.
LEMMA StepImplements ==
    ASSUME TransportInv, TransportInv', [Next]_vars
    PROVE  [Channel!Next]_(Channel!channelVars)
<1>1. ASSUME NEW m \in Msg, send_msg(m) PROVE Channel!Next
  BY <1>1, SendImplements DEF Channel!Next
<1>2. ASSUME NEW x \in net, NEW p \in Peer, receive(x, p)
      PROVE  [Channel!Next]_(Channel!channelVars)
  <2>1. x.msg \in Msg
    BY DEF TransportInv, Air
  <2> QED
    BY <1>2, <2>1, ReceiveImplements DEF Channel!Next
<1>3. ASSUME NEW p \in Peer, drain_get(p) PROVE Channel!Next
  BY <1>3, GetImplements DEF Channel!Next
<1>4. ASSUME NEW p \in Peer, NEW n \in Imported, NEW ok \in BOOLEAN,
             start_peer(p, n, ok) PROVE Channel!Next
  BY <1>4, StartImplements DEF Channel!Next
<1>5. ASSUME NEW x \in net, lose(x) PROVE Channel!Next
  BY <1>5, AirLossImplements DEF Channel!Next
<1>6. CASE UNCHANGED <<sent, handled, net, rx>>
  BY <1>6 DEF Channel!channelVars, Status
<1> QED
  BY <1>1, <1>2, <1>3, <1>4, <1>5, <1>6 DEF Next, vars, queue, discover_peers, submit,
     drain_start, drain_empty, drain_end, start_sender, withdraw

\* The transport is the channel RaftServer takes it for: it loses messages, but
\* neither repeats one nor hands one to the wrong node.
THEOREM TransportIsLossyChannel == Spec => ImplementsChannel
<1>1. TransportInv /\ TransportInv' /\ [Next]_vars => [Channel!Next]_(Channel!channelVars)
  BY StepImplements
<1> QED
  BY <1>1, InitChannel, TransportInvariant, PTL DEF Spec, ImplementsChannel, Channel!Spec
=============================================================================
