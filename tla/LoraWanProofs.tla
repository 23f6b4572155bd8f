---------------------------- MODULE LoraWanProofs ----------------------------
(***************************************************************************)
(* Proofs about LoraWan, for any set of payloads, any depth of the queue   *)
(* and any number of failures and late answers: no payload is lost on its  *)
(* way or doubled.                                                         *)
(***************************************************************************)
EXTENDS LoraWan, SequenceTheorems, FunctionTheorems, FiniteSetTheorems, TLAPS

-----------------------------------------------------------------------------
(* A queue without repetitions.                                            *)

Items(s) == {s[k] : k \in DOMAIN s}

Distinct(s) == \A i, j \in DOMAIN s : s[i] = s[j] => i = j

\* k_msgq_put.
LEMMA PutItem ==
    ASSUME NEW s \in Seq(Payload), NEW p \in Payload
    PROVE  /\ Items(Append(s, p)) = Items(s) \union {p}
           /\ Distinct(s) /\ p \notin Items(s) => Distinct(Append(s, p))
<1>1. PICK t \in Seq(Payload) : t = Append(s, p)
  BY AppendProperties
<1>2. PICK n \in Nat : n = Len(s)
  OBVIOUS
<1>3. /\ DOMAIN s = 1 .. n /\ DOMAIN t = 1 .. n + 1
      /\ t[n + 1] = p /\ \A k \in 1 .. n : t[k] = s[k]
  BY <1>1, <1>2
<1>4. \A k \in 1 .. n + 1 : k # n + 1 => k \in 1 .. n
  OBVIOUS
<1>5. n + 1 \in 1 .. n + 1 /\ 1 .. n \subseteq 1 .. n + 1
  OBVIOUS
<1>6. Items(t) = Items(s) \union {p}
  <2>1. Items(t) \subseteq Items(s) \union {p}
    BY <1>3, <1>4 DEF Items
  <2>2. Items(s) \union {p} \subseteq Items(t)
    BY <1>3, <1>5 DEF Items
  <2> QED BY <2>1, <2>2
<1>7. ASSUME Distinct(s), p \notin Items(s) PROVE Distinct(t)
  <2>1. \A k \in 1 .. n : s[k] # p
    BY <1>3, <1>7 DEF Items
  <2> QED BY <1>3, <1>4, <1>7, <2>1 DEF Distinct
<1> QED BY <1>1, <1>6, <1>7

\* k_msgq_get.
LEMMA GetItem ==
    ASSUME NEW s \in Seq(Payload), s # <<>>, Distinct(s)
    PROVE  /\ Head(s) \in Payload /\ Tail(s) \in Seq(Payload)
           /\ Items(s) = Items(Tail(s)) \union {Head(s)}
           /\ Head(s) \notin Items(Tail(s))
           /\ Distinct(Tail(s))
<1>1. PICK t \in Seq(Payload) : t = Tail(s)
  BY HeadTailProperties
<1>2. PICK n \in Nat : n = Len(t) /\ Len(s) = n + 1
  BY <1>1, HeadTailProperties, EmptySeq
<1>3. DOMAIN s = 1 .. n + 1 /\ DOMAIN t = 1 .. n
  BY <1>2
<1>4. \A k \in 1 .. n : t[k] = s[k + 1]
  BY <1>1, <1>2, HeadTailProperties
<1>5. Head(s) = s[1] /\ Head(s) \in Payload
  BY HeadTailProperties
<1>6. /\ 1 \in 1 .. n + 1
      /\ \A k \in 1 .. n : k + 1 \in 1 .. n + 1 /\ k + 1 # 1
      /\ \A k \in 1 .. n + 1 : k # 1 => k - 1 \in 1 .. n /\ (k - 1) + 1 = k
  OBVIOUS
<1>7. Items(s) = Items(t) \union {Head(s)}
  <2>1. ASSUME NEW x \in Items(s) PROVE x \in Items(t) \union {Head(s)}
    <3>1. PICK k \in 1 .. n + 1 : x = s[k]
      BY <1>3 DEF Items
    <3>2. CASE k = 1
      BY <3>1, <3>2, <1>5
    <3>3. CASE k # 1
      <4>1. k - 1 \in 1 .. n /\ t[k - 1] = s[k]
        BY <3>3, <1>4, <1>6
      <4> QED BY <3>1, <4>1, <1>3 DEF Items
    <3> QED BY <3>2, <3>3
  <2>2. Items(t) \union {Head(s)} \subseteq Items(s)
    BY <1>3, <1>4, <1>5, <1>6 DEF Items
  <2> QED BY <2>1, <2>2
<1>8. Head(s) \notin Items(t)
  <2> SUFFICES ASSUME NEW k \in 1 .. n, t[k] = Head(s) PROVE FALSE
    BY <1>3 DEF Items
  <2>1. s[k + 1] = s[1]
    BY <1>4, <1>5
  <2> QED BY <2>1, <1>3, <1>6 DEF Distinct
<1>9. Distinct(t)
  <2> SUFFICES ASSUME NEW i \in 1 .. n, NEW j \in 1 .. n, t[i] = t[j] PROVE i = j
    BY <1>3 DEF Distinct
  <2>1. s[i + 1] = s[j + 1]
    BY <1>4
  <2>2. i + 1 = j + 1
    BY <2>1, <1>3, <1>6 DEF Distinct
  <2> QED BY <2>2
<1> QED BY <1>1, <1>5, <1>7, <1>8, <1>9

\* The number of different payloads in it is its length.
LEMMA CountItems ==
    ASSUME NEW s \in Seq(Payload), Distinct(s)
    PROVE  IsFiniteSet(Items(s)) /\ Cardinality(Items(s)) = Len(s)
<1>1. DOMAIN s = 1 .. Len(s) /\ Len(s) \in Nat /\ s \in [1 .. Len(s) -> Items(s)]
  BY DEF Items
<1>2. s \in Bijection(1 .. Len(s), Items(s))
  BY <1>1 DEF Items, Distinct, Bijection, Injection, Surjection, IsInjective
<1>3. ExistsBijection(1 .. Len(s), Items(s))
  BY <1>2 DEF ExistsBijection
<1> QED BY <1>1, <1>3, FS_CountingElements, FS_NatBijection
-----------------------------------------------------------------------------
(* The inductive invariant.  A payload is accepted once, and every step    *)
(* moves it from one place to the next.                                    *)

QueueTypeOK ==
    /\ running \in BOOLEAN /\ joined \in BOOLEAN
    /\ txq \in Seq(Payload) /\ Len(txq) <= QueueDepth
    /\ pc \in {"test", "setup", "join", "force", "backoff", "get", "pend",
               "ship", "ended"}
    /\ held \in Payload \union {NoPayload}
    /\ held # NoPayload <=> pc = "ship"
    /\ accepted \subseteq Payload /\ dropped \subseteq Payload
    /\ confirmed \subseteq Payload

OnePlace ==
    /\ Distinct(txq) /\ held \notin Items(txq)
    /\ Items(txq) \subseteq accepted /\ confirmed \subseteq accepted
    /\ held # NoPayload => held \in accepted
    /\ accepted \subseteq (Items(txq) \union {held}) \union (confirmed \union dropped)
    /\ Items(txq) \intersect (confirmed \union dropped) = {}
    /\ held \notin confirmed \union dropped

QueueInv == QueueTypeOK /\ OnePlace

LEMMA EmptyQueue == <<>> \in Seq(Payload) /\ Len(<<>>) = 0 /\ Items(<<>>) = {} /\ Distinct(<<>>)
<1>1. DOMAIN <<>> = {} /\ <<>> \in Seq(Payload) /\ Len(<<>>) = 0
  OBVIOUS
<1> QED BY <1>1 DEF Items, Distinct

LEMMA QueueInvInit == Init => QueueInv
<1> SUFFICES ASSUME Init PROVE QueueInv
  OBVIOUS
<1>1. QueueTypeOK
  <2>1. Len(txq) <= QueueDepth /\ txq \in Seq(Payload)
    BY EmptyQueue, LoraWanAssumption DEF Init
  <2> QED BY <2>1 DEF Init, QueueTypeOK
<1>2. OnePlace
  BY EmptyQueue DEF Init, OnePlace
<1> QED BY <1>1, <1>2 DEF QueueInv

\* Steps that move no payload.
LEMMA NothingMoves ==
    ASSUME QueueInv, UNCHANGED <<txq, held, accepted, dropped, confirmed>>,
           running' \in BOOLEAN, joined' \in BOOLEAN,
           pc' \in {"test", "setup", "join", "force", "backoff", "get", "pend",
                    "ship", "ended"},
           pc' = "ship" <=> pc = "ship"
    PROVE  QueueInv'
BY DEF QueueInv, QueueTypeOK, OnePlace

LEMMA GetKeeps ==
    ASSUME QueueInv, Get
    PROVE  QueueInv'
<1> USE DEF QueueInv
<1>1. /\ pc = "get" /\ held = NoPayload
      /\ UNCHANGED <<running, joined, accepted, dropped, confirmed>>
  BY DEF Get, QueueTypeOK, past
<1>2. CASE txq = <<>>
  BY <1>1, <1>2, NothingMoves DEF Get, QueueTypeOK
<1>3. CASE txq # <<>>
  <2>1. held' = Head(txq) /\ txq' = Tail(txq) /\ pc' = "ship"
    BY <1>3 DEF Get
  <2>2. /\ held' \in Payload /\ txq' \in Seq(Payload) /\ Distinct(txq')
        /\ Items(txq) = Items(txq') \union {held'} /\ held' \notin Items(txq')
    BY <1>3, <2>1, GetItem DEF QueueTypeOK, OnePlace
  <2>3. Len(txq') <= QueueDepth
    <3>1. Len(txq) \in Nat /\ Len(txq') = Len(txq) - 1 /\ Len(txq) <= QueueDepth
      BY <1>3, <2>1, HeadTailProperties DEF QueueTypeOK
    <3> QED BY <3>1, LoraWanAssumption
  <2>4. QueueTypeOK'
    BY <1>1, <2>1, <2>2, <2>3, LoraWanAssumption DEF QueueTypeOK
  <2>5. NoPayload \notin accepted
    BY LoraWanAssumption DEF QueueTypeOK
  <2>6. OnePlace'
    BY <1>1, <2>2, <2>5 DEF OnePlace
  <2> QED BY <2>4, <2>6
<1> QED BY <1>2, <1>3

LEMMA ShipKeeps ==
    ASSUME QueueInv, pc = "ship", NEW res, Ship(res), running' = running
    PROVE  QueueInv'
<1> USE DEF QueueInv
<1>1. /\ held \in Payload /\ held' = NoPayload /\ pc' = "test" /\ accepted' = accepted
      /\ NoPayload \notin Payload
  BY LoraWanAssumption DEF Ship, QueueTypeOK
<1>2. /\ Items(txq) \subseteq Payload /\ accepted \subseteq Payload
      /\ dropped \subseteq Payload /\ confirmed \subseteq Payload
  BY DEF QueueTypeOK, OnePlace
<1>3. joined' \in BOOLEAN
  BY DEF Ship, QueueTypeOK
<1>4. CASE res = "MATCHED"
  <2>1. confirmed' = confirmed \union {held} /\ UNCHANGED <<txq, dropped>>
    BY <1>4 DEF Ship
  <2>2. QueueTypeOK'
    BY <1>1, <1>3, <2>1 DEF QueueTypeOK
  <2>3. OnePlace'
    BY <1>1, <1>2, <2>1 DEF OnePlace, QueueTypeOK
  <2> QED BY <2>2, <2>3
<1>5. CASE res # "MATCHED"
  <2>1. PutBack /\ UNCHANGED confirmed
    BY <1>5 DEF Ship
  <2>2. CASE Len(txq) < QueueDepth
    <3>1. txq' = Append(txq, held) /\ dropped' = dropped
      BY <2>1, <2>2 DEF PutBack
    <3>2. Items(txq') = Items(txq) \union {held} /\ Distinct(txq') /\ txq' \in Seq(Payload)
      BY <3>1, <1>1, PutItem, AppendProperties DEF QueueTypeOK, OnePlace
    <3>3. Len(txq') <= QueueDepth
      <4>1. Len(txq) \in Nat /\ Len(txq') = Len(txq) + 1 /\ QueueDepth \in Nat
        BY <3>1, <1>1, AppendProperties, LoraWanAssumption DEF QueueTypeOK
      <4> QED BY <4>1, <2>2
    <3>4. QueueTypeOK'
      BY <1>1, <1>3, <2>1, <3>1, <3>2, <3>3 DEF QueueTypeOK
    <3>5. OnePlace'
      BY <1>1, <1>2, <2>1, <3>1, <3>2 DEF OnePlace, QueueTypeOK
    <3> QED BY <3>4, <3>5
  <2>3. CASE ~(Len(txq) < QueueDepth)
    <3>1. dropped' = dropped \union {held} /\ txq' = txq
      BY <2>1, <2>3 DEF PutBack
    <3>2. QueueTypeOK'
      BY <1>1, <1>3, <2>1, <3>1 DEF QueueTypeOK
    <3>3. OnePlace'
      BY <1>1, <1>2, <2>1, <3>1 DEF OnePlace, QueueTypeOK
    <3> QED BY <3>2, <3>3
  <2> QED BY <2>2, <2>3
<1> QED BY <1>4, <1>5

\* Whatever the thread waits for, and whatever comes.
LEMMA ContinueKeeps ==
    ASSUME QueueInv, Waiting, NEW res, Continue(res), running' = running
    PROVE  QueueInv'
<1>1. CASE pc = "ship"
  BY <1>1, ShipKeeps DEF Continue
<1>2. CASE pc # "ship"
  <2>1. UNCHANGED <<txq, accepted, dropped, confirmed>>
    BY <1>2 DEF Continue
  <2>2. pc \in {"setup", "join", "force"}
    <3>1. pc \notin {"test", "backoff", "get", "pend", "ended"}
      BY DEF Waiting, Current, Command
    <3> QED BY <3>1, <1>2 DEF QueueInv, QueueTypeOK
  <2>3. \/ pc = "setup" /\ Setup(res)
        \/ pc = "join" /\ Join(res)
        \/ pc = "force" /\ ForceJoin(res)
    <3>1. CASE pc = "setup"
      BY <3>1 DEF Continue
    <3>2. CASE pc = "join"
      BY <3>2 DEF Continue
    <3>3. CASE pc = "force"
      BY <3>3 DEF Continue
    <3> QED BY <2>2, <3>1, <3>2, <3>3
  <2>4. /\ held' = held /\ joined' \in BOOLEAN
        /\ pc' \in {"test", "setup", "join", "force", "backoff"}
    BY <2>2, <2>3
       DEF Setup, Join, ForceJoin, JoinSucceeds, JoinFails, QueueInv, QueueTypeOK
  <2>5. running' \in BOOLEAN
    BY DEF QueueInv, QueueTypeOK
  <2> QED BY <1>2, <2>1, <2>4, <2>5, NothingMoves
<1> QED BY <1>1, <1>2

LEMMA SendBatchKeeps ==
    ASSUME QueueInv, NEW p \in Payload, SendBatch(p)
    PROVE  QueueInv'
<1> USE DEF QueueInv
<1>1. /\ p \notin accepted \union dropped /\ p # NoPayload
      /\ UNCHANGED <<running, joined, confirmed>>
  BY LoraWanAssumption DEF SendBatch
<1>2. p \notin Items(txq) /\ p # held /\ p \notin confirmed
  BY <1>1 DEF OnePlace
<1>3. Len(txq) \in Nat /\ QueueDepth \in Nat /\ Len(txq) <= QueueDepth
  BY LoraWanAssumption DEF QueueTypeOK
<1>4. CASE pc = "pend"
  <2>1. /\ held' = p /\ pc' = "ship" /\ accepted' = accepted \union {p}
        /\ UNCHANGED <<txq, dropped>> /\ held = NoPayload
    BY <1>4 DEF SendBatch, QueueTypeOK
  <2>2. QueueTypeOK'
    BY <1>1, <2>1 DEF QueueTypeOK
  <2>3. NoPayload \notin accepted
    BY LoraWanAssumption DEF QueueTypeOK
  <2>4. OnePlace'
    BY <1>1, <1>2, <2>1, <2>3 DEF OnePlace
  <2> QED BY <2>2, <2>4
<1>5. CASE pc # "pend" /\ Len(txq) < QueueDepth
  <2>1. /\ txq' = Append(txq, p) /\ accepted' = accepted \union {p}
        /\ UNCHANGED <<held, pc, dropped>>
    <3>1. Len(txq) # QueueDepth
      BY <1>3, <1>5
    <3> QED BY <3>1, <1>5, Zenon DEF SendBatch
  <2>2. Items(txq') = Items(txq) \union {p} /\ Distinct(txq') /\ txq' \in Seq(Payload)
    BY <2>1, <1>2, PutItem, AppendProperties DEF QueueTypeOK, OnePlace
  <2>3. Len(txq') <= QueueDepth
    <3>1. Len(txq') = Len(txq) + 1
      BY <2>1, AppendProperties DEF QueueTypeOK
    <3> QED BY <3>1, <1>3, <1>5
  <2>4. QueueTypeOK'
    BY <1>1, <2>1, <2>2, <2>3 DEF QueueTypeOK
  <2>5. OnePlace'
    BY <1>1, <1>2, <2>1, <2>2 DEF OnePlace
  <2> QED BY <2>4, <2>5
<1>6. CASE pc # "pend" /\ Len(txq) = QueueDepth
  <2>1. dropped' = dropped \union {p} /\ UNCHANGED <<held, pc, txq, accepted>>
    <3>1. ~(Len(txq) < QueueDepth)
      BY <1>3, <1>6
    <3> QED BY <3>1, <1>6, Zenon DEF SendBatch
  <2>2. QueueTypeOK'
    BY <1>1, <2>1 DEF QueueTypeOK
  <2>3. OnePlace'
    BY <1>1, <1>2, <2>1 DEF OnePlace
  <2> QED BY <2>2, <2>3
<1> QED BY <1>3, <1>4, <1>5, <1>6

LEMMA StopPurgeKeeps ==
    ASSUME QueueInv, StopPurge
    PROVE  QueueInv'
<1> USE DEF QueueInv
<1>1. /\ dropped' = dropped \union Items(txq) /\ txq' = <<>>
      /\ pc' = IF pc = "pend" THEN "test" ELSE pc
      /\ UNCHANGED <<running, joined, held, accepted, confirmed>>
  BY DEF StopPurge, Items
<1>2. QueueTypeOK'
  <2>1. txq' \in Seq(Payload) /\ Len(txq') <= QueueDepth
    BY <1>1, EmptyQueue, LoraWanAssumption
  <2> QED BY <1>1, <2>1 DEF QueueTypeOK, OnePlace
<1>3. Items(txq') = {} /\ Distinct(txq')
  BY <1>1, EmptyQueue
<1>4. OnePlace'
  BY <1>1, <1>3 DEF OnePlace
<1> QED BY <1>2, <1>4

LEMMA QueueInvStep == QueueInv /\ [Next]_vars => QueueInv'
<1> SUFFICES ASSUME QueueInv, [Next]_vars PROVE QueueInv'
  OBVIOUS
<1> DEFINE Labels == {"test", "setup", "join", "force", "backoff", "get", "pend",
                      "ship", "ended"}
<1>1. CASE UNCHANGED vars \/ LoseSession \/ StopRunning \/ StopGive \/ StopJoin
  <2>1. /\ UNCHANGED <<txq, held, accepted, dropped, confirmed, pc, joined>>
        /\ running' \in BOOLEAN
    BY <1>1 DEF vars, threadVars, past, LoseSession, StopRunning, StopGive, StopJoin,
               QueueInv, QueueTypeOK
  <2> QED BY <2>1, NothingMoves DEF QueueInv, QueueTypeOK
<1>2. CASE TestRunning \/ WakeUp
  <2>1. pc' \in Labels \ {"ship"} /\ pc \in {"test", "backoff"}
    BY <1>2 DEF TestRunning, WakeUp, QueueInv, QueueTypeOK
  <2>2. UNCHANGED <<txq, held, accepted, dropped, confirmed, joined, running>>
    BY <1>2 DEF TestRunning, WakeUp, past
  <2> QED BY <2>1, <2>2, NothingMoves DEF QueueInv, QueueTypeOK
<1>3. CASE Get
  BY <1>3, GetKeeps
<1>4. CASE Match
  BY <1>4, ContinueKeeps DEF Match
<1>5. CASE \E res \in {"AT_ERROR", "TIMEOUT", "NOT_JOINED"} : Fail(res)
  BY <1>5, ContinueKeeps DEF Fail
<1>6. CASE LateAnswer
  <2>1. CASE Waiting /\ (Continue("MATCHED") \/ Continue("NOT_JOINED"))
    BY <1>6, <2>1, ContinueKeeps DEF LateAnswer
  <2>2. CASE UNCHANGED <<threadVars, txq, past>>
    BY <1>6, <2>2, NothingMoves DEF LateAnswer, threadVars, past, QueueInv, QueueTypeOK
  <2> QED BY <1>6, <2>1, <2>2 DEF LateAnswer
<1>7. CASE \E p \in Payload : SendBatch(p)
  BY <1>7, SendBatchKeeps
<1>8. CASE StopPurge
  BY <1>8, StopPurgeKeeps
<1> QED BY <1>1, <1>2, <1>3, <1>4, <1>5, <1>6, <1>7, <1>8 DEF Next

\* A payload send_batch took is in one place, and only one, until it is
\* confirmed or lost to a full queue or to stop().
THEOREM PayloadsAccountedFor == Spec => []PayloadIsSomewhere
<1>1. ASSUME QueueInv PROVE PayloadIsSomewhere
  <2> USE <1>1 DEF QueueInv
  <2>1. Queued = Items(txq) \union ({held} \ {NoPayload})
    BY DEF Queued, Items
  <2>2. NoPayload \notin accepted
    BY LoraWanAssumption DEF QueueTypeOK
  <2>3. accepted \subseteq Queued \union confirmed \union dropped
    BY <2>1, <2>2 DEF OnePlace
  <2>4. Queued \intersect (confirmed \union dropped) = {}
    BY <2>1 DEF OnePlace
  <2>5. IsFiniteSet(Items(txq)) /\ Cardinality(Items(txq)) = Len(txq) /\ Len(txq) \in Nat
    BY CountItems DEF QueueTypeOK, OnePlace
  <2>6. Cardinality(Queued) = Len(txq) + (IF held = NoPayload THEN 0 ELSE 1)
    <3>1. CASE held = NoPayload
      <4>1. Queued = Items(txq)
        BY <3>1, <2>1
      <4> QED BY <3>1, <4>1, <2>5
    <3>2. CASE held # NoPayload
      <4>1. Queued = Items(txq) \union {held} /\ held \notin Items(txq)
        BY <3>2, <2>1 DEF OnePlace
      <4>2. Cardinality(Items(txq) \union {held}) = Cardinality(Items(txq)) + 1
        BY <4>1, <2>5, FS_AddElement
      <4> QED BY <3>2, <4>1, <4>2, <2>5
    <3> QED BY <3>1, <3>2
  <2> QED BY <2>3, <2>4, <2>6 DEF PayloadIsSomewhere
<1> QED BY <1>1, QueueInvInit, QueueInvStep, PTL DEF Spec

=============================================================================
