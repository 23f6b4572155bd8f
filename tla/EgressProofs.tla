---------------------------- MODULE EgressProofs -----------------------------
(***************************************************************************)
(* Proofs about Egress, for any cluster, any sizes of the tracker's ring,  *)
(* the queues and the log, any number of batches, elections and crashes.   *)
(***************************************************************************)
EXTENDS Egress, SequenceTheorems, WellFoundedInduction, TLAPS

-----------------------------------------------------------------------------
(* Types.  A record names a committed batch: begin_egress runs when the    *)
(* batch is applied, and everything later copies the index.                *)

Entry == [kind : {"SENSOR_DATA"}, batch : Nat] \union [kind : {"EGRESS_MSG"}, rec : Record]

Payload == [seq : Nat, index : Nat, batch : Nat]

IsBatch(i) == i \in 1 .. commit /\ log[i].kind = "SENSOR_DATA"

LogTypeOK ==
    /\ log \in Seq(Entry)
    /\ commit \in Nat /\ commit <= Len(log)
    /\ \A i \in 1 .. Len(log) : log[i].kind = "EGRESS_MSG" => IsBatch(log[i].rec.index)

TrackerTypeOK(t) ==
    /\ t.ring \in [Slot -> Record \union {NoRecord}]
    /\ t.head \in Slot
    /\ t.next \in Nat
    /\ \A s \in Slot : t.ring[s] # NoRecord => IsBatch(t.ring[s].index)
    /\ \E top \in Nat : \A s \in Slot : t.ring[s] # NoRecord => t.ring[s].seq <= top

Tracker == [ring : [Slot -> Record \union {NoRecord}], head : Slot, next : Nat]

NodeTypeOK ==
    /\ applied \in [Node -> Nat] /\ \A n \in Node : applied[n] <= commit
    /\ base \in [Node -> Nat] /\ \A n \in Node : base[n] <= applied[n]
    /\ tracker \in [Node -> Tracker] /\ \A n \in Node : TrackerTypeOK(tracker[n])

QueueTypeOK ==
    /\ txq \in [Node -> Seq(Payload)] /\ done \in [Node -> Seq(Payload)]
    /\ \A n \in Node : \A k \in 1 .. Len(txq[n]) : IsBatch(txq[n][k].index)
    /\ \A n \in Node : \A k \in 1 .. Len(done[n]) : IsBatch(done[n][k].index)

EgressTypeOK == LogTypeOK /\ NodeTypeOK /\ QueueTypeOK

LEMMA Sizes == Cap \in Nat /\ Cap > 0 /\ 0 \in Slot /\ MaxBatches \in Nat /\ NoNode \notin Node
BY EgressAssumption DEF Slot

LEMMA EntryFields ==
    /\ \A e \in Entry : e.kind \in {"SENSOR_DATA", "EGRESS_MSG"}
    /\ \A e \in Entry : e.kind = "SENSOR_DATA" => e.batch \in Nat
    /\ \A e \in Entry : e.kind = "EGRESS_MSG" => e.rec \in Record
BY DEF Entry

LEMMA RecordFields ==
    \A r \in Record : r.seq \in Nat /\ r.index \in Nat /\ r.phase \in {"STARTED", "SENT"}
BY DEF Record

LEMMA EntryTypes ==
    /\ \A b \in Nat : BatchEntry(b) \in Entry /\ BatchEntry(b).kind = "SENSOR_DATA"
    /\ \A i, s \in Nat, p \in {"STARTED", "SENT"} :
          /\ EgressEntry(i, s, p) \in Entry /\ EgressEntry(i, s, p).kind = "EGRESS_MSG"
          /\ EgressEntry(i, s, p).rec.index = i /\ EgressEntry(i, s, p).rec.seq = s
          /\ EgressEntry(i, s, p).rec.phase = p
BY DEF BatchEntry, EgressEntry, Entry, Record

LEMMA TypeInit == Init => EgressTypeOK
<1> SUFFICES ASSUME Init PROVE EgressTypeOK
  OBVIOUS
<1>1. log = <<>> /\ Len(log) = 0 /\ commit = 0 /\ log \in Seq(Entry)
  BY DEF Init
<1>2. LogTypeOK
  BY <1>1 DEF LogTypeOK
<1>3. EmptyTracker \in Tracker /\ TrackerTypeOK(EmptyTracker)
  BY Sizes DEF EmptyTracker, Tracker, TrackerTypeOK
<1>4. NodeTypeOK
  BY <1>3 DEF Init, NodeTypeOK
<1>5. QueueTypeOK
  <2>1. <<>> \in Seq(Payload) /\ Len(<<>>) = 0
    OBVIOUS
  <2>2. \A n \in Node : txq[n] = <<>> /\ done[n] = <<>>
    BY DEF Init
  <2>3. txq \in [Node -> Seq(Payload)] /\ done \in [Node -> Seq(Payload)]
    BY <2>1 DEF Init
  <2> QED BY <2>1, <2>2, <2>3 DEF QueueTypeOK
<1> QED BY <1>2, <1>4, <1>5 DEF EgressTypeOK

\* The committed part of the log is stable: what was a batch stays one.
LogKept ==
    /\ log' \in Seq(Entry) /\ commit' \in Nat /\ commit <= commit' /\ commit' <= Len(log')
    /\ \A i \in 1 .. commit : log'[i] = log[i]

LEMMA BatchKept ==
    ASSUME LogTypeOK, LogKept, NEW i, IsBatch(i)
    PROVE  IsBatch(i)'
<1>1. i \in 1 .. commit /\ i \in 1 .. commit'
  BY DEF IsBatch, LogKept, LogTypeOK
<1> QED BY <1>1 DEF IsBatch, LogKept

LEMMA TrackerKept ==
    ASSUME LogTypeOK, LogKept, NEW t \in Tracker, TrackerTypeOK(t)
    PROVE  TrackerTypeOK(t)'
BY BatchKept DEF TrackerTypeOK

\* on_apply of the tracker.
LEMMA OnApplyShape ==
    ASSUME NEW t \in Tracker, NEW r \in Record
    PROVE  /\ OnApply(t, r) \in Tracker
           /\ \A s \in Slot :
                 \/ OnApply(t, r).ring[s] = t.ring[s]
                 \/ OnApply(t, r).ring[s] = r
                 \/ /\ t.ring[s] # NoRecord
                    /\ OnApply(t, r).ring[s].index = t.ring[s].index
                    /\ OnApply(t, r).ring[s].seq = t.ring[s].seq
<1>1. PICK u : u = OnApply(t, r)
  OBVIOUS
<1>2. NextAfter(t, r) \in Nat /\ NextSlot(t.head) \in Slot
  <2>1. t.next \in Nat /\ r.seq \in Nat /\ t.head \in Slot
    BY DEF Tracker, Record
  <2>2. t.head \in Int /\ Cap \in Nat /\ Cap > 0
    BY <2>1, Sizes DEF Slot
  <2>3. (t.head + 1) % Cap \in 0 .. Cap - 1
    BY <2>2
  <2> QED BY <2>1, <2>3 DEF NextAfter, NextSlot, Slot
<1>3. \A s \in Slot : t.ring[s] \in Record \union {NoRecord}
  BY DEF Tracker
<1>4. /\ u = [ring |-> u.ring, head |-> u.head, next |-> u.next]
      /\ u.head \in Slot /\ u.next \in Nat
      /\ u.ring \in [Slot -> Record \union {NoRecord}]
      /\ \A s \in Slot :
            \/ u.ring[s] = t.ring[s]
            \/ u.ring[s] = r
            \/ /\ t.ring[s] # NoRecord
               /\ u.ring[s].index = t.ring[s].index /\ u.ring[s].seq = t.ring[s].seq
  <2>1. CASE SlotsOf(t, r.seq) # {}
    <3>1. \A s \in SlotsOf(t, r.seq) : t.ring[s] # NoRecord /\ t.ring[s] \in Record
      BY <1>3 DEF SlotsOf
    <3>2. u = [t EXCEPT !.next = NextAfter(t, r),
                        !.ring = [s \in Slot |->
                                    IF s \in SlotsOf(t, r.seq)
                                    THEN [t.ring[s] EXCEPT !.phase = r.phase] ELSE t.ring[s]]]
      BY <1>1, <2>1 DEF OnApply
    <3>3. /\ u.next = NextAfter(t, r) /\ u.head = t.head
          /\ u.ring = [s \in Slot |-> IF s \in SlotsOf(t, r.seq)
                                      THEN [t.ring[s] EXCEPT !.phase = r.phase] ELSE t.ring[s]]
      BY <3>2 DEF Tracker
    <3>4. \A s \in SlotsOf(t, r.seq) :
              /\ [t.ring[s] EXCEPT !.phase = r.phase] \in Record
              /\ [t.ring[s] EXCEPT !.phase = r.phase].index = t.ring[s].index
              /\ [t.ring[s] EXCEPT !.phase = r.phase].seq = t.ring[s].seq
      BY <3>1 DEF Record
    <3>5. u = [ring |-> u.ring, head |-> u.head, next |-> u.next]
      BY <3>2 DEF Tracker
    <3>6. u.ring \in [Slot -> Record \union {NoRecord}]
      BY <3>3, <3>4, <1>3
    <3>7. \A s \in Slot : u.ring[s] = IF s \in SlotsOf(t, r.seq)
                                      THEN [t.ring[s] EXCEPT !.phase = r.phase] ELSE t.ring[s]
      BY <3>3
    <3> QED BY <3>1, <3>3, <3>4, <3>5, <3>6, <3>7, <1>2 DEF Tracker
  <2>2. CASE SlotsOf(t, r.seq) = {}
    <3>1. u = [ring |-> [t.ring EXCEPT ![t.head] = r], head |-> NextSlot(t.head),
               next |-> NextAfter(t, r)]
      BY <1>1, <2>2 DEF OnApply
    <3>2. /\ u.ring = [t.ring EXCEPT ![t.head] = r] /\ u.head = NextSlot(t.head)
          /\ u.next = NextAfter(t, r)
      BY <3>1
    <3>3. u.ring \in [Slot -> Record \union {NoRecord}] /\ \A s \in Slot : u.ring[s] \in {t.ring[s], r}
      BY <3>2 DEF Tracker
    <3> QED BY <3>1, <3>2, <3>3, <1>2
  <2> QED BY <2>1, <2>2
<1>5. u \in Tracker
  BY <1>4 DEF Tracker
<1> QED BY <1>1, <1>4, <1>5

LEMMA OnApplyType ==
    ASSUME NEW t \in Tracker, TrackerTypeOK(t), NEW r \in Record, IsBatch(r.index)
    PROVE  OnApply(t, r) \in Tracker /\ TrackerTypeOK(OnApply(t, r))
<1>1. PICK u \in Tracker : u = OnApply(t, r)
  BY OnApplyShape
<1>3. \A s \in Slot : t.ring[s] \in Record \union {NoRecord}
  BY DEF Tracker
<1>4. \A s \in Slot :
          \/ u.ring[s] = t.ring[s]
          \/ u.ring[s] = r
          \/ /\ t.ring[s] # NoRecord
             /\ u.ring[s].index = t.ring[s].index /\ u.ring[s].seq = t.ring[s].seq
  BY <1>1, OnApplyShape
<1>6. \A s \in Slot : u.ring[s] # NoRecord => IsBatch(u.ring[s].index)
  BY <1>4 DEF TrackerTypeOK
<1>7. \E top \in Nat : \A s \in Slot : u.ring[s] # NoRecord => u.ring[s].seq <= top
  <2>1. PICK top \in Nat : \A s \in Slot : t.ring[s] # NoRecord => t.ring[s].seq <= top
    BY DEF TrackerTypeOK
  <2>2. r.seq \in Nat /\ \A s \in Slot : t.ring[s] # NoRecord => t.ring[s].seq \in Nat
    BY <1>3 DEF Record
  <2>3. top + r.seq \in Nat /\ r.seq <= top + r.seq
    BY <2>2
  <2>4. \A s \in Slot : t.ring[s] # NoRecord => t.ring[s].seq <= top + r.seq
    BY <2>1, <2>2
  <2>5. \A s \in Slot : u.ring[s] # NoRecord => u.ring[s].seq <= top + r.seq
    BY <1>4, <2>3, <2>4
  <2> QED BY <2>3, <2>5
<1>8. u.ring \in [Slot -> Record \union {NoRecord}] /\ u.head \in Slot /\ u.next \in Nat
  BY DEF Tracker
<1> QED BY <1>1, <1>6, <1>7, <1>8 DEF TrackerTypeOK

\* outstanding() finds the highest of the records that are STARTED.
LEMMA OutstandingType ==
    ASSUME NEW t \in Tracker, TrackerTypeOK(t), Started(t) # {}
    PROVE  /\ Outstanding(t) \in Record /\ IsBatch(Outstanding(t).index)
           /\ Adopt(t) \in Tracker /\ TrackerTypeOK(Adopt(t))
           /\ Adopt(t).ring = t.ring /\ Adopt(t).head = t.head
<1>1. PICK top \in Nat : \A s \in Slot : t.ring[s] # NoRecord => t.ring[s].seq <= top
  BY DEF TrackerTypeOK
<1>2. \A r \in Started(t) : r \in Record /\ IsBatch(r.index) /\ r.seq <= top /\ r.seq \in Nat
  BY <1>1 DEF Started, TrackerTypeOK, Record
<1> DEFINE T == {top - r.seq : r \in Started(t)}
           R == OpToRel(<, Nat)
<1>3. \E x \in T : \A y \in T : <<y, x>> \notin R
  <2>1. IsWellFoundedOn(R, Nat)
    BY NatLessThanWellFounded
  <2>2. T \subseteq Nat /\ T # {}
    BY <1>2
  <2> HIDE DEF T, R
  <2> QED BY <2>1, <2>2, WFMin
<1>4. \A a, b \in Nat : a < b => <<a, b>> \in R
  BY Zenon DEF OpToRel
<1>5. PICK x \in T : \A y \in T : <<y, x>> \notin R
  BY <1>3
<1>6. T \subseteq Nat
  BY <1>2
<1>7. \A y \in T : ~(y < x)
  BY <1>4, <1>5, <1>6
<1>8. PICK r \in Started(t) : x = top - r.seq
  BY <1>5
<1>9. \A q \in Started(t) : q.seq <= r.seq
  <2> TAKE q \in Started(t)
  <2>1. top - q.seq \in T
    OBVIOUS
  <2>2. ~(top - q.seq < top - r.seq)
    BY <2>1, <1>7, <1>8
  <2> QED BY <2>2, <1>2
<1>10. Outstanding(t) \in Started(t)
  BY <1>9 DEF Outstanding
<1>11. Outstanding(t) \in Record /\ IsBatch(Outstanding(t).index) /\ Outstanding(t).seq + 1 \in Nat
  BY <1>2, <1>10
<1>12. Adopt(t) \in Tracker /\ Adopt(t).ring = t.ring /\ Adopt(t).head = t.head
  BY <1>11 DEF Adopt, Tracker
<1>13. TrackerTypeOK(Adopt(t))
  <2>1. Adopt(t).next \in Nat
    BY <1>12 DEF Tracker
  <2> QED BY <1>12, <2>1 DEF TrackerTypeOK
<1> QED BY <1>11, <1>12, <1>13

\* A log that may take the place of the leader's.
GoodLog(L) ==
    /\ L \in Seq(Entry) /\ commit <= Len(L)
    /\ \A i \in 1 .. commit : L[i] = log[i]
    /\ \A i \in 1 .. Len(L) : L[i].kind = "EGRESS_MSG" => IsBatch(L[i].rec.index)

LEMMA GoodLogNow == LogTypeOK => GoodLog(log)
BY DEF LogTypeOK, GoodLog

LEMMA GoodLogAppend ==
    ASSUME LogTypeOK, NEW L, GoodLog(L), NEW e \in Entry,
           e.kind = "EGRESS_MSG" => IsBatch(e.rec.index)
    PROVE  GoodLog(Append(L, e))
<1>1. PICK M : M = Append(L, e)
  OBVIOUS
<1>2. /\ M \in Seq(Entry) /\ Len(M) = Len(L) + 1 /\ Len(L) \in Nat
      /\ \A k \in 1 .. Len(L) : M[k] = L[k]
      /\ M[Len(L) + 1] = e
  BY <1>1, AppendProperties DEF GoodLog
<1>3. \A k \in 1 .. Len(M) : k # Len(L) + 1 => k \in 1 .. Len(L)
  BY <1>2
<1>4. commit <= Len(M) /\ \A k \in 1 .. commit : M[k] = log[k]
  <2>1. commit \in Nat /\ commit <= Len(L)
    BY DEF LogTypeOK, GoodLog
  <2>2. \A k \in 1 .. commit : k \in 1 .. Len(L)
    BY <1>2, <2>1
  <2> QED BY <1>2, <2>1, <2>2 DEF GoodLog
<1>5. ASSUME NEW k \in 1 .. Len(M), M[k].kind = "EGRESS_MSG"
      PROVE  IsBatch(M[k].rec.index)
  BY <1>2, <1>3, <1>5 DEF GoodLog
<1> QED BY <1>1, <1>2, <1>4, <1>5 DEF GoodLog

LEMMA GoodLogPrefix ==
    ASSUME LogTypeOK, NEW k \in commit .. Len(log)
    PROVE  /\ GoodLog(SubSeq(log, 1, k))
           /\ Len(SubSeq(log, 1, k)) = k
           /\ \A i \in 1 .. k : SubSeq(log, 1, k)[i] = log[i]
<1>1. PICK M : M = SubSeq(log, 1, k)
  OBVIOUS
<1>2. k \in Nat /\ k <= Len(log) /\ commit <= k /\ commit \in Nat /\ Len(log) \in Nat
  BY DEF LogTypeOK
<1>3. M \in Seq(Entry) /\ Len(M) = k /\ \A i \in 1 .. k : M[i] = log[i]
  BY <1>1, <1>2, SubSeqProperties DEF LogTypeOK
<1>4. \A i \in 1 .. k : i \in 1 .. Len(log)
  BY <1>2
<1>5. \A i \in 1 .. commit : i \in 1 .. k
  BY <1>2
<1>6. GoodLog(M)
  BY <1>2, <1>3, <1>4, <1>5 DEF GoodLog, LogTypeOK
<1> QED BY <1>1, <1>3, <1>6

LEMMA GoodLogNext ==
    ASSUME LogTypeOK, NEW L, GoodLog(L), log' = L, commit' = commit
    PROVE  LogKept /\ LogTypeOK'
<1>1. LogKept
  BY DEF LogKept, GoodLog, LogTypeOK
<1>2. ASSUME NEW i \in 1 .. Len(L), L[i].kind = "EGRESS_MSG"
      PROVE  IsBatch(L[i].rec.index)'
  <2>1. PICK j : j = L[i].rec.index
    OBVIOUS
  <2>2. IsBatch(j)
    BY <1>2, <2>1 DEF GoodLog
  <2>3. IsBatch(j)'
    BY <1>1, <2>2, BatchKept
  <2> QED BY <2>1, <2>3
<1> QED BY <1>1, <1>2 DEF LogTypeOK, LogKept, IsBatch

\* What m_lorawan_send may put into a queue.
QueuesOK(q) ==
    /\ q \in [Node -> Seq(Payload)]
    /\ \A n \in Node : \A k \in 1 .. Len(q[n]) : IsBatch(q[n][k].index)

LEMMA QueueAppend ==
    ASSUME NEW q, QueuesOK(q), NEW n \in Node, NEW p \in Payload, IsBatch(p.index)
    PROVE  QueuesOK([q EXCEPT ![n] = Append(@, p)])
<1>1. PICK s \in Seq(Payload) : s = q[n]
  BY DEF QueuesOK
<1>2. PICK t : t = Append(s, p)
  OBVIOUS
<1>3. /\ t \in Seq(Payload) /\ Len(t) = Len(s) + 1 /\ Len(s) \in Nat
      /\ \A k \in 1 .. Len(s) : t[k] = s[k]
      /\ t[Len(s) + 1] = p
  BY <1>2, AppendProperties
<1>4. \A k \in 1 .. Len(t) : k # Len(s) + 1 => k \in 1 .. Len(s)
  BY <1>3
<1>5. \A k \in 1 .. Len(t) : IsBatch(t[k].index)
  BY <1>1, <1>3, <1>4 DEF QueuesOK
<1>6. PICK r : r = [q EXCEPT ![n] = t]
  OBVIOUS
<1>7. r \in [Node -> Seq(Payload)] /\ r[n] = t /\ \A m \in Node \ {n} : r[m] = q[m]
  BY <1>3, <1>6 DEF QueuesOK
<1>8. QueuesOK(r)
  BY <1>5, <1>7 DEF QueuesOK
<1> QED BY <1>1, <1>2, <1>6, <1>8

LEMMA QueueTail ==
    ASSUME NEW q, QueuesOK(q), NEW n \in Node, q[n] # <<>>
    PROVE  /\ QueuesOK([q EXCEPT ![n] = Tail(@)])
           /\ Head(q[n]) \in Payload /\ IsBatch(Head(q[n]).index)
<1>1. PICK s \in Seq(Payload) : s = q[n] /\ s # <<>>
  BY DEF QueuesOK
<1>2. PICK t : t = Tail(s)
  OBVIOUS
<1>3. /\ t \in Seq(Payload) /\ Len(t) = Len(s) - 1 /\ Len(s) \in Nat /\ Len(s) > 0
      /\ \A k \in 1 .. Len(t) : t[k] = s[k + 1]
      /\ Head(s) = s[1] /\ Head(s) \in Payload
  BY <1>1, <1>2, HeadTailProperties, EmptySeq
<1>4. 1 \in 1 .. Len(s) /\ \A k \in 1 .. Len(t) : k + 1 \in 1 .. Len(s)
  BY <1>3
<1>5. \A k \in 1 .. Len(t) : IsBatch(t[k].index)
  BY <1>1, <1>3, <1>4 DEF QueuesOK
<1>6. PICK r : r = [q EXCEPT ![n] = t]
  OBVIOUS
<1>7. r \in [Node -> Seq(Payload)] /\ r[n] = t /\ \A m \in Node \ {n} : r[m] = q[m]
  BY <1>3, <1>6 DEF QueuesOK
<1>8. QueuesOK(r)
  BY <1>5, <1>7 DEF QueuesOK
<1> QED BY <1>1, <1>2, <1>3, <1>4, <1>6, <1>8 DEF QueuesOK

\* What stands in the queues still names batches after a step.
LEMMA QueuesNext ==
    ASSUME LogTypeOK, LogKept, NEW q, QueuesOK(q)
    PROVE  QueuesOK(q)'
BY BatchKept DEF QueuesOK

LEMMA QueuesNow == EgressTypeOK => QueuesOK(txq) /\ QueuesOK(done)
BY DEF EgressTypeOK, QueueTypeOK, QueuesOK

LEMMA QueueTypeNext ==
    ASSUME EgressTypeOK, LogKept, NEW q, QueuesOK(q), NEW d, QueuesOK(d), txq' = q, done' = d
    PROVE  QueueTypeOK'
<1>1. QueuesOK(q)' /\ QueuesOK(d)'
  BY QueuesNext DEF EgressTypeOK
<1> QED BY <1>1 DEF QueuesOK, QueueTypeOK
\* m_lorawan_send and dispatch: the log and the queues they leave.
LEMMA DispatchType ==
    ASSUME EgressTypeOK, NEW n \in Node, NEW s \in Nat, NEW i, IsBatch(i),
           NEW L, GoodLog(L), Dispatch(n, s, i, L)
    PROVE  \E X, q : GoodLog(X) /\ log' = X /\ QueuesOK(q) /\ txq' = q
<1>1. i \in 1 .. commit /\ i \in Nat /\ log[i].kind = "SENSOR_DATA"
  BY DEF IsBatch, EgressTypeOK, LogTypeOK
<1>2. QueuesOK(txq) /\ LogTypeOK
  BY QueuesNow DEF EgressTypeOK
<1>3. CASE Readable(n, L, i)
  <2>1. L[i] \in Entry /\ L[i].kind = "SENSOR_DATA"
    <3>1. L[i] = log[i] /\ log \in Seq(Entry) /\ i \in 1 .. Len(log)
      BY <1>1, <1>2 DEF GoodLog, LogTypeOK
    <3> QED BY <3>1, <1>1, ElementOfSeq
  <2>2. PICK p : p = [seq |-> s, index |-> i, batch |-> L[i].batch]
    OBVIOUS
  <2>3. p \in Payload /\ IsBatch(p.index)
    BY <1>1, <2>1, <2>2, EntryFields DEF Payload
  <2>4. log' = L /\ LorawanSend(n, p)
    BY <1>3, <2>2 DEF Dispatch
  <2>5. \E q : QueuesOK(q) /\ txq' = q
    BY <1>2, <2>3, <2>4, QueueAppend DEF LorawanSend
  <2> QED BY <2>4, <2>5
<1>4. CASE ~Readable(n, L, i)
  <2>1. log' = SubmitEgress(n, L, EgressEntry(i, s, "SENT")) /\ txq' = txq
    BY <1>4 DEF Dispatch
  <2>2. GoodLog(Append(L, EgressEntry(i, s, "SENT")))
    <3>1. PICK e \in Entry : e = EgressEntry(i, s, "SENT") /\ e.rec.index = i
      BY <1>1, EntryTypes
    <3> QED BY <1>2, <3>1, GoodLogAppend
  <2> QED BY <1>2, <2>1, <2>2 DEF SubmitEgress
<1> QED BY <1>3, <1>4

LEMMA BeginEgressType ==
    ASSUME EgressTypeOK, NEW n \in Node, NEW i, IsBatch(i), BeginEgress(n, i)
    PROVE  \E X, q : GoodLog(X) /\ log' = X /\ QueuesOK(q) /\ txq' = q
<1>1. QueuesOK(txq) /\ GoodLog(log) /\ LogTypeOK
  BY QueuesNow, GoodLogNow DEF EgressTypeOK
<1>2. CASE UNCHANGED <<log, txq>>
  BY <1>1, <1>2
<1>3. CASE Dispatch(n, tracker[n].next, i, Append(log, EgressEntry(i, tracker[n].next, "STARTED")))
  <2>1. tracker[n].next \in Nat /\ i \in Nat
    BY DEF EgressTypeOK, NodeTypeOK, Tracker, IsBatch, LogTypeOK
  <2>2. GoodLog(Append(log, EgressEntry(i, tracker[n].next, "STARTED")))
    <3>1. PICK e \in Entry : e = EgressEntry(i, tracker[n].next, "STARTED") /\ e.rec.index = i
      BY <2>1, EntryTypes
    <3> QED BY <1>1, <3>1, GoodLogAppend
  <2> QED BY <1>3, <2>1, <2>2, DispatchType
<1>4. CASE n # leader
  BY <1>2, <1>4 DEF BeginEgress
<1>5. CASE n = leader /\ ~Accepts(n, log)
  BY <1>2, <1>5 DEF BeginEgress
<1>6. CASE n = leader /\ Accepts(n, log)
  BY <1>3, <1>6 DEF BeginEgress
<1> QED BY <1>4, <1>5, <1>6

\* An entry that is applied is one or the other.
LEMMA AppliedEntry ==
    ASSUME EgressTypeOK, NEW n \in Node, NEW last \in BOOLEAN, Apply(n, last)
    PROVE  /\ applied[n] + 1 \in 1 .. commit /\ applied[n] + 1 \in 1 .. Len(log)
           /\ log[applied[n] + 1] \in Entry
           /\ \/ /\ log[applied[n] + 1].kind = "EGRESS_MSG"
                 /\ log[applied[n] + 1].rec \in Record
                 /\ IsBatch(log[applied[n] + 1].rec.index)
              \/ /\ log[applied[n] + 1].kind = "SENSOR_DATA"
                 /\ IsBatch(applied[n] + 1)
<1>1. applied[n] \in Nat /\ applied[n] + 1 <= commit /\ commit \in Nat /\ commit <= Len(log)
  BY DEF Apply, EgressTypeOK, LogTypeOK, NodeTypeOK
<1>2. log \in Seq(Entry) /\ Len(log) \in Nat
  BY DEF EgressTypeOK, LogTypeOK
<1>3. applied[n] + 1 \in 1 .. commit /\ applied[n] + 1 \in 1 .. Len(log)
  BY <1>1, <1>2
<1>4. log[applied[n] + 1] \in Entry
  BY <1>2, <1>3, ElementOfSeq
<1> QED BY <1>3, <1>4, EntryFields DEF IsBatch, EgressTypeOK, LogTypeOK

\* The node's own variables, when the log keeps its committed part.
LEMMA NodeTypeNext ==
    ASSUME EgressTypeOK, LogKept, NEW t, t \in [Node -> Tracker],
           \A n \in Node : TrackerTypeOK(t[n]), tracker' = t,
           applied' = applied, base' = base
    PROVE  NodeTypeOK'
<1>1. \A n \in Node : TrackerTypeOK(t[n])'
  BY TrackerKept DEF EgressTypeOK
<1>2. \A n \in Node : applied[n] <= commit'
  BY DEF EgressTypeOK, LogTypeOK, NodeTypeOK, LogKept
<1> QED BY <1>1, <1>2 DEF EgressTypeOK, NodeTypeOK, TrackerTypeOK, IsBatch

LEMMA ApplyType ==
    ASSUME EgressTypeOK, NEW n \in Node, NEW last \in BOOLEAN, Apply(n, last)
    PROVE  EgressTypeOK' /\ LogKept
<1>1. commit' = commit /\ done' = done /\ LogTypeOK /\ QueuesOK(done) /\ QueuesOK(txq) /\ GoodLog(log)
  BY QueuesNow, GoodLogNow DEF thread, Apply, EgressTypeOK
<1>2. PICK X, q, t : /\ GoodLog(X) /\ log' = X /\ QueuesOK(q) /\ txq' = q
                     /\ t \in [Node -> Tracker] /\ tracker' = t
                     /\ \A m \in Node : TrackerTypeOK(t[m])
  <2>0. tracker \in [Node -> Tracker] /\ \A m \in Node : TrackerTypeOK(tracker[m])
    BY DEF EgressTypeOK, NodeTypeOK
  <2>1. CASE log[applied[n] + 1].kind = "EGRESS_MSG"
    <3>1. PICK r \in Record : r = log[applied[n] + 1].rec /\ IsBatch(r.index)
      BY <2>1, AppliedEntry
    <3>2. tracker' = [tracker EXCEPT ![n] = OnApply(tracker[n], r)] /\ UNCHANGED <<log, txq>>
      BY <2>1, <3>1 DEF Apply
    <3>3. PICK u \in Tracker : u = OnApply(tracker[n], r) /\ TrackerTypeOK(u)
      BY <2>0, <3>1, OnApplyType
    <3>4. [tracker EXCEPT ![n] = u] \in [Node -> Tracker]
          /\ \A m \in Node : TrackerTypeOK([tracker EXCEPT ![n] = u][m])
      <4>1. \A m \in Node : [tracker EXCEPT ![n] = u][m] = IF m = n THEN u ELSE tracker[m]
        BY <2>0
      <4> QED BY <4>1, <2>0, <3>3
    <3> QED BY <3>2, <3>3, <3>4, <1>1
  <2>2. CASE log[applied[n] + 1].kind = "SENSOR_DATA"
    <3>1. BeginEgress(n, applied[n] + 1) /\ tracker' = tracker
      BY <2>2 DEF Apply
    <3>2. IsBatch(applied[n] + 1)
      BY <2>2, AppliedEntry
    <3> QED BY <2>0, <3>1, <3>2, BeginEgressType
  <2> QED BY <2>1, <2>2, AppliedEntry
<1>3. LogKept /\ LogTypeOK'
  BY <1>1, <1>2, GoodLogNext
<1>4. QueueTypeOK'
  BY <1>1, <1>2, <1>3, QueueTypeNext
<1>5. NodeTypeOK'
  <2>1. \A m \in Node : TrackerTypeOK(t[m])'
    BY <1>1, <1>2, <1>3, TrackerKept
  <2>2. applied' = [applied EXCEPT ![n] = applied[n] + 1] /\ applied[n] + 1 \in Nat
        /\ applied[n] + 1 <= commit /\ applied \in [Node -> Nat]
    BY DEF Apply, EgressTypeOK, NodeTypeOK
  <2>3. PICK b \in {base[n], applied[n] + 1} : base' = [base EXCEPT ![n] = b]
    BY DEF Apply
  <2>4. b \in Nat /\ b <= applied[n] + 1 /\ base \in [Node -> Nat]
    BY <2>3, <2>2 DEF EgressTypeOK, NodeTypeOK
  <2>5. applied' \in [Node -> Nat] /\ \A m \in Node : applied'[m] <= commit'
    BY <1>1, <2>2 DEF EgressTypeOK, NodeTypeOK
  <2>6. base' \in [Node -> Nat] /\ \A m \in Node : base'[m] <= applied'[m]
    BY <2>2, <2>3, <2>4 DEF EgressTypeOK, NodeTypeOK
  <2> QED BY <1>2, <2>1, <2>5, <2>6 DEF NodeTypeOK, TrackerTypeOK, IsBatch
<1> QED BY <1>3, <1>4, <1>5 DEF EgressTypeOK
LEMMA BecomeLeaderType ==
    ASSUME EgressTypeOK, NEW n \in Node, NEW k \in commit .. Len(log), BecomeLeader(n, k)
    PROVE  EgressTypeOK' /\ LogKept
<1>1. /\ UNCHANGED <<commit, applied, base, done>>
      /\ LogTypeOK /\ QueuesOK(done) /\ QueuesOK(txq)
      /\ tracker \in [Node -> Tracker] /\ \A m \in Node : TrackerTypeOK(tracker[m])
  BY QueuesNow DEF thread, BecomeLeader, EgressTypeOK, NodeTypeOK
<1>2. PICK L : L = SubSeq(log, 1, k) /\ GoodLog(L) /\ OnBecameLeader(n, L)
  BY <1>1, GoodLogPrefix DEF BecomeLeader
<1>3. PICK X, q, t : /\ GoodLog(X) /\ log' = X /\ QueuesOK(q) /\ txq' = q
                     /\ t \in [Node -> Tracker] /\ tracker' = t
                     /\ \A m \in Node : TrackerTypeOK(t[m])
  <2>1. CASE Started(tracker[n]) = {}
    BY <1>1, <1>2, <2>1 DEF OnBecameLeader
  <2>2. CASE Started(tracker[n]) # {}
    <3>1. PICK r \in Record : r = Outstanding(tracker[n]) /\ IsBatch(r.index) /\ r.seq \in Nat
      BY <1>1, <2>2, OutstandingType, RecordFields
    <3>2. tracker' = [tracker EXCEPT ![n] = Adopt(tracker[n])] /\ Dispatch(n, r.seq, r.index, L)
      BY <1>2, <2>2, <3>1 DEF OnBecameLeader
    <3>3. PICK u \in Tracker : u = Adopt(tracker[n]) /\ TrackerTypeOK(u)
      BY <1>1, <2>2, OutstandingType
    <3>4. [tracker EXCEPT ![n] = u] \in [Node -> Tracker]
          /\ \A m \in Node : TrackerTypeOK([tracker EXCEPT ![n] = u][m])
      <4>1. \A m \in Node : [tracker EXCEPT ![n] = u][m] = IF m = n THEN u ELSE tracker[m]
        BY <1>1
      <4> QED BY <4>1, <1>1, <3>3
    <3>5. \E X, q : GoodLog(X) /\ log' = X /\ QueuesOK(q) /\ txq' = q
      BY <1>2, <3>1, <3>2, DispatchType
    <3> QED BY <3>2, <3>3, <3>4, <3>5
  <2> QED BY <2>1, <2>2
<1>4. LogKept /\ LogTypeOK'
  BY <1>1, <1>3, GoodLogNext
<1>5. QueueTypeOK'
  BY <1>1, <1>3, <1>4, QueueTypeNext
<1>6. NodeTypeOK'
  BY <1>1, <1>3, <1>4, NodeTypeNext
<1> QED BY <1>4, <1>5, <1>6 DEF EgressTypeOK

\* The actions that change the log and the queues only.
LEMMA ActionType ==
    ASSUME EgressTypeOK, UNCHANGED <<commit, applied, base, tracker>>,
           NEW X, GoodLog(X), log' = X, NEW q, QueuesOK(q), txq' = q,
           NEW d, QueuesOK(d), done' = d
    PROVE  EgressTypeOK' /\ LogKept
<1>1. LogTypeOK /\ tracker \in [Node -> Tracker] /\ \A m \in Node : TrackerTypeOK(tracker[m])
  BY DEF EgressTypeOK, NodeTypeOK
<1>2. LogKept /\ LogTypeOK'
  BY <1>1, GoodLogNext
<1>3. QueueTypeOK'
  BY <1>2, QueueTypeNext
<1>4. NodeTypeOK'
  BY <1>1, <1>2, NodeTypeNext
<1> QED BY <1>2, <1>3, <1>4 DEF EgressTypeOK

LEMMA EgressTypeStep ==
    ASSUME EgressTypeOK, [Next]_vars
    PROVE  EgressTypeOK' /\ LogKept
<1>0. LogTypeOK /\ GoodLog(log) /\ QueuesOK(txq) /\ QueuesOK(done)
  BY QueuesNow, GoodLogNow DEF EgressTypeOK
<1>1. CASE \E b \in 1 .. MaxBatches : SubmitBatch(b)
  <2>1. PICK b \in Nat : SubmitBatch(b)
    BY <1>1, Sizes
  <2>2. PICK e \in Entry : e = BatchEntry(b) /\ e.kind = "SENSOR_DATA"
    BY EntryTypes
  <2>3. GoodLog(Append(log, e))
    BY <1>0, <2>2, GoodLogAppend
  <2>4. log' = Append(log, e) /\ UNCHANGED <<commit, applied, base, tracker, txq, done>>
    BY <2>1, <2>2 DEF SubmitBatch, thread
  <2> QED BY <1>0, <2>3, <2>4, ActionType
<1>2. CASE Commit
  <2>1. log' = log /\ commit' = commit + 1 /\ commit < Len(log)
        /\ UNCHANGED <<applied, base, tracker, txq, done>>
    BY <1>2 DEF Commit, thread
  <2>2. LogKept /\ commit' \in Nat /\ commit' <= Len(log)
    BY <2>1, <1>0 DEF LogKept, LogTypeOK
  <2>3. LogTypeOK'
    <3>1. \A i \in 1 .. Len(log) : log[i].kind = "EGRESS_MSG" => IsBatch(log[i].rec.index)'
      <4> SUFFICES ASSUME NEW i \in 1 .. Len(log), log[i].kind = "EGRESS_MSG"
                   PROVE  IsBatch(log[i].rec.index)'
        OBVIOUS
      <4>1. PICK j : j = log[i].rec.index
        OBVIOUS
      <4>2. IsBatch(j)'
        BY <1>0, <2>2, <4>1, BatchKept DEF LogTypeOK
      <4> QED BY <2>1, <4>1, <4>2 DEF IsBatch
    <3> QED BY <1>0, <2>1, <2>2, <3>1 DEF LogTypeOK
  <2>4. QueueTypeOK'
    BY <1>0, <2>1, <2>2, QueueTypeNext
  <2>5. NodeTypeOK'
    BY <2>1, <2>2, NodeTypeNext DEF EgressTypeOK, NodeTypeOK
  <2> QED BY <2>2, <2>3, <2>4, <2>5 DEF EgressTypeOK
<1>3. CASE \E n \in Node, last \in BOOLEAN : Apply(n, last)
  BY <1>3, ApplyType
<1>4. CASE \E n \in Node, k \in commit .. Len(log) : BecomeLeader(n, k)
  BY <1>4, BecomeLeaderType
<1>5. CASE \E n \in Node : Crash(n)
  <2>1. PICK n \in Node : Crash(n)
    BY <1>5
  <2>2. UNCHANGED <<log, commit, applied, base, tracker>>
    BY <2>1 DEF Crash
  <2>3. \A x : QueuesOK(x) => QueuesOK([x EXCEPT ![n] = <<>>])
    <3>1. <<>> \in Seq(Payload) /\ Len(<<>>) = 0
      OBVIOUS
    <3> QED BY <3>1 DEF QueuesOK
  <2>4. QueuesOK([txq EXCEPT ![n] = <<>>]) /\ QueuesOK([done EXCEPT ![n] = <<>>])
    BY <1>0, <2>3
  <2> QED BY <1>0, <2>1, <2>2, <2>4, ActionType DEF Crash
<1>6. CASE \E n \in Node : Transmit(n) \/ TransmitMistaken(n)
  <2>1. PICK n \in Node : HeadDone(n)
    BY <1>6 DEF Transmit, TransmitMistaken
  <2>2. UNCHANGED <<log, commit, applied, base, tracker>> /\ txq[n] # <<>>
        /\ txq' = [txq EXCEPT ![n] = Tail(@)] /\ done' = [done EXCEPT ![n] = <<Head(txq[n])>>]
    BY <2>1 DEF HeadDone, raftVars
  <2>3. PICK p \in Payload : p = Head(txq[n]) /\ IsBatch(p.index)
    BY <1>0, <2>2, QueueTail
  <2>4. QueuesOK([done EXCEPT ![n] = <<p>>])
    <3>1. <<p>> \in Seq(Payload) /\ Len(<<p>>) = 1 /\ <<p>>[1] = p
      OBVIOUS
    <3> QED BY <1>0, <2>3, <3>1 DEF QueuesOK
  <2>5. QueuesOK([txq EXCEPT ![n] = Tail(@)])
    BY <1>0, <2>2, QueueTail
  <2> QED BY <1>0, <2>2, <2>3, <2>4, <2>5, ActionType
<1>7. CASE \E n \in Node : TransmitFails(n)
  <2>1. PICK n \in Node : TransmitFails(n)
    BY <1>7
  <2>2. UNCHANGED <<log, commit, applied, base, tracker, done>> /\ txq[n] # <<>>
    BY <2>1 DEF TransmitFails, raftVars
  <2>3. PICK p \in Payload : p = Head(txq[n]) /\ IsBatch(p.index)
    BY <1>0, <2>2, QueueTail
  <2>4. PICK q : q = [txq EXCEPT ![n] = Tail(@)] /\ QueuesOK(q)
    BY <1>0, <2>2, QueueTail
  <2>5. QueuesOK([q EXCEPT ![n] = Append(@, p)])
    BY <2>3, <2>4, QueueAppend
  <2>6. [txq EXCEPT ![n] = Append(Tail(@), Head(@))] = [q EXCEPT ![n] = Append(@, p)]
    BY <1>0, <2>3, <2>4 DEF QueuesOK
  <2>7. txq' = q \/ txq' = [q EXCEPT ![n] = Append(@, p)]
    BY <2>1, <2>4, <2>6 DEF TransmitFails
  <2> QED BY <1>0, <2>2, <2>4, <2>5, <2>7, ActionType
<1>8. CASE \E n \in Node : Complete(n)
  <2>1. PICK n \in Node : Complete(n)
    BY <1>8
  <2>2. UNCHANGED <<commit, applied, base, tracker, txq>> /\ done[n] # <<>>
        /\ done' = [done EXCEPT ![n] = <<>>]
    BY <2>1 DEF Complete
  <2>3. PICK p \in Payload : p = Head(done[n]) /\ IsBatch(p.index)
    BY <1>0, <2>2, QueueTail
  <2>4. PICK e \in Entry : e = EgressEntry(p.index, p.seq, "SENT") /\ e.rec.index = p.index
    BY EntryTypes DEF Payload
  <2>5. GoodLog(Append(log, e))
    BY <1>0, <2>3, <2>4, GoodLogAppend
  <2>6. log' = log \/ log' = Append(log, e)
    BY <2>1, <2>3, <2>4 DEF Complete, SubmitEgress
  <2>7. QueuesOK([done EXCEPT ![n] = <<>>])
    <3>1. <<>> \in Seq(Payload) /\ Len(<<>>) = 0
      OBVIOUS
    <3> QED BY <1>0, <3>1 DEF QueuesOK
  <2> QED BY <1>0, <2>2, <2>5, <2>6, <2>7, ActionType
<1>9. CASE UNCHANGED vars \/ \E n \in Node : DropLateDone(n)
  <2>1. UNCHANGED <<log, commit, applied, base, tracker, txq, done>>
    BY <1>9 DEF vars, raftVars, thread, DropLateDone
  <2> QED BY <1>0, <2>1, ActionType
<1> QED BY <1>1, <1>2, <1>3, <1>4, <1>5, <1>6, <1>7, <1>8, <1>9 DEF Next

\* Every state has its types, and every record, payload and slot names a
\* committed batch.
THEOREM EgressTypes == Spec => []EgressTypeOK
BY TypeInit, EgressTypeStep, PTL DEF Spec
-----------------------------------------------------------------------------
(* The trackers.  Ring and head of a tracker depend on the entries applied *)
(* and on nothing else, for adopting an outstanding record changes only    *)
(* the next number: h[k] is the tracker of a node that applied k entries.  *)

SameRing(t, u) == t.ring = u.ring /\ t.head = u.head

\* u comes of t by applying entry e.
Applies(t, e, u) ==
    IF e.kind = "EGRESS_MSG" THEN SameRing(OnApply(t, e.rec), u) ELSE SameRing(t, u)

TrackerHistory(h, L, c, t, a) ==
    /\ SameRing(h[0], EmptyTracker)
    /\ \A k \in 0 .. c - 1 : Applies(h[k], L[k + 1], h[k + 1])
    /\ \A n \in Node : SameRing(t[n], h[a[n]])

TrackerInv ==
    \E h \in [Nat -> Tracker] : TrackerHistory(h, log, commit, tracker, applied)

LEMMA SameRingApplies ==
    ASSUME NEW t \in Tracker, NEW u \in Tracker, SameRing(t, u), NEW r
    PROVE  SameRing(OnApply(t, r), OnApply(u, r))
<1>1. SlotsOf(t, r.seq) = SlotsOf(u, r.seq)
  BY DEF SlotsOf, SameRing
<1>2. t.ring = u.ring /\ t.head = u.head
  BY DEF SameRing
<1>3. OnApply(t, r).ring = OnApply(u, r).ring
  BY <1>1, <1>2 DEF OnApply, Tracker
<1>4. OnApply(t, r).head = OnApply(u, r).head
  BY <1>1, <1>2 DEF OnApply, Tracker
<1> QED BY <1>3, <1>4 DEF SameRing
\* The history stays one while the committed part of the log does.
LEMMA HistoryKept ==
    ASSUME EgressTypeOK, LogKept, commit' = commit, applied' = applied,
           \A n \in Node : SameRing(tracker'[n], tracker[n]), TrackerInv
    PROVE  TrackerInv'
<1>1. PICK h \in [Nat -> Tracker] : TrackerHistory(h, log, commit, tracker, applied)
  BY DEF TrackerInv
<1>2. \A k \in 0 .. commit - 1 : k + 1 \in 1 .. commit
  BY DEF EgressTypeOK, LogTypeOK
<1>3. \A k \in 0 .. commit - 1 : log'[k + 1] = log[k + 1]
  BY <1>2 DEF LogKept
<1>4. \A n \in Node : SameRing(tracker'[n], h[applied[n]])
  BY <1>1 DEF TrackerHistory, SameRing
<1>5. TrackerHistory(h, log', commit', tracker', applied')
  BY <1>1, <1>3, <1>4 DEF TrackerHistory
<1> QED BY <1>5 DEF TrackerInv

LEMMA CommitHistory ==
    ASSUME EgressTypeOK, TrackerInv, Commit
    PROVE  TrackerInv'
<1>1. PICK h \in [Nat -> Tracker] : TrackerHistory(h, log, commit, tracker, applied)
  BY DEF TrackerInv
<1>2. /\ commit \in Nat /\ commit' = commit + 1 /\ commit + 1 \in 1 .. Len(log)
      /\ UNCHANGED <<log, tracker, applied>> /\ log \in Seq(Entry)
  BY DEF Commit, EgressTypeOK, LogTypeOK
<1>3. PICK e \in Entry : e = log[commit + 1]
  BY <1>2, ElementOfSeq
<1>4. PICK u \in Tracker : Applies(h[commit], e, u)
  <2>1. h[commit] \in Tracker
    BY <1>2
  <2>2. CASE e.kind = "EGRESS_MSG"
    <3>1. OnApply(h[commit], e.rec) \in Tracker
      BY <2>1, <2>2, EntryFields, OnApplyShape
    <3> QED BY <2>2, <3>1 DEF Applies, SameRing
  <2>3. CASE e.kind # "EGRESS_MSG"
    BY <2>1, <2>3 DEF Applies, SameRing
  <2> QED BY <2>2, <2>3
<1>5. PICK g \in [Nat -> Tracker] : g = [h EXCEPT ![commit + 1] = u]
  BY <1>2
<1>6. g[commit + 1] = u /\ \A k \in 0 .. commit : g[k] = h[k]
  BY <1>2, <1>5
<1>7. \A k \in 0 .. commit' - 1 : Applies(g[k], log[k + 1], g[k + 1])
  <2> SUFFICES ASSUME NEW k \in 0 .. commit' - 1 PROVE Applies(g[k], log[k + 1], g[k + 1])
    OBVIOUS
  <2>1. CASE k = commit
    <3>1. g[k] = h[commit] /\ log[k + 1] = e /\ g[k + 1] = u
      BY <1>2, <1>3, <1>6, <2>1
    <3> QED BY <1>4, <3>1
  <2>2. CASE k # commit
    <3>1. k \in 0 .. commit - 1 /\ k \in 0 .. commit /\ k + 1 \in 0 .. commit
      BY <1>2, <2>2
    <3>2. g[k] = h[k] /\ g[k + 1] = h[k + 1]
      BY <1>6, <3>1
    <3>3. Applies(h[k], log[k + 1], h[k + 1])
      BY <1>1, <3>1 DEF TrackerHistory
    <3> QED BY <3>2, <3>3
  <2> QED BY <2>1, <2>2
<1>8. \A n \in Node : SameRing(tracker[n], g[applied[n]])
  <2>1. \A n \in Node : applied[n] \in 0 .. commit
    BY <1>2 DEF EgressTypeOK, NodeTypeOK
  <2> QED BY <1>1, <1>6, <2>1 DEF TrackerHistory
<1>9. SameRing(g[0], EmptyTracker)
  <2>1. 0 \in 0 .. commit
    BY <1>2
  <2> QED BY <1>1, <1>6, <2>1 DEF TrackerHistory
<1>10. TrackerHistory(g, log', commit', tracker', applied')
  BY <1>2, <1>7, <1>8, <1>9 DEF TrackerHistory
<1> QED BY <1>10 DEF TrackerInv

LEMMA ApplyHistory ==
    ASSUME EgressTypeOK, LogKept, TrackerInv, NEW n \in Node, NEW last \in BOOLEAN,
           Apply(n, last)
    PROVE  TrackerInv'
<1>1. PICK h \in [Nat -> Tracker] : TrackerHistory(h, log, commit, tracker, applied)
  BY DEF TrackerInv
<1>2. PICK i \in 1 .. commit : i = applied[n] + 1 /\ applied[n] \in Nat /\ i - 1 = applied[n]
  <2>1. applied[n] \in Nat
    BY DEF EgressTypeOK, NodeTypeOK
  <2>2. applied[n] + 1 \in 1 .. commit /\ (applied[n] + 1) - 1 = applied[n]
    BY <2>1, AppliedEntry
  <2> QED BY <2>1, <2>2
<1>3. /\ commit' = commit /\ commit \in Nat /\ applied' = [applied EXCEPT ![n] = i]
      /\ applied \in [Node -> Nat]
  BY <1>2 DEF Apply, EgressTypeOK, NodeTypeOK, LogTypeOK
<1>4. applied'[n] = i /\ \A m \in Node \ {n} : applied'[m] = applied[m]
  BY <1>3
<1>5. h[applied[n]] \in Tracker /\ tracker[n] \in Tracker /\ tracker \in [Node -> Tracker]
  BY <1>2 DEF EgressTypeOK, NodeTypeOK
<1>6. Applies(h[applied[n]], log[i], h[i]) /\ SameRing(tracker[n], h[applied[n]])
  <2>1. applied[n] \in 0 .. commit - 1
    BY <1>2, <1>3
  <2> QED BY <1>1, <1>2, <2>1 DEF TrackerHistory
<1>7. SameRing(tracker'[n], h[i]) /\ \A m \in Node \ {n} : tracker'[m] = tracker[m]
  <2>1. CASE log[i].kind = "EGRESS_MSG"
    <3>1. tracker' = [tracker EXCEPT ![n] = OnApply(tracker[n], log[i].rec)]
      BY <1>2, <2>1 DEF Apply
    <3>2. SameRing(OnApply(tracker[n], log[i].rec), OnApply(h[applied[n]], log[i].rec))
      BY <1>5, <1>6, SameRingApplies
    <3>3. SameRing(OnApply(h[applied[n]], log[i].rec), h[i])
      BY <1>6, <2>1 DEF Applies
    <3>4. SameRing(OnApply(tracker[n], log[i].rec), h[i])
      BY <3>2, <3>3 DEF SameRing
    <3> QED BY <1>5, <3>1, <3>4
  <2>2. CASE log[i].kind # "EGRESS_MSG"
    <3>1. tracker' = tracker
      BY <1>2, <2>2 DEF Apply
    <3>2. SameRing(h[applied[n]], h[i])
      BY <1>6, <2>2 DEF Applies
    <3> QED BY <1>6, <3>1, <3>2 DEF SameRing
  <2> QED BY <2>1, <2>2
<1>8. \A m \in Node : SameRing(tracker'[m], h[applied'[m]])
  <2>1. \A m \in Node \ {n} : SameRing(tracker[m], h[applied[m]])
    BY <1>1 DEF TrackerHistory
  <2> QED BY <1>4, <1>7, <2>1
<1>9. \A k \in 0 .. commit - 1 : log'[k + 1] = log[k + 1]
  BY <1>3 DEF LogKept
<1>10. TrackerHistory(h, log', commit', tracker', applied')
  BY <1>1, <1>3, <1>8, <1>9 DEF TrackerHistory
<1> QED BY <1>10 DEF TrackerInv

LEMMA BecomeLeaderHistory ==
    ASSUME EgressTypeOK, LogKept, TrackerInv, NEW n \in Node, NEW k, BecomeLeader(n, k)
    PROVE  TrackerInv'
<1>1. commit' = commit /\ applied' = applied
  BY DEF BecomeLeader
<1>2. tracker \in [Node -> Tracker] /\ \A m \in Node : TrackerTypeOK(tracker[m])
  BY DEF EgressTypeOK, NodeTypeOK
<1>3. \A m \in Node : SameRing(tracker'[m], tracker[m])
  <2>1. CASE Started(tracker[n]) = {}
    BY <2>1 DEF BecomeLeader, OnBecameLeader, SameRing
  <2>2. CASE Started(tracker[n]) # {}
    <3>1. tracker' = [tracker EXCEPT ![n] = Adopt(tracker[n])]
      BY <2>2 DEF BecomeLeader, OnBecameLeader
    <3>2. SameRing(Adopt(tracker[n]), tracker[n])
      BY <1>2, <2>2, OutstandingType DEF SameRing
    <3> QED BY <1>2, <3>1, <3>2 DEF SameRing
  <2> QED BY <2>1, <2>2
<1> QED BY <1>1, <1>3, HistoryKept

LEMMA TrackerStep ==
    ASSUME EgressTypeOK, TrackerInv, [Next]_vars
    PROVE  TrackerInv'
<1>0. LogKept
  BY EgressTypeStep
<1>1. CASE Commit
  BY <1>1, CommitHistory
<1>2. CASE \E n \in Node, last \in BOOLEAN : Apply(n, last)
  BY <1>0, <1>2, ApplyHistory
<1>3. CASE \E n \in Node, k \in commit .. Len(log) : BecomeLeader(n, k)
  BY <1>0, <1>3, BecomeLeaderHistory
<1>4. CASE \/ \E b \in 1 .. MaxBatches : SubmitBatch(b)
           \/ \E n \in Node : \/ Crash(n) \/ Transmit(n) \/ TransmitMistaken(n)
                             \/ TransmitFails(n) \/ DropLateDone(n) \/ Complete(n)
           \/ UNCHANGED vars
  <2>1. UNCHANGED <<commit, applied, tracker>>
    BY <1>4 DEF SubmitBatch, Crash, Transmit, TransmitMistaken, HeadDone, TransmitFails,
                  DropLateDone, Complete, vars, raftVars
  <2>2. \A n \in Node : SameRing(tracker'[n], tracker[n])
    BY <2>1 DEF SameRing
  <2> QED BY <1>0, <2>1, <2>2, HistoryKept
<1> QED BY <1>1, <1>2, <1>3, <1>4 DEF Next

\* Two nodes that applied the same entries hold the same records in the same
\* slots, whoever led and adopted what meanwhile.
THEOREM TrackersAreReplicas == Spec => []TrackersAgree
<1>1. Init => TrackerInv
  <2> SUFFICES ASSUME Init PROVE TrackerInv
    OBVIOUS
  <2>1. EmptyTracker \in Tracker
    BY Sizes DEF EmptyTracker, Tracker
  <2>2. PICK h \in [Nat -> Tracker] : h = [k \in Nat |-> EmptyTracker]
    BY <2>1
  <2>3. SameRing(h[0], EmptyTracker)
    BY <2>2 DEF SameRing
  <2>4. \A n \in Node : SameRing(tracker[n], h[applied[n]])
    BY <2>2 DEF Init, SameRing
  <2>5. commit = 0
    BY DEF Init
  <2> QED BY <2>3, <2>4, <2>5 DEF TrackerInv, TrackerHistory
<1>2. TrackerInv => TrackersAgree
  BY DEF TrackerInv, TrackerHistory, TrackersAgree, SameRing
<1> QED BY <1>1, <1>2, EgressTypes, TrackerStep, PTL DEF Spec
-----------------------------------------------------------------------------
(* The first leader.  Before it nothing is committed, and while it leads a *)
(* payload only moves, from its queue to the completed or dropped ones.    *)

Items(s) == {s[k] : k \in DOMAIN s}

Dispatched(n) == completed \union dropped \union Items(txq[n])

FirstLeaderInv ==
    /\ leader \in Node \union {NoNode}
    /\ elections \in Nat
    /\ elections = 0 => leader = NoNode /\ commit = 0
    /\ elections = 1 =>
          \A n \in Node : n = leader =>
              \A i \in 1 .. applied[n] :
                  log[i].kind = "SENSOR_DATA" => \E p \in Dispatched(n) : p.index = i

LEMMA ItemsAppended ==
    ASSUME NEW s \in Seq(Payload), NEW p \in Payload
    PROVE  Items(Append(s, p)) = Items(s) \union {p}
<1>1. PICK t \in Seq(Payload) : t = Append(s, p)
  BY AppendProperties
<1>2. PICK n \in Nat : n = Len(s)
  OBVIOUS
<1>3. /\ DOMAIN s = 1 .. n /\ DOMAIN t = 1 .. n + 1
      /\ t[n + 1] = p /\ \A k \in 1 .. n : t[k] = s[k]
  BY <1>1, <1>2, AppendProperties
<1>4. 1 .. n + 1 = (1 .. n) \union {n + 1}
  BY <1>2
<1> QED BY <1>1, <1>3, <1>4 DEF Items

LEMMA ItemsTaken ==
    ASSUME NEW s \in Seq(Payload), s # <<>>
    PROVE  /\ Head(s) \in Payload /\ Tail(s) \in Seq(Payload)
           /\ Items(s) = Items(Tail(s)) \union {Head(s)}
<1>1. PICK t \in Seq(Payload) : t = Tail(s)
  BY HeadTailProperties
<1>2. PICK n \in Nat : n = Len(t) /\ Len(s) = n + 1
  BY <1>1, HeadTailProperties, EmptySeq
<1>3. /\ DOMAIN s = 1 .. n + 1 /\ DOMAIN t = 1 .. n
      /\ Head(s) = s[1] /\ \A k \in 1 .. n : t[k] = s[k + 1]
  BY <1>1, <1>2, HeadTailProperties
<1>4. /\ \A k \in 1 .. n + 1 : k = 1 \/ (k - 1 \in 1 .. n /\ (k - 1) + 1 = k)
      /\ \A k \in 1 .. n : k + 1 \in 1 .. n + 1
      /\ 1 \in 1 .. n + 1
  BY <1>2
<1>5. Items(s) \subseteq Items(t) \union {Head(s)}
  <2> SUFFICES ASSUME NEW k \in 1 .. n + 1, k # 1 PROVE s[k] \in Items(t)
    BY <1>3 DEF Items
  <2>1. k - 1 \in DOMAIN t /\ t[k - 1] = s[k]
    BY <1>3, <1>4
  <2> QED BY <2>1 DEF Items
<1>6. Items(t) \union {Head(s)} \subseteq Items(s)
  BY <1>3, <1>4 DEF Items
<1>7. Head(s) \in Payload
  BY HeadTailProperties
<1> QED BY <1>1, <1>5, <1>6, <1>7

LEMMA DispatchedKept ==
    ASSUME EgressTypeOK, LogKept, FirstLeaderInv,
           UNCHANGED <<applied, elections>>, leader' = leader \/ leader' = NoNode,
           elections = 0 => commit' = 0,
           \A n \in Node : n = leader' => Dispatched(n) \subseteq Dispatched(n)'
    PROVE  FirstLeaderInv'
<1>1. /\ leader' \in Node \union {NoNode} /\ elections' \in Nat
      /\ elections' = 0 => leader' = NoNode /\ commit' = 0
  BY DEF FirstLeaderInv
<1>2. ASSUME elections = 1, NEW n \in Node, n = leader', NEW i \in 1 .. applied[n],
             log'[i].kind = "SENSOR_DATA"
      PROVE  \E p \in Dispatched(n)' : p.index = i
  <2>1. i \in 1 .. commit
    BY DEF EgressTypeOK, NodeTypeOK, LogTypeOK
  <2>2. log'[i] = log[i] /\ n = leader
    BY <1>2, <2>1, Sizes DEF LogKept
  <2>3. PICK p \in Dispatched(n) : p.index = i
    BY <1>2, <2>2 DEF FirstLeaderInv
  <2> QED BY <1>2, <2>3
<1> QED BY <1>1, <1>2 DEF FirstLeaderInv

\* The leader that applies a batch puts it into its queue or drops it: the batch
\* is readable, for the log is compacted up to what is applied at most.
LEMMA ApplyDispatches ==
    ASSUME EgressTypeOK, NEW n \in Node, NEW last \in BOOLEAN, Apply(n, last)
    PROVE  /\ \A m \in Node : Dispatched(m) \subseteq Dispatched(m)'
           /\ n = leader /\ log[applied[n] + 1].kind = "SENSOR_DATA" =>
                 \E p \in Dispatched(n)' : p.index = applied[n] + 1
<1>1. PICK i \in 1 .. commit : i = applied[n] + 1 /\ log[i] \in Entry
  BY AppliedEntry
<1>2. completed' = completed /\ txq \in [Node -> Seq(Payload)]
  BY DEF Apply, EgressTypeOK, QueueTypeOK
<1>3. CASE log[i].kind = "EGRESS_MSG" \/ n # leader
  <2>1. UNCHANGED <<txq, dropped>>
    BY <1>1, <1>3 DEF Apply, BeginEgress
  <2>2. \A m \in Node : Dispatched(m)' = Dispatched(m)
    BY <1>2, <2>1 DEF Dispatched
  <2> QED BY <1>1, <1>3, <2>2
<1>4. CASE log[i].kind = "SENSOR_DATA" /\ n = leader
  <2>1. BeginEgress(n, i)
    BY <1>1, <1>4 DEF Apply
  <2>2. PICK s \in Nat : s = tracker[n].next
    BY DEF EgressTypeOK, NodeTypeOK, Tracker
  <2>3. PICK p \in Payload : p = [seq |-> s, index |-> i, batch |-> log[i].batch] /\ p.index = i
    <3>1. i \in Nat /\ log[i].batch \in Nat
      BY <1>1, <1>4, EntryFields DEF EgressTypeOK, LogTypeOK
    <3>2. PICK b \in Nat : b = log[i].batch
      BY <3>1
    <3>3. [seq |-> s, index |-> i, batch |-> b] \in Payload
      BY <3>1 DEF Payload
    <3> QED BY <3>2, <3>3
  <2>4. CASE ~Accepts(n, log)
    <3>1. dropped' = dropped \union {p} /\ txq' = txq
      BY <1>4, <2>1, <2>2, <2>3, <2>4 DEF BeginEgress
    <3> QED BY <1>1, <1>2, <2>3, <3>1 DEF Dispatched
  <2>5. CASE Accepts(n, log)
    <3>1. PICK e \in Entry : e = EgressEntry(i, s, "STARTED")
      BY <2>2, EntryTypes DEF EgressTypeOK, LogTypeOK
    <3>2. PICK L \in Seq(Entry) :
             L = Append(log, e) /\ Len(L) = Len(log) + 1 /\ L[i] = log[i]
      <4>1. log \in Seq(Entry) /\ i \in 1 .. Len(log)
        BY DEF EgressTypeOK, LogTypeOK
      <4>2. /\ Append(log, e) \in Seq(Entry) /\ Len(Append(log, e)) = Len(log) + 1
            /\ Append(log, e)[i] = log[i]
        BY <4>1, AppendProperties
      <4> QED BY <4>2
    <3>3. Readable(n, L, i)
      <4>1. base[n] \in Nat /\ base[n] <= applied[n] /\ applied[n] \in Nat /\ commit <= Len(log)
            /\ commit \in Nat /\ Len(log) \in Nat
        BY DEF EgressTypeOK, LogTypeOK, NodeTypeOK
      <4> QED BY <1>1, <3>2, <4>1 DEF Readable
    <3>4. Dispatch(n, s, i, L)
      BY <1>4, <2>1, <2>2, <2>5, <3>1, <3>2 DEF BeginEgress
    <3>5. LorawanSend(n, p)
      BY <2>3, <3>2, <3>3, <3>4 DEF Dispatch
    <3>6. CASE dropped' = dropped \union {p} /\ txq' = txq
      BY <1>1, <1>2, <2>3, <3>6 DEF Dispatched
    <3>7. CASE txq' = [txq EXCEPT ![n] = Append(txq[n], p)] /\ dropped' = dropped
      <4>1. Items(txq'[n]) = Items(txq[n]) \union {p}
        BY <1>2, <3>7, ItemsAppended
      <4>2. \A m \in Node \ {n} : txq'[m] = txq[m]
        BY <1>2, <3>7
      <4> QED BY <1>1, <1>2, <2>3, <3>7, <4>1, <4>2 DEF Dispatched
    <3> QED BY <3>5, <3>6, <3>7 DEF LorawanSend
  <2> QED BY <2>4, <2>5
<1> QED BY <1>1, <1>3, <1>4, EntryFields

LEMMA ApplyFirstLeader ==
    ASSUME EgressTypeOK, LogKept, FirstLeaderInv, NEW n \in Node, NEW last \in BOOLEAN,
           Apply(n, last)
    PROVE  FirstLeaderInv'
<1>1. UNCHANGED <<leader, elections, commit>> /\ applied' = [applied EXCEPT ![n] = applied[n] + 1]
  BY DEF Apply
<1>2. ASSUME elections = 1, NEW m \in Node, m = leader, NEW i \in 1 .. applied'[m],
             log'[i].kind = "SENSOR_DATA"
      PROVE  \E p \in Dispatched(m)' : p.index = i
  <2>1. applied \in [Node -> Nat] /\ applied[m] \in Nat /\ applied[m] <= commit /\ commit \in Nat
    BY DEF EgressTypeOK, NodeTypeOK, LogTypeOK
  <2>2. CASE i \in 1 .. applied[m]
    <3>1. log'[i] = log[i]
      BY <2>1, <2>2 DEF LogKept
    <3>2. PICK p \in Dispatched(m) : p.index = i
      BY <1>2, <2>2, <3>1 DEF FirstLeaderInv
    <3> QED BY <3>2, ApplyDispatches
  <2>3. CASE i \notin 1 .. applied[m]
    <3>1. m = n /\ i = applied[n] + 1
      BY <1>1, <2>1, <2>3
    <3>2. log'[i] = log[i]
      BY <3>1, AppliedEntry DEF LogKept
    <3> QED BY <1>2, <3>1, <3>2, ApplyDispatches
  <2> QED BY <2>2, <2>3
<1> QED BY <1>1, <1>2 DEF FirstLeaderInv

\* A payload the thread takes from a queue is completed, put at its end or dropped.
LEMMA TransmitKeeps ==
    ASSUME EgressTypeOK, NEW n \in Node, HeadDone(n) \/ TransmitFails(n)
    PROVE  \A m \in Node : Dispatched(m) \subseteq Dispatched(m)'
<1>1. PICK s \in Seq(Payload) : s = txq[n] /\ s # <<>>
  BY DEF HeadDone, TransmitFails, EgressTypeOK, QueueTypeOK
<1>2. PICK h \in Payload, t \in Seq(Payload) :
         h = Head(s) /\ t = Tail(s) /\ Items(s) = Items(t) \union {h}
  BY <1>1, ItemsTaken
<1>3. txq \in [Node -> Seq(Payload)]
  BY DEF EgressTypeOK, QueueTypeOK
<1>4. completed \subseteq completed' /\ dropped \subseteq dropped'
  BY DEF HeadDone, TransmitFails
<1>5. \/ txq' = [txq EXCEPT ![n] = t] /\ (h \in completed' \/ h \in dropped')
      \/ txq' = [txq EXCEPT ![n] = Append(t, h)]
  BY <1>1, <1>2 DEF HeadDone, TransmitFails
<1>6. Items(Append(t, h)) = Items(t) \union {h}
  BY ItemsAppended
<1>7. \A m \in Node \ {n} : txq'[m] = txq[m]
  BY <1>3, <1>5
<1>8. \/ txq'[n] = t /\ (h \in completed' \/ h \in dropped')
      \/ txq'[n] = Append(t, h)
  BY <1>3, <1>5
<1>9. Dispatched(n) \subseteq Dispatched(n)'
  BY <1>1, <1>2, <1>4, <1>6, <1>8 DEF Dispatched
<1> QED BY <1>4, <1>7, <1>9 DEF Dispatched

LEMMA FirstLeaderStep ==
    ASSUME EgressTypeOK, FirstLeaderInv, [Next]_vars
    PROVE  FirstLeaderInv'
<1>0. LogKept
  BY EgressTypeStep
<1>1. CASE \E n \in Node, last \in BOOLEAN : Apply(n, last)
  BY <1>0, <1>1, ApplyFirstLeader
<1>2. CASE \E n \in Node, k \in commit .. Len(log) : BecomeLeader(n, k)
  <2>1. PICK n \in Node, k \in commit .. Len(log) : BecomeLeader(n, k)
    BY <1>2
  <2>2. /\ leader' = n /\ elections' = elections + 1 /\ commit' = commit /\ applied' = applied
        /\ elections \in Nat
    BY <2>1 DEF BecomeLeader, FirstLeaderInv
  <2>3. ASSUME elections' = 1, NEW m \in Node, NEW i \in 1 .. applied'[m] PROVE FALSE
    <3>1. commit = 0 /\ applied[m] \in Nat /\ applied[m] <= 0
      BY <2>2, <2>3 DEF FirstLeaderInv, EgressTypeOK, NodeTypeOK
    <3> QED BY <2>2, <3>1
  <2> QED BY <2>2, <2>3 DEF FirstLeaderInv
<1>3. CASE \E n \in Node : Transmit(n) \/ TransmitMistaken(n) \/ TransmitFails(n)
  <2>1. \E n \in Node : HeadDone(n) \/ TransmitFails(n)
    BY <1>3 DEF Transmit, TransmitMistaken
  <2>2. UNCHANGED <<applied, elections, leader, commit>>
    BY <2>1 DEF HeadDone, TransmitFails, raftVars
  <2> QED BY <1>0, <2>1, <2>2, TransmitKeeps, DispatchedKept DEF FirstLeaderInv
<1>4. CASE \E n \in Node : Crash(n)
  <2>1. PICK n \in Node : Crash(n)
    BY <1>4
  <2>2. /\ UNCHANGED <<applied, elections, commit, completed, dropped>>
        /\ leader' = IF leader = n THEN NoNode ELSE leader
        /\ txq' = [txq EXCEPT ![n] = <<>>] /\ txq \in [Node -> Seq(Payload)]
    BY <2>1 DEF Crash, past, EgressTypeOK, QueueTypeOK
  <2>3. \A m \in Node : m = leader' => m # n
    BY <2>2, Sizes
  <2>4. \A m \in Node : m = leader' => Dispatched(m)' = Dispatched(m)
    BY <2>2, <2>3 DEF Dispatched
  <2> QED BY <1>0, <2>2, <2>4, DispatchedKept DEF FirstLeaderInv
<1>5. CASE \/ \E b \in 1 .. MaxBatches : SubmitBatch(b)
           \/ Commit
           \/ \E n \in Node : Complete(n) \/ DropLateDone(n)
           \/ UNCHANGED vars
  <2>1. UNCHANGED <<applied, elections, leader, txq, completed, dropped>>
    BY <1>5 DEF SubmitBatch, Commit, Complete, DropLateDone, vars, raftVars, past
  <2>2. elections = 0 => commit' = commit
    BY <1>5 DEF SubmitBatch, Commit, Complete, DropLateDone, vars, raftVars, FirstLeaderInv
  <2>3. \A m \in Node : Dispatched(m)' = Dispatched(m)
    BY <2>1 DEF Dispatched
  <2> QED BY <1>0, <2>1, <2>2, <2>3, DispatchedKept DEF FirstLeaderInv
<1> QED BY <1>1, <1>2, <1>3, <1>4, <1>5 DEF Next

\* No batch the first leader applied is passed over: each was answered with Done, is
\* in its queue, or lost to a full queue or a full log.
THEOREM FirstLeaderDispatches == Spec => []AppliedIsDispatched
<1>1. Init => FirstLeaderInv
  BY DEF Init, FirstLeaderInv
<1>2. FirstLeaderInv => AppliedIsDispatched
  BY DEF FirstLeaderInv, AppliedIsDispatched, Dispatched, Items
<1> QED BY <1>1, <1>2, EgressTypes, FirstLeaderStep, PTL DEF Spec
=============================================================================
