------------------------------- MODULE RaftLog -------------------------------
(***************************************************************************)
(* The replicated log of one fog node as the Raft server sees it: the      *)
(* abstract value of LogRing (fog/src/raft/log/log_ring.hpp).  A log is    *)
(*     base     the index just below the first live entry (m_base),        *)
(*     term     the term of the entry at base (m_base_term),               *)
(*     entries  the live entries, at most LogCapacity of them.             *)
(* The circular placement of the entries in m_buf (m_head, slots) is       *)
(* abstracted: here a log is a value.                                      *)
(***************************************************************************)
EXTENDS Sequences, FiniteSetsExt

CONSTANT
    LogCapacity     \* Cfg::LOG_CAPACITY, 64 in DefaultConfig

ASSUME LogCapacityAssumption == LogCapacity \in Nat \ {0}

\* The logs whose entries are in E.
LogOf(E) == [base : Nat, term : Nat, entries : Seq(E)]

\* std::nullopt of term_at.
NoTerm == -1

EmptyLog == [base |-> 0, term |-> 0, entries |-> <<>>]

LastIndex(L) == L.base + Len(L.entries)

Full(L) == Len(L.entries) >= LogCapacity

\* at(k) is not a null pointer.
Live(L, k) == L.base < k /\ k <= LastIndex(L)

EntryAt(L, k) == L.entries[k - L.base]

TermAt(L, k) ==
    IF k = 0 THEN 0
    ELSE IF k = L.base THEN L.term
    ELSE IF Live(L, k) THEN EntryAt(L, k).term
    ELSE NoTerm

LastTerm(L) ==
    IF Len(L.entries) = 0 THEN L.term ELSE L.entries[Len(L.entries)].term

\* push: the entry is dropped, and LOG_FULL returned, when the ring is full.
Push(L, e) ==
    IF Full(L) THEN L ELSE [L EXCEPT !.entries = Append(L.entries, e)]

\* Variant: the edge gets the term of the last entry.
CompactToLastTerm(L, k, t) ==
    [base |-> k, term |-> LastTerm(L),
     entries |-> SubSeq(L.entries, k - L.base + 1, Len(L.entries))]

\* Variant: the entry at the edge stays in the ring.
CompactOneLess(L, k, t) ==
    [base |-> k, term |-> t,
     entries |-> SubSeq(L.entries, k - L.base, Len(L.entries))]

\* compact_to: k lies in base .. LastIndex(L) at every call.
CompactTo(L, k, t) ==
    [base |-> k, term |-> t,
     entries |-> SubSeq(L.entries, k - L.base + 1, Len(L.entries))]

ResetToSnapshot(k, t) == [base |-> k, term |-> t, entries |-> <<>>]

-----------------------------------------------------------------------------
(***************************************************************************)
(* The append loop of handle(AppendEntries): entries es belong at indices  *)
(* p+1, p+2, ...  An entry at or below the snapshot edge, or whose index   *)
(* already holds an entry of its term, is skipped.  The first other one    *)
(* truncates the log at its index and it and all later ones are pushed;    *)
(* a push into a full ring is ignored, so what does not fit is lost.       *)
(***************************************************************************)
NewEntries(L, p, es) ==
    {k \in 1 .. Len(es) : p + k > L.base /\ TermAt(L, p + k) # es[k].term}

\* Variant: the log always ends with the last entry of the message.
AppendTruncatesAlways(L, p, es) ==
    [L EXCEPT !.entries = SubSeq(@, 1, p - L.base) \o es]

\* Variant: the terms of existing entries are not compared.
AppendKeepsConflicts(L, p, es) ==
    [L EXCEPT !.entries = @ \o SubSeq(es, LastIndex(L) - p + 1, Len(es))]

AppendFrom(L, p, es) ==
    LET first == Min(NewEntries(L, p, es))
        keep  == SubSeq(L.entries, 1, p + first - 1 - L.base)
        room  == LogCapacity - Len(keep)
        added == SubSeq(es, first, Min({Len(es), first - 1 + room}))
    IN  IF NewEntries(L, p, es) = {}
        THEN L
        ELSE [L EXCEPT !.entries = keep \o added]

\* The live entries with indices in (la, c], the ones apply_committed finds.
EntriesBetween(L, la, c) ==
    SubSeq(L.entries, Max({la, L.base}) - L.base + 1,
                      Min({c, LastIndex(L)}) - L.base)

\* Variant: the lengths of the logs are not compared.
UpToDateByTerm(lastIndex, lastTerm, L) == lastTerm >= LastTerm(L)

\* Candidate log (lastIndex, lastTerm) is at least as up-to-date as L (5.4).
UpToDate(lastIndex, lastTerm, L) ==
    \/ lastTerm > LastTerm(L)
    \/ lastTerm = LastTerm(L) /\ lastIndex >= LastIndex(L)
=============================================================================
