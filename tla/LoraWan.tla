------------------------------ MODULE LoraWan -------------------------------
(***************************************************************************)
(* LoraWanService (fog/src/lorawan): the thread that joins the network and *)
(* sends queued payloads, the commands it gives the E5 module through      *)
(* E5Modem, send_batch called from the work queue and stop() from another  *)
(* thread.                                                                 *)
(*                                                                         *)
(* A command is one step of the thread: the request goes out, and the step *)
(* ends with the expected line, an error line or the timeout.  The module  *)
(* may still answer a command that is over; owed is the answer it has not  *)
(* given yet, and the command the thread waits in by then takes it for its *)
(* own.                                                                    *)
(***************************************************************************)
EXTENDS Integers, Sequences, FiniteSets

CONSTANTS
    Payload,        \* the payloads send_batch is called with, each once
    NoPayload,
    QueueDepth,     \* TX_QUEUE_DEPTH, 8
    SetupCommands,  \* number of setup_commands in run_join, 8
    MinDelay,       \* Backoff::MIN_MS, 500
    MaxDelay,       \* Backoff::MAX_MS, 30000
    MaxAttempt,     \* bound: m_join_attempt stays here; the delay no longer
                    \* grows from here on
    MaxResets,      \* bound: sessions the module loses
    MayStop         \* whether stop() is called: main() never does

ASSUME LoraWanAssumption ==
    /\ NoPayload \notin Payload
    /\ {QueueDepth, SetupCommands, MinDelay} \subseteq Nat \ {0}
    /\ MaxDelay \in Nat /\ MinDelay <= MaxDelay
    /\ MaxAttempt \in Nat /\ MinDelay * 2^MaxAttempt >= MaxDelay
    /\ MaxResets \in Nat
    /\ MayStop \in BOOLEAN

VARIABLES
    running,    \* m_running
    joined,     \* m_joined
    attempt,    \* m_join_attempt
    delay,      \* the delay of the last failed join, 0 after a success
    joinSem,    \* m_join_sem: given and not yet taken
    txq,        \* m_tx_q
    pc,         \* where the thread is
    step,       \* the setup command run_join has reached
    held,       \* the payload ship_payload holds
    member,     \* whether the module holds a session with the network
    resets,     \* number of sessions lost so far
    owed,       \* the answer the module still owes to a command that is over
    stopper,    \* where the caller of stop() is
    accepted,   \* history: payloads send_batch took
    dropped,    \* history: payloads lost to a full queue, or purged by stop()
    air,        \* history: payloads transmitted
    confirmed   \* history: payloads m_on_complete was called for

threadVars == <<joined, attempt, delay, pc, step, held>>
module     == <<member, resets, owed>>
past       == <<accepted, dropped, air, confirmed>>
vars       == <<running, threadVars, joinSem, txq, module, stopper, past>>

-----------------------------------------------------------------------------
(* E5Modem::cmd.                                                           *)

Command == {"SETUP", "JOIN", "FORCE", "MSGHEX"}

\* The line a command waits for: both joins wait for the same one, and the
\* answer to an uplink does not say to which.
Expected(c) == IF c = "FORCE" THEN "JOIN" ELSE c

\* The command the thread waits in.
Current ==
    CASE pc = "setup" -> "SETUP"
      [] pc = "join"  -> "JOIN"
      [] pc = "force" -> "FORCE"
      [] pc = "ship"  -> "MSGHEX"
      [] OTHER        -> "NONE"

Waiting == Current \in Command

\* Results other than MATCHED: a module without a session answers an uplink with
\* "Please join network first".
Failure(c) ==
    {"AT_ERROR", "TIMEOUT"}
    \union (IF c = "MSGHEX" /\ ~member THEN {"NOT_JOINED"} ELSE {})

\* The command ends before the module has answered it, with o owed from before:
\* the request was lost, or the module carries it out and answers late or never.
Unanswered(o) ==
    \/ owed' = o /\ UNCHANGED air
    \/ /\ pc = "ship" /\ member
       /\ air' = air \union {held}
       /\ owed' \in {o, "MSGHEX"}
    \/ /\ pc = "ship" /\ ~member
       /\ owed' = "REFUSED"
       /\ UNCHANGED air
    \/ /\ pc # "ship"
       /\ owed' = Current
       /\ UNCHANGED air

-----------------------------------------------------------------------------
(* The thread.                                                             *)

\* Backoff::delay_for.
delay_for(a) == LET d == MinDelay * 2^a IN IF d < MaxDelay THEN d ELSE MaxDelay

\* The loop's tests of m_running and m_joined (only this thread writes m_joined).
TestRunning ==
    /\ pc = "test"
    /\ pc' = CASE ~running -> "ended"
               [] running /\ ~joined -> "setup"
               [] running /\ joined -> "get"
    /\ step' = 1
    /\ UNCHANGED <<running, joined, attempt, delay, held, joinSem, txq, module,
                   stopper, past>>

\* run_join returned true.
JoinSucceeds ==
    /\ joined' = TRUE
    /\ attempt' = 0
    /\ delay' = 0
    /\ pc' = "test"
    /\ UNCHANGED <<step, held>>

\* run_join returned false.
JoinFails ==
    /\ delay' = delay_for(attempt)
    /\ attempt' = IF attempt < MaxAttempt THEN attempt + 1 ELSE attempt
    /\ pc' = "backoff"
    /\ UNCHANGED <<joined, step, held>>

\* ok() of a setup command: the first that fails ends run_join.
Setup(res) ==
    IF res # "MATCHED"
    THEN JoinFails
    ELSE /\ IF step < SetupCommands
            THEN step' = step + 1 /\ UNCHANGED pc
            ELSE pc' = "join" /\ UNCHANGED step
         /\ UNCHANGED <<joined, attempt, delay, held>>

Join(res) ==
    IF res = "MATCHED"
    THEN JoinSucceeds
    ELSE pc' = "force" /\ UNCHANGED <<joined, attempt, delay, step, held>>

ForceJoin(res) == IF res = "MATCHED" THEN JoinSucceeds ELSE JoinFails

\* k_sem_take: stop() gave the semaphore, or the delay is over.
WakeUp ==
    /\ pc = "backoff"
    /\ joinSem' = FALSE
    /\ pc' = "test"
    /\ UNCHANGED <<running, joined, attempt, delay, step, held, txq, module,
                   stopper, past>>

\* m_tx_q.get(K_FOREVER): takes a payload, or pends.
Get ==
    /\ pc = "get"
    /\ IF txq # <<>>
       THEN /\ held' = Head(txq)
            /\ txq' = Tail(txq)
            /\ pc' = "ship"
       ELSE /\ pc' = "pend"
            /\ UNCHANGED <<held, txq>>
    /\ UNCHANGED <<running, joined, attempt, delay, step, joinSem, module,
                   stopper, past>>

\* Variant: a failed uplink is not put back.
PutBackForgotten ==
    UNCHANGED <<txq, dropped>>

\* try_put after a failed uplink: a full queue loses the payload.
PutBack ==
    IF Len(txq) < QueueDepth
    THEN /\ txq' = Append(txq, held)
         /\ UNCHANGED dropped
    ELSE /\ dropped' = dropped \union {held}
         /\ UNCHANGED txq

\* Variant: NOT_JOINED is handled like every other failure.
ShipStaysJoined(res) ==
    /\ held' = NoPayload
    /\ pc' = "test"
    /\ IF res = "MATCHED"
       THEN /\ confirmed' = confirmed \union {held}
            /\ UNCHANGED <<txq, dropped>>
       ELSE /\ PutBack
            /\ UNCHANGED confirmed
    /\ UNCHANGED <<joined, attempt, delay, step, accepted>>

\* ship_payload after cmd() returned res.
Ship(res) ==
    /\ held' = NoPayload
    /\ pc' = "test"
    /\ IF res = "MATCHED"
       THEN /\ confirmed' = confirmed \union {held}
            /\ UNCHANGED <<joined, txq, dropped>>
       ELSE /\ joined' = (joined /\ res # "NOT_JOINED")
            /\ PutBack
            /\ UNCHANGED confirmed
    /\ UNCHANGED <<attempt, delay, step, accepted>>

\* What the thread does with the result of the command it waits in.
Continue(res) ==
    IF pc = "ship"
    THEN Ship(res)
    ELSE /\ CASE pc = "setup" -> Setup(res)
              [] pc = "join"  -> Join(res)
              [] pc = "force" -> ForceJoin(res)
         /\ UNCHANGED <<txq, accepted, dropped, confirmed>>

-----------------------------------------------------------------------------
(* The module's answers.                                                   *)

\* The answer the thread waits for: a join opens a session, an uplink needs one.
Match ==
    /\ Waiting
    /\ pc = "ship" => member
    /\ Continue("MATCHED")
    /\ air' = IF pc = "ship" THEN air \union {held} ELSE air
    /\ member' = (member \/ pc \in {"join", "force"})
    /\ UNCHANGED <<running, joinSem, resets, owed, stopper>>

\* The command fails.  A payload may have gone out without an answer in time.
Fail(res) ==
    /\ res \in Failure(Current)
    /\ Waiting
    /\ Continue(res)
    /\ IF res = "TIMEOUT" THEN Unanswered(owed) ELSE UNCHANGED <<owed, air>>
    /\ UNCHANGED <<running, joinSem, member, resets, stopper>>

\* The owed answer arrives.  modem_chat matches it against what is expected now
\* and against the error lines, and drops a line it does not look for.  The
\* command it ends has not been answered itself.
LateAnswer ==
    /\ owed # "NONE"
    /\ member' = (member \/ Expected(owed) = "JOIN")
    /\ IF Waiting /\ owed = "REFUSED"
       THEN Continue("NOT_JOINED") /\ Unanswered("NONE")
       ELSE IF Waiting /\ Expected(owed) = Expected(Current)
       THEN Continue("MATCHED") /\ Unanswered("NONE")
       ELSE /\ owed' = "NONE"
            /\ UNCHANGED <<threadVars, txq, past>>
    /\ UNCHANGED <<running, joinSem, resets, stopper>>

\* The module loses its session: it was reset, or the network forgot the node.
LoseSession ==
    /\ resets < MaxResets
    /\ resets' = resets + 1
    /\ member' = FALSE
    /\ UNCHANGED <<running, threadVars, joinSem, txq, owed, stopper, past>>

-----------------------------------------------------------------------------
(* The callers.                                                            *)

\* send_batch: a thread that pends in get() is handed the payload.
SendBatch(p) ==
    /\ p \notin accepted \union dropped
    /\ CASE pc = "pend" ->
               /\ held' = p
               /\ pc' = "ship"
               /\ accepted' = accepted \union {p}
               /\ UNCHANGED <<txq, dropped>>
         [] pc # "pend" /\ Len(txq) < QueueDepth ->
               /\ txq' = Append(txq, p)
               /\ accepted' = accepted \union {p}
               /\ UNCHANGED <<held, pc, dropped>>
         [] pc # "pend" /\ Len(txq) = QueueDepth ->
               /\ dropped' = dropped \union {p}
               /\ UNCHANGED <<held, pc, txq, accepted>>
    /\ UNCHANGED <<running, joined, attempt, delay, step, joinSem, module,
                   stopper, air, confirmed>>

\* stop(): m_running, the semaphore, the purge, k_thread_join.
StopRunning ==
    /\ MayStop
    /\ stopper = "idle"
    /\ stopper' = "give"
    /\ running' = FALSE
    /\ UNCHANGED <<threadVars, joinSem, txq, module, past>>

StopGive ==
    /\ stopper = "give"
    /\ stopper' = "purge"
    /\ joinSem' = TRUE
    /\ UNCHANGED <<running, threadVars, txq, module, past>>

\* Variant: the queue is emptied without waking who pends on it.
StopPurgeNoWake ==
    /\ stopper = "purge"
    /\ stopper' = "join"
    /\ dropped' = dropped \union {txq[k] : k \in DOMAIN txq}
    /\ txq' = <<>>
    /\ UNCHANGED <<running, threadVars, joinSem, module, accepted, air, confirmed>>

\* k_msgq_purge wakes a thread that pends in get(), which returns nothing.
StopPurge ==
    /\ stopper = "purge"
    /\ stopper' = "join"
    /\ dropped' = dropped \union {txq[k] : k \in DOMAIN txq}
    /\ txq' = <<>>
    /\ pc' = IF pc = "pend" THEN "test" ELSE pc
    /\ UNCHANGED <<running, joined, attempt, delay, step, held, joinSem, module,
                   accepted, air, confirmed>>

StopJoin ==
    /\ stopper = "join"
    /\ pc = "ended"
    /\ stopper' = "returned"
    /\ UNCHANGED <<running, threadVars, joinSem, txq, module, past>>

-----------------------------------------------------------------------------
\* init() started the thread.
Init ==
    /\ running = TRUE
    /\ joined = FALSE
    /\ attempt = 0
    /\ delay = 0
    /\ joinSem = FALSE
    /\ txq = <<>>
    /\ pc = "test"
    /\ step = 1
    /\ held = NoPayload
    /\ member = FALSE
    /\ resets = 0
    /\ owed = "NONE"
    /\ stopper = "idle"
    /\ accepted = {}
    /\ dropped = {}
    /\ air = {}
    /\ confirmed = {}

Thread == TestRunning \/ WakeUp \/ Get

Next ==
    \/ TestRunning
    \/ WakeUp
    \/ Get
    \/ Match
    \/ \E res \in {"AT_ERROR", "TIMEOUT", "NOT_JOINED"} : Fail(res)
    \/ LateAnswer
    \/ LoseSession
    \/ \E p \in Payload : SendBatch(p)
    \/ StopRunning
    \/ StopGive
    \/ StopPurge
    \/ StopJoin

Spec == Init /\ [][Next]_vars

\* The kernel runs the thread and the caller of stop() whenever they are ready,
\* a command ends at the latest with its timeout, and the network is not
\* unreachable for ever: a command that is given again and again, with a session
\* where it needs one, succeeds at last, and a module without a session says so.
Fairness ==
    /\ WF_vars(Thread)
    /\ WF_vars(Match \/ \E res \in {"AT_ERROR", "TIMEOUT", "NOT_JOINED"} : Fail(res))
    /\ \A k \in 1 .. SetupCommands : SF_vars(Match /\ pc = "setup" /\ step = k)
    /\ SF_vars(Match /\ pc \in {"join", "force"})
    /\ \A p \in Payload : SF_vars(Match /\ held = p)
    /\ SF_vars(Fail("NOT_JOINED"))
    /\ WF_vars(StopGive \/ StopPurge \/ StopJoin)

FairSpec == Spec /\ Fairness

-----------------------------------------------------------------------------
\* The values the variables take.
TypeOK ==
    /\ running \in BOOLEAN /\ joined \in BOOLEAN /\ joinSem \in BOOLEAN
    /\ attempt \in 0 .. MaxAttempt
    /\ delay \in 0 .. MaxDelay
    /\ txq \in Seq(Payload) /\ Len(txq) <= QueueDepth
    /\ pc \in {"test", "setup", "join", "force", "backoff", "get", "pend",
               "ship", "ended"}
    /\ step \in 1 .. SetupCommands
    /\ held \in Payload \union {NoPayload}
    /\ (held # NoPayload) = (pc = "ship")
    /\ member \in BOOLEAN /\ resets \in 0 .. MaxResets
    /\ owed \in Command \union {"REFUSED", "NONE"}
    /\ stopper \in {"idle", "give", "purge", "join", "returned"}
    /\ accepted \subseteq Payload /\ dropped \subseteq Payload
    /\ air \subseteq Payload /\ confirmed \subseteq Payload

Queued == {txq[k] : k \in DOMAIN txq} \union ({held} \ {NoPayload})

\* A payload send_batch took is queued or in the thread's hands until it is
\* confirmed or lost to a full queue or to stop(), and it is only ever in one
\* place: no retry loses it on the way or makes two of it.
PayloadIsSomewhere ==
    /\ accepted \subseteq Queued \union confirmed \union dropped
    /\ Queued \intersect (confirmed \union dropped) = {}
    /\ Cardinality(Queued) = Len(txq) + (IF held = NoPayload THEN 0 ELSE 1)

\* "Callback for when a message has been successfully sent." (service.hpp):
\* m_on_complete is called for a payload that was transmitted.
ConfirmedWasOnAir == confirmed \subseteq air

\* "Put the message back if the transmission failed so it isn't permanently lost."
\* (service.hpp): a payload the queue took is lost to nothing but stop().
AcceptedIsKept == running => accepted \intersect dropped = {}

\* While stop() is not called every payload the queue took is confirmed in the
\* end, or lost to a full queue.
EveryPayloadSettles ==
    \A p \in Payload :
        p \in accepted ~> (p \in confirmed \union dropped \/ ~running)

\* stop() returns: the thread ends wherever stop() finds it, except between its
\* test of m_running and its call of get(), which no purge can wake.
StopReturns == (stopper = "purge" /\ pc # "get") ~> stopper = "returned"

\* "Instantly unblocks k_msgq_get if stuck in Phase 2" (service.hpp): stop()
\* returns wherever it finds the thread.
StopAlwaysReturns == stopper = "purge" ~> stopper = "returned"
=============================================================================
