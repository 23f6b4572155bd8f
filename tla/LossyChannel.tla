---------------------------- MODULE LossyChannel ----------------------------
(***************************************************************************)
(* What the Raft server may assume of its transport: a message is sent     *)
(* once, may be lost at any time, and reaches the node it is for at most   *)
(* once and no other node.                                                 *)
(***************************************************************************)
EXTENDS Sequences

CONSTANTS Msg, Node, Dest(_)

VARIABLES
    status,     \* of each message
    got         \* the messages each node has handled, in order

channelVars == <<status, got>>

Init ==
    /\ status = [m \in Msg |-> "unsent"]
    /\ got = [n \in Node |-> <<>>]

Send(m) ==
    /\ status[m] = "unsent"
    /\ \E s \in {"transit", "lost"} : status' = [status EXCEPT ![m] = s]
    /\ UNCHANGED got

Deliver(m) ==
    /\ status[m] = "transit"
    /\ status' = [status EXCEPT ![m] = "delivered"]
    /\ got' = [got EXCEPT ![Dest(m)] = Append(@, m)]

\* A crash loses several messages at once.
Lose(S) ==
    /\ \A m \in S : status[m] = "transit"
    /\ status' = [m \in Msg |-> IF m \in S THEN "lost" ELSE status[m]]
    /\ UNCHANGED got

Next ==
    \/ \E m \in Msg : Send(m) \/ Deliver(m)
    \/ \E S \in SUBSET Msg : Lose(S)

Spec == Init /\ [][Next]_channelVars
=============================================================================
