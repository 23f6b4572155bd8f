------------------------------ MODULE MCEgress ------------------------------
EXTENDS Egress, TLC

Symmetry == Permutations(Node)

\* What the gateway saw changes nothing on the fog nodes.
FogNodes == <<raftVars, tracker, txq, thread, completed, dropped, overlap>>

\* The steps that repeat an uplink: a batch is submitted when the one before it is
\* applied on the leader, uplinks are answered in time or not sent at all, and no
\* node crashes.
RepeatNext ==
    \/ \E b \in 1 .. MaxBatches :
          SubmitBatch(b) /\ applied[leader] = Len(log)
    \/ Commit
    \/ \E n \in Node : Apply(n, FALSE) \/ Apply(n, TRUE)
    \/ \E n \in Node : BecomeLeader(n, commit)
    \/ \E n \in Node : Transmit(n)
    \/ \E n \in Node : TransmitFails(n) /\ air' = air
    \/ \E n \in Node : Complete(n)

RepeatSpec == Init /\ [][RepeatNext]_vars

Uplinks == <<raftVars, tracker, txq, done, history, recorded>>
=============================================================================
