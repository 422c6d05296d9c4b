------------------------------- MODULE MCPbft -------------------------------
(***************************************************************************)
(* Bounds for the runs of Pbft on four nodes.  Each one restricts which    *)
(* nodes lag or time out, not what the handlers do.                        *)
(***************************************************************************)
EXTENDS Pbft

\* Bound: only the last node falls more than one block behind.  The others have
\* handled the PrePrepare of, and executed, every proposal but the newest one.
OneLaggard ==
    \A n \in Node \ {N - 1} : \A b \in 1 .. Len(blocks) - 1 :
        b \notin prePrepares[n] /\ b \in isReply[n]

\* Bound: rounds are signalled when sequenceLock is free.  While the view is
\* fixed, a proposer that waits for the lock does nothing another would not.
NoEarlySignal == \A n \in proposing : ~sequenceLock[n]

\* Bound: one view change, in the case that is dangerous: the first leader has
\* committed its block and hears of no timeout, the others have handled its
\* PrePrepare but commit nothing before they change the view; their timers
\* expire one after the other.
FirstLeaderCommitsFirst ==
    /\ viewChanges # {} => /\ Len(chain[0]) = 1
                           /\ \A n \in Node : 1 \notin prePrepares[n]
    /\ \A m \in viewChanges : m.from = m.id
    /\ \A d \in ViewChangeData : viewChangeMap[0][d] = 0
    /\ \A n \in Node \ {0} : view[n] = 0 => chain[n] = <<>>
=============================================================================
