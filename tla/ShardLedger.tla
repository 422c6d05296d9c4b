----------------------------- MODULE ShardLedger -----------------------------
(***************************************************************************)
(* What the consensus of a shard promises to its clients: one sequence of  *)
(* decided blocks that only grows, of which every node holds a prefix that *)
(* only grows.  A node that catches up may apply several blocks at once.   *)
(***************************************************************************)
EXTENDS Naturals, Sequences

CONSTANTS Node, Block

VARIABLES
    decided,   \* the blocks the shard has decided, in order
    ledger     \* the blocks each node has applied

ledgerVars == <<decided, ledger>>

LedgerInit ==
    /\ decided = <<>>
    /\ ledger = [n \in Node |-> <<>>]

Decide(b) ==
    /\ decided' = Append(decided, b)
    /\ UNCHANGED ledger

Apply(n, k) ==
    /\ k \in Len(ledger[n]) + 1 .. Len(decided)
    /\ ledger' = [ledger EXCEPT ![n] = SubSeq(decided, 1, k)]
    /\ UNCHANGED decided

LedgerNext ==
    \/ \E b \in Block : Decide(b)
    \/ \E n \in Node : \E k \in 1 .. Len(decided) : Apply(n, k)

LedgerSpec == LedgerInit /\ [][LedgerNext]_ledgerVars
=============================================================================
