------------------------------- MODULE Lists -------------------------------
(***************************************************************************)
(* Lists of transactions, as pools, blocks and messages hold them.         *)
(***************************************************************************)
EXTENDS Integers, Sequences, FiniteSets

\* How often an entry is in a list.
Occurrences(e, txs) == Cardinality({i \in DOMAIN txs : txs[i] = e})

\* The entries of a list that are in a set, in their order.
Keep(txs, S) ==
    LET kept[i \in 0 .. Len(txs)] ==
            IF i = 0 THEN <<>>
            ELSE IF txs[i] \in S THEN Append(kept[i - 1], txs[i]) ELSE kept[i - 1]
    IN  kept[Len(txs)]
=============================================================================
