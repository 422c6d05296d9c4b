---------------------------- MODULE Transactions ----------------------------
(***************************************************************************)
(* Transactions and lists of them, for the modes that relay: the dataset,  *)
(* the two halves of a transaction that crosses shards                     *)
(* (core/transaction.go), and the lists the commit hooks make of a block.  *)
(***************************************************************************)
EXTENDS Lists

CONSTANTS
    Shard,
    Account,
    PartitionMap,   \* the shard of each account (utils.Addr2Shard)
    TxList          \* the legal rows of the dataset: [from, to, value]

ASSUME DataAssumption ==
    /\ IsFiniteSet(Shard)
    /\ IsFiniteSet(Account)
    /\ PartitionMap \in [Account -> Shard]
    /\ TxList \in Seq([from : Account, to : Account, value : Nat])

TxID == DOMAIN TxList
Sender(t) == TxList[t].from
Recipient(t) == TxList[t].to
Value(t) == TxList[t].value
CrossShard(t) == PartitionMap[Sender(t)] # PartitionMap[Recipient(t)]

\* A transaction as it lies in a pool or a block; relayed once its first
\* half has been executed.
Entry == [tx : TxID, relayed : BOOLEAN]
First(t) == [tx |-> t, relayed |-> FALSE]
Second(t) == [tx |-> t, relayed |-> TRUE]

\* Transactions on their way to the leader of a shard.
Message == [to : Shard, txs : Seq(Entry)]

\* tx.Relayed = true, for each transaction that is relayed.
Marked(txs) == [i \in DOMAIN txs |-> [tx |-> txs[i].tx, relayed |-> TRUE]]
=============================================================================
