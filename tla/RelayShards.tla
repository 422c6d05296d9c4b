---------------------------- MODULE RelayShards ----------------------------
(***************************************************************************)
(* The shards of a Relay deployment: the transaction pool of each shard's  *)
(* leader (core/txpool.go), the blocks it packs (chain/blockchain.go), the *)
(* commit hook that executes them and relays the second half of a          *)
(* cross-shard transaction (consensus_shard/pbft_all/pbftInside_module.go, *)
(* toolFuncs.go), and the handlers of messages from outside the shard      *)
(* (pbftOutside_module.go).                                                *)
(*                                                                         *)
(* A shard is its leader, node 0, which is where the supervisor and the    *)
(* other shards send transactions: one block at a time is packed, agreed   *)
(* on and committed (module Pbft, fixed view).  Every message is sent by a *)
(* goroutine of its own, so messages arrive in any order.  Messages with   *)
(* an empty transaction list change nothing here and are left out, and so  *)
(* is seqIDMap, which only the CLPA modules read.                          *)
(***************************************************************************)
EXTENDS Transactions, FiniteSetsExt, Functions

CONSTANTS
    InitBalance,    \* params.Init_Balance
    BlockSize,
    MaxEmpty        \* bound: BlockInfo messages of a shard's empty blocks on their way

ASSUME TxAssumption ==
    /\ InitBalance \in Nat
    /\ BlockSize \in Nat \ {0}
    /\ MaxEmpty \in Nat \ {0}

\* The state trie gives every account Init_Balance, 10^38 times what a test
\* transfers.  A sender of a cross-shard transaction can pay for all it sends.
ASSUME FundsAssumption ==
    \A t \in TxID : CrossShard(t) =>
        InitBalance >= SumFunction([u \in {u \in TxID : Sender(u) = Sender(t)} |-> Value(u)])

VARIABLES
    txQueue,        \* Txpool.TxQueue of each leader
    open,           \* the block each shard is agreeing on: {} or {its body}
    ledger,         \* how often each entry is in the committed blocks of a shard
    balance,        \* the state tries
    injects,        \* InjectTxs messages on their way: [to, txs]
    relays,         \* Relay messages on their way: [to, txs]
    infos,          \* BlockInfoMsg messages of non-empty blocks on their way
    emptyInfos,     \* how many of each shard's empty blocks are
    stops,          \* shards a stop message is on its way to
    stopped

shardVars == <<txQueue, open, ledger, balance, stopped>>
netVars == <<injects, relays, infos, emptyInfos, stops>>

BlockInfoMsg == [inner : Seq(TxID), relay1 : Seq(TxID), relay2 : Seq(TxID)]

ShardTypeOK ==
    /\ txQueue \in [Shard -> Seq(Entry)]
    /\ open \in [Shard -> SUBSET Seq(Entry)]
    /\ \A s \in Shard : Cardinality(open[s]) <= 1
    /\ ledger \in [Shard -> [Entry -> Nat]]
    /\ balance \in [Account -> Nat]
    /\ injects \in SUBSET Message
    /\ relays \in SUBSET Message
    /\ infos \in SUBSET BlockInfoMsg
    /\ emptyInfos \in [Shard -> 0 .. MaxEmpty]
    /\ stops \in SUBSET Shard
    /\ stopped \in SUBSET Shard

ShardInit ==
    /\ txQueue = [s \in Shard |-> <<>>]
    /\ open = [s \in Shard |-> {}]
    /\ ledger = [s \in Shard |-> [e \in Entry |-> 0]]
    /\ balance = [a \in Account |-> InitBalance]
    /\ injects = {}
    /\ relays = {}
    /\ infos = {}
    /\ emptyInfos = [s \in Shard |-> 0]
    /\ stops = {}
    /\ stopped = {}
-----------------------------------------------------------------------------
AddTxs2Pool(s, txs) == txQueue' = [txQueue EXCEPT ![s] = @ \o txs]

HandleInjectTx(m) ==
    /\ m.to \notin stopped
    /\ injects' = injects \ {m}
    /\ AddTxs2Pool(m.to, m.txs)
    /\ UNCHANGED <<open, ledger, balance, stopped, relays, infos, emptyInfos, stops>>

HandleRelay(m) ==
    /\ m.to \notin stopped
    /\ relays' = relays \ {m}
    /\ AddTxs2Pool(m.to, m.txs)
    /\ UNCHANGED <<open, ledger, balance, stopped, injects, infos, emptyInfos, stops>>

\* Mutants: the packed transactions stay in the queue; the cut takes one too many.
PackTxsKeeps(q) == <<SubSeq(q, 1, Min({BlockSize, Len(q)})), q>>
PackTxsLoses(q) ==
    LET n == Min({BlockSize, Len(q)})
    IN  <<SubSeq(q, 1, n), SubSeq(q, n + 2, Len(q))>>

\* The block's body and the queue that remains.
PackTxs(q) ==
    LET n == Min({BlockSize, Len(q)})
    IN  <<SubSeq(q, 1, n), SubSeq(q, n + 1, Len(q))>>

\* HandleinPropose and GenerateBlock; sequenceLock admits one block at a time.
Propose(s) ==
    /\ s \notin stopped
    /\ open[s] = {}
    /\ open' = [open EXCEPT ![s] = {PackTxs(txQueue[s])[1]}]
    /\ txQueue' = [txQueue EXCEPT ![s] = PackTxs(@)[2]]
    /\ UNCHANGED <<ledger, balance, stopped, netVars>>
-----------------------------------------------------------------------------
\* The leader panics on a committed transaction that is not one of its shard's.
CorrectTx(s, e) ==
    IF e.relayed THEN PartitionMap[Recipient(e.tx)] = s
                 ELSE PartitionMap[Sender(e.tx)] = s

\* Mutant: the recipient is credited by the sender's shard too.
ExecuteBothSides(s, bal, e) ==
    LET debited == IF e.relayed THEN bal
                   ELSE [bal EXCEPT ![Sender(e.tx)] = @ - Value(e.tx)]
    IN  [debited EXCEPT ![Recipient(e.tx)] = @ + Value(e.tx)]

\* Mutant: the sender's funds are not checked.
ExecuteUnfunded(s, bal, e) ==
    LET debited == IF e.relayed THEN bal
                   ELSE [bal EXCEPT ![Sender(e.tx)] = @ - Value(e.tx)]
    IN  IF PartitionMap[Recipient(e.tx)] = s
        THEN [debited EXCEPT ![Recipient(e.tx)] = @ + Value(e.tx)]
        ELSE debited

\* One transaction of GetUpdateStatusTrie: a sender that cannot pay is skipped.
Execute(s, bal, e) ==
    LET pays == ~e.relayed /\ PartitionMap[Sender(e.tx)] = s
        debited == IF pays THEN [bal EXCEPT ![Sender(e.tx)] = @ - Value(e.tx)] ELSE bal
    IN  IF pays /\ bal[Sender(e.tx)] < Value(e.tx) THEN bal
        ELSE IF PartitionMap[Recipient(e.tx)] = s
        THEN [debited EXCEPT ![Recipient(e.tx)] = @ + Value(e.tx)]
        ELSE debited

\* The balances after the transactions of a block, one by one.
GetUpdateStatusTrie(s, body) ==
    LET trie[i \in 0 .. Len(body)] ==
            IF i = 0 THEN balance ELSE Execute(s, trie[i - 1], body[i])
    IN  trie[Len(body)]

\* The commit hook's three lists: what stays in the shard, what it relays
\* (to shard d) and what was relayed to it.
Inner(s) == {e \in Entry : PartitionMap[Recipient(e.tx)] = s /\ ~e.relayed}
Relay1(s) == {e \in Entry : PartitionMap[Recipient(e.tx)] # s}
RelayTo(s, d) == {e \in Relay1(s) : PartitionMap[Recipient(e.tx)] = d}
Relay2(s) == {e \in Entry : PartitionMap[Recipient(e.tx)] = s /\ e.relayed}
TxsOf(txs) == [i \in DOMAIN txs |-> txs[i].tx]

\* Mutant: a relayed transaction is reported as one of the shard's own.
BlockInfoMixed(s, body) ==
    [inner |-> TxsOf(Keep(body, Inner(s) \cup Relay2(s))),
     relay1 |-> TxsOf(Keep(body, Relay1(s))),
     relay2 |-> <<>>]

BlockInfo(s, body) ==
    [inner |-> TxsOf(Keep(body, Inner(s))),
     relay1 |-> TxsOf(Keep(body, Relay1(s))),
     relay2 |-> TxsOf(Keep(body, Relay2(s)))]

\* The transactions of a block that go on to shard d.
RelayPool(s, body, d) == Keep(body, RelayTo(s, d))

\* Mutant: the relayed mark is forgotten.
RelayMsgSendUnmarked(s, body) ==
    {[to |-> d, txs |-> RelayPool(s, body, d)] :
        d \in {d \in Shard : RelayPool(s, body, d) # <<>>}}

RelayMsgSend(s, body) ==
    {[to |-> d, txs |-> Marked(RelayPool(s, body, d))] :
        d \in {d \in Shard : RelayPool(s, body, d) # <<>>}}

\* HandleinCommit at the leader, for the block the shard has agreed on.
HandleinCommit(s) ==
    /\ s \notin stopped
    /\ \E body \in open[s] :
        /\ \A i \in DOMAIN body : CorrectTx(s, body[i])
        /\ body = <<>> => emptyInfos[s] < MaxEmpty
        /\ ledger' = [ledger EXCEPT ![s] = [e \in Entry |-> @[e] + Occurrences(e, body)]]
        /\ balance' = GetUpdateStatusTrie(s, body)
        /\ relays' = relays \cup RelayMsgSend(s, body)
        /\ infos' = IF body = <<>> THEN infos ELSE infos \cup {BlockInfo(s, body)}
        /\ emptyInfos' = [emptyInfos EXCEPT ![s] = IF body = <<>> THEN @ + 1 ELSE @]
    /\ open' = [open EXCEPT ![s] = {}]
    /\ UNCHANGED <<txQueue, stopped, injects, stops>>

WaitToStop(s) ==
    /\ s \in stops
    /\ stops' = stops \ {s}
    /\ stopped' = stopped \cup {s}
    /\ UNCHANGED <<txQueue, open, ledger, balance, injects, relays, infos, emptyInfos>>

ShardNext ==
    \/ \E m \in injects : HandleInjectTx(m)
    \/ \E m \in relays : HandleRelay(m)
    \/ \E s \in Shard : Propose(s) \/ HandleinCommit(s) \/ WaitToStop(s)
=============================================================================
