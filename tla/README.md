# A TLA+ model of BlockEmulator

BlockEmulator is a test bed for sharded block chains. Each shard is a group of
nodes that runs PBFT over a chain of its own; a supervisor reads a dataset of
transactions, injects them into the shards, collects what the shards executed
and stops the experiment. How transactions cross shards depends on the mode:
Relay, Broker, CLPA (accounts move between shards), CLPA with brokers, SZHBFT.

This directory models the PBFT replica with its view change and catch-up, a
whole Relay deployment with its supervisor, the account transfer of the CLPA mode
and the algorithm that decides it, the split transactions of the Broker mode, the
two together (CLPA_Broker), the local and global chains and the votes of the
SZHBFT mode, and a node's storage with its restarts and Merkle proofs.

## 1. Inventory

| Component | State | Operations | Talks to | Hard parts |
|---|---|---|---|---|
| PBFT replica (`consensus_shard/pbft_all/pbft.go`, `messageHandle.go`) | view, sequenceID, requestPool, height2Digest, vote counts, isReply, pbftStage, sequenceLock, askForLock, chain | Propose, handlePrePrepare, handlePrepare, handleCommit, handleRequestOldSeq, handleSendOldSeq | the nodes of its shard | one goroutine per message; locks taken in one handler and released in another; replicas that miss a proposal |
| View change (`view_change.go`) | viewChangeMap, newViewMap | viewChangePropose, handleViewChangeMsg, handleNewViewMsg | the nodes of its shard | independent timers, no certificate in the messages |
| Relay module (`pbftInside_module.go`, `pbftOutside_module.go`, `toolFuncs.go`) | transaction pool, relay pool | HandleinPropose, HandleinCommit, HandleforSequentialRequest, handleRelay, handleInjectTx | leaders of other shards, supervisor | two halves of a transaction executed in two shards |
| Chain and state (`chain/blockchain.go`, `core/`) | chain, state trie, TxQueue | GenerateBlock, AddBlock, GetUpdateStatusTrie, PackTxs | - | skipped transactions, a proposal executed twice |
| Supervisor (`supervisor/supervisor.go`, `signal/`) | stopGap, listenStop, measures | handleBlockInfos, SupervisorTxHandling, CloseSupervisor | all leaders | when is everything done? |
| Committees (`supervisor/committee/`) | dataset position, batch, per-mode pools | txSending, MsgSendingControl, HandleBlockInfo | leaders | partition epochs, broker confirmations |
| Measures (`supervisor/measure/`) | counters per epoch | UpdateMeasureRecord, OutputRecord | supervisor | reports out of order |
| Account transfer (`accountTransfer_module.go`, `pbft*CLPA.go`, `dataSupport/`) | epoch data, partition map, ready flags, states to move | handlePartitionMsg, sendPartitionReady, sendAccounts_and_Txs, proposePartition, accountTransfer_do | all shards | a barrier over all shards while relays go on |
| Broker (`pbft*Broker.go`, `committee_broker.go`, `broker/`) | raw, type-1 and type-2 pools, confirm pools | handleBrokerRawMag ... handleTx2ConfirmMag | leaders | a saga of two transactions |
| CLPA with brokers (`accountTransfermod_Broker.go`, `pbft*CLPABroker.go`, `committee_clpa_broker.go`) | those of both modes | those of both modes, HandleOtherMessage | leaders, supervisor | transactions that change their form when an account moves |
| SZHBFT (`pbft*SZHBFT.go`, GenerateSZBlock) | LocalChain, globalVotePool | HandleinPropose, HandleinCommit, handleInterSZonePrepare, handleInterSZoneVote | nodes of all shards | two chains, one pool; counting and deciding under two locks |
| CLPA algorithm (`partition/`) | graph, partition, edge counts | CLPA_Partition, changeShardRecompute | CLPA committee | incremental counts |
| Storage (`storage/storage.go`) | bolt buckets, newest hash | AddBlock, UpdateNewestBlock, GetNewestBlockHash | chain | a crash between three transactions |
| Network (`networks/`) | connection pool | TcpDial, Broadcast | all | dropped, delayed and reordered messages |
| Parameters, start-up, queries, logs | - | - | - | no concurrent state |

What makes each correct:

- *PBFT replica*: the chains of a shard never disagree; a block is executed only
  with a commit quorum; a lagging replica catches up without hanging; no handler
  unlocks a mutex nobody holds; the leader never builds on a gap.
- *View change*: an executed block stays executed; a block has one history.
- *Relay*: every transaction is executed once in each shard it touches, money
  is neither made nor lost, nothing starves.
- *Supervisor*: counts are what was executed; the run ends, and not before all
  is done.
- *Account transfer*: an account has one home; no transaction is stranded.
- *Broker*: both halves or neither, each once.
- *CLPA algorithm*: the counters are those of the graph; graph, committee and
  shards agree on where an account is; no shard is emptied.
- *CLPA with brokers*: a payment is made once, whole or in halves.
- *SZHBFT*: a payment inside a shard is recorded once; a Confirm has its votes.
- *Storage*: what was stored before a crash can be opened after it, and a proof
  exists for exactly what is in the chain.

Two remarks on the repository as it stands. `pbftOutside_moduleSZHBFT.go` has
unresolved merge markers (lines 181 and 449), so the package does not compile;
`SZHBFT` models the second of the two versions between them (from line 182), the
one whose vote handler is complete. And `Propose` starts its goroutines
and returns (messageHandle.go:15-114), after which `BuildNewPbftNode` and `main`
return as well and the process would end; the models describe the nodes while
they run.

## 2. Modules

| Module | What it models |
|---|---|
| `ShardLedger` | abstract specification: one growing ledger, of which every node holds a growing prefix |
| `Pbft` | the replicas of one shard: rounds, catch-up, view change |
| `PbftProof` | `Pbft` with view changes: type correctness, one history per block; with a fixed view: agreement, commit quorums, the locks, and that it implements `ShardLedger` |
| `MCPbft` | bounds for the runs of `Pbft` |
| `Lists` | counting and filtering lists of transactions |
| `Transactions` | what the Relay and SZHBFT deployments share: the dataset, the two halves of a transaction, and messages |
| `RelayShards` | the shards of a Relay deployment |
| `RelaySystem` | `RelayShards` with the supervisor, the Relay committee and the counters |
| `RelayProof` | `RelaySystem`: each transaction once, in its shard; true counts; money |
| `MCRelay` | a dataset and a partition for the runs of `RelaySystem` |
| `AccountTransfer` | the shards and the committee of a CLPA deployment |
| `MCTransfer` | accounts, dataset and maps for the runs of `AccountTransfer` |
| `BrokerTx` | the shards, the committee and the measures of a Broker deployment |
| `BrokerProof` | `BrokerTx`: each half once and in order, no second half measured first, users' money |
| `MCBroker` | accounts and dataset for the run of `BrokerTx` |
| `ClpaPartition` | the CLPA algorithm and the committee's use of it over epochs |
| `ClpaPartitionProof` | `ClpaPartition`: exact counters, agreeing maps, no emptied shard |
| `MCClpa` | accounts and shards for the run of `ClpaPartition` |
| `ClpaBroker` | the shards and the committee of a CLPA_Broker deployment |
| `MCClpaBroker` | accounts, dataset and map for the run of `ClpaBroker` |
| `SZHBFT` | the shards, their chains and their votes in a SZHBFT deployment |
| `SZHBFTProof` | `SZHBFT`: votes behind a Confirm; where every transaction is; money in the global chains |
| `MCSzhbft` | accounts, dataset and bounds for the run of `SZHBFT` |
| `ChainStore` | a node's chain in memory and on disk, restarts, Merkle proofs |
| `ChainStoreProof` | `ChainStore`: restarts and Merkle proofs |
| `MCStore` | transactions for the run of `ChainStore` |
| `ListTheorems` | induction over numbers and finite sets, finite sums, lists: counting, filtering, cutting |
| `TransactionTheorems` | lemmas on marking and sending lists of transactions, and on the money they move |

### Pbft

Nodes are `0 .. N-1`. A block, its request and its digest are the position of
the proposal in `blocks`; a digest covers the request's time stamp, so no two
proposals share one. `chain[n]` is the node's chain without the genesis block,
and the names of the other variables are the fields of `PbftConsensusNode`.

| Action | Code |
|---|---|
| `ProposeSignal`, `Propose` | the ticker and the view check of `Propose`; then, with sequenceLock, the proposal. The view is not looked at again. |
| `HandlePrePrepare`, `HandlePrepare` | the handlers of that name; `HandlePrepare` is the delivery that completes a quorum |
| `HandleCommit` | a commit quorum with the request in the pool: `HandleinCommit`, sequenceID + 1, unlock |
| `HandleCommitMissing`, `HandleCommitBlocks`, `HandleCommitResumes` | a commit quorum without the request: the query is sent, or the handler waits for askForLock with pbftLock held, and later goes on |
| `HandleRequestOldSeq` | the answer of the leader; other nodes drop the query |
| `HandleforSequentialRequest`, `HandleSendOldSeq` | the blocks of an answer added one by one, without the lock of the Commit handlers; then the rest of the handler |
| `ViewChangePropose`, `HandleViewChangeMsg`, `HandleNewViewMsg` | a timer expires; deliveries that find exactly 2f+1 nodes in a map entry |

Abstractions. A vote below the quorum only raises a count, so a vote handler is
one step, possible from the moment enough votes were sent. Messages stay in
their sets until handled and may stay for ever, which is loss; they arrive in
any order; the network does not duplicate. `pbftStage` and the condition
variable only delay handlers, and any delay is allowed, so the model has every
behaviour of the code and some more; whether a round *completes* cannot be told
from it. View handlers run one at a time (tcpPoolLock is per node) and are
atomic. The Go race detector's view of the code (maps written under different
locks) is partly covered: a crash of the process is a node that takes no more
steps. A lost update of sequenceID between `sequenceID += 1` in a Commit handler
and the assignment in `handleSendOldSeq` is not modelled. At most one proposer
per node waits for sequenceLock. Restart and the stop message are not part of
this module.

### RelayShards and RelaySystem

A shard is its leader, node 0, to which all injected and relayed transactions
go, and which has one block in agreement at a time. That a shard acts as one
sequential ledger while its view is fixed is what `Pbft` establishes. An entry
of a pool or block is a row of the dataset and its `Relayed` mark; `ledger`
counts how often each entry has been committed; `balance` stands for the state
tries, whose accounts all start with `Init_Balance`.

| Action | Code |
|---|---|
| `HandleInjectTx`, `HandleRelay` | the handlers of `pbftOutside_module.go` |
| `Propose` | `HandleinPropose`, `GenerateBlock`, `PackTxs` |
| `HandleinCommit` | the leader's commit hook: execute, sort into inner, relay1 and relay2, relay, report |
| `WaitToStop` | the stop message |
| `TxSending`, `BatchSent` | one tranche of a batch; end of a batch with `StopGap_Reset` |
| `HandleBlockInfo`, `HandleEmptyBlockInfo` | `handleBlockInfos` |
| `SendStop`, `CloseSupervisor` | the end of `SupervisorTxHandling` |

Abstractions. Each message has a goroutine of its own, so messages arrive in any
order; none is lost. Messages with an empty transaction list have no effect in
this mode and are left out, as is seqIDMap, which only the CLPA modules read.
Merkle proofs (`RelayWithMerkleProof`) are left out. `stopGap` stays at the
threshold once there; only "at least the threshold" is ever asked.
`FundsAssumption`: who sends across shards can pay for all it sends. The code
needs it (blockchain.go:114-117 skips an unpaid transaction, the commit hook
relays it all the same); the balances it hands out, `params.Init_Balance`, are
far above any dataset's values.

### AccountTransfer

Shards are leaders here too. `cdm` is `Data_supportCLPA`; `stage` is where the
leader's `HandleinPropose` stands: it announces (`SendPartitionReady`), waits for
`GetPartitionReady`, sends (`SendAccountsAndTxs`), waits for CollectOver and
proposes (`ProposePartition`); `AccountTransferDo` is the commit of that request.
`ProposeBlock` and `CommitBlock` are the same two functions for a block. The
handlers of `pbftOutside_moduleCLPA.go` have an action each. `TxSending`,
`ClpaMapSend` and `HandleBlockInfo` are the committee, which after a map waits
until some shard reports the new epoch. PartitionMap and the state trie are total
functions here, with the defaults of `Addr2Shard` and `Init_Balance` filled in;
the map an epoch brings (`Maps`) is a constant, whatever the algorithm computes.

Abstractions. Messages arrive in any order, since TcpDial delays each by a random
time of its own, and none is lost. A tranche is one transaction. The two lock
regions of handlePartitionReady are one step. Reports of epoch 0 change nothing and
are left out, and so are Merkle proofs and, as in the Relay model, view changes and
the stop signal.

Panics. A transaction injected by the old map, or a Relay message, may arrive after
its account has left. HandleinCommit then panics ("incorrect tx"), but only after
AddBlock has executed and stored the block on every node. `CommitBlock` is the hook
without a panic and `PanicBlock` the one with it: balances and chain change, nothing
is relayed or reported, and the leader is gone (stage "panic"), with what is on its
way to it. proposePartition ("error tx", or no map of the round) panics before it
changes anything. An account that a map does not mention reads as shard 0 there
(`Shard0`). `Conservation` says what such a last block costs: value whose sender
paid, here or in another shard, is lost when the recipient has moved, and value
appears when the sender has moved and the recipient has not.

### BrokerTx

An entry is a row of the dataset or one of its halves, tx1 and tx2; its hash is
the entry itself (hashes cover a nonce and a time, so they differ). The pools of
confirmations are sets of halves. Two goroutines work in the committee: the one
that reads the dataset (`DealTxByBroker`, then `TxSending` one transaction at a
time) and the one that handles a report. The latter's three steps are
`HandleBlockInfo` (createConfirm and handleTx1ConfirmMag), `TxSending2` and
`HandleTx2ConfirmMag` with the measures; `handling` is the report in its hands,
and that there is one at a time is tcpLock. `Propose` and `HandleinCommit` are
the leader's hooks.

Abstractions. Empty blocks and sequence-id messages change nothing in this mode
and are left out; the stop signal is in `RelaySystem`. `BrokerFunds`: the initial
balance pays for everything (an unpaid half would be skipped by
GetUpdateStatusTrie and confirmed all the same). Only BrokerAddress[0] takes part
in split transactions, as in the code.

What the model does not claim: the halves carry HasBroker = false, so a broker's
balance changes only in its home shard (blockchain.go:96 and 123), and the sum of
all balances grows or shrinks when one party lives there. `UserMoney` is about
the users.

### ClpaPartition

`AddEdge` is a reported transaction; `StartPartition`, `VisitAndMove`,
`VisitAndStay`, `NextIteration` and `EndPartition` are the loops of
CLPA_Partition and, in the last, what MsgSendingControl does with the result
(modifiedMap, clpaReset). EdgeSet counts how often a neighbour is in a vertex's
list. Go ranges over a map in any order, so any vertex may be next; among
neighbours of equal score the first in the list wins, which here is any of them.

Scores are multiplied by their common denominator and compared as integers. When
some shard has no edge the denominator is zero: the code gets -Inf or NaN, which
never exceeds max_score, and no vertex moves (`Candidates`). Not modelled:
Init_Partition, Stable_Init_Partition, CopyCLPA and EraseEdges, which only tests
call, and transactions of an account with itself, which data2tx filters out.

### ClpaBroker

Leaders as in `AccountTransfer`, entries as in `BrokerTx`. In place of Relay
messages, commits send SeqIDinfo messages, whose numbers end the wait before a
transfer. `SendAccountsAndTxs` sorts the pool: a half or a broker's transaction
follows the account it needs (`Follows`), a whole transaction that would come to
lie across shards is given back to the supervisor (`BeCross`), the rest stays
(`Remaining`). In the supervisor the dataset's goroutine deals with and sends a
row in one step (`DealAndSend`), since only it changes the map; a handler's work
on transactions given back (`HandleOtherMessage`, `DealAgain`, `TxSending`) and on
second halves is in steps, because the map may change in between.

Abstractions. A batch and a tranche are one transaction. The counts that decide
nothing are left out, and so are empty InnerTx2CrossTx messages and the graph
(see `ClpaPartition`); the map is a constant.

Panics are as in `AccountTransfer`: AddBlock comes first, so in `PanicBlock` the
block of a transaction that misses an account it needs ("Err tx1" to "err tx -
without broker") is executed and stored, and the leader ends before it reports it.
Any transaction sent by the old map and delivered after the move does this, and so
does one that HandleOtherMessage deals with as whole by one map and sends by the
next. `ExactlyOnce` and `UserMoney` say what is lost: the payment whose first half
is in such a block has no second half, a sender who had moved is not debited and a
recipient who had moved is not credited. proposePartition has put what came with the
accounts into the pool before it can panic.

### SZHBFT

| Action | Code |
|---|---|
| `TxSending`, `HandleInjectTx`, `HandleRelay` | the committee and the handlers of the pool |
| `ProposeLocal`, `ProposeGlobal`, `ProposeNothing` | HandleinPropose on what GenerateSZBlock took from the pool |
| `GenerateBlock` | Propose when HandleinPropose returned nothing: it packs again |
| `CommitLocal`, `PanicLocal`, `CommitGlobal` | HandleinCommit |
| `HandleInterSZonePrepare` | a validator's vote |
| `CountVote`, `Decide` | handleInterSZoneVote under its first and its second lock |

A state root is the contents of its trie. `localDb` holds the roots LocalChain's
database knows; AddBlock executes a block whose root it does not know, from the
root of its current block. `confirmed` and `voted` record what was broadcast and
whose votes were handled. Reports to the supervisor and the measures are left out;
the blocks of a shard stand for its leader's, as in the other modules.
`SzhbftFunds` is `FundsAssumption` again: this mode relays what it skipped too.

What the model shows of this mode besides its properties, each a behaviour of
the code: a global block that is packed together with a local one is dropped with
its transactions; a global block that is voted on is never recorded, as Confirm
has no handler, and only transactions that meet the empty-pool path reach the
global chain; local transactions are in no header's state root; after a global
block the next local one that must be executed panics (`PanicLocal`); Confirm may
go out twice for a sequence, although line 408 deletes the pool against that,
because a vote after the decision makes the pool again and because several global
blocks share one sequence number; votes of two shards' nodes with one number
count once. No property is stated about what the code does not attempt.

### ChainStore

One node. The shard's agreement is a growing list (`ledger`), which is what
`PbftProof` shows of a fixed view, so a block is its height. AddBlock is six
steps: the check, the trie, CurrentBlock, and the three bolt transactions of
Storage.AddBlock. `Crash`, the end of the process, may come between any two of
them; what was written before stays. `NewChain` and `ExistingChain` are the two ways through
NewBlockChain. The Merkle operators are pure and evaluated on every state: a
transaction tree is its set of transactions, Prove succeeds for every key, and
VerifyProof finds a value only for keys of the tree.

Two goroutines add blocks: a Commit handler, under pbftLock, and handleSendOldSeq
without it (messageHandle.go:369, pbftInside_module.go:168), so two calls of
AddBlock may overlap; `overlapped` records that they did. `Recoverable` is what a
restart needs, and it is violated by an overlap (run `storage_overlap`);
`RecoverableInTurn` says that nothing else violates it, in particular no stop.
`ProofsExact` speaks of the blocks that are stored without a gap, which are all of
them if no calls overlapped.

## 3. Runs

| Run | Checks | Result |
|---|---|---|
| `pbft_fixed` | `TypeOK`, `Agreement`, `Certified`, `LeaderComplete`, `NoFatalUnlock`, `QueryOpen`, `OneHistory`, `ImplementsLedger` | hold, 425,974 states |
| `pbft_fork` | `Agreement` with a view change | violated |
| `relay` | `TypeOK`, `ExactlyOnce`, `NoIncorrectTx`, `Conservation`, `CountsMatch`, `SentIsFinished`, `Termination` | hold, 179,992 states |
| `relay_stop` | `StopAfterAll` | violated |
| `transfer` | `TypeOK`, `OneOwner`, `ExactlyOnce`, `Conservation` | hold, 275,881 states |
| `transfer_skip` | `RoundsApplied` | violated |
| `broker` | `TypeOK`, `ExactlyOnce`, `UserMoney`, `ConfirmOrder`, `NoMissingBroker1`, `AllFinished` | hold, 168,419 states |
| `clpa` | `TypeOK`, `CountersExact`, `MapsAgree`, `NoShardEmptied` | hold, 294,147 states |
| `clpa_broker` | `TypeOK`, `ExactlyOnce`, `UserMoney` | hold, 971,567 states |
| `szhbft` | `TypeOK`, `Accounted`, `Conservation`, `ConfirmNeedsVotes` | hold, 468,173 states |
| `storage` | `TypeOK`, `RecoverableInTurn`, `ProofsExact` | hold, 1,058,640 states |
| `storage_overlap` | `Recoverable` | violated |

Bounds.

- `pbft_fixed`: N = 4, so f = 1 and the quorum is 3, the smallest shard in which
  a replica can be left out of a quorum. Three blocks: a replica can miss one,
  ask for a second and have a third under way. `OneLaggard` lets one replica
  fall behind; `NoEarlySignal` drops states that differ only in a ticker signal
  that comes early. The proofs of section 4 need neither.
- `pbft_fork`: two blocks, three timeouts: one view change.
  `FirstLeaderCommitsFirst` starts it where it hurts, after the first leader
  has executed a block. No passing run changes the view: a second view change, or
  four proposals with one, is beyond TLC here. What holds of every number of view
  changes, `TypeOK` and `OneHistory`, is proved.
- `relay`: two shards, three transactions (one across each way, one its sender
  cannot pay), blocks of two, two batches, tranches of two; relayed halves come
  on top of what is injected, so that a pool is longer than a block.
- `transfer`: two shards; alice moves from carol's to bob's, is paid by bob and pays
  carol. Her payment begins inside a shard and may be taken along, and injected or
  relayed late either transaction makes a leader panic, losing its value or making
  it from nothing. Three sequence numbers per shard leave room for a block
  before the transfer, the transfer and a block after it. It covers the first
  transfer only: a second one can begin inside the first (`transfer_skip`), and
  what holds after that is not claimed.
- `broker`: two shards with a user each and a broker at home in one of them;
  three transactions to split, one to and one from the broker; batches and blocks
  of two, so that reports mix halves and a batch is read while halves of the one
  before are under way.
- `clpa`: three shards, so that a neighbour can be in neither the old nor the new
  shard; four accounts, one of the shards with two; up to four transactions an
  epoch; two iterations and two epochs, so that a move is judged by counters that
  another move corrected, and a second graph starts from the first one's moves.
  One move per vertex and run: the limit, 50 in the code, is then reached.
- `clpa_broker`: two users change places; the dataset has a payment that must be
  given back, one that is split and whose halves move, and a broker's. One map,
  for the reason given under `transfer`; three sequence numbers. `FewSeqInfos`
  keeps one SeqIDinfo on its way at a time, so that two of a shard do not
  overtake each other (in `transfer` Relay messages, which play their part, do).
- `szhbft`: four nodes a shard, so that 3f+1 is more than 2f+1 and both shards'
  votes mix. `QuietWhileVoting` separates voting from the rest, with which it
  shares only the sequence number; `AnswersFirst` lets all nodes answer before
  the first vote is handled, votes being what is reordered; `TwoHandlers` has
  two vote handlers between their locks, one to decide and one with an old count;
  `OneBlock` lets the second shard, which has one half to record, agree once.
  Nodes are symmetric.
- `storage`: two goroutines, three blocks, two stops, two transactions that share a
  Bloom bit. `storage_overlap` needs no stop: the hole is there before one.
- `MaxEmpty` bounds the reports of empty blocks on their way per shard; a shard
  at the bound waits for the supervisor to take one.

What the violations show.

- `pbft_fork`. "all node in the shard maintain the same blockchain" (pbft.go:33)
  fails after a view change. Node 0 executes block 1; the others, whose timers
  expire first, enter view 1 with sequenceID 1 and agree on another block 1.
  NewView messages carry no evidence of what was decided.
- `relay_stop`. "wait all txs to be handled" (supervisor.go:137): reports of
  empty blocks from one fast shard reach the threshold while an injected
  transaction is on its way.
- `transfer_skip`. AccountTransferRound "denote how many times accountTransfer do"
  (clpaData_Extra.go:11): the next map reaches a shard that is still collecting;
  it proposes the current map under the number of the next round and forgets the
  next map.
- `storage_overlap`. "Find all blocks in this chain." (merkleproof.go:27): the
  goroutine of handleSendOldSeq has set CurrentBlock to block 1 and not stored it
  when a Commit handler finds it as the parent of block 2, adds that and stores it
  as the newest. Block 2 is on disk without block 1: the walk of a Merkle proof ends
  at the gap, and a stop makes it permanent.

Some disagreements the models contain and no run states. A replica that
missed a proposal asks for the heights from sequenceID + 1 on, not from
sequenceID (messageHandle.go:282), and goes on at the end of that range: in
`Pbft`, with a fixed view, two nodes with equal sequenceID may hold chains of
different length, the shorter one for good. And getPartitionReady compares
sequence numbers only for shards it has an entry of (accountTransfer_module.go:49):
in `AccountTransfer` a shard may go through with a transfer while the first Relay
message of another shard's last round is still on its way to it. That message, or an
inject sent by the old map, ends in `PanicBlock`: "incorrect tx" is reachable in the
CLPA modes, and so is the loss that `Conservation` and `UserMoney` put into figures.
After a view change of four nodes, fork or not, a leader may answer a query with a
proposal nobody committed: the late PrePrepare of an old leader overwrites
height2Digest (messageHandle.go:150-154), from which handleRequestOldSeq answers.

Fairness (`relay`; `broker` has the same, for its two goroutines). Weak fairness of each shard's proposing and committing:
the ticker of `Propose` fires for ever and a round in a fixed view completes
(an assumption here; see `pbftStage` above). Of message handling: TCP delivers
and each connection has a reading goroutine. Of the injection loop and of
closing: plain sequential code. `SendStop` is not assumed fair in `Spec`, so
that `SentIsFinished` speaks about shards left alone; `Termination` takes the
polling of `GapEnough` as its premise. Deadlock checking is off in the Relay
and Broker runs because a finished run stops, and in the Pbft runs because `MaxBlocks`
bounds the proposals, and in the transfer runs because `MaxSeq` does.

## 4. Proofs

Each theorem holds for every value of the constants that the named assumptions of
its module admit; TLC evaluates those assumptions in the runs.

`Pbft`, for every N, MaxBlocks and MaxTimeouts, from `NAssumption` (N > 0) and
`BoundsAssumption`:

- `PbftProof!TypeCorrect`: `Spec => []TypeOK`. The strengthening `TypeInv` says
  that nothing runs ahead of the proposals made: pools, flags, queries, answers
  and view messages name blocks that exist, block b has a sequence of at most b,
  and sequenceID is at most one more than the number of blocks. Without it the
  lookups of `blocks` in the actions would leave its domain.
- With `FixedViewSpec`, `Agreement`, `LeaderComplete`,
  `NoFatalUnlock` and `QueryOpen`. Agreement alone is not inductive. `FixedInv`
  adds: all views are 0; block b has sequence b and parent b-1 (`Numbered`);
  height2Digest maps a height to its own block; every chain is 1, 2, 3 ... in
  order, with no gap before its end (`ChainsInOrder`); the leader's sequenceID,
  sequenceLock and last proposal fit together (`LeaderRound`); a query or its
  answer exists exactly for holders of askForLock, one each (`QueryOwned`,
  `OneQuery`). The argument: with one proposer, who holds sequenceLock from
  proposal to commit, proposals are a single sequence, and AddBlock's parent
  check makes each chain a prefix of it, whatever is missing or late.
- `PbftProof!FixedCertified`: `Certified` under `FixedViewSpec`. `BackedInv`
  says that whatever is executed, asked for or answered has a commit quorum: every
  block of every chain, the height a node that lags asks for, and the end of every
  query and answer on its way.
- `PbftProof!FixedImplementsLedger`: `FixedViewSpec => ImplementsLedger`, step
  by step: the leader's commit decides a block, every other addition to a chain
  lets a node catch up by a block, and all else stutters.
- `PbftProof!HistoryIsOne`: `Spec => []OneHistory`, view changes
  included. `Linked` says each block of a chain has the one below it as parent;
  since a proposal has one parent for good, equal blocks have equal histories.

`RelaySystem`, for every set of shards and accounts, dataset, block and batch
size and pace, from `DataAssumption`, `TxAssumption`, `SupervisorAssumption` and, for money,
`FundsAssumption`:

- `TypeCorrect` and `NeverIncorrect` (`NoIncorrectTx`). `TypeInv` adds `Located`:
  injected messages carry first halves of the receiver's accounts, relayed ones
  second halves, and a shard's pool and open block only what it may execute.
- `EachExactlyOnce` (`ExactlyOnce`). Messages are sets, so a step that adds one
  might add one that is there already and lose a transaction. It does not: an
  injected transaction has not been sent before, and a second half does not exist
  before its first half is executed, which the count itself says. `OnceInv` is
  `TypeInv` and `ExactlyOnce`; the rest is that `PackTxs` cuts a list in two, that
  the filters of the commit hook pick each transaction once, and that the sums
  over messages, pools and blocks change by what is moved.
- `CountsAreTrue` (`CountsMatch`). `Settled`: a report names a transaction that has
  been executed. The block being committed holds only transactions that have not,
  so its report differs from all on their way, and its three lengths are what the
  block adds to the ledger in each class.
- `MoneyConserved` (`Conservation`). Not inductive: a cross-shard sender who
  cannot pay is not debited, and his transaction is relayed all the same. `Solvent`
  adds that an account has at least the initial balance less the worth of its
  executed first halves, which by `FundsAssumption` pays for the next one. The
  step is an induction over the transactions of a block.

`BrokerTx`, for every set of shards, accounts and brokers, dataset and batch and block
size, from `BrokerAssumption` and, for money, `BrokerFunds` (`BrokerProof`):

- `TypeCorrect`. `TypeInv` adds `Located`: what is on its way to a shard, in its pool
  or in its block has that shard as its `Destination`; halves are halves of split
  transactions and only the others are whole; and a report sorts them rightly.
- `EachPartOnce` (`ExactlyOnce`). A split transaction goes through four phases, and
  the second half is made when a report is handled. What could go wrong is a report
  that counts twice, or two reports that are equal and merge in the set. `OnceInv`
  adds that what has not been read from the dataset is nowhere (`Once`); that a
  report names a half at most once (`InfoOnce`); and that the first half of whatever
  has been read is registered, so that `createConfirm` does not pass over it
  (`Registered`).
- `ConfirmedInOrder` (`ConfirmOrder`) and `NoneMissing` (`NoMissingBroker1`) from one
  invariant, `ConfirmInv`: `Confirms` ties `RawTx2BrokerTx` to the phase of the
  transaction, `Handled` says what the report under tcpLock may contain, and
  `Measured` that a first half whose second half has been sent is measured, or is in
  the report under tcpLock. Without the lock the last part fails.
- `UsersKeepMoney` (`UserMoney`). Not inductive: a half whose sender cannot pay is
  skipped and confirmed all the same. `MoneyInv` adds that, in every shard's trie, an account has at
  least the initial balance less the worth of what it has sent in executed entries
  (`Solvent`); as each entry is executed once, `BrokerFunds` then pays for the
  next one. The step is an induction over the transactions of a block.

`ClpaPartition`, for every set of accounts and shards, any graph, any order of
visits and any ties (`ClpaPartitionProof`): `TypeCorrect`, `CountersAreExact`,
`MapsStayTogether`, and the action property `NeverEmptied`, all from
`PartitionAssumption` and the inductive `ClpaInv` (`Shape`, `Undirected`, `Quiet`,
`Counted`, `Placed`, `CountersExact`): the edge multiset is symmetric, the counters are those of a recount, the number of
vertices in each shard is the true one, and the three maps agree. The work is in
moving one vertex: the sums over all edges change by the edges of that vertex.

`ChainStore`, for every number of blocks, transactions, crashes and goroutines in
`AddBlock`, overlapping or not (`ChainStoreProof`): `TypeCorrect`, `RestartRecovers`
(`RecoverableInTurn`) and `MerkleProofsExact` (`ProofsExact`). `RecoverInv` says
which writes are done before each step of `AddBlock` as long as no two calls
overlapped, so that at every point where the process can die the newest hash on disk
names a complete block; `InTurnInv` is that with its condition. No assumption is made that calls do not overlap, since
pbftLock does not see to it: `overlapped` is part of the state and of the statement.

`SZHBFT`, for every number of shards, nodes and transactions, from `DataAssumption`,
`SzhbftAssumption` and, for money, `SzhbftFunds` (`SZHBFTProof`):

- `ConfirmJustified` (`ConfirmNeedsVotes`): a count made under the first lock may be
  too old when the second is taken, and the pool may have been deleted and filled
  again, but the count is never more than the nodes whose votes were handled
  (`VoteInv`).
- `TypeCorrect`. `TypeInv` adds where entries may be: a pool and an open block of
  shard s hold first halves of its senders, or second halves of transactions that
  cross (`Home`); relays carry such second halves only (`Crossing`); a shard that is
  not idle has a sequence number to use.
- `EveryTransactionAccounted` (`Accounted`). `Accounted` speaks of what has been
  sent and is not inductive; `Sound` adds that what has not been sent is nowhere.
  A proposal drops what GenerateSZBlock does not put into the local block: entries
  in `Home` but not `Inside` the shard, so never a payment inside one. A commit
  moves the block to a chain, and relays at most as many second halves as it
  records first halves: a message equal to one on its way is not counted again,
  so here, unlike in Relay, there is an inequality.
- `MoneyConserved` (`Conservation`). `MoneyInv` adds to `TypeInv` and `Sound` the
  balances' side: `BlockRoots`, that the root of a block which is not local is that
  of its execution on CurChain's state, which no step changes while the block is
  agreed on; and `Solvent`, as in Relay. A local block shows in no state root, but
  has no transaction that crosses, so nothing is owed for it. For the others the
  tries of all shards are joined into one table of balances, which a block changes
  as it does in Relay: the two proofs share the lemma `PayAll`, the induction over
  the transactions of a block. By `Sound` each half in a block is there once and new,
  and the first half of a second one has been recorded.

`ListTheorems` and `TransactionTheorems` have what these share. The induction theorems of the library take an
operator and cannot be used by the installed provers, but that a non-empty set has
a minimal element (`WFMin`) can: from it come induction over a set of numbers and
over the subsets of a finite set, the existence of what a recursive function
defines, and the laws of `SumFunctionOnSet`.

Model-checked only:

- liveness and termination, out of the prover's reach;

- the account transfer, whose properties hold for one epoch at a time (run
  `transfer_skip`), and the CLPA_Broker deployment.

## 5. Plan

1. Proofs: `OneOwner` of `AccountTransfer` for a single map; `ExactlyOnce` of
   `ClpaBroker`. Their lists and sums have to be written with the recursive functions
   of `Lists`, as those of `BrokerTx` are, since the provers know neither `SelectSeq`
   nor `FoldLeft`.
2. `PbftStage`: pbftStage, the condition variable and single deliveries; which
   early messages are lost, and when a round hangs ("so that a pre-arrival
   message will not be aborted", pbft.go:204).
3. `AccountTransfer` with more than one epoch: when the barrier hangs (two
   transfers with no block in between; an overtaken Relay message).

Not modelled: VRF, encoding and hashing (library calls), configuration, start-up
scripts, queries, logs, CSV output, rate limits and the connection pool (I/O),
latencies and rates among the measures (clock times), packing by bytes, and
the catch-up and view change of the modes other than Relay: they run the code
that `Pbft` models, with hooks of their own for the answers (a transfer among the
old requests in the CLPA modes; in SZHBFT old local blocks are offered to the
global chain).
