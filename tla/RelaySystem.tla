---------------------------- MODULE RelaySystem ----------------------------
(***************************************************************************)
(* A whole Relay deployment: the shards of module RelayShards and the      *)
(* supervisor, which reads the dataset and injects its transactions        *)
(* (supervisor/committee/committee_relay.go), receives what the leaders    *)
(* executed (supervisor.go, measure/), and stops every node once enough    *)
(* empty blocks came in a row (signal/supervisorStopModule.go).            *)
(***************************************************************************)
EXTENDS RelayShards

CONSTANTS
    BatchSize,       \* params.TxBatchSize
    TotalDataSize,   \* params.TotalDataSize
    InjectSpeed

ASSUME SupervisorAssumption ==
    {BatchSize, TotalDataSize, InjectSpeed} \subseteq Nat \ {0}

VARIABLES
    phase,      \* "sending", "waiting", "stopping", "closed"
    sent,       \* how many rows of TxList have been sent
    batch,      \* where the batch being sent ends
    stopGap,
    measured    \* how many normal, relay1 and relay2 transactions were reported

superVars == <<phase, sent, batch, stopGap, measured>>
vars == <<shardVars, netVars, superVars>>

stopThreshold == 3 * Cardinality(Shard)

TypeOK ==
    /\ ShardTypeOK
    /\ phase \in {"sending", "waiting", "stopping", "closed"}
    /\ sent \in 0 .. Len(TxList)
    /\ batch \in sent .. Len(TxList)
    /\ stopGap \in 0 .. stopThreshold
    /\ measured \in [{"normal", "relay1", "relay2"} -> Nat]

\* MsgSendingControl reads on until the batch or the dataset is full; rows
\* left over when the file ends before that are never sent.
NextBatch(k) ==
    LET end == Min({k + BatchSize, TotalDataSize})
    IN  IF end > Len(TxList) THEN k ELSE end

Init ==
    /\ ShardInit
    /\ sent = 0
    /\ batch = NextBatch(0)
    /\ phase = IF batch = 0 THEN "waiting" ELSE "sending"
    /\ stopGap = 0
    /\ measured = [c \in {"normal", "relay1", "relay2"} |-> 0]
-----------------------------------------------------------------------------
\* Transactions sorted by the shard of their sender.
SentFrom(s) == {e \in Entry : PartitionMap[Sender(e.tx)] = s}
InjectMsgs(txs) ==
    {[to |-> s, txs |-> Keep(txs, SentFrom(s))] :
        s \in {s \in Shard : Keep(txs, SentFrom(s)) # <<>>}}

\* One second's transactions, to the leader of each sender's shard.
TxSending ==
    /\ phase = "sending"
    /\ sent < batch
    /\ sent' = Min({sent + InjectSpeed, batch})
    /\ LET txs == [i \in 1 .. sent' - sent |-> [tx |-> sent + i, relayed |-> FALSE]]
       IN  injects' = injects \cup InjectMsgs(txs)
    /\ UNCHANGED <<shardVars, relays, infos, emptyInfos, stops, phase, batch, stopGap, measured>>

\* The batch is out: StopGap_Reset, then the next batch or the end of the data.
BatchSent ==
    /\ phase = "sending"
    /\ sent = batch
    /\ stopGap' = 0
    /\ batch' = NextBatch(sent)
    /\ phase' = IF batch' = sent THEN "waiting" ELSE "sending"
    /\ UNCHANGED <<shardVars, netVars, sent, measured>>

Listening == phase # "closed"

\* Mutant: the counter also starts again on an empty block.
StopGapRestarts == 0

\* Only whether the threshold is reached matters: the count stays there.
StopGap_Inc == Min({stopGap + 1, stopThreshold})

\* handleBlockInfos of an empty block, which the measures ignore.
HandleEmptyBlockInfo(s) ==
    /\ Listening
    /\ emptyInfos[s] > 0
    /\ emptyInfos' = [emptyInfos EXCEPT ![s] = @ - 1]
    /\ stopGap' = StopGap_Inc
    /\ UNCHANGED <<shardVars, injects, relays, infos, stops, phase, sent, batch, measured>>

\* The transaction counters of the Relay measures.
UpdateMeasureRecord(b) ==
    [measured EXCEPT !["normal"] = @ + Len(b.inner),
                     !["relay1"] = @ + Len(b.relay1),
                     !["relay2"] = @ + Len(b.relay2)]

\* handleBlockInfos of a block with transactions: StopGap_Reset and the measures.
HandleBlockInfo(b) ==
    /\ Listening
    /\ infos' = infos \ {b}
    /\ stopGap' = 0
    /\ measured' = UpdateMeasureRecord(b)
    /\ UNCHANGED <<shardVars, injects, relays, emptyInfos, stops, phase, sent, batch>>

GapEnough == stopGap >= stopThreshold

SendStop ==
    /\ phase = "waiting"
    /\ GapEnough
    /\ stops' = Shard
    /\ phase' = "stopping"
    /\ UNCHANGED <<shardVars, injects, relays, infos, emptyInfos, sent, batch, stopGap, measured>>

CloseSupervisor ==
    /\ phase = "stopping"
    /\ phase' = "closed"
    /\ UNCHANGED <<shardVars, netVars, sent, batch, stopGap, measured>>

SupervisorNext ==
    \/ TxSending
    \/ BatchSent
    \/ \E s \in Shard : HandleEmptyBlockInfo(s)
    \/ \E b \in infos : HandleBlockInfo(b)
    \/ SendStop
    \/ CloseSupervisor

Next ==
    \/ ShardNext /\ UNCHANGED superVars
    \/ SupervisorNext

\* The block ticker and scheduler of every leader; the injection loop and its
\* sleeps; TCP, which delivers each message in the end.  When SendStop comes is
\* left open, so that what the shards do without it can be told.
Fairness ==
    /\ \A s \in Shard : WF_vars(Propose(s) /\ UNCHANGED superVars)
    /\ \A s \in Shard : WF_vars(HandleinCommit(s) /\ UNCHANGED superVars)
    /\ \A s \in Shard : WF_vars(WaitToStop(s) /\ UNCHANGED superVars)
    /\ WF_vars((\E m \in injects : HandleInjectTx(m)) /\ UNCHANGED superVars)
    /\ WF_vars((\E m \in relays : HandleRelay(m)) /\ UNCHANGED superVars)
    /\ WF_vars(TxSending) /\ WF_vars(BatchSent)
    /\ WF_vars(CloseSupervisor)
    /\ \A s \in Shard : WF_vars(HandleEmptyBlockInfo(s))
    /\ WF_vars(\E b \in infos : HandleBlockInfo(b))

Spec == Init /\ [][Next]_vars /\ Fairness
-----------------------------------------------------------------------------
\* How often an entry waits: in a message, a pool or a block being agreed on.
Pending(e) ==
    SumFunction([m \in injects \cup relays |-> Occurrences(e, m.txs)])
    + SumFunction([s \in Shard |-> Occurrences(e, txQueue[s])])
    + SumFunction([s \in Shard |->
        SumFunction([body \in open[s] |-> Occurrences(e, body)])])

\* How often it has been executed.
Executed(e) == SumFunction([s \in Shard |-> ledger[s][e]])

\* Every transaction that was sent is executed once or waits in exactly one
\* place, and a cross-shard transaction's second half exists, once, from the
\* moment its first half is committed (HandleinCommit, RelayMsgSend).
ExactlyOnce ==
    \A t \in TxID :
        /\ Pending(First(t)) + Executed(First(t)) = IF t <= sent THEN 1 ELSE 0
        /\ Pending(Second(t)) + Executed(Second(t))
              = IF CrossShard(t) THEN Executed(First(t)) ELSE 0

\* No leader commits a block with a transaction of another shard: the two
\* log.Panic("incorrect tx") of HandleinCommit are never reached.
NoIncorrectTx ==
    \A s \in Shard : \A body \in open[s] : \A i \in DOMAIN body : CorrectTx(s, body[i])

HalfDone(t) == Executed(First(t)) > Executed(Second(t)) /\ CrossShard(t)

\* Relaying neither creates nor destroys money: the balances of all shards and
\* the transfers debited but not yet credited always make up what was there at
\* the start (GetUpdateStatusTrie on both sides).
Conservation ==
    SumFunction(balance)
    + SumFunction([t \in {t \in TxID : HalfDone(t)} |-> Value(t)])
    = InitBalance * Cardinality(Account)

Class == [normal |-> {First(t) : t \in {t \in TxID : ~CrossShard(t)}},
          relay1 |-> {First(t) : t \in {t \in TxID : CrossShard(t)}},
          relay2 |-> {Second(t) : t \in TxID}]
Reported(b) == [normal |-> Len(b.inner), relay1 |-> Len(b.relay1), relay2 |-> Len(b.relay2)]

\* What the supervisor has counted, plus what is on its way to it, is what the
\* shards executed, class by class: no block is reported twice or misfiled.
CountsMatch ==
    \A c \in {"normal", "relay1", "relay2"} :
        measured[c] + SumFunction([b \in infos |-> Reported(b)[c]])
            = SumFunction([e \in Class[c] |-> Executed(e)])

Finished(t) == Executed(IF CrossShard(t) THEN Second(t) ELSE First(t)) = 1

\* Unless the supervisor ends the run first, every transaction it sends is
\* executed to the end, in both shards if it crosses: none starves in a pool,
\* a message or a relay (PackTxs, RelayMsgSend, handleRelay).
SentIsFinished == \A t \in TxID : (t <= sent) ~> (Finished(t) \/ phase \in {"stopping", "closed"})

\* Every run ends: as SupervisorTxHandling goes on polling GapEnough, the empty
\* blocks of idle shards reach the threshold, the supervisor closes and all
\* shards stop.
Termination == WF_vars(SendStop) => <>(phase = "closed" /\ stopped = Shard)

\* The supervisor stops the nodes only once all transactions it sent are
\* handled: "wait all txs to be handled" (supervisor.go, SupervisorTxHandling).
StopAfterAll ==
    phase \in {"stopping", "closed"} => \A t \in TxID : t <= sent => Finished(t)
=============================================================================
