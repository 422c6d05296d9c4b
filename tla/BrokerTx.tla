------------------------------ MODULE BrokerTx ------------------------------
(***************************************************************************)
(* The Broker mode: a transaction between two shards is split in two, from *)
(* the sender to a broker and from the broker to the recipient.  The       *)
(* committee (supervisor/committee/committee_broker.go, broker/broker.go)  *)
(* sends the first half, and the second one once a leader has reported the *)
(* first (consensus_shard/pbft_all/pbftInside_moduleBroker.go,             *)
(* pbftOutside_moduleBroker.go).                                           *)
(*                                                                         *)
(* Two goroutines send transactions: the one that reads the dataset, and   *)
(* the one that handles a report, which holds tcpLock until its second     *)
(* halves are sent and its transactions are measured.                      *)
(*                                                                         *)
(* A shard is its leader.  Messages arrive in any order and none is lost.  *)
(***************************************************************************)
EXTENDS Lists, FiniteSetsExt, Functions

CONSTANTS
    Shard,
    Account,
    Addr2Shard,
    BrokerAddress,  \* accounts of the brokers
    TxList,         \* the dataset: [from, to, value]
    InitBalance,
    BlockSize,
    BatchSize,      \* batchDataNum
    TotalDataSize   \* dataTotalNum

TxID == DOMAIN TxList
Value(t) == TxList[t].value

ASSUME BrokerAssumption ==
    /\ IsFiniteSet(Shard) /\ IsFiniteSet(Account)
    /\ TxList \in Seq([from : Account, to : Account, value : Nat])
    /\ Addr2Shard \in [Account -> Shard]
    /\ BrokerAddress \in Seq(Account) /\ BrokerAddress # <<>>
    /\ InitBalance \in Nat
    /\ {BlockSize, BatchSize, TotalDataSize} \subseteq Nat \ {0}

\* params.Init_Balance pays for everything any account sends.
ASSUME BrokerFunds == InitBalance >= SumFunction([t \in TxID |-> Value(t)])

IsBroker(a) == a \in Range(BrokerAddress)

\* dealTxByBroker: what is split.
Split(t) ==
    /\ Addr2Shard[TxList[t].from] # Addr2Shard[TxList[t].to]
    /\ ~IsBroker(TxList[t].from) /\ ~IsBroker(TxList[t].to)

\* A transaction of the dataset, or a half of one: RawTxHash and which.
Entry == [raw : TxID, part : {"whole", "tx1", "tx2"}]
Part(t, p) == [raw |-> t, part |-> p]
Parts(ts, p) == [i \in DOMAIN ts |-> Part(ts[i], p)]

Sender(e) == IF e.part = "tx2" THEN BrokerAddress[1] ELSE TxList[e.raw].from
Recipient(e) == IF e.part = "tx1" THEN BrokerAddress[1] ELSE TxList[e.raw].to

\* Set for whole transactions only; the halves keep the default, FALSE.
HasBroker(e) == e.part = "whole" /\ (IsBroker(Sender(e)) \/ IsBroker(Recipient(e)))

VARIABLES
    txQueue, open, state, executed,     \* the shards, as in RelayShards
    injects, infos,                     \* messages on their way
    nowDataNum,             \* rows of the dataset read and dealt with
    sending,                \* what the reading goroutine has yet to send
    handling,               \* the report being handled: {} or {it}
    BrokerRawMegs,
    brokerConfirm1Pool, brokerConfirm2Pool,
    RawTx2BrokerTx,         \* confirmed halves of each transaction
    brokerTxMap,            \* transactions whose first half has been measured
    txNum                   \* measured transactions: normal, broker1, broker2

shardVars == <<txQueue, open, state, executed>>
brokerVars == <<BrokerRawMegs, brokerConfirm1Pool, brokerConfirm2Pool, RawTx2BrokerTx>>
measureVars == <<brokerTxMap, txNum>>
vars == <<shardVars, injects, infos, nowDataNum, sending, handling, brokerVars, measureVars>>

BlockInfoMsg == [inner : Seq(Entry), broker1 : Seq(Entry), broker2 : Seq(Entry)]

TypeOK ==
    /\ txQueue \in [Shard -> Seq(Entry)]
    /\ open \in [Shard -> SUBSET Seq(Entry)]
    /\ \A s \in Shard : Cardinality(open[s]) <= 1
    /\ state \in [Shard -> [Account -> Nat]]
    /\ executed \in [Entry -> Nat]
    /\ injects \subseteq [to : Shard, tx : Entry]
    /\ infos \subseteq BlockInfoMsg
    /\ nowDataNum \in 0 .. Len(TxList)
    /\ sending \in Seq(Entry)
    /\ handling \subseteq [info : BlockInfoMsg, tx2s : Seq(Entry), confirm2s : Seq(Entry)]
    /\ Cardinality(handling) <= 1
    /\ BrokerRawMegs \subseteq TxID
    /\ brokerConfirm1Pool \subseteq [raw : TxID, part : {"tx1"}]
    /\ brokerConfirm2Pool \subseteq [raw : TxID, part : {"tx2"}]
    /\ RawTx2BrokerTx \in [TxID -> Seq(Entry)]
    /\ brokerTxMap \subseteq TxID
    /\ txNum \in [{"normal", "broker1", "broker2"} -> Nat]

Init ==
    /\ txQueue = [s \in Shard |-> <<>>]
    /\ open = [s \in Shard |-> {}]
    /\ state = [s \in Shard |-> [a \in Account |-> InitBalance]]
    /\ executed = [e \in Entry |-> 0]
    /\ injects = {} /\ infos = {}
    /\ nowDataNum = 0
    /\ sending = <<>>
    /\ handling = {}
    /\ BrokerRawMegs = {}
    /\ brokerConfirm1Pool = {} /\ brokerConfirm2Pool = {}
    /\ RawTx2BrokerTx = [t \in TxID |-> <<>>]
    /\ brokerTxMap = {}
    /\ txNum = [c \in {"normal", "broker1", "broker2"} |-> 0]
-----------------------------------------------------------------------------
(* Reading the dataset. *)

\* Rows left over when the file ends before a batch is full are never sent.
NextBatch(k) ==
    LET end == Min({k + BatchSize, TotalDataSize})
    IN  IF end > Len(TxList) \/ end < k THEN k ELSE end

\* Mutant: a new pool for every batch.
RegisterOnlyNew(pool, es) == Range(es)

\* Confirmations to come are registered before their transactions are sent.
Register(pool, es) == pool \cup Range(es)

\* dealTxByBroker, handleBrokerRawMag and handleBrokerType1Mes of a batch, whose
\* first halves are sent before its whole transactions.
DealTxByBroker ==
    LET end == NextBatch(nowDataNum)
        rows == [i \in 1 .. end - nowDataNum |-> nowDataNum + i]
        split == Keep(rows, {t \in TxID : Split(t)})
        whole == Keep(rows, {t \in TxID : ~Split(t)})
        tx1s == Parts(split, "tx1")
    IN  /\ sending = <<>>
        /\ end > nowDataNum
        /\ nowDataNum' = end
        /\ BrokerRawMegs' = BrokerRawMegs \cup Range(split)
        /\ brokerConfirm1Pool' = Register(brokerConfirm1Pool, tx1s)
        /\ sending' = tx1s \o Parts(whole, "whole")
        /\ UNCHANGED <<shardVars, injects, infos, handling, brokerConfirm2Pool,
                       RawTx2BrokerTx, measureVars>>

\* Mutant: the sender's shard, also for a broker.
SenderShard(e) == Addr2Shard[Sender(e)]

\* A broker's transactions go to the shard of the recipient.
Destination(e) ==
    IF IsBroker(Sender(e)) THEN Addr2Shard[Recipient(e)] ELSE Addr2Shard[Sender(e)]

Inject(e) == injects' = injects \cup {[to |-> Destination(e), tx |-> e]}

\* txSending by the reading goroutine.
TxSending ==
    /\ sending # <<>>
    /\ Inject(Head(sending))
    /\ sending' = Tail(sending)
    /\ UNCHANGED <<shardVars, infos, nowDataNum, handling, brokerVars, measureVars>>
-----------------------------------------------------------------------------
(* The shards. *)

HandleInjectTx(m) ==
    /\ injects' = injects \ {m}
    /\ txQueue' = [txQueue EXCEPT ![m.to] = Append(@, m.tx)]
    /\ UNCHANGED <<open, state, executed, infos, nowDataNum, sending, handling, brokerVars,
                   measureVars>>

\* Empty blocks change nothing here and are left out.
Propose(s) ==
    LET n == Min({BlockSize, Len(txQueue[s])})
    IN  /\ open[s] = {}
        /\ n > 0
        /\ open' = [open EXCEPT ![s] = {SubSeq(txQueue[s], 1, n)}]
        /\ txQueue' = [txQueue EXCEPT ![s] = SubSeq(@, n + 1, Len(@))]
        /\ UNCHANGED <<state, executed, injects, infos, nowDataNum, sending, handling,
                       brokerVars, measureVars>>

\* GetUpdateStatusTrie on one transaction.
Execute(s, st, e) ==
    LET Local(a) == Addr2Shard[a] = s \/ HasBroker(e)
        v == Value(e.raw)
        debited == IF Local(Sender(e)) THEN [st EXCEPT ![Sender(e)] = @ - v] ELSE st
    IN  IF Local(Sender(e)) /\ st[Sender(e)] < v THEN st
        ELSE IF Local(Recipient(e)) THEN [debited EXCEPT ![Recipient(e)] = @ + v]
        ELSE debited

\* The balances of shard s after the transactions of a block, one by one.
GetUpdateStatusTrie(s, body) ==
    LET trie[i \in 0 .. Len(body)] ==
            IF i = 0 THEN state[s] ELSE Execute(s, trie[i - 1], body[i])
    IN  trie[Len(body)]

EntriesOf(p) == {e \in Entry : e.part = p}

BlockInfo(body) ==
    [inner |-> Keep(body, EntriesOf("whole")),
     broker1 |-> Keep(body, EntriesOf("tx1")),
     broker2 |-> Keep(body, EntriesOf("tx2"))]

HandleinCommit(s) ==
    /\ \E body \in open[s] :
        /\ state' = [state EXCEPT ![s] = GetUpdateStatusTrie(s, body)]
        /\ executed' = [e \in Entry |-> executed[e] + Occurrences(e, body)]
        /\ infos' = infos \cup {BlockInfo(body)}
    /\ open' = [open EXCEPT ![s] = {}]
    /\ UNCHANGED <<txQueue, injects, nowDataNum, sending, handling, brokerVars, measureVars>>
-----------------------------------------------------------------------------
(* Handling a report: HandleBlockInfo and the measures. *)

\* Mutant: the lock of the connection handlers is not taken.
TcpLockNotTaken == TRUE

\* handleClientRequest holds tcpLock while it handles a message.
TcpLockFree == handling = {}

\* Mutant: whatever is reported is taken for a confirmation.
ConfirmedAll(pool, txs) == txs

\* createConfirm: the reported transactions a pool has a confirmation for.
Confirmed(pool, txs) == Keep(txs, pool)

HalvesOf(t) == {e \in Entry : e.raw = t}

\* Mutant: the newest first.
RecordInFront(record, es) == [t \in TxID |-> Keep(es, HalvesOf(t)) \o record[t]]

\* Confirmed halves are noted under their transaction.
Record(record, es) == [t \in TxID |-> record[t] \o Keep(es, HalvesOf(t))]

\* HandleBlockInfo up to the end of handleTx1ConfirmMag: the second halves are
\* made and registered.
HandleBlockInfo(b) ==
    LET txs == b.broker1 \o b.broker2
        confirm1s == Keep(Confirmed(brokerConfirm1Pool, txs),
                          {e \in Entry : e.raw \in BrokerRawMegs})
        tx2s == [i \in DOMAIN confirm1s |-> Part(confirm1s[i].raw, "tx2")]
    IN  /\ TcpLockFree
        /\ infos' = infos \ {b}
        /\ RawTx2BrokerTx' = Record(RawTx2BrokerTx, confirm1s)
        /\ brokerConfirm2Pool' = Register(brokerConfirm2Pool, tx2s)
        /\ handling' = handling \cup
             {[info |-> b, tx2s |-> tx2s, confirm2s |-> Confirmed(brokerConfirm2Pool, txs)]}
        /\ UNCHANGED <<shardVars, injects, nowDataNum, sending, BrokerRawMegs,
                       brokerConfirm1Pool, measureVars>>

\* txSending by handleBrokerType2Mes.
TxSending2(h) ==
    /\ h.tx2s # <<>>
    /\ Inject(Head(h.tx2s))
    /\ handling' = (handling \ {h}) \cup {[h EXCEPT !.tx2s = Tail(@)]}
    /\ UNCHANGED <<shardVars, infos, nowDataNum, sending, brokerVars, measureVars>>

RawOf(txs) == {txs[i].raw : i \in DOMAIN txs}

\* The counters, and the table of first halves from which latencies are taken.
UpdateMeasureRecord(b) ==
    /\ txNum' = [normal |-> txNum.normal + Len(b.inner),
                 broker1 |-> txNum.broker1 + Len(b.broker1),
                 broker2 |-> txNum.broker2 + Len(b.broker2)]
    /\ brokerTxMap' = brokerTxMap \cup RawOf(b.broker1)

\* handleTx2ConfirmMag and the rest of handleBlockInfos.
HandleTx2ConfirmMag(h) ==
    /\ h.tx2s = <<>>
    /\ RawTx2BrokerTx' = Record(RawTx2BrokerTx, h.confirm2s)
    /\ UpdateMeasureRecord(h.info)
    /\ handling' = handling \ {h}
    /\ UNCHANGED <<shardVars, injects, infos, nowDataNum, sending, BrokerRawMegs,
                   brokerConfirm1Pool, brokerConfirm2Pool>>
-----------------------------------------------------------------------------
Next ==
    \/ DealTxByBroker \/ TxSending
    \/ \E m \in injects : HandleInjectTx(m)
    \/ \E s \in Shard : Propose(s) \/ HandleinCommit(s)
    \/ \E b \in infos : HandleBlockInfo(b)
    \/ \E h \in handling : TxSending2(h) \/ HandleTx2ConfirmMag(h)

\* Delivery, the block ticker, and plain sequential code.
Fairness ==
    /\ WF_vars(DealTxByBroker) /\ WF_vars(TxSending)
    /\ WF_vars(\E m \in injects : HandleInjectTx(m))
    /\ \A s \in Shard : WF_vars(Propose(s)) /\ WF_vars(HandleinCommit(s))
    /\ WF_vars(\E b \in infos : HandleBlockInfo(b))
    /\ WF_vars(\E h \in handling : TxSending2(h) \/ HandleTx2ConfirmMag(h))

Spec == Init /\ [][Next]_vars /\ Fairness
-----------------------------------------------------------------------------
\* How often an entry is in somebody's hands and not executed.
Pending(e) ==
    Cardinality({m \in injects : m.tx = e})
    + Occurrences(e, sending)
    + SumFunction([h \in handling |-> Occurrences(e, h.tx2s)])
    + SumFunction([s \in Shard |-> Occurrences(e, txQueue[s])])
    + SumFunction([s \in Shard |->
        SumFunction([body \in open[s] |-> Occurrences(e, body)])])

\* A first half whose report the committee has not looked at.
Unconfirmed(t) ==
    Cardinality({b \in infos : Part(t, "tx1") \in Range(b.broker1)})

\* A split transaction is in one place: its first half waits, or is executed and
\* its report waits, or its second half waits, or that is executed.  So the
\* second half comes once, whatever is reported in which order, and never before
\* the first (createConfirm, handleTx1ConfirmMag).
ExactlyOnce ==
    \A t \in 1 .. nowDataNum :
        IF Split(t)
        THEN Pending(Part(t, "tx1")) + Unconfirmed(t)
                + Pending(Part(t, "tx2")) + executed[Part(t, "tx2")] = 1
        ELSE Pending(Part(t, "whole")) + executed[Part(t, "whole")] = 1

User == {a \in Account : ~IsBroker(a)}
Balance(a) == state[Addr2Shard[a]][a]

\* What users gave to brokers, and got from them.
ToBroker == {e \in Entry : IsBroker(Recipient(e)) /\ ~IsBroker(Sender(e))}
FromBroker == {e \in Entry : IsBroker(Sender(e)) /\ ~IsBroker(Recipient(e))}

\* The values of the executed transactions among some.
Done(S) == SumFunction([e \in S |-> executed[e] * Value(e.raw)])

\* Users as a whole lose what they gave to brokers and gain what brokers gave
\* them, first and second halves included, and nothing else
\* (GetUpdateStatusTrie, txSending).
UserMoney ==
    SumFunction([a \in User |-> Balance(a)])
        = InitBalance * Cardinality(User) - Done(ToBroker) + Done(FromBroker)

\* RawTx2BrokerTx lists the first half, then the second, each once, as
\* handleTx2ConfirmMag assumes when it takes two entries for a finished one.
ConfirmOrder ==
    \A t \in TxID : RawTx2BrokerTx[t] \in
        {<<>>, <<Part(t, "tx1")>>, <<Part(t, "tx1"), Part(t, "tx2")>>}

\* When a second half is measured the first has been: "Missing a broker1 tx"
\* (measure_TCL_Broker.go) is never printed, since tcpLock is held from making
\* a second half until the first is measured.
NoMissingBroker1 ==
    \A h \in handling : RawOf(h.info.broker2) \subseteq brokerTxMap \cup RawOf(h.info.broker1)

\* In the end every row dealt with counts as one transaction, and every split one
\* has both halves confirmed (UpdateMeasureRecord, handleTx2ConfirmMag).
AllFinished ==
    <>[](/\ 2 * txNum.normal + txNum.broker1 + txNum.broker2 = 2 * nowDataNum
         /\ NextBatch(nowDataNum) = nowDataNum
         /\ \A t \in 1 .. nowDataNum : Split(t) => Len(RawTx2BrokerTx[t]) = 2)
=============================================================================
