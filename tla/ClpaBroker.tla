----------------------------- MODULE ClpaBroker -----------------------------
(***************************************************************************)
(* Moving accounts between shards in the Broker mode (CLPA_Broker:         *)
(* consensus_shard/pbft_all: pbftInside_modCLPABroker.go,                  *)
(* pbftOutside_modCLPABroker.go, accountTransfermod_Broker.go;             *)
(* supervisor/committee/committee_clpa_broker.go).                         *)
(*                                                                         *)
(* Blocks and transfers go as in module AccountTransfer, halves of split   *)
(* transactions as in module BrokerTx.  What is new: nothing is relayed,   *)
(* so shards tell each other their sequence numbers in messages of their   *)
(* own, and a transaction inside a shard may come to lie across two: its   *)
(* shard gives it back to the supervisor, who deals with it again.         *)
(*                                                                         *)
(* In the supervisor one goroutine reads the dataset and sends the maps,   *)
(* while others handle messages, one at a time (tcpLock).                  *)
(***************************************************************************)
EXTENDS Integers, Sequences, FiniteSets, SequencesExt

CONSTANTS
    Shard,
    Account,
    Addr2Shard,     \* where accounts start
    BrokerAddress,
    TxList,         \* the dataset: [from, to, value]
    Maps,           \* what CLPA_Partition returns, epoch by epoch
    InitBalance,
    BlockSize,
    MaxSeq          \* bound: sequence numbers of a shard

TxID == DOMAIN TxList
Value(t) == TxList[t].value
IsBroker(a) == a \in ToSet(BrokerAddress)

\* The graph has no edges of brokers (HandleBlockInfo), so they never move.
ModifiedMap == UNION {[A -> Shard] : A \in SUBSET {a \in Account : ~IsBroker(a)}}

ASSUME ClpaBrokerAssumption ==
    /\ TxList \in Seq([from : Account, to : Account, value : Nat])
    /\ Addr2Shard \in [Account -> Shard]
    /\ BrokerAddress \in Seq(Account) /\ BrokerAddress # <<>>
    /\ Maps \in Seq(ModifiedMap)
    /\ BlockSize \in Nat \ {0} /\ MaxSeq \in Nat

\* params.Init_Balance pays for everything any account sends.
ASSUME ClpaBrokerFunds == InitBalance >= MapThenSumSet(Value, TxID)

\* A transaction of the dataset, or a half of one.
Entry == [raw : TxID, part : {"whole", "tx1", "tx2"}]
Part(t, p) == [raw |-> t, part |-> p]

Sender(e) == IF e.part = "tx2" THEN BrokerAddress[1] ELSE TxList[e.raw].from
Recipient(e) == IF e.part = "tx1" THEN BrokerAddress[1] ELSE TxList[e.raw].to
HasBroker(e) == e.part = "whole" /\ (IsBroker(Sender(e)) \/ IsBroker(Recipient(e)))

VARIABLES
    txQueue, sequenceID,
    stage,          \* of Propose: "idle", "ready", "collect" or "agree"; "panic": ended
    request,        \* the request being agreed on, or panicked at: {} or {it}
    partitionMap, state, executed,      \* as in AccountTransfer
    seqIDMap,       \* the last SeqIDinfo from each shard; 0 if none
    cdm,            \* Data_supportCLPA of each leader
    injects, seqInfos, readies, transfers, mapMsgs, infos,  \* messages on their way,
    crossMsgs,      \* and the ones that give transactions back: InnerTx2CrossTx
    sent, mapsSent, curEpoch,
    committeeMap,   \* modifiedMap of the committee, with its default
    handling,       \* what a handler has yet to deal with and to send, in order
    BrokerRawMegs, brokerConfirm1Pool, brokerConfirm2Pool, RawTx2BrokerTx

chainVars == <<partitionMap, state, executed>>
shardVars == <<txQueue, sequenceID, stage, request, chainVars, seqIDMap, cdm>>
shardNet == <<seqInfos, readies, transfers, mapMsgs>>
brokerVars == <<BrokerRawMegs, brokerConfirm1Pool, brokerConfirm2Pool, RawTx2BrokerTx>>
committeeVars == <<sent, mapsSent, curEpoch, committeeMap, handling, brokerVars>>
vars == <<shardVars, injects, shardNet, infos, crossMsgs, committeeVars>>

NewCLPADataSupport ==
    [ModifiedMap |-> <<>>, AccountTransferRound |-> 0, PartitionOn |-> FALSE,
     PartitionReady |-> {}, ReadySeq |-> [s \in Shard |-> 0], CollectOver |-> FALSE,
     AccountStateTx |-> {}]

TypeOK ==
    /\ txQueue \in [Shard -> Seq(Entry)]
    /\ sequenceID \in [Shard -> 1 .. MaxSeq + 1]
    /\ stage \in [Shard -> {"idle", "ready", "collect", "agree", "panic"}]
    /\ \A s \in Shard : stage[s] # "panic" =>
            Cardinality(request[s]) = IF stage[s] = "agree" THEN 1 ELSE 0
    /\ partitionMap \in [Shard -> [Account -> Shard]]
    /\ state \in [Shard -> [Account -> Nat]]
    /\ executed \in [Entry -> Nat]
    /\ seqIDMap \in [Shard -> [Shard -> 0 .. MaxSeq]]
    /\ injects \subseteq [to : Shard, tx : Entry]
    /\ seqInfos \subseteq [from : Shard, to : Shard, seq : 1 .. MaxSeq]
    /\ \A m \in transfers : m.txs \in Seq(Entry) /\ DOMAIN m.states \subseteq Account
    /\ \A b \in infos : b.txs \in Seq(Entry) /\ b.epoch \in Nat
    /\ \A m \in crossMsgs : m.txs \in Seq([raw : TxID, part : {"whole"}])
    /\ sent \in 0 .. Len(TxList) /\ mapsSent \in 0 .. Len(Maps) /\ curEpoch \in Nat
    /\ committeeMap \in [Account -> Shard]
    /\ handling \in [deal : Seq(TxID), send : Seq(Entry)]
    /\ brokerConfirm1Pool \subseteq [raw : BrokerRawMegs, part : {"tx1"}]
    /\ brokerConfirm2Pool \subseteq [raw : BrokerRawMegs, part : {"tx2"}]
    /\ RawTx2BrokerTx \in [TxID -> Seq(Entry)]

Init ==
    /\ txQueue = [s \in Shard |-> <<>>]
    /\ sequenceID = [s \in Shard |-> 1]
    /\ stage = [s \in Shard |-> "idle"]
    /\ request = [s \in Shard |-> {}]
    /\ partitionMap = [s \in Shard |-> Addr2Shard]
    /\ state = [s \in Shard |-> [a \in Account |-> InitBalance]]
    /\ executed = [e \in Entry |-> 0]
    /\ seqIDMap = [s \in Shard |-> [t \in Shard |-> 0]]
    /\ cdm = [s \in Shard |-> NewCLPADataSupport]
    /\ injects = {} /\ seqInfos = {} /\ readies = {} /\ transfers = {} /\ mapMsgs = {}
    /\ infos = {} /\ crossMsgs = {}
    /\ sent = 0 /\ mapsSent = 0 /\ curEpoch = 0
    /\ committeeMap = Addr2Shard
    /\ handling = [deal |-> <<>>, send |-> <<>>]
    /\ BrokerRawMegs = {} /\ brokerConfirm1Pool = {} /\ brokerConfirm2Pool = {}
    /\ RawTx2BrokerTx = [t \in TxID |-> <<>>]
-----------------------------------------------------------------------------
(* The committee, committee_clpa_broker.go. *)

\* dealTxByBroker: what is split, by the map of this moment.
Split(t) ==
    /\ committeeMap[TxList[t].from] # committeeMap[TxList[t].to]
    /\ ~IsBroker(TxList[t].from) /\ ~IsBroker(TxList[t].to)

\* dealTxByBroker, handleBrokerRawMag and handleBrokerType1Mes of one
\* transaction: a split one is registered, as its first half will be.
Dealt(t) == Part(t, IF Split(t) THEN "tx1" ELSE "whole")

\* Mutant: the raw message is not kept.
RegisterDealtUnknown(t) ==
    /\ brokerConfirm1Pool' = brokerConfirm1Pool \cup {e \in {Dealt(t)} : e.part = "tx1"}
    /\ UNCHANGED BrokerRawMegs

RegisterDealt(t) ==
    /\ BrokerRawMegs' = BrokerRawMegs \cup {x \in {t} : Split(x)}
    /\ brokerConfirm1Pool' = brokerConfirm1Pool \cup {e \in {Dealt(t)} : e.part = "tx1"}

\* A broker's transactions go to the shard of the recipient.
Destination(e) == committeeMap[IF IsBroker(Sender(e)) THEN Recipient(e) ELSE Sender(e)]

\* txSending, for one transaction.
Inject(e) == injects' = injects \cup {[to |-> Destination(e), tx |-> e]}

\* MsgSendingControl waits after each map until some shard reports the epoch.
Waiting == curEpoch # mapsSent

\* The reading goroutine deals with a row and sends it.  The map cannot change in
\* between, as the same goroutine changes it.
DealAndSend ==
    /\ ~Waiting
    /\ sent < Len(TxList)
    /\ sent' = sent + 1
    /\ RegisterDealt(sent')
    /\ Inject(Dealt(sent'))
    /\ UNCHANGED <<shardVars, shardNet, infos, crossMsgs, mapsSent, curEpoch, committeeMap,
                   handling, brokerConfirm2Pool, RawTx2BrokerTx>>

\* The accounts of map f move; the others stay where map g has them.
Modified(g, f) == [a \in Account |-> IF a \in DOMAIN f THEN f[a] ELSE g[a]]

ClpaMapSend ==
    /\ ~Waiting
    /\ mapsSent < Len(Maps)
    /\ mapsSent' = mapsSent + 1
    /\ mapMsgs' = mapMsgs \cup [to : Shard, epoch : {mapsSent'}]
    /\ committeeMap' = Modified(committeeMap, Maps[mapsSent'])
    /\ UNCHANGED <<shardVars, injects, seqInfos, readies, transfers, infos, crossMsgs, sent,
                   curEpoch, handling, brokerVars>>

TcpLockFree == handling.deal = <<>> /\ handling.send = <<>>

Record(record, es) == [t \in TxID |-> record[t] \o SelectSeq(es, LAMBDA e : e.raw = t)]

\* HandleBlockInfo, createConfirm, handleTx1ConfirmMag, handleBrokerType2Mes and
\* handleTx2ConfirmMag; the second halves are still to be sent.
HandleBlockInfo(b) ==
    LET confirm1s == SelectSeq(b.txs, LAMBDA e : e \in brokerConfirm1Pool /\ e.raw \in BrokerRawMegs)
        confirm2s == SelectSeq(b.txs, LAMBDA e : e \in brokerConfirm2Pool)
        tx2s == [i \in DOMAIN confirm1s |-> Part(confirm1s[i].raw, "tx2")]
    IN  /\ TcpLockFree
        /\ infos' = infos \ {b}
        /\ curEpoch' = IF curEpoch = b.epoch - 1 THEN b.epoch ELSE curEpoch
        /\ RawTx2BrokerTx' = Record(RawTx2BrokerTx, confirm1s \o confirm2s)
        /\ brokerConfirm2Pool' = brokerConfirm2Pool \cup ToSet(tx2s)
        /\ handling' = [handling EXCEPT !.send = tx2s]
        /\ UNCHANGED <<shardVars, injects, shardNet, crossMsgs, sent, mapsSent, committeeMap,
                       BrokerRawMegs, brokerConfirm1Pool>>

\* HandleOtherMessage: transactions a shard has given back.
HandleOtherMessage(m) ==
    /\ TcpLockFree
    /\ crossMsgs' = crossMsgs \ {m}
    /\ handling' = [handling EXCEPT !.deal = [i \in DOMAIN m.txs |-> m.txs[i].raw]]
    /\ UNCHANGED <<shardVars, injects, shardNet, infos, sent, mapsSent, curEpoch, committeeMap,
                   brokerVars>>

\* ... each dealt with by the map of its moment, first halves to be sent first,
DealAgain ==
    LET t == Head(handling.deal)
        all == Append(handling.send, Dealt(t))
    IN  /\ handling.deal # <<>>
        /\ RegisterDealt(t)
        /\ handling' = [deal |-> Tail(handling.deal),
                        send |-> SelectSeq(all, LAMBDA e : e.part = "tx1")
                                 \o SelectSeq(all, LAMBDA e : e.part = "whole")]
        /\ UNCHANGED <<shardVars, injects, shardNet, infos, crossMsgs, sent, mapsSent, curEpoch,
                       committeeMap, brokerConfirm2Pool, RawTx2BrokerTx>>

\* ... and sent by the map of a later one.
TxSending ==
    /\ handling.deal = <<>> /\ handling.send # <<>>
    /\ Inject(Head(handling.send))
    /\ handling' = [handling EXCEPT !.send = Tail(@)]
    /\ UNCHANGED <<shardVars, shardNet, infos, crossMsgs, sent, mapsSent, curEpoch, committeeMap,
                   brokerVars>>
-----------------------------------------------------------------------------
(* Messages from outside the shard, pbftOutside_modCLPABroker.go. *)

Running(s) == stage[s] # "panic"

HandleSeqIDinfos(m) ==
    /\ Running(m.to)
    /\ seqInfos' = seqInfos \ {m}
    /\ seqIDMap' = [seqIDMap EXCEPT ![m.to][m.from] = m.seq]
    /\ UNCHANGED <<txQueue, sequenceID, stage, request, chainVars, cdm, injects, readies,
                   transfers, mapMsgs, infos, crossMsgs, committeeVars>>

HandleInjectTx(m) ==
    /\ Running(m.to)
    /\ injects' = injects \ {m}
    /\ txQueue' = [txQueue EXCEPT ![m.to] = Append(@, m.tx)]
    /\ UNCHANGED <<sequenceID, stage, request, chainVars, seqIDMap, cdm, shardNet, infos,
                   crossMsgs, committeeVars>>

HandlePartitionMsg(m) ==
    /\ Running(m.to)
    /\ mapMsgs' = mapMsgs \ {m}
    /\ cdm' = [cdm EXCEPT ![m.to].ModifiedMap = Append(@, Maps[m.epoch]),
                          ![m.to].PartitionOn = TRUE]
    /\ UNCHANGED <<txQueue, sequenceID, stage, request, chainVars, seqIDMap, injects, seqInfos,
                   readies, transfers, infos, crossMsgs, committeeVars>>

HandlePartitionReady(m) ==
    /\ Running(m.to)
    /\ readies' = readies \ {m}
    /\ cdm' = [cdm EXCEPT ![m.to].PartitionReady = @ \cup {m.from},
                          ![m.to].ReadySeq[m.from] = m.seq]
    /\ UNCHANGED <<txQueue, sequenceID, stage, request, chainVars, seqIDMap, injects, seqInfos,
                   transfers, mapMsgs, infos, crossMsgs, committeeVars>>

\* AccountStateTx holds the last message of each shard.
HandleAccountStateAndTxMsg(m) ==
    LET got == {x \in cdm[m.to].AccountStateTx : x.from # m.from} \cup {m}
    IN  /\ Running(m.to)
        /\ transfers' = transfers \ {m}
        /\ cdm' = [cdm EXCEPT ![m.to].AccountStateTx = got,
                              ![m.to].CollectOver =
                                  @ \/ Cardinality(got) = Cardinality(Shard) - 1]
        /\ UNCHANGED <<txQueue, sequenceID, stage, request, chainVars, seqIDMap, injects,
                       seqInfos, readies, mapMsgs, infos, crossMsgs, committeeVars>>
-----------------------------------------------------------------------------
(* Blocks, pbftInside_modCLPABroker.go. *)

ProposeBlock(s) ==
    LET n == Min({BlockSize, Len(txQueue[s])})
    IN  /\ stage[s] = "idle"
        /\ ~cdm[s].PartitionOn
        /\ sequenceID[s] <= MaxSeq
        /\ request' = [request EXCEPT ![s] =
                         {[type |-> "Block", body |-> SubSeq(txQueue[s], 1, n)]}]
        /\ txQueue' = [txQueue EXCEPT ![s] = SubSeq(@, n + 1, Len(@))]
        /\ stage' = [stage EXCEPT ![s] = "agree"]
        /\ UNCHANGED <<sequenceID, chainVars, seqIDMap, cdm, injects, shardNet, infos, crossMsgs,
                       committeeVars>>

Mine(s, a) == partitionMap[s][a] = s

\* GetUpdateStatusTrie on one transaction.
Execute(s, st, e) ==
    LET Local(a) == Mine(s, a) \/ HasBroker(e)
        v == Value(e.raw)
        debited == IF Local(Sender(e)) THEN [st EXCEPT ![Sender(e)] = @ - v] ELSE st
    IN  IF Local(Sender(e)) /\ st[Sender(e)] < v THEN st
        ELSE IF Local(Recipient(e)) THEN [debited EXCEPT ![Recipient(e)] = @ + v]
        ELSE debited

\* The accounts an entry needs in its shard; HandleinCommit panics without them:
\* "Err tx1", "Err tx2", "err tx 1", "err tx - without broker".
Needs(e) ==
    CASE e.part = "tx1" -> {Sender(e)}
      [] e.part = "tx2" -> {Recipient(e)}
      [] HasBroker(e) -> {IF IsBroker(Sender(e)) THEN Recipient(e) ELSE Sender(e)}
      [] OTHER -> {Sender(e), Recipient(e)}

Occurrences(e, txs) == Cardinality({i \in DOMAIN txs : txs[i] = e})

\* HandleBlockInfo does nothing with the report of an empty block of epoch 0.
BlockInfo(s, body) ==
    IF body = <<>> /\ cdm[s].AccountTransferRound = 0 THEN {}
    ELSE {[from |-> s, seq |-> sequenceID[s], txs |-> body,
           epoch |-> cdm[s].AccountTransferRound]}

CorrectTx(s, e) == \A a \in Needs(e) : Mine(s, a)

\* Every node executes and stores the block before its leader looks at it.
AddBlock(s, body) ==
    /\ state' = [state EXCEPT ![s] = FoldLeft(LAMBDA st, e : Execute(s, st, e), @, body)]
    /\ executed' = [e \in Entry |-> executed[e] + Occurrences(e, body)]

CommitBlock(s) ==
    /\ stage[s] = "agree"
    /\ \E r \in request[s] :
        /\ r.type = "Block"
        /\ AddBlock(s, r.body)
        /\ \A i \in DOMAIN r.body : CorrectTx(s, r.body[i])
        /\ infos' = infos \cup BlockInfo(s, r.body)
    /\ seqInfos' = seqInfos \cup [from : {s}, to : Shard \ {s}, seq : {sequenceID[s]}]
    /\ request' = [request EXCEPT ![s] = {}]
    /\ stage' = [stage EXCEPT ![s] = "idle"]
    /\ sequenceID' = [sequenceID EXCEPT ![s] = @ + 1]
    /\ UNCHANGED <<txQueue, partitionMap, seqIDMap, cdm, injects, readies, transfers, mapMsgs,
                   crossMsgs, committeeVars>>

\* ... that holds an incorrect transaction: the block stands, and the leader ends
\* before it reports anything of it.
PanicBlock(s) ==
    /\ stage[s] = "agree"
    /\ \E r \in request[s] :
        /\ r.type = "Block"
        /\ AddBlock(s, r.body)
        /\ \E i \in DOMAIN r.body : ~CorrectTx(s, r.body[i])
    /\ stage' = [stage EXCEPT ![s] = "panic"]
    /\ UNCHANGED <<txQueue, sequenceID, request, partitionMap, seqIDMap, cdm, injects, shardNet,
                   infos, crossMsgs, committeeVars>>
-----------------------------------------------------------------------------
(* The transfer, accountTransfermod_Broker.go. *)

SendPartitionReady(s) ==
    /\ stage[s] = "idle"
    /\ cdm[s].PartitionOn
    /\ sequenceID[s] <= MaxSeq
    /\ cdm' = [cdm EXCEPT ![s].PartitionReady = @ \cup {s}]
    /\ readies' = readies \cup [from : {s}, to : Shard \ {s}, seq : {sequenceID[s]}]
    /\ stage' = [stage EXCEPT ![s] = "ready"]
    /\ UNCHANGED <<txQueue, sequenceID, request, chainVars, seqIDMap, injects, seqInfos,
                   transfers, mapMsgs, infos, crossMsgs, committeeVars>>

GetPartitionReady(s) ==
    /\ cdm[s].PartitionReady = Shard
    /\ \A d \in Shard : seqIDMap[s][d] # 0 => cdm[s].ReadySeq[d] - 1 = seqIDMap[s][d]

LastMap(s) == cdm[s].ModifiedMap[Len(cdm[s].ModifiedMap)]

\* The accounts that leave shard s for shard d, and all that leave.
AccountsTo(s, d) == {a \in DOMAIN LastMap(s) : Mine(s, a) /\ d # s /\ LastMap(s)[a] = d}
Leaving(s) == UNION {AccountsTo(s, d) : d \in Shard}

\* Whole transactions without a broker have both ends in the shard: when one of
\* them leaves the transaction is given back.
BeCross(s, e) == e.part = "whole" /\ ~HasBroker(e) /\ Needs(e) \cap Leaving(s) # {}

\* Others follow the account they need.
Follows(A, e) ==
    /\ e.part # "whole" \/ HasBroker(e)
    /\ Needs(e) \cap A # {}

\* Mutant: what is given back stays in the pool as well.
RemainingKeeps(s, q) == SelectSeq(q, LAMBDA e : ~Follows(Leaving(s), e))

\* What remains in the pool.
Remaining(s, q) == SelectSeq(q, LAMBDA e : ~Follows(Leaving(s), e) /\ ~BeCross(s, e))

\* An empty InnerTx2CrossTx message changes nothing and is left out.
SendAccountsAndTxs(s) ==
    LET txsBeCross == SelectSeq(txQueue[s], LAMBDA e : BeCross(s, e))
    IN  /\ stage[s] = "ready"
        /\ GetPartitionReady(s)
        /\ transfers' = transfers \cup
             {[from |-> s, to |-> d, seq |-> sequenceID[s],
               states |-> [a \in AccountsTo(s, d) |-> state[s][a]],
               txs |-> SelectSeq(txQueue[s], LAMBDA e : Follows(AccountsTo(s, d), e))] :
                 d \in Shard \ {s}}
        /\ txQueue' = [txQueue EXCEPT ![s] = Remaining(s, @)]
        /\ crossMsgs' = IF txsBeCross = <<>> THEN crossMsgs
                        ELSE crossMsgs \cup {[from |-> s, txs |-> txsBeCross]}
        /\ stage' = [stage EXCEPT ![s] = "collect"]
        /\ UNCHANGED <<sequenceID, request, chainVars, seqIDMap, cdm, injects, seqInfos, readies,
                       mapMsgs, infos, committeeVars>>

\* The map of the current round; reading past the end panics.
RoundMap(s) == cdm[s].ModifiedMap[cdm[s].AccountTransferRound + 1]

ProposePartition(s) ==
    /\ stage[s] = "collect"
    /\ cdm[s].CollectOver
    /\ txQueue' = [txQueue EXCEPT ![s] =
         @ \o FoldSet(LAMBDA m, q : q \o m.txs, <<>>, cdm[s].AccountStateTx)]
    /\ IF cdm[s].AccountTransferRound < Len(cdm[s].ModifiedMap)
       THEN /\ request' = [request EXCEPT ![s] =
                 {[type |-> "Partition", map |-> RoundMap(s), ATid |-> Len(cdm[s].ModifiedMap),
                   states |-> FoldSet(LAMBDA m, f : m.states @@ f, <<>>, cdm[s].AccountStateTx)]}]
            /\ stage' = [stage EXCEPT ![s] = "agree"]
       ELSE /\ stage' = [stage EXCEPT ![s] = "panic"]
            /\ UNCHANGED request
    /\ UNCHANGED <<sequenceID, chainVars, seqIDMap, cdm, injects, shardNet, infos, crossMsgs,
                   committeeVars>>

\* Mutant: received states are dropped.
AddAccountsNothing(s, map, states) == state[s]

\* Received states replace those of accounts that are this shard's from now on.
AddAccounts(s, map, states) ==
    [a \in Account |-> IF a \in DOMAIN states /\ Modified(partitionMap[s], map)[a] = s
                       THEN states[a] ELSE state[s][a]]

AccountTransferDo(s) ==
    /\ stage[s] = "agree"
    /\ \E r \in request[s] :
        /\ r.type = "Partition"
        /\ partitionMap' = [partitionMap EXCEPT ![s] = Modified(@, r.map)]
        /\ state' = [state EXCEPT ![s] = AddAccounts(s, r.map, r.states)]
        /\ cdm' = [cdm EXCEPT ![s] =
             [@ EXCEPT !.ModifiedMap = IF Len(@) = r.ATid THEN @ ELSE Append(@, r.map),
                       !.AccountTransferRound = r.ATid,
                       !.AccountStateTx = {},
                       !.PartitionOn = FALSE,
                       !.CollectOver = FALSE,
                       !.PartitionReady = {}]]
    /\ request' = [request EXCEPT ![s] = {}]
    /\ stage' = [stage EXCEPT ![s] = "idle"]
    /\ sequenceID' = [sequenceID EXCEPT ![s] = @ + 1]
    /\ UNCHANGED <<txQueue, executed, seqIDMap, injects, shardNet, infos, crossMsgs,
                   committeeVars>>
-----------------------------------------------------------------------------
Next ==
    \/ DealAndSend \/ ClpaMapSend \/ DealAgain \/ TxSending
    \/ \E b \in infos : HandleBlockInfo(b)
    \/ \E m \in crossMsgs : HandleOtherMessage(m)
    \/ \E m \in seqInfos : HandleSeqIDinfos(m)
    \/ \E m \in injects : HandleInjectTx(m)
    \/ \E m \in mapMsgs : HandlePartitionMsg(m)
    \/ \E m \in readies : HandlePartitionReady(m)
    \/ \E m \in transfers : HandleAccountStateAndTxMsg(m)
    \/ \E s \in Shard :
        \/ ProposeBlock(s) \/ CommitBlock(s) \/ PanicBlock(s)
        \/ SendPartitionReady(s) \/ SendAccountsAndTxs(s)
        \/ ProposePartition(s) \/ AccountTransferDo(s)

Spec == Init /\ [][Next]_vars
-----------------------------------------------------------------------------
Installing(s) == \E r \in request[s] : r.type = "Partition"

\* A shard that panicked in proposePartition.
PanickedCollecting(s) == stage[s] = "panic" /\ request[s] = {}

\* Account states and transactions that a shard has collected and not installed.
Collected(s) == cdm[s].AccountStateTx

\* The bodies of the block a shard is agreeing on, and of the one it panicked at.
Agreeing(s) == {r.body : r \in {x \in request[s] : x.type = "Block" /\ stage[s] = "agree"}}
Fatal(s) == {r.body : r \in {x \in request[s] : stage[s] = "panic"}}

\* How often an entry is in the transactions of some messages or blocks.
In(e, bodies) == MapThenSumSet(LAMBDA txs : Occurrences(e, txs), bodies)

Pending(e) ==
    Cardinality({m \in injects : m.tx = e})
    + MapThenSumSet(LAMBDA m : Occurrences(e, m.txs), transfers)
    + MapThenSumSet(LAMBDA m : Occurrences(e, m.txs), crossMsgs)
    + Occurrences(e, handling.send)
    + (IF e.part = "whole" THEN Occurrences(e.raw, handling.deal) ELSE 0)
    + MapThenSumSet(LAMBDA s :
          Occurrences(e, txQueue[s]) + In(e, Agreeing(s))
          + (IF Installing(s) \/ PanickedCollecting(s) THEN 0
             ELSE MapThenSumSet(LAMBDA m : Occurrences(e, m.txs), Collected(s))), Shard)

\* A first half that is executed and whose report is still to be handled, or that
\* is in the block at which a leader panicked and so is never reported.
Unconfirmed(t) == Cardinality({b \in infos : Part(t, "tx1") \in ToSet(b.txs)})
Unreported(t) == MapThenSumSet(LAMBDA s : In(Part(t, "tx1"), Fatal(s)), Shard)

\* Every transaction sent is in one place and one form: whole, or as its first
\* half, or as its second; waiting, given back, on its way with an account, or in
\* a block.  So changing shards neither loses a payment nor makes it twice, once
\* whole and once split (sendAccounts_and_Txs, HandleOtherMessage).  A payment ends
\* between its halves only if the block of its first half makes the leader panic.
ExactlyOnce ==
    \A t \in 1 .. sent :
        Pending(Part(t, "whole")) + executed[Part(t, "whole")]
        + Pending(Part(t, "tx1")) + Unconfirmed(t) + Unreported(t)
        + Pending(Part(t, "tx2")) + executed[Part(t, "tx2")] = 1

\* The account states of the epoch are sent and its map is not installed.
BetweenMaps(s) == stage[s] = "collect" \/ Installing(s) \/ PanickedCollecting(s)

Owners(a) ==
    {s \in Shard : Mine(s, a) /\ ~(BetweenMaps(s) /\ a \in Leaving(s))}

Moving == {m.states : m \in transfers \cup UNION {Collected(s) : s \in Shard}}

Balance(a) ==
    IF Owners(a) # {} THEN state[CHOOSE s \in Owners(a) : TRUE][a]
    ELSE (CHOOSE f \in Moving : a \in DOMAIN f)[a]

User == {a \in Account : ~IsBroker(a)}

\* The values of the executed transactions for which P holds.
Done(P(_)) == MapThenSumSet(LAMBDA e : executed[e] * Value(e.raw), {e \in Entry : P(e)})

\* Of those in blocks at which leaders panicked: the ones that miss a user's
\* account in the shard, where nothing is taken from it or given to it.
Missed(user(_)) ==
    MapThenSumSet(LAMBDA s :
        MapThenSumSet(LAMBDA txs :
            MapThenSumSet(LAMBDA i : Value(txs[i].raw),
                {i \in DOMAIN txs : user(txs[i]) \in User /\ ~Mine(s, user(txs[i]))}),
            Fatal(s)), Shard)

\* Wherever their accounts are, users as a whole lose what they gave to brokers
\* and gain what brokers gave them, and nothing else: no half is executed where
\* its account is not, and no balance is left behind (FetchAccounts, AddAccounts,
\* GetUpdateStatusTrie), but in the last block of a leader that panics ("Err tx1"
\* to "err tx - without broker"), and there exactly by the accounts that had moved.
UserMoney ==
    /\ \A a \in Account : Cardinality(Owners(a)) <= 1
    /\ MapThenSumSet(Balance, User)
        = InitBalance * Cardinality(User)
          - Done(LAMBDA e : IsBroker(Recipient(e)) /\ ~IsBroker(Sender(e))) + Missed(Sender)
          + Done(LAMBDA e : IsBroker(Sender(e)) /\ ~IsBroker(Recipient(e))) - Missed(Recipient)
=============================================================================
