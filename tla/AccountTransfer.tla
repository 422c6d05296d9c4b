-------------------------- MODULE AccountTransfer --------------------------
(***************************************************************************)
(* Moving accounts between shards while transactions are relayed: the CLPA *)
(* mode (consensus_shard/pbft_all: pbftInside_moduleCLPA.go,               *)
(* pbftOutside_moduleCLPA.go, accountTransfer_module.go,                   *)
(* dataSupport/clpaData_Extra.go; supervisor/committee/committee_clpa.go;  *)
(* AddAccounts and FetchAccounts of chain/blockchain.go).                  *)
(*                                                                         *)
(* The committee sends every leader a map of accounts that move.  A leader *)
(* then announces the end of its last round, waits for the announcements   *)
(* of all shards, sends the states and pooled transactions of the accounts *)
(* that leave, waits for those that come, and has its shard agree on them. *)
(*                                                                         *)
(* A shard is its leader, as in module RelayShards.  A leader that panics  *)
(* is gone: its process ends, and messages to it wait for ever.  TcpDial   *)
(* delays each message by its own random time, so messages overtake each   *)
(* other; none is lost.                                                    *)
(***************************************************************************)
EXTENDS Integers, Sequences, FiniteSets, SequencesExt

CONSTANTS
    Shard,
    Shard0,         \* the shard with ID 0, which an absent entry of a Go map names
    Account,
    Addr2Shard,     \* where accounts start
    TxList,         \* the dataset: [from, to, value]
    Maps,           \* what CLPA_Partition returns, epoch by epoch
    InitBalance,
    BlockSize,
    MaxSeq          \* bound: sequence numbers of a shard

TxID == DOMAIN TxList
Sender(t) == TxList[t].from
Recipient(t) == TxList[t].to
Value(t) == TxList[t].value

\* A modified map names some accounts and their new shards.
ModifiedMap == UNION {[A -> Shard] : A \in SUBSET Account}

ASSUME ClpaAssumption ==
    /\ TxList \in Seq([from : Account, to : Account, value : Nat])
    /\ Shard0 \in Shard
    /\ Addr2Shard \in [Account -> Shard]
    /\ Maps \in Seq(ModifiedMap)
    /\ BlockSize \in Nat \ {0}
    /\ MaxSeq \in Nat

\* Every sender can pay for all it sends (params.Init_Balance).
ASSUME ClpaFunds ==
    \A a \in Account : InitBalance >= MapThenSumSet(Value, {t \in TxID : Sender(t) = a})

Entry == [tx : TxID, relayed : BOOLEAN]

VARIABLES
    txQueue, sequenceID,
    stage,          \* of Propose: "idle", "ready", "collect" or "agree"; "panic": ended
    request,        \* the request being agreed on, or panicked at: {} or {it}
    partitionMap,   \* PartitionMap of each shard's chain, with its default
    state,          \* the state trie of each shard
    seqIDMap,       \* sequence of the last Relay message from each shard; 0 if none
    cdm,            \* Data_supportCLPA of each leader
    executed,       \* how often each entry was committed
    injects, relays, readies, transfers, mapMsgs, infos,   \* messages on their way
    sent,           \* transactions the committee has sent
    mapsSent, curEpoch,
    committeeMap    \* modifiedMap of the committee, with its default

chainVars == <<partitionMap, state, executed>>
netVars == <<injects, relays, readies, transfers, mapMsgs, infos>>
committeeVars == <<sent, mapsSent, curEpoch, committeeMap>>
vars == <<txQueue, sequenceID, stage, request, chainVars, seqIDMap, cdm, netVars,
          committeeVars>>

Data_supportCLPA ==
    [ModifiedMap : Seq(ModifiedMap), AccountTransferRound : Nat, PartitionOn : BOOLEAN,
     PartitionReady : SUBSET Shard, ReadySeq : [Shard -> Nat], CollectOver : BOOLEAN]
NewCLPADataSupport ==
    [ModifiedMap |-> <<>>, AccountTransferRound |-> 0, PartitionOn |-> FALSE,
     PartitionReady |-> {}, ReadySeq |-> [s \in Shard |-> 0], CollectOver |-> FALSE,
     AccountStateTx |-> {}]

TypeOK ==
    /\ txQueue \in [Shard -> Seq(Entry)]
    /\ sequenceID \in [Shard -> 1 .. MaxSeq + 1]
    /\ stage \in [Shard -> {"idle", "ready", "collect", "agree", "panic"}]
    /\ \A s \in Shard : stage[s] # "panic" =>
            Cardinality(request[s]) = IF stage[s] = "agree" THEN 1 ELSE 0
    /\ partitionMap \in [Shard -> [Account -> Shard]]
    /\ state \in [Shard -> [Account -> Nat]]
    /\ seqIDMap \in [Shard -> [Shard -> 0 .. MaxSeq]]
    /\ \A s \in Shard : [f \in DOMAIN cdm[s] \ {"AccountStateTx"} |-> cdm[s][f]]
                            \in Data_supportCLPA
    /\ executed \in [Entry -> Nat]
    /\ \A m \in injects : m.to \in Shard /\ m.tx \in TxID
    /\ \A m \in relays : m.txs \in Seq(Entry) /\ m.seq \in 1 .. MaxSeq
    /\ \A m \in readies : m.seq \in 1 .. MaxSeq + 1
    /\ \A m \in transfers : m.txs \in Seq(Entry) /\ DOMAIN m.states \subseteq Account
    /\ mapMsgs \subseteq [to : Shard, epoch : 1 .. Len(Maps)]
    /\ infos \subseteq [from : Shard, seq : 1 .. MaxSeq, epoch : Nat]
    /\ sent \in 0 .. Len(TxList)
    /\ mapsSent \in 0 .. Len(Maps)
    /\ curEpoch \in Nat
    /\ committeeMap \in [Account -> Shard]

Init ==
    /\ txQueue = [s \in Shard |-> <<>>]
    /\ sequenceID = [s \in Shard |-> 1]
    /\ stage = [s \in Shard |-> "idle"]
    /\ request = [s \in Shard |-> {}]
    /\ partitionMap = [s \in Shard |-> Addr2Shard]
    /\ state = [s \in Shard |-> [a \in Account |-> InitBalance]]
    /\ seqIDMap = [s \in Shard |-> [t \in Shard |-> 0]]
    /\ cdm = [s \in Shard |-> NewCLPADataSupport]
    /\ executed = [e \in Entry |-> 0]
    /\ injects = {} /\ relays = {} /\ readies = {}
    /\ transfers = {} /\ mapMsgs = {} /\ infos = {}
    /\ sent = 0 /\ mapsSent = 0 /\ curEpoch = 0
    /\ committeeMap = Addr2Shard
-----------------------------------------------------------------------------
(* The committee, supervisor/committee/committee_clpa.go. *)

\* MsgSendingControl waits after each map until some shard reports the epoch.
Waiting == curEpoch # mapsSent

TxSending ==
    /\ ~Waiting
    /\ sent < Len(TxList)
    /\ sent' = sent + 1
    /\ injects' = injects \cup {[to |-> committeeMap[Sender(sent')], tx |-> sent']}
    /\ UNCHANGED <<txQueue, sequenceID, stage, request, chainVars, seqIDMap, cdm, relays,
                   readies, transfers, mapMsgs, infos, mapsSent, curEpoch, committeeMap>>

\* The accounts of map f move; the others stay where map g has them.
Modified(g, f) == [a \in Account |-> IF a \in DOMAIN f THEN f[a] ELSE g[a]]

\* The time gap has passed: clpaMapSend, and the committee's own map.
ClpaMapSend ==
    /\ ~Waiting
    /\ mapsSent < Len(Maps)
    /\ mapsSent' = mapsSent + 1
    /\ mapMsgs' = mapMsgs \cup [to : Shard, epoch : {mapsSent'}]
    /\ committeeMap' = Modified(committeeMap, Maps[mapsSent'])
    /\ UNCHANGED <<txQueue, sequenceID, stage, request, chainVars, seqIDMap, cdm, injects,
                   relays, readies, transfers, infos, sent, curEpoch>>

\* CompareAndSwap: the epoch moves on by one, when it is reported.
HandleBlockInfo(b) ==
    /\ infos' = infos \ {b}
    /\ curEpoch' = IF curEpoch = b.epoch - 1 THEN b.epoch ELSE curEpoch
    /\ UNCHANGED <<txQueue, sequenceID, stage, request, chainVars, seqIDMap, cdm, injects,
                   relays, readies, transfers, mapMsgs, sent, mapsSent, committeeMap>>
-----------------------------------------------------------------------------
(* Messages from outside the shard, pbftOutside_moduleCLPA.go. *)

Running(s) == stage[s] # "panic"

HandleInjectTx(m) ==
    /\ Running(m.to)
    /\ injects' = injects \ {m}
    /\ txQueue' = [txQueue EXCEPT ![m.to] = Append(@, [tx |-> m.tx, relayed |-> FALSE])]
    /\ UNCHANGED <<sequenceID, stage, request, chainVars, seqIDMap, cdm, relays, readies,
                   transfers, mapMsgs, infos, committeeVars>>

HandleRelay(m) ==
    /\ Running(m.to)
    /\ relays' = relays \ {m}
    /\ txQueue' = [txQueue EXCEPT ![m.to] = @ \o m.txs]
    /\ seqIDMap' = [seqIDMap EXCEPT ![m.to][m.from] = m.seq]
    /\ UNCHANGED <<sequenceID, stage, request, chainVars, cdm, injects, readies,
                   transfers, mapMsgs, infos, committeeVars>>

HandlePartitionMsg(m) ==
    /\ Running(m.to)
    /\ mapMsgs' = mapMsgs \ {m}
    /\ cdm' = [cdm EXCEPT ![m.to].ModifiedMap = Append(@, Maps[m.epoch]),
                          ![m.to].PartitionOn = TRUE]
    /\ UNCHANGED <<txQueue, sequenceID, stage, request, chainVars, seqIDMap, injects, relays,
                   readies, transfers, infos, committeeVars>>

HandlePartitionReady(m) ==
    /\ Running(m.to)
    /\ readies' = readies \ {m}
    /\ cdm' = [cdm EXCEPT ![m.to].PartitionReady = @ \cup {m.from},
                          ![m.to].ReadySeq[m.from] = m.seq]
    /\ UNCHANGED <<txQueue, sequenceID, stage, request, chainVars, seqIDMap, injects, relays,
                   transfers, mapMsgs, infos, committeeVars>>

\* AccountStateTx holds the last message of each shard.
HandleAccountStateAndTxMsg(m) ==
    LET got == {x \in cdm[m.to].AccountStateTx : x.from # m.from} \cup {m}
    IN  /\ Running(m.to)
        /\ transfers' = transfers \ {m}
        /\ cdm' = [cdm EXCEPT ![m.to].AccountStateTx = got,
                              ![m.to].CollectOver =
                                  @ \/ Cardinality(got) = Cardinality(Shard) - 1]
        /\ UNCHANGED <<txQueue, sequenceID, stage, request, chainVars, seqIDMap, injects,
                       relays, readies, mapMsgs, infos, committeeVars>>
-----------------------------------------------------------------------------
(* Blocks, pbftInside_moduleCLPA.go. *)

\* HandleinPropose without a partition: pack a block.
ProposeBlock(s) ==
    /\ stage[s] = "idle"
    /\ ~cdm[s].PartitionOn
    /\ sequenceID[s] <= MaxSeq
    /\ LET n == Min({BlockSize, Len(txQueue[s])})
       IN  /\ request' = [request EXCEPT ![s] =
                           {[type |-> "Block", body |-> SubSeq(txQueue[s], 1, n)]}]
           /\ txQueue' = [txQueue EXCEPT ![s] = SubSeq(@, n + 1, Len(@))]
    /\ stage' = [stage EXCEPT ![s] = "agree"]
    /\ UNCHANGED <<sequenceID, chainVars, seqIDMap, cdm, netVars, committeeVars>>

Mine(s, a) == partitionMap[s][a] = s

\* GetUpdateStatusTrie on one transaction.
Execute(s, st, e) ==
    LET pays == ~e.relayed /\ Mine(s, Sender(e.tx))
        debited == IF pays THEN [st EXCEPT ![Sender(e.tx)] = @ - Value(e.tx)] ELSE st
    IN  IF pays /\ st[Sender(e.tx)] < Value(e.tx) THEN st
        ELSE IF Mine(s, Recipient(e.tx))
        THEN [debited EXCEPT ![Recipient(e.tx)] = @ + Value(e.tx)]
        ELSE debited

\* Without it HandleinCommit panics: "incorrect tx".
CorrectTx(s, e) == Mine(s, IF e.relayed THEN Recipient(e.tx) ELSE Sender(e.tx))

Occurrences(e, txs) == Cardinality({i \in DOMAIN txs : txs[i] = e})

\* Mutant: the number of the round before.
RelayMsgSendEarlier(s, body) ==
    {[from |-> s, to |-> d, seq |-> sequenceID[s] - 1, txs |-> <<>>] : d \in Shard \ {s}}

\* RelayMsgSend: to every other shard, with nothing to relay too.
RelayMsgSend(s, body) ==
    {[from |-> s, to |-> d, seq |-> sequenceID[s],
      txs |-> LET out == SelectSeq(body, LAMBDA e : partitionMap[s][Recipient(e.tx)] = d)
              IN  [i \in DOMAIN out |-> [out[i] EXCEPT !.relayed = TRUE]]] :
        d \in Shard \ {s}}

\* The report to the committee.  Nothing waits for those of the first epoch.
BlockInfo(s) ==
    IF cdm[s].AccountTransferRound = 0 THEN {}
    ELSE {[from |-> s, seq |-> sequenceID[s], epoch |-> cdm[s].AccountTransferRound]}

\* Every node executes and stores the block before its leader looks at it.
AddBlock(s, body) ==
    /\ state' = [state EXCEPT ![s] = FoldLeft(LAMBDA st, e : Execute(s, st, e), @, body)]
    /\ executed' = [e \in Entry |-> executed[e] + Occurrences(e, body)]

\* HandleinCommit of a block.
CommitBlock(s) ==
    /\ stage[s] = "agree"
    /\ \E r \in request[s] :
        /\ r.type = "Block"
        /\ AddBlock(s, r.body)
        /\ \A i \in DOMAIN r.body : CorrectTx(s, r.body[i])
        /\ relays' = relays \cup RelayMsgSend(s, r.body)
    /\ infos' = infos \cup BlockInfo(s)
    /\ request' = [request EXCEPT ![s] = {}]
    /\ stage' = [stage EXCEPT ![s] = "idle"]
    /\ sequenceID' = [sequenceID EXCEPT ![s] = @ + 1]
    /\ UNCHANGED <<txQueue, partitionMap, seqIDMap, cdm, injects, readies, transfers, mapMsgs,
                   committeeVars>>

\* ... that holds an incorrect transaction: the block stands, and the leader ends
\* before it relays or reports anything of it.
PanicBlock(s) ==
    /\ stage[s] = "agree"
    /\ \E r \in request[s] :
        /\ r.type = "Block"
        /\ AddBlock(s, r.body)
        /\ \E i \in DOMAIN r.body : ~CorrectTx(s, r.body[i])
    /\ stage' = [stage EXCEPT ![s] = "panic"]
    /\ UNCHANGED <<txQueue, sequenceID, request, partitionMap, seqIDMap, cdm, netVars,
                   committeeVars>>
-----------------------------------------------------------------------------
(* The transfer, accountTransfer_module.go. *)

SendPartitionReady(s) ==
    /\ stage[s] = "idle"
    /\ cdm[s].PartitionOn
    /\ sequenceID[s] <= MaxSeq
    /\ cdm' = [cdm EXCEPT ![s].PartitionReady = @ \cup {s}]
    /\ readies' = readies \cup {[from |-> s, to |-> d, seq |-> sequenceID[s]] : d \in Shard \ {s}}
    /\ stage' = [stage EXCEPT ![s] = "ready"]
    /\ UNCHANGED <<txQueue, sequenceID, request, chainVars, seqIDMap, injects, relays,
                   transfers, mapMsgs, infos, committeeVars>>

\* All shards are ready, and from each the last Relay message seen is the one of
\* its last round.  Shards that never sent one are not looked at.
GetPartitionReady(s) ==
    /\ cdm[s].PartitionReady = Shard
    /\ \A d \in Shard : seqIDMap[s][d] # 0 => cdm[s].ReadySeq[d] - 1 = seqIDMap[s][d]

LastMap(s) == cdm[s].ModifiedMap[Len(cdm[s].ModifiedMap)]

\* The accounts that leave shard s for shard d.
AccountsTo(s, d) == {a \in DOMAIN LastMap(s) : Mine(s, a) /\ d # s /\ LastMap(s)[a] = d}

\* Whether an entry belongs to one of the accounts.
Follows(A, e) == (IF e.relayed THEN Recipient(e.tx) ELSE Sender(e.tx)) \in A

\* Mutant: the transactions sent stay in the pool.
PoolAfterSendingKeeps(s, q) == q

\* What remains of the pool once the transactions of leaving accounts are taken.
PoolAfterSending(s, q) ==
    SelectSeq(q, LAMBDA e : ~Follows(UNION {AccountsTo(s, d) : d \in Shard}, e))

SendAccountsAndTxs(s) ==
    /\ stage[s] = "ready"
    /\ GetPartitionReady(s)
    /\ transfers' = transfers \cup
         {[from |-> s, to |-> d, seq |-> sequenceID[s],
           states |-> [a \in AccountsTo(s, d) |-> state[s][a]],
           txs |-> SelectSeq(txQueue[s], LAMBDA e : Follows(AccountsTo(s, d), e))] :
             d \in Shard \ {s}}
    /\ txQueue' = [txQueue EXCEPT ![s] = PoolAfterSending(s, @)]
    /\ stage' = [stage EXCEPT ![s] = "collect"]
    /\ UNCHANGED <<sequenceID, request, chainVars, seqIDMap, cdm, injects, relays, readies,
                   mapMsgs, infos, committeeVars>>

\* The map of the current round; reading past the end panics.
RoundMap(s) == cdm[s].ModifiedMap[cdm[s].AccountTransferRound + 1]

\* Without it proposePartition panics: "error tx".
MovesHere(s, e) ==
    LET a == IF e.relayed THEN Recipient(e.tx) ELSE Sender(e.tx)
    IN  s = IF a \in DOMAIN RoundMap(s) THEN RoundMap(s)[a] ELSE Shard0

\* The transactions received, in some order of the senders.
ReceivedTxs(s) ==
    FoldSet(LAMBDA m, q : q \o m.txs, <<>>, cdm[s].AccountStateTx)

\* There is a map of this round, and it sends here all that was received.
PartitionCorrect(s) ==
    /\ cdm[s].AccountTransferRound < Len(cdm[s].ModifiedMap)
    /\ \A m \in cdm[s].AccountStateTx : \A i \in DOMAIN m.txs : MovesHere(s, m.txs[i])

ProposePartition(s) ==
    /\ stage[s] = "collect"
    /\ cdm[s].CollectOver
    /\ IF PartitionCorrect(s)
       THEN /\ txQueue' = [txQueue EXCEPT ![s] = @ \o ReceivedTxs(s)]
            /\ request' = [request EXCEPT ![s] =
                 {[type |-> "Partition", map |-> RoundMap(s),
                   ATid |-> Len(cdm[s].ModifiedMap),
                   states |-> FoldSet(LAMBDA m, f : m.states @@ f, <<>>, cdm[s].AccountStateTx)]}]
            /\ stage' = [stage EXCEPT ![s] = "agree"]
       ELSE /\ stage' = [stage EXCEPT ![s] = "panic"]
            /\ UNCHANGED <<txQueue, request>>
    /\ UNCHANGED <<sequenceID, chainVars, seqIDMap, cdm, netVars, committeeVars>>

\* Mutants: received states are dropped; only accounts that come are noted.
AddAccountsNothing(s, map, states) == state[s]
UpdatePartitionMapComing(s, map) ==
    [a \in Account |-> IF a \in DOMAIN map /\ map[a] = s THEN s ELSE partitionMap[s][a]]

\* Received states replace those of accounts that are this shard's from now on.
AddAccounts(s, map, states) ==
    [a \in Account |-> IF a \in DOMAIN states /\ Modified(partitionMap[s], map)[a] = s
                       THEN states[a] ELSE state[s][a]]

UpdatePartitionMap(s, map) == Modified(partitionMap[s], map)

\* HandleinCommit of a partition request; nothing is relayed or reported.
AccountTransferDo(s) ==
    /\ stage[s] = "agree"
    /\ \E r \in request[s] :
        /\ r.type = "Partition"
        /\ partitionMap' = [partitionMap EXCEPT ![s] = UpdatePartitionMap(s, r.map)]
        /\ state' = [state EXCEPT ![s] = AddAccounts(s, r.map, r.states)]
        /\ cdm' = [cdm EXCEPT ![s] =
             [@ EXCEPT !.ModifiedMap = IF Len(@) = r.ATid THEN @ ELSE Append(@, r.map),
                       !.AccountTransferRound = r.ATid,
                       !.AccountStateTx = {},
                       !.PartitionOn = FALSE,
                       !.CollectOver = FALSE,
                       !.PartitionReady = {}]]
    /\ request' = [request EXCEPT ![s] = {}]
    /\ stage' = [stage EXCEPT ![s] = "idle"]
    /\ sequenceID' = [sequenceID EXCEPT ![s] = @ + 1]
    /\ UNCHANGED <<txQueue, executed, seqIDMap, netVars, committeeVars>>
-----------------------------------------------------------------------------
Next ==
    \/ TxSending \/ ClpaMapSend
    \/ \E b \in infos : HandleBlockInfo(b)
    \/ \E m \in injects : HandleInjectTx(m)
    \/ \E m \in relays : HandleRelay(m)
    \/ \E m \in mapMsgs : HandlePartitionMsg(m)
    \/ \E m \in readies : HandlePartitionReady(m)
    \/ \E m \in transfers : HandleAccountStateAndTxMsg(m)
    \/ \E s \in Shard :
        \/ ProposeBlock(s) \/ CommitBlock(s) \/ PanicBlock(s)
        \/ SendPartitionReady(s) \/ SendAccountsAndTxs(s)
        \/ ProposePartition(s) \/ AccountTransferDo(s)

Spec == Init /\ [][Next]_vars
-----------------------------------------------------------------------------
\* A shard that has sent its leaving accounts away and not yet finished, or that
\* panicked in proposePartition.
Transferring(s) ==
    \/ stage[s] = "collect"
    \/ stage[s] = "panic" /\ request[s] = {}
    \/ \E r \in request[s] : r.type = "Partition"

\* The shards that may execute transactions of an account now.
Owners(a) == {s \in Shard : Mine(s, a) /\ ~(Transferring(s) /\ a \in DOMAIN LastMap(s)
                                                 /\ LastMap(s)[a] # s)}

\* No two shards ever execute on the same account: between the moment the old
\* shard sends its state away and the moment the new one installs it nobody
\* does (sendAccounts_and_Txs, accountTransfer_do).
OneOwner == \A a \in Account : Cardinality(Owners(a)) <= 1

\* AccountTransferRound "denote[s] how many times accountTransfer do[es]"
\* (dataSupport/clpaData_Extra.go:11): a shard at round n places the accounts
\* where the first n maps of the committee have them.
RoundsApplied ==
    \A s \in Shard :
        partitionMap[s] = FoldLeft(Modified, Addr2Shard,
                                   SubSeq(Maps, 1, cdm[s].AccountTransferRound))

\* Account states on their way: sent, collected, or in a request.
Moving == {m.states : m \in transfers \cup UNION {cdm[s].AccountStateTx : s \in Shard}}

Balance(a) ==
    IF Owners(a) # {} THEN state[CHOOSE s \in Owners(a) : TRUE][a]
    ELSE (CHOOSE f \in Moving : a \in DOMAIN f)[a]

First(t) == [tx |-> t, relayed |-> FALSE]
Second(t) == [tx |-> t, relayed |-> TRUE]

Pending(e) ==
    Cardinality({m \in injects : First(m.tx) = e})
    + MapThenSumSet(LAMBDA m : Occurrences(e, m.txs), relays \cup transfers)
    + MapThenSumSet(LAMBDA s : Occurrences(e, txQueue[s]), Shard)
    + MapThenSumSet(LAMBDA s : MapThenSumSet(LAMBDA r :
          IF r.type = "Block" /\ stage[s] = "agree" THEN Occurrences(e, r.body) ELSE 0,
          request[s]), Shard)
    + MapThenSumSet(LAMBDA s :
          IF \E r \in request[s] : r.type = "Partition" THEN 0
          ELSE MapThenSumSet(LAMBDA m : Occurrences(e, m.txs), cdm[s].AccountStateTx), Shard)

\* Transfers take every pooled transaction along, once: a transaction that was
\* sent is in one block or waits in one place, and its second half waits or is
\* in a block at most once and only after the first.
ExactlyOnce ==
    \A t \in TxID :
        /\ Pending(First(t)) + executed[First(t)] = IF t <= sent THEN 1 ELSE 0
        /\ Pending(Second(t)) + executed[Second(t)] <= executed[First(t)]

\* Half done: debited, and its second half not yet credited.
HalfDone(t) == Pending(Second(t)) > 0

\* In the block at which the leader of s panicked: value taken from its sender, in
\* this shard or another, that nobody gets; value given that nobody paid.
Vanishes(s, e) == ~Mine(s, Recipient(e.tx)) /\ (e.relayed \/ Mine(s, Sender(e.tx)))
Appears(s, e) == Mine(s, Recipient(e.tx)) /\ ~e.relayed /\ ~Mine(s, Sender(e.tx))

\* The values of the entries of such blocks for which P holds.
Panicked(P(_, _)) ==
    MapThenSumSet(LAMBDA s :
        MapThenSumSet(LAMBDA r :
            MapThenSumSet(LAMBDA i : Value(r.body[i].tx), {i \in DOMAIN r.body : P(s, r.body[i])}),
            {r \in request[s] : stage[s] = "panic"}), Shard)

\* Moving an account neither loses nor doubles its balance, nor what is on its
\* way to it (FetchAccounts, AddAccounts).  Money is lost or made only in the last
\* block of a leader that panics, and there exactly by the entries whose account
\* had moved and the ones not relayed any more (HandleinCommit's "incorrect tx").
Conservation ==
    MapThenSumSet(Balance, Account) + MapThenSumSet(Value, {t \in TxID : HalfDone(t)})
    + Panicked(Vanishes) = InitBalance * Cardinality(Account) + Panicked(Appears)
=============================================================================
