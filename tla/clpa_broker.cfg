SPECIFICATION Spec
CONSTANTS
    alice = alice
    bob = bob
    carol = carol
    dave = dave
    s1 = s1
    s2 = s2
    Shard = {s1, s2}
    Account = {alice, bob, carol, dave}
    Addr2Shard <- MCAddr2Shard
    BrokerAddress <- MCBrokers
    TxList <- MCTxList
    Maps <- MCMaps
    InitBalance = 4
    BlockSize = 1
    MaxSeq = 3
CONSTRAINT FewSeqInfos
INVARIANTS TypeOK ExactlyOnce UserMoney
CHECK_DEADLOCK FALSE
