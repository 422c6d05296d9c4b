SPECIFICATION Spec
CONSTANTS
    alice = alice
    bob = bob
    carol = carol
    s1 = s1
    s2 = s2
    Shard = {s1, s2}
    Account = {alice, bob, carol}
    Addr2Shard <- MCAddr2Shard
    BrokerAddress <- MCBrokers
    TxList <- MCTxList
    InitBalance = 8
    BlockSize = 2
    BatchSize = 2
    TotalDataSize = 5
INVARIANTS TypeOK ExactlyOnce UserMoney ConfirmOrder NoMissingBroker1
PROPERTY AllFinished
CHECK_DEADLOCK FALSE
