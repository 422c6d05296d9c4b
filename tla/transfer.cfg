SPECIFICATION Spec
CONSTANTS
    alice = alice
    bob = bob
    carol = carol
    s1 = s1
    s2 = s2
    Shard = {s1, s2}
    Shard0 = s1
    Account = {alice, bob, carol}
    Addr2Shard <- MCAddr2Shard
    TxList <- MCTxList
    Maps <- MCMaps
    InitBalance = 3
    BlockSize = 1
    MaxSeq = 3
INVARIANTS TypeOK OneOwner ExactlyOnce Conservation
CHECK_DEADLOCK FALSE
