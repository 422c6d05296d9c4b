SPECIFICATION Spec
CONSTANTS
    alice = alice
    bob = bob
    carol = carol
    s1 = s1
    s2 = s2
    Shard = {s1, s2}
    Shard0 = s1
    Account = {alice, bob, carol}
    Addr2Shard <- MCAddr2Shard
    TxList <- MCNoTxs
    Maps <- MCTwoMaps
    InitBalance = 3
    BlockSize = 1
    MaxSeq = 3
INVARIANT RoundsApplied
CHECK_DEADLOCK FALSE
