SPECIFICATION Spec
CONSTANTS
    a1 = a1
    a2 = a2
    b1 = b1
    s1 = s1
    s2 = s2
    Shard = {s1, s2}
    Account = {a1, a2, b1}
    PartitionMap <- MCPartitionMap
    TxList <- MCTxList
    InitBalance = 3
    BlockSize = 2
    MaxEmpty = 1
    BatchSize = 2
    TotalDataSize = 3
    InjectSpeed = 2
INVARIANTS TypeOK ExactlyOnce NoIncorrectTx Conservation CountsMatch
PROPERTIES SentIsFinished Termination
CHECK_DEADLOCK FALSE
