SPECIFICATION Spec
CONSTANTS
    a1 = a1
    a2 = a2
    b1 = b1
    s1 = s1
    s2 = s2
    n1 = n1
    n2 = n2
    n3 = n3
    n4 = n4
    Shard = {s1, s2}
    NodeID = {n1, n2, n3, n4}
    Account = {a1, a2, b1}
    PartitionMap <- MCPartitionMap
    TxList <- MCTxList
    InitBalance = 3
    BlockSize = 2
    MaxSeq = 3
SYMMETRY Nodes
CONSTRAINTS QuietWhileVoting AnswersFirst OneBlock TwoHandlers
INVARIANTS TypeOK Accounted Conservation ConfirmNeedsVotes
CHECK_DEADLOCK FALSE
