SPECIFICATION Spec
CONSTANTS
    v1 = v1
    v2 = v2
    v3 = v3
    v4 = v4
    Vertex = {v1, v2, v3, v4}
    ShardNum = 3
    Addr2Shard <- MCAddr2Shard
    MaxIterations = 2
    UpdateLimit = 1
    MaxEdges = 4
    MaxEpochs = 2
INVARIANTS TypeOK CountersExact MapsAgree
PROPERTY NoShardEmptied
CHECK_DEADLOCK FALSE
