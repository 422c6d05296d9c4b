SPECIFICATION Spec
CONSTANTS N = 4  MaxBlocks = 2  MaxTimeouts = 3
INVARIANTS Agreement
CHECK_DEADLOCK FALSE
CONSTRAINT FirstLeaderCommitsFirst
