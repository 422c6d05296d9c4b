SPECIFICATION FixedViewSpec
CONSTANTS N = 4  MaxBlocks = 3  MaxTimeouts = 0
INVARIANTS TypeOK Agreement Certified LeaderComplete NoFatalUnlock QueryOpen OneHistory
PROPERTY ImplementsLedger
CHECK_DEADLOCK FALSE
CONSTRAINTS OneLaggard NoEarlySignal
