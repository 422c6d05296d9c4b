SPECIFICATION Spec
CONSTANTS
    t1 = t1
    t2 = t2
    handler = handler
    catchup = catchup
    Tx = {t1, t2}
    ModBytes <- MCModBytes
    Thread = {handler, catchup}
    MaxBlocks = 3
    MaxBody = 2
    MaxCrashes = 2
INVARIANTS TypeOK RecoverableInTurn ProofsExact
CHECK_DEADLOCK FALSE
