\* A call of BridgeBase, one of SendCommand and one of Flow, two connections.
SPECIFICATION Spec
CONSTANTS
    Senders = {s1, s2}
    Bases = {s1}
    Flows = {f1}
    MaxSockets = 2
    Lost = Lost
INVARIANTS
    OwnAnswer
    LockNeverBlocks
    ClosesOnce
    OneReader
    LossIsNoticed
CHECK_DEADLOCK FALSE
