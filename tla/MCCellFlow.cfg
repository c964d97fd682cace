\* Two producers of the cell's own, an absorbed flow and two subscribers; the
\* third element overflows a channel.
SPECIFICATION FairSpec
CONSTANTS
    Owners = {p1, p2}
    Absorbers = {a1}
    Subscribers = {s1, s2}
    Capacity = 2
    Upstream = {1}
    MaxPushes = 3
INVARIANTS
    ExactlyOnce
    ProducerOrder
    RealTimeOrder
    OwnHistoryReplays
PROPERTIES
    PushReturns
    FlowReturns
CHECK_DEADLOCK FALSE
