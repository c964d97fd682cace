\* Two Get calls at the same time on one connection.
SPECIFICATION Spec
CONSTANTS
    Senders = {s1, s2}
    Bases = {s1, s2}
    Flows = {}
    MaxSockets = 1
    Lost = Lost
INVARIANTS
    CorrelatesResponses
CHECK_DEADLOCK FALSE
