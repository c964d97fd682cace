\* One invitee that is invited again with another key.
SPECIFICATION Spec
CONSTANTS
    Members = {u1}
    Keys = {k1, k2}
    NoKey = NoKey
    AcceptanceIDs = {1}
    Callers = {}
    MessagesLimit = 1
    MaxArtifacts = 1
    MaxSent = 0
    MaxDrafts = 0
INVARIANTS
    AdmittedByOwnKey
