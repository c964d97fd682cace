\* Two calls, one request and two approvals; the two JTIs have one safe key.
SPECIFICATION Spec
CONSTANTS
    Calls = {t1, t2}
    Identities = {i1, i2}
    Requests = {q1}
    Subject <- MCSubject
    LinkIDs = {g, l}
    GenesisIDs = {g}
    Genesis = g
    JTIs = {j1, j2}
    RecordKeys = {"g", "a"}
    SafeRecordKey <- MCSafeRecordKey
    MaxApprovals = 2
SYMMETRY Symmetry
INVARIANTS
    LinksAreApproved
    GenesisHolds
PROPERTIES
    CompletesOnce
