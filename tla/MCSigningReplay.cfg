\* Three sign commands, two nonces, a store for one of them.
SPECIFICATION Spec
CONSTANTS
    Requests = {r1, r2, r3}
    Nonces = {n1, n2}
    Identities = {i1}
    Bound = i1
    Stamps = {0, 1, 2, 3}
    Validity = 1
    ClockSkew = 1
    MaximumReplays = 1
    MaxTime = 3
INVARIANTS
    OneUseWhileValid
    EntriesExpire
PROPERTIES
    GuardsNonces
CHECK_DEADLOCK FALSE
SYMMETRY Sym
