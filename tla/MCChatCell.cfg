\* Two invitees with two keys, three artifacts each and two acceptance IDs; two
\* callers with two drafts and four messages, of which two are kept.
SPECIFICATION Spec
CONSTANTS
    Members = {u1, u2}
    Keys = {k1, k2}
    NoKey = NoKey
    AcceptanceIDs = {1, 2}
    Callers = {r1, r2}
    MessagesLimit = 2
    MaxArtifacts = 3
    MaxSent = 4
    MaxDrafts = 2
CONSTRAINT OneHalfAtATime
INVARIANTS
    LedgerAgrees
    LastArtifactAdmits
    RefusedStayOut
    Transcript
SYMMETRY Sym
