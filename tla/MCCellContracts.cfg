\* One requester, an enforcing condition, a read and a write grant,
\* one call and one access at a time.
SPECIFICATION Spec
CONSTANTS
    Requesters = {u1}
    Conditions = {c1}
    Enforcing = {c1}
    Grants = {gr, gw}
    ReadGrants = {gr}
    TemplateGrants = {gr, gw}
    Durations = {1}
    TemplateDuration = 1
    MaxContracts = 1
    MaxCalls = 1
    MaxAccesses = 1
    MaxTime = 2
INVARIANTS
    AccessFollowsAdmission
    AllowedMeetsTemplate
    ReadmissionCounts
CHECK_DEADLOCK FALSE
