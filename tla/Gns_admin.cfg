\* One name under every administrative call, over a lease and its grace.
SPECIFICATION Spec
CONSTANTS
    ann = ann
    bob = bob
    NoAddress = NoAddress
    NoName = NoName
    NoGrant = NoGrant
    NoCommit = NoCommit
    Address <- AnnBob
    Admin = ann
    Names <- OneName
    MinCommitAge = 0
    MaxCommitAge = 1
    MinDuration = 1
    MaxDuration = 2
    GracePeriod = 1
    MaxOperators = 1
    Requests <- OneLease
    Durations <- OneOrEver
    Controls <- Nothing
    Policies <- Nothing
    Grants <- Nothing
    Natives <- OnlyAnn
    AdminCalls <- Ruling
    MaxRevision = 2
    MaxCreated = 2
    MaxTime = 2
CHECK_DEADLOCK FALSE
PROPERTIES
    PauseFreezesNames
