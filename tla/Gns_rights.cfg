\* A name with its subnames, operators, policies and records, across the end of an operator's grant.
SPECIFICATION Spec
CONSTANTS
    ann = ann
    bob = bob
    NoAddress = NoAddress
    NoName = NoName
    NoGrant = NoGrant
    NoCommit = NoCommit
    Address <- AnnBob
    Admin = ann
    Names <- TwoNames
    MinCommitAge = 0
    MaxCommitAge = 1
    MinDuration = 1
    MaxDuration = 2
    GracePeriod = 1
    MaxOperators = 1
    Requests <- OneLease
    Durations <- Ever
    Controls <- OneControl
    Policies <- ToTheOwner
    Grants <- Helper
    Natives <- OnlyAnn
    AdminCalls <- Pausing
    MaxRevision = 1
    MaxCreated = 3
    MaxTime = 1
CHECK_DEADLOCK FALSE
PROPERTIES
    LocksNeverOpen
