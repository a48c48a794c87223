\* A subname of a subname, when the middle one is deleted and created again.
SPECIFICATION Spec
CONSTANTS
    ann = ann
    bob = bob
    NoAddress = NoAddress
    NoName = NoName
    NoGrant = NoGrant
    NoCommit = NoCommit
    Address <- AnnBob
    Admin = ann
    Names <- ThreeNames
    MinCommitAge = 0
    MaxCommitAge = 1
    MinDuration = 1
    MaxDuration = 2
    GracePeriod = 1
    MaxOperators = 1
    Requests <- OneLease
    Durations <- Ever
    Controls <- Nothing
    Policies <- ToAnyone
    Grants <- Nothing
    Natives <- Unset
    AdminCalls <- Nothing
    MaxRevision = 1
    MaxCreated = 4
    MaxTime = 1
CHECK_DEADLOCK FALSE
INVARIANT NoSubnameOutlivesItsParent
