\* A name and a subname of it, leased for a second at a time.
SPECIFICATION Spec
CONSTANTS
    ann = ann
    bob = bob
    NoAddress = NoAddress
    NoName = NoName
    NoGrant = NoGrant
    NoCommit = NoCommit
    Address <- AnnBob
    Admin = ann
    Names <- TwoNames
    MinCommitAge = 0
    MaxCommitAge = 1
    MinDuration = 1
    MaxDuration = 2
    GracePeriod = 1
    MaxOperators = 1
    Requests <- TwoLeases
    Durations <- OneOrEver
    Controls <- Nothing
    Policies <- ToAnyone
    Grants <- Nothing
    Natives <- Unset
    AdminCalls <- Reserving
    MaxRevision = 1
    MaxCreated = 3
    MaxTime = 3
CHECK_DEADLOCK FALSE
INVARIANTS
    NamesAreKept
    NoSubnameOutlivesItsParent
PROPERTIES
    LeaseIsHonoured
