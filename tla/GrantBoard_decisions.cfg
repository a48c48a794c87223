\* A three-seat board, a grant beside a membership change, refused proofs tried again once.
SPECIFICATION BoardSpec
CONSTANTS
    ann = ann
    bob = bob
    cat = cat
    None = None
    Address <- AnnBobCat
    Callers <- AnnBobCat
    Founders <- AnnBobCat
    Specs <- TwoTranches
    MaxRequests = 2
    MaxGrants = 1
    MaxAttempts = 2
    IntBits = 8
SYMMETRY Symmetry
CHECK_DEADLOCK FALSE
INVARIANTS
    BallotsAreSound
    ReleasedInOrder
PROPERTIES
    DecidedByMajority
    PreviewsAgree
    RecordsArePermanent
