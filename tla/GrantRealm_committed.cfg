\* Amounts at the top of a narrow integer: does Committed still cover a tranche?
SPECIFICATION Spec
CONSTANTS
    ann = ann
    bob = bob
    cat = cat
    None = None
    Treasury = Treasury
    Address <- WithTreasury
    Callers <- AnnBobCat
    Founders <- AnnBob
    Specs <- WideTranches
    Deposits = {0, 3}
    MaxRequests = 1
    MaxGrants = 1
    MaxAttempts = 1
    MaxReceived = 3
    IntBits = 4
SYMMETRY Symmetry
CHECK_DEADLOCK FALSE
INVARIANT
    CommittedCoversNext
