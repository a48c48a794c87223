\* A grant of two tranches and one more request, two founders, an outside
\* applicant and the treasury itself as a possible payee.
SPECIFICATION Spec
CONSTANTS
    ann = ann
    bob = bob
    cat = cat
    None = None
    Treasury = Treasury
    Address <- WithTreasury
    Callers <- AnnBobCat
    Founders <- AnnBob
    Specs <- TwoTranches
    Deposits = {0, 3}
    MaxRequests = 2
    MaxGrants = 2
    MaxAttempts = 1
    MaxReceived = 3
    IntBits = 8
SYMMETRY Symmetry
CHECK_DEADLOCK FALSE
INVARIANTS
    PaysWhatItHas
    BoardNeverEmpty
PROPERTIES
    MajorityMissedOnlyByMembership
    KeepsPromises
