\* A first deposit far off the later price: do the shares still fit?
SPECIFICATION Spec
CONSTANTS
    ann = ann
    bob = bob
    Address <- AnnBob
    Amounts = {1, 5, 12, 18, 31}
    FeeNum = 1
    FeeDen = 2
    MaxInt = 63
CHECK_DEADLOCK FALSE
INVARIANT
    NothingOverflows
