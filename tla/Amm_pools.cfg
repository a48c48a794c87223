\* Two pools on one balance, with integers a reserve nearly fills.
SPECIFICATION Spec
CONSTANTS
    ann = ann
    gno = gno
    foo = foo
    bar = bar
    Self = Self
    Token <- ThreeTokens
    Pools <- TwoPools
    Address <- OneAddress
    Amounts = {1, 2, 11}
    FeeNum = 1
    FeeDen = 2
    MaxInt = 11
    MaxStray = 1
SYMMETRY EitherPool
CHECK_DEADLOCK FALSE
INVARIANTS
    PoolsAreSound
    PricingIsSound
PROPERTIES
    ShareNeverDiluted
