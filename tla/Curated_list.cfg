\* Two keys, two addresses and a ledger of credits that fits one of them.
SPECIFICATION FairSpec
CONSTANTS
    ann = ann
    bob = bob
    k1 = k1
    k2 = k2
    NoEntry = NoEntry
    NoChallenge = NoChallenge
    Address <- AnnBob
    Keys <- TwoKeys
    Deposit = 1
    ChallengeBlocks = 2
    MaxEntries = 2
    MaxPayees = 1
    MaxInt = 3
    MaxHeight = 4
CHECK_DEADLOCK FALSE
INVARIANTS
    Backed
PROPERTIES
    OnlyVerdictsMoveWealth
    KeepsBooks
    ChallengesEnd
