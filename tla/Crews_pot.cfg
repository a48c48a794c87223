\* One crew of up to three members, with one proposal.
SPECIFICATION Spec
CONSTANTS
    ann = ann
    bob = bob
    cy = cy
    crew = crew
    prop = prop
    NoCrew = NoCrew
    NoProposal = NoProposal
    NoBallot = NoBallot
    Address <- AnnBobCy
    Ids <- OneCrew
    PropIds <- OneProp
    InitialPrice = 1
    VoteBlocks = 1
    MaxMembers = 2
    MaxInt = 4
    MaxPaid = 3
    MaxHeight = 1
SYMMETRY AnyName
CHECK_DEADLOCK FALSE
INVARIANTS
    CrewsAreSound
PROPERTIES
    ValueNeverFalls
    LastOneTakesAll
    KeepsBooks
