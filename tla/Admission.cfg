CONSTANTS
    NumResources = 2
    MaxPos = 2
    IndexCycle = 2
    None = None
    Refuted <- SecondRefuted
    MaxTrouble = 3
SPECIFICATION FairSpec
INVARIANT TypeOK
INVARIANT Covered
INVARIANT HonestReview
PROPERTY Learned
