SPECIFICATION ServerSpec
CONSTANTS
    Unreliable <- NoCalls
    Configurations <- RankedConfigurations
    Walk <- MCWalk
    WalkFiles <- MCWalkFiles
INVARIANT LoggedMiss
CHECK_DEADLOCK FALSE
