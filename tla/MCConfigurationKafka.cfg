SPECIFICATION ServerSpec
CONSTANTS
    Unreliable <- NoCalls
    Configurations <- MixedConfigurations
    Walk <- MCWalk
    WalkFiles <- MCWalkFiles
INVARIANT KafkaSectionKept
CHECK_DEADLOCK FALSE
