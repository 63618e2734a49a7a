SPECIFICATION ServerSpec
CONSTANTS
    Unreliable <- Calls
    Configurations <- AllConfigurations
    Walk <- MCWalk
    WalkFiles <- MCWalkFiles
INVARIANTS ServerTypeOK ReenabledOnce FirstVerdictStands AnsweredNotForwarded FreshNotFromCache ThrowsOnlyOnFailure
    OrderKept DoublyAssigned MergedWhole 
PROPERTY ReadingEnds
CHECK_DEADLOCK FALSE
