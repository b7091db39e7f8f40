\* The frame loop may wait for a key for ever: no deadlock is looked for.
SPECIFICATION SimSpec
CONSTANTS
    IncreasedPowerLevel = "Increased"
    IncreasedPowerDuration = 5000
    Maps <- MCMaps
    MaxKeys <- MCMaxKeys
    MaxFaults <- MCMaxFaults
CHECK_DEADLOCK FALSE
INVARIANTS
    SimTypeOK
    DeadlineMatchesTimer
    BlockIsReal
PROPERTIES
    NeverBumps
    ResponseEnds
    RunEnds
