SPECIFICATION SimSpec
CONSTANTS
    IncreasedPowerLevel = "Increased"
    IncreasedPowerDuration = 5000
    Maps <- ClaimMaps
    MaxKeys <- TwoKeys
    MaxFaults <- NoFault
CHECK_DEADLOCK FALSE
PROPERTY
    DeadlineCountsFromTimerStart
