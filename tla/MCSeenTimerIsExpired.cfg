SPECIFICATION SimSpec
CONSTANTS
    IncreasedPowerLevel = "Increased"
    IncreasedPowerDuration = 5000
    Maps <- ClaimMaps
    MaxKeys <- OneKey
    MaxFaults <- OneFault
CHECK_DEADLOCK FALSE
PROPERTY
    SeenTimerIsExpired
