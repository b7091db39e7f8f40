\* The controller under every order of reports, with the default policy.
SPECIFICATION Spec
CONSTANTS
    IncreasedPowerLevel = "Increased"
    IncreasedPowerDuration = 5000
INVARIANTS
    TypeOK
    ForwardOnlyIntoClearSpace
    StatusMatchesDrive
    BlockRestsOnProbe
    PowerFollowsResponse
    TimerCoversResponse
    PendingUnderResponse
    PowerBeforeForward
PROPERTIES
    ReverseOnlyOutOfBlock
    TurnsFollowLeftHandRule
    ProbeEndsInHeading
    SnapshotMovesDrive
    CleaningEventsKeepMotion
    
