\* The application under every order of commands; the state space is finite.
SPECIFICATION AppSpec
CONSTANTS
    IncreasedPowerLevel = "Increased"
    IncreasedPowerDuration = 5000
INVARIANTS
    AppTypeOK
    StatusMatchesDrive
    ShadowsMatchSensors
    DustFlagShowsResponse
    FreshUntilDriven
PROPERTIES
    TimeoutGuarded
