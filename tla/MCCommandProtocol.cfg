\* Every documented line and a sample of malformed ones, in every order.
SPECIFICATION ProtocolSpec
CONSTANTS
    IncreasedPowerLevel = "Increased"
    IncreasedPowerDuration = 5000
    Lines <- MCLines
INVARIANTS
    ProtocolTypeOK
    StateResponseCoherent
    DocumentedGrammar
PROPERTIES
    ErrorChangesNothing
    SensorsReadBack
