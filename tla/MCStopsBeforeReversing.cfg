\* A claim of the documents that the controller breaks: see MCRVCSWController.
SPECIFICATION Spec
CONSTANTS
    IncreasedPowerLevel = "Increased"
    IncreasedPowerDuration = 5000
PROPERTY StopsBeforeReversing
