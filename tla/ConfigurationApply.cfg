SPECIFICATION ConfigurationFairSpec
CONSTANTS
    LastTarget = 2
    Choices = {{1, 2}}
    Disturbed = {2}
    MaxPreviews = 2
    MaxSessions = 2
    MaxAdverse = 1
INVARIANTS OutcomesTruthful PayloadOwned
PROPERTIES AppliedAsPreviewed WatchedCallEnds
CHECK_DEADLOCK FALSE
