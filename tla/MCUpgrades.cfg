SPECIFICATION MCSpec
CONSTANTS
    N = 2
    MaxVersion = 3
    MaxTrouble = 2
INVARIANTS
    LeaseSpansUpgrade AppliedIsApplied
    CompletedIsWhole SkewKept NeverUnattended
PROPERTIES OperatorCordonKept UpgradeEnds Resumes
CHECK_DEADLOCK FALSE
