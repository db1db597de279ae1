SPECIFICATION Spec
CONSTANTS
    Kinds = {"snapshot", "reboot", "reset", "upgrade"}
    Target = {"n1", "n2"}
    Selection = {{"n1"}, {"n1", "n2"}}
    Option = {"all", "system"}
    MaxOp = 3
    MaxSwitch = 1
INVARIANTS ExecutedAsShown ResultsAreTheBatch
PROPERTIES FlowEnds
CHECK_DEADLOCK FALSE
