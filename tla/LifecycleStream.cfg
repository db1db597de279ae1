SPECIFICATION StreamSpec
CONSTANTS
    Slots = {"events"}
    MaxStream = 2
    MaxSwitch = 1
    MaxLine = 2
    MaxRows = 1
INVARIANTS RowsAreTheStream
PROPERTIES StreamsReleased
CHECK_DEADLOCK FALSE
