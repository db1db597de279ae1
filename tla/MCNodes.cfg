SPECIFICATION MCSpec
CONSTANTS
    cp1 = cp1  cp2 = cp2  cp3 = cp3  work = work  spare = spare
    Member = {cp1, cp2, cp3, work, spare}
    Host <- MCHost
    NameOf <- MCNameOf
    AddressOf <- MCAddressOf
    MemberHost <- MCMemberHost
    Device = {"sda", "sdb"}
    Serial = {0, 1, 2}
    Request <- MCRequest
    Start <- MCStart
    Disks <- MCDisks
    MaxChanges = 1
    MaxSilent = 1
    NoMember = NoMember
    NoHost = NoHost
    Slots = {"logs", "health"}
    MaxStream = 2
    MaxSwitch = 1
    MaxLine = 1
    MaxRows = 1
INVARIANTS ActsAsShown ErasesAsShown QuorumKept ReportedTruly NeverAbandoned VerdictIsServers
CHECK_DEADLOCK FALSE
