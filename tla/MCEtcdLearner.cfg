SPECIFICATION MCSpec
CONSTANTS
    m1 = m1  m2 = m2  m3 = m3  m4 = m4
    Member = {m1, m2, m3, m4}
    Host <- MCHost
    Listing <- MCListing
    HostOf <- MCHostOf
    Request <- MCRequest
    Start <- MCStart
    MaxChanges = 2
    MaxSilent = 1
    NoMember = NoMember
    NoHost = NoHost
INVARIANT LearnerNeverQuorumBlocked
CHECK_DEADLOCK FALSE
