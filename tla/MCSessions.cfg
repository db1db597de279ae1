SPECIFICATION MCSpec
CONSTANTS
    s1 = s1  s2 = s2
    k1 = k1  k2 = k2
    Session = {s1, s2}
    Cluster = {k1, k2}
    Caller = {c1, c2}
    Plan = {p1, p2}
    ClusterOf <- MCClusterOf
    Writable = {s1, s2}
    NoUID = NoUID
    NoSession = NoSession
    NoPlan = NoPlan
    NoCaller = NoCaller
    Open = {o1, o2}
    NoOpen = NoOpen
INVARIANTS ClusterExclusion RegistryExact OneShotPlans NoStraySession
PROPERTIES ImplementsLease MutationsDrain AbandonedIsClosed
CHECK_DEADLOCK FALSE
