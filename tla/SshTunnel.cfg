SPECIFICATION FairSpec
CONSTANTS
    t1 = t1 t2 = t2
    Tunnels = {t1, t2}
    NoTunnel = NoTunnel
    Keys = {"k1", "k2"}
    Pinned = {"k1"}
    Profiles <- MCProfiles
    MaxOpens = 2
INVARIANTS
    OneOutcome  NoOrphanChannel TrustedKeyOnly
PROPERTIES
    TunnelSettles UiReturns
CHECK_DEADLOCK FALSE
