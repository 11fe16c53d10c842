SPECIFICATION Spec
CONSTANTS
    t1 = t1 t2 = t2
    Tunnels = {t1, t2}
    NoTunnel = NoTunnel
    Keys = {"k1", "k2"}
    Pinned = {"k1"}
    Profiles <- SwitchedOff
    MaxOpens = 1
INVARIANTS
    PumpChannelIsLive
CHECK_DEADLOCK FALSE
