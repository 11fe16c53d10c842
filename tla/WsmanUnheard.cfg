SPECIFICATION AllSpec
CONSTANTS
    Messages <- MCMessages
    MaxBody <- MCMaxBody
    r1 = r1 r2 = r2 r3 = r3
    Requests = {r1, r2, r3}
    NoReply = NoReply
    Certs = {"c1"}
    Pinned = {"c1"}
    Profiles <- DownProfiles
    MaxNonce = 1
    MaxSettings = 0
INVARIANT FinishedIsHeard
CHECK_DEADLOCK FALSE
