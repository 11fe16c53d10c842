SPECIFICATION AllSpec
CONSTANTS
    Messages <- MCMessages
    MaxBody <- MCMaxBody
    r1 = r1 r2 = r2 r3 = r3
    Requests = {r1, r2, r3}
    NoReply = NoReply
    Certs = {"c1", "c2"}
    Pinned = {"c1"}
    Profiles <- MCProfiles
    MaxNonce = 2
    MaxSettings = 1
SYMMETRY Symmetry
INVARIANTS
    SingleFlight QueueServed NoReplyStranded NonceCountUnique BodyExact
PROPERTIES
    OutcomeIsFinal
CHECK_DEADLOCK FALSE
