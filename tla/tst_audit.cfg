CHECK_DEADLOCK FALSE
SPECIFICATION FairSpec
CONSTANTS
    s1 = s1 s2 = s2 e1 = e1 e2 = e2 c1 = c1 utc = utc cet = cet
    Session = {s1, s2}
    Entity = {e1, e2}
    Content = {c1}
    Zone = {utc}
    Hash <- JoinedText
    ZoneOf <- OneZone
    Nobody = Nobody
    NoHash = NoHash
    MaxClock = 2
    MaxEvents = 2
INVARIANTS
    TypeOK
    TailCurrent
    ChainVerifies
PROPERTIES
    AppendsReturn
    ImplementsAuditLog
