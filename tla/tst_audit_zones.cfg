SPECIFICATION Spec
CONSTANTS
    s1 = s1 s2 = s2 e1 = e1 e2 = e2 c1 = c1 utc = utc cet = cet
    Session = {s1, s2}
    Entity = {e1, e2}
    Content = {c1}
    Zone = {utc, cet}
    Hash <- JoinedText
    ZoneOf <- TwoZones
    Nobody = Nobody
    NoHash = NoHash
    MaxClock = 1
    MaxEvents = 2
INVARIANTS
    ChainVerifies
