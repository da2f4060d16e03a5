SPECIFICATION Spec
CONSTANTS
    Instruction = {i1}
    Request = {r1}
    Case = {c1}
    Actor = {a1, a2}
    Quota = {1, 2}
    Decision = {"APPROVE"}
    RequestStatus = {"PENDING", "APPROVED"}
    CaseStatus = {"OPEN", "CLEARED"}
    Status = {"ACCEPTED", "SETTLED"}
    None = None
INVARIANTS
    TypeOK
    AdvancedIsEndorsed
PROPERTIES
    ImplementsRelease
SYMMETRY ActorSymmetry
