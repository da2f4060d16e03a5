SPECIFICATION Spec
CONSTANTS
    Instruction = {}
    Request = {r1}
    Case = {c1}
    Actor = {a1, a2, a3}
    Quota = {1, 2}
    Decision = {"APPROVE", "REJECT", "ABSTAIN"}
    RequestStatus = {"PENDING", "APPROVED", "REJECTED", "EXPIRED", "CANCELLED"}
    CaseStatus = {"OPEN", "CLEARED"}
    Status = {"DRAFT"}
    None = None
INVARIANTS
    ApprovedIsUnopposed
SYMMETRY ActorSymmetry
