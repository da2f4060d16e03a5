SPECIFICATION Spec
CONSTANTS
    Organization = {o1, o2}
    Id = {i1, i2}
    Kinds <- Executions
    Unfiled = Unfiled
SYMMETRY Symmetric
CHECK_DEADLOCK FALSE
INVARIANTS
    IndependentOfParent
