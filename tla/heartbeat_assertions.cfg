CONSTANTS
    Credential = {c1}
    Device = {d1}
    Session = {s1, s2}
    MaxTime = 2
    MaxAssertions = 2
SPECIFICATION Spec
SYMMETRY Symmetric
INVARIANTS
    TypeOK
    RestsOnEvidence
