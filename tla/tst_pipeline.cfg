SPECIFICATION Spec
CONSTANTS
    f1 = f1 a1 = a1 d1 = d1 d2 = d2 c1 = c1 b1 = b1
    p1 = p1 p2 = p2 p3 = p3 k1 = k1 k2 = k2
    Fund = {f1}
    Allocation = {a1}
    Distribution = {d1, d2}
    Contribution = {c1}
    Beneficiary = {b1}
    Participant = {p1, p2, p3}
    Key = {k1, k2}
    Nobody = Nobody
    NoKey = NoKey
    FundOf <- MCFundOf
    AllocationOf <- MCAllocationOf
    BeneficiaryOf <- MCBeneficiaryOf
    ContributionFund <- MCContributionFund
    ContributionAmount <- MCContributionAmount
    Authorized <- MCAuthorized
    Amount = {1, 2}
    RolesOf <- AllRoles
    AllocationMoves <- AnyAllocationMove
    ContributionMoves <- AnyContributionMove
SYMMETRY Symmetric
INVARIANTS
    TypeOK
    DutiesSegregated
    PipelineConsistent
    CommitmentsAreApprovals
    DisbursementsAreReconciliations
    SettledCanBeBooked
    FundSolvent
PROPERTIES
    ImplementsLifecycle
