SPECIFICATION FairTransactionsSpec
CONSTANTS
    f1 = f1 a1 = a1 a2 = a2 d1 = d1 d2 = d2 c1 = c1 b1 = b1
    p1 = p1 p2 = p2 k1 = k1 k2 = k2 s1 = s1 s2 = s2
    Fund = {f1}
    Allocation = {a1}
    Distribution = {d1, d2}
    Contribution = {c1}
    Beneficiary = {b1}
    Participant = {p1, p2}
    Key = {k1}
    Nobody = Nobody
    NoKey = NoKey
    FundOf <- MCFundOf
    AllocationOf <- SharedAllocation
    BeneficiaryOf <- MCBeneficiaryOf
    ContributionFund <- MCContributionFund
    ContributionAmount <- Receipts1
    Authorized <- Authorized1
    Amount = {1}
    RolesOf <- TwoOfficers
    AllocationMoves <- Suspension
    ContributionMoves <- Receipt
    Session = {s1, s2}
    Call <- CompetingCall
    NoCall = NoCall
INVARIANTS
    SessionsTypeOK
    LockedTestsHold
    NoDeadlock

PROPERTIES
    ImplementsLifecycle
    CallsReturn

