SPECIFICATION Spec
CONSTANTS
    p1 = p1 o1 = o1 r1 = r1 x1 = x1 x2 = x2 x3 = x3 m1 = m1
    Payment = {p1}
    Observation = {o1}
    Reconciliation = {r1}
    Actor = {x1, x2}
    PaymentRole = {"CHECKER"}
    SettlementRole = {"RECONCILIATION_CHECKER"}
    Decision = {"APPROVED"}
    Money = {m1}
    ObservedMoney <- OneSumSeen
    ObservedStatus <- AllStand
    Compliance = {"CLEAR"}
    Dispatch = {"ready"}
    Reviewed = {"route"}
    MatchStatus = {"MATCHED"}
    Agreement = {TRUE}
    ExceptionCount = {0}
    MaxRequired = 2
    Absent = Absent
INVARIANTS
    TypeOK
    ReconciledIsCompleted
    FinalIsEndorsed
PROPERTIES
    ImplementsPromise
SYMMETRY Symmetric
