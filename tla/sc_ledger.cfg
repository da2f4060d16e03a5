SPECIFICATION FairSpec
CONSTANTS
    a1 = a1 a2 = a2 oa = oa ob = ob t1 = t1 t2 = t2 t3 = t3 t4 = t4 s1 = s1 s2 = s2
    Account = {a1, a2}
    Organization = {oa}
    Transaction = {t1, t2, t3, t4}
    Session = {s1, s2}
    OwnerOf <- OneOwner
    TypeOf <- MCType
    SourceOf <- MCSource
    DestinationOf <- MCDestination
    AmountOf <- MCAmount
    NoAccount = NoAccount
    Genesis <- MCGenesis
    ScanOrder <- MCScanOrder
    TransactionMoves <- AnyMove
    AppliedStatus = {"FROZEN"}
    NoCall = NoCall
    MaxSequence = 2
INVARIANTS
    TypeOK
    TestsHold
    SettledOnce
    ReplayNeverOverdraws
    SupplyConserved
PROPERTIES
    FrozenNeverMoves
    CallsEnd
    ImplementsCoinLedger
