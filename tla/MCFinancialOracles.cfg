SPECIFICATION FinancialSpec
CONSTANTS
    issuer = issuer
    alice = alice
    bob = bob
    registrar = registrar
    settler = settler
    subscribe = subscribe
    trade = trade
    redeem = redeem
    Accounts = {issuer, alice}
    Agents = {registrar, settler}
    Issuer = issuer
    Registrar = registrar
    Settler = settler
    InitialSupply = 2
    TxIds = {t1, t2, t3}
    OperationIds = {subscribe, trade, redeem}
    Quantities = {1, 2}
    MaxUint = 2
    MaxAuthorizations = 0
    MaxRedemption = 1
    NoAddress = NoAddress
    NoOperation = NoOperation
    Requests = {r1, r2}
    OperationKind <- Kinds
    ClientRequests <- OneInvestor
    MaxSent = 1
INVARIANTS
    OraclesTypeOK
    StrKnowsTheChain
    OneRedemption
    LocksMatchPending
    PendingCanSettle
    BurnedByRedemption
PROPERTIES
    IsDeliveryVersusPayment
SYMMETRY Symmetry
CHECK_DEADLOCK FALSE
