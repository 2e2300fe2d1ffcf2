SPECIFICATION FinancialSpec
CONSTANTS
    issuer = issuer
    alice = alice
    bob = bob
    registrar = registrar
    settler = settler
    subscribe = subscribe
    trade = trade
    redeem = redeem
    Accounts = {issuer, alice, bob}
    Agents = {registrar, settler}
    Issuer = issuer
    Registrar = registrar
    Settler = settler
    InitialSupply = 2
    TxIds = {t1, t2, t3, t4}
    OperationIds = {subscribe, redeem}
    Quantities = {1,2}
    MaxUint = 2
    MaxAuthorizations = 0
    MaxRedemption = 2
    NoAddress = NoAddress
    NoOperation = NoOperation
    Requests = {r1}
    OperationKind <- Kinds
    ClientRequests <- TwoInvestors
    MaxSent = 1
PROPERTIES
    DrivesTheBond
    FreshRedemptionTakesAll
SYMMETRY Symmetry
CHECK_DEADLOCK FALSE
