SPECIFICATION Spec
CONSTANTS
    issuer = issuer
    alice = alice
    bob = bob
    registrar = registrar
    settler = settler
    Accounts = {issuer, alice}
    Agents = {registrar, settler}
    Issuer = issuer
    Registrar = registrar
    Settler = settler
    InitialSupply = 2
    TxIds = {t1, t2}
    OperationIds = {o1, o2}
    Quantities = {1}
    MaxUint = 2
    MaxAuthorizations = 0
    MaxRedemption = 2
    NoAddress = NoAddress
    NoOperation = NoOperation
INVARIANTS
    PendingHasOperationType
CHECK_DEADLOCK FALSE
