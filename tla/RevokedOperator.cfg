SPECIFICATION Spec
CONSTANTS
    issuer = issuer
    alice = alice
    bob = bob
    registrar = registrar
    settler = settler
    Accounts = {issuer, alice}
    Agents = {registrar, settler}
    Issuer = issuer
    Registrar = registrar
    Settler = settler
    InitialSupply = 1
    TxIds = {t1}
    OperationIds = {o1}
    Quantities = {1}
    MaxUint = 2
    MaxAuthorizations = 2
    MaxRedemption = 1
    NoAddress = NoAddress
    NoOperation = NoOperation
PROPERTIES
    RevokedOperatorIsNotAuthorized
CHECK_DEADLOCK FALSE
