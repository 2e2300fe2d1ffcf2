SPECIFICATION Spec
CONSTANTS
    issuer = issuer
    alice = alice
    bob = bob
    registrar = registrar
    settler = settler
    Accounts = {issuer, alice}
    Agents = {registrar}
    Issuer = issuer
    Registrar = registrar
    Settler = registrar
    InitialSupply = 3
    TxIds = {t1, t2}
    OperationIds = {o1}
    Quantities = {1, 2}
    MaxUint = 4
    MaxAuthorizations = 1
    MaxRedemption = 2
    NoAddress = NoAddress
    NoOperation = NoOperation
INVARIANTS
    LockedWithinBalance
    SupplyConserved
    HoldersListedOnce
    TotalSupplyOverstatesByLocks
PROPERTIES
    NoDeliveryWithoutPayment
    TermsAreKept
    RolesChangeOneByOne
SYMMETRY Symmetry
CHECK_DEADLOCK FALSE
