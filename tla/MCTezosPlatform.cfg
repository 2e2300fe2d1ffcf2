\* One account besides the three roles; the registrar of the bond owns the
\* registry and the factories, and may authorize itself as a factory.
CONSTANTS
    Addresses = {owner, alice, registrar, settler}
    Owner = owner
    Registrar = registrar
    Settler = settler
    InitialSupply = 2
    TxIds = {t1, t2}
    Quantities = {1, 2}
    NoAddress = NoAddress
    Callers = {bondFactory, registrar}
    RegistryOwner = registrar
    FactoryTypes = {bond, emtn}
    Names = {name1, name2}
    Isins = {isin1, isin2}
    Instruments = {bond1, bond2}
    NoFactory = NoFactory
    NoInstrument = NoInstrument
    Factories = {bondFactory}
    Admin = registrar
    FollowedBond = bond1
    Packages = {{"callInitiateSubscription"}}
SPECIFICATION PlatformSpec
INVARIANTS
    LocksArePending
    PendingCanDeliver
    MapsAgree
PROPERTIES
    BondIsDeliveryVersusPayment
    IsADirectory
SYMMETRY Symmetry
CHECK_DEADLOCK FALSE
