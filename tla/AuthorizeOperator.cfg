\* An operator that is authorized once the bond has its lambdas.
CONSTANTS
    Addresses = {owner, alice, registrar, settler}
    Owner = owner
    Registrar = registrar
    Settler = settler
    InitialSupply = 2
    TxIds = {t1, t2}
    Quantities = {1, 2}
    NoAddress = NoAddress
    Callers = {bondFactory, registrar}
    RegistryOwner = registrar
    FactoryTypes = {bond, emtn}
    Names = {name1, name2}
    Isins = {isin1, isin2}
    Instruments = {bond1, bond2}
    NoFactory = NoFactory
    NoInstrument = NoInstrument
    Factories = {bondFactory}
    Admin = registrar
    FollowedBond = bond1
    Packages = {}
SPECIFICATION PlatformSpec
INVARIANTS
    NewRolesAreGranted
CHECK_DEADLOCK FALSE
