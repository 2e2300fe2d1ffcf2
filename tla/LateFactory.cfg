\* One type whose factory is replaced while the service runs.
CONSTANTS
    factory1 = factory1
    factory2 = factory2
    bond = bond
    emtn = emtn
    name1 = name1
    name2 = name2
    isin1 = isin1
    isin2 = isin2
    instrument1 = instrument1
    instrument2 = instrument2
    Addresses = {owner, factory1, factory2}
    Owner = owner
    Factories = {factory1, factory2}
    FactoryTypes = {bond}
    Names = {name1, name2}
    Isins = {isin1, isin2}
    Instruments = {instrument1, instrument2}
    NoAddress = NoAddress
    EmptyString = name1
    MaxInstruments = 2
    BondInputs <- TwoBonds
    MaxEvents = 0
    MaxFailures = 0
SPECIFICATION EventSpec
INVARIANT NewBondsAreNotified
