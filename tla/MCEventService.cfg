\* One factory that may have one type, both in turn or both at once, or be
\* unauthorized at any moment; two bonds that emit an event; one failure of a
\* read, a subscription or a handler, wherever it may be.  No symmetry: the
\* run checks liveness.
CONSTANTS
    factory1 = factory1
    factory2 = factory2
    bond = bond
    emtn = emtn
    name1 = name1
    name2 = name2
    isin1 = isin1
    isin2 = isin2
    instrument1 = instrument1
    instrument2 = instrument2
    Addresses = {owner, factory1}
    Owner = owner
    Factories = {factory1}
    FactoryTypes = {bond, emtn}
    Names = {name1, name2}
    Isins = {isin1, isin2}
    Instruments = {instrument1, instrument2}
    NoAddress = NoAddress
    EmptyString = name1
    MaxInstruments = 2
    BondInputs <- TwoBonds
    MaxEvents = 1
    MaxFailures = 1
SPECIFICATION EventSpec
INVARIANTS
    EventTypeOK
    OneStreamPerBond
    OneStreamPerFactory
    NoBondIsMissed
PROPERTIES
    BondsAreFollowed
    EventsAreNotified
