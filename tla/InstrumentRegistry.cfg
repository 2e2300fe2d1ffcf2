\* Two types, of which one factory may have both; the owner may be a factory
\* too.  Three names, one of them empty; three ISINs; two instruments and the
\* zero address.  Four places in the array: one more than the ISINs.
CONSTANTS
    Addresses = {owner, bondFactory}
    Owner = owner
    FactoryTypes = {bond, emtn}
    Names = {empty, name1, name2}
    Isins = {isin1, isin2, isin3}
    Instruments = {instrument1, instrument2}
    NoAddress = NoAddress
    EmptyString = empty
    MaxInstruments = 4
SPECIFICATION RegistrySpec
INVARIANTS
    TypesAreTheKeys
    IndexesAgree
    AllInstrumentsAreListed
PROPERTY IsADirectory
