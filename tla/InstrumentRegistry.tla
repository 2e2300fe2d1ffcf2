------------------------- MODULE InstrumentRegistry -------------------------
(***************************************************************************)
(* The registry contract, contracts/ForgeInstrumentRegistry.sol: which     *)
(* factory creates instruments of a type, and which instruments exist, by  *)
(* name and by ISIN.  Each call is one action, as in ForgeBond.  The       *)
(* registry stores one fact in several places (a mapping and an array of   *)
(* its keys; two indexes, a link between them and an array of the values)  *)
(* and the properties relate them.                                         *)
(*                                                                         *)
(* A caller is any address.  The registry believes an authorized factory:  *)
(* it may list an address twice, under two names, or the zero address.     *)
(***************************************************************************)
EXTENDS Integers, Sequences, FiniteSets

CONSTANTS
    Addresses,      \* whoever calls, the factories included
    Owner,          \* the owner given to the constructor
    FactoryTypes,   \* types of factory: "Bond", "EMTN"
    Names, Isins,   \* names and ISINs of instruments
    Instruments,    \* addresses of instruments
    NoAddress,      \* the zero address, and the value of an unset slot
    EmptyString,    \* the value of an unset string, which is also a name
    MaxInstruments  \* bound: the length of the array of instruments

VARIABLES
    factories,              \* factories[factoryType]
    factoryTypes,           \* the types in the mapping above
    instrumentsByName,
    instrumentsByIsinCode,
    isinToName,
    instruments             \* the values of the two mappings

factoryVars == <<factories, factoryTypes>>
indexVars == <<instrumentsByName, instrumentsByIsinCode, isinToName>>
instrumentVars == <<indexVars, instruments>>
registryVars == <<factoryVars, instrumentVars>>

ASSUME RegistryAssumption ==
    /\ Owner \in Addresses
    /\ NoAddress \notin Addresses \cup Instruments
    /\ IsFiniteSet(Isins)
    /\ EmptyString \in Names
    /\ MaxInstruments \in Nat

-----------------------------------------------------------------------------
(* Arrays. *)

\* Mutant: the last element is popped without taking the place of the one
\* removed.
MutPopOnly(arr, i) == SubSeq(arr, 1, Len(arr) - 1)

\* arr[i] = arr[arr.length - 1]; arr.pop()
SwapPop(arr, i) == SubSeq([arr EXCEPT ![i] = arr[Len(arr)]], 1, Len(arr) - 1)

\* The index a loop with a return at the first match stops at.
IsFirst(P, i) == i \in P /\ \A j \in P : i <= j

-----------------------------------------------------------------------------
(* Factories. *)

OnlyOwner(caller) == caller = Owner

\* The places of factoryTypes whose factory is this one.
TypesOf(factory) == {i \in DOMAIN factoryTypes : factories[factoryTypes[i]] = factory}

IsFactoryAuthorized(factory) == TypesOf(factory) # {}

\* The factory of a type is replaced without a word to the previous one.
AuthorizeFactory(caller, t, factory) ==
    /\ OnlyOwner(caller)
    /\ factoryTypes' = IF factories[t] = NoAddress THEN Append(factoryTypes, t)
                                                   ELSE factoryTypes
    /\ factories' = [factories EXCEPT ![t] = factory]
    /\ UNCHANGED instrumentVars

\* Mutant: the type is deleted from the mapping after the swap, so that it
\* is the type that was last.
MutDeleteAfterSwap(caller, factory) ==
    /\ OnlyOwner(caller)
    /\ \E i \in DOMAIN factoryTypes :
          /\ IsFirst(TypesOf(factory), i)
          /\ factories' = [factories EXCEPT ![factoryTypes[Len(factoryTypes)]] = NoAddress]
          /\ factoryTypes' = SwapPop(factoryTypes, i)
    /\ UNCHANGED instrumentVars

\* Only the first type of the factory, which stays authorized if it has
\* another; it reverts for a factory that has none.
UnAuthorizeFactory(caller, factory) ==
    /\ OnlyOwner(caller)
    /\ \E i \in DOMAIN factoryTypes :
          /\ IsFirst(TypesOf(factory), i)
          /\ factories' = [factories EXCEPT ![factoryTypes[i]] = NoAddress]
          /\ factoryTypes' = SwapPop(factoryTypes, i)
    /\ UNCHANGED instrumentVars

-----------------------------------------------------------------------------
(* Instruments. *)

\* Mutant: only the name has to be free.
MutNameOnly(name, isin) == instrumentsByName[name] = NoAddress

Listable(name, isin) ==
    /\ instrumentsByName[name] = NoAddress
    /\ instrumentsByIsinCode[isin] = NoAddress

ListInstrument(caller, name, isin, instrument) ==
    /\ IsFactoryAuthorized(caller)
    /\ Len(instruments) < MaxInstruments
    /\ Listable(name, isin)
    /\ instrumentsByName' = [instrumentsByName EXCEPT ![name] = instrument]
    /\ instrumentsByIsinCode' = [instrumentsByIsinCode EXCEPT ![isin] = instrument]
    /\ isinToName' = [isinToName EXCEPT ![isin] = name]
    /\ instruments' = Append(instruments, instrument)
    /\ UNCHANGED factoryVars

\* The array without the first occurrence of the instrument.
WithoutFirst(instrument) ==
    LET places == {i \in DOMAIN instruments : instruments[i] = instrument}
    IN  IF places = {} THEN instruments
        ELSE SwapPop(instruments, CHOOSE i \in places : IsFirst(places, i))

\* Mutant: the link to the name is deleted before it is followed.
MutUnlinkFirst(caller, isin) ==
    /\ IsFactoryAuthorized(caller)
    /\ instrumentsByIsinCode[isin] # NoAddress
    /\ isinToName' = [isinToName EXCEPT ![isin] = EmptyString]
    /\ instrumentsByName' = [instrumentsByName EXCEPT ![isinToName'[isin]] = NoAddress]
    /\ instrumentsByIsinCode' = [instrumentsByIsinCode EXCEPT ![isin] = NoAddress]
    /\ instruments' = WithoutFirst(instrumentsByIsinCode[isin])
    /\ UNCHANGED factoryVars

UnListInstrument(caller, isin) ==
    /\ IsFactoryAuthorized(caller)
    /\ instrumentsByIsinCode[isin] # NoAddress
    /\ instrumentsByName' = [instrumentsByName EXCEPT ![isinToName[isin]] = NoAddress]
    /\ instrumentsByIsinCode' = [instrumentsByIsinCode EXCEPT ![isin] = NoAddress]
    /\ isinToName' = [isinToName EXCEPT ![isin] = EmptyString]
    /\ instruments' = WithoutFirst(instrumentsByIsinCode[isin])
    /\ UNCHANGED factoryVars

-----------------------------------------------------------------------------

RegistryInit ==
    /\ factories = [t \in FactoryTypes |-> NoAddress]
    /\ factoryTypes = <<>>
    /\ instrumentsByName = [n \in Names |-> NoAddress]
    /\ instrumentsByIsinCode = [i \in Isins |-> NoAddress]
    /\ isinToName = [i \in Isins |-> EmptyString]
    /\ instruments = <<>>

RegistryNext ==
    \E caller \in Addresses :
        \/ \E t \in FactoryTypes, factory \in Addresses :
              AuthorizeFactory(caller, t, factory)
        \/ \E factory \in Addresses : UnAuthorizeFactory(caller, factory)
        \/ \E n \in Names, i \in Isins, a \in Instruments \cup {NoAddress} :
              ListInstrument(caller, n, i, a)
        \/ \E i \in Isins : UnListInstrument(caller, i)

RegistrySpec == RegistryInit /\ [][RegistryNext]_registryVars

-----------------------------------------------------------------------------
(* Properties. *)

\* The mappings and arrays have values of their types.
RegistryTypeOK ==
    /\ factories \in [FactoryTypes -> Addresses \cup {NoAddress}]
    /\ factoryTypes \in Seq(FactoryTypes)
    /\ instrumentsByName \in [Names -> Instruments \cup {NoAddress}]
    /\ instrumentsByIsinCode \in [Isins -> Instruments \cup {NoAddress}]
    /\ isinToName \in [Isins -> Names]
    /\ instruments \in Seq(Instruments \cup {NoAddress})

\* The array of types has the keys of the mapping of factories, each once:
\* authorizeFactory pushes a type when it is new and unAuthorizeFactory
\* moves the last type into the place of the one it deletes.
TypesAreTheKeys ==
    /\ \A i, j \in DOMAIN factoryTypes : factoryTypes[i] = factoryTypes[j] => i = j
    /\ \A t \in FactoryTypes :
          factories[t] # NoAddress <=> \E i \in DOMAIN factoryTypes : factoryTypes[i] = t

Listed(isin) == instrumentsByIsinCode[isin] # NoAddress

\* The two indexes are one relation: the name of a listed ISIN leads to the
\* same instrument, two listed ISINs have two names, and every name found
\* belongs to a listed ISIN (so that unListInstrument, which is only given
\* an ISIN, deletes both and nothing else).
IndexesAgree ==
    /\ \A i \in Isins : Listed(i) => instrumentsByName[isinToName[i]] = instrumentsByIsinCode[i]
    /\ \A i, j \in Isins : Listed(i) /\ Listed(j) /\ isinToName[i] = isinToName[j] => i = j
    /\ \A n \in Names : instrumentsByName[n] # NoAddress =>
          \E i \in Isins : Listed(i) /\ isinToName[i] = n

\* getAllInstruments answers each instrument as many times as it is listed,
\* whatever was listed and unlisted before, in any order and by whom.
AllInstrumentsAreListed ==
    \A a \in Instruments :
        Cardinality({k \in DOMAIN instruments : instruments[k] = a})
            = Cardinality({i \in Isins : instrumentsByIsinCode[i] = a})

\* The registry is a directory in which names and ISINs are unique, changed
\* by the factories the mapping authorizes and by nobody else.
Directory == INSTANCE InstrumentDirectory WITH
    directory <- {[name |-> isinToName[i], isin |-> i,
                   instrument |-> instrumentsByIsinCode[i]] : i \in {j \in Isins : Listed(j)}},
    authorized <- factories

IsADirectory == Directory!Spec

==============================================================================
