--------------------------- MODULE TezosRegistry ---------------------------
(***************************************************************************)
(* The Tezos registry, cast-tz-v1/src/ForgeInstrumentRegistry.  It is      *)
(* simpler than the Ethereum one: two maps, each from a key to the whole   *)
(* entry, and no array.  A factory loses all its types at once.            *)
(***************************************************************************)
EXTENDS Integers

CONSTANTS
    Callers,        \* whoever calls the registry, the factories included
    RegistryOwner,  \* registrarAddress of the registry
    FactoryTypes, Names, Isins, Instruments,
    NoFactory, NoInstrument

VARIABLES factories, tokensByName, tokensByIsinCode

tokenMaps == <<tokensByName, tokensByIsinCode>>
registryVars == <<factories, tokenMaps>>

ASSUME TezosRegistryAssumption ==
    /\ NoFactory \notin Callers
    /\ NoInstrument \notin [name : Names, isin : Isins, instrument : Instruments]

Instrument == [name : Names, isin : Isins, instrument : Instruments]

failIfSenderIsNotRegistryOwner(sender) == sender = RegistryOwner

SenderIsAuthorizedFactory(sender) == \E t \in FactoryTypes : factories[t] = sender

AuthorizeFactory(sender, t, factory) ==
    /\ failIfSenderIsNotRegistryOwner(sender)
    /\ factories' = [factories EXCEPT ![t] = factory]
    /\ UNCHANGED tokenMaps

\* All the types of the factory; it does not fail if there are none.
UnAuthorizeFactory(sender, factory) ==
    /\ failIfSenderIsNotRegistryOwner(sender)
    /\ factories' = [t \in FactoryTypes |-> IF factories[t] = factory THEN NoFactory
                                                                      ELSE factories[t]]
    /\ UNCHANGED tokenMaps

\* Mutant: only the name has to be free.
MutNameOnly(entry) == tokensByName[entry.name] = NoInstrument

Listable(entry) ==
    /\ tokensByName[entry.name] = NoInstrument
    /\ tokensByIsinCode[entry.isin] = NoInstrument

ListInstrument(sender, entry) ==
    /\ SenderIsAuthorizedFactory(sender)
    /\ Listable(entry)
    /\ tokensByName' = [tokensByName EXCEPT ![entry.name] = entry]
    /\ tokensByIsinCode' = [tokensByIsinCode EXCEPT ![entry.isin] = entry]
    /\ UNCHANGED factories

\* Mutant: the name stays.
MutForgetName(sender, isin) ==
    /\ SenderIsAuthorizedFactory(sender)
    /\ tokensByIsinCode[isin] # NoInstrument
    /\ tokensByIsinCode' = [tokensByIsinCode EXCEPT ![isin] = NoInstrument]
    /\ UNCHANGED <<factories, tokensByName>>

UnlistInstrument(sender, isin) ==
    /\ SenderIsAuthorizedFactory(sender)
    /\ tokensByIsinCode[isin] # NoInstrument
    /\ tokensByName' = [tokensByName EXCEPT ![tokensByIsinCode[isin].name] = NoInstrument]
    /\ tokensByIsinCode' = [tokensByIsinCode EXCEPT ![isin] = NoInstrument]
    /\ UNCHANGED factories

RegistryInit ==
    /\ factories = [t \in FactoryTypes |-> NoFactory]
    /\ tokensByName = [n \in Names |-> NoInstrument]
    /\ tokensByIsinCode = [i \in Isins |-> NoInstrument]

\* The calls made from outside the platform's factories.
RegistryCall(senders) ==
    \E sender \in senders :
        \/ \E t \in FactoryTypes, f \in Callers : AuthorizeFactory(sender, t, f)
        \/ \E f \in Callers : UnAuthorizeFactory(sender, f)
        \/ \E entry \in Instrument : ListInstrument(sender, entry)
        \/ \E i \in Isins : UnlistInstrument(sender, i)

-----------------------------------------------------------------------------
(* Properties. *)

\* The maps have values of their types.
RegistryTypeOK ==
    /\ factories \in [FactoryTypes -> Callers \cup {NoFactory}]
    /\ tokensByName \in [Names -> Instrument \cup {NoInstrument}]
    /\ tokensByIsinCode \in [Isins -> Instrument \cup {NoInstrument}]

\* An entry is found under its own name and its own ISIN, or not at all:
\* unlistInstrument, which is given an ISIN, leaves no name behind.
MapsAgree ==
    /\ \A n \in Names : tokensByName[n] # NoInstrument =>
          tokensByName[n].name = n /\ tokensByIsinCode[tokensByName[n].isin] = tokensByName[n]
    /\ \A i \in Isins : tokensByIsinCode[i] # NoInstrument =>
          tokensByIsinCode[i].isin = i /\ tokensByName[tokensByIsinCode[i].name] = tokensByIsinCode[i]

\* The Tezos registry is the same directory as the Ethereum one.
Directory == INSTANCE InstrumentDirectory WITH
    Addresses <- Callers,
    directory <- {tokensByIsinCode[i] : i \in Isins} \ {NoInstrument},
    authorized <- factories, NoAddress <- NoFactory

IsADirectory == Directory!Spec
=============================================================================
