-------------------------- MODULE ForgeBondFactory --------------------------
(***************************************************************************)
(* The factories, contracts/ForgeBondFactory.sol, over the registry: the   *)
(* chain as the oracles find it, where bonds appear through factories and  *)
(* emit events afterwards.  A factory only ever lists what it has just     *)
(* created, so that of the registry's calls only these remain: the owner   *)
(* changes the factories, and a factory lists a new bond.                  *)
(*                                                                         *)
(* The events are kept in the order of the chain, as a node replays them.  *)
(***************************************************************************)
EXTENDS InstrumentRegistry

CONSTANTS
    Factories,      \* the addresses of factories
    BondInputs,     \* what bonds are created from
    MaxEvents       \* bound: events of a bond

VARIABLES
    instrumentListed,   \* the InstrumentListed events of all factories
    eventCount          \* how many events a bond has emitted

chainVars == <<registryVars, instrumentListed, eventCount>>

\* `address` stands for the address the creation gets on the chain, which
\* is fresh; the rest is the input.
ASSUME FactoryAssumption ==
    /\ Factories \subseteq Addresses
    /\ BondInputs \subseteq [name : Names, isinCode : Isins, address : Instruments]
    /\ MaxEvents \in Nat

Listing == [factory : Factories, instrument : Instruments]

Created(a) == \E k \in DOMAIN instrumentListed : instrumentListed[k].instrument = a

\* onlyOwner of the factory and the check that its owner is the registrar of
\* the bond are about the caller only: FRO owns its factories and puts its
\* own address (maybeReplaceRegistrarAddress).  A creation that cannot be
\* listed reverts, and no bond is left.
CreateForgeBond(factory, input) ==
    /\ ~Created(input.address)
    /\ ListInstrument(factory, input.name, input.isinCode, input.address)
    /\ instrumentListed' = Append(instrumentListed,
                                  [factory |-> factory, instrument |-> input.address])
    /\ UNCHANGED eventCount

\* A bond works (ForgeBond) and emits an event.
EmitEvent(a) ==
    /\ Created(a)
    /\ eventCount[a] < MaxEvents
    /\ eventCount' = [eventCount EXCEPT ![a] = @ + 1]
    /\ UNCHANGED <<registryVars, instrumentListed>>

ChainInit ==
    /\ RegistryInit
    /\ instrumentListed = <<>>
    /\ eventCount = [a \in Instruments |-> 0]

ChangeFactories ==
    /\ \/ \E t \in FactoryTypes, f \in Factories : AuthorizeFactory(Owner, t, f)
       \/ \E f \in Factories : UnAuthorizeFactory(Owner, f)
    /\ UNCHANGED <<instrumentListed, eventCount>>

ChainNext ==
    \/ ChangeFactories
    \/ \E f \in Factories, input \in BondInputs : CreateForgeBond(f, input)
    \/ \E a \in Instruments : EmitEvent(a)

==============================================================================
