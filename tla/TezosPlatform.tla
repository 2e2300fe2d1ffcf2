--------------------------- MODULE TezosPlatform ---------------------------
(***************************************************************************)
(* The Tezos contracts together: the factories (bond/ForgeBondFactory and  *)
(* its copy emtn/ForgeEmtnFactory), the builder that hands out the lambdas *)
(* (bond/CreateAndPlayBuilder), the registry, and one of the bonds.  The   *)
(* other instruments run the same code on storage of their own: only their *)
(* addresses appear here.                                                  *)
(*                                                                         *)
(* A contract calls another inside one operation: if any part of it fails, *)
(* all of it does.  An instrument is originated and listed, or neither.    *)
(***************************************************************************)
EXTENDS TezosBond, TezosRegistry

CONSTANTS
    Factories,      \* the factory contracts, which call the registry too
    Admin,          \* the administrator of the factories
    FollowedBond,   \* the instrument whose storage is followed
    Packages        \* the sets of lambdas somebody sends by hand

VARIABLES
    factoryEntrypoints,     \* entrypointsBigMap of each factory
    bytesScripts,           \* the lambdas the builder holds
    others                  \* the other instruments originated

factoryVars == <<factoryEntrypoints, bytesScripts, others>>
platformVars == <<bondVars, registryVars, factoryVars>>

ASSUME TezosPlatformAssumption ==
    /\ Factories \subseteq Callers
    /\ Admin \in Addresses
    /\ FollowedBond \in Instruments
    /\ Packages \subseteq SUBSET Lambdas

BuildCreateAndPlay ==
    /\ bytesScripts' = Lambdas
    /\ UNCHANGED <<bondVars, registryVars, factoryEntrypoints, others>>

UpgradeFactory(f, sender, source, entrypoints) ==
    /\ Admin \in {sender, source}
    /\ factoryEntrypoints' = [factoryEntrypoints EXCEPT ![f] = @ \cup entrypoints]
    /\ UNCHANGED <<bondVars, registryVars, bytesScripts, others>>

\* The builder must hold all five lambdas.  Anybody may call it: it is the
\* contract it sends to that looks at who is behind the call.
SendCreateAndPlay(source) ==
    /\ bytesScripts = Lambdas
    /\ \/ \E f \in Factories : UpgradeFactory(f, "builder", source, bytesScripts)
       \/ UpgradeBond("builder", source, bytesScripts) /\ UNCHANGED <<registryVars, factoryVars>>

UpgradeByHand(sender) ==
    \E entrypoints \in Packages :
        \/ \E f \in Factories : UpgradeFactory(f, sender, sender, entrypoints)
        \/ UpgradeBond(sender, sender, entrypoints) /\ UNCHANGED <<registryVars, factoryVars>>

\* The registrar of the factory creates an instrument whose registrar it is.
\* Nobody checks that the factory has its lambdas.
CreateForgeBond(f, sender, entry) ==
    /\ sender = Registrar
    /\ ListInstrument(f, entry)
    /\ \/ /\ entry.instrument = FollowedBond
          /\ Originate(factoryEntrypoints[f])
          /\ UNCHANGED others
       \/ /\ entry.instrument \in Instruments \ (others \cup {FollowedBond})
          /\ others' = others \cup {entry.instrument}
          /\ UNCHANGED bondVars
    /\ UNCHANGED <<factoryEntrypoints, bytesScripts>>

-----------------------------------------------------------------------------

PlatformInit ==
    /\ BondInit
    /\ RegistryInit
    /\ factoryEntrypoints = [f \in Factories |-> {}]
    /\ bytesScripts = {}
    /\ others = {}

PlatformNext ==
    \/ BondCall /\ UNCHANGED <<registryVars, factoryVars>>
    \/ RegistryCall(Callers \ Factories) /\ UNCHANGED <<bondVars, factoryVars>>
    \/ BuildCreateAndPlay
    \/ \E a \in Addresses :
          \/ SendCreateAndPlay(a)
          \/ UpgradeByHand(a)
          \/ \E f \in Factories, entry \in Instrument : CreateForgeBond(f, a, entry)

PlatformSpec == PlatformInit /\ [][PlatformNext]_platformVars

-----------------------------------------------------------------------------
(* Properties. *)

\* The state of the factories and of the builder has its type.
PlatformTypeOK ==
    /\ BondTypeOK
    /\ RegistryTypeOK
    /\ factoryEntrypoints \in [Factories -> SUBSET Lambdas]
    /\ bytesScripts \in SUBSET Lambdas
    /\ others \subseteq Instruments \ {FollowedBond}

=============================================================================
