------------------------- MODULE InstrumentDirectory -------------------------
(***************************************************************************)
(* What the instrument registry promises: a directory of entries           *)
(* [name, isin, instrument] in which a name and an ISIN each stand for one *)
(* entry.  A factory that is authorized for some type adds and removes     *)
(* entries; the owner decides which factory is authorized for a type.      *)
(***************************************************************************)
EXTENDS Integers

CONSTANTS Addresses, FactoryTypes, Names, Isins, Instruments, NoAddress

VARIABLES
    directory,  \* the entries
    authorized  \* the factory authorized for a type, if any

Entry == [name : Names, isin : Isins, instrument : Instruments]

Authorized(factory) == \E t \in FactoryTypes : authorized[t] = factory

Init ==
    /\ directory = {}
    /\ authorized = [t \in FactoryTypes |-> NoAddress]

Authorize(t, factory) ==
    /\ authorized' = [authorized EXCEPT ![t] = factory]
    /\ UNCHANGED directory

\* One or more of the types a factory is authorized for, whichever.
UnAuthorize(factory) ==
    /\ \E ts \in SUBSET FactoryTypes :
          /\ ts # {}
          /\ \A t \in ts : authorized[t] = factory
          /\ authorized' = [t \in FactoryTypes |-> IF t \in ts THEN NoAddress ELSE authorized[t]]
    /\ UNCHANGED directory

List(factory, entry) ==
    /\ Authorized(factory)
    /\ \A other \in directory : other.name # entry.name /\ other.isin # entry.isin
    /\ directory' = directory \cup {entry}
    /\ UNCHANGED authorized

UnList(factory, entry) ==
    /\ Authorized(factory)
    /\ entry \in directory
    /\ directory' = directory \ {entry}
    /\ UNCHANGED authorized

Next ==
    \/ \E t \in FactoryTypes, f \in Addresses : Authorize(t, f)
    \/ \E f \in Addresses : UnAuthorize(f)
    \/ \E f \in Addresses, e \in Entry : List(f, e) \/ UnList(f, e)

Spec == Init /\ [][Next]_<<directory, authorized>>
==============================================================================
