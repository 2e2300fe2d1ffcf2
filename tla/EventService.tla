---------------------------- MODULE EventService ----------------------------
(***************************************************************************)
(* How an oracle comes to listen to every bond: fxo/event.service.ts for   *)
(* one ledger, over the chain of ForgeBondFactory.                         *)
(*                                                                         *)
(* initialize subscribes to the factories of the registry, concurrently,   *)
(* and then to the instruments of the registry, one after the other; from  *)
(* the moment it subscribes to a factory, the events of the factory make   *)
(* it subscribe to new instruments as well.  The two sets listenedFactories*)
(* and listenedContracts keep these from subscribing twice; they are       *)
(* changed before an await and changed back if the subscription fails.     *)
(*                                                                         *)
(* A subscription is a stream of the driver, which is not in this          *)
(* repository.  None of them is given a block to start from: the model     *)
(* lets the driver start a stream anywhere in the past of the chain, and   *)
(* takes it that nothing is left out after the subscription.               *)
(***************************************************************************)
EXTENDS ForgeBondFactory, SequencesExt

CONSTANT MaxFailures    \* bound: reads and subscriptions that fail

VARIABLES
    initialize,         \* where initialize is, and the instruments it read
    factoryTask,        \* its subscribeEventFactory, per type
    listenedFactories,
    listenedContracts,
    factoryStreams,     \* per address, the streams of InstrumentListed
    contractStreams,    \* per bond, the streams of its events
    listing,            \* handlers of InstrumentListed events being run
    handling,           \* handlers of bond events being run
    registryNotified,   \* the listings published to clients
    contractNotified,   \* the bond events published to clients
    failed              \* what could not be read or subscribed to

taskVars == <<initialize, factoryTask>>
streamVars == <<listenedFactories, listenedContracts, factoryStreams, contractStreams>>
handlerVars == <<listing, handling, registryNotified, contractNotified>>
serviceVars == <<taskVars, streamVars, handlerVars, failed>>
allVars == <<chainVars, serviceVars>>

ASSUME FailuresAssumption == MaxFailures \in Nat

Fails(what) ==
    /\ Cardinality(failed) < MaxFailures
    /\ failed' = failed \cup {what}

\* start: events up to it are not delivered.  next: the last one delivered.
Stream == [start : Nat, next : Nat]
NewStreams(now) == {[start |-> n, next |-> n] : n \in 0..now}

-----------------------------------------------------------------------------
(* subscribeEventFactories, subscribeEventFactory. *)

\* The types the registry has now: a type authorized later has no task.
ReadTypes ==
    /\ initialize.step = "types"
    /\ initialize' = [initialize EXCEPT !.step = "factories"]
    /\ factoryTask' = [t \in FactoryTypes |->
                          IF t \in ToSet(factoryTypes) THEN [step |-> "reading"]
                                                       ELSE [step |-> "done"]]
    /\ UNCHANGED <<chainVars, streamVars, handlerVars, failed>>

Adding(f) == [step |-> "adding", factory |-> f]
FactoryDone(t) == factoryTask' = [factoryTask EXCEPT ![t] = [step |-> "done"]]

\* Mutant: the factory is only added once it is listened to.
MutNoFactoryClaim(f) == UNCHANGED listenedFactories

\* No await between the test of ReadFactory and the addition.
ClaimFactory(f) == listenedFactories' = listenedFactories \cup {f}

\* The factory of the type, read for itself: the type may be gone (getFactory
\* answers the zero address, which is a valid one) or its factory replaced.
ReadFactory(t) ==
    /\ factoryTask[t].step = "reading"
    /\ LET f == factories[t]
       IN  IF f \in listenedFactories
           THEN FactoryDone(t) /\ UNCHANGED listenedFactories
           ELSE /\ factoryTask' = [factoryTask EXCEPT ![t] = Adding(f)]
                /\ ClaimFactory(f)
    /\ UNCHANGED <<chainVars, initialize, listenedContracts, factoryStreams,
                   contractStreams, handlerVars, failed>>

\* Promise.all rejects at the first read that fails, and initialize ends
\* there; the other tasks run on.
FailToReadFactory(t) ==
    /\ factoryTask[t].step = "reading"
    /\ Fails(t)
    /\ FactoryDone(t)
    /\ initialize' = [initialize EXCEPT !.step = "error"]
    /\ UNCHANGED <<chainVars, streamVars, handlerVars>>

ListenFactory(t) ==
    /\ factoryTask[t].step = "adding"
    /\ \E stream \in NewStreams(Len(instrumentListed)) :
          factoryStreams' = [factoryStreams EXCEPT ![factoryTask[t].factory] = Append(@, stream)]
    /\ FactoryDone(t)
    /\ UNCHANGED <<chainVars, initialize, listenedFactories, listenedContracts,
                   contractStreams, handlerVars, failed>>

\* The error is caught here, and initialize knows nothing of it.
FailToListenFactory(t) ==
    /\ factoryTask[t].step = "adding"
    /\ Fails(factoryTask[t].factory)
    /\ listenedFactories' = listenedFactories \ {factoryTask[t].factory}
    /\ FactoryDone(t)
    /\ UNCHANGED <<chainVars, initialize, listenedContracts, factoryStreams,
                   contractStreams, handlerVars>>

\* Mutant: the subscriptions to the factories are not awaited.
MutNotAwaited ==
    /\ initialize.step = "factories"
    /\ initialize' = [initialize EXCEPT !.step = "registry"]
    /\ UNCHANGED <<chainVars, factoryTask, streamVars, handlerVars, failed>>

FactoriesSubscribed ==
    /\ initialize.step = "factories"
    /\ \A t \in FactoryTypes : factoryTask[t].step = "done"
    /\ initialize' = [initialize EXCEPT !.step = "registry"]
    /\ UNCHANGED <<chainVars, factoryTask, streamVars, handlerVars, failed>>

-----------------------------------------------------------------------------
(* subscribeToNewContract. *)

Listened(a) == a \in listenedContracts

\* Mutant: the contract is only added once it is listened to.
MutNoClaim(a) == UNCHANGED listenedContracts

\* No await between the test and the addition; getForgeBond is awaited next.
Claim(a) == listenedContracts' = listenedContracts \cup {a}

\* listenContract: the block to start from is not handed on.
ListenContract(a) ==
    /\ \E stream \in NewStreams(eventCount[a]) :
          contractStreams' = [contractStreams EXCEPT ![a] = Append(@, stream)]
    /\ UNCHANGED <<listenedContracts, failed>>

FailToListen(a) ==
    /\ Fails(a)
    /\ listenedContracts' = listenedContracts \ {a}
    /\ UNCHANGED contractStreams

-----------------------------------------------------------------------------
(* subscribeToTokenInDirectory. *)

ReadDirectory ==
    /\ initialize.step = "registry"
    /\ initialize' = [step |-> "directory", read |-> ToSet(instruments), rest |-> instruments]
    /\ UNCHANGED <<chainVars, factoryTask, streamVars, handlerVars, failed>>

\* getAllFactoryTypes or getAllInstruments; NoAddress stands for them in failed.
FailToReadRegistry ==
    /\ initialize.step \in {"types", "registry"}
    /\ Fails(NoAddress)
    /\ initialize' = [initialize EXCEPT !.step = "error"]
    /\ UNCHANGED <<chainVars, factoryTask, streamVars, handlerVars>>

DirectoryNext ==
    /\ initialize.step = "directory"
    /\ \/ /\ initialize.rest = <<>>
          /\ initialize' = [initialize EXCEPT !.step = "done"]
          /\ UNCHANGED listenedContracts
       \/ /\ initialize.rest # <<>>
          /\ Listened(Head(initialize.rest))
          /\ initialize' = [initialize EXCEPT !.rest = Tail(@)]
          /\ UNCHANGED listenedContracts
       \/ /\ initialize.rest # <<>>
          /\ ~Listened(Head(initialize.rest))
          /\ initialize' = [initialize EXCEPT !.step = "adding"]
          /\ Claim(Head(initialize.rest))
    /\ UNCHANGED <<chainVars, factoryTask, listenedFactories, factoryStreams,
                   contractStreams, handlerVars, failed>>

\* Mutant: an error ends the loop.
MutStopAtFailure ==
    /\ initialize.step = "adding"
    /\ \/ /\ ListenContract(Head(initialize.rest))
          /\ initialize' = [initialize EXCEPT !.step = "directory", !.rest = Tail(@)]
       \/ FailToListen(Head(initialize.rest)) /\ initialize' = [initialize EXCEPT !.step = "done"]
    /\ UNCHANGED <<chainVars, factoryTask, listenedFactories, factoryStreams, handlerVars>>

\* The loop goes on after an error, which subscribeToNewContract catches.
DirectoryListen ==
    /\ initialize.step = "adding"
    /\ ListenContract(Head(initialize.rest)) \/ FailToListen(Head(initialize.rest))
    /\ initialize' = [initialize EXCEPT !.step = "directory", !.rest = Tail(@)]
    /\ UNCHANGED <<chainVars, factoryTask, listenedFactories, factoryStreams, handlerVars>>

-----------------------------------------------------------------------------
(* The handler of InstrumentListed. *)

\* The listings of a factory that a stream has still to deliver.
Undelivered(f, stream) ==
    {k \in DOMAIN instrumentListed : k > stream.next /\ instrumentListed[k].factory = f}

\* The listing is published at once; the rest of the handler comes after
\* that promise.
DeliverListing(f) ==
    /\ \E i \in DOMAIN factoryStreams[f], k \in DOMAIN instrumentListed :
          /\ IsFirst(Undelivered(f, factoryStreams[f][i]), k)
          /\ factoryStreams' = [factoryStreams EXCEPT ![f][i].next = k]
          /\ registryNotified' = registryNotified \cup {k}
          /\ listing' = listing \cup {[listed |-> k, step |-> "published"]}
    /\ UNCHANGED <<chainVars, taskVars, listenedFactories, listenedContracts,
                   contractStreams, handling, contractNotified, failed>>

\* Mutant: the address the event comes from, not the one in its payload.
MutSenderOf(h) == instrumentListed[h.listed].factory

InstrumentOf(h) == instrumentListed[h.listed].instrument

SubscribeToListed(h) ==
    /\ h.step = "published"
    /\ IF Listened(InstrumentOf(h))
       THEN listing' = listing \ {h} /\ UNCHANGED listenedContracts
       ELSE /\ listing' = (listing \ {h}) \cup {[h EXCEPT !.step = "adding"]}
            /\ Claim(InstrumentOf(h))
    /\ UNCHANGED <<chainVars, taskVars, listenedFactories, factoryStreams, contractStreams,
                   handling, registryNotified, contractNotified, failed>>

ListenToListed(h) ==
    /\ h.step = "adding"
    /\ ListenContract(InstrumentOf(h)) \/ FailToListen(InstrumentOf(h))
    /\ listing' = listing \ {h}
    /\ UNCHANGED <<chainVars, taskVars, listenedFactories, factoryStreams,
                   handling, registryNotified, contractNotified>>

-----------------------------------------------------------------------------
(* The handlers of bond events. *)

HasNext(a, stream) == stream.next < eventCount[a]

\* Mutant: the service keeps one event at a time.
MutOneAtATime(event) == handling' = {event}

\* The handlers are started and not awaited: the next event may be delivered
\* before this one is published.
Handle(event) == handling' = handling \cup {event}

DeliverEvent(a) ==
    /\ \E i \in DOMAIN contractStreams[a] :
          /\ HasNext(a, contractStreams[a][i])
          /\ contractStreams' = [contractStreams EXCEPT ![a][i].next = @ + 1]
          /\ Handle(<<a, contractStreams[a][i].next + 1>>)
    /\ UNCHANGED <<chainVars, taskVars, listenedFactories, listenedContracts, factoryStreams,
                   listing, registryNotified, contractNotified, failed>>

\* handleInstrumentContractEvent: it has asked the STR for the participants
\* (which may fail, and nothing is published) and publishes.
PublishEvent(event) ==
    /\ handling' = handling \ {event}
    /\ \/ contractNotified' = contractNotified \cup {event} /\ UNCHANGED failed
       \/ Fails(event) /\ UNCHANGED contractNotified
    /\ UNCHANGED <<chainVars, taskVars, streamVars, listing, registryNotified>>

-----------------------------------------------------------------------------

EventInit ==
    /\ ChainInit
    /\ initialize = [step |-> "types", read |-> {}, rest |-> <<>>]
    /\ factoryTask = [t \in FactoryTypes |-> [step |-> "done"]]
    /\ listenedFactories = {}
    /\ listenedContracts = {}
    /\ factoryStreams = [f \in Addresses \cup {NoAddress} |-> <<>>]
    /\ contractStreams = [a \in Instruments |-> <<>>]
    /\ listing = {}
    /\ handling = {}
    /\ registryNotified = {}
    /\ contractNotified = {}
    /\ failed = {}

\* What the service and the driver do for themselves.
ServiceNext ==
    \/ ReadTypes \/ FactoriesSubscribed \/ ReadDirectory \/ FailToReadRegistry
    \/ DirectoryNext \/ DirectoryListen
    \/ \E t \in FactoryTypes : \/ ReadFactory(t) \/ FailToReadFactory(t)
                               \/ ListenFactory(t) \/ FailToListenFactory(t)
    \/ \E f \in Factories : DeliverListing(f)
    \/ \E h \in listing : SubscribeToListed(h) \/ ListenToListed(h)
    \/ \E a \in Instruments : DeliverEvent(a)
    \/ \E event \in handling : PublishEvent(event)

EventNext == ServiceNext \/ (ChainNext /\ UNCHANGED serviceVars)

\* Promises settle and streams deliver: as long as the service has something
\* to do, it does something.  Nothing is asked of the chain.
EventSpec == EventInit /\ [][EventNext]_allVars /\ WF_allVars(ServiceNext)

-----------------------------------------------------------------------------
(* Properties. *)

\* The state of the service has values of its types.
EventTypeOK ==
    /\ instrumentListed \in Seq(Listing)
    /\ initialize.step \in {"types", "factories", "registry", "directory", "adding", "done", "error"}
    /\ initialize.step = "adding" => initialize.rest # <<>>
    /\ listenedFactories \subseteq Factories \cup {NoAddress}
    /\ listenedContracts \subseteq Instruments
    /\ factoryStreams \in [Addresses \cup {NoAddress} -> Seq(Stream)]
    /\ contractStreams \in [Instruments -> Seq(Stream)]
    /\ listing \subseteq [listed : DOMAIN instrumentListed, step : {"published", "adding"}]
    /\ handling \cup contractNotified \subseteq
           {event \in Instruments \X Nat : event[2] \in 1..eventCount[event[1]]}
    /\ registryNotified \subseteq DOMAIN instrumentListed

BeingAdded(a) ==
    \/ initialize.step = "adding" /\ Head(initialize.rest) = a
    \/ \E h \in listing : h.step = "adding" /\ InstrumentOf(h) = a

\* A bond is in listenedContracts when it is listened to, by one stream, or
\* is just being subscribed to: the loop over the registry and the events of
\* the factories, which find the same bonds at the same time, never both
\* subscribe, and a subscription that failed can be tried again.
OneStreamPerBond ==
    \A a \in Instruments :
        /\ Len(contractStreams[a]) <= 1
        /\ Listened(a) <=> contractStreams[a] # <<>> \/ BeingAdded(a)
        /\ ~(contractStreams[a] # <<>> /\ BeingAdded(a))

\* The same of the factories: two types may have one factory.
OneStreamPerFactory ==
    \A f \in Factories :
        /\ Len(factoryStreams[f]) <= 1
        /\ f \in listenedFactories <=>
              \/ factoryStreams[f] # <<>>
              \/ \E t \in FactoryTypes : factoryTask[t] = Adding(f)

\* initialize came to its end, and no listing is on its way.
Quiet ==
    /\ initialize.step = "done"
    /\ listing = {}
    /\ \A f \in Factories : \A i \in DOMAIN factoryStreams[f] :
          Undelivered(f, factoryStreams[f][i]) = {}

Heard(k) == factoryStreams[instrumentListed[k].factory] # <<>>

\* No bond falls between the registry, read once, and the streams of the
\* factories, wherever they start: a bond whose factory is listened to, or
\* that was in the registry, is listened to, unless its own subscription
\* failed.
NoBondIsMissed ==
    Quiet => \A k \in DOMAIN instrumentListed :
        LET a == instrumentListed[k].instrument
        IN  (Heard(k) \/ a \in initialize.read) /\ a \notin failed => contractStreams[a] # <<>>

\* And the service does get there, if nothing fails.
BondsAreFollowed ==
    \A a \in Instruments :
        (\E k \in DOMAIN instrumentListed : instrumentListed[k].instrument = a /\ Heard(k))
            ~> failed # {} \/ contractStreams[a] # <<>>

\* Every event a stream is to deliver is published in the end, unless its
\* own handler fails: concurrent handlers do not lose one another's events.
EventsAreNotified ==
    \A a \in Instruments, k \in 1..MaxEvents :
        (k <= eventCount[a] /\ \E i \in DOMAIN contractStreams[a] : contractStreams[a][i].start < k)
            ~> <<a, k>> \in contractNotified \/ <<a, k>> \in failed

\* bondEmission.md:20: "Anytime a new contract is emitted by a factory, you
\* will receive a notification here."  Not if the factory was authorized
\* after initialize read the types.
NewBondsAreNotified ==
    Quiet => \A k \in DOMAIN instrumentListed :
        instrumentListed[k].instrument \in initialize.read \/ k \in registryNotified

==============================================================================
