------------------------- MODULE EventServiceProofs -------------------------
(***************************************************************************)
(* Proofs about EventService: for any factories, types and bonds, any      *)
(* number of failures, and streams that start anywhere in the past.        *)
(*                                                                         *)
(* The invariant has a part for each place a bond may be between its       *)
(* creation and its subscription: what initialize has still to go through, *)
(* what a stream has still to deliver, what a handler holds, and what a    *)
(* stream will never deliver because initialize reads it.                  *)
(***************************************************************************)
EXTENDS EventService, InstrumentRegistryProofs, FiniteSetTheorems, TLAPS

\* No factory ever unlists: what was listed stays in the array.
ChainOK ==
    /\ factories \in [FactoryTypes -> Factories \cup {NoAddress}]
    /\ instruments \in Seq(Instruments)
    /\ instrumentListed \in Seq(Listing)
    /\ eventCount \in [Instruments -> Nat]
    /\ \A k \in DOMAIN instrumentListed : instrumentListed[k].instrument \in ToSet(instruments)

\* initialize has not read the instruments, or never will.
BeforeReading == initialize.step \in {"types", "factories", "registry", "error"}

InitializeOK ==
    /\ initialize \in
           [step : {"types", "factories", "registry", "directory", "adding", "done", "error"},
            read : SUBSET Instruments, rest : Seq(Instruments)]
    /\ BeforeReading => initialize.read = {}
    /\ initialize.step = "adding" => initialize.rest # <<>>
    /\ initialize.step = "done" => initialize.rest = <<>>

Tasks == {[step |-> "reading"], [step |-> "done"]} \cup
         {Adding(f) : f \in Factories \cup {NoAddress}}

\* A task that runs on after an error of another one is the only one that
\* outlives Promise.all.
TasksOK ==
    /\ factoryTask \in [FactoryTypes -> Tasks]
    /\ initialize.step \notin {"factories", "error"} =>
          \A t \in FactoryTypes : factoryTask[t].step = "done"

\* A factory in listenedFactories has one stream, or one task about to open
\* it.  The zero address, which getFactory may answer, is no exception.
FactoryClaims ==
    /\ factoryStreams \in [Addresses \cup {NoAddress} -> Seq(Stream)]
    /\ listenedFactories \subseteq Factories \cup {NoAddress}
    /\ \A f \in Factories \cup {NoAddress} :
          /\ Len(factoryStreams[f]) <= 1
          /\ f \in listenedFactories <=>
                \/ factoryStreams[f] # <<>>
                \/ \E t \in FactoryTypes : factoryTask[t] = Adding(f)
          /\ factoryStreams[f] # <<>> => \A t \in FactoryTypes : factoryTask[t] # Adding(f)
          /\ \A t, u \in FactoryTypes :
                factoryTask[t] = Adding(f) /\ factoryTask[u] = Adding(f) => t = u

InitializeAdds(a) == initialize.step = "adding" /\ Head(initialize.rest) = a

\* A bond in listenedContracts has one stream, or one of initialize and the
\* handlers is about to open it.
BondClaims ==
    /\ contractStreams \in [Instruments -> Seq(Stream)]
    /\ listenedContracts \subseteq Instruments
    /\ OneStreamPerBond
    /\ \A h \in listing : h.step = "adding" => ~InitializeAdds(InstrumentOf(h))
    /\ \A g, h \in listing :
          g.step = "adding" /\ h.step = "adding" /\ InstrumentOf(g) = InstrumentOf(h) => g = h

HandlersOK ==
    /\ listing \subseteq [listed : DOMAIN instrumentListed, step : {"published", "adding"}]
    /\ registryNotified \subseteq DOMAIN instrumentListed
    /\ handling \cup contractNotified \subseteq
           {event \in Instruments \X Nat : event[2] \in 1..eventCount[event[1]]}
    /\ \A a \in Instruments : \A i \in DOMAIN contractStreams[a] :
          contractStreams[a][i].next <= eventCount[a]

Followed(a) == Listened(a) \/ a \in failed

\* initialize has still to go through what it read, or has.
ReadFollowed ==
    \A a \in initialize.read : a \in ToSet(initialize.rest) \/ Followed(a)

\* A stream has delivered what is between its start and next, to a handler
\* that is running or has done its work; initialize reads what was listed
\* before the start.
ListingsFollowed ==
    \A f \in Factories : \A i \in DOMAIN factoryStreams[f], k \in DOMAIN instrumentListed :
        LET a == instrumentListed[k].instrument
        IN  instrumentListed[k].factory = f /\ k <= factoryStreams[f][i].next =>
               \/ k <= factoryStreams[f][i].start /\ (BeforeReading \/ a \in initialize.read)
               \/ \E h \in listing : h.listed = k
               \/ Followed(a)

\* A stream has delivered what was there.
DeliveredIsPast ==
    \A f \in Factories : \A i \in DOMAIN factoryStreams[f] :
        factoryStreams[f][i].next <= Len(instrumentListed)

EventInv ==
    /\ ChainOK
    /\ InitializeOK
    /\ TasksOK
    /\ FactoryClaims
    /\ BondClaims
    /\ HandlersOK
    /\ ReadFollowed
    /\ ListingsFollowed
    /\ DeliveredIsPast

-----------------------------------------------------------------------------
(* Lemmas. *)

LEMMA ToSetHead ==
    ASSUME NEW S, NEW s \in Seq(S), s # <<>>
    PROVE  /\ Head(s) \in S /\ Tail(s) \in Seq(S)
           /\ \A x \in ToSet(s) : x = Head(s) \/ x \in ToSet(Tail(s))
<1>1. Head(s) \in S /\ Tail(s) \in Seq(S) /\ Len(Tail(s)) = Len(s) - 1 /\ Len(s) \in Nat
      /\ Head(s) = s[1] /\ \A i \in 1..(Len(s) - 1) : Tail(s)[i] = s[i + 1]
  OBVIOUS
<1>2. ASSUME NEW i \in DOMAIN s PROVE s[i] = Head(s) \/ s[i] \in ToSet(Tail(s))
  <2>1. CASE i = 1
    BY <1>1, <2>1
  <2>2. CASE i # 1
    <3>1. i - 1 \in 1..(Len(s) - 1) /\ (i - 1) + 1 = i
      BY <1>1, <2>2
    <3>2. s[i] = Tail(s)[i - 1] /\ i - 1 \in DOMAIN Tail(s)
      BY <1>1, <3>1
    <3>3. QED
      BY <3>2 DEF ToSet
  <2>3. QED
    BY <2>1, <2>2
<1>3. QED
  BY <1>1, <1>2 DEF ToSet

LEMMA ToSetAppend ==
    ASSUME NEW S, NEW s \in Seq(S), NEW x
    PROVE  ToSet(s) \subseteq ToSet(Append(s, x)) /\ x \in ToSet(Append(s, x))
<1>1. Len(s) \in Nat /\ DOMAIN s = 1..Len(s) /\ DOMAIN Append(s, x) = 1..(Len(s) + 1)
  OBVIOUS
<1>2. \A i \in 1..Len(s) : Append(s, x)[i] = s[i] /\ i \in 1..(Len(s) + 1)
  BY <1>1
<1>3. Append(s, x)[Len(s) + 1] = x /\ Len(s) + 1 \in 1..(Len(s) + 1)
  BY <1>1
<1>4. QED
  BY <1>1, <1>2, <1>3 DEF ToSet

\* The first stream of a sequence that has none.
LEMMA FirstStream ==
    ASSUME NEW streams \in Seq(Stream), Len(streams) <= 1, streams = <<>>, NEW s \in Stream
    PROVE  /\ Append(streams, s) \in Seq(Stream) /\ Len(Append(streams, s)) <= 1
           /\ Append(streams, s) # <<>> /\ DOMAIN Append(streams, s) = {1}
           /\ Append(streams, s)[1] = s
<1>1. Append(streams, s) = <<s>>
  OBVIOUS
<1>2. QED
  BY <1>1

LEMMA NewStreamsAre ==
    ASSUME NEW now \in Nat, NEW s \in NewStreams(now)
    PROVE  s \in Stream /\ s.start = s.next /\ s.next <= now
BY DEF NewStreams, Stream

\* The parts of the state that the steps of the service leave.
LEMMA ChainUnchanged ==
    UNCHANGED chainVars => /\ UNCHANGED factories /\ UNCHANGED instruments
                           /\ UNCHANGED instrumentListed /\ UNCHANGED eventCount
BY DEF chainVars, registryVars, factoryVars, instrumentVars, indexVars

LEMMA ChainStays == ChainOK /\ UNCHANGED chainVars => ChainOK'
BY ChainUnchanged DEF ChainOK

LEMMA HandlersUnchanged ==
    UNCHANGED handlerVars => /\ UNCHANGED listing /\ UNCHANGED handling
                             /\ UNCHANGED registryNotified /\ UNCHANGED contractNotified
BY DEF handlerVars

\* A task is adding one factory at most.
LEMMA Adds ==
    /\ \A f : Adding(f).step = "adding" /\ Adding(f).factory = f
    /\ \A f, g : Adding(f) = Adding(g) => f = g
<1>1. \A f : Adding(f).step = "adding" /\ Adding(f).factory = f
  BY DEF Adding
<1>2. QED
  BY <1>1

LEMMA TaskSteps ==
    ASSUME TasksOK, NEW t \in FactoryTypes
    PROVE  /\ factoryTask[t].step \in {"reading", "adding", "done"}
           /\ factoryTask[t].step = "adding" =>
                 /\ factoryTask[t] = Adding(factoryTask[t].factory)
                 /\ factoryTask[t].factory \in Factories \cup {NoAddress}
           /\ factoryTask[t].step # "done" => initialize.step \in {"factories", "error"}
<1>1. factoryTask[t] \in Tasks
  BY DEF TasksOK
<1>2. QED
  BY <1>1, Adds DEF Tasks, TasksOK

-----------------------------------------------------------------------------
(* Bonds that are followed stay followed. *)

FollowedStays == \A a \in Instruments : Followed(a) => Followed(a)'

\* A bond that is subscribed to: listened to, or its subscription failed.
LEMMA ListenStep ==
    ASSUME EventInv, NEW a \in Instruments, BeingAdded(a),
           ListenContract(a) \/ FailToListen(a), UNCHANGED eventCount,
           ~BeingAdded(a)', \A b \in Instruments \ {a} : BeingAdded(b)' <=> BeingAdded(b)
    PROVE  /\ contractStreams' \in [Instruments -> Seq(Stream)]
           /\ listenedContracts' \subseteq Instruments
           /\ OneStreamPerBond'
           /\ \A b \in Instruments : \A i \in DOMAIN contractStreams'[b] :
                 contractStreams'[b][i].next <= eventCount[b]
           /\ FollowedStays /\ Followed(a)'
<1>1. /\ contractStreams[a] \in Seq(Stream) /\ Len(contractStreams[a]) <= 1
      /\ contractStreams[a] = <<>> /\ Listened(a)
  BY DEF EventInv, BondClaims, OneStreamPerBond
<1>2. /\ contractStreams \in [Instruments -> Seq(Stream)]
      /\ listenedContracts \subseteq Instruments
      /\ \A b \in Instruments : /\ Len(contractStreams[b]) <= 1
                                /\ Listened(b) <=> contractStreams[b] # <<>> \/ BeingAdded(b)
                                /\ ~(contractStreams[b] # <<>> /\ BeingAdded(b))
  BY DEF EventInv, BondClaims, OneStreamPerBond
<1>3. \A b \in Instruments : \A i \in DOMAIN contractStreams[b] :
          contractStreams[b][i].next <= eventCount[b]
  BY DEF EventInv, HandlersOK
<1>4. CASE ListenContract(a)
  <2>1. PICK stream \in NewStreams(eventCount[a]) :
            contractStreams' = [contractStreams EXCEPT ![a] = Append(@, stream)]
    BY <1>4 DEF ListenContract
  <2>2. eventCount[a] \in Nat
    BY DEF EventInv, ChainOK
  <2>3. stream \in Stream /\ stream.next <= eventCount[a]
    BY <2>2, NewStreamsAre
  <2>4. PICK now : now = Append(contractStreams[a], stream)
    OBVIOUS
  <2>5. /\ now \in Seq(Stream) /\ Len(now) <= 1 /\ now # <<>> /\ DOMAIN now = {1}
        /\ now[1] = stream
    BY <1>1, <2>3, <2>4, FirstStream
  <2>6. /\ contractStreams' \in [Instruments -> Seq(Stream)] /\ contractStreams'[a] = now
        /\ \A b \in Instruments \ {a} : contractStreams'[b] = contractStreams[b]
    BY <1>2, <2>1, <2>4, <2>5
  <2>7. listenedContracts' = listenedContracts /\ failed' = failed
    BY <1>4 DEF ListenContract
  <2>8. OneStreamPerBond'
    BY <1>1, <1>2, <2>5, <2>6, <2>7 DEF OneStreamPerBond, Listened
  <2>9. \A b \in Instruments : \A i \in DOMAIN contractStreams'[b] :
            contractStreams'[b][i].next <= eventCount[b]
    BY <1>3, <2>3, <2>5, <2>6
  <2>10. FollowedStays /\ Followed(a)'
    BY <1>1, <2>7 DEF FollowedStays, Followed, Listened
  <2>11. QED
    BY <1>2, <2>6, <2>7, <2>8, <2>9, <2>10
<1>5. CASE FailToListen(a)
  <2>1. /\ failed' = failed \cup {a} /\ listenedContracts' = listenedContracts \ {a}
        /\ contractStreams' = contractStreams
    BY <1>5 DEF FailToListen, Fails
  <2>2. OneStreamPerBond'
    BY <1>1, <1>2, <2>1 DEF OneStreamPerBond, Listened
  <2>3. FollowedStays /\ Followed(a)'
    BY <2>1 DEF FollowedStays, Followed, Listened
  <2>4. QED
    BY <1>2, <1>3, <2>1, <2>2, <2>3
<1>6. QED
  BY <1>4, <1>5

\* A bond that is claimed: it was nobody's.
LEMMA ClaimStep ==
    ASSUME EventInv, NEW a \in Instruments, ~Listened(a), Claim(a),
           UNCHANGED contractStreams, UNCHANGED failed,
           BeingAdded(a)', \A b \in Instruments \ {a} : BeingAdded(b)' <=> BeingAdded(b)
    PROVE  /\ listenedContracts' \subseteq Instruments
           /\ OneStreamPerBond' /\ FollowedStays /\ Followed(a)'
<1>1. /\ listenedContracts \subseteq Instruments
      /\ \A b \in Instruments : /\ Len(contractStreams[b]) <= 1
                                /\ Listened(b) <=> contractStreams[b] # <<>> \/ BeingAdded(b)
                                /\ ~(contractStreams[b] # <<>> /\ BeingAdded(b))
  BY DEF EventInv, BondClaims, OneStreamPerBond
<1>2. listenedContracts' = listenedContracts \cup {a}
  BY DEF Claim
<1>3. OneStreamPerBond'
  BY <1>1, <1>2 DEF OneStreamPerBond, Listened
<1>4. FollowedStays /\ Followed(a)'
  BY <1>2 DEF FollowedStays, Followed, Listened
<1>5. QED
  BY <1>1, <1>2, <1>3, <1>4

-----------------------------------------------------------------------------
(* What a step leaves. *)

LEMMA TasksStay ==
    ASSUME TasksOK, UNCHANGED factoryTask,
           \/ initialize'.step \in {"factories", "error"}
           \/ initialize.step \notin {"factories", "error"}
    PROVE  TasksOK'
BY DEF TasksOK

LEMMA FactoryClaimsStay ==
    FactoryClaims /\ UNCHANGED <<factoryTask, listenedFactories, factoryStreams>> => FactoryClaims'
BY DEF FactoryClaims

LEMMA BondClaimsStay ==
    ASSUME BondClaims, UNCHANGED <<contractStreams, listenedContracts, listing, instrumentListed>>,
           \A a \in Instruments : InitializeAdds(a)' <=> InitializeAdds(a),
           \A h \in listing : InstrumentOf(h) \in Instruments
    PROVE  BondClaims'
<1>1. \A a \in Instruments : BeingAdded(a)' <=> BeingAdded(a)
  BY DEF BeingAdded, InitializeAdds, InstrumentOf
<1>2. OneStreamPerBond'
  BY <1>1 DEF BondClaims, OneStreamPerBond, Listened
<1>3. QED
  BY <1>2 DEF BondClaims, InstrumentOf

LEMMA HandlersStay ==
    HandlersOK /\ UNCHANGED <<listing, handling, registryNotified, contractNotified, instrumentListed,
                              eventCount, contractStreams>> => HandlersOK'
BY DEF HandlersOK

LEMMA DeliveredStays ==
    DeliveredIsPast /\ UNCHANGED <<factoryStreams, instrumentListed>> => DeliveredIsPast'
BY DEF DeliveredIsPast

LEMMA ListedAre ==
    ASSUME ChainOK
    PROVE  /\ Len(instrumentListed) \in Nat
           /\ DOMAIN instrumentListed = 1..Len(instrumentListed)
           /\ \A k \in DOMAIN instrumentListed : /\ instrumentListed[k].instrument \in Instruments
                                                /\ instrumentListed[k].factory \in Factories
           /\ HandlersOK => \A h \in listing : /\ h.listed \in DOMAIN instrumentListed
                                               /\ InstrumentOf(h) \in Instruments
                                               /\ h.step \in {"published", "adding"}
                                               /\ h = [listed |-> h.listed, step |-> h.step]
<1>1. /\ Len(instrumentListed) \in Nat
      /\ DOMAIN instrumentListed = 1..Len(instrumentListed)
      /\ \A k \in DOMAIN instrumentListed : instrumentListed[k] \in Listing
  BY DEF ChainOK
<1>2. \A k \in DOMAIN instrumentListed : /\ instrumentListed[k].instrument \in Instruments
                                         /\ instrumentListed[k].factory \in Factories
  BY <1>1 DEF Listing
<1>3. QED
  BY <1>1, <1>2 DEF HandlersOK, InstrumentOf

\* Of the streams of factories nothing changes, and no handler ends before
\* its bond is followed.
LEMMA ListingsStay ==
    ASSUME ChainOK, HandlersOK, ListingsFollowed, UNCHANGED <<instrumentListed, factoryStreams>>,
           FollowedStays,
           \A k \in DOMAIN instrumentListed :
               BeforeReading \/ instrumentListed[k].instrument \in initialize.read =>
                   (BeforeReading \/ instrumentListed[k].instrument \in initialize.read)',
           \A h \in listing : (\E g \in listing' : g.listed = h.listed) \/ Followed(InstrumentOf(h))'
    PROVE  ListingsFollowed'
<1> SUFFICES ASSUME NEW f \in Factories, NEW i \in DOMAIN factoryStreams[f],
                    NEW k \in DOMAIN instrumentListed,
                    instrumentListed[k].factory = f, k <= factoryStreams[f][i].next,
                    ~(/\ k <= factoryStreams[f][i].start
                      /\ (BeforeReading \/ instrumentListed[k].instrument \in initialize.read)')
             PROVE  (\E g \in listing' : g.listed = k) \/ Followed(instrumentListed[k].instrument)'
  BY DEF ListingsFollowed
<1>1. (\E h \in listing : h.listed = k) \/ Followed(instrumentListed[k].instrument)
  BY DEF ListingsFollowed
<1>2. instrumentListed[k].instrument \in Instruments
  BY ListedAre
<1>3. CASE \E h \in listing : h.listed = k
  BY <1>3 DEF InstrumentOf
<1>4. CASE Followed(instrumentListed[k].instrument)
  BY <1>2, <1>4 DEF FollowedStays
<1>5. QED
  BY <1>1, <1>3, <1>4

\* Steps of the subscription to factories: nothing that is known of bonds
\* changes.
LEMMA FactorySide ==
    ASSUME EventInv, UNCHANGED chainVars, UNCHANGED handlerVars,
           UNCHANGED <<listenedContracts, contractStreams, factoryStreams>>,
           failed \subseteq failed',
           \/ UNCHANGED initialize
           \/ /\ BeforeReading
              /\ \E s \in {"factories", "registry", "error"} :
                    initialize' = [initialize EXCEPT !.step = s],
           TasksOK', FactoryClaims'
    PROVE  EventInv'
<1> USE DEF EventInv
<1>1. ChainOK' /\ UNCHANGED <<instrumentListed, eventCount>>
  BY ChainStays, ChainUnchanged
<1>2. UNCHANGED <<listing, handling, registryNotified, contractNotified>>
  BY HandlersUnchanged
<1>3. /\ InitializeOK'
      /\ initialize'.read = initialize.read /\ initialize'.rest = initialize.rest
      /\ BeforeReading => BeforeReading'
      /\ initialize'.step = "adding" <=> initialize.step = "adding"
  BY DEF InitializeOK, BeforeReading
<1>4. FollowedStays
  BY DEF FollowedStays, Followed, Listened
<1>5. BondClaims'
  BY <1>1, <1>2, <1>3, BondClaimsStay, ListedAre DEF InitializeAdds
<1>6. HandlersOK'
  BY <1>1, <1>2, HandlersStay
<1>7. ReadFollowed'
  BY <1>3, <1>4 DEF ReadFollowed, FollowedStays, InitializeOK
<1>8. ListingsFollowed'
  BY <1>1, <1>2, <1>3, <1>4, ListingsStay
<1>9. DeliveredIsPast'
  BY <1>1, DeliveredStays
<1>10. QED
  BY <1>1, <1>3, <1>5, <1>6, <1>7, <1>8, <1>9

-----------------------------------------------------------------------------
(* The steps of the subscription to factories. *)

LEMMA ReadTypesStep == EventInv /\ ReadTypes => EventInv'
<1> SUFFICES ASSUME EventInv, ReadTypes PROVE EventInv'
  OBVIOUS
<1>1. /\ initialize.step = "types" /\ BeforeReading
      /\ initialize' = [initialize EXCEPT !.step = "factories"]
      /\ UNCHANGED chainVars /\ UNCHANGED handlerVars /\ UNCHANGED streamVars
      /\ UNCHANGED failed
  BY DEF ReadTypes, BeforeReading
<1>2. initialize'.step = "factories"
  BY <1>1 DEF EventInv, InitializeOK
<1>3. \A t \in FactoryTypes : factoryTask[t].step = "done"
  BY <1>1 DEF EventInv, TasksOK
<1>4. /\ factoryTask' \in [FactoryTypes -> Tasks]
      /\ \A t \in FactoryTypes : factoryTask'[t].step # "adding"
  BY DEF ReadTypes, Tasks
<1>5. TasksOK'
  BY <1>2, <1>4 DEF TasksOK
<1>6. \A f, t : t \in FactoryTypes => factoryTask[t] # Adding(f) /\ factoryTask'[t] # Adding(f)
  BY <1>3, <1>4, Adds
<1>7. FactoryClaims'
  BY <1>1, <1>6 DEF EventInv, FactoryClaims, streamVars
<1>8. QED
  BY <1>1, <1>5, <1>7, FactorySide DEF streamVars

LEMMA ReadFactoryStep == ASSUME NEW t \in FactoryTypes PROVE EventInv /\ ReadFactory(t) => EventInv'
<1> SUFFICES ASSUME EventInv, ReadFactory(t) PROVE EventInv'
  OBVIOUS
<1>1. /\ factoryTask[t].step = "reading"
      /\ factoryTask \in [FactoryTypes -> Tasks]
      /\ initialize.step \in {"factories", "error"}
      /\ UNCHANGED chainVars /\ UNCHANGED handlerVars
      /\ UNCHANGED <<initialize, listenedContracts, factoryStreams, contractStreams, failed>>
  BY TaskSteps DEF ReadFactory, EventInv, TasksOK
<1>2. PICK f : f = factories[t]
  OBVIOUS
<1>3. f \in Factories \cup {NoAddress}
  BY <1>2 DEF EventInv, ChainOK
<1>4. PICK now : now = factoryTask'[t]
  OBVIOUS
<1>5. /\ now \in {[step |-> "done"], Adding(f)}
      /\ factoryTask' = [factoryTask EXCEPT ![t] = now]
      /\ now = Adding(f) <=> f \notin listenedFactories
      /\ listenedFactories' = IF f \in listenedFactories THEN listenedFactories
                                                         ELSE listenedFactories \cup {f}
  BY <1>1, <1>2, <1>4, Adds DEF ReadFactory, FactoryDone, ClaimFactory
<1>6. factoryTask' \in [FactoryTypes -> Tasks]
  BY <1>1, <1>3, <1>5 DEF Tasks
<1>7. TasksOK'
  BY <1>1, <1>6 DEF TasksOK
<1>8. \A g : factoryTask[t] # Adding(g)
  BY <1>1, Adds
<1>9. /\ \A u \in FactoryTypes \ {t} : factoryTask'[u] = factoryTask[u]
      /\ factoryTask'[t] = now
  BY <1>1, <1>5
<1>10. \A g : now = Adding(g) => g = f /\ f \notin listenedFactories
  BY <1>5, Adds
<1>11. FactoryClaims'
  <2>1. /\ factoryStreams' = factoryStreams
        /\ factoryStreams \in [Addresses \cup {NoAddress} -> Seq(Stream)]
        /\ listenedFactories' \subseteq Factories \cup {NoAddress}
    BY <1>1, <1>3, <1>5 DEF EventInv, FactoryClaims
  <2>2. ASSUME NEW g \in Factories \cup {NoAddress}
        PROVE  /\ Len(factoryStreams[g]) <= 1
               /\ g \in listenedFactories' <=>
                     \/ factoryStreams[g] # <<>>
                     \/ \E u \in FactoryTypes : factoryTask'[u] = Adding(g)
               /\ factoryStreams[g] # <<>> => \A u \in FactoryTypes : factoryTask'[u] # Adding(g)
               /\ \A u, v \in FactoryTypes :
                     factoryTask'[u] = Adding(g) /\ factoryTask'[v] = Adding(g) => u = v
    <3>1. /\ Len(factoryStreams[g]) <= 1
          /\ g \in listenedFactories <=>
                \/ factoryStreams[g] # <<>>
                \/ \E u \in FactoryTypes : factoryTask[u] = Adding(g)
          /\ factoryStreams[g] # <<>> => \A u \in FactoryTypes : factoryTask[u] # Adding(g)
          /\ \A u, v \in FactoryTypes :
                factoryTask[u] = Adding(g) /\ factoryTask[v] = Adding(g) => u = v
      BY DEF EventInv, FactoryClaims
    <3>2. CASE now = Adding(g)
      BY <1>5, <1>8, <1>9, <1>10, <3>1, <3>2
    <3>3. CASE now # Adding(g)
      BY <1>5, <1>8, <1>9, <1>10, <3>1, <3>3
    <3>4. QED
      BY <3>2, <3>3
  <2>3. QED
    BY <2>1, <2>2 DEF FactoryClaims
<1>12. QED
  BY <1>1, <1>7, <1>11, FactorySide

\* A task that ends, with or without an addition to undo.
LEMMA TaskEnds ==
    ASSUME EventInv, NEW t \in FactoryTypes, FactoryDone(t)
    PROVE  /\ factoryTask' \in [FactoryTypes -> Tasks]
           /\ factoryTask'[t].step = "done"
           /\ \A f : factoryTask'[t] # Adding(f)
           /\ \A u \in FactoryTypes \ {t} : factoryTask'[u] = factoryTask[u]
<1>1. PICK now : now = [step |-> "done"]
  OBVIOUS
<1>2. now \in Tasks /\ now.step = "done" /\ factoryTask' = [factoryTask EXCEPT ![t] = now]
  BY <1>1 DEF FactoryDone, Tasks
<1>3. factoryTask \in [FactoryTypes -> Tasks]
  BY DEF EventInv, TasksOK
<1>4. QED
  BY <1>2, <1>3, Adds

LEMMA FailToReadFactoryStep ==
    ASSUME NEW t \in FactoryTypes PROVE EventInv /\ FailToReadFactory(t) => EventInv'
<1> SUFFICES ASSUME EventInv, FailToReadFactory(t) PROVE EventInv'
  OBVIOUS
<1>1. /\ factoryTask[t].step = "reading" /\ FactoryDone(t)
      /\ initialize.step \in {"factories", "error"}
      /\ initialize' = [initialize EXCEPT !.step = "error"]
      /\ UNCHANGED chainVars /\ UNCHANGED handlerVars /\ UNCHANGED streamVars
      /\ failed' = failed \cup {t}
  BY TaskSteps DEF FailToReadFactory, Fails, EventInv
<1>2. initialize'.step = "error" /\ BeforeReading
  BY <1>1 DEF EventInv, InitializeOK, BeforeReading
<1>3. TasksOK'
  BY <1>1, <1>2, TaskEnds DEF TasksOK
<1>4. \A f, u : u \in FactoryTypes => (factoryTask'[u] = Adding(f) <=> factoryTask[u] = Adding(f))
  BY <1>1, TaskEnds, Adds
<1>5. FactoryClaims'
  BY <1>1, <1>4 DEF EventInv, FactoryClaims, streamVars
<1>6. QED
  BY <1>1, <1>2, <1>3, <1>5, FactorySide DEF streamVars

LEMMA FailToListenFactoryStep ==
    ASSUME NEW t \in FactoryTypes PROVE EventInv /\ FailToListenFactory(t) => EventInv'
<1> SUFFICES ASSUME EventInv, FailToListenFactory(t) PROVE EventInv'
  OBVIOUS
<1>1. PICK f : f = factoryTask[t].factory
  OBVIOUS
<1>2. /\ factoryTask[t] = Adding(f) /\ f \in Factories \cup {NoAddress} /\ FactoryDone(t)
      /\ initialize.step \in {"factories", "error"}
      /\ UNCHANGED chainVars /\ UNCHANGED handlerVars
      /\ UNCHANGED <<initialize, listenedContracts, factoryStreams, contractStreams>>
      /\ failed' = failed \cup {f} /\ listenedFactories' = listenedFactories \ {f}
  BY <1>1, TaskSteps DEF FailToListenFactory, Fails, EventInv
<1>3. TasksOK'
  BY <1>2, TaskEnds DEF TasksOK
<1>4. \A g : /\ factoryTask[t] = Adding(g) <=> g = f
             /\ factoryTask'[t] # Adding(g)
             /\ \A u \in FactoryTypes \ {t} : factoryTask'[u] = factoryTask[u]
  BY <1>2, TaskEnds, Adds
<1>5. FactoryClaims'
  <2>1. /\ factoryStreams' = factoryStreams
        /\ factoryStreams \in [Addresses \cup {NoAddress} -> Seq(Stream)]
        /\ listenedFactories' \subseteq Factories \cup {NoAddress}
    BY <1>2 DEF EventInv, FactoryClaims
  <2>2. ASSUME NEW g \in Factories \cup {NoAddress}
        PROVE  /\ Len(factoryStreams[g]) <= 1
               /\ g \in listenedFactories' <=>
                     \/ factoryStreams[g] # <<>>
                     \/ \E u \in FactoryTypes : factoryTask'[u] = Adding(g)
               /\ factoryStreams[g] # <<>> => \A u \in FactoryTypes : factoryTask'[u] # Adding(g)
               /\ \A u, v \in FactoryTypes :
                     factoryTask'[u] = Adding(g) /\ factoryTask'[v] = Adding(g) => u = v
    <3>1. /\ Len(factoryStreams[g]) <= 1
          /\ g \in listenedFactories <=>
                \/ factoryStreams[g] # <<>>
                \/ \E u \in FactoryTypes : factoryTask[u] = Adding(g)
          /\ factoryStreams[g] # <<>> => \A u \in FactoryTypes : factoryTask[u] # Adding(g)
          /\ \A u, v \in FactoryTypes :
                factoryTask[u] = Adding(g) /\ factoryTask[v] = Adding(g) => u = v
      BY DEF EventInv, FactoryClaims
    <3>2. CASE g = f
      BY <1>2, <1>4, <3>1, <3>2
    <3>3. CASE g # f
      BY <1>2, <1>4, <3>1, <3>3
    <3>4. QED
      BY <3>2, <3>3
  <2>3. QED
    BY <2>1, <2>2 DEF FactoryClaims
<1>6. QED
  BY <1>2, <1>3, <1>5, FactorySide

LEMMA FactoriesSubscribedStep == EventInv /\ FactoriesSubscribed => EventInv'
<1> SUFFICES ASSUME EventInv, FactoriesSubscribed PROVE EventInv'
  OBVIOUS
<1>1. /\ initialize.step = "factories" /\ BeforeReading
      /\ \A t \in FactoryTypes : factoryTask[t].step = "done"
      /\ initialize' = [initialize EXCEPT !.step = "registry"]
      /\ UNCHANGED chainVars /\ UNCHANGED handlerVars /\ UNCHANGED streamVars
      /\ UNCHANGED <<factoryTask, failed>>
  BY DEF FactoriesSubscribed, BeforeReading
<1>2. TasksOK'
  BY <1>1 DEF EventInv, TasksOK
<1>3. FactoryClaims'
  BY <1>1, FactoryClaimsStay DEF EventInv, streamVars
<1>4. QED
  BY <1>1, <1>2, <1>3, FactorySide DEF streamVars

LEMMA FailToReadRegistryStep == EventInv /\ FailToReadRegistry => EventInv'
<1> SUFFICES ASSUME EventInv, FailToReadRegistry PROVE EventInv'
  OBVIOUS
<1>1. /\ initialize.step \in {"types", "registry"} /\ BeforeReading
      /\ initialize' = [initialize EXCEPT !.step = "error"]
      /\ failed' = failed \cup {NoAddress}
      /\ UNCHANGED chainVars /\ UNCHANGED handlerVars /\ UNCHANGED streamVars
      /\ UNCHANGED factoryTask
  BY DEF FailToReadRegistry, Fails, BeforeReading
<1>2. TasksOK'
  BY <1>1, TasksStay DEF EventInv
<1>3. FactoryClaims'
  BY <1>1, FactoryClaimsStay DEF EventInv, streamVars
<1>4. QED
  BY <1>1, <1>2, <1>3, FactorySide DEF streamVars

\* A stream of a factory may start anywhere: what it leaves out is in the
\* registry, which initialize has not read yet.
LEMMA ListenFactoryStep ==
    ASSUME NEW t \in FactoryTypes PROVE EventInv /\ ListenFactory(t) => EventInv'
<1> SUFFICES ASSUME EventInv, ListenFactory(t) PROVE EventInv'
  OBVIOUS
<1>1. PICK f : f = factoryTask[t].factory
  OBVIOUS
<1>2. /\ factoryTask[t] = Adding(f) /\ f \in Factories \cup {NoAddress} /\ FactoryDone(t)
      /\ initialize.step \in {"factories", "error"}
      /\ UNCHANGED chainVars /\ UNCHANGED handlerVars
      /\ UNCHANGED <<initialize, listenedFactories, listenedContracts, contractStreams, failed>>
  BY <1>1, TaskSteps DEF ListenFactory, EventInv
<1>3. ChainOK' /\ UNCHANGED <<instrumentListed, eventCount>>
  BY <1>2, ChainStays, ChainUnchanged DEF EventInv
<1>4. UNCHANGED <<listing, handling, registryNotified, contractNotified>>
  BY <1>2, HandlersUnchanged
<1>5. PICK stream \in NewStreams(Len(instrumentListed)) :
          factoryStreams' = [factoryStreams EXCEPT ![f] = Append(@, stream)]
  BY <1>1 DEF ListenFactory
<1>6. /\ stream \in Stream /\ stream.start = stream.next /\ stream.next <= Len(instrumentListed)
  BY ListedAre, NewStreamsAre DEF EventInv
<1>7. /\ factoryStreams \in [Addresses \cup {NoAddress} -> Seq(Stream)]
      /\ f \in Addresses \cup {NoAddress}
      /\ factoryStreams[f] = <<>> /\ f \in listenedFactories
  BY <1>2, FactoryAssumption DEF EventInv, FactoryClaims
<1>8. PICK now : now = Append(factoryStreams[f], stream)
  OBVIOUS
<1>9. /\ now \in Seq(Stream) /\ Len(now) <= 1 /\ now # <<>> /\ DOMAIN now = {1}
      /\ now[1] = stream
  <2>1. factoryStreams[f] \in Seq(Stream) /\ Len(factoryStreams[f]) <= 1
    BY <1>7
  <2>2. QED
    BY <1>6, <1>7, <1>8, <2>1, FirstStream
<1>10. /\ factoryStreams' \in [Addresses \cup {NoAddress} -> Seq(Stream)]
       /\ factoryStreams'[f] = now
       /\ \A g \in (Addresses \cup {NoAddress}) \ {f} : factoryStreams'[g] = factoryStreams[g]
  BY <1>5, <1>7, <1>8, <1>9
<1>11. \A g : /\ factoryTask[t] = Adding(g) <=> g = f
              /\ factoryTask'[t] # Adding(g)
              /\ \A u \in FactoryTypes \ {t} : factoryTask'[u] = factoryTask[u]
  BY <1>2, TaskEnds, Adds
<1>12. TasksOK'
  BY <1>2, TaskEnds DEF TasksOK
<1>13. FactoryClaims'
  <2>1. listenedFactories' = listenedFactories /\ listenedFactories \subseteq Factories \cup {NoAddress}
    BY <1>2 DEF EventInv, FactoryClaims
  <2>2. ASSUME NEW g \in Factories \cup {NoAddress}
        PROVE  /\ Len(factoryStreams'[g]) <= 1
               /\ g \in listenedFactories <=>
                     \/ factoryStreams'[g] # <<>>
                     \/ \E u \in FactoryTypes : factoryTask'[u] = Adding(g)
               /\ factoryStreams'[g] # <<>> => \A u \in FactoryTypes : factoryTask'[u] # Adding(g)
               /\ \A u, v \in FactoryTypes :
                     factoryTask'[u] = Adding(g) /\ factoryTask'[v] = Adding(g) => u = v
    <3>1. /\ Len(factoryStreams[g]) <= 1
          /\ g \in listenedFactories <=>
                \/ factoryStreams[g] # <<>>
                \/ \E u \in FactoryTypes : factoryTask[u] = Adding(g)
          /\ factoryStreams[g] # <<>> => \A u \in FactoryTypes : factoryTask[u] # Adding(g)
          /\ \A u, v \in FactoryTypes :
                factoryTask[u] = Adding(g) /\ factoryTask[v] = Adding(g) => u = v
      BY DEF EventInv, FactoryClaims
    <3>2. CASE g = f
      <4>1. \A u \in FactoryTypes : factoryTask'[u] # Adding(g)
        BY <1>2, <1>11, <3>1, <3>2
      <4>2. QED
        BY <1>7, <1>9, <1>10, <3>2, <4>1
    <3>3. CASE g # f
      <4>1. factoryStreams'[g] = factoryStreams[g]
        BY <1>10, <3>3, FactoryAssumption
      <4>2. QED
        BY <1>11, <3>1, <3>3, <4>1
    <3>4. QED
      BY <3>2, <3>3
  <2>3. QED
    BY <1>10, <2>1, <2>2 DEF FactoryClaims
<1>14. InitializeOK' /\ BeforeReading'
  BY <1>2 DEF EventInv, InitializeOK, BeforeReading
<1>15. BondClaims'
  BY <1>2, <1>3, <1>4, BondClaimsStay, ListedAre DEF EventInv, InitializeAdds
<1>16. HandlersOK'
  BY <1>2, <1>3, <1>4, HandlersStay DEF EventInv
<1>17. FollowedStays
  BY <1>2 DEF FollowedStays, Followed, Listened
<1>18. ReadFollowed'
  BY <1>2, <1>17 DEF EventInv, ReadFollowed, FollowedStays, InitializeOK
<1>19. DeliveredIsPast'
  <2>1. ASSUME NEW g \in Factories, NEW i \in DOMAIN factoryStreams'[g]
        PROVE  factoryStreams'[g][i].next <= Len(instrumentListed)
    <3>1. CASE g = f
      BY <1>6, <1>9, <1>10, <3>1
    <3>2. CASE g # f
      <4>1. factoryStreams'[g] = factoryStreams[g]
        BY <1>10, <3>2, FactoryAssumption
      <4>2. QED
        BY <4>1 DEF EventInv, DeliveredIsPast
    <3>3. QED
      BY <3>1, <3>2
  <2>2. QED
    BY <1>3, <2>1 DEF DeliveredIsPast
<1>20. ListingsFollowed'
  <2> SUFFICES ASSUME NEW g \in Factories, NEW i \in DOMAIN factoryStreams'[g],
                      NEW k \in DOMAIN instrumentListed,
                      instrumentListed[k].factory = g, k <= factoryStreams'[g][i].next
               PROVE  \/ k <= factoryStreams'[g][i].start
                      \/ \E h \in listing : h.listed = k
                      \/ Followed(instrumentListed[k].instrument)'
    BY <1>3, <1>4, <1>14 DEF ListingsFollowed
  <2>1. CASE g = f
    BY <1>6, <1>9, <1>10, <2>1
  <2>2. CASE g # f
    <3>1. factoryStreams'[g] = factoryStreams[g]
      BY <1>10, <2>2, FactoryAssumption
    <3>2. instrumentListed[k].instrument \in Instruments
      BY ListedAre DEF EventInv
    <3>3. \/ k <= factoryStreams[g][i].start
          \/ \E h \in listing : h.listed = k
          \/ Followed(instrumentListed[k].instrument)
      BY <3>1 DEF EventInv, ListingsFollowed
    <3>4. QED
      BY <1>3, <1>17, <3>1, <3>2, <3>3 DEF FollowedStays
  <2>3. QED
    BY <2>1, <2>2
<1>21. QED
  BY <1>3, <1>12, <1>13, <1>14, <1>15, <1>16, <1>18, <1>19, <1>20 DEF EventInv

-----------------------------------------------------------------------------
(* The steps of initialize through the registry. *)

\* What the steps of the subscription to bonds leave.
LEMMA BondSide ==
    ASSUME EventInv, UNCHANGED chainVars,
           UNCHANGED <<factoryTask, listenedFactories, factoryStreams>>,
           InitializeOK', initialize'.step \notin {"factories", "error"} \/ UNCHANGED initialize,
           initialize.step \notin {"factories", "error"} \/ UNCHANGED initialize
    PROVE  /\ ChainOK' /\ TasksOK' /\ FactoryClaims' /\ DeliveredIsPast'
           /\ UNCHANGED <<instruments, instrumentListed, eventCount>>
<1>1. ChainOK' /\ UNCHANGED <<instruments, instrumentListed, eventCount>>
  BY ChainStays, ChainUnchanged DEF EventInv
<1>2. TasksOK'
  BY DEF EventInv, TasksOK
<1>3. FactoryClaims' /\ DeliveredIsPast'
  BY <1>1, FactoryClaimsStay, DeliveredStays DEF EventInv
<1>4. QED
  BY <1>1, <1>2, <1>3

LEMMA ReadDirectoryStep == EventInv /\ ReadDirectory => EventInv'
<1> SUFFICES ASSUME EventInv, ReadDirectory PROVE EventInv'
  OBVIOUS
<1>1. /\ initialize.step = "registry"
      /\ UNCHANGED chainVars /\ UNCHANGED handlerVars /\ UNCHANGED streamVars
      /\ UNCHANGED <<factoryTask, failed>>
  BY DEF ReadDirectory
<1>2. instruments \in Seq(Instruments) /\ ToSet(instruments) \subseteq Instruments
  BY DEF EventInv, ChainOK, ToSet
<1>3. /\ initialize'.step = "directory" /\ initialize'.read = ToSet(instruments)
      /\ initialize'.rest = instruments
      /\ InitializeOK'
  BY <1>2 DEF ReadDirectory, InitializeOK, BeforeReading
<1>4. /\ ChainOK' /\ TasksOK' /\ FactoryClaims' /\ DeliveredIsPast'
      /\ UNCHANGED <<instruments, instrumentListed, eventCount>>
  BY <1>1, <1>3, BondSide DEF streamVars
<1>5. UNCHANGED <<listing, handling, registryNotified, contractNotified>>
  BY <1>1, HandlersUnchanged
<1>6. BondClaims'
  BY <1>1, <1>3, <1>4, <1>5, BondClaimsStay, ListedAre DEF EventInv, InitializeAdds, streamVars
<1>7. HandlersOK'
  BY <1>1, <1>4, <1>5, HandlersStay DEF EventInv, streamVars
<1>8. ReadFollowed'
  BY <1>3 DEF ReadFollowed
<1>9. FollowedStays
  BY <1>1 DEF FollowedStays, Followed, Listened, streamVars
<1>10. ListingsFollowed'
  <2>1. \A k \in DOMAIN instrumentListed : instrumentListed[k].instrument \in initialize'.read
    BY <1>3 DEF EventInv, ChainOK
  <2>2. QED
    BY <1>1, <1>4, <1>5, <1>9, <2>1, ListingsStay DEF EventInv, streamVars
<1>11. QED
  BY <1>3, <1>4, <1>6, <1>7, <1>8, <1>10 DEF EventInv

LEMMA DirectoryNextStep == EventInv /\ DirectoryNext => EventInv'
<1> SUFFICES ASSUME EventInv, DirectoryNext PROVE EventInv'
  OBVIOUS
<1>1. /\ initialize.step = "directory"
      /\ UNCHANGED chainVars /\ UNCHANGED handlerVars
      /\ UNCHANGED <<factoryTask, listenedFactories, factoryStreams, contractStreams, failed>>
  BY DEF DirectoryNext
<1>2. /\ initialize \in
             [step : {"types", "factories", "registry", "directory", "adding", "done", "error"},
              read : SUBSET Instruments, rest : Seq(Instruments)]
      /\ initialize.rest \in Seq(Instruments)
  BY DEF EventInv, InitializeOK
<1>3. PICK rest : rest = initialize.rest
  OBVIOUS
<1>4. rest \in Seq(Instruments)
  BY <1>2, <1>3
<1>5. UNCHANGED <<listing, handling, registryNotified, contractNotified>>
  BY <1>1, HandlersUnchanged
<1>6. \A k \in DOMAIN instrumentListed : instrumentListed[k].instrument \in Instruments
  BY ListedAre DEF EventInv
<1>7. \A h \in listing : InstrumentOf(h) \in Instruments
  BY ListedAre DEF EventInv
<1>8. ASSUME initialize'.step \in {"directory", "adding", "done"},
             initialize'.read = initialize.read, InitializeOK', FollowedStays, BondClaims',
             ReadFollowed'
      PROVE  EventInv'
  <2>1. /\ ChainOK' /\ TasksOK' /\ FactoryClaims' /\ DeliveredIsPast'
        /\ UNCHANGED <<instruments, instrumentListed, eventCount>>
    BY <1>1, <1>8, BondSide
  <2>2. HandlersOK'
    BY <1>1, <1>5, <2>1, HandlersStay DEF EventInv
  <2>3. ~BeforeReading
    BY <1>1 DEF BeforeReading
  <2>4. ListingsFollowed'
    BY <1>1, <1>5, <1>8, <2>1, <2>3, ListingsStay DEF EventInv
  <2>5. QED
    BY <1>8, <2>1, <2>2, <2>4 DEF EventInv
<1>9. instrumentListed' = instrumentListed
  BY <1>1, ChainUnchanged
<1>10. CASE rest = <<>> /\ initialize' = [initialize EXCEPT !.step = "done"] /\ UNCHANGED listenedContracts
  <2>1. /\ initialize'.step = "done" /\ initialize'.read = initialize.read
        /\ initialize'.rest = initialize.rest /\ InitializeOK'
    BY <1>2, <1>3, <1>10 DEF InitializeOK, BeforeReading
  <2>2. FollowedStays
    BY <1>1, <1>10 DEF FollowedStays, Followed, Listened
  <2>3. BondClaims'
    BY <1>1, <1>5, <1>7, <1>9, <1>10, <2>1, BondClaimsStay DEF EventInv, InitializeAdds
  <2>4. ReadFollowed'
    BY <1>2, <2>1, <2>2 DEF EventInv, ReadFollowed, FollowedStays
  <2>5. QED
    BY <1>8, <2>1, <2>2, <2>3, <2>4
<1>11. CASE /\ rest # <<>> /\ Listened(Head(rest)) /\ initialize' = [initialize EXCEPT !.rest = Tail(rest)]
            /\ UNCHANGED listenedContracts
  <2>1. /\ Tail(rest) \in Seq(Instruments)
        /\ \A x \in ToSet(rest) : x = Head(rest) \/ x \in ToSet(Tail(rest))
    BY <1>4, <1>11, ToSetHead
  <2>2. /\ initialize'.step = "directory" /\ initialize'.read = initialize.read
        /\ initialize'.rest = Tail(rest) /\ InitializeOK'
    BY <1>1, <1>2, <1>11, <2>1 DEF InitializeOK, BeforeReading
  <2>3. FollowedStays
    BY <1>1, <1>11 DEF FollowedStays, Followed, Listened
  <2>4. BondClaims'
    BY <1>1, <1>5, <1>7, <1>9, <1>11, <2>2, BondClaimsStay DEF EventInv, InitializeAdds
  <2>5. ReadFollowed'
    <3> SUFFICES ASSUME NEW a \in initialize.read
                 PROVE  a \in ToSet(Tail(rest)) \/ Followed(a)'
      BY <2>2 DEF ReadFollowed
    <3>1. a \in Instruments
      BY <1>2
    <3>2. a \in ToSet(rest) \/ Followed(a)
      BY <1>3 DEF EventInv, ReadFollowed
    <3>3. CASE a = Head(rest)
      BY <1>11, <2>3, <3>1, <3>3 DEF FollowedStays, Followed
    <3>4. CASE a # Head(rest)
      BY <2>1, <2>3, <3>1, <3>2, <3>4 DEF FollowedStays
    <3>5. QED
      BY <3>3, <3>4
  <2>6. QED
    BY <1>8, <2>2, <2>3, <2>4, <2>5
<1>12. CASE /\ rest # <<>> /\ ~Listened(Head(rest)) /\ initialize' = [initialize EXCEPT !.step = "adding"]
            /\ Claim(Head(rest))
  <2>1. PICK a : a = Head(rest)
    OBVIOUS
  <2>2. a \in Instruments
    BY <1>4, <1>12, <2>1
  <2>3. /\ initialize'.step = "adding" /\ initialize'.read = initialize.read
        /\ initialize'.rest = rest /\ InitializeOK'
    BY <1>2, <1>3, <1>12 DEF InitializeOK, BeforeReading
  <2>4. \A h \in listing : h.step = "adding" => InstrumentOf(h) # a
    BY <1>12, <2>1, <2>2 DEF EventInv, BondClaims, OneStreamPerBond, BeingAdded
  <2>5. BeingAdded(a)' /\ \A b \in Instruments \ {a} : BeingAdded(b)' <=> BeingAdded(b)
    BY <1>1, <1>5, <1>9, <2>1, <2>3 DEF BeingAdded, InstrumentOf
  <2>6. listenedContracts' \subseteq Instruments /\ OneStreamPerBond' /\ FollowedStays
    BY <1>1, <1>12, <2>1, <2>2, <2>5, ClaimStep
  <2>7. BondClaims'
    <3>1. \A h \in listing' : h.step = "adding" => ~InitializeAdds(InstrumentOf(h))'
      BY <1>5, <1>9, <2>1, <2>3, <2>4 DEF InitializeAdds, InstrumentOf
    <3>2. QED
      BY <1>1, <1>5, <1>9, <2>6, <3>1 DEF EventInv, BondClaims, InstrumentOf
  <2>8. ReadFollowed'
    BY <1>2, <1>3, <2>3, <2>6 DEF EventInv, ReadFollowed, FollowedStays
  <2>9. QED
    BY <1>8, <2>3, <2>6, <2>7, <2>8
<1>13. QED
  BY <1>3, <1>10, <1>11, <1>12 DEF DirectoryNext

LEMMA DirectoryListenStep == EventInv /\ DirectoryListen => EventInv'
<1> SUFFICES ASSUME EventInv, DirectoryListen PROVE EventInv'
  OBVIOUS
<1>1. PICK rest : rest = initialize.rest
  OBVIOUS
<1>2. PICK a : a = Head(rest)
  OBVIOUS
<1>3. /\ initialize.step = "adding"
      /\ initialize' = [initialize EXCEPT !.step = "directory", !.rest = Tail(rest)]
      /\ ListenContract(a) \/ FailToListen(a)
      /\ UNCHANGED chainVars /\ UNCHANGED handlerVars
      /\ UNCHANGED <<factoryTask, listenedFactories, factoryStreams>>
  BY <1>1, <1>2 DEF DirectoryListen
<1>4. /\ initialize \in
             [step : {"types", "factories", "registry", "directory", "adding", "done", "error"},
              read : SUBSET Instruments, rest : Seq(Instruments)]
      /\ rest \in Seq(Instruments) /\ rest # <<>>
  BY <1>1, <1>3 DEF EventInv, InitializeOK
<1>5. /\ a \in Instruments /\ Tail(rest) \in Seq(Instruments)
      /\ \A x \in ToSet(rest) : x = a \/ x \in ToSet(Tail(rest))
  BY <1>2, <1>4, ToSetHead
<1>6. /\ initialize'.step = "directory" /\ initialize'.read = initialize.read
      /\ initialize'.rest = Tail(rest) /\ InitializeOK'
  BY <1>3, <1>4, <1>5 DEF InitializeOK, BeforeReading
<1>7. /\ ChainOK' /\ TasksOK' /\ FactoryClaims' /\ DeliveredIsPast'
      /\ UNCHANGED <<instruments, instrumentListed, eventCount>>
  BY <1>3, <1>6, BondSide
<1>8. UNCHANGED <<listing, handling, registryNotified, contractNotified>>
  BY <1>3, HandlersUnchanged
<1>9. \A h \in listing : h.step = "adding" => InstrumentOf(h) # a
  <2>1. \A h \in listing : h.step = "adding" => ~InitializeAdds(InstrumentOf(h))
    BY DEF EventInv, BondClaims
  <2>2. QED
    BY <1>1, <1>2, <1>3, <2>1 DEF InitializeAdds
<1>10. BeingAdded(a)
  BY <1>1, <1>2, <1>3 DEF BeingAdded
<1>11. ~BeingAdded(a)' /\ \A b \in Instruments \ {a} : BeingAdded(b)' <=> BeingAdded(b)
  BY <1>1, <1>2, <1>3, <1>6, <1>7, <1>8, <1>9 DEF BeingAdded, InstrumentOf
<1>12. /\ contractStreams' \in [Instruments -> Seq(Stream)]
       /\ listenedContracts' \subseteq Instruments
       /\ OneStreamPerBond'
       /\ \A b \in Instruments : \A i \in DOMAIN contractStreams'[b] :
             contractStreams'[b][i].next <= eventCount[b]
       /\ FollowedStays /\ Followed(a)'
  BY <1>3, <1>5, <1>7, <1>10, <1>11, ListenStep
<1>13. BondClaims'
  <2>1. \A b : ~InitializeAdds(b)'
    BY <1>6 DEF InitializeAdds
  <2>2. QED
    BY <1>7, <1>8, <1>12, <2>1 DEF EventInv, BondClaims, InstrumentOf
<1>14. HandlersOK'
  BY <1>7, <1>8, <1>12 DEF EventInv, HandlersOK
<1>15. ReadFollowed'
  <2> SUFFICES ASSUME NEW b \in initialize.read
               PROVE  b \in ToSet(Tail(rest)) \/ Followed(b)'
    BY <1>6 DEF ReadFollowed
  <2>1. b \in Instruments
    BY <1>4
  <2>2. b \in ToSet(rest) \/ Followed(b)
    BY <1>1 DEF EventInv, ReadFollowed
  <2>3. QED
    BY <1>5, <1>12, <2>1, <2>2 DEF FollowedStays
<1>16. ListingsFollowed'
  <2>1. ~BeforeReading
    BY <1>3 DEF BeforeReading
  <2>2. QED
    BY <1>3, <1>6, <1>7, <1>8, <1>12, <2>1, ListingsStay DEF EventInv
<1>17. QED
  BY <1>6, <1>7, <1>12, <1>13, <1>14, <1>15, <1>16 DEF EventInv

-----------------------------------------------------------------------------
(* The steps of the handlers. *)

\* A stream that delivers.
Advanced(streams, i, n) == [streams EXCEPT ![i].next = n]

LEMMA Advance ==
    ASSUME NEW streams \in Seq(Stream), NEW i \in DOMAIN streams, NEW n \in Nat,
           NEW now, now = Advanced(streams, i, n)
    PROVE  /\ now \in Seq(Stream) /\ Len(now) = Len(streams) /\ DOMAIN now = DOMAIN streams
           /\ now[i].next = n /\ now[i].start = streams[i].start
           /\ now # <<>> /\ streams # <<>>
           /\ \A j \in DOMAIN streams \ {i} : now[j] = streams[j]
<1>1. Len(streams) \in Nat /\ DOMAIN streams = 1..Len(streams) /\ streams[i] \in Stream
  OBVIOUS
<1>2. PICK stream : stream = [streams[i] EXCEPT !.next = n]
  OBVIOUS
<1>3. stream \in Stream /\ stream.next = n /\ stream.start = streams[i].start
  BY <1>1, <1>2 DEF Stream
<1>4. now = [streams EXCEPT ![i] = stream]
  BY <1>2 DEF Advanced
<1>5. /\ now \in Seq(Stream) /\ Len(now) = Len(streams) /\ DOMAIN now = DOMAIN streams
      /\ now[i] = stream
      /\ \A j \in DOMAIN streams \ {i} : now[j] = streams[j]
  BY <1>1, <1>3, <1>4
<1>6. now # <<>> /\ streams # <<>>
  BY <1>1, <1>5
<1>7. QED
  BY <1>3, <1>5, <1>6

LEMMA HandlerSide ==
    ASSUME EventInv, UNCHANGED chainVars, UNCHANGED <<initialize, factoryTask>>, FollowedStays
    PROVE  /\ ChainOK' /\ InitializeOK' /\ TasksOK' /\ ReadFollowed'
           /\ UNCHANGED <<instrumentListed, eventCount>>
           /\ BeforeReading' <=> BeforeReading
           /\ \A a : InitializeAdds(a)' <=> InitializeAdds(a)
<1>1. ChainOK' /\ UNCHANGED <<instrumentListed, eventCount>>
  BY ChainStays, ChainUnchanged DEF EventInv
<1>2. InitializeOK' /\ TasksOK' /\ (BeforeReading' <=> BeforeReading)
  BY DEF EventInv, InitializeOK, TasksOK, BeforeReading
<1>3. ReadFollowed'
  BY DEF EventInv, ReadFollowed, FollowedStays, InitializeOK
<1>4. QED
  BY <1>1, <1>2, <1>3 DEF InitializeAdds

\* The first listing that a stream has still to deliver: nothing is between
\* it and the last one.
LEMMA DeliverListingStep ==
    ASSUME NEW f \in Factories PROVE EventInv /\ DeliverListing(f) => EventInv'
<1> SUFFICES ASSUME EventInv, DeliverListing(f) PROVE EventInv'
  OBVIOUS
<1>1. PICK i \in DOMAIN factoryStreams[f], k \in DOMAIN instrumentListed :
          /\ IsFirst(Undelivered(f, factoryStreams[f][i]), k)
          /\ factoryStreams' = [factoryStreams EXCEPT ![f][i].next = k]
          /\ registryNotified' = registryNotified \cup {k}
          /\ listing' = listing \cup {[listed |-> k, step |-> "published"]}
  BY DEF DeliverListing
<1>2. /\ UNCHANGED chainVars /\ UNCHANGED <<initialize, factoryTask>>
      /\ UNCHANGED <<listenedFactories, listenedContracts, contractStreams, handling,
                     contractNotified, failed>>
  BY DEF DeliverListing, taskVars
<1>3. FollowedStays
  BY <1>2 DEF FollowedStays, Followed, Listened
<1>4. /\ ChainOK' /\ InitializeOK' /\ TasksOK' /\ ReadFollowed'
      /\ UNCHANGED <<instrumentListed, eventCount>>
      /\ BeforeReading' <=> BeforeReading
      /\ \A a : InitializeAdds(a)' <=> InitializeAdds(a)
  BY <1>2, <1>3, HandlerSide
<1>5. /\ Len(instrumentListed) \in Nat /\ DOMAIN instrumentListed = 1..Len(instrumentListed)
      /\ \A l \in DOMAIN instrumentListed : instrumentListed[l].instrument \in Instruments
      /\ k \in Nat /\ k <= Len(instrumentListed)
  BY ListedAre DEF EventInv
<1>6. /\ factoryStreams \in [Addresses \cup {NoAddress} -> Seq(Stream)]
      /\ factoryStreams[f] \in Seq(Stream) /\ f \in Addresses \cup {NoAddress}
  BY FactoryAssumption DEF EventInv, FactoryClaims
<1>7. PICK old : old = factoryStreams[f]
  OBVIOUS
<1>8. PICK now : now = Advanced(old, i, k)
  OBVIOUS
<1>9. old \in Seq(Stream) /\ i \in DOMAIN old
  BY <1>6, <1>7
<1>10. /\ now \in Seq(Stream) /\ Len(now) = Len(old) /\ DOMAIN now = DOMAIN old
       /\ now[i].next = k /\ now[i].start = old[i].start
       /\ now # <<>> /\ old # <<>>
       /\ \A j \in DOMAIN old \ {i} : now[j] = old[j]
  BY <1>5, <1>8, <1>9, Advance
<1>11. factoryStreams' = [factoryStreams EXCEPT ![f] = now]
  BY <1>1, <1>7, <1>8 DEF Advanced
<1>12. /\ factoryStreams' \in [Addresses \cup {NoAddress} -> Seq(Stream)]
       /\ factoryStreams'[f] = now
       /\ \A g \in (Addresses \cup {NoAddress}) \ {f} : factoryStreams'[g] = factoryStreams[g]
  BY <1>6, <1>10, <1>11
<1>13. FactoryClaims'
  <2>1. \A g \in Factories \cup {NoAddress} :
            /\ Len(factoryStreams'[g]) = Len(factoryStreams[g])
            /\ factoryStreams'[g] # <<>> <=> factoryStreams[g] # <<>>
    BY <1>7, <1>10, <1>12, FactoryAssumption
  <2>2. QED
    BY <1>2, <1>12, <2>1 DEF EventInv, FactoryClaims
<1>14. [listed |-> k, step |-> "published"].step # "adding"
  OBVIOUS
<1>15. \A h : h \in listing' /\ h.step = "adding" <=> h \in listing /\ h.step = "adding"
  BY <1>1, <1>14
<1>16. BondClaims'
  <2>1. \A a \in Instruments : BeingAdded(a)' <=> BeingAdded(a)
    BY <1>2, <1>4, <1>15 DEF BeingAdded, InstrumentOf
  <2>2. OneStreamPerBond'
    BY <1>2, <2>1 DEF EventInv, BondClaims, OneStreamPerBond, Listened
  <2>3. /\ \A h \in listing' : h.step = "adding" => ~InitializeAdds(InstrumentOf(h))'
        /\ \A g, h \in listing' :
              g.step = "adding" /\ h.step = "adding" /\ InstrumentOf(g)' = InstrumentOf(h)' => g = h
    <3>1. \A h : InstrumentOf(h)' = InstrumentOf(h)
      BY <1>4 DEF InstrumentOf
    <3>2. /\ \A h \in listing : h.step = "adding" => ~InitializeAdds(InstrumentOf(h))
          /\ \A g, h \in listing :
                g.step = "adding" /\ h.step = "adding" /\ InstrumentOf(g) = InstrumentOf(h) => g = h
      BY DEF EventInv, BondClaims
    <3>3. \A h : InitializeAdds(InstrumentOf(h))' <=> InitializeAdds(InstrumentOf(h))
      BY <1>2, <1>4 DEF InitializeAdds, InstrumentOf
    <3>4. \A h \in listing' : h.step = "adding" => ~InitializeAdds(InstrumentOf(h))'
      BY <1>15, <3>2, <3>3
    <3>5. ASSUME NEW g \in listing', NEW h \in listing', g.step = "adding", h.step = "adding",
                 InstrumentOf(g)' = InstrumentOf(h)'
          PROVE  g = h
      BY <1>15, <3>1, <3>2, <3>5
    <3>6. QED
      BY <3>4, <3>5
  <2>4. QED
    BY <1>2, <2>2, <2>3 DEF EventInv, BondClaims
<1>17. HandlersOK'
  <2>1. [listed |-> k, step |-> "published"] \in
            [listed : DOMAIN instrumentListed, step : {"published", "adding"}]
    OBVIOUS
  <2>2. QED
    BY <1>1, <1>2, <1>4, <2>1 DEF EventInv, HandlersOK
<1>18. ASSUME NEW g \in Factories, g # f
       PROVE  factoryStreams'[g] = factoryStreams[g]
  BY <1>12, <1>18, FactoryAssumption
<1>19. DeliveredIsPast'
  <2>1. ASSUME NEW g \in Factories, NEW j \in DOMAIN factoryStreams'[g]
        PROVE  factoryStreams'[g][j].next <= Len(instrumentListed)
    <3>1. CASE g # f
      BY <1>18, <3>1 DEF EventInv, DeliveredIsPast
    <3>2. CASE g = f /\ j = i
      BY <1>5, <1>10, <1>12, <3>2
    <3>3. CASE g = f /\ j # i
      BY <1>7, <1>10, <1>12, <3>3 DEF EventInv, DeliveredIsPast
    <3>4. QED
      BY <3>1, <3>2, <3>3
  <2>2. QED
    BY <1>4, <2>1 DEF DeliveredIsPast
<1>20. ListingsFollowed'
  <2> SUFFICES ASSUME NEW g \in Factories, NEW j \in DOMAIN factoryStreams'[g],
                      NEW l \in DOMAIN instrumentListed,
                      instrumentListed[l].factory = g, l <= factoryStreams'[g][j].next
               PROVE  \/ /\ l <= factoryStreams'[g][j].start
                         /\ BeforeReading \/ instrumentListed[l].instrument \in initialize.read
                      \/ \E h \in listing' : h.listed = l
                      \/ Followed(instrumentListed[l].instrument)'
    BY <1>2, <1>4 DEF ListingsFollowed
  <2>1. PICK a : a = instrumentListed[l].instrument
    OBVIOUS
  <2>2. Followed(a)' <=> Followed(a)
    BY <1>2 DEF Followed, Listened
  <2>3. Followed(instrumentListed[l].instrument)' <=> Followed(a)
    BY <1>4, <2>1, <2>2
  <2>4. \A h \in listing : h \in listing'
    BY <1>1
  <2>5. CASE g # f \/ j # i
    <3>1. /\ j \in DOMAIN factoryStreams[g]
          /\ factoryStreams'[g][j] = factoryStreams[g][j]
      BY <1>7, <1>10, <1>12, <1>18, <2>5
    <3>2. \/ /\ l <= factoryStreams[g][j].start
             /\ BeforeReading \/ a \in initialize.read
          \/ \E h \in listing : h.listed = l
          \/ Followed(a)
      BY <2>1, <3>1 DEF EventInv, ListingsFollowed
    <3>3. QED
      BY <2>1, <2>3, <2>4, <3>1, <3>2
  <2>6. CASE g = f /\ j = i /\ l <= old[i].next
    <3>1. \/ /\ l <= old[i].start
             /\ BeforeReading \/ a \in initialize.read
          \/ \E h \in listing : h.listed = l
          \/ Followed(a)
      BY <1>7, <2>1, <2>6 DEF EventInv, ListingsFollowed
    <3>2. QED
      BY <1>10, <1>12, <2>1, <2>3, <2>4, <2>6, <3>1
  <2>7. CASE g = f /\ j = i /\ ~(l <= old[i].next)
    <3>1. old[i].next \in Nat /\ l \in Nat /\ l > old[i].next
      <4>1. old[i] \in Stream
        BY <1>9
      <4>2. QED
        BY <1>5, <2>7, <4>1 DEF Stream
    <3>2. l \in Undelivered(f, old[i])
      BY <2>7, <3>1 DEF Undelivered
    <3>3. k <= l
      BY <1>1, <1>7, <3>2 DEF IsFirst
    <3>4. l <= k
      BY <1>10, <1>12, <2>7
    <3>5. l = k
      BY <1>5, <3>1, <3>3, <3>4
    <3>6. [listed |-> k, step |-> "published"].listed = l
      BY <3>5
    <3>7. [listed |-> k, step |-> "published"] \in listing'
      BY <1>1
    <3>8. QED
      BY <3>6, <3>7
  <2>8. QED
    BY <2>5, <2>6, <2>7
<1>21. QED
  BY <1>4, <1>13, <1>16, <1>17, <1>19, <1>20 DEF EventInv

\* The streams of factories are left alone, and no handler ends before its
\* bond is followed.
LEMMA HandlerOfBonds ==
    ASSUME EventInv, UNCHANGED chainVars, FollowedStays,
           UNCHANGED <<initialize, factoryTask, listenedFactories, factoryStreams>>,
           \A h \in listing : (\E g \in listing' : g.listed = h.listed) \/ Followed(InstrumentOf(h))',
           BondClaims', HandlersOK'
    PROVE  EventInv'
<1>1. /\ ChainOK' /\ InitializeOK' /\ TasksOK' /\ ReadFollowed'
      /\ UNCHANGED <<instrumentListed, eventCount>>
      /\ BeforeReading' <=> BeforeReading
  BY HandlerSide
<1>2. FactoryClaims' /\ DeliveredIsPast'
  BY <1>1, FactoryClaimsStay, DeliveredStays DEF EventInv
<1>3. ListingsFollowed'
  BY <1>1, ListingsStay DEF EventInv
<1>4. QED
  BY <1>1, <1>2, <1>3 DEF EventInv

LEMMA SubscribeToListedStep ==
    ASSUME NEW h \in listing PROVE EventInv /\ SubscribeToListed(h) => EventInv'
<1> SUFFICES ASSUME EventInv, SubscribeToListed(h) PROVE EventInv'
  OBVIOUS
<1>1. /\ h.step = "published"
      /\ UNCHANGED chainVars /\ UNCHANGED <<initialize, factoryTask>>
      /\ UNCHANGED <<listenedFactories, factoryStreams, contractStreams, handling,
                     registryNotified, contractNotified, failed>>
  BY DEF SubscribeToListed, taskVars
<1>2. instrumentListed' = instrumentListed /\ eventCount' = eventCount
  BY <1>1, ChainUnchanged
<1>3. PICK a : a = InstrumentOf(h)
  OBVIOUS
<1>4. /\ a \in Instruments
      /\ h.listed \in DOMAIN instrumentListed /\ h = [listed |-> h.listed, step |-> "published"]
  BY <1>1, <1>3, ListedAre DEF EventInv
<1>5. \A g : InstrumentOf(g)' = InstrumentOf(g)
  BY <1>2 DEF InstrumentOf
<1>6. /\ \A g \in listing : g.step = "adding" => ~InitializeAdds(InstrumentOf(g))
      /\ \A g, k \in listing :
            g.step = "adding" /\ k.step = "adding" /\ InstrumentOf(g) = InstrumentOf(k) => g = k
  BY DEF EventInv, BondClaims
<1>7. \A g : InitializeAdds(InstrumentOf(g))' <=> InitializeAdds(InstrumentOf(g))
  BY <1>1, <1>2 DEF InitializeAdds, InstrumentOf
<1>8. CASE Listened(a) /\ listing' = listing \ {h} /\ UNCHANGED listenedContracts
  <2>1. FollowedStays /\ Followed(a)'
    BY <1>1, <1>8 DEF FollowedStays, Followed, Listened
  <2>2. \A g : g \in listing' /\ g.step = "adding" <=> g \in listing /\ g.step = "adding"
    BY <1>1, <1>8
  <2>3. \A b \in Instruments : BeingAdded(b)' <=> BeingAdded(b)
    BY <1>1, <1>5, <2>2 DEF BeingAdded
  <2>4. OneStreamPerBond'
    BY <1>1, <1>8, <2>3 DEF EventInv, BondClaims, OneStreamPerBond, Listened
  <2>5. /\ \A g \in listing' : g.step = "adding" => ~InitializeAdds(InstrumentOf(g))'
        /\ \A g, k \in listing' :
              g.step = "adding" /\ k.step = "adding" /\ InstrumentOf(g)' = InstrumentOf(k)' => g = k
    BY <1>5, <1>6, <1>7, <2>2
  <2>6. BondClaims'
    BY <1>1, <1>8, <2>4, <2>5 DEF EventInv, BondClaims
  <2>7. HandlersOK'
    BY <1>1, <1>2, <1>8 DEF EventInv, HandlersOK
  <2>8. Followed(InstrumentOf(h))'
    BY <1>3, <1>5, <2>1 DEF Followed, Listened
  <2>9. \A g \in listing : (\E k \in listing' : k.listed = g.listed) \/ Followed(InstrumentOf(g))'
    BY <1>8, <2>8
  <2>10. QED
    BY <1>1, <2>1, <2>6, <2>7, <2>9, HandlerOfBonds
<1>9. CASE /\ ~Listened(a) /\ Claim(a)
           /\ listing' = (listing \ {h}) \cup {[h EXCEPT !.step = "adding"]}
  <2>1. PICK now : now = [listed |-> h.listed, step |-> "adding"]
    OBVIOUS
  <2>2. now = [h EXCEPT !.step = "adding"]
    BY <1>4, <2>1
  <2>3. now.step = "adding" /\ now.listed = h.listed /\ InstrumentOf(now) = a
    BY <1>3, <2>1 DEF InstrumentOf
  <2>4. listing' = (listing \ {h}) \cup {now}
    BY <1>9, <2>2
  <2>5. ~BeingAdded(a)
    BY <1>4, <1>9 DEF EventInv, BondClaims, OneStreamPerBond
  <2>6. ~InitializeAdds(a) /\ \A g \in listing : g.step = "adding" => InstrumentOf(g) # a
    BY <2>5 DEF BeingAdded, InitializeAdds
  <2>7. \A g : g \in listing' /\ g.step = "adding" <=>
                 g = now \/ (g \in listing /\ g.step = "adding")
    BY <1>1, <2>3, <2>4
  <2>8. BeingAdded(a)' /\ \A b \in Instruments \ {a} : BeingAdded(b)' <=> BeingAdded(b)
    BY <1>1, <1>5, <2>3, <2>7 DEF BeingAdded
  <2>9. /\ listenedContracts' \subseteq Instruments /\ OneStreamPerBond'
        /\ FollowedStays /\ Followed(a)'
    BY <1>1, <1>4, <1>9, <2>8, ClaimStep
  <2>10. ~InitializeAdds(InstrumentOf(now))
    BY <2>3, <2>6
  <2>11. /\ \A g \in listing' : g.step = "adding" => ~InitializeAdds(InstrumentOf(g))'
         /\ \A g, k \in listing' :
              g.step = "adding" /\ k.step = "adding" /\ InstrumentOf(g)' = InstrumentOf(k)' => g = k
    BY <1>5, <1>6, <1>7, <2>3, <2>6, <2>7, <2>10
  <2>12. BondClaims'
    BY <1>1, <2>9, <2>11 DEF EventInv, BondClaims
  <2>13. now \in [listed : DOMAIN instrumentListed, step : {"published", "adding"}]
    BY <1>4, <2>1
  <2>14. HandlersOK'
    BY <1>1, <1>2, <2>4, <2>13 DEF EventInv, HandlersOK
  <2>15. \A g \in listing : \E k \in listing' : k.listed = g.listed
    BY <2>3, <2>4
  <2>16. QED
    BY <1>1, <2>9, <2>12, <2>14, <2>15, HandlerOfBonds
<1>10. QED
  BY <1>3, <1>8, <1>9 DEF SubscribeToListed

LEMMA ListenToListedStep ==
    ASSUME NEW h \in listing PROVE EventInv /\ ListenToListed(h) => EventInv'
<1> SUFFICES ASSUME EventInv, ListenToListed(h) PROVE EventInv'
  OBVIOUS
<1>1. PICK a : a = InstrumentOf(h)
  OBVIOUS
<1>2. /\ h.step = "adding" /\ listing' = listing \ {h}
      /\ ListenContract(a) \/ FailToListen(a)
      /\ UNCHANGED chainVars /\ UNCHANGED <<initialize, factoryTask>>
      /\ UNCHANGED <<listenedFactories, factoryStreams, handling,
                     registryNotified, contractNotified>>
  BY <1>1 DEF ListenToListed, taskVars
<1>3. instrumentListed' = instrumentListed /\ eventCount' = eventCount
  BY <1>2, ChainUnchanged
<1>4. a \in Instruments
  BY <1>1, ListedAre DEF EventInv
<1>5. \A g : InstrumentOf(g)' = InstrumentOf(g)
  BY <1>3 DEF InstrumentOf
<1>6. /\ \A g \in listing : g.step = "adding" => ~InitializeAdds(InstrumentOf(g))
      /\ \A g, k \in listing :
            g.step = "adding" /\ k.step = "adding" /\ InstrumentOf(g) = InstrumentOf(k) => g = k
  BY DEF EventInv, BondClaims
<1>7. \A g : InitializeAdds(InstrumentOf(g))' <=> InitializeAdds(InstrumentOf(g))
  BY <1>2, <1>3 DEF InitializeAdds, InstrumentOf
<1>8. BeingAdded(a)
  BY <1>1, <1>2 DEF BeingAdded
<1>9. ~InitializeAdds(a) /\ \A g \in listing' : g.step = "adding" => InstrumentOf(g) # a
  BY <1>1, <1>2, <1>6
<1>10. ~BeingAdded(a)'
  BY <1>2, <1>5, <1>9 DEF BeingAdded, InitializeAdds
<1>11. \A b \in Instruments \ {a} : BeingAdded(b)' <=> BeingAdded(b)
  BY <1>1, <1>2, <1>5 DEF BeingAdded
<1>12. /\ contractStreams' \in [Instruments -> Seq(Stream)]
       /\ listenedContracts' \subseteq Instruments
       /\ OneStreamPerBond'
       /\ \A b \in Instruments : \A i \in DOMAIN contractStreams'[b] :
             contractStreams'[b][i].next <= eventCount[b]
       /\ FollowedStays /\ Followed(a)'
  BY <1>2, <1>3, <1>4, <1>8, <1>10, <1>11, ListenStep
<1>13. /\ \A g \in listing' : g.step = "adding" => ~InitializeAdds(InstrumentOf(g))'
       /\ \A g, k \in listing' :
            g.step = "adding" /\ k.step = "adding" /\ InstrumentOf(g)' = InstrumentOf(k)' => g = k
  BY <1>2, <1>5, <1>6, <1>7
<1>14. BondClaims'
  BY <1>12, <1>13 DEF BondClaims
<1>15. HandlersOK'
  BY <1>2, <1>3, <1>12 DEF EventInv, HandlersOK
<1>16. Followed(InstrumentOf(h))'
  BY <1>1, <1>5, <1>12 DEF Followed, Listened
<1>17. \A g \in listing : (\E k \in listing' : k.listed = g.listed) \/ Followed(InstrumentOf(g))'
  BY <1>2, <1>16
<1>18. QED
  BY <1>2, <1>12, <1>14, <1>15, <1>17, HandlerOfBonds

LEMMA DeliverEventStep ==
    ASSUME NEW a \in Instruments PROVE EventInv /\ DeliverEvent(a) => EventInv'
<1> SUFFICES ASSUME EventInv, DeliverEvent(a) PROVE EventInv'
  OBVIOUS
<1>1. PICK i \in DOMAIN contractStreams[a] :
          /\ HasNext(a, contractStreams[a][i])
          /\ contractStreams' = [contractStreams EXCEPT ![a][i].next = @ + 1]
          /\ Handle(<<a, contractStreams[a][i].next + 1>>)
  BY DEF DeliverEvent
<1>2. /\ UNCHANGED chainVars /\ UNCHANGED <<initialize, factoryTask>>
      /\ UNCHANGED <<listenedFactories, listenedContracts, factoryStreams, listing,
                     registryNotified, contractNotified, failed>>
  BY DEF DeliverEvent, taskVars
<1>3. instrumentListed' = instrumentListed /\ eventCount' = eventCount
  BY <1>2, ChainUnchanged
<1>4. /\ contractStreams \in [Instruments -> Seq(Stream)]
      /\ eventCount[a] \in Nat
  BY DEF EventInv, BondClaims, ChainOK
<1>5. PICK old : old = contractStreams[a]
  OBVIOUS
<1>6. old \in Seq(Stream) /\ i \in DOMAIN old /\ old[i] \in Stream
  BY <1>4, <1>5
<1>7. PICK n : n = old[i].next + 1
  OBVIOUS
<1>8. n \in 1..eventCount[a]
  <2>1. old[i].next \in Nat
    BY <1>6 DEF Stream
  <2>2. QED
    BY <1>1, <1>4, <1>5, <1>7, <2>1 DEF HasNext
<1>9. PICK now : now = Advanced(old, i, n)
  OBVIOUS
<1>10. /\ now \in Seq(Stream) /\ Len(now) = Len(old) /\ DOMAIN now = DOMAIN old
       /\ now[i].next = n
       /\ now # <<>> /\ old # <<>>
       /\ \A j \in DOMAIN old \ {i} : now[j] = old[j]
  BY <1>4, <1>6, <1>8, <1>9, Advance
<1>11. contractStreams' = [contractStreams EXCEPT ![a] = now]
  BY <1>1, <1>5, <1>7, <1>9 DEF Advanced
<1>12. /\ contractStreams' \in [Instruments -> Seq(Stream)] /\ contractStreams'[a] = now
       /\ \A b \in Instruments \ {a} : contractStreams'[b] = contractStreams[b]
  BY <1>4, <1>10, <1>11
<1>13. FollowedStays
  BY <1>2 DEF FollowedStays, Followed, Listened
<1>14. BondClaims'
  <2>1. \A b \in Instruments : BeingAdded(b)' <=> BeingAdded(b)
    BY <1>2, <1>3 DEF BeingAdded, InstrumentOf
  <2>2. \A b \in Instruments : /\ Len(contractStreams'[b]) = Len(contractStreams[b])
                               /\ contractStreams'[b] # <<>> <=> contractStreams[b] # <<>>
    BY <1>5, <1>10, <1>12
  <2>3. OneStreamPerBond'
    BY <1>2, <2>1, <2>2 DEF EventInv, BondClaims, OneStreamPerBond, Listened
  <2>4. \A g : InitializeAdds(InstrumentOf(g))' <=> InitializeAdds(InstrumentOf(g))
    BY <1>2, <1>3 DEF InitializeAdds, InstrumentOf
  <2>5. \A g : InstrumentOf(g)' = InstrumentOf(g)
    BY <1>3 DEF InstrumentOf
  <2>6. QED
    BY <1>2, <1>12, <2>3, <2>4, <2>5 DEF EventInv, BondClaims
<1>15. HandlersOK'
  <2>1. handling' = handling \cup {<<a, n>>}
    BY <1>1, <1>5, <1>7 DEF Handle
  <2>2. <<a, n>> \in {event \in Instruments \X Nat : event[2] \in 1..eventCount[event[1]]}
    BY <1>8
  <2>3. ASSUME NEW b \in Instruments, NEW j \in DOMAIN contractStreams'[b]
        PROVE  contractStreams'[b][j].next <= eventCount[b]
    <3>1. CASE b # a
      BY <1>12, <3>1 DEF EventInv, HandlersOK
    <3>2. CASE b = a /\ j = i
      BY <1>8, <1>10, <1>12, <3>2
    <3>3. CASE b = a /\ j # i
      BY <1>5, <1>10, <1>12, <3>3 DEF EventInv, HandlersOK
    <3>4. QED
      BY <3>1, <3>2, <3>3
  <2>4. QED
    BY <1>2, <1>3, <2>1, <2>2, <2>3 DEF EventInv, HandlersOK
<1>16. \A g \in listing : \E k \in listing' : k.listed = g.listed
  BY <1>2
<1>17. QED
  BY <1>2, <1>13, <1>14, <1>15, <1>16, HandlerOfBonds

LEMMA PublishEventStep ==
    ASSUME NEW event \in handling PROVE EventInv /\ PublishEvent(event) => EventInv'
<1> SUFFICES ASSUME EventInv, PublishEvent(event) PROVE EventInv'
  OBVIOUS
<1>1. /\ UNCHANGED chainVars /\ UNCHANGED <<initialize, factoryTask>>
      /\ UNCHANGED <<listenedFactories, listenedContracts, factoryStreams, contractStreams,
                     listing, registryNotified>>
      /\ handling' = handling \ {event} /\ contractNotified' \subseteq contractNotified \cup {event}
      /\ failed \subseteq failed'
  BY DEF PublishEvent, taskVars, streamVars, Fails
<1>2. instrumentListed' = instrumentListed /\ eventCount' = eventCount
  BY <1>1, ChainUnchanged
<1>3. FollowedStays
  BY <1>1 DEF FollowedStays, Followed, Listened
<1>4. BondClaims'
  BY <1>1, <1>2, BondClaimsStay, ListedAre DEF EventInv, InitializeAdds
<1>5. HandlersOK'
  BY <1>1, <1>2 DEF EventInv, HandlersOK
<1>6. \A g \in listing : \E k \in listing' : k.listed = g.listed
  BY <1>1
<1>7. QED
  BY <1>1, <1>3, <1>4, <1>5, <1>6, HandlerOfBonds

-----------------------------------------------------------------------------
(* The steps of the chain, and the invariant. *)

\* What is on the chain stays there.
LEMMA ChainGrows ==
    ASSUME ChainOK, ChainNext
    PROVE  /\ ChainOK' /\ Len(instrumentListed') \in Nat
           /\ DOMAIN instrumentListed' = 1..Len(instrumentListed')
           /\ Len(instrumentListed) <= Len(instrumentListed')
           /\ \A k \in DOMAIN instrumentListed : instrumentListed'[k] = instrumentListed[k]
           /\ eventCount' \in [Instruments -> Nat]
           /\ \A a \in Instruments : eventCount[a] <= eventCount'[a]
<1>1. /\ factories \in [FactoryTypes -> Factories \cup {NoAddress}]
      /\ instruments \in Seq(Instruments) /\ instrumentListed \in Seq(Listing)
      /\ eventCount \in [Instruments -> Nat]
      /\ \A k \in DOMAIN instrumentListed : instrumentListed[k].instrument \in ToSet(instruments)
  BY DEF ChainOK
<1>2. CASE ChangeFactories
  <2>1. instruments' = instruments /\ instrumentListed' = instrumentListed /\ eventCount' = eventCount
    BY <1>2 DEF ChangeFactories, AuthorizeFactory, UnAuthorizeFactory, instrumentVars
  <2>2. factories' \in [FactoryTypes -> Factories \cup {NoAddress}]
    BY <1>1, <1>2 DEF ChangeFactories, AuthorizeFactory, UnAuthorizeFactory
  <2>3. QED
    BY <1>1, <2>1, <2>2 DEF ChainOK
<1>3. ASSUME NEW f \in Factories, NEW input \in BondInputs, CreateForgeBond(f, input)
      PROVE  /\ ChainOK' /\ Len(instrumentListed') \in Nat
             /\ DOMAIN instrumentListed' = 1..Len(instrumentListed')
             /\ Len(instrumentListed) <= Len(instrumentListed')
             /\ \A k \in DOMAIN instrumentListed : instrumentListed'[k] = instrumentListed[k]
             /\ eventCount' = eventCount
  <2>1. PICK a : a = input.address
    OBVIOUS
  <2>2. a \in Instruments
    BY <2>1, FactoryAssumption
  <2>3. PICK listed : listed = [factory |-> f, instrument |-> a]
    OBVIOUS
  <2>4. listed \in Listing /\ listed.instrument = a
    BY <2>2, <2>3 DEF Listing
  <2>5. /\ instruments' = Append(instruments, a) /\ factories' = factories
        /\ instrumentListed' = Append(instrumentListed, listed) /\ eventCount' = eventCount
    BY <1>3, <2>1, <2>3 DEF CreateForgeBond, ListInstrument, factoryVars
  <2>6. /\ instruments' \in Seq(Instruments)
        /\ ToSet(instruments) \subseteq ToSet(instruments') /\ a \in ToSet(instruments')
    BY <1>1, <2>2, <2>5, ToSetAppend
  <2>7. /\ instrumentListed' \in Seq(Listing) /\ Len(instrumentListed) \in Nat
        /\ Len(instrumentListed') = Len(instrumentListed) + 1
        /\ DOMAIN instrumentListed = 1..Len(instrumentListed)
        /\ DOMAIN instrumentListed' = 1..(Len(instrumentListed) + 1)
        /\ \A k \in DOMAIN instrumentListed : instrumentListed'[k] = instrumentListed[k]
        /\ instrumentListed'[Len(instrumentListed) + 1] = listed
    BY <1>1, <2>4, <2>5
  <2>8. ASSUME NEW k \in DOMAIN instrumentListed'
        PROVE  instrumentListed'[k].instrument \in ToSet(instruments')
    <3>1. CASE k \in DOMAIN instrumentListed
      BY <1>1, <2>6, <2>7, <3>1
    <3>2. CASE k = Len(instrumentListed) + 1
      BY <2>4, <2>6, <2>7, <3>2
    <3>3. QED
      BY <2>7, <3>1, <3>2
  <2>9. ChainOK'
    BY <1>1, <2>5, <2>6, <2>7, <2>8 DEF ChainOK
  <2>10. QED
    BY <2>5, <2>7, <2>9
<1>4. ASSUME NEW a \in Instruments, EmitEvent(a)
      PROVE  /\ ChainOK' /\ instrumentListed' = instrumentListed
             /\ eventCount' \in [Instruments -> Nat]
             /\ \A b \in Instruments : eventCount[b] <= eventCount'[b]
  <2>1. /\ eventCount' = [eventCount EXCEPT ![a] = eventCount[a] + 1]
        /\ factories' = factories /\ instruments' = instruments
        /\ instrumentListed' = instrumentListed
    BY <1>4 DEF EmitEvent, registryVars, factoryVars, instrumentVars
  <2>2. /\ eventCount' \in [Instruments -> Nat]
        /\ \A b \in Instruments : eventCount[b] <= eventCount'[b]
    BY <1>1, <2>1
  <2>3. QED
    BY <1>1, <2>1, <2>2 DEF ChainOK
<1>5. Len(instrumentListed) \in Nat /\ DOMAIN instrumentListed = 1..Len(instrumentListed)
  BY <1>1
<1>6. CASE \E f \in Factories, input \in BondInputs : CreateForgeBond(f, input)
  BY <1>1, <1>3, <1>6
<1>7. CASE \E a \in Instruments : EmitEvent(a)
  BY <1>4, <1>5, <1>7
<1>8. CASE ChangeFactories
  <2>1. instrumentListed' = instrumentListed /\ eventCount' = eventCount /\ ChainOK'
    BY <1>2, <1>8 DEF ChangeFactories
  <2>2. QED
    BY <1>1, <1>5, <2>1
<1>9. QED
  BY <1>6, <1>7, <1>8 DEF ChainNext

LEMMA ChainStep == EventInv /\ ChainNext /\ UNCHANGED serviceVars => EventInv'
<1> SUFFICES ASSUME EventInv, ChainNext, UNCHANGED serviceVars PROVE EventInv'
  OBVIOUS
<1>1. /\ ChainOK' /\ Len(instrumentListed') \in Nat
      /\ DOMAIN instrumentListed' = 1..Len(instrumentListed')
      /\ Len(instrumentListed) <= Len(instrumentListed')
      /\ \A k \in DOMAIN instrumentListed : instrumentListed'[k] = instrumentListed[k]
      /\ eventCount' \in [Instruments -> Nat]
      /\ \A a \in Instruments : eventCount[a] <= eventCount'[a]
  BY ChainGrows DEF EventInv
<1>2. /\ UNCHANGED <<initialize, factoryTask>>
      /\ UNCHANGED <<listenedFactories, listenedContracts, factoryStreams, contractStreams>>
      /\ UNCHANGED <<listing, handling, registryNotified, contractNotified>>
      /\ UNCHANGED failed
  BY DEF serviceVars, taskVars, streamVars, handlerVars
<1>3. /\ Len(instrumentListed) \in Nat
      /\ DOMAIN instrumentListed = 1..Len(instrumentListed)
      /\ DOMAIN instrumentListed \subseteq DOMAIN instrumentListed'
      /\ \A h \in listing : /\ h.listed \in DOMAIN instrumentListed
                            /\ h \in [listed : DOMAIN instrumentListed,
                                     step : {"published", "adding"}]
  <2>1. Len(instrumentListed) \in Nat /\ DOMAIN instrumentListed = 1..Len(instrumentListed)
    BY ListedAre DEF EventInv
  <2>2. \A h \in listing : h \in [listed : DOMAIN instrumentListed, step : {"published", "adding"}]
    BY DEF EventInv, HandlersOK
  <2>3. QED
    BY <1>1, <2>1, <2>2
<1>4. InitializeOK' /\ TasksOK' /\ (BeforeReading' <=> BeforeReading)
  BY <1>2 DEF EventInv, InitializeOK, TasksOK, BeforeReading
<1>5. FactoryClaims'
  BY <1>2, FactoryClaimsStay DEF EventInv
<1>6. BondClaims'
  <2>1. \A h \in listing : InstrumentOf(h)' = InstrumentOf(h)
    BY <1>1, <1>3 DEF InstrumentOf
  <2>2. \A a : InitializeAdds(a)' <=> InitializeAdds(a)
    BY <1>2 DEF InitializeAdds
  <2>3. \A b \in Instruments : BeingAdded(b)' <=> BeingAdded(b)
    BY <1>2, <2>1 DEF BeingAdded
  <2>4. OneStreamPerBond'
    BY <1>2, <2>3 DEF EventInv, BondClaims, OneStreamPerBond, Listened
  <2>5. \A h \in listing : InitializeAdds(InstrumentOf(h))' <=> InitializeAdds(InstrumentOf(h))
    BY <1>2, <2>1 DEF InitializeAdds
  <2>6. /\ \A g \in listing' : g.step = "adding" => ~InitializeAdds(InstrumentOf(g))'
        /\ \A g, k \in listing' :
              g.step = "adding" /\ k.step = "adding" /\ InstrumentOf(g)' = InstrumentOf(k)' => g = k
    BY <1>2, <2>1, <2>5 DEF EventInv, BondClaims
  <2>7. QED
    BY <1>2, <2>4, <2>6 DEF EventInv, BondClaims
<1>7. HandlersOK'
  <2>1. listing \subseteq [listed : DOMAIN instrumentListed', step : {"published", "adding"}]
    BY <1>3
  <2>2. registryNotified \subseteq DOMAIN instrumentListed'
    BY <1>3 DEF EventInv, HandlersOK
  <2>3. eventCount \in [Instruments -> Nat]
    BY DEF EventInv, ChainOK
  <2>4. ASSUME NEW event \in handling \cup contractNotified
        PROVE  event \in {e \in Instruments \X Nat : e[2] \in 1..eventCount'[e[1]]}
    <3>1. event \in Instruments \X Nat /\ event[2] \in 1..eventCount[event[1]]
      BY DEF EventInv, HandlersOK
    <3>2. event[1] \in Instruments /\ event[2] \in Nat
      BY <3>1
    <3>3. event[2] \in 1..eventCount'[event[1]]
      BY <1>1, <2>3, <3>1, <3>2
    <3>4. QED
      BY <3>1, <3>3
  <2>5. ASSUME NEW a \in Instruments, NEW i \in DOMAIN contractStreams[a]
        PROVE  contractStreams[a][i].next <= eventCount'[a]
    <3>1. contractStreams[a] \in Seq(Stream)
      BY DEF EventInv, BondClaims
    <3>2. contractStreams[a][i] \in Stream
      BY <3>1
    <3>3. contractStreams[a][i].next \in Nat
      BY <3>2 DEF Stream
    <3>4. contractStreams[a][i].next <= eventCount[a]
      BY DEF EventInv, HandlersOK
    <3>5. QED
      BY <1>1, <2>3, <3>3, <3>4
  <2>6. QED
    BY <1>2, <2>1, <2>2, <2>4, <2>5 DEF HandlersOK
<1>8. ReadFollowed'
  BY <1>2 DEF EventInv, ReadFollowed, Followed, Listened
<1>9. ASSUME NEW f \in Factories, NEW i \in DOMAIN factoryStreams[f]
      PROVE  /\ factoryStreams[f][i].next \in Nat
             /\ factoryStreams[f][i].next <= Len(instrumentListed)
  <2>1. factoryStreams[f] \in Seq(Stream)
    BY FactoryAssumption DEF EventInv, FactoryClaims
  <2>2. factoryStreams[f][i] \in Stream
    BY <2>1
  <2>3. factoryStreams[f][i].next \in Nat
    BY <2>2 DEF Stream
  <2>4. QED
    BY <2>3 DEF EventInv, DeliveredIsPast
<1>10. DeliveredIsPast'
  BY <1>1, <1>2, <1>3, <1>9 DEF DeliveredIsPast
<1>11. ListingsFollowed'
  <2> SUFFICES ASSUME NEW f \in Factories, NEW i \in DOMAIN factoryStreams[f],
                      NEW k \in DOMAIN instrumentListed',
                      instrumentListed'[k].factory = f, k <= factoryStreams[f][i].next
               PROVE  \/ /\ k <= factoryStreams[f][i].start
                         /\ BeforeReading \/ instrumentListed'[k].instrument \in initialize.read
                      \/ \E h \in listing : h.listed = k
                      \/ Followed(instrumentListed'[k].instrument)
    BY <1>2, <1>4 DEF ListingsFollowed, Followed, Listened
  <2>1. k \in DOMAIN instrumentListed
    BY <1>1, <1>3, <1>9
  <2>2. QED
    BY <1>1, <2>1 DEF EventInv, ListingsFollowed
<1>12. QED
  BY <1>1, <1>4, <1>5, <1>6, <1>7, <1>8, <1>10, <1>11 DEF EventInv

LEMMA InitEvents == EventInit => EventInv
<1> SUFFICES ASSUME EventInit PROVE EventInv
  OBVIOUS
<1> USE DEF EventInit, ChainInit, RegistryInit
<1>1. /\ instruments = <<>> /\ instrumentListed = <<>> /\ listing = {}
      /\ initialize = [step |-> "types", read |-> {}, rest |-> <<>>]
      /\ factoryTask = [t \in FactoryTypes |-> [step |-> "done"]]
      /\ factoryStreams = [f \in Addresses \cup {NoAddress} |-> <<>>]
      /\ contractStreams = [a \in Instruments |-> <<>>]
      /\ \A S : <<>> \in Seq(S) /\ DOMAIN <<>> = {} /\ Len(<<>>) = 0
  OBVIOUS
<1>2. ChainOK
  BY <1>1 DEF ChainOK
<1>3. InitializeOK /\ initialize.step = "types" /\ initialize.read = {}
  BY <1>1 DEF InitializeOK, BeforeReading
<1>4. /\ factoryTask \in [FactoryTypes -> Tasks]
      /\ \A t \in FactoryTypes : factoryTask[t].step = "done"
  BY <1>1 DEF Tasks
<1>5. TasksOK
  BY <1>4 DEF TasksOK
<1>6. \A f, t : t \in FactoryTypes => factoryTask[t] # Adding(f)
  BY <1>4, Adds
<1>7. FactoryClaims
  <2>1. /\ factoryStreams \in [Addresses \cup {NoAddress} -> Seq(Stream)]
        /\ \A f \in Factories \cup {NoAddress} : factoryStreams[f] = <<>>
    BY <1>1, FactoryAssumption
  <2>2. QED
    BY <1>1, <1>6, <2>1 DEF FactoryClaims
<1>8. BondClaims
  <2>1. /\ contractStreams \in [Instruments -> Seq(Stream)]
        /\ \A a \in Instruments : contractStreams[a] = <<>>
    BY <1>1
  <2>2. OneStreamPerBond
    BY <1>1, <1>3, <2>1 DEF OneStreamPerBond, BeingAdded, Listened
  <2>3. QED
    BY <1>1, <2>1, <2>2 DEF BondClaims
<1>9. HandlersOK
  BY <1>1 DEF HandlersOK
<1>10. ReadFollowed
  BY <1>3 DEF ReadFollowed
<1>11. ListingsFollowed /\ DeliveredIsPast
  BY <1>1, FactoryAssumption DEF ListingsFollowed, DeliveredIsPast
<1>12. QED
  BY <1>2, <1>3, <1>5, <1>7, <1>8, <1>9, <1>10, <1>11 DEF EventInv

LEMMA NextEvents == EventInv /\ [EventNext]_allVars => EventInv'
<1> SUFFICES ASSUME EventInv, [EventNext]_allVars PROVE EventInv'
  OBVIOUS
<1>1. CASE ReadTypes \/ FactoriesSubscribed \/ FailToReadRegistry
  BY <1>1, ReadTypesStep, FactoriesSubscribedStep, FailToReadRegistryStep
<1>2. CASE ReadDirectory \/ DirectoryNext \/ DirectoryListen
  BY <1>2, ReadDirectoryStep, DirectoryNextStep, DirectoryListenStep
<1>3. CASE \E t \in FactoryTypes : \/ ReadFactory(t) \/ FailToReadFactory(t)
                                  \/ ListenFactory(t) \/ FailToListenFactory(t)
  BY <1>3, ReadFactoryStep, FailToReadFactoryStep, ListenFactoryStep, FailToListenFactoryStep
<1>4. CASE \E f \in Factories : DeliverListing(f)
  BY <1>4, DeliverListingStep
<1>5. CASE \E h \in listing : SubscribeToListed(h) \/ ListenToListed(h)
  BY <1>5, SubscribeToListedStep, ListenToListedStep
<1>6. CASE \E a \in Instruments : DeliverEvent(a)
  BY <1>6, DeliverEventStep
<1>7. CASE \E event \in handling : PublishEvent(event)
  BY <1>7, PublishEventStep
<1>8. CASE ChainNext /\ UNCHANGED serviceVars
  BY <1>8, ChainStep
<1>9. CASE UNCHANGED allVars
  <2>1. /\ UNCHANGED chainVars /\ UNCHANGED handlerVars
        /\ UNCHANGED <<listenedFactories, listenedContracts, contractStreams, factoryStreams,
                       factoryTask, initialize, failed>>
    BY <1>9 DEF allVars, serviceVars, taskVars, streamVars
  <2>2. TasksOK' /\ FactoryClaims'
    BY <2>1, FactoryClaimsStay DEF EventInv, TasksOK
  <2>3. QED
    BY <2>1, <2>2, FactorySide
<1>10. QED
  BY <1>1, <1>2, <1>3, <1>4, <1>5, <1>6, <1>7, <1>8, <1>9 DEF EventNext, ServiceNext

\* Whatever initialize, its tasks, the handlers and the chain do, in any
\* order, with any failures: no bond is lost between the registry and the
\* streams of the factories.
THEOREM EventInvariant == EventSpec => []EventInv
BY InitEvents, NextEvents, PTL DEF EventSpec

\* The state of the service has values of its types.
THEOREM EventTypeCorrect == EventSpec => []EventTypeOK
<1>1. EventInv => EventTypeOK
  BY DEF EventInv, ChainOK, InitializeOK, FactoryClaims, BondClaims, HandlersOK, EventTypeOK
<1>2. QED
  BY <1>1, EventInvariant, PTL

\* The loop over the registry and the events of the factories never both
\* subscribe to a bond.
THEOREM BondsHaveOneStream == EventSpec => []OneStreamPerBond
<1>1. EventInv => OneStreamPerBond
  BY DEF EventInv, BondClaims
<1>2. QED
  BY <1>1, EventInvariant, PTL

\* Two types of one factory do not both subscribe to it.
THEOREM FactoriesHaveOneStream == EventSpec => []OneStreamPerFactory
<1>1. EventInv => OneStreamPerFactory
  BY DEF EventInv, FactoryClaims, OneStreamPerFactory
<1>2. QED
  BY <1>1, EventInvariant, PTL

\* When all is quiet, a bond that a listened factory listed, or that was in
\* the registry, is listened to, unless its own subscription failed.
THEOREM NoBondFallsBetween == EventSpec => []NoBondIsMissed
<1>1. EventInv => NoBondIsMissed
  <2> SUFFICES ASSUME EventInv, Quiet, NEW k \in DOMAIN instrumentListed,
                      NEW a, a = instrumentListed[k].instrument,
                      Heard(k) \/ a \in initialize.read, a \notin failed
               PROVE  contractStreams[a] # <<>>
    BY DEF NoBondIsMissed
  <2>1. a \in Instruments /\ instrumentListed[k].factory \in Factories /\ k \in Nat
    BY ListedAre DEF EventInv
  <2>2. /\ initialize.step = "done" /\ listing = {} /\ ~BeforeReading
    BY DEF Quiet, BeforeReading
  <2>3. ToSet(initialize.rest) = {}
    BY <2>2 DEF EventInv, InitializeOK, ToSet
  <2>4. a \in initialize.read => Followed(a)
    BY <2>3 DEF EventInv, ReadFollowed
  <2>5. ASSUME Heard(k) PROVE a \in initialize.read \/ Followed(a)
    <3>1. PICK f \in Factories : f = instrumentListed[k].factory
      BY <2>1
    <3>2. factoryStreams[f] \in Seq(Stream) /\ factoryStreams[f] # <<>>
      BY <2>5, <3>1, FactoryAssumption DEF Heard, EventInv, FactoryClaims
    <3>3. PICK i : i \in DOMAIN factoryStreams[f]
      <4>1. \A streams \in Seq(Stream) : streams # <<>> => 1 \in DOMAIN streams
        OBVIOUS
      <4>2. QED
        BY <3>2, <4>1
    <3>4. k <= factoryStreams[f][i].next
      <4>1. factoryStreams[f][i] \in Stream
        BY <3>2, <3>3
      <4>2. factoryStreams[f][i].next \in Nat
        BY <4>1 DEF Stream
      <4>3. ~(k > factoryStreams[f][i].next)
        BY <3>1, <3>3 DEF Quiet, Undelivered
      <4>4. QED
        BY <2>1, <4>2, <4>3
    <3>5. \/ BeforeReading \/ instrumentListed[k].instrument \in initialize.read
          \/ \E h \in listing : h.listed = k
          \/ Followed(instrumentListed[k].instrument)
      BY <3>1, <3>3, <3>4 DEF EventInv, ListingsFollowed
    <3>6. QED
      BY <2>2, <3>5
  <2>6. Listened(a)
    BY <2>4, <2>5 DEF Followed
  <2>7. ~BeingAdded(a)
    BY <2>2 DEF BeingAdded
  <2>8. QED
    BY <2>1, <2>6, <2>7 DEF EventInv, BondClaims, OneStreamPerBond
<1>2. QED
  BY <1>1, EventInvariant, PTL

-----------------------------------------------------------------------------
(* The events of bonds: what makes EventsAreNotified true as long as the    *)
(* handlers go on.                                                          *)

\* An event that a stream has delivered is in the hands of a handler, is
\* published, or its handler failed.
NoEventIsLost ==
    \A a \in Instruments : \A i \in DOMAIN contractStreams[a], n \in Nat :
        contractStreams[a][i].start < n /\ n <= contractStreams[a][i].next =>
            <<a, n>> \in handling \cup contractNotified \cup failed

LEMMA EventsStay ==
    ASSUME NoEventIsLost, UNCHANGED <<contractStreams, handling, contractNotified>>,
           failed \subseteq failed'
    PROVE  NoEventIsLost'
BY DEF NoEventIsLost

\* A new stream has delivered nothing.
LEMMA ListenKeepsEvents ==
    ASSUME EventInv, NoEventIsLost, NEW a \in Instruments, BeingAdded(a),
           ListenContract(a) \/ FailToListen(a), UNCHANGED <<handling, contractNotified>>
    PROVE  NoEventIsLost'
<1>1. CASE FailToListen(a)
  BY <1>1, EventsStay DEF FailToListen, Fails
<1>2. CASE ListenContract(a)
  <2>1. PICK stream \in NewStreams(eventCount[a]) :
            contractStreams' = [contractStreams EXCEPT ![a] = Append(@, stream)]
    BY <1>2 DEF ListenContract
  <2>2. eventCount[a] \in Nat /\ contractStreams \in [Instruments -> Seq(Stream)]
    BY DEF EventInv, ChainOK, BondClaims
  <2>3. stream \in Stream /\ stream.start = stream.next
    BY <2>2, NewStreamsAre
  <2>4. contractStreams[a] \in Seq(Stream) /\ Len(contractStreams[a]) <= 1 /\ contractStreams[a] = <<>>
    BY <2>2 DEF EventInv, BondClaims, OneStreamPerBond
  <2>5. PICK now : now = Append(contractStreams[a], stream)
    OBVIOUS
  <2>6. now \in Seq(Stream) /\ DOMAIN now = {1} /\ now[1] = stream
    BY <2>3, <2>4, <2>5, FirstStream
  <2>7. /\ contractStreams'[a] = now
        /\ \A b \in Instruments \ {a} : contractStreams'[b] = contractStreams[b]
    BY <2>1, <2>2, <2>5, <2>6
  <2>8. failed' = failed
    BY <1>2 DEF ListenContract
  <2> SUFFICES ASSUME NEW b \in Instruments, NEW i \in DOMAIN contractStreams'[b], NEW n \in Nat,
                      contractStreams'[b][i].start < n, n <= contractStreams'[b][i].next
               PROVE  <<b, n>> \in handling \cup contractNotified \cup failed
    BY <2>8 DEF NoEventIsLost
  <2>9. CASE b = a
    <3>1. stream.start < n /\ n <= stream.start
      BY <2>3, <2>6, <2>7, <2>9
    <3>2. stream.start \in Nat
      BY <2>3 DEF Stream
    <3>3. QED
      BY <3>1, <3>2
  <2>10. CASE b # a
    BY <2>7, <2>10 DEF NoEventIsLost
  <2>11. QED
    BY <2>9, <2>10
<1>3. QED
  BY <1>1, <1>2

LEMMA DeliverKeepsEvents ==
    ASSUME EventInv, NoEventIsLost, NEW a \in Instruments, DeliverEvent(a)
    PROVE  NoEventIsLost'
<1>1. PICK i \in DOMAIN contractStreams[a] :
          /\ contractStreams' = [contractStreams EXCEPT ![a][i].next = @ + 1]
          /\ Handle(<<a, contractStreams[a][i].next + 1>>)
  BY DEF DeliverEvent
<1>2. contractStreams \in [Instruments -> Seq(Stream)]
  BY DEF EventInv, BondClaims
<1>3. PICK old : old = contractStreams[a]
  OBVIOUS
<1>4. old \in Seq(Stream) /\ i \in DOMAIN old /\ old[i] \in Stream
  BY <1>2, <1>3
<1>5. PICK next : next = old[i].next + 1
  OBVIOUS
<1>6. old[i].next \in Nat /\ next \in Nat /\ next = old[i].next + 1
  BY <1>4, <1>5 DEF Stream
<1>7. PICK now : now = Advanced(old, i, next)
  OBVIOUS
<1>8. /\ now \in Seq(Stream) /\ DOMAIN now = DOMAIN old
      /\ now[i].next = next /\ now[i].start = old[i].start
      /\ \A j \in DOMAIN old \ {i} : now[j] = old[j]
  BY <1>4, <1>6, <1>7, Advance
<1>9. contractStreams' = [contractStreams EXCEPT ![a] = now]
  BY <1>1, <1>3, <1>5, <1>7 DEF Advanced
<1>10. /\ contractStreams'[a] = now
       /\ \A b \in Instruments \ {a} : contractStreams'[b] = contractStreams[b]
  BY <1>2, <1>8, <1>9
<1>11. /\ handling' = handling \cup {<<a, next>>}
       /\ contractNotified' = contractNotified /\ failed' = failed
  BY <1>1, <1>3, <1>5 DEF DeliverEvent, Handle
<1> SUFFICES ASSUME NEW b \in Instruments, NEW j \in DOMAIN contractStreams'[b], NEW n \in Nat,
                    contractStreams'[b][j].start < n, n <= contractStreams'[b][j].next
             PROVE  <<b, n>> \in handling' \cup contractNotified \cup failed
  BY <1>11 DEF NoEventIsLost
<1>12. CASE b # a
  BY <1>10, <1>11, <1>12 DEF NoEventIsLost
<1>13. CASE b = a /\ j # i
  BY <1>3, <1>8, <1>10, <1>11, <1>13 DEF NoEventIsLost
<1>14. CASE b = a /\ j = i
  <2>1. CASE n = next
    BY <1>11, <1>14, <2>1
  <2>2. CASE n # next
    <3>1. n <= old[i].next /\ old[i].start < n
      BY <1>6, <1>8, <1>10, <1>14, <2>2
    <3>2. QED
      BY <1>3, <1>11, <1>14, <3>1 DEF NoEventIsLost
  <2>3. QED
    BY <2>1, <2>2
<1>15. QED
  BY <1>12, <1>13, <1>14

\* However many handlers run at a time, none of them makes another lose its
\* event.
THEOREM EventsAreKept == EventSpec => []NoEventIsLost
<1>1. EventInit => NoEventIsLost
  <2>1. EventInit => \A a \in Instruments : contractStreams[a] = <<>>
    BY DEF EventInit
  <2>2. QED
    BY <2>1 DEF NoEventIsLost
<1>2. EventInv /\ NoEventIsLost /\ [EventNext]_allVars => NoEventIsLost'
  <2> SUFFICES ASSUME EventInv, NoEventIsLost, [EventNext]_allVars PROVE NoEventIsLost'
    OBVIOUS
  <2>1. CASE \/ ReadTypes \/ FactoriesSubscribed \/ ReadDirectory \/ FailToReadRegistry
             \/ DirectoryNext
    BY <2>1, EventsStay
       DEF ReadTypes, FactoriesSubscribed, ReadDirectory, FailToReadRegistry, DirectoryNext,
           Fails, streamVars, handlerVars
  <2>2. CASE \E t \in FactoryTypes : \/ ReadFactory(t) \/ FailToReadFactory(t)
                                    \/ ListenFactory(t) \/ FailToListenFactory(t)
    BY <2>2, EventsStay
       DEF ReadFactory, FailToReadFactory, ListenFactory, FailToListenFactory, Fails,
           streamVars, handlerVars
  <2>3. CASE DirectoryListen
    <3>1. PICK a : a = Head(initialize.rest)
      OBVIOUS
    <3>2. a \in Instruments /\ BeingAdded(a)
      <4>1. initialize.rest \in Seq(Instruments) /\ initialize.rest # <<>>
        BY <2>3 DEF DirectoryListen, EventInv, InitializeOK
      <4>2. a \in Instruments
        BY <3>1, <4>1, ToSetHead
      <4>3. QED
        BY <2>3, <3>1, <4>2 DEF DirectoryListen, BeingAdded
    <3>3. /\ ListenContract(a) \/ FailToListen(a)
          /\ UNCHANGED <<handling, contractNotified>>
      BY <2>3, <3>1 DEF DirectoryListen, handlerVars
    <3>4. QED
      BY <3>2, <3>3, ListenKeepsEvents
  <2>4. CASE \E h \in listing : ListenToListed(h)
    <3>1. PICK h \in listing : ListenToListed(h)
      BY <2>4
    <3>2. PICK a : a = InstrumentOf(h)
      OBVIOUS
    <3>3. a \in Instruments /\ BeingAdded(a)
      BY <3>1, <3>2, ListedAre DEF EventInv, BeingAdded, ListenToListed
    <3>4. /\ ListenContract(a) \/ FailToListen(a)
          /\ UNCHANGED <<handling, contractNotified>>
      BY <3>1, <3>2 DEF ListenToListed
    <3>5. QED
      BY <3>3, <3>4, ListenKeepsEvents
  <2>5. CASE \E h \in listing : SubscribeToListed(h)
    BY <2>5, EventsStay DEF SubscribeToListed
  <2>6. CASE \E f \in Factories : DeliverListing(f)
    BY <2>6, EventsStay DEF DeliverListing
  <2>7. CASE \E a \in Instruments : DeliverEvent(a)
    BY <2>7, DeliverKeepsEvents
  <2>8. CASE \E event \in handling : PublishEvent(event)
    <3>1. /\ contractStreams' = contractStreams
          /\ handling \cup contractNotified \cup failed
                \subseteq handling' \cup contractNotified' \cup failed'
      BY <2>8 DEF PublishEvent, Fails, streamVars
    <3>2. QED
      BY <3>1 DEF NoEventIsLost
  <2>9. CASE (ChainNext /\ UNCHANGED serviceVars) \/ UNCHANGED allVars
    BY <2>9, EventsStay DEF serviceVars, streamVars, handlerVars, allVars
  <2>10. QED
    BY <2>1, <2>2, <2>3, <2>4, <2>5, <2>6, <2>7, <2>8, <2>9 DEF EventNext, ServiceNext
<1>3. QED
  BY <1>1, <1>2, EventInvariant, PTL DEF EventSpec

-----------------------------------------------------------------------------
(* The chain of the service is a registry. *)

LEMMA ChainIsARegistry == [EventNext]_allVars => [RegistryNext]_registryVars
<1> SUFFICES ASSUME [EventNext]_allVars PROVE [RegistryNext]_registryVars
  OBVIOUS
<1>1. CASE UNCHANGED chainVars
  BY <1>1 DEF chainVars
<1>2. CASE ChangeFactories
  <2>1. PICK f \in Factories : \/ \E t \in FactoryTypes : AuthorizeFactory(Owner, t, f)
                              \/ UnAuthorizeFactory(Owner, f)
    BY <1>2 DEF ChangeFactories
  <2>2. QED
    BY <2>1, RegistryAssumption, FactoryAssumption DEF RegistryNext
<1>3. CASE \E f \in Factories, input \in BondInputs : CreateForgeBond(f, input)
  <2>1. PICK f \in Factories, input \in BondInputs : CreateForgeBond(f, input)
    BY <1>3
  <2>2. /\ input.name \in Names /\ input.isinCode \in Isins /\ input.address \in Instruments
        /\ f \in Addresses
    BY FactoryAssumption
  <2>3. ListInstrument(f, input.name, input.isinCode, input.address)
    BY <2>1 DEF CreateForgeBond
  <2>4. QED
    BY <2>2, <2>3 DEF RegistryNext
<1>4. CASE \E a \in Instruments : EmitEvent(a)
  BY <1>4 DEF EmitEvent
<1>5. CASE ServiceNext
  BY <1>1, <1>5
     DEF ServiceNext, ReadTypes, FactoriesSubscribed, ReadDirectory, FailToReadRegistry,
         DirectoryNext, DirectoryListen, ReadFactory, FailToReadFactory, ListenFactory,
         FailToListenFactory, DeliverListing, SubscribeToListed, ListenToListed, DeliverEvent,
         PublishEvent
<1>6. QED
  BY <1>1, <1>2, <1>3, <1>4, <1>5 DEF EventNext, ChainNext, allVars

\* With the factories that create bonds, the registry is still the one of
\* InstrumentRegistry, so that what is proved of it there holds here: the
\* types and the instruments initialize reads are those of the mappings.
THEOREM TheChainKeepsTheRegistry ==
    EventSpec => RegistrySpec /\ []TypesAreTheKeys /\ []AllInstrumentsAreListed /\ IsADirectory
<1>1. EventInit => RegistryInit
  BY DEF EventInit, ChainInit
<1>2. EventSpec => RegistrySpec
  BY <1>1, ChainIsARegistry, PTL DEF EventSpec, RegistrySpec
<1>3. QED
  BY <1>2, FactoryTypesAreTheKeys, AllListed, RegistryIsADirectory, PTL

\* The array of the registry is what the events of the factories say, each
\* bond once: a service that replays all events and one that reads the
\* registry find the same bonds.
RegistryIsTheListings ==
    /\ Len(instruments) = Len(instrumentListed)
    /\ \A k \in DOMAIN instrumentListed : instruments[k] = instrumentListed[k].instrument
    /\ \A j, k \in DOMAIN instrumentListed : instruments[j] = instruments[k] => j = k

LEMMA CreateKeepsListings ==
    ASSUME ChainOK, RegistryIsTheListings, NEW f \in Factories, NEW input \in BondInputs,
           CreateForgeBond(f, input)
    PROVE  RegistryIsTheListings'
<1>1. PICK a : a = input.address
  OBVIOUS
<1>2. PICK listed : listed = [factory |-> f, instrument |-> a]
  OBVIOUS
<1>3. PICK n : n = Len(instrumentListed)
  OBVIOUS
<1>4. /\ a \in Instruments /\ listed \in Listing /\ listed.instrument = a
      /\ instruments \in Seq(Instruments) /\ instrumentListed \in Seq(Listing)
  BY <1>1, <1>2, FactoryAssumption DEF ChainOK, Listing
<1>5. /\ n \in Nat /\ Len(instruments) = n
      /\ DOMAIN instrumentListed = 1..n /\ DOMAIN instruments = 1..n
      /\ \A k \in 1..n : instruments[k] = instrumentListed[k].instrument
      /\ \A j, k \in 1..n : instruments[j] = instruments[k] => j = k
  BY <1>3, <1>4 DEF RegistryIsTheListings
<1>6. \A k \in 1..n : instrumentListed[k].instrument # a
  BY <1>1, <1>5 DEF CreateForgeBond, Created
<1>7. instruments' = Append(instruments, a) /\ instrumentListed' = Append(instrumentListed, listed)
  BY <1>1, <1>2 DEF CreateForgeBond, ListInstrument
<1>8. /\ Len(instruments') = n + 1 /\ Len(instrumentListed') = n + 1
      /\ DOMAIN instrumentListed' = 1..(n + 1)
      /\ \A k \in 1..n : instruments'[k] = instruments[k] /\ instrumentListed'[k] = instrumentListed[k]
      /\ instruments'[n + 1] = a /\ instrumentListed'[n + 1] = listed
  BY <1>3, <1>4, <1>5, <1>7
<1>9. \A k \in 1..(n + 1) : k \in 1..n \/ k = n + 1
  BY <1>5
<1>10. \A k \in 1..(n + 1) : instruments'[k] = instrumentListed'[k].instrument
  BY <1>4, <1>5, <1>8, <1>9
<1>11. \A j, k \in 1..(n + 1) : instruments'[j] = instruments'[k] => j = k
  BY <1>5, <1>6, <1>8, <1>9
<1>12. QED
  BY <1>8, <1>10, <1>11 DEF RegistryIsTheListings

\* No bond is listed twice, and none without its event.
THEOREM TheRegistryIsTheListings == EventSpec => []RegistryIsTheListings
<1>1. EventInit => RegistryIsTheListings
  BY DEF EventInit, ChainInit, RegistryInit, RegistryIsTheListings
<1>2. EventInv /\ RegistryIsTheListings /\ [EventNext]_allVars => RegistryIsTheListings'
  <2> SUFFICES ASSUME EventInv, RegistryIsTheListings, [EventNext]_allVars
               PROVE  RegistryIsTheListings'
    OBVIOUS
  <2>1. CASE UNCHANGED <<instruments, instrumentListed>>
    BY <2>1 DEF RegistryIsTheListings
  <2>2. CASE UNCHANGED chainVars
    BY <2>1, <2>2, ChainUnchanged
  <2>3. CASE ChangeFactories
    BY <2>1, <2>3 DEF ChangeFactories, AuthorizeFactory, UnAuthorizeFactory, instrumentVars
  <2>4. CASE \E f \in Factories, input \in BondInputs : CreateForgeBond(f, input)
    BY <2>4, CreateKeepsListings DEF EventInv
  <2>5. CASE \E a \in Instruments : EmitEvent(a)
    BY <2>1, <2>5 DEF EmitEvent, registryVars, instrumentVars
  <2>6. CASE ServiceNext
    BY <2>2, <2>6
       DEF ServiceNext, ReadTypes, FactoriesSubscribed, ReadDirectory, FailToReadRegistry,
           DirectoryNext, DirectoryListen, ReadFactory, FailToReadFactory, ListenFactory,
           FailToListenFactory, DeliverListing, SubscribeToListed, ListenToListed,
           DeliverEvent, PublishEvent
  <2>7. QED
    BY <2>2, <2>3, <2>4, <2>5, <2>6 DEF EventNext, ChainNext, allVars
<1>3. QED
  BY <1>1, <1>2, EventInvariant, PTL DEF EventSpec

=============================================================================
