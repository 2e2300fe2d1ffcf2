# A TLA+ model of CAST

CAST issues bonds as smart contracts on Ethereum and Tezos and settles them
through *oracles*: FRO acts for the registrar, FSO for the settler, FIO for
investors, FXO is the part every oracle has. Tokens are delivered against
payments in ordinary bank money, so the chain only learns of a payment when the
settler confirms it. This project models that system, checks it with TLC on
small instances and proves with TLAPS, for all instances, every invariant, action
property and refinement those runs check: of the contracts of both chains, of the
oracles that drive them, of the event service, of who may see and save a
settlement transaction, and of the clients. Only liveness is left to TLC. Paths below are relative to `src/packages/cast/`.

## Inventory

| Component | State | Operations that change it | What makes it correct |
|---|---|---|---|
| Ethereum bond (`cast-eth-v1/contracts/tokens/ForgeBond.sol` and libraries) | balances and locks per account, list of holders, settlement transactions, operation types, bond state, roles | authorize/revoke operator, initiate subscription/trade/redemption, confirm payment received/transferred, cancel, burn | no token created or lost; locks within balances and equal to what is pending; delivery only against payment; a redemption takes everything once |
| STR and its censor (`oracles/src/modules/str`) | rows of settlement transactions with their movements and payment references | create (rows are never deleted; `save` of an id that exists replaces its row) | knows every settlement transaction the chain knows, with the same terms; a row is saved by a registrar of its instrument, stays once answered for, and is shown to those who may see it only |
| FRO (`oracles/src/modules/fro`) | none but the requests in memory | createBond, initiateSubscription/Trade/Redemption, cancel | requests interleave and fail between awaits without leaving the chain inconsistent |
| FSO (`oracles/src/modules/fso`) | requests in memory | confirmPaymentReceived/Transferred by payment reference | confirms exactly the settlement transactions of the reference |
| FXO (`oracles/src/modules/fxo`) | sets of contracts and factories listened to, event handlers, timer | subscribe, notify, boost and cancel transactions, heartbeat | every listed contract is listened to, once; no event is lost |
| Ethereum registry and factories (`contracts/ForgeInstrumentRegistry.sol`, `ForgeBondFactory.sol`) | factory per type, list of types, instruments by name and ISIN, link from ISIN to name, list of instruments | authorize/unauthorize factory, list/unlist instrument, create bond | mappings, link and arrays describe one directory; only authorized factories change it |
| Tezos bond and EMTN (`cast-tz-v1/src/bond`, `emtn`, `common/libs`) | as the Ethereum bond, subscriptions only, plus the map of lambdas its entry points load | upgrade, initiate subscription, confirm payment received/transferred, authorize/revoke operator (run) | as the Ethereum bond |
| Tezos registry, factories, builder (`cast-tz-v1/src`) | factory per type, entries by name and by ISIN; the lambdas a factory hands to the bonds it originates, the lambdas of the builder | authorize/unauthorize factory, list/unlist, upgrade, create bond, build and send the lambdas | both maps describe one directory; an instrument is originated and listed, or neither |
| Oracle clients (`oracle-clients/src/modules`) | a promise per hash that is awaited, a websocket, notifications emitted | calls that send transactions, subscriptions, the handler of a notification | a call that returns was mined; no promise is left behind; no notification emitted twice; a call ends |
| chain-auth, contract bindings, models | none that persists | signing, encoding | stateless |

How they interact: a client asks FRO for an operation; FRO reads the bond,
generates settlement transactions, saves them in the STR one request at a time,
then *sends* a transaction. The sending returns a hash; the chain executes the
transaction later, or it reverts, or is cancelled. The bank tells FSO of a
payment by its reference; FSO asks the STR for the settlement transactions with
that reference and sends one confirmation after the other. FXO hears the
events of the contracts and publishes notifications. Nothing is transactional
across STR and chain, and nothing is retried by the oracles themselves. A client
of an oracle calls it by HTTP and hears its notifications on a websocket; the two
are matched by the hash of the transaction. The STR asks the bond who its
registrar and its settler are whenever it creates or shows a row, one call of the
chain at a time, while roles change. On Tezos the contracts call each other: a
factory originates the bond, with the lambdas it holds at that moment, and lists
it in the registry; the builder sends lambdas to factories and bonds.

FXO finds the bonds through the registry: at start-up it reads the types, then
the factory of each type, opens a stream of `InstrumentListed` events per
factory, and only then reads the instruments and opens a stream of events per
bond. From the first factory on, new bonds arrive through the streams as well.

What is hard: two requests between the awaits of each other; a request that
dies half-way; rows without a transaction on chain; positions that are old when
the redemption built from them is mined; competition for the tokens of one
holder; the order of confirmations; cancellations with other terms than what
was locked; a start-up that reads a registry which changes under it, while
events of what it has found already come in; one fact kept in two mappings and
an array; two creations of one id that both found it free; roles that change
between the calls that read them; an answer and a notification about one
transaction that travel apart; a connection that is lost and renewed; a contract
that is created before its code is. `PROJECT.json` lists each at its line under `hazards`.

## Modules

| Module | Models | Correspondence |
|---|---|---|
| `ForgeBond` | the Ethereum bond with its five libraries | one action per external function, guard = its `require`s, in one atomic step as the EVM executes it. `balance`, `locked`, `keys` are `IterableBalances`; `settlementTransactionById` and `operationTypeByOperationId` the repository; an empty slot is a record of zero values. `burned` sums the `Transfer(_, 0, v)` events and exists for the properties only |
| `OracleDrivenBond` | the bond under the calls FRO and FSO make | same state, no run of its own: it is what `oracles` and `shared_payment` drive; the inputs are narrowed to what the oracles send (operation ids not reused across kinds, one settlement transaction per investor in a redemption, cancellation with the stored terms) |
| `DeliveryVersusPayment` | the abstract promise: holdings and deals that are agreed, delivered, paid or called off | no locks, roles, keys or operation types; `OracleDrivenBond` implements it under the mapping `AbstractDeal`, and `TezosBond` under `Deal` and `Holding` |
| `FinancialOracles` | FRO, FSO, the STR and the sending of transactions, over the bond | each action is what a handler does between two awaits; `request` is what it holds in memory, `str` the database, `mempool` the transactions sent and not yet executed, in nonce order |
| `InstrumentRegistry` | the registry contract | one action per external function; `factories`, `factoryTypes`, `instrumentsByName`, `instrumentsByIsinCode`, `isinToName`, `instruments` are the contract's own. Any address calls, and an authorized factory is believed: it may list an address twice or the zero address |
| `InstrumentDirectory` | the abstract promise: a set of entries with unique names and ISINs, changed by authorized factories only | no arrays and no link; `InstrumentRegistry` implements it under the mapping `Directory`, and so does `TezosRegistry` under its own |
| `ForgeBondFactory` | `createForgeBond` over the registry: the chain as FXO finds it | `instrumentListed` is the log of `InstrumentListed` events of the factories, `eventCount` the number of events a bond has emitted since |
| `EventService` | FXO's `event.service.ts` over that chain, for one ledger | each action is what the service does between two awaits; `initialize` and `factoryTask` are the start-up and its concurrent `subscribeEventFactory`, `listing` and `handling` the event handlers being run, `factoryStreams` and `contractStreams` what the driver has open |
| `SettlementTransactionAccess` | `create` of the STR, its queries and `str.censor.ts`, with the roles on the chain | an action is the code between two awaits: the check of the registrar, the look for the id, the save; for a query the row that is read, then one question to the chain at a time, any of which may fail (`FailToAsk` is the `catch` that hides the row). The history recorded in a request (`ever`, `kept`, `before`) is for the properties |
| `OracleClients` | `froClient` and `fsoClient` | `call` is the stage of a call, `transaction` the fate of each transaction at the oracle, `link` and `subscriptions` the websocket, `feed` the messages under way, `resolvers` the two registers of promises, `emitted` what the client passed on. `Serve`, `Publish` and `FailToPublish` are the oracle |
| `TezosBond` | the Tezos bond, its five lambdas, its blocks of balances, settlements and operators | one action per entry point; `entrypointsBigMap` is the set of names the contract's map has, and a call whose lambda is missing fails |
| `TezosRegistry` | the Tezos registry | one action per entry point over its two maps |
| `TezosPlatform` | the Tezos factories, the builder and their calls of registry and bond | one action per call from outside, inner calls included, since an operation fails as a whole |
| `TokenCounts` | lemmas on counting pairs `<<owner, n>>`, by which sums of quantities are expressed | |
| `ForgeBondProofs`, `FinancialOraclesProofs`, `InstrumentRegistryProofs`, `EventServiceProofs`, `SettlementTransactionAccessProofs`, `OracleClientsProofs`, `TezosPlatformProofs` | the theorems about the module they are named after; `ForgeBondProofs` has those about `OracleDrivenBond` too | |
| `MC*` | constants and symmetry sets for TLC | |

Sums are written as cardinalities: decimals are 0, so a balance of n is the n
tokens `<<a, 1>> .. <<a, n>>`. That keeps the modules free of recursion, which
the provers need.

The definitions named `Mut...` are faulty variants of the definition that
follows them. No specification uses them: put in the place of the
definition they show that a property of a run would notice the fault.

Abstractions: addresses, ids and operations are model values; txHash,
payment amounts, currencies, dates and names do not occur, since no guard reads
them; logging and formatting are left out. The status CREATED is written and
overwritten in one call, so no state shows it. Amounts are naturals within
`0..MaxUint`; that no checked subtraction or addition of the contract can
overflow is part of `TypeOK`. In `FinancialOracles`, the several payment
references of a settlement transaction matter only by which settlement
transactions share one: its own, and that of the batch of an indirect
redemption.

The streams belong to the driver, which is not in the repository. They are
modelled from their use: `_listen` hands on a block to start from, and the
service never gives one (the handler of a listing passes its block to
`listenContract`, which drops it), so a stream may start anywhere in the past;
from its start on it delivers every event once, in the order of the chain. A
stream that starts later than its subscription is excluded: the order in which
`initialize` subscribes and reads makes sense under that assumption only.

## Runs

| Run | Question | Instance |
|---|---|---|
| `bond` | do the contract's own invariants hold for any caller and any arguments, do settlement transactions keep their terms, and do roles change one at a time? | issuer and one investor, an operator that is registrar and settler, two ids, supply 3, quantities 1 and 2, redemptions of up to two elements, one authorization for each account that has none |
| `oracles` | two concurrent requests that may fail at each await: does the STR know what the chain knows, and is one redemption accepted at most? Of the bond they drive: do locks match what is pending, can everything pending be delivered, and is it delivery versus payment? | one investor, three ids, supply 2, two request slots, one transaction in flight per sender, subscriptions of all the issuer has and trades that give half of it back |
| `shared_payment` | redemption of two investors under one payment reference: is the bond driven as `OracleDrivenBond` says, and does a fresh redemption take everything? | two investors, four ids, supply 2, one request at a time (its transactions and confirmations still interleave) |
| `registry` | do the mappings and arrays of the registry agree, and does it implement the abstract directory? | two callers, one of them the owner (either may be a factory), two types, three names of which one is the empty string, three ISINs, two instruments and the zero address, up to four entries |
| `events` | is every bond listened to, once, whatever the chain does during start-up, and does each event get published? | one factory that may have either of two types, both or none, two bonds with one event each, one failure of any read, subscription or handler |
| `tezos` | are the Tezos contracts together the same ledger and the same directory, and can everything pending be delivered? | owner, investor, registrar and settler, two ids, quantities 1 and 2, supply 2; one factory and a registrar that may make itself one; two types, names, ISINs and instruments; a builder with all lambdas and packages with one |
| `clients` | does a call of `froClient` return only what was mined, is every promise awaited, is nothing emitted twice, and which calls never end? | two calls of `froClient` that wait at once and one of `fsoClient` with up to two transactions; any mined transaction may stay without a notification |
| `str` | do rows come from registrars and stay, and are they shown to those, and all those, who may see them, while roles change? | two creations of one id and a query, two users of whom one owns the bonds, two ledgers, three changes of roles |
| `revoked_operator` | violation | one duplicate authorization |
| `untyped_redemption` | violation | two elements with two operation ids |
| `authorize_operator` | violation | the bond of `tezos`, created and sent its lambdas |
| `late_factory` | violation | one type, two factories, no failure |

Bounds. Two accounts, an issuer and an investor, make transfers in both directions and,
where callers pass anything (`bond`), transfers to oneself; `shared_payment` has a
third account, so that the holders of a redemption are several. Two quantities with a
supply of 2 or 3 make settlement transactions compete for tokens and let a cancellation name
another quantity than was locked; two ids on one holder are enough for a lock to
be in the way of another, three for a redemption between a subscription and a
trade. One operation id is shared by all settlement transactions of `bond`, so
that each initiation changes the type of those before it. Callers are all
accounts and agents. `MaxAuthorizations` bounds the length of the
arrays of roles, the constructor's authorizations included, and is 0 where roles do
not matter. With 1, in `bond`, an account without a role gains one; with 2, in
`revoked_operator`, the registrar is authorized a second time.
`MaxSent` = 1 means a sender waits for its previous transaction before it sends
the next, in a given instance; interleavings across the two senders remain.
Deadlock is not checked where all ids or requests may be used up: the instance
stops then, and so may the system, since nothing has to happen. `registry`
and `events` check it.

In the registry a third ISIN is what it takes for the array to shrink in the
middle and for a name to be used again; a second type for a factory to have two
places in the array. Two bonds let one arrive through the registry and one
through a stream, or both through both; one event per bond is enough for
liveness, since the events of two bonds are handled at the same time.

On Tezos two ids on the owner, the only seller, compete for its lock; two
entries of the registry let names and ISINs be crossed. Two calls of `froClient`
are what it takes for a notification to meet the promise of another call, and
two transactions of one call of `fsoClient` for the oracle to fail between them.
Three changes of roles are enough to exchange one role for the other and back
between two questions of the censor; a second ledger is there for its ledger
test. A websocket may be lost and renewed any number of times.

Fairness. For FRO, FSO, the STR and the contracts none is assumed, and their
properties are safety properties: the oracles promise no progress after a failure
(no retry, no recovery), so no liveness property would hold without assuming what
the code does not do. `EventSpec` assumes weak fairness of the service's own steps
taken together: promises settle (with a result or an error) and streams deliver,
which is what the event loop gives; nothing is assumed of the chain. A failure
remains possible at each step, and the liveness properties are about what follows
when it does not happen. `OracleClients` assumes weak fairness, one by one, of a
request being served and its answer read (an HTTP request ends), of a transaction
being mined or reverted, of an oracle publishing what was mined *or never publishing
it* (`FailToPublish`), and of the event loop running the handler of a message that
arrived. Nothing makes an oracle notify: the handler of a settlement event asks the
chain for owner, settler and registrar before it publishes, is awaited by nobody and
is not retried when one of these calls fails, and a contract whose stream never
opened has no handler at all. Nor does anything make a client keep a websocket or open it
again. So `CallsEnd` names the calls that wait for ever: those whose transaction was
reverted, which no oracle notifies, those whose transaction the oracle failed to
notify, and those whose notification came while the client was not connected or had
not read the answer yet. It shows that there is no other reason, no more. `froClient` has no timeout, so these calls really never end.

### What the violations show

* `RevokedOperatorIsNotAuthorized`: `authorizeOperator` appends a role without
  looking whether it is there; `revokeOperatorAuthorization` removes the first
  entry and returns. An operator authorized twice stays authorized.
* `PendingHasOperationType`: `initiateRedemption` sets the operation type for
  the first element only. With two operation ids in one call the second
  settlement transaction is locked and can never be confirmed, only cancelled.
  FRO always sends one operation id, so `OracleDrivenBond` does not meet this.
* `NewRolesAreGranted`: the test of `authorizeOperator` in
  `cast-tz-v1/src/common/libs/operators/lambda.py:23` is inverted. Its comment speaks of an
  operator that has the role already and its message says "already authorized", but it
  lets pass exactly those. An operator of a Tezos bond can be revoked and never
  authorized: the registrar and settler of its creation are the only ones it will
  ever have. `AuthorizeOperator` of `TezosBond` does what the code does.
* `NewBondsAreNotified`: types and factories are read once. The bonds of a
  factory that is authorized, or takes another's place, while the service runs
  are found at its next start.

### What the passing runs show that a reader may not expect

* The bond is REDEEMED as soon as a redemption is initiated. If that is cancelled
  afterwards, or a subscription still pending is delivered, an investor holds
  tokens and no redemption can be initiated any more; `FreshRedemptionTakesAll`
  says no more than that a redemption mined before the balances it was built from
  have changed locks all that investors hold at that moment.
* A Tezos bond gets the lambdas its factory holds when it is created, and nobody
  checks that there are any. Until somebody upgrades it such a bond fails every
  call; `upgrade` only adds.
* `fsoClient` awaits `Promise.all` of `[transactionHash, promise]` objects, which
  are no promises: it returns before anything is mined. `ReturnedIsMined` is
  therefore about `froClient` only. Nobody awaits the promises of `fsoClient`; that
  none of them is ever rejected (`PromisesAreAwaited`) rests on the oracles never
  publishing a notification with an error.
* `AnsweredRowsStay`: two creations of one id that interleave both find it free,
  and the second replaces the row of the first. The property that does hold, and
  is proved, is that a creation which began after the first was answered cannot.

## Proofs

`ForgeBondProofs` proves for `ForgeBond`, with any finite set of accounts, any
supply and any ids (the assumptions `AccountsAssumption`, `SupplyAssumption`,
`IdsAssumption` of the module, nothing else):

* `TypeCorrect`, `LocksAreCovered`, `SupplyIsConserved`: the three are proved
  together, as `LedgerInv == TypeOK /\ LockedWithinBalance /\ SupplyConserved`,
  because none is inductive alone. A receiver's balance stays within
  `MaxUint` only because all balances sum to at most the supply; the supply is
  conserved only if the debit does not go below zero, which needs the lock to be
  covered by the balance; and a lock stays covered through a delivery because
  both shrink by the same quantity. The steps are one lemma per action; the
  counting is in `TokenCounts` (`CountUpdate`: changing one account's balance
  changes the sum by the difference).
* `HoldersAreListedOnce`: from `LedgerInv` and `Insert`.
* `TotalSupplyOverstates`: from the two before. `totalSupply()` walks the list of
  holders, and a list that names each of them once counts what the accounts have
  (`CountByList` in `TokenCounts`, `ListedCount`).
* `TheTermsAreKept`: for any callers and any reuse of operation ids. A settlement
  transaction keeps its terms and its status only goes forward; the type of its
  operation changes in one case, when another settlement transaction is initiated
  under the same operation id. That case is real: neither the contract nor FRO
  refuses it, and it decides whether a pending delivery burns.
* `DeliveryNeedsPayment`, `RedemptionEnds`: action properties, from
  `LedgerInv` and the actions. `RolesAreChangedOneByOne` likewise: a call writes one
  slot of one operator's array (`OneSlotWritten`).

`InstrumentRegistryProofs` proves for `InstrumentRegistry`, with any names,
ISINs, instruments, types and callers (`RegistryAssumption`: the zero address
is nobody's, the owner is an address, the empty string is a name, the ISINs of
an instance are finite and the array is bounded):

* `RegistryTypeCorrect` and `FactoryTypesAreTheKeys` together: what is removed
  from the array has to be the key that was deleted, which needs each key to be
  there once.
* `TheIndexesAgree`: inductive with the types. Unlisting one ISIN leaves the
  other entries alone because two listed ISINs never have one name.
* `AllListed`: the array and the ISIN index change by one occurrence together;
  the counting is about swap-and-pop.
* `RegistryIsADirectory`: each call maps to a step of `InstrumentDirectory`,
  from the invariants above.

`ForgeBondProofs` goes on to prove for `OracleDrivenBond` what the run `oracles` checks of the bond it drives. The calls of that module are calls of `ForgeBond` (`OracleNextIsNext`), so
that `LedgerInv` holds; `DrivenInv` adds to it

* `TermsOK`: an existing settlement transaction has an operation type and a
  quantity within the supply, and a redemption goes from an investor to the issuer.
  Without the last, the burn of a redemption might find its tokens locked; without
  the type, a confirmation could not be executed.
* `LocksMatchPending` (`LocksAreExact`): an unlock takes away exactly what the
  settlement transaction reserved, which needs its terms to be the stored ones.
* `BurnedByRedemption` (`RedemptionsBurn`).

From it follow `NothingPendingIsStuck` (what is pending is part of the lock, and
the lock of the balance) and `BondIsDeliveryVersusPayment`, the refinement: `StepKinds` sorts the calls into four kinds, and each kind is one
action of `DeliveryVersusPayment`; that a deal is covered is `LocksMatchPending`
and `LockedWithinBalance` after the step. `TheOraclesAreCallers` is
`OracleSpec => Spec`, which carries the theorems about arbitrary callers over.

`FinancialOraclesProofs` proves for `FinancialOracles`, with any number of
requests, asks of clients, accounts and transactions in flight, all that the runs
`oracles` and `shared_payment` check. The assumptions are those of the modules:
clients use an operation id for one kind of operation and never ask for a
redemption by way of a subscription (`ClientsAssumption`), and
`RedemptionAssumption`, which says that the bounds of the bond's model, `Quantities`
and `MaxRedemption`, leave out no redemption FRO can generate. `OraclesInv` follows
a settlement transaction from memory to the chain, one part per place:

* `RequestsOK`: a request holds what was generated for it, and the first `saved`
  of its settlement transactions are rows of one batch.
* `MempoolOK`: a transaction in flight names only rows that are saved, under their
  terms. Rows never change, so it does not matter when it is mined.
* `StrKnowsTheChain`: what the chain stores has a row with the same terms.
* `KindsOK` and `RedeemedOnce`: an operation id has one type on the chain as well,
  and all settlement transactions of redemptions come of one call. That is why two
  redemption requests that both passed the check of the state cannot both be
  executed, although the check is separated from the sending.
* `DrivenInv`, `HoldersListedOnce` of the bond: that every holder is listed once is
  what makes a generated redemption complete and free of repetitions.

`TheStrKnowsTheChain` and `OneRedemptionIsAccepted` are parts of it, and
`AFreshRedemptionTakesAll` is the action property. `TheOraclesDriveTheBond` is the
refinement `DrivesTheBond`: every transaction that is mined is a step of
`OracleDrivenBond`, each of whose hypotheses (usable operation id, one settlement
transaction per investor, cancellation with the stored terms) is a conjunct of
`OraclesInv`. Together with the theorems about `OracleDrivenBond` it gives
`TheOraclesDeliverVersusPayment` and `TheOraclesKeepTheLedger`: the composed system
of FRO, FSO, the STR and the miners, with all its races and failures, is a
delivery-versus-payment ledger in which no lock is stranded and no token lost.

`EventServiceProofs` proves for `EventService`, with any number of factories,
types, bonds and failures (`RegistryAssumption`, `FactoryAssumption`), the
invariants of the run `events`. `EventInv` has a part for each place a bond may be
between its creation and its subscription:

* `FactoryClaims` and `BondClaims`: what is in `listenedFactories` or
  `listenedContracts` has one stream, or one task, loop or handler about to open it,
  and no two of them. That is the property and what makes it inductive: who is
  about to subscribe found nobody there, and nobody comes after.
* `TasksOK`: a task of `subscribeEventFactories` outlives `initialize` only when
  another one failed, so that no stream of a factory is opened after the registry
  was read. This is where the `await` of `Promise.all` matters.
* `ListingsFollowed`: a listing below the last one a stream delivered is in the
  hands of a handler, or its bond is followed (subscribed to, being subscribed to,
  or its subscription failed); or it is older than the stream, and then initialize
  reads it, or has.
* `ReadFollowed`: what initialize read is followed or still in `rest`.
* `DeliveredIsPast`: a stream is never ahead of the chain.

`NoBondFallsBetween` (the property `NoBondIsMissed`) is what is left of these when
nothing is on its way. `EventsAreKept` is the safety half of `EventsAreNotified`:
an event that was delivered is in the hands of a handler, published, or failed.
`TheChainKeepsTheRegistry` says that the chain of `ForgeBondFactory` implements
`InstrumentRegistry`, so that all theorems about the registry hold of what the
service reads; `TheRegistryIsTheListings` that the array it reads and the events
it hears tell of the same bonds, each once, given that a creation gets a fresh
address.

`TezosPlatformProofs` proves for the Tezos contracts together (assumptions
`TezosBondAssumption`, `TezosRegistryAssumption`, `TezosPlatformAssumption`)
everything the run `tezos` checks. `PlatformInv` is the conjunction of `BondInv`
(types, `LocksArePending`, only the owner sells, nothing before the origination)
and of `RegistryInv` (types, `MapsAgree`); that the bond is blank before it is
originated is what lets the mapping to the abstract ledger start before the bond
exists.

`SettlementTransactionAccessProofs` proves the four properties of `str`, with
`AccessInv`: per creation, what is known of its user and of the id since its last
await; per query, that what was asked of the chain is recorded in the history; per
row, that the creation named in it was allowed.

`OracleClientsProofs` proves the safety properties of `clients`: `ClientsInv` adds
to them that transactions exist only for calls that were served, that oracles
publish only what was mined, and that what is emitted or under way was published.
`CallsAreNotForgotten` (the property `NoCallIsForgotten`) is the safety half of
`CallsEnd`: a call that waits has a transaction that is pending, or is still to be
notified, or whose notification is under way, or it waits for one of the reasons named
above. Its invariant `HearingInv` says that a client which is connected has
subscribed, and that whatever was published to it is under way, missed, or has ended
the call it belongs to.

The type invariants `RegistryTypeOK`, `PlatformTypeOK`, `AccessTypeOK`,
`ClientsTypeOK` are proved and no run repeats them; that of the bond is checked
within `OraclesTypeOK` too. The inductive invariants `OraclesInv` and `EventInv`
were model-checked on the instances of the runs before they were proved.

Only model-checked: the liveness properties `BondsAreFollowed`,
`EventsAreNotified` and `CallsEnd`, which are out of the prover's reach because they
rest on fairness, hence on ENABLED. The four violations are counterexamples
of TLC. There is no recursion.

## Not modelled

* FIO, contract bindings beyond "a call is sent and answered by a hash", GraphQL,
  configuration, logging, the entities and input types: I/O and data without
  decisions.
* `cast-tz-v1/package/smartml-cli.js`, the SmartML compiler in one bundled file,
  which has nine tenths of the lines of the repository and is not CAST's.
* The stub of a factory of structured products.
* The heartbeat: a timer that publishes block numbers nobody acts on. A beat that
  is slower than the timer may be overtaken by the next.
* `currentSupply` of the Ethereum bond, which the constructor writes and nothing
  reads or updates; the removal of FXO's event handlers by index, which no code
  uses.
* The status queries of FXO, which read the STR and the chain and keep nothing.
* Several ledgers at once: `initialize` takes one after the other, and they share
  only the sets of addresses. A restart of the service is its start, later.
* chain-auth: signatures and a stateless check of a claim.
* The transaction manager is external; it is modelled from its use: what is sent
  is executed once in nonce order, or never.
* Direct settlement with holdable tokens: the repository passes the token's
  address along and no code here uses it.
* On Tezos, code other than the compiled lambdas sent to `upgrade` by somebody who
  may; the operation types of a Tezos bond, which are written and never read.
* That a client reuses an operation id for another kind of operation is outside
  `OracleDrivenBond` and `FinancialOracles`, and so outside what is proved of them
  (FRO only checks that it is a UUID; the tutorial asks for a new one). `ForgeBond`
  allows it: `TermsAreKept`, checked and proved there, says what then changes, and
  nothing excludes the consequence, a pending subscription that is burnt.
* A Tezos bond whose registrar is its settler (`TezosBondAssumption`): no contract
  refuses it, but what a map literal with one key twice becomes is up to SmartPy.

## Plan

1. *Done*: `ForgeBond`, its proofs, `DeliveryVersusPayment`, `OracleDrivenBond`,
   its proofs and the refinement, `FinancialOracles`.
2. *Done*: `InstrumentRegistry` with its abstract specification and its proofs,
   `ForgeBondFactory`, `EventService`.
3. *Done*: `TezosBond`, `TezosRegistry`, `TezosPlatform` against the same abstract
   specifications, with proofs; `SettlementTransactionAccess` and `OracleClients`
   with proofs.
4. *Done*: proofs of `RolesChangeOneByOne` and `TotalSupplyOverstatesByLocks`, of
   everything safe about `FinancialOracles` and `EventService`, and the
   compositions that carry the theorems of one layer to the next.
5. *Left*: the clients composed with the oracles they call, so that
   `ReturnedIsMined` is about the transactions of `FinancialOracles`; an instance of
   `bond` with two operation ids, if its states can be made few enough.
