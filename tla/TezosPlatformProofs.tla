------------------------ MODULE TezosPlatformProofs ------------------------
(***************************************************************************)
(* Proofs about TezosPlatform: its bond, for any accounts, settlement      *)
(* transactions and quantities, and its registry, for any names, ISINs and *)
(* factories.  The owner sells every token, so that one balance covers all *)
(* the pending settlement transactions.                                    *)
(***************************************************************************)
EXTENDS TezosPlatform, TokenCounts

\* What the pending settlement transactions will deliver, one by one.
PendingQuantity ==
    [t \in TxIds |-> IF Pending(t) THEN settlementTransactionById[t].quantity ELSE 0]

\* The owner sells, and holds what is locked.
OwnerSells ==
    /\ balances[Owner].locked <= balances[Owner].balance
    /\ balances[Owner].balance <= InitialSupply
    /\ \A t \in TxIds : settlementTransactionById[t] # NoTransaction =>
          /\ settlementTransactionById[t].seller = Owner
          /\ settlementTransactionById[t].quantity <= InitialSupply

\* Nothing has happened to a bond that does not exist.
BlankBefore ==
    ~exists => /\ settlementTransactionById = [t \in TxIds |-> NoTransaction]
               /\ entrypointsBigMap = {}

BondInv == BondTypeOK /\ LocksArePending /\ OwnerSells /\ BlankBefore

RegistryInv == RegistryTypeOK /\ MapsAgree

PlatformInv ==
    /\ BondInv
    /\ RegistryInv
    /\ factoryEntrypoints \in [Factories -> SUBSET Lambdas]
    /\ bytesScripts \in SUBSET Lambdas
    /\ others \subseteq Instruments \ {FollowedBond}

\* What a step of the platform is to the bond, and to the registry.
Upgraded(entrypoints) ==
    /\ exists
    /\ entrypointsBigMap' = entrypointsBigMap \cup entrypoints
    /\ UNCHANGED <<exists, tokenVars, operatorsAuthorizations>>

BondStep ==
    \/ BondCall
    \/ \E entrypoints \in SUBSET Lambdas : Originate(entrypoints) \/ Upgraded(entrypoints)
    \/ UNCHANGED bondVars

RegistryStep == RegistryCall(Callers) \/ UNCHANGED registryVars

-----------------------------------------------------------------------------
(* The steps of the platform. *)

LEMMA StepKinds ==
    ASSUME PlatformInv, [PlatformNext]_platformVars
    PROVE  /\ BondStep /\ RegistryStep
           /\ factoryEntrypoints' \in [Factories -> SUBSET Lambdas]
           /\ bytesScripts' \in SUBSET Lambdas
           /\ others' \subseteq Instruments \ {FollowedBond}
<1> USE TezosPlatformAssumption DEF PlatformInv
<1> DEFINE Goal == /\ BondStep /\ RegistryStep
                   /\ factoryEntrypoints' \in [Factories -> SUBSET Lambdas]
                   /\ bytesScripts' \in SUBSET Lambdas
                   /\ others' \subseteq Instruments \ {FollowedBond}
<1>1. ASSUME BondCall, UNCHANGED <<registryVars, factoryVars>> PROVE Goal
  BY <1>1 DEF BondStep, RegistryStep, factoryVars
<1>2. ASSUME RegistryCall(Callers \ Factories), UNCHANGED <<bondVars, factoryVars>> PROVE Goal
  <2>1. RegistryCall(Callers)
    BY <1>2 DEF RegistryCall
  <2>2. QED
    BY <1>2, <2>1 DEF BondStep, RegistryStep, factoryVars
<1>3. ASSUME BuildCreateAndPlay PROVE Goal
  BY <1>3 DEF BuildCreateAndPlay, BondStep, RegistryStep
<1>4. ASSUME NEW f \in Factories, NEW s, NEW u, NEW e \in SUBSET Lambdas, UpgradeFactory(f, s, u, e)
      PROVE  Goal
  <2>1. factoryEntrypoints' \in [Factories -> SUBSET Lambdas]
    BY <1>4 DEF UpgradeFactory
  <2>2. QED
    BY <1>4, <2>1 DEF UpgradeFactory, BondStep, RegistryStep
<1>5. ASSUME NEW s, NEW u, NEW e \in SUBSET Lambdas, UpgradeBond(s, u, e),
             UNCHANGED <<registryVars, factoryVars>>
      PROVE  Goal
  <2>1. Upgraded(e)
    BY <1>5 DEF UpgradeBond, Upgraded
  <2>2. QED
    BY <1>5, <2>1 DEF BondStep, RegistryStep, factoryVars
<1>6. ASSUME NEW a \in Addresses, SendCreateAndPlay(a) PROVE Goal
  BY <1>4, <1>5, <1>6 DEF SendCreateAndPlay
<1>7. ASSUME NEW a \in Addresses, UpgradeByHand(a) PROVE Goal
  BY <1>4, <1>5, <1>7 DEF UpgradeByHand
<1>8. ASSUME NEW a \in Addresses, NEW f \in Factories, NEW entry \in Instrument,
             CreateForgeBond(f, a, entry)
      PROVE  Goal
  <2>1. RegistryStep
    BY <1>8 DEF CreateForgeBond, RegistryStep, RegistryCall
  <2>2. BondStep
    BY <1>8 DEF CreateForgeBond, BondStep
  <2>3. others' \subseteq Instruments \ {FollowedBond}
    BY <1>8 DEF CreateForgeBond
  <2>4. QED
    BY <1>8, <2>1, <2>2, <2>3 DEF CreateForgeBond
<1>9. ASSUME UNCHANGED platformVars PROVE Goal
  BY <1>9 DEF platformVars, factoryVars, BondStep, RegistryStep
<1>10. QED
  BY <1>1, <1>2, <1>3, <1>6, <1>7, <1>8, <1>9 DEF PlatformNext

-----------------------------------------------------------------------------
(* The bond. *)

LEMMA ReservedIsCount ==
    /\ ReservedTokens = Count(TxIds, PendingQuantity, InitialSupply)
    /\ ReservedTokens' = Count(TxIds, PendingQuantity', InitialSupply)
<1>1. ReservedTokens = Count(TxIds, PendingQuantity, InitialSupply)
  BY DEF ReservedTokens, Count, PendingQuantity
<1>2. ReservedTokens' = Count(TxIds, PendingQuantity', InitialSupply)
  BY DEF ReservedTokens, Count, PendingQuantity
<1>3. QED
  BY <1>1, <1>2

\* A record is that of nobody or has an owner's address for a seller.
LEMMA RecordTypes ==
    ASSUME BondInv, NEW t \in TxIds
    PROVE  /\ settlementTransactionById[t] \in SettlementTransaction \cup {NoTransaction}
           /\ settlementTransactionById[t] = NoTransaction <=> settlementTransactionById[t].status = UNUSED
           /\ settlementTransactionById[t].status \in {UNUSED, TOKEN_LOCKED, CASH_RECEIVED, CASH_SENT}
           /\ Pending(t) => /\ settlementTransactionById[t] \in SettlementTransaction
                            /\ settlementTransactionById[t].quantity \in 0..InitialSupply
                            /\ settlementTransactionById[t].buyer \in Addresses
<1>1. settlementTransactionById[t] \in SettlementTransaction \cup {NoTransaction}
  BY DEF BondInv, BondTypeOK
<1>2. /\ settlementTransactionById[t] = NoTransaction <=> settlementTransactionById[t].status = UNUSED
      /\ settlementTransactionById[t].status \in {UNUSED, TOKEN_LOCKED, CASH_RECEIVED, CASH_SENT}
  <2>1. CASE settlementTransactionById[t] = NoTransaction
    BY <2>1 DEF NoTransaction
  <2>2. CASE settlementTransactionById[t] \in SettlementTransaction
    <3>1. settlementTransactionById[t].status \in {TOKEN_LOCKED, CASH_RECEIVED, CASH_SENT}
      BY <2>2 DEF SettlementTransaction
    <3>2. settlementTransactionById[t].status # UNUSED
      BY <3>1 DEF UNUSED, TOKEN_LOCKED, CASH_RECEIVED, CASH_SENT
    <3>3. NoTransaction.status = UNUSED
      BY DEF NoTransaction
    <3>4. QED
      BY <3>1, <3>2, <3>3
  <2>3. QED
    BY <1>1, <2>1, <2>2
<1>3. Pending(t) => /\ settlementTransactionById[t] \in SettlementTransaction
                    /\ settlementTransactionById[t] # NoTransaction
  BY <1>1, <1>2 DEF Pending, UNUSED, TOKEN_LOCKED
<1>4. Pending(t) => settlementTransactionById[t].quantity \in 0..InitialSupply
  <2>1. Pending(t) => settlementTransactionById[t].quantity \in Nat
    BY <1>3, TezosBondAssumption DEF SettlementTransaction
  <2>2. Pending(t) => settlementTransactionById[t].quantity <= InitialSupply
    BY <1>3 DEF BondInv, OwnerSells
  <2>3. QED
    BY <2>1, <2>2, TezosBondAssumption
<1>5. QED
  BY <1>1, <1>2, <1>3, <1>4 DEF SettlementTransaction

LEMMA PendingQuantityType ==
    ASSUME BondInv
    PROVE  PendingQuantity \in [TxIds -> 0..InitialSupply]
<1>1. 0 \in 0..InitialSupply
  BY TezosBondAssumption
<1>2. QED
  BY <1>1, RecordTypes DEF PendingQuantity

\* What stays pending: the locks still add up.
LEMMA SamePending ==
    ASSUME LocksArePending, balances' = balances, PendingQuantity' = PendingQuantity
    PROVE  LocksArePending'
<1>1. ReservedTokens' = ReservedTokens
  BY ReservedIsCount
<1>2. QED
  BY <1>1 DEF LocksArePending

LEMMA InitBond == BondInit => BondInv
<1> SUFFICES ASSUME BondInit PROVE BondInv
  OBVIOUS
<1> USE TezosBondAssumption DEF BondInit
<1>1. BondTypeOK
  BY DEF BondTypeOK
<1>2. \A t \in TxIds : ~Pending(t)
  BY DEF Pending, NoTransaction, UNUSED, TOKEN_LOCKED
<1>3. ReservedTokens = {}
  BY <1>2 DEF ReservedTokens
<1>4. Cardinality(ReservedTokens) = 0
  BY <1>3, FS_EmptySet, Zenon
<1>5. LocksArePending
  BY <1>4 DEF LocksArePending
<1>6. OwnerSells /\ BlankBefore
  BY DEF OwnerSells, BlankBefore
<1>7. QED
  BY <1>1, <1>5, <1>6 DEF BondInv

LEMMA OriginateKeeps ==
    ASSUME BondInv, NEW e \in SUBSET Lambdas, Originate(e)
    PROVE  BondInv'
<1> USE TezosBondAssumption
<1>1. /\ exists' = TRUE /\ balances' = newInitialBalances
      /\ operatorsAuthorizations' = InitialOperators /\ entrypointsBigMap' = e
      /\ settlementTransactionById' = settlementTransactionById
      /\ settlementTransactionById = [t \in TxIds |-> NoTransaction]
      /\ BondTypeOK
  BY DEF Originate, BondInv, BlankBefore
<1>2. InitialOperators \in [Addresses -> SUBSET Roles]
  <2>1. \A a \in Addresses :
           (CASE a = Registrar -> {REGISTRAR} [] a = Settler -> {SETTLER} [] OTHER -> {}) \in SUBSET Roles
    BY DEF Roles
  <2>2. QED
    BY <2>1 DEF InitialOperators
<1>3. newInitialBalances \in [Addresses -> [balance : Nat, locked : Nat]]
  BY DEF newInitialBalances
<1>4. BondTypeOK'
  BY <1>1, <1>2, <1>3 DEF BondTypeOK
<1>5. \A t \in TxIds : ~Pending(t)'
  BY <1>1 DEF Pending, NoTransaction, UNUSED, TOKEN_LOCKED
<1>6. ReservedTokens' = {}
  BY <1>5 DEF ReservedTokens
<1>7. Cardinality(ReservedTokens)' = 0
  BY <1>6, FS_EmptySet, Zenon
<1>8. LocksArePending'
  BY <1>1, <1>7 DEF LocksArePending, newInitialBalances
<1>9. OwnerSells' /\ BlankBefore'
  BY <1>1 DEF OwnerSells, BlankBefore, newInitialBalances
<1>10. QED
  BY <1>4, <1>8, <1>9 DEF BondInv

LEMMA UpgradedKeeps ==
    ASSUME BondInv, NEW e \in SUBSET Lambdas, Upgraded(e)
    PROVE  BondInv'
<1>1. /\ UNCHANGED <<exists, balances, settlementTransactionById, operatorsAuthorizations>>
      /\ entrypointsBigMap' = entrypointsBigMap \cup e /\ exists
  BY DEF Upgraded, tokenVars
<1>2. BondTypeOK' /\ OwnerSells' /\ BlankBefore'
  BY <1>1 DEF BondInv, BondTypeOK, OwnerSells, BlankBefore
<1>3. PendingQuantity' = PendingQuantity
  BY <1>1 DEF PendingQuantity, Pending
<1>4. QED
  BY <1>1, <1>2, <1>3, SamePending DEF BondInv

LEMMA OperatorsKeep ==
    ASSUME BondInv, UNCHANGED <<exists, tokenVars, entrypointsBigMap>>,
           operatorsAuthorizations' \in [Addresses -> SUBSET Roles]
    PROVE  BondInv'
<1>1. UNCHANGED <<balances, settlementTransactionById>>
  BY DEF tokenVars
<1>2. BondTypeOK' /\ OwnerSells' /\ BlankBefore'
  BY <1>1 DEF BondInv, BondTypeOK, OwnerSells, BlankBefore
<1>3. PendingQuantity' = PendingQuantity
  BY <1>1 DEF PendingQuantity, Pending
<1>4. QED
  BY <1>1, <1>2, <1>3, SamePending DEF BondInv

\* The lock grows by what becomes pending, and stays within the balance.
LEMMA InitiateKeeps ==
    ASSUME BondInv, NEW sender \in Addresses, NEW t \in TxIds, NEW seller \in Addresses,
           NEW buyer \in Addresses, NEW q \in Quantities,
           InitiateSubscription(sender, t, seller, buyer, q)
    PROVE  BondInv'
<1> USE TezosBondAssumption
<1> DEFINE new == [seller |-> seller, buyer |-> buyer, quantity |-> q, status |-> TOKEN_LOCKED]
<1>1. /\ exists /\ seller = Owner /\ settlementTransactionById[t] = NoTransaction
      /\ balances[Owner].balance - balances[Owner].locked >= q
      /\ balances' = [balances EXCEPT ![Owner].locked = @ + q]
      /\ settlementTransactionById' = [settlementTransactionById EXCEPT ![t] = new]
      /\ UNCHANGED <<exists, operatorsAuthorizations, entrypointsBigMap>>
      /\ BondTypeOK
  BY DEF InitiateSubscription, Lockable, Loaded, BondInv
<1>2. q \in Nat /\ balances[Owner].balance \in Nat /\ balances[Owner].locked \in Nat
  BY <1>1 DEF BondTypeOK
<1>3. q <= InitialSupply
  BY <1>1, <1>2 DEF BondInv, OwnerSells
<1>4. new \in SettlementTransaction /\ new.quantity = q /\ new.seller = Owner
      /\ new.status = TOKEN_LOCKED
  BY <1>1 DEF SettlementTransaction
<1> HIDE DEF new
<1>5. balances' \in [Addresses -> [balance : Nat, locked : Nat]]
  BY <1>1, <1>2 DEF BondTypeOK
<1>6. BondTypeOK'
  BY <1>1, <1>4, <1>5 DEF BondTypeOK
<1>7. /\ balances'[Owner].locked = balances[Owner].locked + q
      /\ balances'[Owner].balance = balances[Owner].balance
      /\ \A a \in Addresses \ {Owner} : balances'[a] = balances[a]
      /\ settlementTransactionById'[t] = new
      /\ \A u \in TxIds \ {t} : settlementTransactionById'[u] = settlementTransactionById[u]
  BY <1>1 DEF BondTypeOK
<1>8. OwnerSells'
  BY <1>1, <1>2, <1>3, <1>4, <1>7 DEF BondInv, OwnerSells
<1>9. PendingQuantity \in [TxIds -> 0..InitialSupply] /\ PendingQuantity[t] = 0
  <2>1. ~Pending(t)
    BY <1>1, RecordTypes DEF Pending, UNUSED, TOKEN_LOCKED
  <2>2. QED
    BY <2>1, PendingQuantityType DEF PendingQuantity
<1>10. /\ PendingQuantity' \in [TxIds -> 0..InitialSupply] /\ PendingQuantity'[t] = q
       /\ \A u \in TxIds \ {t} : PendingQuantity'[u] = PendingQuantity[u]
  <2>1. Pending(t)' /\ \A u \in TxIds \ {t} : Pending(u)' <=> Pending(u)
    BY <1>4, <1>7 DEF Pending
  <2>2. PendingQuantity'[t] = q /\ \A u \in TxIds \ {t} : PendingQuantity'[u] = PendingQuantity[u]
    BY <1>4, <1>7, <2>1 DEF PendingQuantity
  <2>3. PendingQuantity' = [u \in TxIds |-> PendingQuantity'[u]]
    BY DEF PendingQuantity
  <2>4. \A u \in TxIds : PendingQuantity'[u] \in 0..InitialSupply
    BY <1>2, <1>3, <1>9, <2>2
  <2>5. QED
    BY <2>2, <2>3, <2>4
<1>11. Cardinality(ReservedTokens)' = Cardinality(ReservedTokens) + q
  <2>1. Cardinality(Count(TxIds, PendingQuantity', InitialSupply))
           = Cardinality(Count(TxIds, PendingQuantity, InitialSupply)) - PendingQuantity[t] + PendingQuantity'[t]
    BY <1>9, <1>10, CountUpdate
  <2>2. Cardinality(Count(TxIds, PendingQuantity, InitialSupply)) \in Nat
    BY CountFinite
  <2>3. ReservedTokens' = Count(TxIds, PendingQuantity', InitialSupply)
    BY ReservedIsCount
  <2>4. QED
    BY <1>2, <1>9, <1>10, <2>1, <2>2, <2>3, ReservedIsCount
<1>12. LocksArePending'
  <2>1. \A a \in Addresses : balances[a].locked = IF a = Owner THEN Cardinality(ReservedTokens) ELSE 0
    BY DEF BondInv, LocksArePending
  <2>2. QED
    BY <1>7, <1>11, <2>1 DEF LocksArePending
<1>13. QED
  BY <1>1, <1>6, <1>8, <1>12 DEF BondInv, BlankBefore
\* What one delivery does to the balances.
LEMMA DeliveredIs ==
    ASSUME BondInv, NEW b \in Addresses, NEW q \in Nat, balances' = Delivered(b, q)
    PROVE  /\ balances'[Owner].locked = balances[Owner].locked - q
           /\ balances'[Owner].balance =
                 balances[Owner].balance + (IF b = Owner THEN q ELSE 0) - q
           /\ \A a \in Addresses \ {Owner} :
                 /\ balances'[a].locked = balances[a].locked
                 /\ balances'[a].balance = balances[a].balance + (IF a = b THEN q ELSE 0)
           /\ Deliverable(b, q) => balances' \in [Addresses -> [balance : Nat, locked : Nat]]
<1> USE TezosBondAssumption
<1>1. balances \in [Addresses -> [balance : Nat, locked : Nat]]
  BY DEF BondInv, BondTypeOK
<1>2. PICK credited : credited = [balances EXCEPT ![b].balance = @ + q]
  OBVIOUS
<1>3. /\ credited \in [Addresses -> [balance : Nat, locked : Nat]]
      /\ \A a \in Addresses :
            /\ credited[a].locked = balances[a].locked
            /\ credited[a].balance = balances[a].balance + (IF a = b THEN q ELSE 0)
  BY <1>1, <1>2
<1>4. balances' = [credited EXCEPT ![Owner] = [balance |-> credited[Owner].balance - q,
                                               locked |-> credited[Owner].locked - q]]
  BY <1>2 DEF Delivered
<1>5. /\ balances'[Owner] = [balance |-> credited[Owner].balance - q,
                             locked |-> credited[Owner].locked - q]
      /\ \A a \in Addresses \ {Owner} : balances'[a] = credited[a]
  BY <1>3, <1>4
<1>6. /\ balances'[Owner].locked = credited[Owner].locked - q
      /\ balances'[Owner].balance = credited[Owner].balance - q
  BY <1>5
<1>7. Owner \in Addresses
  OBVIOUS
<1>8. ASSUME Deliverable(b, q)
      PROVE  balances' \in [Addresses -> [balance : Nat, locked : Nat]]
  <2>1. credited[Owner].balance - q \in Nat /\ credited[Owner].locked - q \in Nat
    BY <1>1, <1>3, <1>8 DEF Deliverable
  <2>2. QED
    BY <1>3, <1>4, <2>1
<1>9. /\ balances'[Owner].locked = balances[Owner].locked - q
      /\ balances'[Owner].balance = balances[Owner].balance + (IF b = Owner THEN q ELSE 0) - q
  <2>1. PICK added \in Nat : added = IF b = Owner THEN q ELSE 0
    OBVIOUS
  <2>2. balances[Owner].locked \in Nat /\ balances[Owner].balance \in Nat
    BY <1>1, <1>7
  <2>3. credited[Owner].locked = balances[Owner].locked
    BY <1>3, <1>7
  <2>4. credited[Owner].balance = balances[Owner].balance + added
    BY <1>3, <1>7, <2>1
  <2>5. /\ balances'[Owner].locked = balances[Owner].locked - q
        /\ balances'[Owner].balance = balances[Owner].balance + added - q
    BY <1>6, <2>2, <2>3, <2>4
  <2>6. QED
    BY <2>1, <2>5
<1>10. \A a \in Addresses \ {Owner} :
          /\ balances'[a].locked = balances[a].locked
          /\ balances'[a].balance = balances[a].balance + (IF a = b THEN q ELSE 0)
  BY <1>3, <1>5
<1>11. QED
  BY <1>8, <1>9, <1>10

\* The lock shrinks by what is delivered.
LEMMA ReceivedKeeps ==
    ASSUME BondInv, NEW sender \in Addresses, NEW t \in TxIds, ConfirmPaymentReceived(sender, t)
    PROVE  BondInv'
<1> USE TezosBondAssumption
<1>1. PICK st : st = settlementTransactionById[t]
  OBVIOUS
<1>2. /\ exists /\ st.status = TOKEN_LOCKED /\ Deliverable(st.buyer, st.quantity)
      /\ balances' = Delivered(st.buyer, st.quantity)
      /\ settlementTransactionById' = [settlementTransactionById EXCEPT ![t].status = CASH_RECEIVED]
      /\ UNCHANGED <<exists, operatorsAuthorizations, entrypointsBigMap>>
      /\ BondTypeOK
  BY <1>1 DEF ConfirmPaymentReceived, SetStatus, Loaded, BondInv
<1>3. /\ st \in SettlementTransaction /\ Pending(t) /\ st.buyer \in Addresses
      /\ st.quantity \in 0..InitialSupply /\ st.quantity \in Nat
  BY <1>1, <1>2, RecordTypes DEF Pending
<1>4. PICK new : new = [st EXCEPT !.status = CASH_RECEIVED]
  OBVIOUS
<1>5. /\ new \in SettlementTransaction /\ new.status = CASH_RECEIVED
      /\ new.seller = st.seller /\ new.quantity = st.quantity
  BY <1>3, <1>4 DEF SettlementTransaction
<1>6. settlementTransactionById' = [settlementTransactionById EXCEPT ![t] = new]
  BY <1>1, <1>2, <1>4
<1>7. /\ settlementTransactionById'[t] = new
      /\ \A u \in TxIds \ {t} : settlementTransactionById'[u] = settlementTransactionById[u]
  BY <1>2, <1>6 DEF BondTypeOK
<1>8. PICK q \in 0..InitialSupply : q = st.quantity
  BY <1>3
<1>9. PICK b \in Addresses : b = st.buyer
  BY <1>3
<1>10. /\ balances'[Owner].locked = balances[Owner].locked - q
       /\ balances'[Owner].balance = balances[Owner].balance + (IF b = Owner THEN q ELSE 0) - q
       /\ \A a \in Addresses \ {Owner} : balances'[a].locked = balances[a].locked
       /\ balances' \in [Addresses -> [balance : Nat, locked : Nat]]
  <2>1. q \in Nat /\ balances' = Delivered(b, q) /\ Deliverable(b, q)
    BY <1>2, <1>8, <1>9
  <2>2. QED
    BY <2>1, DeliveredIs
<1>11. BondTypeOK'
  BY <1>2, <1>5, <1>6, <1>10 DEF BondTypeOK
<1>12. OwnerSells'
  <2>1. /\ balances[Owner].locked \in Nat /\ balances[Owner].balance \in Nat
        /\ balances[Owner].locked <= balances[Owner].balance
        /\ balances[Owner].balance <= InitialSupply
    BY <1>2 DEF BondTypeOK, BondInv, OwnerSells
  <2>2. /\ balances'[Owner].locked <= balances'[Owner].balance
        /\ balances'[Owner].balance <= InitialSupply
    BY <1>8, <1>10, <2>1
  <2>3. st # NoTransaction
    BY <1>1, <1>2, RecordTypes DEF UNUSED, TOKEN_LOCKED
  <2>4. new.seller = Owner /\ new.quantity <= InitialSupply
    BY <1>1, <1>5, <2>3 DEF BondInv, OwnerSells
  <2>5. QED
    BY <1>7, <2>2, <2>4 DEF BondInv, OwnerSells
<1>13. PendingQuantity \in [TxIds -> 0..InitialSupply] /\ PendingQuantity[t] = q
  BY <1>1, <1>3, <1>8, PendingQuantityType DEF PendingQuantity
<1>14. /\ PendingQuantity' \in [TxIds -> 0..InitialSupply] /\ PendingQuantity'[t] = 0
       /\ \A u \in TxIds \ {t} : PendingQuantity'[u] = PendingQuantity[u]
  <2>1. ~Pending(t)' /\ \A u \in TxIds \ {t} : Pending(u)' <=> Pending(u)
    BY <1>5, <1>7 DEF Pending, CASH_RECEIVED, TOKEN_LOCKED
  <2>2. PendingQuantity'[t] = 0 /\ \A u \in TxIds \ {t} : PendingQuantity'[u] = PendingQuantity[u]
    BY <1>7, <2>1 DEF PendingQuantity
  <2>3. PendingQuantity' = [u \in TxIds |-> PendingQuantity'[u]]
    BY DEF PendingQuantity
  <2>4. \A u \in TxIds : PendingQuantity'[u] \in 0..InitialSupply
    BY <1>13, <2>2
  <2>5. QED
    BY <2>2, <2>3, <2>4
<1>15. Cardinality(ReservedTokens)' = Cardinality(ReservedTokens) - q
  <2>1. Cardinality(Count(TxIds, PendingQuantity', InitialSupply))
           = Cardinality(Count(TxIds, PendingQuantity, InitialSupply)) - PendingQuantity[t] + PendingQuantity'[t]
    BY <1>13, <1>14, CountUpdate
  <2>2. Cardinality(Count(TxIds, PendingQuantity, InitialSupply)) \in Nat
    BY CountFinite
  <2>3. QED
    BY <1>8, <1>13, <1>14, <2>1, <2>2, ReservedIsCount
<1>16. LocksArePending'
  <2>1. \A a \in Addresses : balances[a].locked = IF a = Owner THEN Cardinality(ReservedTokens) ELSE 0
    BY DEF BondInv, LocksArePending
  <2>2. QED
    BY <1>10, <1>15, <2>1 DEF LocksArePending
<1>17. QED
  BY <1>2, <1>11, <1>12, <1>16 DEF BondInv, BlankBefore

LEMMA TransferredKeeps ==
    ASSUME BondInv, NEW sender \in Addresses, NEW t \in TxIds, ConfirmPaymentTransferred(sender, t)
    PROVE  BondInv'
<1>1. /\ exists /\ settlementTransactionById[t].status = CASH_RECEIVED
      /\ settlementTransactionById' = [settlementTransactionById EXCEPT ![t].status = CASH_SENT]
      /\ UNCHANGED <<exists, balances, operatorsAuthorizations, entrypointsBigMap>>
      /\ BondTypeOK
  BY DEF ConfirmPaymentTransferred, SetStatus, Loaded, BondInv
<1>2. settlementTransactionById[t] \in SettlementTransaction
      /\ settlementTransactionById[t] # NoTransaction
  BY <1>1, RecordTypes DEF UNUSED, CASH_RECEIVED
<1>3. PICK new : new = [settlementTransactionById[t] EXCEPT !.status = CASH_SENT]
  OBVIOUS
<1>4. /\ new \in SettlementTransaction /\ new.status = CASH_SENT
      /\ new.seller = settlementTransactionById[t].seller
      /\ new.quantity = settlementTransactionById[t].quantity
  BY <1>2, <1>3 DEF SettlementTransaction
<1>5. settlementTransactionById' = [settlementTransactionById EXCEPT ![t] = new]
  BY <1>1, <1>3
<1>6. /\ settlementTransactionById'[t] = new
      /\ \A u \in TxIds \ {t} : settlementTransactionById'[u] = settlementTransactionById[u]
  BY <1>1, <1>5 DEF BondTypeOK
<1>7. BondTypeOK'
  BY <1>1, <1>4, <1>5 DEF BondTypeOK
<1>8. OwnerSells'
  BY <1>1, <1>2, <1>4, <1>6 DEF BondInv, OwnerSells
<1>9. \A u \in TxIds : Pending(u)' <=> Pending(u)
  BY <1>1, <1>4, <1>6 DEF Pending, TOKEN_LOCKED, CASH_RECEIVED, CASH_SENT
<1>10. \A u \in TxIds : Pending(u) => settlementTransactionById'[u] = settlementTransactionById[u]
  BY <1>1, <1>6 DEF Pending, TOKEN_LOCKED, CASH_RECEIVED
<1>11. PendingQuantity' = PendingQuantity
  BY <1>9, <1>10 DEF PendingQuantity
<1>12. QED
  BY <1>1, <1>7, <1>8, <1>11, SamePending DEF BondInv, BlankBefore

LEMMA BondStepKeeps ==
    ASSUME BondInv, BondStep
    PROVE  BondInv'
<1>1. ASSUME NEW s \in Addresses, NEW t \in TxIds, NEW a \in Addresses, NEW b \in Addresses,
             NEW q \in Quantities, InitiateSubscription(s, t, a, b, q)
      PROVE  BondInv'
  BY <1>1, InitiateKeeps
<1>2. ASSUME NEW s \in Addresses, NEW t \in TxIds, ConfirmPaymentReceived(s, t) PROVE BondInv'
  BY <1>2, ReceivedKeeps
<1>3. ASSUME NEW s \in Addresses, NEW t \in TxIds, ConfirmPaymentTransferred(s, t) PROVE BondInv'
  BY <1>3, TransferredKeeps
<1>4. ASSUME NEW s \in Addresses, NEW o \in Addresses, NEW r \in Roles, AuthorizeOperator(s, o, r)
      PROVE  BondInv'
  <2>1. operatorsAuthorizations' \in [Addresses -> SUBSET Roles]
    BY <1>4 DEF AuthorizeOperator, BondInv, BondTypeOK
  <2>2. QED
    BY <1>4, <2>1, OperatorsKeep DEF AuthorizeOperator
<1>5. ASSUME NEW s \in Addresses, NEW o \in Addresses, NEW r \in Roles,
             RevokeOperatorAuthorization(s, o, r)
      PROVE  BondInv'
  <2>1. operatorsAuthorizations' \in [Addresses -> SUBSET Roles]
    BY <1>5 DEF RevokeOperatorAuthorization, BondInv, BondTypeOK
  <2>2. QED
    BY <1>5, <2>1, OperatorsKeep DEF RevokeOperatorAuthorization
<1>6. ASSUME NEW e \in SUBSET Lambdas, Originate(e) \/ Upgraded(e) PROVE BondInv'
  BY <1>6, OriginateKeeps, UpgradedKeeps
<1>7. CASE UNCHANGED bondVars
  BY <1>7, OperatorsKeep DEF bondVars, BondInv, BondTypeOK
<1>8. QED
  BY <1>1, <1>2, <1>3, <1>4, <1>5, <1>6, <1>7 DEF BondStep, BondCall
-----------------------------------------------------------------------------
(* The registry. *)

LEMMA InitRegistry == RegistryInit => RegistryInv
BY DEF RegistryInit, RegistryInv, RegistryTypeOK, MapsAgree

LEMMA ListKeeps ==
    ASSUME RegistryInv, NEW sender, NEW entry \in Instrument, ListInstrument(sender, entry)
    PROVE  RegistryInv'
<1> USE TezosRegistryAssumption
<1>1. /\ tokensByName[entry.name] = NoInstrument /\ tokensByIsinCode[entry.isin] = NoInstrument
      /\ tokensByName' = [tokensByName EXCEPT ![entry.name] = entry]
      /\ tokensByIsinCode' = [tokensByIsinCode EXCEPT ![entry.isin] = entry]
      /\ factories' = factories
      /\ RegistryTypeOK
  BY DEF ListInstrument, Listable, RegistryInv
<1>2. entry.name \in Names /\ entry.isin \in Isins /\ entry # NoInstrument
  BY DEF Instrument
<1>3. RegistryTypeOK'
  BY <1>1 DEF RegistryTypeOK
<1>4. /\ tokensByName'[entry.name] = entry /\ tokensByIsinCode'[entry.isin] = entry
      /\ \A n \in Names \ {entry.name} : tokensByName'[n] = tokensByName[n]
      /\ \A i \in Isins \ {entry.isin} : tokensByIsinCode'[i] = tokensByIsinCode[i]
  BY <1>1, <1>2 DEF RegistryTypeOK
<1>5. ASSUME NEW n \in Names, tokensByName'[n] # NoInstrument
      PROVE  /\ tokensByName'[n].name = n
             /\ tokensByIsinCode'[tokensByName'[n].isin] = tokensByName'[n]
  <2>1. CASE n = entry.name
    BY <1>4, <2>1
  <2>2. CASE n # entry.name
    <3>1. /\ tokensByName'[n] = tokensByName[n] /\ tokensByName[n].name = n
          /\ tokensByIsinCode[tokensByName[n].isin] = tokensByName[n]
      BY <1>4, <1>5, <2>2 DEF RegistryInv, MapsAgree
    <3>2. tokensByName[n].isin \in Isins
      BY <1>1, <1>5, <3>1 DEF RegistryTypeOK, Instrument
    <3>3. tokensByName[n].isin # entry.isin
      BY <1>1, <1>5, <3>1
    <3>4. QED
      BY <1>4, <3>1, <3>2, <3>3
  <2>3. QED
    BY <2>1, <2>2
<1>6. ASSUME NEW i \in Isins, tokensByIsinCode'[i] # NoInstrument
      PROVE  /\ tokensByIsinCode'[i].isin = i
             /\ tokensByName'[tokensByIsinCode'[i].name] = tokensByIsinCode'[i]
  <2>1. CASE i = entry.isin
    BY <1>4, <2>1
  <2>2. CASE i # entry.isin
    <3>1. /\ tokensByIsinCode'[i] = tokensByIsinCode[i] /\ tokensByIsinCode[i].isin = i
          /\ tokensByName[tokensByIsinCode[i].name] = tokensByIsinCode[i]
      BY <1>4, <1>6, <2>2 DEF RegistryInv, MapsAgree
    <3>2. tokensByIsinCode[i].name \in Names
      BY <1>1, <1>6, <3>1 DEF RegistryTypeOK, Instrument
    <3>3. tokensByIsinCode[i].name # entry.name
      BY <1>1, <1>6, <3>1
    <3>4. QED
      BY <1>4, <3>1, <3>2, <3>3
  <2>3. QED
    BY <2>1, <2>2
<1>7. QED
  BY <1>3, <1>5, <1>6 DEF RegistryInv, MapsAgree

\* The entry of the ISIN is the one of its name: both go.
LEMMA UnlistKeeps ==
    ASSUME RegistryInv, NEW sender, NEW isin \in Isins, UnlistInstrument(sender, isin)
    PROVE  RegistryInv'
<1> USE TezosRegistryAssumption
<1>1. PICK entry : entry = tokensByIsinCode[isin]
  OBVIOUS
<1>2. /\ entry # NoInstrument
      /\ tokensByName' = [tokensByName EXCEPT ![entry.name] = NoInstrument]
      /\ tokensByIsinCode' = [tokensByIsinCode EXCEPT ![isin] = NoInstrument]
      /\ factories' = factories
      /\ RegistryTypeOK
  BY <1>1 DEF UnlistInstrument, RegistryInv
<1>3. entry.name \in Names /\ entry.isin = isin /\ tokensByName[entry.name] = entry
  BY <1>1, <1>2 DEF RegistryInv, RegistryTypeOK, MapsAgree, Instrument
<1>4. RegistryTypeOK'
  BY <1>2 DEF RegistryTypeOK
<1>5. /\ tokensByName'[entry.name] = NoInstrument /\ tokensByIsinCode'[isin] = NoInstrument
      /\ \A n \in Names \ {entry.name} : tokensByName'[n] = tokensByName[n]
      /\ \A i \in Isins \ {isin} : tokensByIsinCode'[i] = tokensByIsinCode[i]
  BY <1>2, <1>3 DEF RegistryTypeOK
<1>6. ASSUME NEW n \in Names, tokensByName'[n] # NoInstrument
      PROVE  /\ tokensByName'[n].name = n
             /\ tokensByIsinCode'[tokensByName'[n].isin] = tokensByName'[n]
  <2>1. /\ n # entry.name /\ tokensByName'[n] = tokensByName[n] /\ tokensByName[n].name = n
        /\ tokensByIsinCode[tokensByName[n].isin] = tokensByName[n]
    BY <1>5, <1>6 DEF RegistryInv, MapsAgree
  <2>2. tokensByName[n].isin \in Isins
    BY <1>2, <1>6, <2>1 DEF RegistryTypeOK, Instrument
  <2>3. tokensByName[n].isin # isin
    BY <1>1, <2>1
  <2>4. QED
    BY <1>5, <2>1, <2>2, <2>3
<1>7. ASSUME NEW i \in Isins, tokensByIsinCode'[i] # NoInstrument
      PROVE  /\ tokensByIsinCode'[i].isin = i
             /\ tokensByName'[tokensByIsinCode'[i].name] = tokensByIsinCode'[i]
  <2>1. /\ i # isin /\ tokensByIsinCode'[i] = tokensByIsinCode[i] /\ tokensByIsinCode[i].isin = i
        /\ tokensByName[tokensByIsinCode[i].name] = tokensByIsinCode[i]
    BY <1>5, <1>7 DEF RegistryInv, MapsAgree
  <2>2. tokensByIsinCode[i].name \in Names
    BY <1>2, <1>7, <2>1 DEF RegistryTypeOK, Instrument
  <2>3. tokensByIsinCode[i].name # entry.name
    BY <1>3, <2>1
  <2>4. QED
    BY <1>5, <2>1, <2>2, <2>3
<1>8. QED
  BY <1>4, <1>6, <1>7 DEF RegistryInv, MapsAgree

LEMMA RegistryStepKeeps ==
    ASSUME RegistryInv, RegistryStep
    PROVE  RegistryInv'
<1>1. ASSUME NEW s \in Callers, NEW t \in FactoryTypes, NEW f \in Callers, AuthorizeFactory(s, t, f)
      PROVE  RegistryInv'
  BY <1>1 DEF AuthorizeFactory, RegistryInv, RegistryTypeOK, MapsAgree, tokenMaps
<1>2. ASSUME NEW s \in Callers, NEW f \in Callers, UnAuthorizeFactory(s, f) PROVE RegistryInv'
  BY <1>2 DEF UnAuthorizeFactory, RegistryInv, RegistryTypeOK, MapsAgree, tokenMaps
<1>3. ASSUME NEW s \in Callers, NEW e \in Instrument, ListInstrument(s, e) PROVE RegistryInv'
  BY <1>3, ListKeeps
<1>4. ASSUME NEW s \in Callers, NEW i \in Isins, UnlistInstrument(s, i) PROVE RegistryInv'
  BY <1>4, UnlistKeeps
<1>5. CASE UNCHANGED registryVars
  BY <1>5 DEF registryVars, tokenMaps, RegistryInv, RegistryTypeOK, MapsAgree
<1>6. QED
  BY <1>1, <1>2, <1>3, <1>4, <1>5 DEF RegistryStep, RegistryCall

-----------------------------------------------------------------------------
(* The theorems. *)

\* The inductive invariant: that of the bond and that of the registry.
THEOREM PlatformInvariant == PlatformSpec => []PlatformInv
<1>1. PlatformInit => PlatformInv
  BY InitBond, InitRegistry DEF PlatformInit, PlatformInv
<1>2. PlatformInv /\ [PlatformNext]_platformVars => PlatformInv'
  BY StepKinds, BondStepKeeps, RegistryStepKeeps DEF PlatformInv
<1>3. QED
  BY <1>1, <1>2, PTL DEF PlatformSpec

\* Every variable keeps the type of its values: no balance and no lock of
\* the Tezos bond is ever below zero.
THEOREM PlatformTypeCorrect == PlatformSpec => []PlatformTypeOK
<1>1. PlatformInv => PlatformTypeOK
  BY DEF PlatformInv, PlatformTypeOK, BondInv, RegistryInv
<1>2. QED
  BY PlatformInvariant, <1>1, PTL

\* The lock of the Tezos bond is what its pending settlement transactions
\* will deliver.
THEOREM LocksAreExact == PlatformSpec => []LocksArePending
<1>1. PlatformInv => LocksArePending
  BY DEF PlatformInv, BondInv
<1>2. QED
  BY PlatformInvariant, <1>1, PTL

\* No subtraction of confirmPaymentReceived fails: what is pending is part
\* of the lock, and the lock part of the owner's balance.
THEOREM DeliveriesSucceed == PlatformSpec => []PendingCanDeliver
<1>1. ASSUME BondInv, NEW t \in TxIds, Pending(t)
      PROVE  Deliverable(settlementTransactionById[t].buyer, settlementTransactionById[t].quantity)
  <2> USE TezosBondAssumption
  <2>1. PICK q \in 0..InitialSupply : q = settlementTransactionById[t].quantity
    BY <1>1, RecordTypes
  <2>2. PendingQuantity \in [TxIds -> 0..InitialSupply] /\ PendingQuantity[t] = q
    BY <1>1, <2>1, PendingQuantityType DEF PendingQuantity
  <2>3. q <= Cardinality(ReservedTokens)
    BY <2>2, CountBoundsEach, ReservedIsCount
  <2>4. /\ balances[Owner].locked = Cardinality(ReservedTokens)
        /\ balances[Owner].locked <= balances[Owner].balance
        /\ balances[Owner].locked \in Nat /\ balances[Owner].balance \in Nat
    BY <1>1 DEF BondInv, LocksArePending, OwnerSells, BondTypeOK
  <2>5. QED
    BY <2>1, <2>3, <2>4 DEF Deliverable
<1>2. PlatformInv => PendingCanDeliver
  BY <1>1 DEF PlatformInv, PendingCanDeliver
<1>3. QED
  BY PlatformInvariant, <1>2, PTL

\* An entry of the Tezos registry is in both maps or in none.
THEOREM TheMapsAgree == PlatformSpec => []MapsAgree
<1>1. PlatformInv => MapsAgree
  BY DEF PlatformInv, RegistryInv
<1>2. QED
  BY PlatformInvariant, <1>1, PTL

-----------------------------------------------------------------------------
(* The registry implements the directory. *)

Entries == {tokensByIsinCode[i] : i \in Isins} \ {NoInstrument}

LEMMA DirectoryStep ==
    ASSUME RegistryInv, RegistryStep
    PROVE  [Directory!Next]_<<Entries, factories>>
<1> USE TezosRegistryAssumption
<1>0. /\ tokensByIsinCode \in [Isins -> Instrument \cup {NoInstrument}]
      /\ tokensByName \in [Names -> Instrument \cup {NoInstrument}]
      /\ factories \in [FactoryTypes -> Callers \cup {NoFactory}]
      /\ MapsAgree
  BY DEF RegistryInv, RegistryTypeOK
<1>1. ASSUME NEW s \in Callers, NEW t \in FactoryTypes, NEW f \in Callers, AuthorizeFactory(s, t, f)
      PROVE  Directory!Authorize(t, f)
  BY <1>1 DEF AuthorizeFactory, tokenMaps, Directory!Authorize
<1>2. ASSUME NEW s \in Callers, NEW f \in Callers, UnAuthorizeFactory(s, f)
      PROVE  Directory!UnAuthorize(f) \/ UNCHANGED <<Entries, factories>>
  <2> DEFINE ts == {t \in FactoryTypes : factories[t] = f}
  <2>1. Entries' = Entries
    BY <1>2 DEF UnAuthorizeFactory, tokenMaps, Entries
  <2>2. factories' = [t \in FactoryTypes |-> IF t \in ts THEN NoFactory ELSE factories[t]]
    BY <1>2 DEF UnAuthorizeFactory
  <2>3. CASE ts = {}
    <3>1. factories' = factories
      BY <1>0, <2>2, <2>3
    <3>2. QED
      BY <2>1, <3>1
  <2>4. CASE ts # {}
    BY <2>1, <2>2, <2>4 DEF Directory!UnAuthorize, Entries
  <2>5. QED
    BY <2>3, <2>4
<1>3. ASSUME NEW s \in Callers, NEW e \in Instrument, ListInstrument(s, e)
      PROVE  Directory!List(s, e) /\ e \in Directory!Entry
  <2>1. /\ Directory!Authorized(s) /\ factories' = factories
        /\ tokensByName[e.name] = NoInstrument /\ tokensByIsinCode[e.isin] = NoInstrument
        /\ tokensByIsinCode' = [tokensByIsinCode EXCEPT ![e.isin] = e]
    BY <1>3 DEF ListInstrument, Listable, SenderIsAuthorizedFactory, Directory!Authorized
  <2>2. e.name \in Names /\ e.isin \in Isins /\ e # NoInstrument
    BY DEF Instrument
  <2>3. Entries' = Entries \cup {e}
    BY <1>0, <2>1, <2>2 DEF Entries
  <2>4. ASSUME NEW other \in Entries
        PROVE  other.name # e.name /\ other.isin # e.isin
    <3>1. PICK i \in Isins : other = tokensByIsinCode[i] /\ other # NoInstrument
      BY <2>4 DEF Entries
    <3>2. other.isin = i /\ tokensByName[other.name] = other
      BY <1>0, <3>1 DEF MapsAgree
    <3>3. QED
      BY <2>1, <3>1, <3>2
  <2>5. QED
    BY <2>1, <2>3, <2>4 DEF Directory!List, Directory!Entry, Instrument, Entries
<1>4. ASSUME NEW s \in Callers, NEW i \in Isins, UnlistInstrument(s, i)
      PROVE  \E e \in Directory!Entry : Directory!UnList(s, e)
  <2>1. PICK e : e = tokensByIsinCode[i]
    OBVIOUS
  <2>2. /\ Directory!Authorized(s) /\ factories' = factories /\ e # NoInstrument
        /\ tokensByIsinCode' = [tokensByIsinCode EXCEPT ![i] = NoInstrument]
    BY <1>4, <2>1 DEF UnlistInstrument, SenderIsAuthorizedFactory, Directory!Authorized
  <2>3. e \in Instrument /\ e \in Entries
    BY <1>0, <2>1, <2>2 DEF Entries
  <2>4. \A j \in Isins : tokensByIsinCode[j] = e => j = i
    BY <1>0, <2>1, <2>2 DEF MapsAgree
  <2>5. Entries' = Entries \ {e}
    BY <1>0, <2>1, <2>2, <2>4 DEF Entries
  <2>6. QED
    BY <2>2, <2>3, <2>5 DEF Directory!UnList, Directory!Entry, Instrument, Entries
<1>5. CASE UNCHANGED registryVars
  BY <1>5 DEF registryVars, tokenMaps, Entries
<1>6. QED
  BY <1>1, <1>2, <1>3, <1>4, <1>5 DEF RegistryStep, RegistryCall, Directory!Next

\* The Tezos registry is the same directory as the Ethereum one.
THEOREM TezosRegistryIsADirectory == PlatformSpec => IsADirectory
<1>1. PlatformInit => Directory!Init
  BY DEF PlatformInit, RegistryInit, Directory!Init
<1>2. PlatformInv /\ [PlatformNext]_platformVars => [Directory!Next]_<<Entries, factories>>
  BY StepKinds, DirectoryStep DEF PlatformInv
<1>3. QED
  BY <1>1, <1>2, PlatformInvariant, PTL DEF PlatformSpec, IsADirectory, Directory!Spec, Entries
-----------------------------------------------------------------------------
(* The bond implements the ledger. *)

\* Every stage of a deal is a status of its settlement transaction.
LEMMA Stages ==
    ASSUME BondInv, NEW t \in TxIds
    PROVE  /\ Stage(t) = "open" <=> settlementTransactionById[t] = NoTransaction
           /\ Stage(t) = "agreed" <=> Pending(t)
           /\ Stage(t) = "delivered" <=> settlementTransactionById[t].status = CASH_RECEIVED
<1>1. /\ settlementTransactionById[t] = NoTransaction <=> settlementTransactionById[t].status = UNUSED
      /\ settlementTransactionById[t].status \in {UNUSED, TOKEN_LOCKED, CASH_RECEIVED, CASH_SENT}
  BY RecordTypes
<1>2. QED
  BY <1>1 DEF Stage, Pending, UNUSED, TOKEN_LOCKED, CASH_RECEIVED, CASH_SENT

\* The units promised are those the pending settlement transactions reserve.
LEMMA PromisedIsReserved == BondInv => DVP!Promised(Deal, Owner) = ReservedTokens
<1> SUFFICES ASSUME BondInv
             PROVE  DVP!Promised(Deal, Owner) = ReservedTokens
  OBVIOUS
<1>1. \A t \in TxIds : Pending(t) => settlementTransactionById[t].seller = Owner
  BY RecordTypes DEF BondInv, OwnerSells, Pending, UNUSED, TOKEN_LOCKED
<1>2. ASSUME NEW t \in TxIds, NEW n
      PROVE  (/\ Deal[t].stage = "agreed" /\ Deal[t].seller = Owner /\ n <= Deal[t].quantity)
                <=> Pending(t) /\ n <= settlementTransactionById[t].quantity
  <2>1. /\ Deal[t].stage = Stage(t)
        /\ Deal[t].seller = settlementTransactionById[t].seller
        /\ Deal[t].quantity = settlementTransactionById[t].quantity
    BY DEF Deal
  <2>2. Stage(t) = "agreed" <=> Pending(t)
    BY Stages
  <2>3. Pending(t) => settlementTransactionById[t].seller = Owner
    BY <1>1
  <2>4. QED
    BY <2>1, <2>2, <2>3, Zenon
<1>3. \A p \in TxIds \X (1..InitialSupply) : p[1] \in TxIds
  OBVIOUS
<1>4. QED
  BY <1>2, <1>3, Zenon DEF DVP!Promised, DVP!Units, ReservedTokens
LEMMA PromisedIsReservedNext ==
    BondInv' => DVP!Promised(Deal', Owner) = ReservedTokens'
<1>1. BondInv' => (DVP!Promised(Deal, Owner) = ReservedTokens)'
  BY PromisedIsReserved, PTL
<1>2. QED
  BY <1>1 DEF DVP!Promised

LEMMA SameCardinality == \A S : DVP!Cardinality(S) = Cardinality(S)
BY DEF DVP!Cardinality, Cardinality

\* A record that differs from another by its stage alone.
LEMMA NewStage ==
    ASSUME NEW d, NEW e, NEW st, NEW old, NEW new,
           d = [seller |-> st.seller, buyer |-> st.buyer, quantity |-> st.quantity,
                redeems |-> FALSE, stage |-> old],
           e = [seller |-> st.seller, buyer |-> st.buyer, quantity |-> st.quantity,
                redeems |-> FALSE, stage |-> new]
    PROVE  e = [d EXCEPT !.stage = new]
<1>1. PICK x : x = [d EXCEPT !.stage = new]
  OBVIOUS
<1>2. x = [seller |-> x.seller, buyer |-> x.buyer, quantity |-> x.quantity,
           redeems |-> x.redeems, stage |-> x.stage]
  BY <1>1
<1>3. /\ x.seller = st.seller /\ x.buyer = st.buyer /\ x.quantity = st.quantity
      /\ x.redeems = FALSE /\ x.stage = new
  BY <1>1
<1>4. QED
  BY <1>1, <1>2, <1>3

LEMMA SameDeals ==
    ASSUME UNCHANGED <<Holding, Deal>>
    PROVE  UNCHANGED DVP!dvpVars
BY DEF DVP!dvpVars

LEMMA InitiateAgrees ==
    ASSUME BondInv, BondInv', NEW sender \in Addresses, NEW t \in TxIds, NEW seller \in Addresses,
           NEW buyer \in Addresses, NEW q \in Quantities,
           InitiateSubscription(sender, t, seller, buyer, q)
    PROVE  DVP!Next
<1> USE TezosBondAssumption
<1> DEFINE new == [seller |-> seller, buyer |-> buyer, quantity |-> q, status |-> TOKEN_LOCKED]
<1>1. /\ exists /\ seller = Owner /\ settlementTransactionById[t] = NoTransaction
      /\ balances' = [balances EXCEPT ![Owner].locked = @ + q]
      /\ settlementTransactionById' = [settlementTransactionById EXCEPT ![t] = new]
      /\ exists' = exists
      /\ BondTypeOK
  BY DEF InitiateSubscription, Loaded, BondInv
<1>2. /\ settlementTransactionById'[t] = new
      /\ \A u \in TxIds \ {t} : settlementTransactionById'[u] = settlementTransactionById[u]
      /\ \A a \in Addresses : balances'[a].balance = balances[a].balance
  BY <1>1 DEF BondTypeOK
<1>3. /\ new.seller = Owner /\ new.buyer = buyer /\ new.quantity = q /\ new.status = TOKEN_LOCKED
      /\ new # NoTransaction
  BY <1>1 DEF NoTransaction, UNUSED, TOKEN_LOCKED
<1> HIDE DEF new
<1>4. q \in 0..InitialSupply
  BY <1>2, <1>3 DEF BondInv, OwnerSells
<1>5. Holding' = Holding
  BY <1>1, <1>2 DEF Holding, newInitialBalances
<1>6. Stage(t)' = "agreed" /\ \A u \in TxIds \ {t} : Stage(u)' = Stage(u)
  BY <1>2, <1>3 DEF Stage, UNUSED, TOKEN_LOCKED, CASH_RECEIVED, CASH_SENT
<1>7. Deal'[t] = [seller |-> Owner, buyer |-> buyer, quantity |-> q, redeems |-> FALSE,
                  stage |-> "agreed"]
  BY <1>2, <1>3, <1>6 DEF Deal
<1>8. Deal' = [d \in TxIds |-> IF d \in {t} THEN Deal'[d] ELSE Deal[d]]
  <2>1. Deal' = [d \in TxIds |-> Deal'[d]]
    BY DEF Deal
  <2>2. \A d \in TxIds \ {t} : Deal'[d] = Deal[d]
    BY <1>2, <1>6 DEF Deal
  <2>3. QED
    BY <2>1, <2>2
<1>9. Deal[t] = DVP!NoDeal
  <2>1. Stage(t) = "open"
    BY <1>1, Stages
  <2>2. /\ NoTransaction.seller = NoAddress /\ NoTransaction.buyer = NoAddress
        /\ NoTransaction.quantity = 0
    BY DEF NoTransaction
  <2>3. QED
    BY <1>1, <2>1, <2>2 DEF Deal, DVP!NoDeal
<1>10. DVP!Covered(Deal', Owner)
  <2>1. DVP!Promised(Deal', Owner) = ReservedTokens'
    BY PromisedIsReservedNext
  <2>2. /\ Cardinality(ReservedTokens') = balances'[Owner].locked
        /\ balances'[Owner].locked <= balances'[Owner].balance
    BY DEF BondInv, LocksArePending, OwnerSells
  <2>3. Holding[Owner] = balances'[Owner].balance
    BY <1>1, <1>2 DEF Holding
  <2>4. QED
    BY <2>1, <2>2, <2>3, SameCardinality DEF DVP!Covered
<1>11. Deal'[t] \in DVP!Terms
  BY <1>4, <1>7 DEF DVP!Terms
<1>12. DVP!Agree({t}, FALSE)
  <2>1. Deal'[t].stage = "agreed" /\ Deal'[t].redeems = FALSE /\ Deal'[t].seller = Owner
    BY <1>7
  <2>2. QED
    BY <1>5, <1>8, <1>9, <1>10, <1>11, <2>1 DEF DVP!Agree
<1>13. QED
  BY <1>12 DEF DVP!Next

LEMMA ReceivedDelivers ==
    ASSUME BondInv, NEW sender \in Addresses, NEW t \in TxIds, ConfirmPaymentReceived(sender, t)
    PROVE  DVP!Deliver(t)
<1> USE TezosBondAssumption
<1>1. PICK st : st = settlementTransactionById[t]
  OBVIOUS
<1>2. /\ exists /\ st.status = TOKEN_LOCKED
      /\ balances' = Delivered(st.buyer, st.quantity)
      /\ settlementTransactionById' = [settlementTransactionById EXCEPT ![t].status = CASH_RECEIVED]
      /\ exists' = exists
      /\ BondTypeOK
  BY <1>1 DEF ConfirmPaymentReceived, SetStatus, Loaded, BondInv
<1>3. /\ st \in SettlementTransaction /\ Pending(t) /\ st.buyer \in Addresses
      /\ st.quantity \in Nat /\ st.seller = Owner
  <2>1. Pending(t) /\ st # NoTransaction
    BY <1>1, <1>2, RecordTypes DEF Pending, UNUSED, TOKEN_LOCKED
  <2>2. QED
    BY <1>1, <2>1, RecordTypes DEF BondInv, OwnerSells
<1>4. PICK b \in Addresses : b = st.buyer
  BY <1>3
<1>5. PICK q \in Nat : q = st.quantity
  BY <1>3
<1>6. /\ balances'[Owner].balance = balances[Owner].balance + (IF b = Owner THEN q ELSE 0) - q
      /\ \A a \in Addresses \ {Owner} :
            balances'[a].balance = balances[a].balance + (IF a = b THEN q ELSE 0)
  BY <1>2, <1>4, <1>5, DeliveredIs
<1>7. \A a \in Addresses : balances[a].balance \in Nat
  BY <1>2 DEF BondTypeOK
<1>8. /\ Holding = [a \in Addresses |-> balances[a].balance]
      /\ Holding' = [a \in Addresses |-> balances'[a].balance]
  BY <1>2 DEF Holding
<1>9. PICK taken : taken = [Holding EXCEPT ![Owner] = @ - q]
  OBVIOUS
<1>10. /\ DOMAIN taken = Addresses
       /\ taken = [a \in Addresses |-> IF a = Owner THEN Holding[a] - q ELSE Holding[a]]
  BY <1>8, <1>9
<1>11. Holding' = [taken EXCEPT ![b] = @ + q]
  <2>1. \A a \in Addresses :
           balances'[a].balance = (IF a = Owner THEN balances[a].balance - q ELSE balances[a].balance)
                                    + (IF a = b THEN q ELSE 0)
    BY <1>6, <1>7
  <2>2. \A a \in Addresses : taken[a] = IF a = Owner THEN balances[a].balance - q
                                                    ELSE balances[a].balance
    BY <1>8, <1>10
  <2>3. \A a \in Addresses : taken[a] \in Int
    BY <1>7, <2>2
  <2>4. \A a \in Addresses :
           balances'[a].balance = IF a = b THEN taken[a] + q ELSE taken[a]
    BY <2>1, <2>2, <2>3
  <2>5. QED
    BY <1>8, <1>10, <2>4
<1>12. /\ Deal[t].stage = "agreed" /\ Deal[t].seller = Owner /\ Deal[t].buyer = b
       /\ Deal[t].quantity = q /\ Deal[t].redeems = FALSE
  BY <1>1, <1>3, <1>4, <1>5, Stages DEF Deal
<1>13. Deal' = [Deal EXCEPT ![t].stage = "delivered"]
  <2>1. PICK new : new = [st EXCEPT !.status = CASH_RECEIVED]
    OBVIOUS
  <2>2. new.status = CASH_RECEIVED /\ new.seller = st.seller /\ new.buyer = st.buyer
        /\ new.quantity = st.quantity
    BY <1>3, <2>1 DEF SettlementTransaction
  <2>3. /\ settlementTransactionById'[t] = new
        /\ \A u \in TxIds \ {t} : settlementTransactionById'[u] = settlementTransactionById[u]
    BY <1>1, <1>2, <2>1 DEF BondTypeOK
  <2>4. Stage(t)' = "delivered" /\ \A u \in TxIds \ {t} : Stage(u)' = Stage(u)
    BY <2>2, <2>3 DEF Stage, UNUSED, TOKEN_LOCKED, CASH_RECEIVED, CASH_SENT
  <2>5. Deal'[t] = [Deal[t] EXCEPT !.stage = "delivered"]
    <3>1. Deal[t] = [seller |-> st.seller, buyer |-> st.buyer, quantity |-> st.quantity,
                     redeems |-> FALSE, stage |-> Stage(t)]
      BY <1>1 DEF Deal
    <3>2. Deal'[t] = [seller |-> st.seller, buyer |-> st.buyer, quantity |-> st.quantity,
                      redeems |-> FALSE, stage |-> "delivered"]
      BY <2>2, <2>3, <2>4 DEF Deal
    <3>3. PICK d, e : d = Deal[t] /\ e = Deal'[t]
      OBVIOUS
    <3>4. e = [d EXCEPT !.stage = "delivered"]
      BY <3>1, <3>2, <3>3, NewStage
    <3>5. QED
      BY <3>3, <3>4
  <2>6. \A u \in TxIds \ {t} : Deal'[u] = Deal[u]
    BY <2>3, <2>4 DEF Deal
  <2>7. Deal' = [u \in TxIds |-> Deal'[u]] /\ Deal = [u \in TxIds |-> Deal[u]]
    BY DEF Deal
  <2>8. QED
    BY <2>5, <2>6, <2>7
<1>14. QED
  BY <1>9, <1>11, <1>12, <1>13 DEF DVP!Deliver
LEMMA TransferredPays ==
    ASSUME BondInv, NEW sender \in Addresses, NEW t \in TxIds, ConfirmPaymentTransferred(sender, t)
    PROVE  DVP!Pay(t)
<1>1. PICK st : st = settlementTransactionById[t]
  OBVIOUS
<1>2. /\ st.status = CASH_RECEIVED
      /\ settlementTransactionById' = [settlementTransactionById EXCEPT ![t].status = CASH_SENT]
      /\ UNCHANGED <<exists, balances>>
      /\ BondTypeOK
  BY <1>1 DEF ConfirmPaymentTransferred, SetStatus, BondInv
<1>3. st \in SettlementTransaction
  BY <1>1, <1>2, RecordTypes DEF UNUSED, CASH_RECEIVED
<1>4. PICK new : new = [st EXCEPT !.status = CASH_SENT]
  OBVIOUS
<1>5. new.status = CASH_SENT /\ new.seller = st.seller /\ new.buyer = st.buyer
      /\ new.quantity = st.quantity
  BY <1>3, <1>4 DEF SettlementTransaction
<1>6. /\ settlementTransactionById'[t] = new
      /\ \A u \in TxIds \ {t} : settlementTransactionById'[u] = settlementTransactionById[u]
  BY <1>1, <1>2, <1>4 DEF BondTypeOK
<1>7. Stage(t) = "delivered" /\ Stage(t)' = "paid" /\ \A u \in TxIds \ {t} : Stage(u)' = Stage(u)
  BY <1>1, <1>2, <1>5, <1>6 DEF Stage, UNUSED, TOKEN_LOCKED, CASH_RECEIVED, CASH_SENT
<1>8. Deal' = [Deal EXCEPT ![t].stage = "paid"]
  <2>1. Deal[t] = [seller |-> st.seller, buyer |-> st.buyer, quantity |-> st.quantity,
                   redeems |-> FALSE, stage |-> "delivered"]
    BY <1>1, <1>7 DEF Deal
  <2>2. Deal'[t] = [seller |-> st.seller, buyer |-> st.buyer, quantity |-> st.quantity,
                    redeems |-> FALSE, stage |-> "paid"]
    BY <1>5, <1>6, <1>7 DEF Deal
  <2>3. Deal'[t] = [Deal[t] EXCEPT !.stage = "paid"]
    <3>1. PICK d, e : d = Deal[t] /\ e = Deal'[t]
      OBVIOUS
    <3>2. e = [d EXCEPT !.stage = "paid"]
      BY <2>1, <2>2, <3>1, NewStage
    <3>3. QED
      BY <3>1, <3>2
  <2>4. \A u \in TxIds \ {t} : Deal'[u] = Deal[u]
    BY <1>6, <1>7 DEF Deal
  <2>5. Deal' = [u \in TxIds |-> Deal'[u]] /\ Deal = [u \in TxIds |-> Deal[u]]
    BY DEF Deal
  <2>6. QED
    BY <2>3, <2>4, <2>5
<1>9. Holding' = Holding
  BY <1>2 DEF Holding, newInitialBalances
<1>10. Deal[t].stage = "delivered"
  BY <1>7 DEF Deal
<1>11. QED
  BY <1>8, <1>9, <1>10 DEF DVP!Pay

LEMMA LedgerStep ==
    ASSUME BondInv, BondInv', BondStep
    PROVE  [DVP!Next]_DVP!dvpVars
<1>1. ASSUME UNCHANGED tokenVars, exists' = exists
      PROVE  UNCHANGED DVP!dvpVars
  BY <1>1, SameDeals DEF tokenVars, Holding, newInitialBalances, Deal, Stage
<1>2. ASSUME NEW s \in Addresses, NEW t \in TxIds, NEW a \in Addresses, NEW b \in Addresses,
             NEW q \in Quantities, InitiateSubscription(s, t, a, b, q)
      PROVE  DVP!Next
  BY <1>2, InitiateAgrees
<1>3. ASSUME NEW s \in Addresses, NEW t \in TxIds, ConfirmPaymentReceived(s, t) PROVE DVP!Next
  BY <1>3, ReceivedDelivers DEF DVP!Next
<1>4. ASSUME NEW s \in Addresses, NEW t \in TxIds, ConfirmPaymentTransferred(s, t) PROVE DVP!Next
  BY <1>4, TransferredPays DEF DVP!Next
<1>5. ASSUME NEW s \in Addresses, NEW o \in Addresses, NEW r \in Roles,
             AuthorizeOperator(s, o, r) \/ RevokeOperatorAuthorization(s, o, r)
      PROVE  UNCHANGED DVP!dvpVars
  BY <1>1, <1>5 DEF AuthorizeOperator, RevokeOperatorAuthorization
<1>6. ASSUME NEW e \in SUBSET Lambdas, Originate(e) PROVE UNCHANGED DVP!dvpVars
  <2>1. /\ ~exists /\ exists' /\ balances' = newInitialBalances
        /\ settlementTransactionById' = settlementTransactionById
    BY <1>6 DEF Originate
  <2>2. Holding' = Holding
    BY <2>1 DEF Holding, newInitialBalances
  <2>3. Deal' = Deal
    BY <2>1 DEF Deal, Stage
  <2>4. QED
    BY <2>2, <2>3, SameDeals
<1>7. ASSUME NEW e \in SUBSET Lambdas, Upgraded(e) PROVE UNCHANGED DVP!dvpVars
  BY <1>1, <1>7 DEF Upgraded
<1>8. CASE UNCHANGED bondVars
  BY <1>1, <1>8 DEF bondVars
<1>9. QED
  BY <1>2, <1>3, <1>4, <1>5, <1>6, <1>7, <1>8 DEF BondStep, BondCall

\* The Tezos bond is a delivery-versus-payment ledger, from before it exists.
THEOREM TezosBondIsDeliveryVersusPayment == PlatformSpec => BondIsDeliveryVersusPayment
<1>1. PlatformInit => DVP!Init
  <2> SUFFICES ASSUME PlatformInit PROVE DVP!Init
    OBVIOUS
  <2>1. exists = FALSE /\ settlementTransactionById = [t \in TxIds |-> NoTransaction]
    BY DEF PlatformInit, BondInit
  <2>2. Holding = [h \in Addresses |-> IF h = Owner THEN InitialSupply ELSE 0]
    BY <2>1 DEF Holding, newInitialBalances
  <2>3. Deal = [d \in TxIds |-> DVP!NoDeal]
    <3>1. /\ NoTransaction.seller = NoAddress /\ NoTransaction.buyer = NoAddress
          /\ NoTransaction.quantity = 0 /\ NoTransaction.status = UNUSED
      BY DEF NoTransaction
    <3>2. \A d \in TxIds : settlementTransactionById[d] = NoTransaction
      BY <2>1
    <3>3. \A d \in TxIds : Stage(d) = "open"
      BY <3>1, <3>2 DEF Stage, UNUSED, TOKEN_LOCKED, CASH_RECEIVED, CASH_SENT
    <3>4. QED
      BY <3>1, <3>2, <3>3 DEF Deal, DVP!NoDeal
  <2>4. QED
    BY <2>2, <2>3 DEF DVP!Init
<1>2. PlatformInv /\ PlatformInv' /\ [PlatformNext]_platformVars => [DVP!Next]_DVP!dvpVars
  BY StepKinds, LedgerStep DEF PlatformInv
<1>3. QED
  BY <1>1, <1>2, PlatformInvariant, PTL DEF PlatformSpec, BondIsDeliveryVersusPayment, DVP!Spec
=============================================================================
