-------------------------- MODULE ForgeBondProofs --------------------------
(***************************************************************************)
(* Proofs about the bond contract, for every set of accounts, ids and      *)
(* quantities, every supply and every width of the integers: first under   *)
(* arbitrary callers (ForgeBond), then under the oracles and nobody else   *)
(* (OracleDrivenBond).                                                     *)
(*                                                                         *)
(* None of the three facts of LedgerInv is inductive alone.  That balances *)
(* stay below MaxUint follows from the conservation of the supply; that a  *)
(* burn or a transfer does not go below zero from the lock being within    *)
(* the balance; and the conservation is a count of pairs below MaxUint.    *)
(***************************************************************************)
EXTENDS OracleDrivenBond, TokenCounts

LedgerInv ==
    /\ TypeOK
    /\ LockedWithinBalance
    /\ SupplyConserved

-----------------------------------------------------------------------------
(* Lemmas about the balance library. *)

LEMMA HeldIsCount == HeldTokens = Count(Accounts, balance, MaxUint)
BY DEF HeldTokens, Count, Tokens

\* insert keeps the keys and adds only the account.
LEMMA InsertType ==
    ASSUME keys \in Seq(Accounts), NEW a \in Accounts
    PROVE  Insert(a) \in Seq(Accounts)
BY DEF Insert

\* A transfer of what an account holds creates and loses nothing, whoever
\* the receiver is, and overflows nobody.
LEMMA TransferConserves ==
    ASSUME balance \in [Accounts -> 0..MaxUint],
           Cardinality(Count(Accounts, balance, MaxUint)) <= MaxUint,
           NEW from \in Accounts, NEW to \in Accounts, NEW q \in Nat, q <= balance[from]
    PROVE  /\ TransferLocked(from, to, q) \in [Accounts -> 0..MaxUint]
           /\ Cardinality(Count(Accounts, TransferLocked(from, to, q), MaxUint))
                  = Cardinality(Count(Accounts, balance, MaxUint))
<1> DEFINE total(f) == Cardinality(Count(Accounts, f, MaxUint))
           debited == [balance EXCEPT ![from] = balance[from] - q]
           new == [debited EXCEPT ![to] = debited[to] + q]
<1>1. IsFiniteSet(Accounts) /\ MaxUint \in Nat
  BY AccountsAssumption, SupplyAssumption
<1>2. balance[from] \in Nat /\ balance[from] - q \in 0..MaxUint
  BY <1>1
<1>3. /\ debited \in [Accounts -> 0..MaxUint]
      /\ debited[from] = balance[from] - q
      /\ \A r \in Accounts \ {from} : debited[r] = balance[r]
  BY <1>2
<1> HIDE DEF debited
<1>4. total(balance) \in Nat /\ total(debited) \in Nat
  BY <1>1, CountFinite
<1>5. total(debited) = total(balance) - q
  <2>1. total(debited) = total(balance) - balance[from] + debited[from]
    BY <1>1, <1>3, CountUpdate
  <2> HIDE DEF total
  <2>2. QED
    BY <2>1, <1>2, <1>3, <1>4
<1>6. debited[to] \in Nat /\ debited[to] + q \in 0..MaxUint
  <2>1. debited[to] \in Nat
    BY <1>1, <1>3
  <2>2. debited[to] <= total(debited)
    BY <1>1, <1>3, CountBoundsEach
  <2>3. total(balance) <= MaxUint
    OBVIOUS
  <2> HIDE DEF total
  <2>4. QED
    BY <1>1, <1>4, <1>5, <2>1, <2>2, <2>3
<1>7. /\ new \in [Accounts -> 0..MaxUint]
      /\ new[to] = debited[to] + q
      /\ \A r \in Accounts \ {to} : new[r] = debited[r]
  BY <1>3, <1>6
<1>8. total(new) = total(balance)
  <2> HIDE DEF new
  <2>1. total(new) = total(debited) - debited[to] + new[to]
    BY <1>1, <1>3, <1>7, CountUpdate
  <2> HIDE DEF total
  <2>2. QED
    BY <2>1, <1>4, <1>5, <1>6, <1>7
<1>9. TransferLocked(from, to, q) = new
  BY DEF TransferLocked, debited
<1>10. QED
  BY <1>7, <1>8, <1>9

\* Burning what an account holds removes exactly that.
LEMMA BurnConserves ==
    ASSUME NEW bal \in [Accounts -> 0..MaxUint], NEW a \in Accounts,
           NEW q \in Nat, q <= bal[a]
    PROVE  /\ Burnt(bal, a, q) \in [Accounts -> 0..MaxUint]
           /\ Cardinality(Count(Accounts, Burnt(bal, a, q), MaxUint))
                  = Cardinality(Count(Accounts, bal, MaxUint)) - q
<1> DEFINE total(f) == Cardinality(Count(Accounts, f, MaxUint))
           new == [bal EXCEPT ![a] = bal[a] - q]
<1>1. IsFiniteSet(Accounts) /\ MaxUint \in Nat
  BY AccountsAssumption, SupplyAssumption
<1>2. bal[a] \in Nat /\ bal[a] - q \in 0..MaxUint
  BY <1>1
<1>3. /\ new \in [Accounts -> 0..MaxUint]
      /\ new[a] = bal[a] - q
      /\ \A r \in Accounts \ {a} : new[r] = bal[r]
  BY <1>2
<1>4. total(new) = total(bal) - q
  <2> HIDE DEF new
  <2>1. total(new) = total(bal) - bal[a] + new[a]
    BY <1>1, <1>3, CountUpdate
  <2>2. total(bal) \in Nat
    BY <1>1, CountFinite
  <2> HIDE DEF total
  <2>3. QED
    BY <1>2, <1>3, <2>1, <2>2
<1>5. Burnt(bal, a, q) = new
  BY DEF Burnt
<1>6. QED
  BY <1>3, <1>4, <1>5

-----------------------------------------------------------------------------
(* Lemmas about the settlement repository and the workflow. *)

\* A settlement transaction that is pending, or waits for its payment to be
\* transferred, has its terms.
LEMMA CreatedHasTerms ==
    ASSUME TypeOK, NEW t \in TxIds, settlementTransactionById[t].status # NOT_CREATED
    PROVE  settlementTransactionById[t] \in SettlementTransaction
BY DEF TypeOK, EmptySlot

LEMMA SetStatusType ==
    ASSUME TypeOK, NEW t \in TxIds,
           settlementTransactionById[t].status \in {TOKEN_LOCKED, CASH_RECEIVED},
           NEW s \in {CASH_RECEIVED, CASH_TRANSFERRED, CANCELLED},
           SetStatus(t, s)
    PROVE  settlementTransactionById' \in [TxIds -> SettlementTransaction \cup {EmptySlot}]
<1>1. settlementTransactionById[t] \in SettlementTransaction
  BY CreatedHasTerms DEF TOKEN_LOCKED, CASH_RECEIVED, NOT_CREATED
<1>2. [settlementTransactionById[t] EXCEPT !.status = s] \in SettlementTransaction
  BY <1>1 DEF SettlementTransaction
<1>3. QED
  BY <1>2 DEF SetStatus, TypeOK

LEMMA QuantitiesAreNat == \A q \in Quantities : q \in Nat /\ q <= MaxUint
BY SupplyAssumption

\* What a subscription and a trade do to the locks and the repository.
LEMMA CreateAndLockKeeps ==
    ASSUME TypeOK, LockedWithinBalance,
           NEW p \in PartialSettlementTransaction, CreateAndLock(p)
    PROVE  /\ locked' \in [Accounts -> 0..MaxUint]
           /\ \A a \in Accounts : locked'[a] <= balance[a]
           /\ settlementTransactionById' \in [TxIds -> SettlementTransaction \cup {EmptySlot}]
<1>1. p.sender \in Accounts /\ p.quantity \in Nat /\ p.txId \in TxIds
  BY QuantitiesAreNat DEF PartialSettlementTransaction
<1>2. locked' = [locked EXCEPT ![p.sender] = @ + p.quantity]
  BY DEF CreateAndLock, Lock
<1>3. balance[p.sender] - locked[p.sender] >= p.quantity
  BY DEF CreateAndLock, CanLock, Disposable
<1>4. balance[p.sender] \in 0..MaxUint /\ locked[p.sender] \in 0..MaxUint /\ MaxUint \in Nat
  BY <1>1, SupplyAssumption DEF TypeOK
<1>5. /\ locked[p.sender] + p.quantity \in 0..MaxUint
      /\ locked[p.sender] + p.quantity <= balance[p.sender]
  BY <1>1, <1>3, <1>4
<1>6. locked' \in [Accounts -> 0..MaxUint]
  BY <1>2, <1>5 DEF TypeOK
<1>7. \A a \in Accounts : locked'[a] <= balance[a]
  BY <1>2, <1>5 DEF TypeOK, LockedWithinBalance
<1>8. WithStatus(p, TOKEN_LOCKED) \in SettlementTransaction
  BY DEF WithStatus, SettlementTransaction, PartialSettlementTransaction
<1>9. settlementTransactionById' \in [TxIds -> SettlementTransaction \cup {EmptySlot}]
  BY <1>1, <1>8 DEF CreateAndLock, TypeOK
<1>10. QED
  BY <1>6, <1>7, <1>9

\* The tokens a list delivers are finitely many; an account that sends none
\* of them delivers none.
LEMMA DeliveredFinite ==
    ASSUME NEW ps, NEW a
    PROVE  /\ Cardinality(TokensDeliveredBy(ps, a)) \in Nat
           /\ (\A i \in DOMAIN ps : ps[i].sender # a)
                  => Cardinality(TokensDeliveredBy(ps, a)) = 0
<1>1. IsFiniteSet(TxIds \X Tokens)
  <2>1. IsFiniteSet(TxIds) /\ IsFiniteSet(Tokens)
    BY IdsAssumption, SupplyAssumption, FS_Interval DEF Tokens
  <2>2. QED
    BY <2>1, FS_Product, Zenon
<1>2. TokensDeliveredBy(ps, a) \in SUBSET (TxIds \X Tokens)
  BY DEF TokensDeliveredBy
<1>3. IsFiniteSet(TokensDeliveredBy(ps, a))
  BY <1>1, <1>2, FS_Subset, Zenon
<1>4. Cardinality(TokensDeliveredBy(ps, a)) \in Nat
  BY <1>3, FS_CardinalityType, Zenon
<1>5. ASSUME \A i \in DOMAIN ps : ps[i].sender # a
      PROVE  Cardinality(TokensDeliveredBy(ps, a)) = 0
  <2>1. TokensDeliveredBy(ps, a) = {}
    BY <1>5 DEF TokensDeliveredBy
  <2>2. QED
    BY <2>1, FS_EmptySet, Zenon
<1>6. QED
  BY <1>4, <1>5

LEMMA RedemptionKeeps ==
    ASSUME TypeOK, LockedWithinBalance, NEW caller \in Addresses,
           NEW ps \in RedemptionCalls, InitiateRedemption(caller, ps)
    PROVE  /\ locked' \in [Accounts -> 0..MaxUint]
           /\ \A a \in Accounts : locked'[a] <= balance[a]
           /\ settlementTransactionById' \in [TxIds -> SettlementTransaction \cup {EmptySlot}]
           /\ ps[1].operationId \in OperationIds
<1> PICK n \in 0..MaxRedemption : ps \in [1..n -> PartialSettlementTransaction]
  BY DEF RedemptionCalls
<1>1. locked' = [a \in Accounts |-> locked[a] + Cardinality(TokensDeliveredBy(ps, a))]
  BY DEF InitiateRedemption
<1>2. ASSUME NEW a \in Accounts
      PROVE  locked'[a] \in Nat /\ locked'[a] <= balance[a]
  <2>1. Cardinality(TokensDeliveredBy(ps, a)) \in Nat
    BY DeliveredFinite
  <2>2. locked[a] \in Nat /\ balance[a] \in Nat /\ locked[a] <= balance[a]
    BY SupplyAssumption DEF TypeOK, LockedWithinBalance
  <2>3. locked'[a] = locked[a] + Cardinality(TokensDeliveredBy(ps, a))
    BY <1>1
  <2>4. CASE \E i \in DOMAIN ps : ps[i].sender = a
    <3>1. locked'[a] <= balance[a]
      BY <2>4 DEF InitiateRedemption
    <3>2. QED
      BY <2>1, <2>2, <2>3, <3>1
  <2>5. CASE \A i \in DOMAIN ps : ps[i].sender # a
    <3>1. Cardinality(TokensDeliveredBy(ps, a)) = 0
      BY <2>5, DeliveredFinite
    <3>2. QED
      BY <2>2, <2>3, <3>1
  <2>6. QED
    BY <2>4, <2>5
<1>3. locked' \in [Accounts -> 0..MaxUint]
  <2>1. ASSUME NEW a \in Accounts PROVE locked'[a] \in 0..MaxUint
    <3>1. balance[a] \in 0..MaxUint /\ MaxUint \in Nat
      BY SupplyAssumption DEF TypeOK
    <3>2. QED
      BY <1>2, <3>1
  <2>2. QED
    BY <1>1, <2>1
<1>4. \A i \in DOMAIN ps : WithStatus(ps[i], TOKEN_LOCKED) \in SettlementTransaction
  BY DEF WithStatus, SettlementTransaction, PartialSettlementTransaction
<1>5. settlementTransactionById' \in [TxIds -> SettlementTransaction \cup {EmptySlot}]
  <2>1. ASSUME NEW t \in TxIds
        PROVE  settlementTransactionById'[t] \in SettlementTransaction \cup {EmptySlot}
    <3>1. CASE \E i \in DOMAIN ps : ps[i].txId = t
      <4>1. (CHOOSE i \in DOMAIN ps : ps[i].txId = t) \in DOMAIN ps
        BY <3>1
      <4>2. settlementTransactionById'[t]
                = WithStatus(ps[CHOOSE i \in DOMAIN ps : ps[i].txId = t], TOKEN_LOCKED)
        BY <3>1 DEF InitiateRedemption
      <4>3. QED
        BY <1>4, <4>1, <4>2
    <3>2. CASE ~ \E i \in DOMAIN ps : ps[i].txId = t
      BY <3>2 DEF InitiateRedemption, TypeOK
    <3>3. QED
      BY <3>1, <3>2
  <2>2. \E f : settlementTransactionById' = [t \in TxIds |-> f[t]]
    <3> DEFINE g == [t \in TxIds |->
               IF \E i \in DOMAIN ps : ps[i].txId = t
               THEN WithStatus(ps[CHOOSE i \in DOMAIN ps : ps[i].txId = t],
                               TOKEN_LOCKED)
               ELSE settlementTransactionById[t]]
    <3>1. settlementTransactionById' = g
      BY DEF InitiateRedemption
    <3>2. g = [t \in TxIds |-> g[t]]
      OBVIOUS
    <3>3. QED
      BY <3>1, <3>2
  <2>3. QED
    BY <2>1, <2>2
<1>6. ps[1].operationId \in OperationIds
  <2>1. n \in Nat /\ n # 0
    <3>1. n \in Nat
      BY IdsAssumption
    <3>2. CASE n = 0
      <4>1. ps = <<>>
        BY <3>2
      <4>2. QED
        BY <4>1 DEF InitiateRedemption
    <3>3. QED
      BY <3>1, <3>2
  <2>2. ps[1] \in PartialSettlementTransaction
    BY <2>1
  <2>3. QED
    BY <2>2 DEF PartialSettlementTransaction
<1>7. QED
  BY <1>2, <1>3, <1>5, <1>6

-----------------------------------------------------------------------------
(* The steps that move or destroy tokens. *)

LEMMA BurnedInRange ==
    ASSUME burned \in Nat, SupplyConserved
    PROVE  burned \in 0..InitialSupply
<1>1. Cardinality(HeldTokens) \in Nat
  BY AccountsAssumption, SupplyAssumption, CountFinite, HeldIsCount
<1>2. InitialSupply \in Nat
  BY SupplyAssumption
<1>3. QED
  BY <1>1, <1>2 DEF SupplyConserved

LEMMA HeldWithinSupply ==
    ASSUME TypeOK, SupplyConserved
    PROVE  /\ Cardinality(Count(Accounts, balance, MaxUint)) \in Nat
           /\ Cardinality(Count(Accounts, balance, MaxUint)) <= MaxUint
<1>1. Cardinality(Count(Accounts, balance, MaxUint)) \in Nat
  BY AccountsAssumption, SupplyAssumption, CountFinite
<1>2. InitialSupply \in Nat /\ MaxUint \in Nat /\ InitialSupply <= MaxUint /\ burned \in Nat
  BY SupplyAssumption DEF TypeOK
<1>3. Cardinality(Count(Accounts, balance, MaxUint)) + burned = InitialSupply
  BY HeldIsCount DEF SupplyConserved
<1>4. QED
  BY <1>1, <1>2, <1>3

LEMMA UnlockKeeps ==
    ASSUME TypeOK, NEW a \in Accounts, NEW q \in Nat, q <= locked[a],
           locked' = Unlock(a, q)
    PROVE  /\ locked' \in [Accounts -> 0..MaxUint]
           /\ locked'[a] = locked[a] - q
           /\ \A b \in Accounts \ {a} : locked'[b] = locked[b]
<1>1. locked[a] - q \in 0..MaxUint
  BY SupplyAssumption DEF TypeOK
<1>2. QED
  BY <1>1 DEF Unlock, TypeOK

LEMMA ConfirmPaymentReceivedKeeps ==
    ASSUME LedgerInv, NEW caller \in Addresses, NEW t \in TxIds,
           ConfirmPaymentReceived(caller, t)
    PROVE  LedgerInv'
<1> DEFINE st == settlementTransactionById[t]
           from == st.sender
           to == st.receiver
           q == st.quantity
           delivered == TransferLocked(from, to, q)
           total(f) == Cardinality(Count(Accounts, f, MaxUint))
<1> USE DEF LedgerInv
<1>1. st.status = TOKEN_LOCKED /\ CanUnlock(from, q)
  BY DEF ConfirmPaymentReceived, CanDeliver
<1>2. st \in SettlementTransaction
  BY <1>1, CreatedHasTerms DEF TOKEN_LOCKED, NOT_CREATED
<1>3. from \in Accounts /\ to \in Accounts /\ q \in Nat
  BY <1>2, QuantitiesAreNat DEF SettlementTransaction
<1>4. settlementTransactionById' \in [TxIds -> SettlementTransaction \cup {EmptySlot}]
  BY <1>1, SetStatusType DEF ConfirmPaymentReceived
<1>5. /\ locked' = Unlock(from, q)
      /\ keys' = Insert(to)
      /\ OperationType(t) = REDEMPTION =>
             balance' = Burnt(delivered, to, q) /\ burned' = burned + q
      /\ OperationType(t) # REDEMPTION => balance' = delivered /\ burned' = burned
  BY DEF ConfirmPaymentReceived, Delivered
<1> HIDE DEF st, from, to, q
<1>6. \A a \in Accounts :
         balance[a] \in Nat /\ locked[a] \in Nat /\ locked[a] <= balance[a]
  BY SupplyAssumption DEF TypeOK, LockedWithinBalance
<1>7. q <= balance[from] /\ q <= locked[from]
  BY <1>1, <1>3, <1>6 DEF CanUnlock
<1>8. /\ locked' \in [Accounts -> 0..MaxUint]
      /\ locked'[from] = locked[from] - q
      /\ \A b \in Accounts \ {from} : locked'[b] = locked[b]
  BY <1>3, <1>5, <1>7, UnlockKeeps
<1>9. delivered \in [Accounts -> 0..MaxUint] /\ total(delivered) = total(balance)
  BY <1>3, <1>7, HeldWithinSupply, TransferConserves DEF TypeOK
<1>10. /\ delivered[to] \in Nat /\ q <= delivered[to]
       /\ \A a \in Accounts :
             delivered[a] >= (IF a = to THEN q ELSE 0)
                             + (IF a = from THEN balance[a] - q ELSE balance[a])
  BY <1>3, <1>6, <1>7 DEF TransferLocked, TypeOK
<1> HIDE DEF delivered
<1>11. /\ balance' \in [Accounts -> 0..MaxUint]
       /\ burned' \in Nat
       /\ total(balance') + burned' = total(balance) + burned
       /\ \A a \in Accounts :
             balance'[a] >= (IF a = from THEN balance[a] - q ELSE balance[a])
  <2>1. burned \in Nat /\ total(balance) \in Nat
    BY HeldWithinSupply, SupplyAssumption DEF TypeOK
  <2>2. CASE OperationType(t) = REDEMPTION
    <3>1. /\ Burnt(delivered, to, q) \in [Accounts -> 0..MaxUint]
          /\ total(Burnt(delivered, to, q)) = total(delivered) - q
      BY <1>3, <1>9, <1>10, BurnConserves
    <3>2. \A a \in Accounts :
             Burnt(delivered, to, q)[a] >= (IF a = from THEN balance[a] - q ELSE balance[a])
      BY <1>3, <1>6, <1>7, <1>9, <1>10 DEF Burnt
    <3> HIDE DEF total
    <3>3. QED
      BY <1>3, <1>5, <1>9, <2>1, <2>2, <3>1, <3>2
  <2>3. CASE OperationType(t) # REDEMPTION
    <3>1. \A a \in Accounts :
             delivered[a] >= (IF a = from THEN balance[a] - q ELSE balance[a])
      BY <1>3, <1>6, <1>7, <1>9, <1>10
    <3> HIDE DEF total
    <3>2. QED
      BY <1>5, <1>9, <2>1, <2>3, <3>1
  <2>4. QED
    BY <2>2, <2>3
<1>12. LockedWithinBalance'
  <2>1. ASSUME NEW a \in Accounts PROVE locked'[a] <= balance'[a]
    <3>1. balance'[a] \in Nat
      BY <1>11, SupplyAssumption
    <3>2. QED
      BY <1>3, <1>6, <1>7, <1>8, <1>11, <3>1
  <2>2. QED
    BY <2>1 DEF LockedWithinBalance
<1>13. total(balance) + burned = InitialSupply
  BY HeldIsCount DEF SupplyConserved
<1>14. SupplyConserved'
  <2>1. total(balance') + burned' = InitialSupply
    BY <1>11, <1>13
  <2>2. QED
    BY <2>1 DEF SupplyConserved, HeldTokens, Count, Tokens
<1>15. burned' \in 0..InitialSupply
  <2>1. total(balance') \in Nat
    BY AccountsAssumption, SupplyAssumption, CountFinite
  <2> HIDE DEF total
  <2>2. QED
    BY <1>11, <1>13, <2>1, SupplyAssumption
<1>16. keys' \in Seq(Accounts)
  BY <1>3, <1>5, InsertType DEF TypeOK
<1>17. TypeOK'
  BY <1>4, <1>8, <1>11, <1>15, <1>16 DEF ConfirmPaymentReceived, TypeOK
<1>18. QED
  BY <1>12, <1>14, <1>17

LEMMA BurnKeeps ==
    ASSUME LedgerInv, NEW caller \in Addresses, NEW q \in Quantities, Burn(caller, q)
    PROVE  LedgerInv'
<1> DEFINE total(f) == Cardinality(Count(Accounts, f, MaxUint))
<1> USE DEF LedgerInv
<1>1. Issuer \in Accounts /\ q \in Nat
  BY AccountsAssumption, QuantitiesAreNat
<1>2. \A a \in Accounts :
         balance[a] \in Nat /\ locked[a] \in Nat /\ locked[a] <= balance[a]
  BY SupplyAssumption DEF TypeOK, LockedWithinBalance
<1>3. q <= balance[Issuer] - locked[Issuer] /\ q <= balance[Issuer]
  <2>1. q <= balance[Issuer] - locked[Issuer]
    <3>1. balance[Issuer] - locked[Issuer] >= q
      BY DEF Burn, CanBurn, Disposable
    <3>2. QED
      BY <1>1, <1>2, <3>1
  <2>2. QED
    BY <1>1, <1>2, <2>1
<1>4. /\ balance' = Burnt(balance, Issuer, q)
      /\ burned' = burned + q
      /\ UNCHANGED <<locked, keys, settlementVars, bondState, authorizationsByOperator>>
  BY DEF Burn
<1>5. balance' \in [Accounts -> 0..MaxUint] /\ total(balance') = total(balance) - q
  BY <1>1, <1>3, <1>4, BurnConserves DEF TypeOK
<1>6. LockedWithinBalance'
  <2>1. ASSUME NEW a \in Accounts PROVE locked[a] <= balance'[a]
    <3>1. CASE a = Issuer
      <4>1. balance'[a] = balance[a] - q
        BY <1>4, <3>1 DEF Burnt, TypeOK
      <4>2. QED
        BY <1>1, <1>2, <1>3, <3>1, <4>1
    <3>2. CASE a # Issuer
      <4>1. balance'[a] = balance[a]
        BY <1>4, <3>2 DEF Burnt, TypeOK
      <4>2. QED
        BY <1>2, <4>1
    <3>3. QED
      BY <3>1, <3>2
  <2>2. QED
    BY <1>4, <2>1 DEF LockedWithinBalance
<1>7. total(balance) + burned = InitialSupply /\ total(balance) \in Nat /\ burned \in Nat
  BY HeldIsCount, HeldWithinSupply, SupplyAssumption DEF SupplyConserved, TypeOK
<1>8. total(balance') \in Nat
  BY AccountsAssumption, SupplyAssumption, CountFinite
<1>9. total(balance') + burned' = InitialSupply /\ burned' \in 0..InitialSupply
  <2> HIDE DEF total
  <2>1. QED
    BY <1>1, <1>4, <1>5, <1>7, <1>8, SupplyAssumption
<1>10. SupplyConserved'
  BY <1>9 DEF SupplyConserved, HeldTokens, Count, Tokens
<1>11. TypeOK'
  BY <1>4, <1>5, <1>9 DEF TypeOK, settlementVars
<1>12. QED
  BY <1>6, <1>10, <1>11

-----------------------------------------------------------------------------
(* The steps that only lock or unlock, and the ones that leave the ledger. *)

LEMMA InitiateKeeps ==
    ASSUME LedgerInv, NEW caller \in Addresses, NEW p \in PartialSettlementTransaction,
           InitiateSubscription(caller, p) \/ InitiateTrade(caller, p)
    PROVE  LedgerInv'
<1> USE DEF LedgerInv
<1>1. /\ CreateAndLock(p)
      /\ \E type \in {SUBSCRIPTION, TRADE} : SetOperationType(p.operationId, type)
      /\ bondState' = STATE_RUNNING
      /\ UNCHANGED <<balance, keys, burned, authorizationsByOperator>>
  BY DEF InitiateSubscription, InitiateTrade
<1>2. /\ locked' \in [Accounts -> 0..MaxUint]
      /\ \A a \in Accounts : locked'[a] <= balance[a]
      /\ settlementTransactionById' \in [TxIds -> SettlementTransaction \cup {EmptySlot}]
  BY <1>1, CreateAndLockKeeps
<1>3. TypeOK'
  BY <1>1, <1>2 DEF TypeOK, SetOperationType
<1>4. LockedWithinBalance' /\ SupplyConserved'
  BY <1>1, <1>2 DEF LockedWithinBalance, SupplyConserved, HeldTokens
<1>5. QED
  BY <1>3, <1>4

LEMMA InitiateRedemptionKeeps ==
    ASSUME LedgerInv, NEW caller \in Addresses, NEW ps \in RedemptionCalls,
           InitiateRedemption(caller, ps)
    PROVE  LedgerInv'
<1> USE DEF LedgerInv
<1>1. /\ SetOperationType(ps[1].operationId, REDEMPTION)
      /\ bondState' = STATE_REDEEMED
      /\ UNCHANGED <<balance, keys, burned, authorizationsByOperator>>
  BY DEF InitiateRedemption
<1>2. /\ locked' \in [Accounts -> 0..MaxUint]
      /\ \A a \in Accounts : locked'[a] <= balance[a]
      /\ settlementTransactionById' \in [TxIds -> SettlementTransaction \cup {EmptySlot}]
  BY RedemptionKeeps
<1>3. TypeOK'
  BY <1>1, <1>2 DEF TypeOK, SetOperationType
<1>4. LockedWithinBalance' /\ SupplyConserved'
  BY <1>1, <1>2 DEF LockedWithinBalance, SupplyConserved, HeldTokens
<1>5. QED
  BY <1>3, <1>4

LEMMA CancelKeeps ==
    ASSUME LedgerInv, NEW caller \in Addresses, NEW p \in PartialSettlementTransaction,
           CancelSettlementTransaction(caller, p)
    PROVE  LedgerInv'
<1> USE DEF LedgerInv
<1>1. p.sender \in Accounts /\ p.quantity \in Nat /\ p.txId \in TxIds
  BY QuantitiesAreNat DEF PartialSettlementTransaction
<1>2. /\ settlementTransactionById[p.txId].status = TOKEN_LOCKED
      /\ CanUnlock(p.sender, p.quantity)
      /\ locked' = Unlock(p.sender, p.quantity)
      /\ SetStatus(p.txId, CANCELLED)
      /\ UNCHANGED <<balance, keys, burned, operationTypeByOperationId, bondState,
                     authorizationsByOperator>>
  BY DEF CancelSettlementTransaction
<1>3. \A a \in Accounts :
         balance[a] \in Nat /\ locked[a] \in Nat /\ locked[a] <= balance[a]
  BY SupplyAssumption DEF TypeOK, LockedWithinBalance
<1>4. p.quantity <= locked[p.sender]
  BY <1>1, <1>2, <1>3 DEF CanUnlock
<1>5. /\ locked' \in [Accounts -> 0..MaxUint]
      /\ locked'[p.sender] = locked[p.sender] - p.quantity
      /\ \A b \in Accounts \ {p.sender} : locked'[b] = locked[b]
  BY <1>1, <1>2, <1>4, UnlockKeeps
<1>6. settlementTransactionById' \in [TxIds -> SettlementTransaction \cup {EmptySlot}]
  BY <1>1, <1>2, SetStatusType
<1>7. TypeOK'
  BY <1>2, <1>5, <1>6 DEF TypeOK
<1>8. LockedWithinBalance'
  BY <1>1, <1>2, <1>3, <1>5 DEF LockedWithinBalance
<1>9. SupplyConserved'
  BY <1>2 DEF SupplyConserved, HeldTokens
<1>10. QED
  BY <1>7, <1>8, <1>9

LEMMA ConfirmPaymentTransferredKeeps ==
    ASSUME LedgerInv, NEW caller \in Addresses, NEW t \in TxIds,
           ConfirmPaymentTransferred(caller, t)
    PROVE  LedgerInv'
<1> USE DEF LedgerInv
<1>1. settlementTransactionById' \in [TxIds -> SettlementTransaction \cup {EmptySlot}]
  BY SetStatusType DEF ConfirmPaymentTransferred
<1>2. UNCHANGED <<balanceVars, operationTypeByOperationId, bondState,
                  authorizationsByOperator>>
  BY DEF ConfirmPaymentTransferred
<1>3. TypeOK'
  BY <1>1, <1>2 DEF TypeOK, balanceVars
<1>4. LockedWithinBalance' /\ SupplyConserved'
  BY <1>2 DEF balanceVars, LockedWithinBalance, SupplyConserved, HeldTokens
<1>5. QED
  BY <1>3, <1>4

LEMMA OperatorsKeep ==
    ASSUME LedgerInv, NEW caller \in Addresses, NEW role \in Roles,
           NEW operator \in Addresses,
           \/ AuthorizeOperator(caller, role, operator)
           \/ RevokeOperatorAuthorization(caller, operator, role)
    PROVE  LedgerInv'
<1> USE DEF LedgerInv
<1>1. UNCHANGED <<balanceVars, settlementVars, bondState>>
  BY DEF AuthorizeOperator, RevokeOperatorAuthorization
<1>2. authorizationsByOperator[operator] \in Seq(Roles \cup {REVOKED})
  BY DEF TypeOK
<1>3. authorizationsByOperator' \in [Addresses -> Seq(Roles \cup {REVOKED})]
  <2>1. CASE AuthorizeOperator(caller, role, operator)
    <3>1. Append(authorizationsByOperator[operator], role) \in Seq(Roles \cup {REVOKED})
      BY <1>2
    <3>2. QED
      BY <2>1, <3>1 DEF AuthorizeOperator, TypeOK
  <2>2. CASE RevokeOperatorAuthorization(caller, operator, role)
    <3>1. PICK i \in DOMAIN authorizationsByOperator[operator] :
              authorizationsByOperator' =
                  [authorizationsByOperator EXCEPT ![operator][i] = REVOKED]
      BY <2>2 DEF RevokeOperatorAuthorization
    <3>2. [authorizationsByOperator[operator] EXCEPT ![i] = REVOKED]
              \in Seq(Roles \cup {REVOKED})
      BY <1>2
    <3>3. QED
      BY <3>1, <3>2 DEF TypeOK
  <2>3. QED
    BY <2>1, <2>2
<1>4. TypeOK'
  BY <1>1, <1>3 DEF TypeOK, balanceVars, settlementVars
<1>5. LockedWithinBalance' /\ SupplyConserved'
  BY <1>1 DEF balanceVars, LockedWithinBalance, SupplyConserved, HeldTokens
<1>6. QED
  BY <1>4, <1>5

-----------------------------------------------------------------------------
(* The invariant. *)

LEMMA InitLedger == Init => LedgerInv
<1> SUFFICES ASSUME Init PROVE LedgerInv
  OBVIOUS
<1> USE DEF Init
<1>1. Issuer \in Accounts /\ InitialSupply \in 0..MaxUint /\ MaxUint \in Nat
  BY AccountsAssumption, SupplyAssumption
<1>2. balance \in [Accounts -> 0..MaxUint] /\ locked \in [Accounts -> 0..MaxUint]
  BY <1>1
<1>3. authorizationsByOperator \in [Addresses -> Seq(Roles \cup {REVOKED})]
  <2>1. ASSUME NEW a \in Addresses PROVE InitialAuthorizations(a) \in Seq(Roles \cup {REVOKED})
    <3>1. <<>> \in Seq(Roles \cup {REVOKED})
      OBVIOUS
    <3>2. <<REGISTRAR_ROLE>> \in Seq(Roles \cup {REVOKED})
      BY DEF Roles
    <3>3. <<SETTLER_ROLE>> \in Seq(Roles \cup {REVOKED})
      BY DEF Roles
    <3> DEFINE first == IF a = Registrar THEN <<REGISTRAR_ROLE>> ELSE <<>>
               second == IF a = Settler THEN <<SETTLER_ROLE>> ELSE <<>>
    <3>4. first \in Seq(Roles \cup {REVOKED}) /\ second \in Seq(Roles \cup {REVOKED})
      BY <3>1, <3>2, <3>3
    <3> HIDE DEF first, second
    <3>5. first \o second \in Seq(Roles \cup {REVOKED})
      BY <3>4
    <3>6. QED
      BY <3>5 DEF InitialAuthorizations, first, second
  <2>2. QED
    BY <2>1
<1>4. TypeOK
  <2>1. keys \in Seq(Accounts)
    BY <1>1
  <2>2. burned \in 0..InitialSupply
    BY <1>1
  <2>3. QED
    BY <1>2, <1>3, <2>1, <2>2 DEF TypeOK
<1>5. LockedWithinBalance
  BY <1>1 DEF LockedWithinBalance
<1>6. SupplyConserved
  <2>1. \A a \in Accounts \ {Issuer} : balance[a] = 0
    OBVIOUS
  <2>2. Cardinality(Count(Accounts, balance, MaxUint)) = balance[Issuer]
    BY <1>1, <1>2, <2>1, AccountsAssumption, CountSingle
  <2>3. balance[Issuer] = InitialSupply /\ burned = 0
    BY <1>1
  <2>4. QED
    BY <1>1, <2>2, <2>3, HeldIsCount DEF SupplyConserved
<1>7. QED
  BY <1>4, <1>5, <1>6 DEF LedgerInv

LEMMA NextLedger == LedgerInv /\ [Next]_vars => LedgerInv'
<1> SUFFICES ASSUME LedgerInv, [Next]_vars PROVE LedgerInv'
  OBVIOUS
<1>1. CASE UNCHANGED vars
  BY <1>1 DEF vars, balanceVars, settlementVars, LedgerInv, TypeOK, LockedWithinBalance,
              SupplyConserved, HeldTokens
<1>2. ASSUME NEW caller \in Addresses, NEW p \in PartialSettlementTransaction,
             InitiateSubscription(caller, p) \/ InitiateTrade(caller, p)
      PROVE  LedgerInv'
  BY <1>2, InitiateKeeps
<1>3. ASSUME NEW caller \in Addresses, NEW p \in PartialSettlementTransaction,
             CancelSettlementTransaction(caller, p)
      PROVE  LedgerInv'
  BY <1>3, CancelKeeps
<1>4. ASSUME NEW caller \in Addresses, NEW ps \in RedemptionCalls,
             InitiateRedemption(caller, ps)
      PROVE  LedgerInv'
  BY <1>4, InitiateRedemptionKeeps
<1>5. ASSUME NEW caller \in Addresses, NEW t \in TxIds, ConfirmPaymentReceived(caller, t)
      PROVE  LedgerInv'
  BY <1>5, ConfirmPaymentReceivedKeeps
<1>6. ASSUME NEW caller \in Addresses, NEW t \in TxIds, ConfirmPaymentTransferred(caller, t)
      PROVE  LedgerInv'
  BY <1>6, ConfirmPaymentTransferredKeeps
<1>7. ASSUME NEW caller \in Addresses, NEW q \in Quantities, Burn(caller, q)
      PROVE  LedgerInv'
  BY <1>7, BurnKeeps
<1>8. ASSUME NEW caller \in Addresses, NEW role \in Roles, NEW operator \in Addresses,
             \/ AuthorizeOperator(caller, role, operator)
             \/ RevokeOperatorAuthorization(caller, operator, role)
      PROVE  LedgerInv'
  BY <1>8, OperatorsKeep
<1>9. QED
  BY <1>1, <1>2, <1>3, <1>4, <1>5, <1>6, <1>7, <1>8 DEF Next

\* The state keeps its types: in particular no balance and no lock leaves
\* 0..MaxUint, so no checked addition or subtraction of the libraries reverts
\* for another reason than its requires.
THEOREM TypeCorrect == Spec => []TypeOK
<1>1. LedgerInv => TypeOK
  BY DEF LedgerInv
<1>2. QED
  BY <1>1, InitLedger, NextLedger, PTL DEF Spec

\* No account has more locked than it holds (lock, unlock, burn and
\* transferLocked of SecurityTokenBalancesLibrary).
THEOREM LocksAreCovered == Spec => []LockedWithinBalance
<1>1. LedgerInv => LockedWithinBalance
  BY DEF LedgerInv
<1>2. QED
  BY <1>1, InitLedger, NextLedger, PTL DEF Spec

\* Whoever calls what, the contract neither creates nor loses a token.
THEOREM SupplyIsConserved == Spec => []SupplyConserved
<1>1. LedgerInv => SupplyConserved
  BY DEF LedgerInv
<1>2. QED
  BY <1>1, InitLedger, NextLedger, PTL DEF Spec

-----------------------------------------------------------------------------
(* The list of holders. *)

LEMMA InsertLists ==
    ASSUME keys \in Seq(Accounts), NEW a \in Accounts,
           \A i, j \in DOMAIN keys : keys[i] = keys[j] => i = j
    PROVE  /\ \A i, j \in DOMAIN Insert(a) : Insert(a)[i] = Insert(a)[j] => i = j
           /\ \E i \in DOMAIN Insert(a) : Insert(a)[i] = a
           /\ \A i \in DOMAIN keys : i \in DOMAIN Insert(a) /\ Insert(a)[i] = keys[i]
<1>1. CASE \E i \in DOMAIN keys : keys[i] = a
  <2>1. Insert(a) = keys
    BY <1>1 DEF Insert
  <2>2. QED
    BY <1>1, <2>1
<1>2. CASE ~ \E i \in DOMAIN keys : keys[i] = a
  <2>1. Insert(a) = Append(keys, a)
    BY <1>2 DEF Insert
  <2>2. QED
    BY <1>2, <2>1
<1>3. QED
  BY <1>1, <1>2

LEMMA InitHolders == Init => HoldersListedOnce
<1> SUFFICES ASSUME Init PROVE HoldersListedOnce
  OBVIOUS
<1>1. DOMAIN keys = {1} /\ keys[1] = Issuer
  BY DEF Init
<1>2. \A a \in Accounts : balance[a] > 0 => a = Issuer
  BY DEF Init
<1>3. QED
  BY <1>1, <1>2 DEF HoldersListedOnce

\* A balance grows only where insert lists it.
LEMMA NextHolders == LedgerInv /\ HoldersListedOnce /\ [Next]_vars => HoldersListedOnce'
<1> SUFFICES ASSUME LedgerInv, HoldersListedOnce, [Next]_vars PROVE HoldersListedOnce'
  OBVIOUS
<1> USE DEF LedgerInv
<1>1. CASE keys' = keys /\ balance' = balance
  BY <1>1 DEF HoldersListedOnce
<1>2. ASSUME NEW caller \in Addresses, NEW t \in TxIds, ConfirmPaymentReceived(caller, t)
      PROVE  HoldersListedOnce'
  <2> DEFINE st == settlementTransactionById[t]
             from == st.sender
             to == st.receiver
             q == st.quantity
  <2>1. st \in SettlementTransaction
    <3>1. st.status = TOKEN_LOCKED
      BY <1>2 DEF ConfirmPaymentReceived, CanDeliver
    <3>2. QED
      BY <3>1, CreatedHasTerms DEF TOKEN_LOCKED, NOT_CREATED
  <2>2. from \in Accounts /\ to \in Accounts /\ q \in Nat
    BY <2>1, QuantitiesAreNat DEF SettlementTransaction
  <2>3. keys' = Insert(to)
    BY <1>2 DEF ConfirmPaymentReceived
  <2>4. \/ balance' = TransferLocked(from, to, q)
        \/ balance' = Burnt(TransferLocked(from, to, q), to, q)
    BY <1>2 DEF ConfirmPaymentReceived, Delivered
  <2> HIDE DEF st, from, to, q
  <2>5. \A a \in Accounts \ {to} : balance'[a] <= balance[a]
    BY <2>2, <2>4, SupplyAssumption DEF TransferLocked, Burnt, TypeOK
  <2>6. keys \in Seq(Accounts) /\ \A i, j \in DOMAIN keys : keys[i] = keys[j] => i = j
    BY DEF TypeOK, HoldersListedOnce
  <2>7. /\ \A i, j \in DOMAIN keys' : keys'[i] = keys'[j] => i = j
        /\ \E i \in DOMAIN keys' : keys'[i] = to
        /\ \A i \in DOMAIN keys : i \in DOMAIN keys' /\ keys'[i] = keys[i]
    BY <2>2, <2>3, <2>6, InsertLists
  <2>8. ASSUME NEW a \in Accounts, balance'[a] > 0
        PROVE  \E i \in DOMAIN keys' : keys'[i] = a
    <3>1. CASE a = to
      BY <2>7, <3>1
    <3>2. CASE a # to
      <4>1. balance'[a] \in Nat
        <5>1. LedgerInv'
          BY <1>2, ConfirmPaymentReceivedKeeps
        <5>2. QED
          BY <5>1, SupplyAssumption DEF TypeOK
      <4>2. balance[a] \in Nat
        BY SupplyAssumption DEF TypeOK
      <4>3. balance[a] > 0
        BY <2>5, <2>8, <3>2, <4>1, <4>2
      <4>4. \E i \in DOMAIN keys : keys[i] = a
        BY <4>3 DEF HoldersListedOnce
      <4>5. QED
        BY <2>7, <4>4
    <3>3. QED
      BY <3>1, <3>2
  <2>9. QED
    BY <2>7, <2>8 DEF HoldersListedOnce
<1>3. ASSUME NEW caller \in Addresses, NEW q \in Quantities, Burn(caller, q)
      PROVE  HoldersListedOnce'
  <2>1. keys' = keys /\ balance' = [balance EXCEPT ![Issuer] = @ - q] /\ q \in Nat
    BY <1>3, QuantitiesAreNat DEF Burn, Burnt
  <2>2. \A a \in Accounts : balance[a] \in Nat
    BY SupplyAssumption DEF TypeOK
  <2>3. \A a \in Accounts : balance'[a] > 0 => balance[a] > 0
    BY <2>1, <2>2 DEF TypeOK
  <2>4. QED
    BY <2>1, <2>3 DEF HoldersListedOnce
<1>4. CASE UNCHANGED vars
  BY <1>1, <1>4 DEF vars, balanceVars
<1>5. ASSUME NEW caller \in Addresses,
             \/ \E p \in PartialSettlementTransaction :
                   \/ InitiateSubscription(caller, p)
                   \/ InitiateTrade(caller, p)
                   \/ CancelSettlementTransaction(caller, p)
             \/ \E ps \in RedemptionCalls : InitiateRedemption(caller, ps)
             \/ \E t \in TxIds : ConfirmPaymentTransferred(caller, t)
             \/ \E role \in Roles, operator \in Addresses :
                   \/ AuthorizeOperator(caller, role, operator)
                   \/ RevokeOperatorAuthorization(caller, operator, role)
      PROVE  HoldersListedOnce'
  <2>1. keys' = keys /\ balance' = balance
    BY <1>5 DEF InitiateSubscription, InitiateTrade, CancelSettlementTransaction,
                InitiateRedemption, ConfirmPaymentTransferred, AuthorizeOperator,
                RevokeOperatorAuthorization, balanceVars
  <2>2. QED
    BY <1>1, <2>1
<1>6. QED
  BY <1>2, <1>3, <1>4, <1>5 DEF Next

\* getFullBalances lists every holder, and lists it once: what a redemption
\* is built from is complete.
THEOREM HoldersAreListedOnce == Spec => []HoldersListedOnce
BY InitLedger, NextLedger, InitHolders, NextHolders, PTL DEF Spec

\* What the list says of balances and of locks sums to what the accounts have.
LEMMA ListedCount ==
    ASSUME LedgerInv, HoldersListedOnce, NEW f \in [Accounts -> 0..MaxUint],
           \A a \in Accounts : f[a] <= balance[a]
    PROVE  Cardinality({p \in (DOMAIN keys) \X Tokens : p[2] <= f[keys[p[1]]]})
               = Cardinality(Count(Accounts, f, MaxUint))
<1>1. IsFiniteSet(Accounts) /\ MaxUint \in Nat
  BY AccountsAssumption, SupplyAssumption
<1>2. keys \in [DOMAIN keys -> Accounts]
  BY DEF LedgerInv, TypeOK
<1>3. \A a \in Accounts : f[a] > 0 => \E i \in DOMAIN keys : keys[i] = a
  <2>1. \A a \in Accounts : f[a] > 0 => balance[a] > 0
    BY <1>1 DEF LedgerInv, TypeOK
  <2>2. QED
    BY <2>1 DEF HoldersListedOnce
<1>4. \A i, j \in DOMAIN keys : keys[i] = keys[j] => i = j
  BY DEF HoldersListedOnce
<1>5. PICK places, list : places = DOMAIN keys /\ list = keys
  OBVIOUS
<1>6. /\ list \in [places -> Accounts]
      /\ \A i, j \in places : list[i] = list[j] => i = j
      /\ \A a \in Accounts : f[a] > 0 => \E i \in places : list[i] = a
  BY <1>2, <1>3, <1>4, <1>5
<1>7. Cardinality(ListCount(places, list, f, MaxUint)) = Cardinality(Count(Accounts, f, MaxUint))
  BY <1>1, <1>6, CountByList
<1>8. QED
  BY <1>5, <1>7 DEF Tokens, ListCount

\* totalSupply() is what is outstanding and, once more, what is locked.
THEOREM TotalSupplyOverstates == Spec => []TotalSupplyOverstatesByLocks
<1>1. LedgerInv /\ HoldersListedOnce => TotalSupplyOverstatesByLocks
  <2> SUFFICES ASSUME LedgerInv, HoldersListedOnce PROVE TotalSupplyOverstatesByLocks
    OBVIOUS
  <2> DEFINE held == {p \in (DOMAIN keys) \X Tokens : p[2] <= balance[keys[p[1]]]}
             setAside == {p \in (DOMAIN keys) \X Tokens : p[2] <= locked[keys[p[1]]]}
  <2>1. /\ balance \in [Accounts -> 0..MaxUint] /\ locked \in [Accounts -> 0..MaxUint]
        /\ \A a \in Accounts : locked[a] <= balance[a] /\ balance[a] <= balance[a]
        /\ IsFiniteSet(Accounts) /\ MaxUint \in Nat
    BY AccountsAssumption, SupplyAssumption DEF LedgerInv, TypeOK, LockedWithinBalance
  <2>2. Cardinality(held) = Cardinality(HeldTokens)
    BY <2>1, ListedCount, HeldIsCount
  <2>3. LockedTokens = Count(Accounts, locked, MaxUint)
    BY DEF LockedTokens, Count, Tokens
  <2>4. Cardinality(setAside) = Cardinality(LockedTokens)
    BY <2>1, <2>3, ListedCount
  <2>5. TotalSupply = Cardinality(held) + Cardinality(setAside)
    BY DEF TotalSupply, FullBalances
  <2>6. Cardinality(HeldTokens) \in Nat /\ Cardinality(LockedTokens) \in Nat
    BY <2>1, <2>3, HeldIsCount, CountFinite
  <2>7. Cardinality(HeldTokens) + burned = InitialSupply /\ burned \in Nat
        /\ InitialSupply \in Nat
    BY SupplyAssumption DEF LedgerInv, SupplyConserved, TypeOK
  <2> HIDE DEF held, setAside
  <2>8. QED
    BY <2>2, <2>4, <2>5, <2>6, <2>7 DEF TotalSupplyOverstatesByLocks
<1>2. QED
  BY <1>1, InitLedger, NextLedger, InitHolders, NextHolders, PTL DEF Spec

-----------------------------------------------------------------------------
(* What a step may never do. *)

\* An account loses tokens only in the step that confirms the payment of a
\* delivery, or, the issuer, in a burn.
LEMMA DeliveryIsPaid ==
    ASSUME LedgerInv, [Next]_vars, NEW a \in Accounts, balance'[a] < balance[a]
    PROVE  \/ \E t \in TxIds : PaidFor(t, a)
           \/ a = Issuer /\ settlementTransactionById' = settlementTransactionById
<1> USE DEF LedgerInv
<1>1. \A b \in Accounts : balance[b] \in Nat
  BY SupplyAssumption DEF TypeOK
<1>2. balance' # balance
  BY <1>1
<1>3. ASSUME NEW caller \in Addresses, NEW t \in TxIds, ConfirmPaymentReceived(caller, t)
      PROVE  PaidFor(t, a)
  <2> DEFINE st == settlementTransactionById[t]
             from == st.sender
             to == st.receiver
             q == st.quantity
  <2>1. st.status = TOKEN_LOCKED
    BY <1>3 DEF ConfirmPaymentReceived, CanDeliver
  <2>2. st \in SettlementTransaction
    BY <2>1, CreatedHasTerms DEF TOKEN_LOCKED, NOT_CREATED
  <2>3. from \in Accounts /\ to \in Accounts /\ q \in Nat
    BY <2>2, QuantitiesAreNat DEF SettlementTransaction
  <2>4. settlementTransactionById'[t].status = CASH_RECEIVED
    <3>1. settlementTransactionById' =
              [settlementTransactionById EXCEPT ![t].status = CASH_RECEIVED]
      BY <1>3 DEF ConfirmPaymentReceived, SetStatus
    <3>2. QED
      BY <2>2, <3>1 DEF TypeOK, SettlementTransaction
  <2>5. \/ OperationType(t) = REDEMPTION /\ balance' = Burnt(TransferLocked(from, to, q), to, q)
        \/ balance' = TransferLocked(from, to, q)
    BY <1>3 DEF ConfirmPaymentReceived, Delivered
  <2> HIDE DEF st, from, to, q
  <2>6. TransferLocked(from, to, q)[a] =
            (IF a = from THEN balance[a] - q ELSE balance[a]) + (IF a = to THEN q ELSE 0)
    BY <1>1, <2>3 DEF TransferLocked, TypeOK
  <2>7. /\ Burnt(TransferLocked(from, to, q), to, q)[a] =
              (IF a = from THEN balance[a] - q ELSE balance[a])
    BY <1>1, <2>3, <2>6 DEF Burnt, TransferLocked, TypeOK
  <2>8. a = from /\ balance[a] - balance'[a] <= q
    BY <1>1, <2>3, <2>5, <2>6, <2>7
  <2>9. QED
    BY <2>1, <2>4, <2>8 DEF PaidFor, st, from, q
<1>4. ASSUME NEW caller \in Addresses, NEW q \in Quantities, Burn(caller, q)
      PROVE  a = Issuer /\ settlementTransactionById' = settlementTransactionById
  <2>1. balance' = [balance EXCEPT ![Issuer] = @ - q]
    BY <1>4 DEF Burn, Burnt
  <2>2. a = Issuer
    BY <1>1, <2>1 DEF TypeOK
  <2>3. QED
    BY <1>4, <2>2 DEF Burn, settlementVars
<1>5. (\E caller \in Addresses, t \in TxIds : ConfirmPaymentReceived(caller, t))
          \/ (\E caller \in Addresses, q \in Quantities : Burn(caller, q))
  BY <1>2 DEF Next, vars, balanceVars, InitiateSubscription, InitiateTrade,
              CancelSettlementTransaction, InitiateRedemption, ConfirmPaymentTransferred,
              AuthorizeOperator, RevokeOperatorAuthorization
<1>6. QED
  BY <1>3, <1>4, <1>5

\* An account loses tokens only in the step that confirms the payment of a
\* settlement transaction it delivers, or in a burn of the issuer's.
THEOREM DeliveryNeedsPayment == Spec => NoDeliveryWithoutPayment
<1> DEFINE Paid == \A a \in Accounts :
                      balance'[a] < balance[a] =>
                          \/ \E t \in TxIds : PaidFor(t, a)
                          \/ a = Issuer
                             /\ settlementTransactionById' = settlementTransactionById
<1>1. LedgerInv /\ [Next]_vars => [Paid]_vars
  BY DeliveryIsPaid
<1>2. QED
  BY <1>1, InitLedger, NextLedger, PTL DEF Spec, NoDeliveryWithoutPayment

\* A redemption ends the instrument: the state never leaves REDEEMED and no
\* settlement transaction is created any more.
THEOREM RedemptionEnds == Spec => NothingInitiatedOnceRedeemed
<1> DEFINE Ended == bondState = STATE_REDEEMED =>
                       /\ bondState' = STATE_REDEEMED
                       /\ \A t \in TxIds : ~Exists(t) => ~Exists(t)'
<1>1. LedgerInv /\ [Next]_vars => [Ended]_vars
  <2> SUFFICES ASSUME LedgerInv, Next, bondState = STATE_REDEEMED
               PROVE  /\ bondState' = STATE_REDEEMED
                      /\ \A t \in TxIds : ~Exists(t) => ~Exists(t)'
    BY DEF Exists, vars
  <2>1. ASSUME NEW t \in TxIds, NEW s,
               settlementTransactionById[t].status \in {TOKEN_LOCKED, CASH_RECEIVED},
               SetStatus(t, s)
        PROVE  \A u \in TxIds : ~Exists(u) => ~Exists(u)'
    <3>1. settlementTransactionById'
              = [settlementTransactionById EXCEPT ![t].status = s]
      BY <2>1 DEF SetStatus
    <3>2. \A u \in TxIds \ {t} : settlementTransactionById'[u] = settlementTransactionById[u]
      BY <3>1 DEF LedgerInv, TypeOK
    <3>3. Exists(t)
      BY <2>1 DEF Exists, TOKEN_LOCKED, CASH_RECEIVED, NOT_CREATED
    <3>4. QED
      BY <3>2, <3>3 DEF Exists
  <2>2. ~ (bondState < STATE_REDEEMED)
    BY DEF STATE_REDEEMED
  <2>3. CASE \E caller \in Addresses, p \in PartialSettlementTransaction :
                CancelSettlementTransaction(caller, p)
    BY <2>1, <2>3 DEF CancelSettlementTransaction, PartialSettlementTransaction
  <2>4. CASE \E caller \in Addresses, t \in TxIds :
                ConfirmPaymentReceived(caller, t) \/ ConfirmPaymentTransferred(caller, t)
    BY <2>1, <2>4 DEF ConfirmPaymentReceived, ConfirmPaymentTransferred, CanDeliver
  <2>5. CASE UNCHANGED <<settlementVars, bondState>>
    BY <2>5 DEF settlementVars, Exists
  <2>6. QED
    BY <2>2, <2>3, <2>4, <2>5 DEF Next, InitiateSubscription, InitiateTrade,
       InitiateRedemption, CanInitiate, Burn, AuthorizeOperator,
       RevokeOperatorAuthorization
<1>2. QED
  BY <1>1, InitLedger, NextLedger, PTL DEF Spec, NothingInitiatedOnceRedeemed

\* A write to one slot of an operator's authorizations grants or revokes one
\* role of that operator: revoking takes the role of the slot and no other.
LEMMA OneSlotWritten ==
    ASSUME TypeOK, NEW operator \in Addresses, NEW o \in Addresses, NEW r \in Roles,
           IsOperatorWithRoleAuthorized(o, r) # IsOperatorWithRoleAuthorized(o, r)'
    PROVE  /\ \A role \in Roles : AuthorizeOperator(Issuer, role, operator)
                                        => o = operator /\ r = role
           /\ \A role \in Roles : RevokeOperatorAuthorization(Issuer, operator, role)
                                        => o = operator /\ r = role
<1> DEFINE old == authorizationsByOperator[o]
           new == authorizationsByOperator'[o]
<1>1. authorizationsByOperator \in [Addresses -> Seq(Roles \cup {REVOKED})]
  BY DEF TypeOK
<1>2. old \in Seq(Roles \cup {REVOKED})
  BY <1>1
<1>3. (\E i \in DOMAIN old : old[i] = r) # (\E i \in DOMAIN new : new[i] = r)
  BY DEF IsOperatorWithRoleAuthorized
<1>4. ASSUME NEW role \in Roles, AuthorizeOperator(Issuer, role, operator)
      PROVE  o = operator /\ r = role
  <2>1. authorizationsByOperator' =
            [authorizationsByOperator EXCEPT ![operator] = Append(@, role)]
    BY <1>4 DEF AuthorizeOperator
  <2>2. o = operator /\ new = Append(old, role)
    BY <1>1, <1>3, <2>1
  <2> HIDE DEF old, new
  <2>3. r = role
    <3>1. /\ DOMAIN new = 1..(Len(old) + 1) /\ DOMAIN old = 1..Len(old) /\ Len(old) \in Nat
          /\ \A i \in DOMAIN old : new[i] = old[i]
          /\ new[Len(old) + 1] = role
      BY <1>2, <2>2
    <3>2. QED
      BY <1>3, <3>1
  <2>4. QED
    BY <2>2, <2>3
<1>5. ASSUME NEW role \in Roles, RevokeOperatorAuthorization(Issuer, operator, role)
      PROVE  o = operator /\ r = role
  <2>1. PICK i \in DOMAIN authorizationsByOperator[operator] :
            /\ authorizationsByOperator[operator][i] = role
            /\ authorizationsByOperator' =
                   [authorizationsByOperator EXCEPT ![operator][i] = REVOKED]
    BY <1>5 DEF RevokeOperatorAuthorization
  <2>2. o = operator /\ new = [old EXCEPT ![i] = REVOKED]
    BY <1>1, <1>3, <2>1
  <2>3. i \in DOMAIN old /\ old[i] = role
    BY <2>1, <2>2
  <2> HIDE DEF old, new
  <2>4. r = role
    BY <1>2, <1>3, <2>2, <2>3 DEF Roles, REVOKED, REGISTRAR_ROLE, SETTLER_ROLE
  <2>5. QED
    BY <2>2, <2>4
<1>6. QED
  BY <1>4, <1>5

\* No call grants or revokes two roles at a time.
THEOREM RolesAreChangedOneByOne == Spec => RolesChangeOneByOne
<1> DEFINE OneByOne == \A o1, o2 \in Addresses, r1, r2 \in Roles :
                           /\ IsOperatorWithRoleAuthorized(o1, r1)
                                  # IsOperatorWithRoleAuthorized(o1, r1)'
                           /\ IsOperatorWithRoleAuthorized(o2, r2)
                                  # IsOperatorWithRoleAuthorized(o2, r2)'
                           => o1 = o2 /\ r1 = r2
<1>1. LedgerInv /\ [Next]_vars => [OneByOne]_vars
  <2> SUFFICES ASSUME LedgerInv, Next,
                      NEW o1 \in Addresses, NEW o2 \in Addresses,
                      NEW r1 \in Roles, NEW r2 \in Roles,
                      IsOperatorWithRoleAuthorized(o1, r1)
                          # IsOperatorWithRoleAuthorized(o1, r1)',
                      IsOperatorWithRoleAuthorized(o2, r2)
                          # IsOperatorWithRoleAuthorized(o2, r2)'
               PROVE  o1 = o2 /\ r1 = r2
    OBVIOUS
  <2>1. TypeOK
    BY DEF LedgerInv
  <2>2. authorizationsByOperator' # authorizationsByOperator
    BY DEF IsOperatorWithRoleAuthorized
  <2>3. \E role \in Roles, operator \in Addresses :
            \/ AuthorizeOperator(Issuer, role, operator)
            \/ RevokeOperatorAuthorization(Issuer, operator, role)
    BY <2>2 DEF Next, InitiateSubscription, InitiateTrade, CancelSettlementTransaction,
       InitiateRedemption, ConfirmPaymentReceived, ConfirmPaymentTransferred, Burn,
       AuthorizeOperator, RevokeOperatorAuthorization, IssuerOnly
  <2>4. QED
    BY <2>1, <2>3, OneSlotWritten
<1>2. QED
  BY <1>1, InitLedger, NextLedger, PTL DEF Spec, RolesChangeOneByOne

-----------------------------------------------------------------------------
(* OracleDrivenBond: the contract under the oracles' calls.  Its steps are *)
(* calls of ForgeBond, so that the ledger invariant holds; called by the   *)
(* oracles, the contract also keeps the terms of every settlement          *)
(* transaction, and with them the locks are what is pending, nothing       *)
(* pending is stuck, and the bond is a delivery-versus-payment ledger.     *)

\* What is stored of a settlement transaction that exists: its operation has
\* a type, its quantity was covered, and a redemption returns tokens of an
\* investor to the issuer.
TermsOK ==
    \A t \in TxIds : Exists(t) =>
        /\ OperationType(t) \in {SUBSCRIPTION, REDEMPTION, TRADE}
        /\ settlementTransactionById[t].quantity <= InitialSupply
        /\ OperationType(t) = REDEMPTION =>
              /\ settlementTransactionById[t].sender # Issuer
              /\ settlementTransactionById[t].receiver = Issuer

DrivenInv ==
    /\ LedgerInv
    /\ TermsOK
    /\ LocksMatchPending
    /\ BurnedByRedemption

-----------------------------------------------------------------------------
(* The calls of the oracles are calls of the contract. *)

LEMMA OracleAddresses == Registrar \in Addresses /\ Settler \in Addresses
BY AccountsAssumption DEF Addresses

\* An oracle's redemption is a call of the contract: a list of at most
\* MaxRedemption settlement transactions.
LEMMA RedemptionCallsOfOracles ==
    ASSUME NEW n \in 1..MaxRedemption, NEW ps \in [1..n -> RedemptionInputs]
    PROVE  /\ ps \in RedemptionCalls
           /\ DOMAIN ps = 1..n /\ 1 \in DOMAIN ps
           /\ \A i \in DOMAIN ps : /\ ps[i] \in PartialSettlementTransaction
                                   /\ ps[i].sender # Issuer /\ ps[i].receiver = Issuer
<1>1. n \in 0..MaxRedemption /\ n \in Nat /\ n >= 1
  BY IdsAssumption
<1>2. ps \in [1..n -> PartialSettlementTransaction]
  BY DEF RedemptionInputs
<1>3. ps \in RedemptionCalls
  BY <1>1, <1>2 DEF RedemptionCalls
<1>4. QED
  BY <1>1, <1>2, <1>3 DEF RedemptionInputs

LEMMA OracleStepIsACall ==
    ASSUME NEW t \in TxIds, TypeOK
    PROVE  OracleCancel(t) =>
               /\ StoredTerms(t) \in PartialSettlementTransaction
               /\ CancelSettlementTransaction(Registrar, StoredTerms(t))
<1> SUFFICES ASSUME OracleCancel(t)
             PROVE  StoredTerms(t) \in PartialSettlementTransaction
  BY DEF OracleCancel
<1>1. settlementTransactionById[t] \in SettlementTransaction
  BY CreatedHasTerms DEF OracleCancel, Exists
<1>2. QED
  BY <1>1 DEF StoredTerms, PartialSettlementTransaction, SettlementTransaction

LEMMA OracleNextIsNext ==
    ASSUME TypeOK, OracleNext
    PROVE  Next
<1> USE OracleAddresses
<1>1. ASSUME NEW p \in PartialSettlementTransaction, OracleSubscription(p) \/ OracleTrade(p)
      PROVE  Next
  BY <1>1 DEF OracleSubscription, OracleTrade, Next
<1>2. ASSUME NEW n \in 1..MaxRedemption, NEW ps \in [1..n -> RedemptionInputs],
             OracleRedemption(ps)
      PROVE  Next
  BY <1>2, RedemptionCallsOfOracles DEF OracleRedemption, Next
<1>3. ASSUME NEW t \in TxIds, OracleCancel(t)
      PROVE  Next
  BY <1>3, OracleStepIsACall DEF Next
<1>4. ASSUME NEW t \in TxIds,
             ConfirmPaymentReceived(Settler, t) \/ ConfirmPaymentTransferred(Settler, t)
      PROVE  Next
  BY <1>4 DEF Next
<1>5. QED
  BY <1>1, <1>2, <1>3, <1>4 DEF OracleNext

-----------------------------------------------------------------------------
(* Terms. *)

\* The terms and the status of a settlement transaction, and its type.
SameTerms(t) ==
    /\ settlementTransactionById'[t].operationId = settlementTransactionById[t].operationId
    /\ settlementTransactionById'[t].sender = settlementTransactionById[t].sender
    /\ settlementTransactionById'[t].receiver = settlementTransactionById[t].receiver
    /\ settlementTransactionById'[t].quantity = settlementTransactionById[t].quantity
    /\ OperationType(t)' = OperationType(t)

\* An operation id that stands for operations of one kind keeps its kind.
LEMMA TypeIsKept ==
    ASSUME TypeOK, TermsOK, NEW o \in OperationIds,
           NEW type \in {SUBSCRIPTION, REDEMPTION, TRADE},
           UsableFor(o, type), SetOperationType(o, type),
           NEW t \in TxIds, Exists(t),
           settlementTransactionById'[t] = settlementTransactionById[t]
    PROVE  OperationType(t)' = OperationType(t)
<1>1. PICK op : op = settlementTransactionById[t].operationId
  OBVIOUS
<1>2. op \in OperationIds
  BY <1>1, CreatedHasTerms DEF Exists, SettlementTransaction
<1>3. operationTypeByOperationId[op] # NO_TYPE
  BY <1>1, <1>2 DEF TermsOK, OperationType, NO_TYPE, SUBSCRIPTION, REDEMPTION, TRADE
<1>4. operationTypeByOperationId'[op] = operationTypeByOperationId[op]
  BY <1>2, <1>3 DEF UsableFor, SetOperationType, TypeOK
<1>5. OperationType(t) = operationTypeByOperationId[op]
  BY <1>1, <1>2 DEF OperationType
<1>6. OperationType(t)' = operationTypeByOperationId'[op]
  BY <1>1, <1>2 DEF OperationType
<1>7. QED
  BY <1>4, <1>5, <1>6

\* A change of status is nothing else.
LEMMA StatusOnly ==
    ASSUME TypeOK, NEW t \in TxIds, Exists(t),
           NEW s \in {CASH_RECEIVED, CASH_TRANSFERRED, CANCELLED},
           SetStatus(t, s), UNCHANGED operationTypeByOperationId
    PROVE  /\ settlementTransactionById'[t].status = s
           /\ \A u \in TxIds \ {t} : settlementTransactionById'[u] = settlementTransactionById[u]
           /\ \A u \in TxIds : SameTerms(u)
<1>1. PICK st : st = settlementTransactionById[t]
  OBVIOUS
<1>2. st \in SettlementTransaction
  BY <1>1, CreatedHasTerms DEF Exists
<1>3. PICK new : new = [st EXCEPT !.status = s]
  OBVIOUS
<1>4. /\ new.operationId = st.operationId /\ new.sender = st.sender /\ new.receiver = st.receiver
      /\ new.quantity = st.quantity /\ new.status = s
  BY <1>2, <1>3 DEF SettlementTransaction
<1>5. /\ settlementTransactionById'[t] = new
      /\ \A u \in TxIds \ {t} : settlementTransactionById'[u] = settlementTransactionById[u]
  BY <1>1, <1>3 DEF SetStatus, TypeOK
<1>6. SameTerms(t)
  BY <1>1, <1>4, <1>5 DEF SameTerms, OperationType
<1>7. \A u \in TxIds \ {t} : SameTerms(u)
  BY <1>5 DEF SameTerms, OperationType
<1>8. QED
  BY <1>1, <1>4, <1>5, <1>6, <1>7

-----------------------------------------------------------------------------
(* What is pending. *)

\* What the pending settlement transactions of a will deliver, one by one.
Reserved(a) ==
    [t \in TxIds |->
        IF Pending(t) /\ settlementTransactionById[t].sender = a
        THEN settlementTransactionById[t].quantity ELSE 0]

LEMMA StoredQuantities ==
    TypeOK => \A t \in TxIds : /\ settlementTransactionById[t].quantity \in 0..MaxUint
                               /\ settlementTransactionById[t].quantity \in Nat
<1> SUFFICES ASSUME TypeOK, NEW t \in TxIds
             PROVE  /\ settlementTransactionById[t].quantity \in 0..MaxUint
                    /\ settlementTransactionById[t].quantity \in Nat
  OBVIOUS
<1>1. PICK st : st = settlementTransactionById[t]
  OBVIOUS
<1>2. CASE st \in SettlementTransaction
  <2>1. st.quantity \in Quantities
    BY <1>2 DEF SettlementTransaction
  <2>2. QED
    BY <1>1, <2>1, QuantitiesAreNat, SupplyAssumption
<1>3. CASE st = EmptySlot
  <2>1. st.quantity = 0
    BY <1>3 DEF EmptySlot
  <2>2. QED
    BY <1>1, <2>1, SupplyAssumption
<1>4. QED
  BY <1>1, <1>2, <1>3 DEF TypeOK

LEMMA ReservedIsCount ==
    TypeOK => \A a \in Accounts : /\ Reserved(a) \in [TxIds -> 0..MaxUint]
                                  /\ ReservedTokens(a) = Count(TxIds, Reserved(a), MaxUint)
<1> SUFFICES ASSUME TypeOK, NEW a \in Accounts
             PROVE  /\ Reserved(a) \in [TxIds -> 0..MaxUint]
                    /\ ReservedTokens(a) = Count(TxIds, Reserved(a), MaxUint)
  OBVIOUS
<1>1. Reserved(a) \in [TxIds -> 0..MaxUint]
  BY StoredQuantities, SupplyAssumption DEF Reserved
<1>2. ReservedTokens(a) = Count(TxIds, Reserved(a), MaxUint)
  <2>1. ASSUME NEW p \in TxIds \X Tokens
        PROVE  (/\ Pending(p[1]) /\ settlementTransactionById[p[1]].sender = a
                /\ p[2] <= settlementTransactionById[p[1]].quantity)
                  <=> p[2] <= Reserved(a)[p[1]]
    <3>1. p[1] \in TxIds /\ p[2] \in Nat /\ p[2] >= 1
      BY SupplyAssumption DEF Tokens
    <3>2. Reserved(a)[p[1]] = IF Pending(p[1]) /\ settlementTransactionById[p[1]].sender = a
                              THEN settlementTransactionById[p[1]].quantity ELSE 0
      BY <3>1 DEF Reserved
    <3>3. QED
      BY <3>1, <3>2
  <2>2. QED
    BY <2>1 DEF ReservedTokens, Count, Tokens
<1>3. QED
  BY <1>1, <1>2

LEMMA ReservedIsCountNext ==
    TypeOK' => \A a \in Accounts : /\ Reserved(a)' \in [TxIds -> 0..MaxUint]
                                   /\ ReservedTokens(a)' = Count(TxIds, Reserved(a)', MaxUint)
<1>1. TypeOK' => (\A a \in Accounts : /\ Reserved(a) \in [TxIds -> 0..MaxUint]
                                      /\ ReservedTokens(a) = Count(TxIds, Reserved(a), MaxUint))'
  BY ReservedIsCount, PTL
<1>2. QED
  BY <1>1 DEF Count

\* An account never has more than the supply.
LEMMA BalanceWithinSupply ==
    ASSUME LedgerInv, NEW a \in Accounts
    PROVE  balance[a] \in Nat /\ balance[a] <= InitialSupply
<1>1. balance \in [Accounts -> 0..MaxUint] /\ burned \in Nat
  BY SupplyAssumption DEF LedgerInv, TypeOK
<1>2. balance[a] <= Cardinality(Count(Accounts, balance, MaxUint))
  BY <1>1, AccountsAssumption, SupplyAssumption, CountBoundsEach
<1>3. Cardinality(Count(Accounts, balance, MaxUint)) \in Nat
  BY HeldWithinSupply DEF LedgerInv
<1>4. Cardinality(Count(Accounts, balance, MaxUint)) + burned = InitialSupply
  BY HeldIsCount DEF LedgerInv, SupplyConserved
<1>5. balance[a] \in Nat /\ InitialSupply \in Nat
  BY <1>1, SupplyAssumption
<1>6. QED
  BY <1>1, <1>2, <1>3, <1>4, <1>5

\* What is pending is part of the lock, and the lock part of the balance.
LEMMA PendingIsCovered ==
    LedgerInv /\ LocksMatchPending =>
        \A t \in TxIds : Pending(t) =>
            /\ settlementTransactionById[t].quantity
                   <= locked[settlementTransactionById[t].sender]
            /\ settlementTransactionById[t].quantity
                   <= balance[settlementTransactionById[t].sender]
            /\ settlementTransactionById[t].quantity <= InitialSupply
<1> SUFFICES ASSUME LedgerInv, LocksMatchPending, NEW t \in TxIds, Pending(t)
             PROVE  /\ settlementTransactionById[t].quantity
                           <= locked[settlementTransactionById[t].sender]
                    /\ settlementTransactionById[t].quantity
                           <= balance[settlementTransactionById[t].sender]
                    /\ settlementTransactionById[t].quantity <= InitialSupply
  OBVIOUS
<1>1. settlementTransactionById[t] \in SettlementTransaction
  BY CreatedHasTerms DEF LedgerInv, Pending, TOKEN_LOCKED, NOT_CREATED
<1>2. PICK a \in Accounts : a = settlementTransactionById[t].sender
  BY <1>1 DEF SettlementTransaction
<1>3. Reserved(a)[t] = settlementTransactionById[t].quantity
  BY <1>2 DEF Reserved
<1>4. Reserved(a)[t] <= Cardinality(Count(TxIds, Reserved(a), MaxUint))
  BY IdsAssumption, SupplyAssumption, ReservedIsCount, CountBoundsEach DEF LedgerInv
<1>5. Cardinality(Count(TxIds, Reserved(a), MaxUint)) = locked[a]
  BY ReservedIsCount DEF LedgerInv, LocksMatchPending
<1>6. locked[a] \in Nat /\ locked[a] <= balance[a]
  BY SupplyAssumption DEF LedgerInv, TypeOK, LockedWithinBalance
<1>7. balance[a] \in Nat /\ balance[a] <= InitialSupply /\ InitialSupply \in Nat
  BY BalanceWithinSupply, SupplyAssumption
<1>8. settlementTransactionById[t].quantity \in Nat
  BY StoredQuantities DEF LedgerInv
<1>9. QED
  BY <1>2, <1>3, <1>4, <1>5, <1>6, <1>7, <1>8

\* A settlement transaction that is not pending any more reserves nothing.
LEMMA Released ==
    ASSUME TypeOK, TypeOK', NEW t \in TxIds, Pending(t), ~Pending(t)',
           \A u \in TxIds \ {t} : settlementTransactionById'[u] = settlementTransactionById[u],
           NEW a \in Accounts
    PROVE  Cardinality(ReservedTokens(a)') =
               Cardinality(ReservedTokens(a))
                 - (IF a = settlementTransactionById[t].sender
                    THEN settlementTransactionById[t].quantity ELSE 0)
<1>1. PICK f : f = Reserved(a)
  OBVIOUS
<1>2. PICK g : g = Reserved(a)'
  OBVIOUS
<1>3. f \in [TxIds -> 0..MaxUint] /\ ReservedTokens(a) = Count(TxIds, f, MaxUint)
  BY <1>1, ReservedIsCount
<1>4. g \in [TxIds -> 0..MaxUint] /\ ReservedTokens(a)' = Count(TxIds, g, MaxUint)
  BY <1>2, ReservedIsCountNext
<1>5. \A u \in TxIds \ {t} : g[u] = f[u]
  BY <1>1, <1>2 DEF Reserved, Pending
<1>6. g[t] = 0
  BY <1>2 DEF Reserved
<1>7. f[t] = IF a = settlementTransactionById[t].sender
             THEN settlementTransactionById[t].quantity ELSE 0
  BY <1>1 DEF Reserved
<1>8. Cardinality(Count(TxIds, g, MaxUint)) = Cardinality(Count(TxIds, f, MaxUint)) - f[t] + g[t]
  BY <1>3, <1>4, <1>5, IdsAssumption, SupplyAssumption, CountUpdate
<1>9. Cardinality(Count(TxIds, f, MaxUint)) \in Nat /\ f[t] \in Nat
  BY <1>3, IdsAssumption, SupplyAssumption, CountFinite
<1>10. QED
  BY <1>3, <1>4, <1>6, <1>7, <1>8, <1>9

-----------------------------------------------------------------------------
(* Initiations. *)

\* The tokens that the settlement transactions of new lock of account a.
FreshlyLocked(new, a) ==
    {p \in TxIds \X Tokens :
        /\ p[1] \in new
        /\ settlementTransactionById'[p[1]].sender = a
        /\ p[2] <= settlementTransactionById'[p[1]].quantity}

\* What the three initiations have in common: settlement transactions of one
\* operation type are created and lock tokens.
Initiated(new, type) ==
    /\ new # {} /\ new \subseteq TxIds
    /\ type # REDEMPTION => \E t \in TxIds : new = {t}
    /\ \A t \in new :
          /\ ~Exists(t)
          /\ Pending(t)'
          /\ OperationType(t)' = type
          /\ type = REDEMPTION =>
                /\ settlementTransactionById'[t].sender # Issuer
                /\ settlementTransactionById'[t].receiver = Issuer
    /\ \A t \in TxIds \ new :
          /\ settlementTransactionById'[t] = settlementTransactionById[t]
          /\ OperationType(t)' = OperationType(t)
    /\ \A a \in Accounts : locked'[a] = locked[a] + Cardinality(FreshlyLocked(new, a))
    /\ bondState < STATE_REDEEMED
    /\ bondState' = IF type = REDEMPTION THEN STATE_REDEEMED ELSE STATE_RUNNING
    /\ UNCHANGED <<balance, keys, burned, authorizationsByOperator>>

\* An unused slot has no type, before and after.
LEMMA UnusedHasNoType ==
    ASSUME TypeOK, NEW t \in TxIds, ~Exists(t)
    PROVE  /\ settlementTransactionById[t] = EmptySlot
           /\ OperationType(t) = NO_TYPE
           /\ settlementTransactionById'[t] = settlementTransactionById[t]
                  => OperationType(t)' = NO_TYPE
<1>1. settlementTransactionById[t] = EmptySlot
  <2>1. PICK st : st = settlementTransactionById[t]
    OBVIOUS
  <2>2. st \in SettlementTransaction => st.status # NOT_CREATED
    BY DEF SettlementTransaction, NOT_CREATED, TOKEN_LOCKED, CASH_RECEIVED, CASH_TRANSFERRED,
           CANCELLED
  <2>3. QED
    BY <2>1, <2>2 DEF TypeOK, Exists
<1>2. EmptySlot.operationId = NoOperation /\ NoOperation \notin OperationIds
  BY IdsAssumption DEF EmptySlot
<1>3. QED
  BY <1>1, <1>2 DEF OperationType

LEMMA WithStatusFields ==
    ASSUME NEW p, NEW s
    PROVE  /\ WithStatus(p, s).operationId = p.operationId
           /\ WithStatus(p, s).sender = p.sender
           /\ WithStatus(p, s).receiver = p.receiver
           /\ WithStatus(p, s).quantity = p.quantity
           /\ WithStatus(p, s).status = s
BY DEF WithStatus

LEMMA SingleInitiation ==
    ASSUME LedgerInv, TermsOK, NEW p \in PartialSettlementTransaction,
           NEW type \in {SUBSCRIPTION, TRADE},
           CanInitiate, CreateAndLock(p), UsableFor(p.operationId, type),
           SetOperationType(p.operationId, type), bondState' = STATE_RUNNING,
           UNCHANGED <<balance, keys, burned, authorizationsByOperator>>
    PROVE  Initiated({p.txId}, type)
<1>1. /\ p.txId \in TxIds /\ p.sender \in Accounts /\ p.operationId \in OperationIds
      /\ p.quantity \in Nat /\ p.quantity <= MaxUint
  BY QuantitiesAreNat DEF PartialSettlementTransaction
<1>2. PICK t \in TxIds : t = p.txId
  BY <1>1
<1>3. PICK new : new = WithStatus(p, TOKEN_LOCKED)
  OBVIOUS
<1>4. /\ new.operationId = p.operationId /\ new.sender = p.sender /\ new.quantity = p.quantity
      /\ new.status = TOKEN_LOCKED
  BY <1>3 DEF WithStatus
<1>5. /\ settlementTransactionById'[t] = new
      /\ \A u \in TxIds \ {t} : settlementTransactionById'[u] = settlementTransactionById[u]
      /\ ~Exists(t)
  BY <1>2, <1>3 DEF CreateAndLock, CanCreate, LedgerInv, TypeOK
<1>6. OperationType(t)' = type
  BY <1>1, <1>4, <1>5 DEF OperationType, SetOperationType, LedgerInv, TypeOK
<1>7. ASSUME NEW u \in TxIds \ {t} PROVE OperationType(u)' = OperationType(u)
  <2>1. CASE Exists(u)
    BY <1>1, <1>5, <2>1, TypeIsKept DEF LedgerInv
  <2>2. CASE ~Exists(u)
    BY <1>5, <2>2, UnusedHasNoType DEF LedgerInv
  <2>3. QED
    BY <2>1, <2>2
<1>8. ASSUME NEW a \in Accounts
      PROVE  locked'[a] = locked[a] + Cardinality(FreshlyLocked({t}, a))
  <2>1. locked[a] \in Nat /\ locked'[a] = IF a = p.sender THEN locked[a] + p.quantity ELSE locked[a]
    BY <1>1, SupplyAssumption DEF CreateAndLock, Lock, LedgerInv, TypeOK
  <2>2. CASE a = p.sender
    <3>1. FreshlyLocked({t}, a) = {t} \X (1..p.quantity)
      BY <1>1, <1>4, <1>5, <2>2, SupplyAssumption DEF FreshlyLocked, Tokens
    <3>2. Cardinality({t} \X (1..p.quantity)) = p.quantity
      BY <1>1, CountOfOne
    <3>3. QED
      BY <2>1, <2>2, <3>1, <3>2
  <2>3. CASE a # p.sender
    <3>1. FreshlyLocked({t}, a) = {}
      BY <1>4, <1>5, <2>3 DEF FreshlyLocked
    <3>2. Cardinality(FreshlyLocked({t}, a)) = 0
      BY <3>1, FS_EmptySet, Zenon
    <3>3. QED
      BY <2>1, <2>3, <3>2
  <2>4. QED
    BY <2>2, <2>3
<1>9. Pending(t)' /\ type # REDEMPTION
  BY <1>4, <1>5 DEF Pending, SUBSCRIPTION, TRADE, REDEMPTION
<1>10. Initiated({t}, type)
  BY <1>5, <1>6, <1>7, <1>8, <1>9 DEF Initiated, CanInitiate
<1>11. QED
  BY <1>2, <1>10

LEMMA RedemptionInitiation ==
    ASSUME LedgerInv, TermsOK, NEW n \in 1..MaxRedemption, NEW ps \in [1..n -> RedemptionInputs],
           OracleRedemption(ps)
    PROVE  Initiated({ps[i].txId : i \in DOMAIN ps}, REDEMPTION)
<1> DEFINE new == {ps[i].txId : i \in DOMAIN ps}
<1>1. /\ 1 \in DOMAIN ps
      /\ \A i \in DOMAIN ps : /\ ps[i] \in PartialSettlementTransaction
                              /\ ps[i].sender # Issuer /\ ps[i].receiver = Issuer
  BY RedemptionCallsOfOracles
<1>2. \A i \in DOMAIN ps : /\ ps[i].txId \in TxIds /\ ps[i].operationId = ps[1].operationId
                           /\ ps[i].operationId \in OperationIds
  BY <1>1 DEF OracleRedemption, PartialSettlementTransaction
<1>3. InitiateRedemption(Registrar, ps)
  BY DEF OracleRedemption
<1>4. ASSUME NEW i \in DOMAIN ps
      PROVE  settlementTransactionById'[ps[i].txId] = WithStatus(ps[i], TOKEN_LOCKED)
  <2>1. PICK t \in TxIds : t = ps[i].txId
    BY <1>2
  <2>2. settlementTransactionById'[t]
            = WithStatus(ps[CHOOSE j \in DOMAIN ps : ps[j].txId = t], TOKEN_LOCKED)
    BY <1>3, <2>1 DEF InitiateRedemption
  <2>3. PICK k : k = CHOOSE j \in DOMAIN ps : ps[j].txId = t
    OBVIOUS
  <2>4. k \in DOMAIN ps /\ ps[k].txId = t
    BY <2>1, <2>3
  <2>5. k = i
    BY <1>3, <2>1, <2>4 DEF InitiateRedemption
  <2>6. QED
    BY <2>1, <2>2, <2>3, <2>5
<1>5. ASSUME NEW t \in TxIds \ new
      PROVE  settlementTransactionById'[t] = settlementTransactionById[t]
  BY <1>3, <1>5 DEF InitiateRedemption
<1>6. operationTypeByOperationId' =
          [operationTypeByOperationId EXCEPT ![ps[1].operationId] = REDEMPTION]
  BY <1>3 DEF InitiateRedemption, SetOperationType
<1>7. ASSUME NEW t \in new
      PROVE  /\ ~Exists(t) /\ Pending(t)' /\ OperationType(t)' = REDEMPTION
             /\ settlementTransactionById'[t].sender # Issuer
             /\ settlementTransactionById'[t].receiver = Issuer
  <2>1. PICK i \in DOMAIN ps : t = ps[i].txId
    OBVIOUS
  <2>2. PICK st : st = settlementTransactionById'[t]
    OBVIOUS
  <2>3. /\ st.operationId = ps[i].operationId /\ st.sender = ps[i].sender
        /\ st.receiver = ps[i].receiver /\ st.status = TOKEN_LOCKED
    BY <1>4, <2>1, <2>2, WithStatusFields
  <2>4. ~Exists(t)
    BY <1>3, <2>1 DEF InitiateRedemption, CanCreate
  <2>5. operationTypeByOperationId'[ps[1].operationId] = REDEMPTION
    BY <1>1, <1>2, <1>6 DEF LedgerInv, TypeOK
  <2>6. OperationType(t)' = REDEMPTION
    BY <1>2, <2>2, <2>3, <2>5 DEF OperationType
  <2>7. QED
    BY <1>1, <2>2, <2>3, <2>4, <2>6 DEF Pending
<1>8. ASSUME NEW u \in TxIds \ new PROVE OperationType(u)' = OperationType(u)
  <2>1. CASE Exists(u)
    <3>1. SetOperationType(ps[1].operationId, REDEMPTION)
      BY <1>3 DEF InitiateRedemption
    <3>2. UsableFor(ps[1].operationId, REDEMPTION) /\ ps[1].operationId \in OperationIds
      BY <1>1, <1>2 DEF OracleRedemption
    <3>3. QED
      BY <1>5, <2>1, <3>1, <3>2, TypeIsKept DEF LedgerInv
  <2>2. CASE ~Exists(u)
    BY <1>5, <2>2, UnusedHasNoType DEF LedgerInv
  <2>3. QED
    BY <2>1, <2>2
<1>9. ASSUME NEW a \in Accounts PROVE TokensDeliveredBy(ps, a) = FreshlyLocked(new, a)
  <2>1. ASSUME NEW p \in TxIds \X Tokens
        PROVE  (\E i \in DOMAIN ps : /\ ps[i].txId = p[1] /\ ps[i].sender = a
                                     /\ p[2] <= ps[i].quantity)
               <=> /\ p[1] \in new
                   /\ settlementTransactionById'[p[1]].sender = a
                   /\ p[2] <= settlementTransactionById'[p[1]].quantity
    <3>1. ASSUME NEW i \in DOMAIN ps
          PROVE  /\ settlementTransactionById'[ps[i].txId].sender = ps[i].sender
                 /\ settlementTransactionById'[ps[i].txId].quantity = ps[i].quantity
      BY <1>4, WithStatusFields
    <3>2. QED
      BY <3>1
  <2>2. QED
    BY <2>1 DEF TokensDeliveredBy, FreshlyLocked
<1>10. \A a \in Accounts : locked'[a] = locked[a] + Cardinality(FreshlyLocked(new, a))
  BY <1>3, <1>9 DEF InitiateRedemption
<1>11. new # {} /\ new \subseteq TxIds
  BY <1>1, <1>2
<1>12. /\ bondState < STATE_REDEEMED /\ bondState' = STATE_REDEEMED
       /\ UNCHANGED <<balance, keys, burned, authorizationsByOperator>>
  BY <1>3 DEF InitiateRedemption, CanInitiate
<1> HIDE DEF new
<1>13. Initiated(new, REDEMPTION)
  BY <1>5, <1>7, <1>8, <1>10, <1>11, <1>12 DEF Initiated
<1>14. QED
  BY <1>13 DEF new

\* An initiation reserves what it locks.
LEMMA InitiationReserves ==
    ASSUME TypeOK, TypeOK', NEW new, NEW type, Initiated(new, type), NEW a \in Accounts
    PROVE  Cardinality(ReservedTokens(a)') =
               Cardinality(ReservedTokens(a)) + Cardinality(FreshlyLocked(new, a))
<1>1. \A t \in TxIds \ new : Pending(t)' <=> Pending(t)
  BY DEF Initiated, Pending
<1>2. \A t \in new : Pending(t)' /\ ~Pending(t)
  BY DEF Initiated, Pending, Exists, TOKEN_LOCKED, NOT_CREATED
<1>3. \A t \in TxIds \ new : settlementTransactionById'[t] = settlementTransactionById[t]
  BY DEF Initiated
<1>4. ReservedTokens(a)' = ReservedTokens(a) \cup FreshlyLocked(new, a)
  <2>1. ReservedTokens(a)' =
          {p \in TxIds \X Tokens :
              /\ Pending(p[1])'
              /\ settlementTransactionById'[p[1]].sender = a
              /\ p[2] <= settlementTransactionById'[p[1]].quantity}
    BY DEF ReservedTokens, Pending
  <2>2. QED
    BY <1>1, <1>2, <1>3, <2>1 DEF ReservedTokens, FreshlyLocked
<1>5. ReservedTokens(a) \cap FreshlyLocked(new, a) = {}
  BY <1>2 DEF ReservedTokens, FreshlyLocked
<1>6. IsFiniteSet(ReservedTokens(a)) /\ IsFiniteSet(FreshlyLocked(new, a))
  <2>1. IsFiniteSet(Tokens)
    BY SupplyAssumption, FS_Interval DEF Tokens
  <2>2. IsFiniteSet(TxIds \X Tokens)
    BY <2>1, IdsAssumption, FS_Product, Zenon
  <2>3. /\ ReservedTokens(a) \in SUBSET (TxIds \X Tokens)
        /\ FreshlyLocked(new, a) \in SUBSET (TxIds \X Tokens)
    BY DEF ReservedTokens, FreshlyLocked
  <2>4. QED
    BY <2>2, <2>3, FS_Subset, Zenon
<1>7. /\ Cardinality(ReservedTokens(a) \cup FreshlyLocked(new, a)) =
             Cardinality(ReservedTokens(a)) + Cardinality(FreshlyLocked(new, a))
               - Cardinality(ReservedTokens(a) \cap FreshlyLocked(new, a))
      /\ Cardinality(ReservedTokens(a)) \in Nat /\ Cardinality(FreshlyLocked(new, a)) \in Nat
  BY <1>6, FS_Union, FS_CardinalityType, Zenon
<1>8. Cardinality(ReservedTokens(a) \cap FreshlyLocked(new, a)) = 0
  BY <1>5, FS_EmptySet, Zenon
<1>9. QED
  BY <1>4, <1>7, <1>8

-----------------------------------------------------------------------------
(* The steps. *)

\* Every step of the oracles is one of four.
LEMMA StepKinds ==
    ASSUME DrivenInv, [OracleNext]_vars
    PROVE  \/ \E new, type : Initiated(new, type) /\ type \in {SUBSCRIPTION, TRADE, REDEMPTION}
           \/ \E t \in TxIds : OracleCancel(t)
           \/ \E t \in TxIds : ConfirmPaymentReceived(Settler, t)
           \/ \E t \in TxIds : ConfirmPaymentTransferred(Settler, t)
           \/ UNCHANGED vars
<1>1. ASSUME NEW p \in PartialSettlementTransaction, OracleSubscription(p)
      PROVE  Initiated({p.txId}, SUBSCRIPTION)
  BY <1>1, SingleInitiation DEF OracleSubscription, InitiateSubscription, DrivenInv
<1>2. ASSUME NEW p \in PartialSettlementTransaction, OracleTrade(p)
      PROVE  Initiated({p.txId}, TRADE)
  BY <1>2, SingleInitiation DEF OracleTrade, InitiateTrade, DrivenInv
<1>3. ASSUME NEW n \in 1..MaxRedemption, NEW ps \in [1..n -> RedemptionInputs],
             OracleRedemption(ps)
      PROVE  Initiated({ps[i].txId : i \in DOMAIN ps}, REDEMPTION)
  BY <1>3, RedemptionInitiation DEF DrivenInv
<1>4. QED
  BY <1>1, <1>2, <1>3 DEF OracleNext

\* What the three steps that change a status change, and what they leave.
LEMMA StatusSteps ==
    ASSUME DrivenInv, NEW t \in TxIds
    PROVE  /\ OracleCancel(t) =>
                 /\ Pending(t) /\ SetStatus(t, CANCELLED)
                 /\ locked' = Unlock(settlementTransactionById[t].sender,
                                     settlementTransactionById[t].quantity)
                 /\ UNCHANGED <<balance, keys, burned, operationTypeByOperationId, bondState,
                                authorizationsByOperator>>
           /\ ConfirmPaymentReceived(Settler, t) =>
                 /\ Pending(t) /\ SetStatus(t, CASH_RECEIVED)
                 /\ locked' = Unlock(settlementTransactionById[t].sender,
                                     settlementTransactionById[t].quantity)
                 /\ UNCHANGED <<operationTypeByOperationId, bondState, authorizationsByOperator>>
           /\ ConfirmPaymentTransferred(Settler, t) =>
                 /\ settlementTransactionById[t].status = CASH_RECEIVED
                 /\ SetStatus(t, CASH_TRANSFERRED)
                 /\ UNCHANGED <<balanceVars, operationTypeByOperationId, bondState,
                                authorizationsByOperator>>
<1>1. ASSUME OracleCancel(t)
      PROVE  /\ Pending(t) /\ SetStatus(t, CANCELLED)
             /\ locked' = Unlock(settlementTransactionById[t].sender,
                                 settlementTransactionById[t].quantity)
             /\ UNCHANGED <<balance, keys, burned, operationTypeByOperationId, bondState,
                            authorizationsByOperator>>
  <2>1. PICK p : p = StoredTerms(t)
    OBVIOUS
  <2>2. /\ p.txId = t /\ p.sender = settlementTransactionById[t].sender
        /\ p.quantity = settlementTransactionById[t].quantity
    BY <2>1 DEF StoredTerms
  <2>3. CancelSettlementTransaction(Registrar, p)
    BY <1>1, <2>1 DEF OracleCancel
  <2>4. QED
    BY <2>2, <2>3 DEF CancelSettlementTransaction, Pending
<1>2. ASSUME ConfirmPaymentReceived(Settler, t)
      PROVE  /\ Pending(t) /\ SetStatus(t, CASH_RECEIVED)
             /\ locked' = Unlock(settlementTransactionById[t].sender,
                                 settlementTransactionById[t].quantity)
             /\ UNCHANGED <<operationTypeByOperationId, bondState, authorizationsByOperator>>
  BY <1>2 DEF ConfirmPaymentReceived, CanDeliver, Pending
<1>3. ASSUME ConfirmPaymentTransferred(Settler, t)
      PROVE  /\ settlementTransactionById[t].status = CASH_RECEIVED
             /\ SetStatus(t, CASH_TRANSFERRED)
             /\ UNCHANGED <<balanceVars, operationTypeByOperationId, bondState,
                            authorizationsByOperator>>
  BY <1>3 DEF ConfirmPaymentTransferred
<1>4. QED
  BY <1>1, <1>2, <1>3

LEMMA TermsStay ==
    ASSUME DrivenInv, [OracleNext]_vars, NEW t \in TxIds, Exists(t)
    PROVE  Exists(t)' /\ SameTerms(t)
<1>1. ASSUME NEW new, NEW type, Initiated(new, type)
      PROVE  Exists(t)' /\ SameTerms(t)
  BY <1>1 DEF Initiated, SameTerms, Exists
<1>2. ASSUME NEW u \in TxIds, NEW s \in {CASH_RECEIVED, CASH_TRANSFERRED, CANCELLED},
             Exists(u), SetStatus(u, s), UNCHANGED operationTypeByOperationId
      PROVE  Exists(t)' /\ SameTerms(t)
  <2>1. /\ settlementTransactionById'[u].status = s
        /\ \A v \in TxIds \ {u} : settlementTransactionById'[v] = settlementTransactionById[v]
        /\ SameTerms(t)
    BY <1>2, StatusOnly DEF DrivenInv, LedgerInv
  <2>2. s # NOT_CREATED
    BY DEF NOT_CREATED, CASH_RECEIVED, CASH_TRANSFERRED, CANCELLED
  <2>3. QED
    BY <2>1, <2>2 DEF Exists
<1>3. ASSUME NEW u \in TxIds, \/ OracleCancel(u)
                              \/ ConfirmPaymentReceived(Settler, u)
                              \/ ConfirmPaymentTransferred(Settler, u)
      PROVE  Exists(t)' /\ SameTerms(t)
  <2>1. Exists(u) /\ UNCHANGED operationTypeByOperationId
    BY <1>3, StatusSteps DEF Pending, Exists, TOKEN_LOCKED, CASH_RECEIVED, NOT_CREATED
  <2>2. \E s \in {CASH_RECEIVED, CASH_TRANSFERRED, CANCELLED} : SetStatus(u, s)
    BY <1>3, StatusSteps
  <2>3. QED
    BY <1>2, <2>1, <2>2
<1>4. CASE UNCHANGED vars
  BY <1>4 DEF vars, settlementVars, Exists, SameTerms, OperationType
<1>5. QED
  BY <1>1, <1>3, <1>4, StepKinds

\* The step that ends a settlement transaction, by a delivery or a
\* cancellation, frees what it had locked.
LEMMA FreedIsReleased ==
    ASSUME DrivenInv, LedgerInv', NEW t \in TxIds, Pending(t),
           NEW s \in {CASH_RECEIVED, CANCELLED}, SetStatus(t, s),
           UNCHANGED operationTypeByOperationId,
           locked' = Unlock(settlementTransactionById[t].sender,
                            settlementTransactionById[t].quantity)
    PROVE  LocksMatchPending'
<1>1. PICK st : st = settlementTransactionById[t]
  OBVIOUS
<1>2. st \in SettlementTransaction /\ Exists(t)
  BY <1>1, CreatedHasTerms DEF DrivenInv, LedgerInv, Pending, Exists, TOKEN_LOCKED, NOT_CREATED
<1>3. PICK q \in Nat : q = st.quantity
  BY <1>1, StoredQuantities DEF DrivenInv, LedgerInv
<1>4. PICK from \in Accounts : from = st.sender
  BY <1>2 DEF SettlementTransaction
<1>5. /\ ~Pending(t)'
      /\ \A u \in TxIds \ {t} : settlementTransactionById'[u] = settlementTransactionById[u]
  BY <1>2, StatusOnly DEF DrivenInv, LedgerInv, Pending, TOKEN_LOCKED, CASH_RECEIVED, CANCELLED
<1>6. ASSUME NEW a \in Accounts
      PROVE  locked'[a] = Cardinality(ReservedTokens(a)')
  <2>1. Cardinality(ReservedTokens(a)') =
            Cardinality(ReservedTokens(a)) - (IF a = from THEN q ELSE 0)
    BY <1>1, <1>3, <1>4, <1>5, Released DEF DrivenInv, LedgerInv
  <2>2. locked[a] = Cardinality(ReservedTokens(a)) /\ locked[a] \in Nat
    BY SupplyAssumption DEF DrivenInv, LedgerInv, TypeOK, LocksMatchPending
  <2>3. locked'[a] = IF a = from THEN locked[a] - q ELSE locked[a]
    BY <1>1, <1>3, <1>4 DEF Unlock, DrivenInv, LedgerInv, TypeOK
  <2>4. QED
    BY <2>1, <2>2, <2>3
<1>7. QED
  BY <1>6 DEF LocksMatchPending, ReservedTokens

LEMMA LocksStep ==
    ASSUME DrivenInv, LedgerInv', [OracleNext]_vars
    PROVE  LocksMatchPending'
<1>1. ASSUME NEW new, NEW type, Initiated(new, type)
      PROVE  LocksMatchPending'
  <2>1. ASSUME NEW a \in Accounts
        PROVE  locked'[a] = Cardinality(ReservedTokens(a)')
    <3>1. Cardinality(ReservedTokens(a)') =
              Cardinality(ReservedTokens(a)) + Cardinality(FreshlyLocked(new, a))
      BY <1>1, InitiationReserves DEF DrivenInv, LedgerInv
    <3>2. locked'[a] = locked[a] + Cardinality(FreshlyLocked(new, a))
      BY <1>1 DEF Initiated
    <3>3. locked[a] = Cardinality(ReservedTokens(a))
      BY DEF DrivenInv, LocksMatchPending
    <3>4. QED
      BY <3>1, <3>2, <3>3
  <2>2. QED
    BY <2>1 DEF LocksMatchPending, ReservedTokens
<1>2. ASSUME NEW t \in TxIds, OracleCancel(t) PROVE LocksMatchPending'
  BY <1>2, StatusSteps, FreedIsReleased
<1>3. ASSUME NEW t \in TxIds, ConfirmPaymentReceived(Settler, t) PROVE LocksMatchPending'
  BY <1>3, StatusSteps, FreedIsReleased
<1>4. ASSUME NEW t \in TxIds, ConfirmPaymentTransferred(Settler, t) PROVE LocksMatchPending'
  <2>1. settlementTransactionById[t].status = CASH_RECEIVED /\ SetStatus(t, CASH_TRANSFERRED)
        /\ locked' = locked /\ UNCHANGED operationTypeByOperationId
    BY <1>4, StatusSteps DEF balanceVars
  <2>2. /\ settlementTransactionById'[t].status = CASH_TRANSFERRED
        /\ \A u \in TxIds \ {t} : settlementTransactionById'[u] = settlementTransactionById[u]
    BY <2>1, StatusOnly DEF DrivenInv, LedgerInv, Exists, CASH_RECEIVED, NOT_CREATED
  <2>3. ~Pending(t) /\ ~Pending(t)'
    BY <2>1, <2>2 DEF Pending, TOKEN_LOCKED, CASH_RECEIVED, CASH_TRANSFERRED
  <2>4. ASSUME NEW a \in Accounts PROVE ReservedTokens(a)' = ReservedTokens(a)
    BY <2>2, <2>3 DEF ReservedTokens, Pending
  <2>5. QED
    BY <2>1, <2>4 DEF LocksMatchPending, ReservedTokens, DrivenInv
<1>5. CASE UNCHANGED vars
  BY <1>5 DEF vars, settlementVars, balanceVars, LocksMatchPending, ReservedTokens, Pending,
              DrivenInv
<1>6. QED
  BY <1>1, <1>2, <1>3, <1>4, <1>5, StepKinds

LEMMA PendingIsCoveredNext ==
    LedgerInv' /\ LocksMatchPending' =>
        \A t \in TxIds : Pending(t)' => settlementTransactionById'[t].quantity <= InitialSupply
<1>1. LedgerInv' /\ LocksMatchPending' =>
        (\A t \in TxIds : Pending(t) =>
            /\ settlementTransactionById[t].quantity
                   <= locked[settlementTransactionById[t].sender]
            /\ settlementTransactionById[t].quantity
                   <= balance[settlementTransactionById[t].sender]
            /\ settlementTransactionById[t].quantity <= InitialSupply)'
  BY PendingIsCovered, PTL
<1>2. QED
  BY <1>1 DEF Pending

LEMMA TermsStep ==
    ASSUME DrivenInv, LedgerInv', LocksMatchPending', [OracleNext]_vars
    PROVE  TermsOK'
<1> DEFINE Kept(t) ==
        /\ OperationType(t)' \in {SUBSCRIPTION, REDEMPTION, TRADE}
        /\ settlementTransactionById'[t].quantity <= InitialSupply
        /\ OperationType(t)' = REDEMPTION =>
              /\ settlementTransactionById'[t].sender # Issuer
              /\ settlementTransactionById'[t].receiver = Issuer
<1>1. ASSUME NEW t \in TxIds, Exists(t) PROVE Kept(t)
  BY <1>1, TermsStay DEF SameTerms, DrivenInv, TermsOK
<1>2. ASSUME NEW t \in TxIds, ~Exists(t), Exists(t)' PROVE Kept(t)
  <2>1. ASSUME NEW new, NEW type, Initiated(new, type), type \in {SUBSCRIPTION, TRADE, REDEMPTION}
        PROVE  Kept(t)
    <3>1. t \in new
      BY <1>2, <2>1 DEF Initiated, Exists
    <3>2. settlementTransactionById'[t].quantity <= InitialSupply
      BY <2>1, <3>1, PendingIsCoveredNext DEF Initiated
    <3>3. QED
      BY <2>1, <3>1, <3>2 DEF Initiated
  <2>2. ASSUME NEW u \in TxIds, \/ OracleCancel(u)
                                \/ ConfirmPaymentReceived(Settler, u)
                                \/ ConfirmPaymentTransferred(Settler, u)
        PROVE  FALSE
    <3>1. Exists(u) /\ UNCHANGED operationTypeByOperationId
      BY <2>2, StatusSteps DEF Pending, Exists, TOKEN_LOCKED, CASH_RECEIVED, NOT_CREATED
    <3>2. \E s \in {CASH_RECEIVED, CASH_TRANSFERRED, CANCELLED} : SetStatus(u, s)
      BY <2>2, StatusSteps
    <3>3. \A v \in TxIds \ {u} : settlementTransactionById'[v] = settlementTransactionById[v]
      BY <3>1, <3>2, StatusOnly DEF DrivenInv, LedgerInv
    <3>4. QED
      BY <1>2, <3>1, <3>3 DEF Exists
  <2>3. CASE UNCHANGED vars
    BY <1>2, <2>3 DEF vars, settlementVars, Exists
  <2>4. QED
    BY <2>1, <2>2, <2>3, StepKinds
<1>3. \A t \in TxIds : Exists(t)' => Kept(t)
  BY <1>1, <1>2
<1>4. QED
  BY <1>3 DEF TermsOK, Exists

-----------------------------------------------------------------------------
(* What redemptions burn. *)

\* The delivered redemptions, and what each of them burned.
Redeemed(t) ==
    /\ settlementTransactionById[t].status \in {CASH_RECEIVED, CASH_TRANSFERRED}
    /\ OperationType(t) = REDEMPTION

BurnedBy ==
    [t \in TxIds |-> IF Redeemed(t) THEN settlementTransactionById[t].quantity ELSE 0]

LEMMA RedeemedIsCount ==
    TypeOK => /\ BurnedBy \in [TxIds -> 0..MaxUint]
              /\ RedeemedTokens = Count(TxIds, BurnedBy, MaxUint)
<1> SUFFICES ASSUME TypeOK
             PROVE  /\ BurnedBy \in [TxIds -> 0..MaxUint]
                    /\ RedeemedTokens = Count(TxIds, BurnedBy, MaxUint)
  OBVIOUS
<1>1. BurnedBy \in [TxIds -> 0..MaxUint]
  BY StoredQuantities, SupplyAssumption DEF BurnedBy
<1>2. ASSUME NEW p \in TxIds \X Tokens
      PROVE  (Redeemed(p[1]) /\ p[2] <= settlementTransactionById[p[1]].quantity)
                <=> p[2] <= BurnedBy[p[1]]
  <2>1. p[1] \in TxIds /\ p[2] \in Nat /\ p[2] >= 1
    BY SupplyAssumption DEF Tokens
  <2>2. BurnedBy[p[1]] = IF Redeemed(p[1]) THEN settlementTransactionById[p[1]].quantity ELSE 0
    BY <2>1 DEF BurnedBy
  <2>3. QED
    BY <2>1, <2>2
<1>3. QED
  BY <1>1, <1>2 DEF RedeemedTokens, Redeemed, Count, Tokens

LEMMA RedeemedIsCountNext ==
    TypeOK' => /\ BurnedBy' \in [TxIds -> 0..MaxUint]
               /\ RedeemedTokens' = Count(TxIds, BurnedBy', MaxUint)
<1>1. TypeOK' => (/\ BurnedBy \in [TxIds -> 0..MaxUint]
                  /\ RedeemedTokens = Count(TxIds, BurnedBy, MaxUint))'
  BY RedeemedIsCount, PTL
<1>2. QED
  BY <1>1 DEF Count

\* Nothing is redeemed, or ceases to be.
LEMMA NothingBurned ==
    ASSUME DrivenInv, \A t \in TxIds :
               /\ Redeemed(t)' <=> Redeemed(t)
               /\ Redeemed(t) => settlementTransactionById'[t].quantity
                                     = settlementTransactionById[t].quantity,
           burned' = burned
    PROVE  BurnedByRedemption'
<1>1. RedeemedTokens = {p \in TxIds \X Tokens :
                            Redeemed(p[1]) /\ p[2] <= settlementTransactionById[p[1]].quantity}
  BY DEF RedeemedTokens, Redeemed
<1>2. RedeemedTokens' = {p \in TxIds \X Tokens :
                            Redeemed(p[1])' /\ p[2] <= settlementTransactionById'[p[1]].quantity}
  BY DEF RedeemedTokens, Redeemed
<1>3. RedeemedTokens' = RedeemedTokens
  BY <1>1, <1>2
<1>4. QED
  BY <1>3 DEF DrivenInv, BurnedByRedemption

\* A redemption that is delivered burns what it carried.
LEMMA DeliveryBurns ==
    ASSUME DrivenInv, LedgerInv', NEW t \in TxIds, ConfirmPaymentReceived(Settler, t),
           OperationType(t) = REDEMPTION
    PROVE  BurnedByRedemption'
<1>1. /\ Pending(t) /\ SetStatus(t, CASH_RECEIVED)
      /\ UNCHANGED operationTypeByOperationId
      /\ burned' = burned + settlementTransactionById[t].quantity
  BY StatusSteps DEF ConfirmPaymentReceived
<1>2. /\ settlementTransactionById'[t].status = CASH_RECEIVED
      /\ \A u \in TxIds \ {t} : settlementTransactionById'[u] = settlementTransactionById[u]
      /\ \A u \in TxIds : SameTerms(u)
  BY <1>1, StatusOnly DEF DrivenInv, LedgerInv, Pending, Exists, TOKEN_LOCKED, NOT_CREATED
<1>3. ~Redeemed(t) /\ Redeemed(t)'
  BY <1>1, <1>2 DEF Redeemed, SameTerms, Pending, TOKEN_LOCKED, CASH_RECEIVED, CASH_TRANSFERRED
<1>4. PICK f : f = BurnedBy
  OBVIOUS
<1>5. PICK g : g = BurnedBy'
  OBVIOUS
<1>6. f \in [TxIds -> 0..MaxUint] /\ RedeemedTokens = Count(TxIds, f, MaxUint)
  BY <1>4, RedeemedIsCount DEF DrivenInv, LedgerInv
<1>7. g \in [TxIds -> 0..MaxUint] /\ RedeemedTokens' = Count(TxIds, g, MaxUint)
  BY <1>5, RedeemedIsCountNext DEF LedgerInv
<1>8. \A u \in TxIds \ {t} : g[u] = f[u]
  BY <1>2, <1>4, <1>5 DEF BurnedBy, Redeemed, SameTerms
<1>9. f[t] = 0 /\ g[t] = settlementTransactionById[t].quantity
  BY <1>2, <1>3, <1>4, <1>5 DEF BurnedBy, SameTerms
<1>10. Cardinality(Count(TxIds, g, MaxUint)) = Cardinality(Count(TxIds, f, MaxUint)) - f[t] + g[t]
  BY <1>6, <1>7, <1>8, IdsAssumption, SupplyAssumption, CountUpdate
<1>11. burned = Cardinality(RedeemedTokens)
  BY DEF DrivenInv, BurnedByRedemption
<1>12. Cardinality(Count(TxIds, f, MaxUint)) \in Nat
       /\ settlementTransactionById[t].quantity \in Nat
  BY IdsAssumption, SupplyAssumption, CountFinite, StoredQuantities DEF DrivenInv, LedgerInv
<1>13. burned' = Cardinality(RedeemedTokens')
  BY <1>1, <1>6, <1>7, <1>9, <1>10, <1>11, <1>12
<1>14. QED
  BY <1>13 DEF BurnedByRedemption

LEMMA BurnedStep ==
    ASSUME DrivenInv, LedgerInv', [OracleNext]_vars
    PROVE  BurnedByRedemption'
<1>1. ASSUME NEW new, NEW type, Initiated(new, type)
      PROVE  BurnedByRedemption'
  <2>1. ASSUME NEW t \in TxIds
        PROVE  /\ Redeemed(t)' <=> Redeemed(t)
               /\ Redeemed(t) => settlementTransactionById'[t].quantity
                                     = settlementTransactionById[t].quantity
    <3>1. CASE t \in new
      BY <1>1, <3>1 DEF Initiated, Redeemed, Exists, Pending, NOT_CREATED, TOKEN_LOCKED,
                        CASH_RECEIVED, CASH_TRANSFERRED
    <3>2. CASE t \notin new
      BY <1>1, <3>2 DEF Initiated, Redeemed
    <3>3. QED
      BY <3>1, <3>2
  <2>2. burned' = burned
    BY <1>1 DEF Initiated
  <2>3. QED
    BY <2>1, <2>2, NothingBurned
<1>2. ASSUME NEW t \in TxIds, NEW s \in {CASH_RECEIVED, CASH_TRANSFERRED, CANCELLED},
             Exists(t), SetStatus(t, s), UNCHANGED <<operationTypeByOperationId, burned>>,
             \/ OperationType(t) # REDEMPTION
             \/ s = CANCELLED /\ Pending(t)
             \/ s = CASH_TRANSFERRED /\ settlementTransactionById[t].status = CASH_RECEIVED
      PROVE  BurnedByRedemption'
  <2>1. /\ settlementTransactionById'[t].status = s
        /\ \A u \in TxIds \ {t} : settlementTransactionById'[u] = settlementTransactionById[u]
        /\ \A u \in TxIds : SameTerms(u)
    BY <1>2, StatusOnly DEF DrivenInv, LedgerInv
  <2>2. Redeemed(t)' <=> Redeemed(t)
    BY <1>2, <2>1 DEF Redeemed, SameTerms, Pending, TOKEN_LOCKED, CASH_RECEIVED, CASH_TRANSFERRED,
                      CANCELLED
  <2>3. \A u \in TxIds : /\ Redeemed(u)' <=> Redeemed(u)
                         /\ settlementTransactionById'[u].quantity
                                = settlementTransactionById[u].quantity
    BY <2>1, <2>2 DEF Redeemed, SameTerms
  <2>4. QED
    BY <1>2, <2>3, NothingBurned
<1>3. ASSUME NEW t \in TxIds, OracleCancel(t) PROVE BurnedByRedemption'
  <2>1. Pending(t) /\ SetStatus(t, CANCELLED) /\ UNCHANGED <<operationTypeByOperationId, burned>>
    BY <1>3, StatusSteps
  <2>2. Exists(t)
    BY <2>1 DEF Pending, Exists, TOKEN_LOCKED, NOT_CREATED
  <2>3. QED
    BY <1>2, <2>1, <2>2
<1>4. ASSUME NEW t \in TxIds, ConfirmPaymentReceived(Settler, t) PROVE BurnedByRedemption'
  <2>1. CASE OperationType(t) = REDEMPTION
    BY <1>4, <2>1, DeliveryBurns
  <2>2. CASE OperationType(t) # REDEMPTION
    <3>1. Pending(t) /\ SetStatus(t, CASH_RECEIVED) /\ UNCHANGED operationTypeByOperationId
      BY <1>4, StatusSteps
    <3>2. burned' = burned
      BY <1>4, <2>2 DEF ConfirmPaymentReceived
    <3>3. Exists(t)
      BY <3>1 DEF Pending, Exists, TOKEN_LOCKED, NOT_CREATED
    <3>4. QED
      BY <1>2, <2>2, <3>1, <3>2, <3>3
  <2>3. QED
    BY <2>1, <2>2
<1>5. ASSUME NEW t \in TxIds, ConfirmPaymentTransferred(Settler, t) PROVE BurnedByRedemption'
  <2>1. settlementTransactionById[t].status = CASH_RECEIVED /\ SetStatus(t, CASH_TRANSFERRED)
        /\ UNCHANGED <<operationTypeByOperationId, burned>>
    BY <1>5, StatusSteps DEF balanceVars
  <2>2. Exists(t)
    BY <2>1 DEF Exists, CASH_RECEIVED, NOT_CREATED
  <2>3. QED
    BY <1>2, <2>1, <2>2
<1>6. CASE UNCHANGED vars
  BY <1>6, NothingBurned DEF vars, balanceVars, settlementVars, Redeemed, OperationType
<1>7. QED
  BY <1>1, <1>3, <1>4, <1>5, <1>6, StepKinds

-----------------------------------------------------------------------------
(* The invariant. *)

LEMMA InitDriven == Init => DrivenInv
<1> SUFFICES ASSUME Init PROVE DrivenInv
  OBVIOUS
<1>1. LedgerInv
  BY InitLedger
<1>2. \A t \in TxIds : settlementTransactionById[t].status = NOT_CREATED
  BY DEF Init, EmptySlot
<1>3. TermsOK
  BY <1>2 DEF TermsOK, Exists
<1>4. LocksMatchPending
  <2>1. ASSUME NEW a \in Accounts PROVE ReservedTokens(a) = {}
    BY <1>2 DEF ReservedTokens, Pending, NOT_CREATED, TOKEN_LOCKED
  <2>2. \A a \in Accounts : Cardinality(ReservedTokens(a)) = 0
    BY <2>1, FS_EmptySet, Zenon
  <2>3. QED
    BY <2>2 DEF LocksMatchPending, Init
<1>5. BurnedByRedemption
  <2>1. RedeemedTokens = {}
    BY <1>2 DEF RedeemedTokens, NOT_CREATED, CASH_RECEIVED, CASH_TRANSFERRED
  <2>2. Cardinality(RedeemedTokens) = 0
    BY <2>1, FS_EmptySet, Zenon
  <2>3. QED
    BY <2>2 DEF BurnedByRedemption, Init
<1>6. QED
  BY <1>1, <1>3, <1>4, <1>5 DEF DrivenInv

LEMMA NextDriven == DrivenInv /\ [OracleNext]_vars => DrivenInv'
<1> SUFFICES ASSUME DrivenInv, [OracleNext]_vars PROVE DrivenInv'
  OBVIOUS
<1>1. LedgerInv'
  BY OracleNextIsNext, NextLedger DEF DrivenInv, LedgerInv
<1>2. QED
  BY <1>1, LocksStep, TermsStep, BurnedStep DEF DrivenInv

\* Called by the oracles, the contract keeps the ledger invariant and all of
\* its settlement transactions stay as they were agreed.
THEOREM DrivenInvariant == OracleSpec => []DrivenInv
BY InitDriven, NextDriven, PTL DEF OracleSpec

\* The lock of an account is what its pending settlement transactions will
\* deliver: no delivery or cancellation frees another's tokens or strands a
\* lock.
THEOREM LocksAreExact == OracleSpec => []LocksMatchPending
<1>1. DrivenInv => LocksMatchPending
  BY DEF DrivenInv
<1>2. QED
  BY DrivenInvariant, <1>1, PTL

\* Tokens are destroyed by delivered redemptions only, and by each of them
\* once.
THEOREM RedemptionsBurn == OracleSpec => []BurnedByRedemption
<1>1. DrivenInv => BurnedByRedemption
  BY DEF DrivenInv
<1>2. QED
  BY DrivenInvariant, <1>1, PTL

\* Every require of confirmPaymentReceived holds of what is pending.
LEMMA PendingIsDeliverable ==
    ASSUME DrivenInv, NEW t \in TxIds, Pending(t)
    PROVE  CanDeliver(t)
<1>1. PICK st : st = settlementTransactionById[t]
  OBVIOUS
<1>2. Exists(t) /\ st \in SettlementTransaction
  BY <1>1, CreatedHasTerms DEF DrivenInv, LedgerInv, Pending, Exists, TOKEN_LOCKED, NOT_CREATED
<1>3. PICK from \in Accounts, to \in Accounts, q \in Nat :
          from = st.sender /\ to = st.receiver /\ q = st.quantity
  BY <1>1, <1>2, StoredQuantities DEF DrivenInv, LedgerInv, SettlementTransaction
<1>4. /\ OperationType(t) \in {SUBSCRIPTION, REDEMPTION, TRADE}
      /\ OperationType(t) = REDEMPTION => from # Issuer /\ to = Issuer
  BY <1>1, <1>2, <1>3 DEF DrivenInv, TermsOK
<1>5. q <= balance[from] /\ q <= locked[from]
  BY <1>1, <1>3, PendingIsCovered DEF DrivenInv
<1>6. \A a \in Accounts : balance[a] \in Nat /\ locked[a] \in Nat /\ locked[a] <= balance[a]
  BY SupplyAssumption DEF DrivenInv, LedgerInv, TypeOK, LockedWithinBalance
<1>7. CanUnlock(from, q)
  BY <1>5, <1>6 DEF CanUnlock
<1>8. ASSUME OperationType(t) = REDEMPTION
      PROVE  CanBurn(TransferLocked(from, to, q), Unlock(from, q), to, q)
  <2>1. from # to
    BY <1>4, <1>8
  <2>2. TransferLocked(from, to, q)[to] = balance[to] + q
    BY <2>1 DEF TransferLocked, DrivenInv, LedgerInv, TypeOK
  <2>3. Unlock(from, q)[to] = locked[to]
    BY <2>1 DEF Unlock, DrivenInv, LedgerInv, TypeOK
  <2>4. QED
    BY <1>6, <2>2, <2>3 DEF CanBurn, Disposable
<1>9. st.status = TOKEN_LOCKED
  BY <1>1 DEF Pending
<1>10. QED
  BY <1>1, <1>3, <1>4, <1>7, <1>8, <1>9 DEF CanDeliver, Delivered

\* Cash the settler received can always be answered by the delivery, the
\* burn of a redemption included.
THEOREM NothingPendingIsStuck == OracleSpec => []PendingCanSettle
<1>1. DrivenInv => PendingCanSettle
  BY PendingIsDeliverable DEF PendingCanSettle
<1>2. QED
  BY DrivenInvariant, <1>1, PTL

-----------------------------------------------------------------------------
(* The terms, whoever calls. *)

\* What TermsAreKept says of one settlement transaction.
TermsHold(t) ==
    /\ \E s \in Advanced(settlementTransactionById[t].status) :
          settlementTransactionById'[t] = [settlementTransactionById[t] EXCEPT !.status = s]
    /\ OperationType(t)' # OperationType(t) =>
          \E u \in TxIds : ~Exists(u) /\ Exists(u)' /\ SharesOperation(u, t)'

\* Nothing happens to a settlement transaction that is not touched.
LEMMA UntouchedTerms ==
    ASSUME TypeOK, NEW t \in TxIds, Exists(t),
           settlementTransactionById'[t] = settlementTransactionById[t]
    PROVE  \E s \in Advanced(settlementTransactionById[t].status) :
              settlementTransactionById'[t] = [settlementTransactionById[t] EXCEPT !.status = s]
<1>1. PICK st : st = settlementTransactionById[t]
  OBVIOUS
<1>2. st \in SettlementTransaction
  BY <1>1, CreatedHasTerms DEF Exists
<1>3. st = [st EXCEPT !.status = st.status]
  BY <1>2 DEF SettlementTransaction
<1>4. st.status \in Advanced(st.status)
  BY DEF Advanced
<1>5. QED
  BY <1>1, <1>3, <1>4

\* An initiation changes the types of the settlement transactions that share
\* its operation id, and touches none of them.
LEMMA InitiationTerms ==
    ASSUME TypeOK, NEW t \in TxIds, Exists(t),
           settlementTransactionById'[t] = settlementTransactionById[t],
           NEW u \in TxIds, ~Exists(u), settlementTransactionById'[u].status = TOKEN_LOCKED,
           NEW op \in OperationIds, settlementTransactionById'[u].operationId = op,
           NEW type, SetOperationType(op, type)
    PROVE  TermsHold(t)
<1>1. Exists(u)'
  BY DEF Exists, TOKEN_LOCKED, NOT_CREATED
<1>2. ASSUME settlementTransactionById[t].operationId # op
      PROVE  OperationType(t)' = OperationType(t)
  BY <1>2 DEF OperationType, SetOperationType, TypeOK
<1>3. settlementTransactionById[t].operationId = op => SharesOperation(u, t)'
  BY DEF SharesOperation
<1>4. QED
  BY <1>1, <1>2, <1>3, UntouchedTerms DEF TermsHold

LEMMA SingleInitiationTerms ==
    ASSUME TypeOK, NEW t \in TxIds, Exists(t),
           NEW p \in PartialSettlementTransaction, CreateAndLock(p),
           NEW type, SetOperationType(p.operationId, type)
    PROVE  TermsHold(t)
<1>1. p.txId \in TxIds /\ p.operationId \in OperationIds
  BY DEF PartialSettlementTransaction
<1>2. /\ settlementTransactionById'[p.txId] = WithStatus(p, TOKEN_LOCKED)
      /\ ~Exists(p.txId)
  BY <1>1 DEF CreateAndLock, CanCreate, TypeOK
<1>3. settlementTransactionById'[t] = settlementTransactionById[t]
  <2>1. t # p.txId
    BY <1>2
  <2>2. QED
    BY <1>1, <2>1 DEF CreateAndLock, TypeOK
<1>4. /\ settlementTransactionById'[p.txId].status = TOKEN_LOCKED
      /\ settlementTransactionById'[p.txId].operationId = p.operationId
  BY <1>2, WithStatusFields
<1>5. QED
  BY <1>1, <1>2, <1>3, <1>4, InitiationTerms

LEMMA RedemptionTerms ==
    ASSUME TypeOK, NEW t \in TxIds, Exists(t), NEW caller \in Addresses,
           NEW ps \in RedemptionCalls, InitiateRedemption(caller, ps)
    PROVE  TermsHold(t)
<1>1. PICK n \in 0..MaxRedemption : ps \in [1..n -> PartialSettlementTransaction]
  BY DEF RedemptionCalls
<1>2. 1 \in DOMAIN ps
  <2>1. n # 0
    BY <1>1 DEF InitiateRedemption
  <2>2. QED
    BY <1>1, <2>1, IdsAssumption
<1>3. ps[1].txId \in TxIds /\ ps[1].operationId \in OperationIds
  BY <1>1, <1>2 DEF PartialSettlementTransaction
<1>4. PICK u \in TxIds : u = ps[1].txId
  BY <1>3
<1>5. settlementTransactionById'[u] = WithStatus(ps[1], TOKEN_LOCKED)
  <2>1. settlementTransactionById'[u]
            = WithStatus(ps[CHOOSE j \in DOMAIN ps : ps[j].txId = u], TOKEN_LOCKED)
    BY <1>2, <1>4 DEF InitiateRedemption
  <2>2. PICK k : k = CHOOSE j \in DOMAIN ps : ps[j].txId = u
    OBVIOUS
  <2>3. k \in DOMAIN ps /\ ps[k].txId = u
    BY <1>2, <1>4, <2>2
  <2>4. k = 1
    BY <1>2, <1>4, <2>3 DEF InitiateRedemption
  <2>5. QED
    BY <2>1, <2>2, <2>4
<1>6. /\ ~Exists(u)
      /\ settlementTransactionById'[u].status = TOKEN_LOCKED
      /\ settlementTransactionById'[u].operationId = ps[1].operationId
  BY <1>2, <1>4, <1>5, WithStatusFields DEF InitiateRedemption, CanCreate
<1>7. settlementTransactionById'[t] = settlementTransactionById[t]
  BY DEF InitiateRedemption, CanCreate
<1>8. SetOperationType(ps[1].operationId, REDEMPTION)
  BY DEF InitiateRedemption
<1>9. QED
  BY <1>3, <1>6, <1>7, <1>8, InitiationTerms

\* A confirmation or a cancellation advances the status of one settlement
\* transaction and leaves every type alone.
LEMMA StatusTerms ==
    ASSUME TypeOK, NEW t \in TxIds, Exists(t), NEW u \in TxIds, Exists(u),
           NEW s \in {CASH_RECEIVED, CASH_TRANSFERRED, CANCELLED},
           s \in Advanced(settlementTransactionById[u].status),
           SetStatus(u, s), UNCHANGED operationTypeByOperationId
    PROVE  TermsHold(t)
<1>1. OperationType(t)' = OperationType(t)
  BY StatusOnly DEF SameTerms
<1>2. CASE t = u
  <2>1. settlementTransactionById'[t] = [settlementTransactionById[t] EXCEPT !.status = s]
    BY <1>2 DEF SetStatus, TypeOK
  <2>2. QED
    BY <1>1, <1>2, <2>1 DEF TermsHold
<1>3. CASE t # u
  <2>1. settlementTransactionById'[t] = settlementTransactionById[t]
    BY <1>3 DEF SetStatus, TypeOK
  <2>2. QED
    BY <1>1, <2>1, UntouchedTerms DEF TermsHold
<1>4. QED
  BY <1>2, <1>3

LEMMA TermsHoldStep ==
    ASSUME TypeOK, [Next]_vars, NEW t \in TxIds, Exists(t)
    PROVE  TermsHold(t)
<1>1. ASSUME NEW caller \in Addresses, NEW p \in PartialSettlementTransaction,
             InitiateSubscription(caller, p) \/ InitiateTrade(caller, p)
      PROVE  TermsHold(t)
  BY <1>1, SingleInitiationTerms DEF InitiateSubscription, InitiateTrade
<1>2. ASSUME NEW caller \in Addresses, NEW ps \in RedemptionCalls, InitiateRedemption(caller, ps)
      PROVE  TermsHold(t)
  BY <1>2, RedemptionTerms
<1>3. ASSUME NEW caller \in Addresses, NEW p \in PartialSettlementTransaction,
             CancelSettlementTransaction(caller, p)
      PROVE  TermsHold(t)
  <2>1. /\ p.txId \in TxIds /\ settlementTransactionById[p.txId].status = TOKEN_LOCKED
        /\ SetStatus(p.txId, CANCELLED) /\ UNCHANGED operationTypeByOperationId
    BY <1>3 DEF CancelSettlementTransaction, PartialSettlementTransaction
  <2>2. Exists(p.txId) /\ CANCELLED \in Advanced(settlementTransactionById[p.txId].status)
    BY <2>1 DEF Exists, Advanced, TOKEN_LOCKED, CASH_RECEIVED, NOT_CREATED
  <2>3. QED
    BY <2>1, <2>2, StatusTerms
<1>4. ASSUME NEW caller \in Addresses, NEW u \in TxIds, ConfirmPaymentReceived(caller, u)
      PROVE  TermsHold(t)
  <2>1. /\ settlementTransactionById[u].status = TOKEN_LOCKED
        /\ SetStatus(u, CASH_RECEIVED) /\ UNCHANGED operationTypeByOperationId
    BY <1>4 DEF ConfirmPaymentReceived, CanDeliver
  <2>2. Exists(u) /\ CASH_RECEIVED \in Advanced(settlementTransactionById[u].status)
    BY <2>1 DEF Exists, Advanced, TOKEN_LOCKED, NOT_CREATED
  <2>3. QED
    BY <2>1, <2>2, StatusTerms
<1>5. ASSUME NEW caller \in Addresses, NEW u \in TxIds, ConfirmPaymentTransferred(caller, u)
      PROVE  TermsHold(t)
  <2>1. /\ settlementTransactionById[u].status = CASH_RECEIVED
        /\ SetStatus(u, CASH_TRANSFERRED) /\ UNCHANGED operationTypeByOperationId
    BY <1>5 DEF ConfirmPaymentTransferred
  <2>2. Exists(u) /\ CASH_TRANSFERRED \in Advanced(settlementTransactionById[u].status)
    BY <2>1 DEF Exists, Advanced, CASH_RECEIVED, TOKEN_LOCKED, NOT_CREATED
  <2>3. QED
    BY <2>1, <2>2, StatusTerms
<1>6. ASSUME UNCHANGED settlementVars PROVE TermsHold(t)
  <2>1. /\ settlementTransactionById'[t] = settlementTransactionById[t]
        /\ OperationType(t)' = OperationType(t)
    BY <1>6 DEF settlementVars, OperationType
  <2>2. QED
    BY <2>1, UntouchedTerms DEF TermsHold
<1>7. ASSUME NEW caller \in Addresses,
             \/ \E quantity \in Quantities : Burn(caller, quantity)
             \/ \E role \in Roles, operator \in Addresses :
                   \/ AuthorizeOperator(caller, role, operator)
                   \/ RevokeOperatorAuthorization(caller, operator, role)
      PROVE  UNCHANGED settlementVars
  BY <1>7 DEF Burn, AuthorizeOperator, RevokeOperatorAuthorization
<1>8. (UNCHANGED vars) => UNCHANGED settlementVars
  BY DEF vars
<1>9. QED
  BY <1>1, <1>2, <1>3, <1>4, <1>5, <1>6, <1>7, <1>8 DEF Next

\* Whoever calls with whatever arguments, and whatever operation ids they
\* use again: the terms of a settlement transaction stay, its status goes
\* forward, and only an initiation under its operation id changes its type.
THEOREM TheTermsAreKept == Spec => TermsAreKept
<1> DEFINE Kept == \A t \in TxIds : Exists(t) =>
              /\ \E s \in Advanced(settlementTransactionById[t].status) :
                    settlementTransactionById'[t]
                        = [settlementTransactionById[t] EXCEPT !.status = s]
              /\ OperationType(t)' # OperationType(t) =>
                    \E u \in TxIds : ~Exists(u) /\ Exists(u)' /\ SharesOperation(u, t)'
<1>1. LedgerInv /\ [Next]_vars => [Kept]_vars
  BY TermsHoldStep DEF LedgerInv, TermsHold
<1>2. QED
  BY <1>1, InitLedger, NextLedger, PTL DEF Spec, TermsAreKept

-----------------------------------------------------------------------------
(* The delivery-versus-payment ledger. *)

\* Every stage of a deal is a status of its settlement transaction.
LEMMA Stages ==
    ASSUME TypeOK, NEW t \in TxIds
    PROVE  /\ Stage(t) = "open" <=> ~Exists(t)
           /\ Stage(t) = "agreed" <=> Pending(t)
<1>1. settlementTransactionById[t].status
          \in {NOT_CREATED, TOKEN_LOCKED, CASH_RECEIVED, CASH_TRANSFERRED, CANCELLED}
  <2>1. PICK st : st = settlementTransactionById[t]
    OBVIOUS
  <2>2. st \in SettlementTransaction \/ st = EmptySlot
    BY <2>1 DEF TypeOK
  <2>3. QED
    BY <2>1, <2>2 DEF SettlementTransaction, EmptySlot
<1>2. QED
  BY <1>1 DEF Stage, Pending, Exists, NOT_CREATED, TOKEN_LOCKED, CASH_RECEIVED, CASH_TRANSFERRED,
              CANCELLED

\* The units promised are the tokens the pending settlement transactions
\* reserve: none of them carries more than the supply.
LEMMA PromisedIsReserved ==
    DrivenInv => \A a \in Accounts : DVP!Promised(AbstractDeal, a) = ReservedTokens(a)
<1> SUFFICES ASSUME DrivenInv, NEW a \in Accounts
             PROVE  DVP!Promised(AbstractDeal, a) = ReservedTokens(a)
  OBVIOUS
<1>1. ASSUME NEW t \in TxIds, NEW n
      PROVE  (/\ AbstractDeal[t].stage = "agreed" /\ AbstractDeal[t].seller = a
              /\ n <= AbstractDeal[t].quantity)
                <=> (/\ Pending(t) /\ settlementTransactionById[t].sender = a
                     /\ n <= settlementTransactionById[t].quantity)
  <2>1. /\ AbstractDeal[t].stage = Stage(t)
        /\ AbstractDeal[t].seller = settlementTransactionById[t].sender
        /\ AbstractDeal[t].quantity = settlementTransactionById[t].quantity
    BY DEF AbstractDeal
  <2>2. Stage(t) = "agreed" <=> Pending(t)
    BY Stages DEF DrivenInv, LedgerInv
  <2>3. QED
    BY <2>1, <2>2, Zenon
<1>2. \A t \in TxIds, n \in Tokens :
         Pending(t) /\ n <= settlementTransactionById[t].quantity => n \in 1..InitialSupply
  <2>1. \A t \in TxIds : Pending(t) => /\ settlementTransactionById[t].quantity \in Nat
                                       /\ settlementTransactionById[t].quantity <= InitialSupply
    BY PendingIsCovered, StoredQuantities DEF DrivenInv, LedgerInv
  <2>2. QED
    BY <2>1, SupplyAssumption DEF Tokens
<1>3. 1..InitialSupply \subseteq Tokens
  BY SupplyAssumption DEF Tokens
<1>4. DVP!Promised(AbstractDeal, a)
        = {p \in TxIds \X (1..InitialSupply) :
              /\ Pending(p[1]) /\ settlementTransactionById[p[1]].sender = a
              /\ p[2] <= settlementTransactionById[p[1]].quantity}
  <2>1. \A p \in TxIds \X (1..InitialSupply) : p[1] \in TxIds
    OBVIOUS
  <2>2. QED
    BY <1>1, <2>1, Zenon DEF DVP!Promised, DVP!Units
<1>5. QED
  BY <1>2, <1>3, <1>4 DEF ReservedTokens

LEMMA PromisedIsReservedNext ==
    DrivenInv' => \A a \in Accounts : DVP!Promised(AbstractDeal', a) = ReservedTokens(a)'
<1>1. DrivenInv' => (\A a \in Accounts : DVP!Promised(AbstractDeal, a) = ReservedTokens(a))'
  BY PromisedIsReserved, PTL
<1>2. QED
  BY <1>1 DEF DVP!Promised

LEMMA SameCardinality == \A S : DVP!Cardinality(S) = Cardinality(S)
BY DEF DVP!Cardinality, Cardinality

\* A deal that is agreed is covered.
LEMMA AgreedIsCovered ==
    ASSUME DrivenInv', UNCHANGED balance, NEW a \in Accounts
    PROVE  DVP!Covered(AbstractDeal', a)
<1>1. DVP!Promised(AbstractDeal', a) = ReservedTokens(a)'
  BY PromisedIsReservedNext
<1>2. Cardinality(ReservedTokens(a)') = locked'[a]
  BY DEF DrivenInv, LocksMatchPending, ReservedTokens
<1>3. locked'[a] <= balance[a]
  BY DEF DrivenInv, LedgerInv, LockedWithinBalance
<1>4. QED
  BY <1>1, <1>2, <1>3, SameCardinality DEF DVP!Covered

\* Records of the five fields of a deal that agree are one; one that differs
\* by its stage alone is the other with that stage.
LEMMA NewStage ==
    ASSUME NEW d, NEW e, NEW seller, NEW buyer, NEW quantity, NEW redeems, NEW old, NEW new,
           d = [seller |-> seller, buyer |-> buyer, quantity |-> quantity,
                redeems |-> redeems, stage |-> old],
           e = [seller |-> seller, buyer |-> buyer, quantity |-> quantity,
                redeems |-> redeems, stage |-> new]
    PROVE  e = [d EXCEPT !.stage = new]
<1>1. PICK x : x = [d EXCEPT !.stage = new]
  OBVIOUS
<1>2. x = [seller |-> x.seller, buyer |-> x.buyer, quantity |-> x.quantity,
           redeems |-> x.redeems, stage |-> x.stage]
  BY <1>1
<1>3. /\ x.seller = seller /\ x.buyer = buyer /\ x.quantity = quantity
      /\ x.redeems = redeems /\ x.stage = new
  BY <1>1
<1>4. QED
  BY <1>1, <1>2, <1>3

\* A step that changes the status of one settlement transaction changes the
\* stage of its deal and nothing else of any deal.
LEMMA StageOnly ==
    ASSUME DrivenInv, NEW t \in TxIds, Exists(t),
           NEW s \in {CASH_RECEIVED, CASH_TRANSFERRED, CANCELLED},
           SetStatus(t, s), UNCHANGED operationTypeByOperationId
    PROVE  AbstractDeal' = [AbstractDeal EXCEPT ![t].stage = Stage(t)']
<1>1. /\ settlementTransactionById'[t].status = s
      /\ \A u \in TxIds \ {t} : settlementTransactionById'[u] = settlementTransactionById[u]
      /\ \A u \in TxIds : SameTerms(u)
  BY StatusOnly DEF DrivenInv, LedgerInv
<1>2. PICK st : st = settlementTransactionById[t]
  OBVIOUS
<1>3. PICK redeems : redeems = (OperationType(t) = REDEMPTION)
  OBVIOUS
<1>4. redeems = (OperationType(t)' = REDEMPTION)
  BY <1>1, <1>3 DEF SameTerms
<1>5. AbstractDeal[t] = [seller |-> st.sender, buyer |-> st.receiver, quantity |-> st.quantity,
                         redeems |-> redeems, stage |-> Stage(t)]
  BY <1>2, <1>3 DEF AbstractDeal
<1>6. AbstractDeal'[t] = [seller |-> st.sender, buyer |-> st.receiver, quantity |-> st.quantity,
                          redeems |-> redeems, stage |-> Stage(t)']
  BY <1>1, <1>2, <1>4 DEF AbstractDeal, SameTerms
<1>7. AbstractDeal'[t] = [AbstractDeal[t] EXCEPT !.stage = Stage(t)']
  <2>1. PICK d, e, stage : d = AbstractDeal[t] /\ e = AbstractDeal'[t] /\ stage = Stage(t)'
    OBVIOUS
  <2>2. e = [d EXCEPT !.stage = stage]
    BY <1>5, <1>6, <2>1, NewStage
  <2>3. QED
    BY <2>1, <2>2
<1>8. ASSUME NEW u \in TxIds \ {t} PROVE AbstractDeal'[u] = AbstractDeal[u]
  <2>1. /\ settlementTransactionById'[u] = settlementTransactionById[u]
        /\ OperationType(u)' = OperationType(u)
    BY <1>1 DEF SameTerms
  <2>2. Stage(u)' = Stage(u)
    BY <2>1 DEF Stage
  <2>3. QED
    BY <2>1, <2>2 DEF AbstractDeal
<1>9. AbstractDeal' = [u \in TxIds |-> AbstractDeal'[u]]
      /\ AbstractDeal = [u \in TxIds |-> AbstractDeal[u]]
  BY DEF AbstractDeal
<1>10. QED
  BY <1>7, <1>8, <1>9

\* An initiation agrees deals of one kind, each covered by its seller.
LEMMA InitiatedAgrees ==
    ASSUME DrivenInv, DrivenInv', NEW new, NEW redeems \in BOOLEAN,
           NEW type \in {SUBSCRIPTION, TRADE, REDEMPTION},
           redeems = (type = REDEMPTION), Initiated(new, type)
    PROVE  DVP!Agree(new, redeems)
<1>1. /\ new # {} /\ new \subseteq TxIds
      /\ \A t \in new : ~Exists(t) /\ Pending(t)' /\ OperationType(t)' = type
      /\ \A t \in TxIds \ new :
            /\ settlementTransactionById'[t] = settlementTransactionById[t]
            /\ OperationType(t)' = OperationType(t)
  BY DEF Initiated
<1>2. ~(bondState = STATE_REDEEMED) /\ (bondState' = STATE_REDEEMED) = redeems
  BY DEF Initiated, STATE_RUNNING, STATE_REDEEMED, DrivenInv, LedgerInv, TypeOK, STATE_CREATED
<1>3. UNCHANGED balance
  BY DEF Initiated
<1>4. AbstractDeal' = [d \in TxIds |-> IF d \in new THEN AbstractDeal'[d] ELSE AbstractDeal[d]]
  <2>1. ASSUME NEW d \in TxIds \ new PROVE AbstractDeal'[d] = AbstractDeal[d]
    <3>1. Stage(d)' = Stage(d)
      BY <1>1 DEF Stage
    <3>2. QED
      BY <1>1, <3>1 DEF AbstractDeal
  <2>2. AbstractDeal' = [d \in TxIds |-> AbstractDeal'[d]]
    BY DEF AbstractDeal
  <2>3. QED
    BY <2>1, <2>2
<1>5. ASSUME NEW t \in new
      PROVE  /\ AbstractDeal[t] = DVP!NoDeal
             /\ AbstractDeal'[t] \in DVP!Terms
             /\ AbstractDeal'[t].stage = "agreed"
             /\ AbstractDeal'[t].redeems = redeems
             /\ redeems => AbstractDeal'[t].buyer = Issuer
             /\ DVP!Covered(AbstractDeal', AbstractDeal'[t].seller)
  <2>1. t \in TxIds /\ ~Exists(t) /\ Pending(t)' /\ OperationType(t)' = type
    BY <1>1
  <2>2. AbstractDeal[t] = DVP!NoDeal
    <3>1. settlementTransactionById[t] = EmptySlot /\ OperationType(t) = NO_TYPE
      BY <2>1, UnusedHasNoType DEF DrivenInv, LedgerInv
    <3>2. (OperationType(t) = REDEMPTION) = FALSE
      BY <3>1 DEF NO_TYPE, REDEMPTION
    <3>3. Stage(t) = "open"
      BY <2>1, Stages DEF DrivenInv, LedgerInv
    <3>4. /\ EmptySlot.sender = NoAddress /\ EmptySlot.receiver = NoAddress
          /\ EmptySlot.quantity = 0
      BY DEF EmptySlot
    <3>5. QED
      BY <2>1, <3>1, <3>2, <3>3, <3>4 DEF AbstractDeal, DVP!NoDeal
  <2>3. PICK st : st = settlementTransactionById'[t]
    OBVIOUS
  <2>4. st \in SettlementTransaction
    <3>1. st.status = TOKEN_LOCKED
      BY <2>1, <2>3 DEF Pending
    <3>2. st \in SettlementTransaction \/ st = EmptySlot
      BY <2>1, <2>3 DEF DrivenInv, LedgerInv, TypeOK
    <3>3. QED
      BY <3>1, <3>2 DEF EmptySlot, NOT_CREATED, TOKEN_LOCKED
  <2>5. /\ st.sender \in Accounts /\ st.receiver \in Accounts /\ st.quantity \in 0..InitialSupply
    <3>1. st.quantity \in Nat /\ st.quantity <= InitialSupply
      BY <2>1, <2>3, <2>4, PendingIsCoveredNext, QuantitiesAreNat
         DEF DrivenInv, SettlementTransaction
    <3>2. QED
      BY <2>4, <3>1, SupplyAssumption DEF SettlementTransaction
  <2>6. Stage(t)' = "agreed"
    BY <2>1 DEF Stage, Pending, NOT_CREATED, TOKEN_LOCKED, CASH_RECEIVED, CASH_TRANSFERRED
  <2>7. (OperationType(t)' = REDEMPTION) = redeems
    BY <2>1
  <2>8. AbstractDeal'[t] = [seller |-> st.sender, buyer |-> st.receiver, quantity |-> st.quantity,
                            redeems |-> redeems, stage |-> "agreed"]
    BY <2>1, <2>3, <2>6, <2>7 DEF AbstractDeal
  <2>9. PICK d : d = AbstractDeal'[t]
    OBVIOUS
  <2>10. /\ d.seller = st.sender /\ d.buyer = st.receiver
         /\ d.stage = "agreed" /\ d.redeems = redeems
    BY <2>8, <2>9
  <2>11. d \in DVP!Terms
    BY <2>5, <2>8, <2>9 DEF DVP!Terms
  <2>12. redeems => st.receiver = Issuer
    BY <2>1, <2>3 DEF Initiated
  <2>13. DVP!Covered(AbstractDeal', st.sender)
    BY <1>3, <2>5, AgreedIsCovered
  <2>14. QED
    BY <2>2, <2>9, <2>10, <2>11, <2>12, <2>13
<1>6. QED
  BY <1>1, <1>2, <1>3, <1>4, <1>5 DEF DVP!Agree

\* A confirmed payment delivers: a redemption comes back to the issuer, who
\* is not its sender, and leaves it at once.
LEMMA ReceivedDelivers ==
    ASSUME DrivenInv, NEW t \in TxIds, ConfirmPaymentReceived(Settler, t)
    PROVE  DVP!Deliver(t)
<1>1. /\ Pending(t) /\ SetStatus(t, CASH_RECEIVED)
      /\ UNCHANGED <<operationTypeByOperationId, bondState>>
  BY StatusSteps
<1>2. Exists(t)
  BY <1>1 DEF Pending, Exists, TOKEN_LOCKED, NOT_CREATED
<1>3. PICK st : st = settlementTransactionById[t]
  OBVIOUS
<1>4. st \in SettlementTransaction
  BY <1>2, <1>3, CreatedHasTerms DEF Exists, DrivenInv, LedgerInv
<1>5. PICK from \in Accounts : from = st.sender
  BY <1>4 DEF SettlementTransaction
<1>6. PICK to \in Accounts : to = st.receiver
  BY <1>4 DEF SettlementTransaction
<1>7. PICK q \in Nat : q = st.quantity
  BY <1>4, QuantitiesAreNat DEF SettlementTransaction
<1>8. PICK redeems \in BOOLEAN : redeems = (OperationType(t) = REDEMPTION)
  OBVIOUS
<1>9. PICK taken : taken = [balance EXCEPT ![from] = @ - q]
  OBVIOUS
<1>10. /\ AbstractDeal[t].stage = "agreed" /\ AbstractDeal[t].seller = from
       /\ AbstractDeal[t].buyer = to /\ AbstractDeal[t].quantity = q
       /\ AbstractDeal[t].redeems = redeems
  BY <1>1, <1>3, <1>5, <1>6, <1>7, <1>8, Stages DEF AbstractDeal, DrivenInv, LedgerInv
<1>11. Delivered(st) = [taken EXCEPT ![to] = @ + q]
  BY <1>5, <1>6, <1>7, <1>9 DEF Delivered, TransferLocked
<1>12. balance \in [Accounts -> Nat]
  BY SupplyAssumption DEF DrivenInv, LedgerInv, TypeOK
<1>13. balance' = IF redeems THEN taken ELSE [taken EXCEPT ![to] = @ + q]
  <2>1. CASE redeems
    <3>1. balance' = [[taken EXCEPT ![to] = @ + q] EXCEPT ![to] = @ - q]
      BY <1>3, <1>6, <1>7, <1>8, <1>11, <2>1 DEF ConfirmPaymentReceived, Burnt
    <3>2. taken \in [Accounts -> Int]
      BY <1>9, <1>12
    <3>3. PICK given : given = [taken EXCEPT ![to] = @ + q]
      OBVIOUS
    <3>4. given \in [Accounts -> Int] /\ given[to] - q = taken[to]
      BY <3>2, <3>3
    <3>5. [given EXCEPT ![to] = @ - q] = taken
      BY <3>2, <3>3, <3>4
    <3>6. QED
      BY <2>1, <3>1, <3>3, <3>5
  <2>2. CASE ~redeems
    BY <1>3, <1>8, <1>11, <2>2 DEF ConfirmPaymentReceived
  <2>3. QED
    BY <2>1, <2>2
<1>14. Stage(t)' = "delivered"
  <2>1. settlementTransactionById'[t].status = CASH_RECEIVED
    BY <1>1, <1>2, StatusOnly DEF DrivenInv, LedgerInv
  <2>2. QED
    BY <2>1 DEF Stage, NOT_CREATED, TOKEN_LOCKED, CASH_RECEIVED, CASH_TRANSFERRED
<1>15. AbstractDeal' = [AbstractDeal EXCEPT ![t].stage = "delivered"]
  BY <1>1, <1>2, <1>14, StageOnly
<1>16. (bondState' = STATE_REDEEMED) = (bondState = STATE_REDEEMED)
  BY <1>1
<1>17. QED
  BY <1>9, <1>10, <1>13, <1>15, <1>16 DEF DVP!Deliver

\* The two steps that move no token.
LEMMA TransferredPays ==
    ASSUME DrivenInv, NEW t \in TxIds, ConfirmPaymentTransferred(Settler, t)
    PROVE  DVP!Pay(t)
<1>1. /\ settlementTransactionById[t].status = CASH_RECEIVED /\ SetStatus(t, CASH_TRANSFERRED)
      /\ UNCHANGED <<operationTypeByOperationId, bondState, balance>>
  BY StatusSteps DEF balanceVars
<1>2. Exists(t)
  BY <1>1 DEF Exists, CASH_RECEIVED, NOT_CREATED
<1>3. settlementTransactionById'[t].status = CASH_TRANSFERRED
  BY <1>1, <1>2, StatusOnly DEF DrivenInv, LedgerInv
<1>4. Stage(t) = "delivered" /\ Stage(t)' = "paid"
  BY <1>1, <1>3 DEF Stage, NOT_CREATED, TOKEN_LOCKED, CASH_RECEIVED, CASH_TRANSFERRED
<1>5. AbstractDeal' = [AbstractDeal EXCEPT ![t].stage = "paid"]
  BY <1>1, <1>2, <1>4, StageOnly
<1>6. AbstractDeal[t].stage = "delivered"
  BY <1>4 DEF AbstractDeal
<1>7. (bondState' = STATE_REDEEMED) = (bondState = STATE_REDEEMED)
  BY <1>1
<1>8. QED
  BY <1>1, <1>5, <1>6, <1>7 DEF DVP!Pay

LEMMA CancelCallsOff ==
    ASSUME DrivenInv, NEW t \in TxIds, OracleCancel(t)
    PROVE  DVP!CallOff(t)
<1>1. /\ Pending(t) /\ SetStatus(t, CANCELLED)
      /\ UNCHANGED <<operationTypeByOperationId, bondState, balance>>
  BY StatusSteps
<1>2. Exists(t)
  BY <1>1 DEF Pending, Exists, TOKEN_LOCKED, NOT_CREATED
<1>3. settlementTransactionById'[t].status = CANCELLED
  BY <1>1, <1>2, StatusOnly DEF DrivenInv, LedgerInv
<1>4. Stage(t) = "agreed" /\ Stage(t)' = "off"
  BY <1>1, <1>3, Stages DEF DrivenInv, LedgerInv, Stage, NOT_CREATED, TOKEN_LOCKED, CASH_RECEIVED,
                            CASH_TRANSFERRED, CANCELLED
<1>5. AbstractDeal' = [AbstractDeal EXCEPT ![t].stage = "off"]
  BY <1>1, <1>2, <1>4, StageOnly
<1>6. AbstractDeal[t].stage = "agreed"
  BY <1>4 DEF AbstractDeal
<1>7. (bondState' = STATE_REDEEMED) = (bondState = STATE_REDEEMED)
  BY <1>1
<1>8. QED
  BY <1>1, <1>5, <1>6, <1>7 DEF DVP!CallOff

LEMMA DealStep ==
    ASSUME DrivenInv, DrivenInv', [OracleNext]_vars
    PROVE  [DVP!Next]_DVP!dvpVars
<1>1. ASSUME NEW new, NEW type \in {SUBSCRIPTION, TRADE, REDEMPTION}, Initiated(new, type)
      PROVE  DVP!Next
  <2>1. new \in SUBSET TxIds /\ (type # REDEMPTION => \E t \in TxIds : new = {t})
    BY <1>1 DEF Initiated
  <2>2. CASE type = REDEMPTION
    <3>1. TRUE = (type = REDEMPTION)
      BY <2>2
    <3>2. DVP!Agree(new, TRUE)
      BY <1>1, <3>1, InitiatedAgrees
    <3>3. QED
      BY <2>1, <3>2 DEF DVP!Next
  <2>3. CASE type # REDEMPTION
    <3>1. FALSE = (type = REDEMPTION)
      BY <2>3
    <3>2. DVP!Agree(new, FALSE)
      BY <1>1, <3>1, InitiatedAgrees
    <3>3. PICK t \in TxIds : new = {t}
      BY <2>1, <2>3
    <3>4. QED
      BY <3>2, <3>3 DEF DVP!Next
  <2>4. QED
    BY <2>2, <2>3
<1>2. ASSUME NEW t \in TxIds, OracleCancel(t) PROVE DVP!Next
  BY <1>2, CancelCallsOff DEF DVP!Next
<1>3. ASSUME NEW t \in TxIds, ConfirmPaymentReceived(Settler, t) PROVE DVP!Next
  BY <1>3, ReceivedDelivers DEF DVP!Next
<1>4. ASSUME NEW t \in TxIds, ConfirmPaymentTransferred(Settler, t) PROVE DVP!Next
  BY <1>4, TransferredPays DEF DVP!Next
<1>5. CASE UNCHANGED vars
  BY <1>5 DEF vars, balanceVars, settlementVars, DVP!dvpVars, AbstractDeal, Stage, OperationType
<1>6. QED
  BY <1>1, <1>2, <1>3, <1>4, <1>5, StepKinds

\* The oracles' use of the bond implements a ledger of deals that are agreed,
\* delivered, paid or called off, and covered at every moment.
THEOREM BondIsDeliveryVersusPayment == OracleSpec => IsDeliveryVersusPayment
<1>1. Init => DVP!Init
  <2> SUFFICES ASSUME Init PROVE DVP!Init
    OBVIOUS
  <2>1. /\ balance = [h \in Accounts |-> IF h = Issuer THEN InitialSupply ELSE 0]
        /\ (bondState = STATE_REDEEMED) = FALSE
    BY DEF Init, STATE_CREATED, STATE_REDEEMED
  <2>2. ASSUME NEW t \in TxIds
        PROVE  AbstractDeal[t] = DVP!NoDeal
    <3>1. settlementTransactionById[t] = EmptySlot
      BY DEF Init
    <3>2. /\ EmptySlot.sender = NoAddress /\ EmptySlot.receiver = NoAddress
          /\ EmptySlot.quantity = 0 /\ EmptySlot.status = NOT_CREATED
          /\ EmptySlot.operationId = NoOperation
      BY DEF EmptySlot
    <3>3. OperationType(t) = NO_TYPE
      BY <3>1, <3>2, IdsAssumption DEF OperationType
    <3>4. (OperationType(t) = REDEMPTION) = FALSE
      BY <3>3 DEF NO_TYPE, REDEMPTION
    <3>5. Stage(t) = "open"
      BY <3>1, <3>2 DEF Stage, NOT_CREATED, TOKEN_LOCKED, CASH_RECEIVED, CASH_TRANSFERRED
    <3>6. QED
      BY <3>1, <3>2, <3>4, <3>5 DEF AbstractDeal, DVP!NoDeal
  <2>3. AbstractDeal = [t \in TxIds |-> DVP!NoDeal]
    BY <2>2 DEF AbstractDeal
  <2>4. QED
    BY <2>1, <2>3 DEF DVP!Init
<1>2. DrivenInv /\ DrivenInv' /\ [OracleNext]_vars => [DVP!Next]_DVP!dvpVars
  BY DealStep
<1>3. QED
  BY <1>1, <1>2, DrivenInvariant, PTL DEF OracleSpec, IsDeliveryVersusPayment, DVP!Spec

-----------------------------------------------------------------------------
(* The oracles are some of the callers of the contract. *)

\* What is proved of the contract whoever calls it holds when the oracles do.
THEOREM TheOraclesAreCallers == OracleSpec => Spec
<1>1. DrivenInv /\ [OracleNext]_vars => [Next]_vars
  BY OracleNextIsNext DEF DrivenInv, LedgerInv
<1>2. QED
  BY <1>1, DrivenInvariant, PTL DEF OracleSpec, Spec

=============================================================================
