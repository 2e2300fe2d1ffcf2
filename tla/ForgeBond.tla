------------------------------ MODULE ForgeBond ------------------------------
(***************************************************************************)
(* The Ethereum bond contract, contracts/tokens/ForgeBond.sol, with the    *)
(* libraries it is linked to: OperatorManagerLibrary (who may call),       *)
(* SecurityTokenBalancesLibrary over IterableBalances (who holds and has   *)
(* locked what), SettlementRepositoryLibrary (the settlement transactions) *)
(* and SettlementWorkflowLibrary (the delivery-versus-payment workflow).   *)
(*                                                                         *)
(* A contract call is atomic: it runs to its end or reverts and leaves no  *)
(* trace, so every external function is one action whose guard is the      *)
(* conjunction of its requires.  Callers and arguments are arbitrary here; *)
(* OracleDrivenBond narrows them to what the oracles send.                 *)
(***************************************************************************)
EXTENDS Integers, Sequences, FiniteSets

CONSTANTS
    Accounts,           \* addresses that may hold tokens, the issuer's included
    Agents,             \* the other addresses that send transactions
    Issuer,             \* token.owner
    Registrar, Settler, \* the operators the constructor authorizes
    InitialSupply,      \* token.initialSupply
    TxIds,              \* settlement transaction ids, 0 excluded (see CanCreate)
    OperationIds,       \* operation ids
    Quantities,         \* the quantities callers pass, a sample of uint256
    MaxUint,            \* 2^256 - 1 on the chain
    MaxAuthorizations,  \* bound: authorizations ever pushed per operator
    MaxRedemption,      \* bound: settlement transactions per redemption call
    NoAddress, NoOperation  \* the zero value of an unset storage slot

VARIABLES
    balance,    \* iterableBalances.balances[a].balance
    locked,     \* iterableBalances.balances[a].locked
    keys,       \* iterableBalances.keys, in insertion order
    settlementTransactionById,
    operationTypeByOperationId,
    bondState,  \* bond.state
    authorizationsByOperator,
    burned      \* sum of the Transfer(_, address(0), v) events emitted so far

balanceVars == <<balance, locked, keys, burned>>
settlementVars == <<settlementTransactionById, operationTypeByOperationId>>
vars == <<balanceVars, settlementVars, bondState, authorizationsByOperator>>

ASSUME AccountsAssumption ==
    /\ IsFiniteSet(Accounts)
    /\ Issuer \in Accounts
    /\ Registrar \in Accounts \cup Agents
    /\ Settler \in Accounts \cup Agents
    /\ NoAddress \notin Accounts \cup Agents
ASSUME SupplyAssumption ==
    /\ MaxUint \in Nat
    /\ InitialSupply \in 0..MaxUint
    /\ Quantities \subseteq 0..MaxUint
ASSUME IdsAssumption ==
    /\ IsFiniteSet(TxIds)
    /\ NoOperation \notin OperationIds
    /\ MaxRedemption \in Nat
    /\ MaxAuthorizations \in Nat

-----------------------------------------------------------------------------
(* Codes stored in the contract. *)

REGISTRAR_ROLE == 1
SETTLER_ROLE == 2
Roles == {REGISTRAR_ROLE, SETTLER_ROLE}
REVOKED == 0    \* what `delete` leaves in a slot of the authorizations array

STATE_CREATED == 1
STATE_RUNNING == 2
STATE_REDEEMED == 3

NOT_CREATED == 0
TOKEN_LOCKED == 2
CASH_RECEIVED == 3
CASH_TRANSFERRED == 4
CANCELLED == 5

NO_TYPE == 0
SUBSCRIPTION == 1
REDEMPTION == 2
TRADE == 3

Addresses == Accounts \cup Agents

PartialSettlementTransaction ==
    [txId : TxIds, operationId : OperationIds,
     sender : Accounts, receiver : Accounts, quantity : Quantities]

\* CREATED is written and overwritten within one call (createSettlement-
\* Transaction, then initiateDVP), so no state between calls shows it.
SettlementTransaction ==
    [operationId : OperationIds, sender : Accounts, receiver : Accounts,
     quantity : Quantities,
     status : {TOKEN_LOCKED, CASH_RECEIVED, CASH_TRANSFERRED, CANCELLED}]

EmptySlot ==
    [operationId |-> NoOperation, sender |-> NoAddress, receiver |-> NoAddress,
     quantity |-> 0, status |-> NOT_CREATED]

-----------------------------------------------------------------------------
(* OperatorManagerLibrary and the modifiers that consult it. *)

IsOperatorWithRoleAuthorized(operator, role) ==
    \E i \in DOMAIN authorizationsByOperator[operator] :
        authorizationsByOperator[operator][i] = role

IssuerOnly(caller) == caller = Issuer
RegistrarOnly(caller) == IsOperatorWithRoleAuthorized(caller, REGISTRAR_ROLE)
SettlerOnly(caller) == IsOperatorWithRoleAuthorized(caller, SETTLER_ROLE)

AuthorizeOperator(caller, role, operator) ==
    /\ IssuerOnly(caller)
    /\ Len(authorizationsByOperator[operator]) < MaxAuthorizations
    /\ authorizationsByOperator' =
           [authorizationsByOperator EXCEPT ![operator] = Append(@, role)]
    /\ UNCHANGED <<balanceVars, settlementVars, bondState>>

\* Mutant: the whole array is deleted, not the entry.
MutRevokeAll(caller, operator, role) ==
    /\ IssuerOnly(caller)
    /\ IsOperatorWithRoleAuthorized(operator, role)
    /\ authorizationsByOperator' = [authorizationsByOperator EXCEPT ![operator] = <<>>]
    /\ UNCHANGED <<balanceVars, settlementVars, bondState>>

\* Only the first entry that matches is deleted, and deleting it zeroes it:
\* the array keeps its length.
RevokeOperatorAuthorization(caller, operator, role) ==
    /\ IssuerOnly(caller)
    /\ \E i \in DOMAIN authorizationsByOperator[operator] :
          /\ authorizationsByOperator[operator][i] = role
          /\ \A j \in 1..(i - 1) : authorizationsByOperator[operator][j] # role
          /\ authorizationsByOperator' =
                 [authorizationsByOperator EXCEPT ![operator][i] = REVOKED]
    /\ UNCHANGED <<balanceVars, settlementVars, bondState>>

-----------------------------------------------------------------------------
(* SecurityTokenBalancesLibrary, IterableBalances.  The operators take the *)
(* balance and locked functions they read: one call may apply several.     *)

Disposable(bal, lck, a) == bal[a] - lck[a]

\* Mutants: the key is pushed again, or never.
MutInsertAgain(a) == Append(keys, a)
MutInsertNever(a) == keys

\* insert: a key is pushed the first time its balance is written.
Insert(a) ==
    IF \E i \in DOMAIN keys : keys[i] = a THEN keys ELSE Append(keys, a)

\* Mutant: tokens that are locked already are not set aside.
MutLockBalance(a, quantity) == balance[a] >= quantity

CanLock(a, quantity) == Disposable(balance, locked, a) >= quantity
Lock(a, quantity) == [locked EXCEPT ![a] = @ + quantity]

\* Mutant: nothing is unlocked.
MutUnlockNothing(a, quantity) == locked

CanUnlock(a, quantity) == balance[a] >= quantity /\ locked[a] >= quantity
Unlock(a, quantity) == [locked EXCEPT ![a] = @ - quantity]

\* Mutant: the receiver is read before the sender is debited.
MutTransferReadsFirst(from, to, quantity) ==
    [balance EXCEPT ![from] = @ - quantity, ![to] = balance[to] + quantity]

\* The sender is debited before the receiver is read, so a transfer to
\* oneself gives the quantity back.
TransferLocked(from, to, quantity) ==
    LET debited == [balance EXCEPT ![from] = @ - quantity]
    IN  [debited EXCEPT ![to] = @ + quantity]

CanBurn(bal, lck, a, quantity) == Disposable(bal, lck, a) >= quantity
Burnt(bal, a, quantity) == [bal EXCEPT ![a] = @ - quantity]

\* Tokens are whole (decimals() is 0), so a sum of quantities is a count of
\* pairs <<who, n>>, n up to the quantity.
Tokens == 1..MaxUint

HeldTokens == {p \in Accounts \X Tokens : p[2] <= balance[p[1]]}
LockedTokens == {p \in Accounts \X Tokens : p[2] <= locked[p[1]]}

\* Mutant: the iteration stops one key early.
MutLastNotListed ==
    [i \in 1..(Len(keys) - 1) |->
        [account |-> keys[i], balance |-> balance[keys[i]], locked |-> locked[keys[i]]]]

\* getFullBalances: what is listed is what keys lists, in its order.
FullBalances ==
    [i \in DOMAIN keys |->
        [account |-> keys[i], balance |-> balance[keys[i]], locked |-> locked[keys[i]]]]

\* totalSupply sums balance + locked over the same list.
TotalSupply ==
    Cardinality({p \in (DOMAIN keys) \X Tokens : p[2] <= FullBalances[p[1]].balance})
        + Cardinality({p \in (DOMAIN keys) \X Tokens : p[2] <= FullBalances[p[1]].locked})

-----------------------------------------------------------------------------
(* SettlementRepositoryLibrary. *)

Exists(txId) == settlementTransactionById[txId].status # NOT_CREATED

\* Mutant: an id can be created again.
MutCreateAgain(txId) == TRUE

\* The code compares the stored id with the given one.  An unset slot stores
\* 0, so id 0 can never be created; TxIds leaves it out.
CanCreate(txId) == ~Exists(txId)

WithStatus(p, status) ==
    [operationId |-> p.operationId, sender |-> p.sender,
     receiver |-> p.receiver, quantity |-> p.quantity, status |-> status]

OperationType(txId) ==
    LET op == settlementTransactionById[txId].operationId
    IN  IF op \in OperationIds THEN operationTypeByOperationId[op] ELSE NO_TYPE

SetStatus(txId, status) ==
    settlementTransactionById' =
        [settlementTransactionById EXCEPT ![txId].status = status]

SetOperationType(operationId, type) ==
    operationTypeByOperationId' =
        [operationTypeByOperationId EXCEPT ![operationId] = type]

-----------------------------------------------------------------------------
(* SettlementWorkflowLibrary and the contract's own functions. *)

\* Mutant: off by one in the comparison of states.
MutInitiateRedeemed == bondState <= STATE_REDEEMED

\* The state an initiation requires.
CanInitiate == bondState < STATE_REDEEMED

\* createSettlementTransaction, then initiateDVP.
CreateAndLock(p) ==
    /\ CanCreate(p.txId)
    /\ CanLock(p.sender, p.quantity)
    /\ locked' = Lock(p.sender, p.quantity)
    /\ settlementTransactionById' =
           [settlementTransactionById EXCEPT ![p.txId] = WithStatus(p, TOKEN_LOCKED)]

InitiateSubscription(caller, p) ==
    /\ RegistrarOnly(caller)
    /\ CanInitiate
    /\ p.sender = Issuer
    /\ CreateAndLock(p)
    /\ SetOperationType(p.operationId, SUBSCRIPTION)
    /\ bondState' = STATE_RUNNING
    /\ UNCHANGED <<balance, keys, burned, authorizationsByOperator>>

InitiateTrade(caller, p) ==
    /\ RegistrarOnly(caller)
    /\ CanInitiate
    /\ CreateAndLock(p)
    /\ SetOperationType(p.operationId, TRADE)
    /\ bondState' = STATE_RUNNING
    /\ UNCHANGED <<balance, keys, burned, authorizationsByOperator>>

\* Tokens of account a that the settlement transactions of ps deliver.
TokensDeliveredBy(ps, a) ==
    {p \in TxIds \X Tokens :
        \E i \in DOMAIN ps : /\ ps[i].txId = p[1]
                             /\ ps[i].sender = a
                             /\ p[2] <= ps[i].quantity}

\* The loop creates and locks the elements one after the other and reverts
\* as a whole.  Locks only add up, so its checks all pass exactly when each
\* sender can afford the sum.  The type is set for the first element only.
InitiateRedemption(caller, ps) ==
    /\ RegistrarOnly(caller)
    /\ CanInitiate
    /\ ps # <<>>
    /\ \A i \in DOMAIN ps : ps[i].receiver = Issuer /\ CanCreate(ps[i].txId)
    /\ \A i, j \in DOMAIN ps : ps[i].txId = ps[j].txId => i = j
    /\ locked' = [a \in Accounts |->
                      locked[a] + Cardinality(TokensDeliveredBy(ps, a))]
    /\ \A i \in DOMAIN ps : locked'[ps[i].sender] <= balance[ps[i].sender]
    /\ settlementTransactionById' =
           [t \in TxIds |->
               IF \E i \in DOMAIN ps : ps[i].txId = t
               THEN WithStatus(ps[CHOOSE i \in DOMAIN ps : ps[i].txId = t],
                               TOKEN_LOCKED)
               ELSE settlementTransactionById[t]]
    /\ SetOperationType(ps[1].operationId, REDEMPTION)
    /\ bondState' = STATE_REDEEMED
    /\ UNCHANGED <<balance, keys, burned, authorizationsByOperator>>

\* Mutant: sender and receiver swapped.
MutDeliveredBack(st) == TransferLocked(st.receiver, st.sender, st.quantity)

Delivered(st) == TransferLocked(st.sender, st.receiver, st.quantity)

\* The requires of confirmPaymentReceived.  A redemption is burnt as it is
\* delivered: the burn reads the balances transferLocked has just written.
CanDeliver(txId) ==
    LET st == settlementTransactionById[txId]
    IN  /\ OperationType(txId) \in {SUBSCRIPTION, REDEMPTION, TRADE}
        /\ st.status = TOKEN_LOCKED
        /\ CanUnlock(st.sender, st.quantity)
        /\ OperationType(txId) = REDEMPTION =>
              CanBurn(Delivered(st), Unlock(st.sender, st.quantity),
                      st.receiver, st.quantity)

ConfirmPaymentReceived(caller, txId) ==
    LET st == settlementTransactionById[txId]
    IN  /\ SettlerOnly(caller)
        /\ CanDeliver(txId)
        /\ locked' = Unlock(st.sender, st.quantity)
        /\ keys' = Insert(st.receiver)
        /\ IF OperationType(txId) = REDEMPTION
           THEN /\ balance' = Burnt(Delivered(st), st.receiver, st.quantity)
                /\ burned' = burned + st.quantity
           ELSE balance' = Delivered(st) /\ UNCHANGED burned
        /\ SetStatus(txId, CASH_RECEIVED)
        /\ UNCHANGED <<operationTypeByOperationId, bondState,
                       authorizationsByOperator>>

\* Mutant: the status is not looked at.
MutTransferredUnreceived(caller, txId) ==
    /\ SettlerOnly(caller)
    /\ Exists(txId)
    /\ SetStatus(txId, CASH_TRANSFERRED)
    /\ UNCHANGED <<balanceVars, operationTypeByOperationId, bondState,
                   authorizationsByOperator>>

ConfirmPaymentTransferred(caller, txId) ==
    /\ SettlerOnly(caller)
    /\ settlementTransactionById[txId].status = CASH_RECEIVED
    /\ SetStatus(txId, CASH_TRANSFERRED)
    /\ UNCHANGED <<balanceVars, operationTypeByOperationId, bondState,
                   authorizationsByOperator>>

\* Mutant: a settlement transaction can be cancelled at any stage.
MutCancelAnyStage(caller, p) ==
    /\ RegistrarOnly(caller)
    /\ Exists(p.txId)
    /\ CanUnlock(p.sender, p.quantity)
    /\ locked' = Unlock(p.sender, p.quantity)
    /\ SetStatus(p.txId, CANCELLED)
    /\ UNCHANGED <<balance, keys, burned, operationTypeByOperationId, bondState,
                   authorizationsByOperator>>

\* What is unlocked is what the argument names, not what the stored
\* settlement transaction locked.
CancelSettlementTransaction(caller, p) ==
    /\ RegistrarOnly(caller)
    /\ settlementTransactionById[p.txId].status = TOKEN_LOCKED
    /\ CanUnlock(p.sender, p.quantity)
    /\ locked' = Unlock(p.sender, p.quantity)
    /\ SetStatus(p.txId, CANCELLED)
    /\ UNCHANGED <<balance, keys, burned, operationTypeByOperationId, bondState,
                   authorizationsByOperator>>

Burn(caller, quantity) ==
    /\ RegistrarOnly(caller)
    /\ CanBurn(balance, locked, Issuer, quantity)
    /\ balance' = Burnt(balance, Issuer, quantity)
    /\ burned' = burned + quantity
    /\ UNCHANGED <<locked, keys, settlementVars, bondState,
                   authorizationsByOperator>>

-----------------------------------------------------------------------------
(* The constructor and the calls. *)

InitialAuthorizations(a) ==
    (IF a = Registrar THEN <<REGISTRAR_ROLE>> ELSE <<>>)
        \o (IF a = Settler THEN <<SETTLER_ROLE>> ELSE <<>>)

Init ==
    /\ balance = [a \in Accounts |-> IF a = Issuer THEN InitialSupply ELSE 0]
    /\ locked = [a \in Accounts |-> 0]
    /\ keys = <<Issuer>>
    /\ settlementTransactionById = [t \in TxIds |-> EmptySlot]
    /\ operationTypeByOperationId = [o \in OperationIds |-> NO_TYPE]
    /\ bondState = STATE_CREATED
    /\ authorizationsByOperator = [a \in Addresses |-> InitialAuthorizations(a)]
    /\ burned = 0

RedemptionCalls ==
    UNION {[1..n -> PartialSettlementTransaction] : n \in 0..MaxRedemption}

Next ==
    \E caller \in Addresses :
        \/ \E p \in PartialSettlementTransaction :
              \/ InitiateSubscription(caller, p)
              \/ InitiateTrade(caller, p)
              \/ CancelSettlementTransaction(caller, p)
        \/ \E ps \in RedemptionCalls : InitiateRedemption(caller, ps)
        \/ \E t \in TxIds :
              \/ ConfirmPaymentReceived(caller, t)
              \/ ConfirmPaymentTransferred(caller, t)
        \/ \E quantity \in Quantities : Burn(caller, quantity)
        \/ \E role \in Roles, operator \in Addresses :
              \/ AuthorizeOperator(caller, role, operator)
              \/ RevokeOperatorAuthorization(caller, operator, role)

Spec == Init /\ [][Next]_vars

-----------------------------------------------------------------------------
(* Properties of the contract whoever the authorized callers are and       *)
(* whatever they pass.                                                      *)

TypeOK ==
    /\ balance \in [Accounts -> 0..MaxUint]
    /\ locked \in [Accounts -> 0..MaxUint]
    /\ keys \in Seq(Accounts)
    /\ settlementTransactionById \in [TxIds -> SettlementTransaction \cup {EmptySlot}]
    /\ operationTypeByOperationId \in
           [OperationIds -> {NO_TYPE, SUBSCRIPTION, REDEMPTION, TRADE}]
    /\ bondState \in {STATE_CREATED, STATE_RUNNING, STATE_REDEEMED}
    /\ authorizationsByOperator \in [Addresses -> Seq(Roles \cup {REVOKED})]
    /\ burned \in 0..InitialSupply

\* No sequence of locks, deliveries, cancellations and burns locks more of an
\* account than it holds.  `balance - locked` in lock and burn is checked
\* arithmetic: an account that broke this could never lock or burn again.
LockedWithinBalance == \A a \in Accounts : locked[a] <= balance[a]

\* Tokens are neither created nor lost: what the accounts hold and what
\* transferLocked-then-burn and burn have destroyed add up to the supply the
\* constructor minted, whatever the path a delivery takes (a transfer to
\* oneself, a redemption burnt on arrival, a cancellation).
SupplyConserved == Cardinality(HeldTokens) + burned = InitialSupply

\* getFullBalances walks keys, and a redemption is built from it: every
\* holder is listed, and listed once.
HoldersListedOnce ==
    /\ \A a \in Accounts : balance[a] > 0 => \E i \in DOMAIN keys : keys[i] = a
    /\ \A i, j \in DOMAIN keys : keys[i] = keys[j] => i = j

\* totalSupply() is not the outstanding supply: a locked token is still part
\* of a balance and is counted once more, so it overstates by what is locked,
\* and by no more (every account with locks is listed, once).
TotalSupplyOverstatesByLocks ==
    TotalSupply = InitialSupply - burned + Cardinality(LockedTokens)

\* Delivery versus payment: an account loses tokens only in the step in which
\* the settler confirms the payment of a settlement transaction that delivers
\* them, and no more than it delivers (a redemption burns what its receiver
\* gets, no more either); the registrar alone can destroy only tokens of the
\* issuer.
PaidFor(txId, a) ==
    LET st == settlementTransactionById[txId]
    IN  /\ st.status = TOKEN_LOCKED
        /\ settlementTransactionById'[txId].status = CASH_RECEIVED
        /\ a = st.sender
        /\ balance[a] - balance'[a] <= st.quantity

NoDeliveryWithoutPayment ==
    [][\A a \in Accounts :
          balance'[a] < balance[a] =>
              \/ \E t \in TxIds : PaidFor(t, a)
              \/ a = Issuer /\ settlementTransactionById' = settlementTransactionById]_vars

\* What a settlement transaction delivers is fixed when it is initiated, and
\* its status only goes forward.  Whether its delivery burns is not fixed:
\* the type belongs to the operation id, and who initiates another settlement
\* transaction under that id decides it anew, for those still pending too.
\* Nothing else does: no confirmation, cancellation or other operation.
Advanced(status) ==
    CASE status = TOKEN_LOCKED -> {TOKEN_LOCKED, CASH_RECEIVED, CANCELLED}
      [] status = CASH_RECEIVED -> {CASH_RECEIVED, CASH_TRANSFERRED}
      [] OTHER -> {status}

SharesOperation(txId, other) ==
    settlementTransactionById[txId].operationId = settlementTransactionById[other].operationId

TermsAreKept ==
    [][\A t \in TxIds : Exists(t) =>
          /\ \E s \in Advanced(settlementTransactionById[t].status) :
                settlementTransactionById'[t] = [settlementTransactionById[t] EXCEPT !.status = s]
          /\ OperationType(t)' # OperationType(t) =>
                \E u \in TxIds : ~Exists(u) /\ Exists(u)' /\ SharesOperation(u, t)']_vars

\* After a redemption the bond neither reopens nor takes a new settlement
\* transaction, whatever becomes of the ones still pending.
NothingInitiatedOnceRedeemed ==
    [][bondState = STATE_REDEEMED =>
          /\ bondState' = STATE_REDEEMED
          /\ \A t \in TxIds : ~Exists(t) => ~Exists(t)']_vars

\* Roles are granted and revoked one operator and one role at a time:
\* `delete authorizations[i]` zeroes a slot and moves no other, so an operator
\* that holds both roles keeps the one that was not named.
RolesChangeOneByOne ==
    [][\A o1, o2 \in Addresses, r1, r2 \in Roles :
          /\ IsOperatorWithRoleAuthorized(o1, r1) # IsOperatorWithRoleAuthorized(o1, r1)'
          /\ IsOperatorWithRoleAuthorized(o2, r2) # IsOperatorWithRoleAuthorized(o2, r2)'
          => o1 = o2 /\ r1 = r2]_vars

-----------------------------------------------------------------------------
(* Statements of the repository that the contract does not meet.            *)

\* src/test/tokens/bond/operator.ts:36, "should revoke operator
\* authorization": after revokeOperatorAuthorization the operator is not
\* authorized for the role any more.
RevokedOperatorIsNotAuthorized ==
    [][\A operator \in Addresses, role \in Roles :
          RevokeOperatorAuthorization(Issuer, operator, role)
              => ~IsOperatorWithRoleAuthorized(operator, role)']_vars

\* ForgeBond.sol:324 reverts with "If you see this, this is really bad" when
\* a settlement transaction has no operation type; it takes for granted that
\* a pending one always has one.
PendingHasOperationType ==
    \A t \in TxIds :
        settlementTransactionById[t].status = TOKEN_LOCKED => OperationType(t) # NO_TYPE
=============================================================================
