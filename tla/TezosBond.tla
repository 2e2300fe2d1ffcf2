----------------------------- MODULE TezosBond -----------------------------
(***************************************************************************)
(* The Tezos bond, cast-tz-v1/src/bond/ForgeBond/ForgeBond_contract.py,    *)
(* with the lambdas its entry points load (common/libs).  The EMTN         *)
(* contract, emtn/ForgeEmtn, is the same code.                             *)
(*                                                                         *)
(* An entry point is a shell around a lambda found in the contract's own   *)
(* map: a bond whose map lacks the lambda cannot be used until it is       *)
(* upgraded.  A call either takes all of its effect or fails.              *)
(*                                                                         *)
(* Left out: operationTypeByOperationId (every operation is a              *)
(* subscription), the hashes, and the calls of the event sink, which       *)
(* accepts everything.  A nat has no upper limit.                          *)
(***************************************************************************)
EXTENDS Integers, FiniteSets

CONSTANTS
    Addresses,      \* accounts and operators: whoever calls or holds
    Owner,          \* the owner the factory gives the bond
    Registrar,      \* the registrar it is created with
    Settler,        \* the settler it is created with
    InitialSupply,
    TxIds,          \* ids of settlement transactions
    Quantities,     \* the quantities a call may carry
    NoAddress

VARIABLES
    exists,                     \* the contract is originated
    balances,                   \* balances[a] = [balance, locked]; 0, 0 if a is no key
    settlementTransactionById,
    operatorsAuthorizations,    \* the roles of each address; {} if it is no key
    entrypointsBigMap           \* the names of the lambdas in the map

tokenVars == <<balances, settlementTransactionById>>
bondVars == <<exists, tokenVars, operatorsAuthorizations, entrypointsBigMap>>

REGISTRAR == "registrar"
SETTLER == "settler"
Roles == {REGISTRAR, SETTLER}

INITIATE_SUBSCRIPTION == "callInitiateSubscription"
CONFIRM_PAYMENT_RECEIVED == "callConfirmPaymentReceived"
CONFIRM_PAYMENT_TRANSFERRED == "callConfirmPaymentTransferred"
AUTHORIZE_OPERATOR == "callAuthorizeOperator"
REVOKE_OPERATOR_AUTHORIZATION == "callRevokeOperatorAuthorization"
Lambdas == {INITIATE_SUBSCRIPTION, CONFIRM_PAYMENT_RECEIVED, CONFIRM_PAYMENT_TRANSFERRED,
            AUTHORIZE_OPERATOR, REVOKE_OPERATOR_AUTHORIZATION}

UNUSED == "unused"
TOKEN_LOCKED == "token locked"
CASH_RECEIVED == "cash received"
CASH_SENT == "cash sent"

\* The record of an id that is no key of the repository.
NoTransaction == [seller |-> NoAddress, buyer |-> NoAddress, quantity |-> 0, status |-> UNUSED]

SettlementTransaction ==
    [seller : Addresses, buyer : Addresses, quantity : Quantities,
     status : {TOKEN_LOCKED, CASH_RECEIVED, CASH_SENT}]

\* That registrar and settler differ is checked nowhere: the factory makes
\* each of them the key of a map literal, and what one key given twice does
\* is up to the compiler.
ASSUME TezosBondAssumption ==
    /\ {Owner, Registrar, Settler} \subseteq Addresses
    /\ Registrar # Settler
    /\ NoAddress \notin Addresses
    /\ InitialSupply \in Nat
    /\ Quantities \subseteq Nat
    /\ IsFiniteSet(TxIds)

-----------------------------------------------------------------------------
(* Origination, by a factory. *)

BondInit ==
    /\ exists = FALSE
    /\ balances = [a \in Addresses |-> [balance |-> 0, locked |-> 0]]
    /\ settlementTransactionById = [t \in TxIds |-> NoTransaction]
    /\ operatorsAuthorizations = [a \in Addresses |-> {}]
    /\ entrypointsBigMap = {}

newInitialBalances ==
    [a \in Addresses |-> [balance |-> IF a = Owner THEN InitialSupply ELSE 0, locked |-> 0]]

InitialOperators ==
    [a \in Addresses |-> CASE a = Registrar -> {REGISTRAR}
                           [] a = Settler -> {SETTLER}
                           [] OTHER -> {}]

\* The factory copies the lambdas it has at that moment, all of them or not.
Originate(entrypoints) ==
    /\ ~exists
    /\ exists' = TRUE
    /\ balances' = newInitialBalances
    /\ operatorsAuthorizations' = InitialOperators
    /\ entrypointsBigMap' = entrypoints
    /\ UNCHANGED settlementTransactionById

\* Lambdas are added or replaced, never removed.
UpgradeBond(sender, source, entrypoints) ==
    /\ exists
    /\ Owner \in {sender, source}
    /\ entrypointsBigMap' = entrypointsBigMap \cup entrypoints
    /\ UNCHANGED <<exists, tokenVars, operatorsAuthorizations>>

-----------------------------------------------------------------------------
(* Settlement. *)

Loaded(lambda) == exists /\ lambda \in entrypointsBigMap

isOperatorWithRoleAuthorized(sender, role) == role \in operatorsAuthorizations[sender]

\* Mutant: what is already locked is not subtracted.
MutLockBalance(account, quantity) == balances[account].balance >= quantity

Lockable(account, quantity) ==
    balances[account].balance - balances[account].locked >= quantity

InitiateSubscription(sender, t, seller, buyer, quantity) ==
    /\ Loaded(INITIATE_SUBSCRIPTION)
    /\ settlementTransactionById[t] = NoTransaction
    /\ seller = Owner
    /\ isOperatorWithRoleAuthorized(sender, REGISTRAR)
    /\ Lockable(seller, quantity)
    /\ balances' = [balances EXCEPT ![seller].locked = @ + quantity]
    /\ settlementTransactionById' = [settlementTransactionById EXCEPT ![t] =
          [seller |-> seller, buyer |-> buyer, quantity |-> quantity, status |-> TOKEN_LOCKED]]
    /\ UNCHANGED <<exists, operatorsAuthorizations, entrypointsBigMap>>

SetStatus(t, status) ==
    settlementTransactionById' = [settlementTransactionById EXCEPT ![t].status = status]

\* The subtractions of confirmPaymentReceived fail below zero.  The buyer is
\* credited first: the owner may be the buyer.
Deliverable(buyer, quantity) ==
    /\ balances[Owner].balance + (IF buyer = Owner THEN quantity ELSE 0) >= quantity
    /\ balances[Owner].locked >= quantity

\* Mutant: the lock is forgotten at the delivery.
MutKeepLock(buyer, quantity) ==
    LET credited == [balances EXCEPT ![buyer].balance = @ + quantity]
    IN  [credited EXCEPT ![Owner].balance = @ - quantity]

Delivered(buyer, quantity) ==
    LET credited == [balances EXCEPT ![buyer].balance = @ + quantity]
    IN  [credited EXCEPT ![Owner] = [balance |-> @.balance - quantity,
                                     locked |-> @.locked - quantity]]

\* Mutant: a delivery may be confirmed again.
MutConfirmTwice(sender, t) ==
    LET st == settlementTransactionById[t]
    IN  /\ Loaded(CONFIRM_PAYMENT_RECEIVED)
        /\ st.status \in {TOKEN_LOCKED, CASH_RECEIVED}
        /\ isOperatorWithRoleAuthorized(sender, SETTLER)
        /\ Deliverable(st.buyer, st.quantity)
        /\ balances' = Delivered(st.buyer, st.quantity)
        /\ SetStatus(t, CASH_RECEIVED)
        /\ UNCHANGED <<exists, operatorsAuthorizations, entrypointsBigMap>>

ConfirmPaymentReceived(sender, t) ==
    LET st == settlementTransactionById[t]
    IN  /\ Loaded(CONFIRM_PAYMENT_RECEIVED)
        /\ st.status = TOKEN_LOCKED
        /\ isOperatorWithRoleAuthorized(sender, SETTLER)
        /\ Deliverable(st.buyer, st.quantity)
        /\ balances' = Delivered(st.buyer, st.quantity)
        /\ SetStatus(t, CASH_RECEIVED)
        /\ UNCHANGED <<exists, operatorsAuthorizations, entrypointsBigMap>>

ConfirmPaymentTransferred(sender, t) ==
    /\ Loaded(CONFIRM_PAYMENT_TRANSFERRED)
    /\ isOperatorWithRoleAuthorized(sender, SETTLER)
    /\ settlementTransactionById[t].status = CASH_RECEIVED
    /\ SetStatus(t, CASH_SENT)
    /\ UNCHANGED <<exists, balances, operatorsAuthorizations, entrypointsBigMap>>

-----------------------------------------------------------------------------
(* Operators. *)

\* The lambda verifies that the operator has the role already.
AuthorizeOperator(sender, operator, role) ==
    /\ Loaded(AUTHORIZE_OPERATOR)
    /\ isOperatorWithRoleAuthorized(sender, REGISTRAR)
    /\ role \in operatorsAuthorizations[operator]
    /\ operatorsAuthorizations' = [operatorsAuthorizations EXCEPT ![operator] = @ \cup {role}]
    /\ UNCHANGED <<exists, tokenVars, entrypointsBigMap>>

RevokeOperatorAuthorization(sender, operator, role) ==
    /\ Loaded(REVOKE_OPERATOR_AUTHORIZATION)
    /\ isOperatorWithRoleAuthorized(sender, REGISTRAR)
    /\ role \in operatorsAuthorizations[operator]
    /\ operatorsAuthorizations' = [operatorsAuthorizations EXCEPT ![operator] = @ \ {role}]
    /\ UNCHANGED <<exists, tokenVars, entrypointsBigMap>>

-----------------------------------------------------------------------------

\* The calls of the bond's users; the platform adds Originate and UpgradeBond.
BondCall ==
    \E sender \in Addresses :
        \/ \E t \in TxIds, seller, buyer \in Addresses, q \in Quantities :
              InitiateSubscription(sender, t, seller, buyer, q)
        \/ \E t \in TxIds :
              ConfirmPaymentReceived(sender, t) \/ ConfirmPaymentTransferred(sender, t)
        \/ \E operator \in Addresses, role \in Roles :
              \/ AuthorizeOperator(sender, operator, role)
              \/ RevokeOperatorAuthorization(sender, operator, role)

-----------------------------------------------------------------------------
(* Properties. *)

\* Balances and locks are natural numbers, and what is stored has its type.
BondTypeOK ==
    /\ exists \in BOOLEAN
    /\ balances \in [Addresses -> [balance : Nat, locked : Nat]]
    /\ settlementTransactionById \in [TxIds -> SettlementTransaction \cup {NoTransaction}]
    /\ operatorsAuthorizations \in [Addresses -> SUBSET Roles]
    /\ entrypointsBigMap \subseteq Lambdas

Pending(t) == settlementTransactionById[t].status = TOKEN_LOCKED

\* The tokens the pending settlement transactions will deliver.
ReservedTokens ==
    {p \in TxIds \X (1..InitialSupply) :
        Pending(p[1]) /\ p[2] <= settlementTransactionById[p[1]].quantity}

\* The owner's lock is what the pending settlement transactions will
\* deliver, and nobody else's tokens are locked: confirmPaymentReceived
\* unlocks what initiateSubscription locked, whatever came in between.
LocksArePending ==
    \A a \in Addresses :
        balances[a].locked = IF a = Owner THEN Cardinality(ReservedTokens) ELSE 0

\* The subtractions of confirmPaymentReceived never fail: cash that was
\* received can be answered by the delivery.
PendingCanDeliver ==
    \A t \in TxIds : Pending(t) =>
        Deliverable(settlementTransactionById[t].buyer, settlementTransactionById[t].quantity)

\* What a bond promises its holders, subscriptions being its only deals.
Stage(t) ==
    CASE settlementTransactionById[t].status = UNUSED -> "open"
      [] settlementTransactionById[t].status = TOKEN_LOCKED -> "agreed"
      [] settlementTransactionById[t].status = CASH_RECEIVED -> "delivered"
      [] settlementTransactionById[t].status = CASH_SENT -> "paid"

Holding == [a \in Addresses |->
    IF exists THEN balances[a].balance ELSE newInitialBalances[a].balance]

Deal == [t \in TxIds |->
    [seller |-> settlementTransactionById[t].seller,
     buyer |-> settlementTransactionById[t].buyer,
     quantity |-> settlementTransactionById[t].quantity,
     redeems |-> FALSE, stage |-> Stage(t)]]

DVP == INSTANCE DeliveryVersusPayment WITH
    Holders <- Addresses, Issuer <- Owner, Issued <- InitialSupply, Deals <- TxIds,
    None <- NoAddress,
    holding <- Holding, deal <- Deal, closed <- FALSE

\* The Tezos bond is a delivery-versus-payment ledger too.
BondIsDeliveryVersusPayment == DVP!Spec

-----------------------------------------------------------------------------
(* A statement of the repository that the bond does not meet.               *)

\* common/libs/operators/lambda.py:22, "verify if operator is already
\* existant with the same role.", and the message of that test, "already
\* authorized": authorizeOperator refuses a role the operator has, and gives
\* a registrar's operator one it does not have yet (line 20 makes the entry
\* of a new operator).
NewRolesAreGranted ==
    \A sender, operator \in Addresses, role \in Roles :
        Loaded(AUTHORIZE_OPERATOR) /\ isOperatorWithRoleAuthorized(sender, REGISTRAR) =>
            (ENABLED AuthorizeOperator(sender, operator, role)
                <=> role \notin operatorsAuthorizations[operator])
=============================================================================
