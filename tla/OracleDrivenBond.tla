-------------------------- MODULE OracleDrivenBond --------------------------
(***************************************************************************)
(* The bond under the calls the oracles make of it, and no others.  FRO is *)
(* the only registrar and FSO the only settler; the operators never change *)
(* and nobody calls burn (no oracle does).                                 *)
(*                                                                         *)
(*   - initiateOperation and initiateRedemption take a fresh id per        *)
(*     settlement transaction and one operation id per request;            *)
(*   - a redemption delivers, for each holder listed other than the        *)
(*     issuer, a positive quantity to the issuer (fro.redemption.service); *)
(*   - cancelSettlementTransaction passes the terms the STR stores, which  *)
(*     are the ones the settlement transaction was created with.           *)
(*                                                                         *)
(* An operation id comes from the client.  FRO checks only that it is a    *)
(* UUID; that a client does not reuse one for another kind of operation    *)
(* is assumed here (the tutorial asks for "another new uuid").             *)
(***************************************************************************)
EXTENDS ForgeBond

\* The operation id is new, or stands for an operation of the same kind.
UsableFor(operationId, type) ==
    operationTypeByOperationId[operationId] \in {NO_TYPE, type}

OracleSubscription(p) ==
    /\ UsableFor(p.operationId, SUBSCRIPTION)
    /\ InitiateSubscription(Registrar, p)

OracleTrade(p) ==
    /\ UsableFor(p.operationId, TRADE)
    /\ InitiateTrade(Registrar, p)

RedemptionInputs ==
    {p \in PartialSettlementTransaction :
        p.sender # Issuer /\ p.receiver = Issuer /\ p.quantity > 0}

OracleRedemption(ps) ==
    /\ \A i \in DOMAIN ps : ps[i].operationId = ps[1].operationId
    /\ \A i, j \in DOMAIN ps : ps[i].sender = ps[j].sender => i = j
    /\ UsableFor(ps[1].operationId, REDEMPTION)
    /\ InitiateRedemption(Registrar, ps)

\* The stored settlement transaction as the oracles pass it.
StoredTerms(txId) ==
    LET st == settlementTransactionById[txId]
    IN  [txId |-> txId, operationId |-> st.operationId, sender |-> st.sender,
         receiver |-> st.receiver, quantity |-> st.quantity]

OracleCancel(txId) ==
    /\ Exists(txId)
    /\ CancelSettlementTransaction(Registrar, StoredTerms(txId))

OracleNext ==
    \/ \E p \in PartialSettlementTransaction : OracleSubscription(p) \/ OracleTrade(p)
    \/ \E n \in 1..MaxRedemption :
          \E ps \in [1..n -> RedemptionInputs] : OracleRedemption(ps)
    \/ \E t \in TxIds :
          \/ OracleCancel(t)
          \/ ConfirmPaymentReceived(Settler, t)
          \/ ConfirmPaymentTransferred(Settler, t)

OracleSpec == Init /\ [][OracleNext]_vars

-----------------------------------------------------------------------------
(* Properties. *)

Pending(txId) == settlementTransactionById[txId].status = TOKEN_LOCKED

\* The tokens of a that its pending settlement transactions will deliver.
ReservedTokens(a) ==
    {p \in TxIds \X Tokens :
        /\ Pending(p[1])
        /\ settlementTransactionById[p[1]].sender = a
        /\ p[2] <= settlementTransactionById[p[1]].quantity}

\* The locked counter of an account is exactly what its pending settlement
\* transactions will deliver: no delivery or cancellation frees tokens
\* another settlement transaction counts on, and none strands a lock.
LocksMatchPending ==
    \A a \in Accounts : locked[a] = Cardinality(ReservedTokens(a))

\* No pending settlement transaction is stuck: every require of
\* confirmPaymentReceived holds of it, the burn of a redemption's included,
\* so cash the settler received can always be answered by the delivery.
PendingCanSettle == \A t \in TxIds : Pending(t) => CanDeliver(t)

\* Tokens are destroyed only by redemptions: what was burned is what the
\* delivered settlement transactions of redemptions carried.
RedeemedTokens ==
    {p \in TxIds \X Tokens :
        /\ settlementTransactionById[p[1]].status \in {CASH_RECEIVED, CASH_TRANSFERRED}
        /\ OperationType(p[1]) = REDEMPTION
        /\ p[2] <= settlementTransactionById[p[1]].quantity}

BurnedByRedemption == burned = Cardinality(RedeemedTokens)

-----------------------------------------------------------------------------
(* What the bond promises. *)

Stage(txId) ==
    CASE settlementTransactionById[txId].status = NOT_CREATED -> "open"
      [] settlementTransactionById[txId].status = TOKEN_LOCKED -> "agreed"
      [] settlementTransactionById[txId].status = CASH_RECEIVED -> "delivered"
      [] settlementTransactionById[txId].status = CASH_TRANSFERRED -> "paid"
      [] OTHER -> "off"

AbstractDeal ==
    [t \in TxIds |->
        [seller |-> settlementTransactionById[t].sender,
         buyer |-> settlementTransactionById[t].receiver,
         quantity |-> settlementTransactionById[t].quantity,
         redeems |-> OperationType(t) = REDEMPTION,
         stage |-> Stage(t)]]

DVP == INSTANCE DeliveryVersusPayment WITH
    Holders <- Accounts, Issued <- InitialSupply, Deals <- TxIds, None <- NoAddress,
    holding <- balance, deal <- AbstractDeal, closed <- (bondState = STATE_REDEEMED)

\* The oracles' use of the bond is a delivery-versus-payment ledger.
IsDeliveryVersusPayment == DVP!Spec

=============================================================================
