------------------------- MODULE MCFinancialOracles -------------------------
(* Model-checking instances of FinancialOracles. *)
EXTENDS FinancialOracles, TLC

CONSTANTS issuer, alice, bob, registrar, settler, subscribe, trade, redeem

\* One operation id per kind of operation: a client never reuses one for
\* another kind.
Kinds ==
    [o \in OperationIds |->
        CASE o = subscribe -> SUBSCRIPTION
          [] o = trade -> TRADE
          [] OTHER -> REDEMPTION]

Ask(operation, from, to, quantity) ==
    [operationId |-> operation, sender |-> from, receiver |-> to, quantity |-> quantity]

\* One investor: subscriptions of everything the issuer has, two of which
\* compete, and trades that give it a part back.
OneInvestor ==
    {Ask(subscribe, issuer, alice, 2), Ask(trade, alice, issuer, 1)}

\* Two investors, one of which may subscribe twice.
TwoInvestors ==
    {Ask(subscribe, issuer, a, 1) : a \in {alice, bob}}

\* Investors differ only by name, and so do ids and requests.
Symmetry ==
    Permutations(Accounts \ {issuer}) \cup Permutations(TxIds) \cup Permutations(Requests)
=============================================================================
