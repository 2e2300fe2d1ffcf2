-------------------------- MODULE FinancialOracles --------------------------
(***************************************************************************)
(* The oracles around one Ethereum bond: FRO, the registrar's oracle, and  *)
(* FSO, the settler's, over the STR, the database of settlement            *)
(* transactions they share, and the chain.                                 *)
(*                                                                         *)
(* An oracle handles its requests concurrently; a request is a sequence of *)
(* awaits (read the chain, save a row in the STR, send a transaction), and *)
(* other requests run between any two of them.  A request keeps its state  *)
(* in memory only: an await that fails, or a crash, ends it where it is    *)
(* and undoes nothing.  A transaction is only sent by the oracle: send     *)
(* returns its hash, and the chain executes it later, in the order of the  *)
(* sender's nonces, or never (it reverts, or it is cancelled).             *)
(***************************************************************************)
EXTENDS OracleDrivenBond, SequencesExt

CONSTANTS
    Requests,       \* slots for the requests an oracle handles at a time
    OperationKind,  \* the kind of operation the clients use an id for
    ClientRequests, \* the subscriptions and trades the clients ask for
    MaxSent         \* bound: transactions of a sender waiting to be mined

VARIABLES
    str,        \* the rows of str_settlement_transaction, by id
    request,    \* what each request being handled holds in memory
    mempool     \* per sender, the transactions sent and not yet mined

oracleVars == <<str, request, mempool>>

ASSUME ClientsAssumption ==
    /\ OperationKind \in [OperationIds -> {SUBSCRIPTION, REDEMPTION, TRADE}]
    /\ ClientRequests \subseteq
           [operationId : OperationIds, sender : Accounts, receiver : Accounts,
            quantity : Quantities]
    /\ \A c \in ClientRequests : OperationKind[c.operationId] # REDEMPTION
    /\ MaxSent \in Nat
    /\ NoAddress \notin TxIds

\* The bounds of ForgeBond leave nothing of a redemption out: a balance is a
\* quantity one can pass, and a call has room for every investor.
ASSUME RedemptionAssumption ==
    /\ 1..InitialSupply \subseteq Quantities
    /\ Cardinality(Accounts \ {Issuer}) <= MaxRedemption

-----------------------------------------------------------------------------
(* The STR. *)

\* A row: the terms of a settlement transaction, and the id of the first one
\* generated with it.  A movement with its payment reference is saved per
\* settlement transaction, and the payment of the issuer into the settler's
\* account is shared by all those of an indirect redemption (the same
\* movement object is pushed into each): `batch` stands for that reference.
Row == [terms : PartialSettlementTransaction, batch : TxIds]
NoRow == [terms |-> NoAddress, batch |-> NoAddress]

Saved(txId) == str[txId] # NoRow

\* create: the caller is a registrar of the instrument (FRO is) and the id is
\* not taken.  Rows are never updated or deleted.
Save(p, batch) ==
    /\ ~Saved(p.txId)
    /\ str' = [str EXCEPT ![p.txId] = [terms |-> p, batch |-> batch]]

\* getSettlementTransactionsByPaymentReference for the references a row
\* has: its own ones, and the one of its batch.
WithReferenceOf(txId) == {{txId}, {t \in TxIds : Saved(t) /\ str[t].batch = str[txId].batch}}

-----------------------------------------------------------------------------
(* Requests. *)

Idle == [step |-> "idle"]

Ids(ps) == {ps[i].txId : i \in DOMAIN ps}

\* v4() gives an id nobody has.
Fresh(txId) ==
    /\ ~Saved(txId)
    /\ \A r \in Requests :
          request[r].step = "saving" => txId \notin Ids(request[r].sts)

Become(r, state) == request' = [request EXCEPT ![r] = state]

\* saved: how many of sts are in the STR.  positions: the balances when they
\* were generated (the code keeps none of them; FreshRedemptionTakesAll does).
Saving(type, sts) ==
    [step |-> "saving", type |-> type, sts |-> sts, saved |-> 0, positions |-> balance]

CanSend(sender) == Len(mempool[sender]) < MaxSent
Send(sender, call) == mempool' = [mempool EXCEPT ![sender] = Append(@, call)]

\* generateSettlementTransactionsInputTrade and -Subscription: what the
\* client asked for, but a subscription is delivered by the bond's owner.
Generated(c, txId) ==
    [txId |-> txId, operationId |-> c.operationId,
     sender |-> IF OperationKind[c.operationId] = SUBSCRIPTION THEN Issuer ELSE c.sender,
     receiver |-> c.receiver, quantity |-> c.quantity]

\* FRO initiateOperation, up to its call of the STR.
InitiateOperation(r, c, txId) ==
    /\ request[r] = Idle
    /\ Fresh(txId)
    /\ Become(r, Saving(OperationKind[c.operationId], <<Generated(c, txId)>>))
    /\ UNCHANGED <<vars, str, mempool>>

\* FRO initiateRedemption, up to its first await: the state of the bond.
CheckNotRedeemed(r, operationId) ==
    /\ request[r] = Idle
    /\ OperationKind[operationId] = REDEMPTION
    /\ bondState # STATE_REDEEMED
    /\ Become(r, [step |-> "checked", operationId |-> operationId])
    /\ UNCHANGED <<vars, str, mempool>>

\* FXO getInstrumentPositions.  Locked tokens are part of the balance.
InstrumentPositions == FullBalances

\* Mutant: the issuer is paid back too.
MutIssuerRedeemed(pos) == pos.balance > 0

\* An investor: whoever has a balance, the issuer aside.
IsInvestor(pos) == pos.account # Issuer /\ pos.balance > 0

\* The positions of the investors, in the order of the list (filter).
InvestorPositions ==
    LET investors == {i \in DOMAIN InstrumentPositions : IsInvestor(InstrumentPositions[i])}
        order == CHOOSE f \in [1..Cardinality(investors) -> investors] :
                     \A m, n \in DOMAIN f : m < n => f[m] < f[n]
    IN  [n \in DOMAIN order |-> InstrumentPositions[order[n]]]

\* Then the positions: one settlement transaction per investor.
GenerateRedemption(r) ==
    LET positions == InvestorPositions
    IN  /\ request[r].step = "checked"
        /\ positions # <<>>
        /\ \E ids \in [DOMAIN positions -> {t \in TxIds : Fresh(t)}] :
              /\ \A i, j \in DOMAIN positions : ids[i] = ids[j] => i = j
              /\ Become(r, Saving(REDEMPTION,
                    [i \in DOMAIN positions |->
                        [txId |-> ids[i], operationId |-> request[r].operationId,
                         sender |-> positions[i].account, receiver |-> Issuer,
                         quantity |-> positions[i].balance]]))
        /\ UNCHANGED <<vars, str, mempool>>

\* Mutant: a save that fails is passed over.
MutSaveIgnored(r) ==
    /\ request[r].step = "saving"
    /\ request[r].saved < Len(request[r].sts)
    /\ Become(r, [request[r] EXCEPT !.saved = @ + 1])
    /\ UNCHANGED <<vars, str, mempool>>

\* createSettlementTransactions saves one after the other, each awaited.
SaveNext(r) ==
    /\ request[r].step = "saving"
    /\ request[r].saved < Len(request[r].sts)
    /\ Save(request[r].sts[request[r].saved + 1], request[r].sts[1].txId)
    /\ Become(r, [request[r] EXCEPT !.saved = @ + 1])
    /\ UNCHANGED <<vars, mempool>>

\* Mutant: the transaction does not wait for the rows.
MutSendUnsaved(r) ==
    /\ request[r].step = "saving"
    /\ CanSend(Registrar)
    /\ Send(Registrar, [kind |-> "initiate", type |-> request[r].type,
                        sts |-> request[r].sts, positions |-> request[r].positions])
    /\ Become(r, Idle)
    /\ UNCHANGED <<vars, str>>

\* All are saved: the transaction is sent and its hash returned.
SendInitiation(r) ==
    /\ request[r].step = "saving"
    /\ request[r].saved = Len(request[r].sts)
    /\ CanSend(Registrar)
    /\ Send(Registrar, [kind |-> "initiate", type |-> request[r].type,
                        sts |-> request[r].sts, positions |-> request[r].positions])
    /\ Become(r, Idle)
    /\ UNCHANGED <<vars, str>>

\* FRO cancelSettlementTransaction reads the row and sends its terms.  The
\* read is no step of its own, since rows never change; a row that is not
\* there is an error.
SendCancel(txId) ==
    /\ Saved(txId)
    /\ CanSend(Registrar)
    /\ Send(Registrar, [kind |-> "cancel", terms |-> str[txId].terms])
    /\ UNCHANGED <<vars, str, request>>

\* FSO confirmPaymentReceived, confirmPaymentTransferred: the settlement
\* transactions with the reference, in the order the database gives.
LookUpReference(r, kind, txId) ==
    /\ request[r] = Idle
    /\ Saved(txId)
    /\ \E found \in WithReferenceOf(txId) :
          Become(r, [step |-> "confirming", kind |-> kind, todo |-> found])
    /\ UNCHANGED <<vars, str, mempool>>

\* One transaction is sent after the other, each awaited.
SendConfirmation(r, txId) ==
    /\ request[r].step = "confirming"
    /\ txId \in request[r].todo
    /\ CanSend(Settler)
    /\ Send(Settler, [kind |-> request[r].kind, txId |-> txId])
    /\ Become(r, IF request[r].todo = {txId} THEN Idle
                 ELSE [request[r] EXCEPT !.todo = @ \ {txId}])
    /\ UNCHANGED <<vars, str>>

\* A call to the STR or to the node throws, an account is missing from the
\* request, or the oracle crashes: the request is over.  The row whose save
\* failed may have been written all the same.
Fail(r) ==
    /\ request[r] # Idle
    /\ Become(r, Idle)
    /\ \/ UNCHANGED str
       \/ /\ request[r].step = "saving"
          /\ request[r].saved < Len(request[r].sts)
          /\ Save(request[r].sts[request[r].saved + 1], request[r].sts[1].txId)
    /\ UNCHANGED <<vars, mempool>>

-----------------------------------------------------------------------------
(* The chain. *)

Execute(sender, call) ==
    \/ /\ call.kind = "initiate"
       /\ \/ call.type = SUBSCRIPTION /\ InitiateSubscription(sender, call.sts[1])
          \/ call.type = TRADE /\ InitiateTrade(sender, call.sts[1])
          \/ call.type = REDEMPTION /\ InitiateRedemption(sender, call.sts)
    \/ call.kind = "cancel" /\ CancelSettlementTransaction(sender, call.terms)
    \/ call.kind = "received" /\ ConfirmPaymentReceived(sender, call.txId)
    \/ call.kind = "transferred" /\ ConfirmPaymentTransferred(sender, call.txId)

Mine(sender) ==
    /\ mempool[sender] # <<>>
    /\ Execute(sender, Head(mempool[sender]))
    /\ mempool' = [mempool EXCEPT ![sender] = Tail(@)]
    /\ UNCHANGED <<str, request>>

\* A transaction reverts when its turn comes, or is cancelled before (FXO
\* cancelTransaction): the bond does not see it.
Drop(sender, i) ==
    /\ i \in DOMAIN mempool[sender]
    /\ mempool' = [mempool EXCEPT ![sender] = RemoveAt(@, i)]
    /\ UNCHANGED <<vars, str, request>>

-----------------------------------------------------------------------------
FinancialInit ==
    /\ Init
    /\ str = [t \in TxIds |-> NoRow]
    /\ request = [r \in Requests |-> Idle]
    /\ mempool = [s \in {Registrar, Settler} |-> <<>>]

FinancialNext ==
    \/ \E r \in Requests :
          \/ \E c \in ClientRequests, t \in TxIds : InitiateOperation(r, c, t)
          \/ \E o \in OperationIds : CheckNotRedeemed(r, o)
          \/ GenerateRedemption(r)
          \/ SaveNext(r)
          \/ SendInitiation(r)
          \/ \E kind \in {"received", "transferred"}, t \in TxIds : LookUpReference(r, kind, t)
          \/ \E t \in TxIds : SendConfirmation(r, t)
          \/ Fail(r)
    \/ \E t \in TxIds : SendCancel(t)
    \/ \E sender \in {Registrar, Settler} :
          Mine(sender) \/ \E i \in 1..MaxSent : Drop(sender, i)

FinancialSpec == FinancialInit /\ [][FinancialNext]_<<vars, oracleVars>>

-----------------------------------------------------------------------------
(* Properties. *)

\* Rows, requests in memory and transactions on their way have the shapes the
\* STR schema, the handlers and the contract's ABI give them; what is saved
\* of a request is a prefix of what it generated.
OraclesTypeOK ==
    /\ TypeOK
    /\ str \in [TxIds -> Row \cup {NoRow}]
    /\ \A r \in Requests :
          \/ request[r] = Idle
          \/ request[r].step = "checked" /\ request[r].operationId \in OperationIds
          \/ /\ request[r].step = "saving"
             /\ \A i \in DOMAIN request[r].sts :
                   /\ request[r].sts[i] \in PartialSettlementTransaction
                   /\ i <= request[r].saved => Saved(request[r].sts[i].txId)
          \/ request[r].step = "confirming" /\ request[r].todo \in (SUBSET TxIds) \ {{}}
    /\ \A s \in {Registrar, Settler} : Len(mempool[s]) <= MaxSent

\* What reaches the bond through requests that interleave, fail half-way and
\* read positions and rows that are old by the time a transaction is mined is
\* still what OracleDrivenBond allows: one operation and one settlement
\* transaction per investor in a redemption, cancellations with the terms
\* that were locked.  Its invariants, and delivery versus payment, follow.
\* (This is OracleSpec, the stuttering step named first.)
DrivesTheBond == Init /\ [][UNCHANGED vars \/ OracleNext]_vars

\* The bond never holds a settlement transaction the STR does not know with
\* the same terms: FSO finds it by its payment reference, FXO can tell its
\* status, and a cancellation unlocks what was locked.
StrKnowsTheChain ==
    \A t \in TxIds : Exists(t) => Saved(t) /\ str[t].terms = StoredTerms(t)

\* Two redemption requests that both found the bond not redeemed, or one
\* retried: the settlement transactions of one of them at most are accepted.
OneRedemption ==
    \A t, u \in TxIds :
        Exists(t) /\ Exists(u) /\ OperationType(t) = REDEMPTION /\ OperationType(u) = REDEMPTION
            => str[t].batch = str[u].batch

\* A redemption that is mined before any balance it was generated from has
\* changed takes everything: each investor has all its tokens locked for it.
FreshRedemptionTakesAll ==
    [][bondState # STATE_REDEEMED /\ bondState' = STATE_REDEEMED
         /\ Head(mempool[Registrar]).positions = balance
       => \A a \in Accounts \ {Issuer} : locked'[a] = balance'[a]]_<<vars, oracleVars>>
=============================================================================
