----------------------- MODULE FinancialOraclesProofs -----------------------
(***************************************************************************)
(* Proofs about FinancialOracles, for any number of requests, clients'     *)
(* asks, accounts and ids.                                                 *)
(*                                                                         *)
(* What ties the oracles to the bond is a chain of facts, one per place a  *)
(* settlement transaction goes through: the rows saved for a request are   *)
(* the ones it generated, a transaction on its way names only rows that    *)
(* are saved, and what the bond stores came by such a transaction.  Rows   *)
(* never change, so that it does not matter how much later the chain       *)
(* executes what was sent.                                                 *)
(***************************************************************************)
EXTENDS FinancialOracles, ForgeBondProofs

\* The positions of a redemption: one per investor, with its whole balance.
TakesAll(positions, sts) ==
    \A a \in Accounts \ {Issuer} :
        positions[a] > 0 =>
            \E i \in DOMAIN sts : sts[i].sender = a /\ sts[i].quantity = positions[a]

\* What FRO generates for a request of a type.
GeneratedFor(type, sts, positions) ==
    /\ sts \in Seq(PartialSettlementTransaction)
    /\ sts # <<>>
    /\ \A i \in DOMAIN sts : OperationKind[sts[i].operationId] = type
    /\ \A i, j \in DOMAIN sts : sts[i].txId = sts[j].txId => i = j
    /\ type = REDEMPTION =>
          /\ Len(sts) <= MaxRedemption
          /\ \A i \in DOMAIN sts : sts[i] \in RedemptionInputs
          /\ \A i \in DOMAIN sts : sts[i].operationId = sts[1].operationId
          /\ \A i, j \in DOMAIN sts : sts[i].sender = sts[j].sender => i = j
          /\ TakesAll(positions, sts)

\* The first n settlement transactions of sts are saved, as one batch.
SavedUpTo(sts, n) ==
    \A i \in 1..n : str[sts[i].txId] = [terms |-> sts[i], batch |-> sts[1].txId]

StrOK ==
    /\ str \in [TxIds -> Row \cup {NoRow}]
    /\ \A t \in TxIds : Saved(t) => str[t].terms.txId = t

Kinds == {SUBSCRIPTION, TRADE, REDEMPTION}
Positions == [Accounts -> 0..MaxUint]

Checked == [step : {"checked"}, operationId : OperationIds]
BeingSaved == [step : {"saving"}, type : Kinds, sts : Seq(PartialSettlementTransaction),
               saved : Nat, positions : Positions]
Confirming == [step : {"confirming"}, kind : {"received", "transferred"},
               todo : (SUBSET TxIds) \ {{}}]

\* A request has saved what it says it has.
RequestOK(q) ==
    \/ q = Idle
    \/ q \in Checked /\ OperationKind[q.operationId] = REDEMPTION
    \/ /\ q \in BeingSaved
       /\ GeneratedFor(q.type, q.sts, q.positions)
       /\ q.saved <= Len(q.sts) /\ SavedUpTo(q.sts, q.saved)
    \/ q \in Confirming

RequestsOK ==
    /\ DOMAIN request = Requests
    /\ \A r \in Requests : RequestOK(request[r])

Initiation == [kind : {"initiate"}, type : Kinds, sts : Seq(PartialSettlementTransaction),
               positions : Positions]
Cancellation == [kind : {"cancel"}, terms : PartialSettlementTransaction]
Confirmation == [kind : {"received", "transferred"}, txId : TxIds]
Call == Initiation \cup Cancellation \cup Confirmation

\* A transaction on its way names rows that are saved, with their terms.
CallOK(sender, call) ==
    \/ /\ sender = Registrar /\ call \in Initiation
       /\ GeneratedFor(call.type, call.sts, call.positions)
       /\ SavedUpTo(call.sts, Len(call.sts))
    \/ /\ sender = Registrar /\ call \in Cancellation
       /\ Saved(call.terms.txId) /\ str[call.terms.txId].terms = call.terms
    \/ sender = Settler /\ call \in Confirmation

Senders == {Registrar, Settler}

MempoolOK ==
    /\ mempool \in [Senders -> Seq(Call)]
    /\ \A s \in Senders :
          /\ Len(mempool[s]) <= MaxSent
          /\ \A i \in DOMAIN mempool[s] : CallOK(s, mempool[s][i])

\* An operation id stands, on the chain too, for the kind of operation the
\* clients use it for.
KindsOK ==
    \A o \in OperationIds : operationTypeByOperationId[o] \in {NO_TYPE, OperationKind[o]}

KindOf(t) == OperationKind[settlementTransactionById[t].operationId]

\* The settlement transactions of a redemption are of one batch, and end the
\* bond.
RedeemedOnce ==
    /\ \A t \in TxIds : Exists(t) /\ KindOf(t) = REDEMPTION => bondState = STATE_REDEEMED
    /\ \A t, u \in TxIds :
          Exists(t) /\ Exists(u) /\ KindOf(t) = REDEMPTION /\ KindOf(u) = REDEMPTION
              => str[t].batch = str[u].batch

OraclesInv ==
    /\ DrivenInv
    /\ HoldersListedOnce
    /\ StrOK
    /\ RequestsOK
    /\ MempoolOK
    /\ KindsOK
    /\ StrKnowsTheChain
    /\ RedeemedOnce

-----------------------------------------------------------------------------
(* The list of investors. *)

\* A set of positions in a list can be gone through in order.
LEMMA Enumerable ==
    ASSUME NEW N \in Nat, NEW S \in SUBSET (1..N)
    PROVE  \E f \in [1..Cardinality(S) -> S] : \A m, n \in DOMAIN f : m < n => f[m] < f[n]
<1> DEFINE Ordered(T) == \E f \in [1..Cardinality(T) -> T] :
                             \A m, n \in DOMAIN f : m < n => f[m] < f[n]
           Bad == {k \in Nat : \E T \in SUBSET (1..k) : ~Ordered(T)}
           R == OpToRel(<, Nat)
<1>1. IsWellFoundedOn(R, Nat) /\ \A x, y \in Nat : <<y, x>> \in R <=> y < x
  BY NatLessThanWellFounded DEF OpToRel
<1> HIDE DEF R
<1>2. ASSUME NEW k \in Bad, \A l \in Bad : ~(l < k)
      PROVE  FALSE
  <2> HIDE DEF Ordered
  <2>1. k \in Nat /\ \E T \in SUBSET (1..k) : ~Ordered(T)
    OBVIOUS
  <2> PICK T \in SUBSET (1..k) : ~Ordered(T)
    BY <2>1
  <2> HIDE DEF Bad
  <2>2. IsFiniteSet(1..k)
    BY <2>1, FS_Interval
  <2>3. IsFiniteSet(T) /\ Cardinality(T) \in Nat
    BY <2>2, FS_Subset, FS_CardinalityType, Zenon
  <2>4. CASE T = {}
    <3>1. Cardinality(T) = 0
      BY <2>4, FS_EmptySet, Zenon
    <3>2. [x \in 1..0 |-> x] \in [1..Cardinality(T) -> T]
      BY <3>1
    <3>3. QED
      BY <3>1, <3>2 DEF Ordered
  <2>5. CASE T # {}
    <3>1. k >= 1
      <4>1. PICK x : x \in T
        BY <2>5
      <4>2. x \in 1..k
        BY <4>1
      <4>3. QED
        BY <2>1, <4>2
    <3>2. T \ {k} \in SUBSET (1..(k - 1)) /\ k - 1 \in Nat
      BY <2>1, <3>1
    <3>3. Ordered(T \ {k})
      <4>1. k - 1 \notin Bad
        BY <1>2, <2>1, <3>2
      <4>2. QED
        BY <3>2, <4>1 DEF Bad
    <3>4. k \in T
      <4> SUFFICES ASSUME k \notin T PROVE FALSE
        OBVIOUS
      <4>1. T \ {k} = T
        OBVIOUS
      <4>2. QED
        BY <3>3, <4>1
    <3>5. Cardinality(T \ {k}) = Cardinality(T) - 1
      BY <2>3, <3>4, FS_RemoveElement
    <3>6. Cardinality(T \ {k}) \in Nat
      BY <2>3, FS_RemoveElement, FS_CardinalityType, Zenon
    <3>7. PICK f \in [1..Cardinality(T \ {k}) -> T \ {k}] :
              \A m, n \in DOMAIN f : m < n => f[m] < f[n]
      BY <3>3 DEF Ordered
    <3> DEFINE g == [i \in 1..Cardinality(T) |-> IF i < Cardinality(T) THEN f[i] ELSE k]
    <3>8. PICK c \in Nat : Cardinality(T) = c + 1 /\ Cardinality(T \ {k}) = c
      BY <2>3, <3>5, <3>6
    <3>9. /\ f \in [1..c -> T \ {k}] /\ g = [i \in 1..(c + 1) |-> IF i < c + 1 THEN f[i] ELSE k]
          /\ DOMAIN f = 1..c
      BY <3>8
    <3> HIDE DEF g
    <3>10. /\ \A i \in 1..c : g[i] = f[i] /\ f[i] \in T /\ f[i] \in Nat /\ f[i] < k
           /\ g[c + 1] = k /\ DOMAIN g = 1..(c + 1)
      <4>1. ASSUME NEW i \in 1..c
            PROVE  g[i] = f[i] /\ f[i] \in T /\ f[i] \in Nat /\ f[i] < k
        <5>1. i \in 1..(c + 1) /\ i < c + 1
          OBVIOUS
        <5>2. g[i] = f[i] /\ f[i] \in T \ {k}
          BY <3>9, <5>1
        <5>3. f[i] \in 1..k
          BY <5>2
        <5>4. QED
          BY <2>1, <5>2, <5>3
      <4>2. c + 1 \in 1..(c + 1) /\ ~(c + 1 < c + 1)
        OBVIOUS
      <4>3. QED
        BY <3>9, <4>1, <4>2
    <3>11. g \in [1..(c + 1) -> T]
      <4>1. \A i \in 1..(c + 1) : i \in 1..c \/ i = c + 1
        OBVIOUS
      <4>2. \A i \in 1..(c + 1) : g[i] \in T
        BY <3>4, <3>10, <4>1
      <4>3. g = [i \in 1..(c + 1) |-> g[i]]
        BY <3>9
      <4>4. QED
        BY <4>2, <4>3
    <3>12. ASSUME NEW m \in 1..(c + 1), NEW n \in 1..(c + 1), m < n
           PROVE  g[m] < g[n]
      <4>1. m \in 1..c
        BY <3>12
      <4>2. CASE n \in 1..c
        BY <3>7, <3>9, <3>10, <3>12, <4>1, <4>2
      <4>3. CASE n = c + 1
        BY <3>10, <4>1, <4>3
      <4>4. QED
        BY <4>2, <4>3
    <3>13. QED
      BY <3>8, <3>10, <3>11, <3>12 DEF Ordered
  <2>6. QED
    BY <2>4, <2>5
<1> HIDE DEF Bad
<1>3. Bad = {}
  <2> SUFFICES ASSUME Bad # {} PROVE FALSE
    OBVIOUS
  <2>1. Bad \subseteq Nat
    BY DEF Bad
  <2>2. PICK k \in Bad : \A l \in Bad : ~(<<l, k>> \in R)
    BY <1>1, <2>1, WFMin
  <2>3. \A l \in Bad : ~(l < k)
    BY <1>1, <2>1, <2>2
  <2>4. QED
    BY <1>2, <2>3
<1>4. QED
  BY <1>3 DEF Bad

\* The positions a redemption is generated from: every investor's, once, with
\* its balance, and no more of them than a call has room for.
LEMMA InvestorsListed ==
    ASSUME LedgerInv, HoldersListedOnce
    PROVE  \E n \in 0..MaxRedemption :
               /\ InvestorPositions = [i \in 1..n |-> InvestorPositions[i]]
               /\ \A i \in 1..n : /\ InvestorPositions[i].account \in Accounts \ {Issuer}
                                   /\ InvestorPositions[i].balance
                                          = balance[InvestorPositions[i].account]
                                   /\ InvestorPositions[i].balance > 0
               /\ \A i, j \in 1..n :
                     InvestorPositions[i].account = InvestorPositions[j].account => i = j
               /\ \A a \in Accounts \ {Issuer} :
                     balance[a] > 0 => \E i \in 1..n : InvestorPositions[i].account = a
<1> DEFINE investors == {i \in DOMAIN InstrumentPositions : IsInvestor(InstrumentPositions[i])}
           n == Cardinality(investors)
           inOrder(f) == \A m, k \in DOMAIN f : m < k => f[m] < f[k]
           order == CHOOSE f \in [1..n -> investors] : inOrder(f)
<1>1. keys \in Seq(Accounts) /\ Len(keys) \in Nat /\ DOMAIN keys = 1..Len(keys)
  BY DEF LedgerInv, TypeOK
<1>2. InvestorPositions = [i \in DOMAIN order |-> InstrumentPositions[order[i]]]
  BY DEF InvestorPositions
<1>3. /\ DOMAIN FullBalances = DOMAIN keys
      /\ \A i \in DOMAIN keys : /\ FullBalances[i].account = keys[i]
                                /\ FullBalances[i].balance = balance[keys[i]]
  BY DEF FullBalances
<1>4. investors = {i \in DOMAIN keys : keys[i] # Issuer /\ balance[keys[i]] > 0}
  BY <1>3 DEF InstrumentPositions, IsInvestor
<1> HIDE DEF investors
<1>5. investors \in SUBSET (1..Len(keys))
  BY <1>1, <1>4
<1>6. order \in [1..n -> investors] /\ inOrder(order)
  <2>1. \E f \in [1..n -> investors] : inOrder(f)
    BY <1>1, <1>5, Enumerable
  <2>2. QED
    BY <2>1
<1>7. IsFiniteSet(investors) /\ n \in Nat
  <2>1. IsFiniteSet(1..Len(keys))
    BY <1>1, FS_Interval
  <2>2. QED
    BY <1>5, <2>1, FS_Subset, FS_CardinalityType, Zenon
<1> HIDE DEF order
<1>8. DOMAIN order = 1..n
  BY <1>6
<1>9. InvestorPositions = [i \in 1..n |-> InvestorPositions[i]]
  BY <1>2, <1>8
<1> HIDE DEF n
<1>10. \A i \in 1..n : /\ order[i] \in DOMAIN keys
                       /\ keys[order[i]] \in Accounts \ {Issuer}
                       /\ balance[keys[order[i]]] > 0
                       /\ InvestorPositions[i].account = keys[order[i]]
                       /\ InvestorPositions[i].balance = balance[keys[order[i]]]
  BY <1>1, <1>2, <1>3, <1>4, <1>6, <1>8 DEF InstrumentPositions
<1>11. \A i, j \in 1..n : order[i] = order[j] => i = j
  <2>1. \A i, j \in 1..n : i < j => order[i] < order[j]
    BY <1>6, <1>8
  <2>2. \A i \in 1..n : order[i] \in Nat
    BY <1>1, <1>10
  <2>3. \A i, j \in 1..n : i < j => order[i] # order[j]
    BY <2>1, <2>2
  <2>4. QED
    BY <1>7, <2>3
<1>12. \A i, j \in 1..n : InvestorPositions[i].account = InvestorPositions[j].account => i = j
  BY <1>10, <1>11 DEF HoldersListedOnce
<1>13. \A k \in investors : \E i \in 1..n : order[i] = k
  <2>1. order \in Injection(1..n, investors)
    BY <1>6, <1>8, <1>11 DEF Injection, IsInjective
  <2>2. Cardinality(1..n) = n
    BY <1>7, FS_Interval
  <2>3. Cardinality(1..n) = Cardinality(investors)
    BY <2>2 DEF n
  <2>4. order \in Surjection(1..n, investors)
    BY <1>7, <2>1, <2>3, FS_Injection, Zenon
  <2>5. QED
    BY <2>4 DEF Surjection
<1>14. ASSUME NEW a \in Accounts \ {Issuer}, balance[a] > 0
       PROVE  \E i \in 1..n : InvestorPositions[i].account = a
  <2>1. PICK k \in DOMAIN keys : keys[k] = a
    BY <1>14 DEF HoldersListedOnce
  <2>2. k \in investors
    BY <1>4, <1>14, <2>1
  <2>3. QED
    BY <1>10, <1>13, <2>1, <2>2
<1>15. n <= MaxRedemption
  <2> DEFINE who == [i \in 1..n |-> keys[order[i]]]
             others == Accounts \ {Issuer}
  <2>1. IsFiniteSet(others)
    BY AccountsAssumption, FS_Difference
  <2>2. who \in [1..n -> others]
    BY <1>10
  <2>3. \A i, j \in 1..n : who[i] = who[j] => i = j
    BY <1>10, <1>12
  <2>4. DOMAIN who = 1..n
    OBVIOUS
  <2> HIDE DEF who, others
  <2>5. who \in Injection(1..n, others)
    BY <2>2, <2>3, <2>4 DEF Injection, IsInjective
  <2>6. Cardinality(1..n) <= Cardinality(others)
    BY <2>1, <2>5, FS_Injection, Zenon
  <2>7. Cardinality(1..n) = n
    BY <1>7, FS_Interval
  <2>8. Cardinality(others) \in Nat /\ Cardinality(others) <= MaxRedemption
    BY <2>1, FS_CardinalityType, RedemptionAssumption DEF others
  <2>9. QED
    BY <1>7, <2>6, <2>7, <2>8, IdsAssumption
<1>16. n \in 0..MaxRedemption
  BY <1>7, <1>15, IdsAssumption
<1>17. QED
  BY <1>9, <1>10, <1>12, <1>14, <1>16

-----------------------------------------------------------------------------
(* Rows are only added: what rests on a row stays. *)

Grow == \A t \in TxIds : Saved(t) => Saved(t)' /\ str'[t] = str[t]

LEMMA NotNoRow ==
    ASSUME NEW p, NEW b \in TxIds
    PROVE  [terms |-> p, batch |-> b] # NoRow
BY ClientsAssumption DEF NoRow

LEMMA SaveGrows ==
    ASSUME StrOK, NEW p \in PartialSettlementTransaction, NEW b \in TxIds, Save(p, b)
    PROVE  StrOK' /\ Grow /\ str'[p.txId] = [terms |-> p, batch |-> b]
<1>1. PICK t \in TxIds : t = p.txId
  BY DEF PartialSettlementTransaction
<1>2. PICK row : row = [terms |-> p, batch |-> b]
  OBVIOUS
<1>3. row \in Row /\ row # NoRow /\ row.terms = p
  BY <1>2, NotNoRow DEF Row
<1>4. str' = [str EXCEPT ![t] = row] /\ ~Saved(t)
  BY <1>1, <1>2 DEF Save
<1>5. /\ str' \in [TxIds -> Row \cup {NoRow}] /\ str'[t] = row
      /\ \A u \in TxIds \ {t} : str'[u] = str[u]
  BY <1>3, <1>4 DEF StrOK
<1>6. StrOK'
  BY <1>1, <1>3, <1>5 DEF StrOK, Saved
<1>7. Grow
  BY <1>4, <1>5 DEF Grow, Saved
<1>8. QED
  BY <1>1, <1>2, <1>5, <1>6, <1>7

LEMMA SavedUpToStays ==
    ASSUME Grow, NEW sts \in Seq(PartialSettlementTransaction), sts # <<>>,
           NEW n \in Nat, n <= Len(sts), SavedUpTo(sts, n)
    PROVE  SavedUpTo(sts, n)' /\ \A i \in 1..n : Saved(sts[i].txId)
<1>1. ASSUME NEW i \in 1..n
      PROVE  /\ Saved(sts[i].txId)
             /\ str'[sts[i].txId] = [terms |-> sts[i], batch |-> sts[1].txId]
  <2>1. i \in 1..Len(sts) /\ 1 \in 1..Len(sts)
    OBVIOUS
  <2>2. sts[i].txId \in TxIds /\ sts[1].txId \in TxIds
    <3>1. sts[i] \in PartialSettlementTransaction /\ sts[1] \in PartialSettlementTransaction
      BY <2>1
    <3>2. QED
      BY <3>1 DEF PartialSettlementTransaction
  <2>3. str[sts[i].txId] = [terms |-> sts[i], batch |-> sts[1].txId]
    BY DEF SavedUpTo
  <2>4. Saved(sts[i].txId)
    BY <2>2, <2>3, NotNoRow DEF Saved
  <2>5. QED
    BY <2>2, <2>3, <2>4 DEF Grow
<1>2. QED
  BY <1>1 DEF SavedUpTo

LEMMA RequestStays ==
    ASSUME Grow, NEW q, RequestOK(q)
    PROVE  RequestOK(q)'
<1>1. CASE q \in BeingSaved /\ GeneratedFor(q.type, q.sts, q.positions)
           /\ q.saved <= Len(q.sts) /\ SavedUpTo(q.sts, q.saved)
  <2>1. q.saved \in Nat
    BY <1>1 DEF BeingSaved
  <2>2. SavedUpTo(q.sts, q.saved)'
    BY <1>1, <2>1, SavedUpToStays DEF GeneratedFor
  <2>3. QED
    BY <1>1, <2>2 DEF RequestOK
<1>2. QED
  BY <1>1 DEF RequestOK

LEMMA CallStays ==
    ASSUME Grow, NEW s, NEW c, CallOK(s, c)
    PROVE  CallOK(s, c)'
<1>1. CASE s = Registrar /\ c \in Initiation /\ GeneratedFor(c.type, c.sts, c.positions)
           /\ SavedUpTo(c.sts, Len(c.sts))
  <2>1. c.sts \in Seq(PartialSettlementTransaction) /\ Len(c.sts) \in Nat
    BY <1>1 DEF Initiation
  <2>2. SavedUpTo(c.sts, Len(c.sts))'
    BY <1>1, <2>1, SavedUpToStays DEF GeneratedFor
  <2>3. QED
    BY <1>1, <2>2 DEF CallOK
<1>2. CASE s = Registrar /\ c \in Cancellation
           /\ Saved(c.terms.txId) /\ str[c.terms.txId].terms = c.terms
  <2>1. c.terms.txId \in TxIds
    BY <1>2 DEF Cancellation, PartialSettlementTransaction
  <2>2. QED
    BY <1>2, <2>1 DEF CallOK, Grow
<1>3. CASE s = Settler /\ c \in Confirmation
  BY <1>3 DEF CallOK
<1>4. QED
  BY <1>1, <1>2, <1>3 DEF CallOK

-----------------------------------------------------------------------------
(* What a step does to the requests and to the transactions on their way. *)

LEMMA RequestsStay ==
    ASSUME RequestsOK, Grow, UNCHANGED request
    PROVE  RequestsOK'
BY RequestStays DEF RequestsOK

LEMMA RequestBecomes ==
    ASSUME RequestsOK, Grow, NEW r \in Requests, NEW q, RequestOK(q)', Become(r, q)
    PROVE  RequestsOK'
<1>1. /\ DOMAIN request' = Requests /\ request'[r] = q
      /\ \A p \in Requests \ {r} : request'[p] = request[p]
  BY DEF RequestsOK, Become
<1>2. ASSUME NEW p \in Requests PROVE RequestOK(request[p])'
  <2>1. PICK now : now = request'[p]
    OBVIOUS
  <2>2. p # r => RequestOK(now)
    BY <1>1, <2>1 DEF RequestsOK
  <2>3. RequestOK(now)'
    BY <1>1, <2>1, <2>2, RequestStays
  <2>4. QED
    BY <2>1, <2>3
<1>3. QED
  BY <1>1, <1>2 DEF RequestsOK

LEMMA MempoolStays ==
    ASSUME MempoolOK, Grow, UNCHANGED mempool
    PROVE  MempoolOK'
<1>1. \A s \in Senders : \A i \in DOMAIN mempool[s] : CallOK(s, mempool[s][i])'
  BY CallStays DEF MempoolOK
<1>2. QED
  BY <1>1 DEF MempoolOK

LEMMA MempoolSends ==
    ASSUME MempoolOK, Grow, NEW s \in Senders, NEW call \in Call, CallOK(s, call),
           CanSend(s), Send(s, call)
    PROVE  MempoolOK'
<1>1. PICK q \in Seq(Call) : q = mempool[s]
  BY DEF MempoolOK
<1>2. Len(q) < MaxSent /\ Len(q) \in Nat /\ MaxSent \in Nat
  BY <1>1, ClientsAssumption DEF CanSend
<1>3. Append(q, call) \in Seq(Call) /\ Len(Append(q, call)) = Len(q) + 1
      /\ \A i \in 1..Len(q) : Append(q, call)[i] = q[i]
      /\ Append(q, call)[Len(q) + 1] = call
  OBVIOUS
<1>4. /\ mempool' \in [Senders -> Seq(Call)] /\ mempool'[s] = Append(q, call)
      /\ \A u \in Senders \ {s} : mempool'[u] = mempool[u]
  BY <1>1, <1>3 DEF Send, MempoolOK
<1>5. Len(mempool'[s]) <= MaxSent
  BY <1>2, <1>3, <1>4
<1>6. ASSUME NEW u \in Senders, NEW i \in DOMAIN mempool'[u]
      PROVE  CallOK(u, mempool[u][i])'
  <2>1. PICK now : now = mempool'[u][i]
    OBVIOUS
  <2>2. CallOK(u, now)
    <3>1. CASE u # s
      BY <1>4, <2>1, <3>1 DEF MempoolOK
    <3>2. CASE u = s /\ i \in 1..Len(q)
      BY <1>1, <1>3, <1>4, <2>1, <3>2 DEF MempoolOK
    <3>3. CASE u = s /\ i \notin 1..Len(q)
      <4>1. i = Len(q) + 1
        BY <1>2, <1>3, <1>4, <3>3
      <4>2. QED
        BY <1>3, <1>4, <2>1, <3>3, <4>1
    <3>4. QED
      BY <3>1, <3>2, <3>3
  <2>3. CallOK(u, now)'
    BY <2>2, CallStays
  <2>4. QED
    BY <2>1, <2>3
<1>7. \A u \in Senders : Len(mempool'[u]) <= MaxSent
  BY <1>4, <1>5 DEF MempoolOK
<1>8. QED
  BY <1>4, <1>6, <1>7 DEF MempoolOK

\* A transaction that is mined or dropped leaves the others as they were.
LEMMA MempoolLoses ==
    ASSUME MempoolOK, UNCHANGED str, NEW s \in Senders, NEW q \in Seq(Call),
           Len(q) <= Len(mempool[s]),
           \A i \in DOMAIN q : \E j \in DOMAIN mempool[s] : q[i] = mempool[s][j],
           mempool' = [mempool EXCEPT ![s] = q]
    PROVE  MempoolOK'
<1>1. Grow
  BY DEF Grow, Saved
<1>2. /\ mempool' \in [Senders -> Seq(Call)] /\ mempool'[s] = q
      /\ \A u \in Senders \ {s} : mempool'[u] = mempool[u]
  BY DEF MempoolOK
<1>3. Len(q) <= MaxSent
  <2>1. mempool[s] \in Seq(Call) /\ Len(mempool[s]) <= MaxSent
    BY DEF MempoolOK
  <2>2. QED
    BY <2>1, ClientsAssumption
<1>4. \A u \in Senders : Len(mempool'[u]) <= MaxSent
  BY <1>2, <1>3 DEF MempoolOK
<1>5. ASSUME NEW u \in Senders, NEW i \in DOMAIN mempool'[u]
      PROVE  CallOK(u, mempool[u][i])'
  <2>1. PICK now : now = mempool'[u][i]
    OBVIOUS
  <2>2. CallOK(u, now)
    BY <1>2, <2>1 DEF MempoolOK
  <2>3. CallOK(u, now)'
    BY <1>1, <2>2, CallStays
  <2>4. QED
    BY <2>1, <2>3
<1>6. QED
  BY <1>2, <1>4, <1>5 DEF MempoolOK

-----------------------------------------------------------------------------
(* The oracles' own steps, which do not touch the bond. *)

BondInv ==
    /\ DrivenInv
    /\ HoldersListedOnce
    /\ KindsOK
    /\ StrKnowsTheChain
    /\ RedeemedOnce

LEMMA BondStays ==
    ASSUME OraclesInv, UNCHANGED vars, Grow
    PROVE  BondInv'
<1>1. DrivenInv'
  BY NextDriven DEF OraclesInv
<1>2. /\ UNCHANGED <<balance, keys, settlementTransactionById, operationTypeByOperationId>>
      /\ UNCHANGED bondState
  BY DEF vars, balanceVars, settlementVars
<1>3. HoldersListedOnce' /\ KindsOK'
  BY <1>2 DEF OraclesInv, HoldersListedOnce, KindsOK
<1>4. \A t \in TxIds : Exists(t) => Saved(t) /\ Saved(t)' /\ str'[t] = str[t]
  BY DEF OraclesInv, StrKnowsTheChain, Grow
<1>5. StrKnowsTheChain'
  BY <1>2, <1>4 DEF OraclesInv, StrKnowsTheChain, Exists, StoredTerms
<1>6. RedeemedOnce'
  BY <1>2, <1>4 DEF OraclesInv, RedeemedOnce, Exists, KindOf
<1>7. QED
  BY <1>1, <1>3, <1>5, <1>6 DEF BondInv

LEMMA StrStays == UNCHANGED str /\ StrOK => StrOK' /\ Grow
BY DEF StrOK, Saved, Grow

\* A step that only changes a request.
LEMMA RequestStep ==
    ASSUME OraclesInv, UNCHANGED <<vars, str, mempool>>,
           NEW r \in Requests, NEW q, RequestOK(q), Become(r, q)
    PROVE  OraclesInv'
<1>1. UNCHANGED vars /\ UNCHANGED str /\ UNCHANGED mempool
  OBVIOUS
<1>2. StrOK' /\ Grow
  BY <1>1, StrStays DEF OraclesInv
<1>3. BondInv'
  BY <1>1, <1>2, BondStays
<1>4. RequestsOK'
  BY <1>2, RequestStays, RequestBecomes DEF OraclesInv
<1>5. MempoolOK'
  BY <1>1, <1>2, MempoolStays DEF OraclesInv
<1>6. QED
  BY <1>2, <1>3, <1>4, <1>5 DEF OraclesInv, BondInv

\* A step that sends a transaction, and ends the request or goes on with it.
LEMMA SendStep ==
    ASSUME OraclesInv, UNCHANGED <<vars, str>>,
           NEW s \in Senders, NEW call \in Call, CallOK(s, call), CanSend(s), Send(s, call),
           UNCHANGED request \/ \E r \in Requests : \E q : RequestOK(q) /\ Become(r, q)
    PROVE  OraclesInv'
<1>1. UNCHANGED vars /\ UNCHANGED str
  OBVIOUS
<1>2. StrOK' /\ Grow
  BY <1>1, StrStays DEF OraclesInv
<1>3. BondInv'
  BY <1>1, <1>2, BondStays
<1>4. RequestsOK'
  <2>1. CASE UNCHANGED request
    BY <1>2, <2>1, RequestsStay DEF OraclesInv
  <2>2. ASSUME NEW r \in Requests, NEW q, RequestOK(q), Become(r, q)
        PROVE  RequestsOK'
    BY <1>2, <2>2, RequestStays, RequestBecomes DEF OraclesInv
  <2>3. QED
    BY <2>1, <2>2
<1>5. MempoolOK'
  BY <1>2, MempoolSends DEF OraclesInv
<1>6. QED
  BY <1>2, <1>3, <1>4, <1>5 DEF OraclesInv, BondInv

LEMMA PositionsType == LedgerInv => balance \in Positions
BY DEF LedgerInv, TypeOK, Positions

LEMMA InitiateOperationKeeps ==
    ASSUME OraclesInv, NEW r \in Requests, NEW c \in ClientRequests, NEW t \in TxIds,
           InitiateOperation(r, c, t)
    PROVE  OraclesInv'
<1> DEFINE type == OperationKind[c.operationId]
           p == Generated(c, t)
           q == Saving(type, <<p>>)
<1>1. /\ c.operationId \in OperationIds /\ c.sender \in Accounts
      /\ c.receiver \in Accounts /\ c.quantity \in Quantities
      /\ type \in Kinds /\ type # REDEMPTION
  BY ClientsAssumption DEF Kinds
<1>2. p \in PartialSettlementTransaction /\ p.operationId = c.operationId
  BY <1>1, AccountsAssumption DEF Generated, PartialSettlementTransaction
<1>3. UNCHANGED <<vars, str, mempool>> /\ Become(r, q)
  BY DEF InitiateOperation
<1>4. balance \in Positions
  BY PositionsType DEF OraclesInv, DrivenInv
<1> HIDE DEF p
<1>5. /\ <<p>> \in Seq(PartialSettlementTransaction) /\ <<p>> # <<>>
      /\ DOMAIN <<p>> = {1} /\ <<p>>[1] = p /\ Len(<<p>>) = 1
  BY <1>2
<1>6. GeneratedFor(type, <<p>>, balance)
  BY <1>1, <1>2, <1>5 DEF GeneratedFor
<1>7. q \in BeingSaved
  BY <1>1, <1>4, <1>5 DEF Saving, BeingSaved
<1>8. /\ q.type = type /\ q.sts = <<p>> /\ q.positions = balance /\ q.saved = 0
  BY DEF Saving
<1>9. SavedUpTo(<<p>>, 0)
  BY DEF SavedUpTo
<1> HIDE DEF q
<1>10. RequestOK(q)
  BY <1>5, <1>6, <1>7, <1>8, <1>9 DEF RequestOK
<1>11. QED
  BY <1>3, <1>10, RequestStep

LEMMA CheckNotRedeemedKeeps ==
    ASSUME OraclesInv, NEW r \in Requests, NEW o \in OperationIds, CheckNotRedeemed(r, o)
    PROVE  OraclesInv'
<1> DEFINE q == [step |-> "checked", operationId |-> o]
<1>1. UNCHANGED <<vars, str, mempool>> /\ Become(r, q) /\ OperationKind[o] = REDEMPTION
  BY DEF CheckNotRedeemed
<1>2. RequestOK(q)
  BY <1>1 DEF RequestOK, Checked
<1>3. QED
  BY <1>1, <1>2, RequestStep

\* A redemption is generated with one settlement transaction per investor,
\* of its whole balance.
LEMMA GenerateRedemptionKeeps ==
    ASSUME OraclesInv, NEW r \in Requests, GenerateRedemption(r)
    PROVE  OraclesInv'
<1>1. request[r] \in Checked /\ OperationKind[request[r].operationId] = REDEMPTION
  BY DEF GenerateRedemption, OraclesInv, RequestsOK, RequestOK, Idle, BeingSaved, Confirming
<1>2. PICK o \in OperationIds : o = request[r].operationId /\ OperationKind[o] = REDEMPTION
  BY <1>1 DEF Checked
<1>3. LedgerInv /\ HoldersListedOnce /\ TypeOK
  BY DEF OraclesInv, DrivenInv, LedgerInv
<1>4. PICK positions : positions = InvestorPositions
  OBVIOUS
<1>5. PICK n \in 0..MaxRedemption :
          /\ positions = [i \in 1..n |-> positions[i]]
          /\ \A i \in 1..n : /\ positions[i].account \in Accounts \ {Issuer}
                              /\ positions[i].balance = balance[positions[i].account]
                              /\ positions[i].balance > 0
          /\ \A i, j \in 1..n : positions[i].account = positions[j].account => i = j
          /\ \A a \in Accounts \ {Issuer} :
                balance[a] > 0 => \E i \in 1..n : positions[i].account = a
  BY <1>3, <1>4, InvestorsListed
<1>6. n \in Nat /\ n <= MaxRedemption /\ DOMAIN positions = 1..n
  BY <1>5, IdsAssumption
<1>7. n # 0
  <2>1. n = 0 => positions = <<>>
    BY <1>5
  <2>2. QED
    BY <1>4, <2>1 DEF GenerateRedemption
<1>8. PICK ids \in [1..n -> TxIds] :
          /\ \A i, j \in 1..n : ids[i] = ids[j] => i = j
          /\ Become(r, Saving(REDEMPTION,
                [i \in 1..n |-> [txId |-> ids[i], operationId |-> o,
                                 sender |-> positions[i].account, receiver |-> Issuer,
                                 quantity |-> positions[i].balance]]))
  <2>1. \E ids \in [DOMAIN positions -> {t \in TxIds : Fresh(t)}] :
            /\ \A i, j \in DOMAIN positions : ids[i] = ids[j] => i = j
            /\ Become(r, Saving(REDEMPTION,
                  [i \in DOMAIN positions |->
                      [txId |-> ids[i], operationId |-> request[r].operationId,
                       sender |-> positions[i].account, receiver |-> Issuer,
                       quantity |-> positions[i].balance]]))
    BY <1>4 DEF GenerateRedemption
  <2>2. PICK ids \in [1..n -> {t \in TxIds : Fresh(t)}] :
            /\ \A i, j \in 1..n : ids[i] = ids[j] => i = j
            /\ Become(r, Saving(REDEMPTION,
                  [i \in 1..n |->
                      [txId |-> ids[i], operationId |-> o,
                       sender |-> positions[i].account, receiver |-> Issuer,
                       quantity |-> positions[i].balance]]))
    BY <1>2, <1>6, <2>1, Zenon
  <2>3. ids \in [1..n -> TxIds]
    OBVIOUS
  <2>4. QED
    BY <2>2, <2>3
<1> DEFINE sts == [i \in 1..n |-> [txId |-> ids[i], operationId |-> o,
                                   sender |-> positions[i].account, receiver |-> Issuer,
                                   quantity |-> positions[i].balance]]
           q == Saving(REDEMPTION, sts)
<1>9. UNCHANGED <<vars, str, mempool>> /\ Become(r, q)
  BY <1>8 DEF GenerateRedemption
<1>10. ASSUME NEW i \in 1..n
       PROVE  /\ sts[i] \in RedemptionInputs
              /\ sts[i].txId = ids[i] /\ sts[i].operationId = o
              /\ sts[i].sender = positions[i].account
              /\ sts[i].quantity = positions[i].balance
  <2>1. PICK p : p = sts[i]
    OBVIOUS
  <2>2. p = [txId |-> ids[i], operationId |-> o, sender |-> positions[i].account,
             receiver |-> Issuer, quantity |-> positions[i].balance]
    BY <2>1
  <2>3. positions[i].account \in Accounts \ {Issuer} /\ ids[i] \in TxIds /\ Issuer \in Accounts
    BY <1>5, AccountsAssumption
  <2>4. positions[i].balance \in Quantities /\ positions[i].balance > 0
    <3>1. positions[i].balance \in Nat /\ positions[i].balance <= InitialSupply
      BY <1>3, <1>5, <2>3, BalanceWithinSupply
    <3>2. positions[i].balance > 0
      BY <1>5
    <3>3. QED
      BY <3>1, <3>2, RedemptionAssumption, SupplyAssumption
  <2>5. p \in PartialSettlementTransaction
    BY <2>2, <2>3, <2>4 DEF PartialSettlementTransaction
  <2>6. p \in RedemptionInputs
    BY <2>2, <2>3, <2>4, <2>5 DEF RedemptionInputs
  <2>7. QED
    BY <2>1, <2>2, <2>6
<1>11. sts = [i \in 1..n |-> sts[i]]
  OBVIOUS
<1> HIDE DEF sts
<1>12. /\ sts \in Seq(PartialSettlementTransaction) /\ Len(sts) = n /\ DOMAIN sts = 1..n
       /\ sts # <<>>
  <2>1. sts \in [1..n -> PartialSettlementTransaction]
    BY <1>10, <1>11 DEF RedemptionInputs
  <2>2. QED
    BY <1>6, <1>7, <2>1
<1>13. GeneratedFor(REDEMPTION, sts, balance)
  <2>1. \A i \in 1..n : OperationKind[sts[i].operationId] = REDEMPTION
    BY <1>2, <1>10
  <2>2. \A i, j \in 1..n : sts[i].txId = sts[j].txId => i = j
    BY <1>8, <1>10
  <2>3. \A i, j \in 1..n : sts[i].sender = sts[j].sender => i = j
    BY <1>5, <1>10
  <2>4. 1 \in 1..n
    BY <1>6, <1>7
  <2>5. \A i \in 1..n : sts[i].operationId = sts[1].operationId
    BY <1>10, <2>4
  <2>6. TakesAll(balance, sts)
    <3>1. ASSUME NEW a \in Accounts \ {Issuer}, balance[a] > 0
          PROVE  \E i \in 1..n : sts[i].sender = a /\ sts[i].quantity = balance[a]
      BY <1>5, <1>10, <3>1
    <3>2. QED
      BY <1>12, <3>1 DEF TakesAll
  <2>7. QED
    BY <1>6, <1>10, <1>12, <2>1, <2>2, <2>3, <2>5, <2>6 DEF GeneratedFor
<1>14. balance \in Positions
  BY <1>3, PositionsType
<1>15. /\ q \in BeingSaved
       /\ q.type = REDEMPTION /\ q.sts = sts /\ q.positions = balance /\ q.saved = 0
  BY <1>12, <1>14 DEF Saving, BeingSaved, Kinds
<1>16. SavedUpTo(sts, 0)
  BY DEF SavedUpTo
<1> HIDE DEF q
<1>17. RequestOK(q)
  BY <1>6, <1>12, <1>13, <1>15, <1>16 DEF RequestOK
<1>18. QED
  BY <1>9, <1>17, RequestStep

\* What a request that is saving holds.
LEMMA SavingHas ==
    ASSUME OraclesInv, NEW r \in Requests, request[r].step = "saving"
    PROVE  /\ request[r] \in BeingSaved /\ RequestOK(request[r])
           /\ GeneratedFor(request[r].type, request[r].sts, request[r].positions)
           /\ request[r].saved <= Len(request[r].sts)
           /\ SavedUpTo(request[r].sts, request[r].saved)
BY DEF OraclesInv, RequestsOK, RequestOK, Idle, Checked, Confirming

\* The next row of a request, and what is saved with it.
LEMMA NextRow ==
    ASSUME OraclesInv, NEW r \in Requests, request[r].step = "saving",
           request[r].saved < Len(request[r].sts),
           Save(request[r].sts[request[r].saved + 1], request[r].sts[1].txId)
    PROVE  StrOK' /\ Grow
           /\ \A q : q = [request[r] EXCEPT !.saved = @ + 1] => RequestOK(q)'
<1>1. PICK type, sts, saved, positions :
          /\ type = request[r].type /\ sts = request[r].sts
          /\ saved = request[r].saved /\ positions = request[r].positions
  OBVIOUS
<1>2. /\ request[r] \in BeingSaved /\ GeneratedFor(type, sts, positions)
      /\ SavedUpTo(sts, saved)
  BY <1>1, SavingHas
<1>3. /\ type \in Kinds /\ sts \in Seq(PartialSettlementTransaction) /\ saved \in Nat
      /\ positions \in Positions /\ saved < Len(sts) /\ Len(sts) \in Nat /\ sts # <<>>
  BY <1>1, <1>2 DEF BeingSaved
<1>4. saved + 1 \in 1..Len(sts) /\ 1 \in 1..Len(sts)
  BY <1>3
<1>5. sts[saved + 1] \in PartialSettlementTransaction /\ sts[1] \in PartialSettlementTransaction
  BY <1>3, <1>4
<1>6. sts[1].txId \in TxIds
  BY <1>5 DEF PartialSettlementTransaction
<1>7. Save(sts[saved + 1], sts[1].txId) /\ StrOK
  BY <1>1 DEF OraclesInv
<1>8. /\ StrOK' /\ Grow
      /\ str'[sts[saved + 1].txId] = [terms |-> sts[saved + 1], batch |-> sts[1].txId]
  BY <1>5, <1>6, <1>7, SaveGrows
<1>9. SavedUpTo(sts, saved)'
  BY <1>2, <1>3, <1>8, SavedUpToStays
<1>10. SavedUpTo(sts, saved + 1)'
  <2>1. \A i \in 1..(saved + 1) : i \in 1..saved \/ i = saved + 1
    BY <1>3
  <2>2. QED
    BY <1>8, <1>9, <2>1 DEF SavedUpTo
<1>11. ASSUME NEW q, q = [request[r] EXCEPT !.saved = @ + 1]
       PROVE  RequestOK(q)'
  <2>1. /\ q \in BeingSaved /\ q.type = type /\ q.sts = sts /\ q.positions = positions
        /\ q.saved = saved + 1
    BY <1>1, <1>2, <1>3, <1>11 DEF BeingSaved
  <2>2. saved + 1 <= Len(sts)
    BY <1>4
  <2>3. QED
    BY <1>2, <1>10, <2>1, <2>2 DEF RequestOK
<1>12. QED
  BY <1>8, <1>11

\* A step that adds a row, and changes one request.
LEMMA RowStep ==
    ASSUME OraclesInv, UNCHANGED vars, UNCHANGED mempool, StrOK', Grow,
           NEW r \in Requests, NEW q, RequestOK(q)', Become(r, q)
    PROVE  OraclesInv'
<1>1. BondInv'
  BY BondStays
<1>2. RequestsOK'
  BY RequestBecomes DEF OraclesInv
<1>3. MempoolOK'
  BY MempoolStays DEF OraclesInv
<1>4. QED
  BY <1>1, <1>2, <1>3 DEF OraclesInv, BondInv

LEMMA SaveNextKeeps ==
    ASSUME OraclesInv, NEW r \in Requests, SaveNext(r)
    PROVE  OraclesInv'
<1>1. /\ request[r].step = "saving" /\ request[r].saved < Len(request[r].sts)
      /\ Save(request[r].sts[request[r].saved + 1], request[r].sts[1].txId)
  BY DEF SaveNext
<1>2. PICK q : q = [request[r] EXCEPT !.saved = @ + 1]
  OBVIOUS
<1>3. Become(r, q) /\ UNCHANGED vars /\ UNCHANGED mempool
  BY <1>2 DEF SaveNext
<1>4. StrOK' /\ Grow /\ RequestOK(q)'
  BY <1>1, <1>2, NextRow
<1>5. QED
  BY <1>3, <1>4, RowStep

LEMMA FailKeeps ==
    ASSUME OraclesInv, NEW r \in Requests, Fail(r)
    PROVE  OraclesInv'
<1>1. Become(r, Idle) /\ UNCHANGED vars /\ UNCHANGED mempool
  BY DEF Fail
<1>2. StrOK' /\ Grow
  <2>1. CASE UNCHANGED str
    BY <2>1, StrStays DEF OraclesInv
  <2>2. CASE /\ request[r].step = "saving" /\ request[r].saved < Len(request[r].sts)
             /\ Save(request[r].sts[request[r].saved + 1], request[r].sts[1].txId)
    BY <2>2, NextRow
  <2>3. QED
    BY <2>1, <2>2 DEF Fail
<1>3. RequestOK(Idle)'
  BY DEF RequestOK
<1>4. QED
  BY <1>1, <1>2, <1>3, RowStep

\* A transaction is sent once all its rows are saved.
LEMMA SendInitiationKeeps ==
    ASSUME OraclesInv, NEW r \in Requests, SendInitiation(r)
    PROVE  OraclesInv'
<1>1. request[r].step = "saving" /\ request[r].saved = Len(request[r].sts)
  BY DEF SendInitiation
<1>2. /\ request[r] \in BeingSaved
      /\ GeneratedFor(request[r].type, request[r].sts, request[r].positions)
      /\ SavedUpTo(request[r].sts, Len(request[r].sts))
  BY <1>1, SavingHas
<1>3. PICK call : call = [kind |-> "initiate", type |-> request[r].type,
                          sts |-> request[r].sts, positions |-> request[r].positions]
  OBVIOUS
<1>4. call \in Initiation /\ call.type = request[r].type /\ call.sts = request[r].sts
      /\ call.positions = request[r].positions
  BY <1>2, <1>3 DEF BeingSaved, Initiation
<1>5. CallOK(Registrar, call) /\ call \in Call
  BY <1>2, <1>4 DEF CallOK, Call
<1>6. /\ CanSend(Registrar) /\ Send(Registrar, call) /\ Become(r, Idle)
      /\ UNCHANGED <<vars, str>>
  BY <1>3 DEF SendInitiation
<1>7. RequestOK(Idle) /\ Registrar \in Senders
  BY DEF RequestOK, Senders
<1>8. QED
  BY <1>5, <1>6, <1>7, SendStep

\* A cancellation is sent with the terms of its row.
LEMMA SendCancelKeeps ==
    ASSUME OraclesInv, NEW t \in TxIds, SendCancel(t)
    PROVE  OraclesInv'
<1>1. str[t] \in Row /\ str[t].terms.txId = t
  BY DEF SendCancel, OraclesInv, StrOK, Saved
<1>2. PICK p \in PartialSettlementTransaction : p = str[t].terms
  BY <1>1 DEF Row
<1>3. PICK call : call = [kind |-> "cancel", terms |-> p]
  OBVIOUS
<1>4. call \in Cancellation /\ call.terms = p
  BY <1>3 DEF Cancellation
<1>5. p.txId = t /\ Saved(t)
  BY <1>1, <1>2 DEF SendCancel
<1>6. CallOK(Registrar, call) /\ call \in Call
  BY <1>2, <1>4, <1>5 DEF CallOK, Call
<1>7. CanSend(Registrar) /\ Send(Registrar, call) /\ UNCHANGED <<vars, str>> /\ UNCHANGED request
  BY <1>2, <1>3 DEF SendCancel
<1>8. Registrar \in Senders
  BY DEF Senders
<1>9. QED
  BY <1>6, <1>7, <1>8, SendStep

LEMMA LookUpReferenceKeeps ==
    ASSUME OraclesInv, NEW r \in Requests, NEW kind \in {"received", "transferred"},
           NEW t \in TxIds, LookUpReference(r, kind, t)
    PROVE  OraclesInv'
<1>1. PICK found \in WithReferenceOf(t) :
          Become(r, [step |-> "confirming", kind |-> kind, todo |-> found])
  BY DEF LookUpReference
<1>2. found \in (SUBSET TxIds) \ {{}}
  BY DEF LookUpReference, WithReferenceOf
<1>3. RequestOK([step |-> "confirming", kind |-> kind, todo |-> found])
  BY <1>2 DEF RequestOK, Confirming
<1>4. UNCHANGED <<vars, str, mempool>>
  BY DEF LookUpReference
<1>5. QED
  BY <1>1, <1>3, <1>4, RequestStep

LEMMA SendConfirmationKeeps ==
    ASSUME OraclesInv, NEW r \in Requests, NEW t \in TxIds, SendConfirmation(r, t)
    PROVE  OraclesInv'
<1>1. request[r] \in Confirming
  BY DEF SendConfirmation, OraclesInv, RequestsOK, RequestOK, Idle, Checked, BeingSaved
<1>2. PICK kind \in {"received", "transferred"}, todo \in (SUBSET TxIds) \ {{}} :
          request[r] = [step |-> "confirming", kind |-> kind, todo |-> todo]
  BY <1>1 DEF Confirming
<1>3. PICK call : call = [kind |-> kind, txId |-> t]
  OBVIOUS
<1>4. call \in Call /\ CallOK(Settler, call) /\ Settler \in Senders
  BY <1>3 DEF Call, CallOK, Confirmation, Senders
<1>5. CanSend(Settler) /\ Send(Settler, call) /\ UNCHANGED <<vars, str>>
  BY <1>2, <1>3 DEF SendConfirmation
<1>6. PICK q : q = IF todo = {t} THEN Idle ELSE [request[r] EXCEPT !.todo = @ \ {t}]
  OBVIOUS
<1>7. Become(r, q)
  BY <1>2, <1>6 DEF SendConfirmation
<1>8. RequestOK(q)
  <2>1. CASE todo = {t}
    BY <1>6, <2>1 DEF RequestOK
  <2>2. CASE todo # {t}
    <3>1. q = [step |-> "confirming", kind |-> kind, todo |-> todo \ {t}]
      BY <1>2, <1>6, <2>2
    <3>2. todo \ {t} \in (SUBSET TxIds) \ {{}}
      BY <2>2
    <3>3. q \in Confirming
      BY <3>1, <3>2 DEF Confirming
    <3>4. QED
      BY <3>3 DEF RequestOK
  <2>3. QED
    BY <2>1, <2>2
<1>9. QED
  BY <1>4, <1>5, <1>7, <1>8, SendStep

LEMMA DropKeeps ==
    ASSUME OraclesInv, NEW s \in Senders, NEW i \in 1..MaxSent, Drop(s, i)
    PROVE  OraclesInv'
<1>1. PICK q \in Seq(Call) : q = mempool[s]
  BY DEF OraclesInv, MempoolOK
<1>2. i \in DOMAIN q
  BY <1>1 DEF Drop
<1>3. PICK rest : rest = RemoveAt(q, i)
  OBVIOUS
<1>4. /\ rest \in Seq(Call) /\ Len(rest) = Len(q) - 1
      /\ \A j \in DOMAIN rest : rest[j] = IF j < i THEN q[j] ELSE q[j + 1]
  <2>1. /\ SubSeq(q, 1, i - 1) \in Seq(Call) /\ Len(SubSeq(q, 1, i - 1)) = i - 1
        /\ \A j \in 1..(i - 1) : SubSeq(q, 1, i - 1)[j] = q[j]
    BY <1>2
  <2>2. /\ SubSeq(q, i + 1, Len(q)) \in Seq(Call) /\ Len(SubSeq(q, i + 1, Len(q))) = Len(q) - i
        /\ \A j \in 1..(Len(q) - i) : SubSeq(q, i + 1, Len(q))[j] = q[i + j]
    BY <1>2
  <2>3. PICK before, after : /\ before = SubSeq(q, 1, i - 1)
                             /\ after = SubSeq(q, i + 1, Len(q))
    OBVIOUS
  <2>4. rest = before \o after
    BY <1>3, <2>3 DEF RemoveAt
  <2>5. Len(q) \in Nat /\ i \in 1..Len(q)
    BY <1>2
  <2>6. /\ before \in Seq(Call) /\ Len(before) = i - 1
        /\ after \in Seq(Call) /\ Len(after) = Len(q) - i
        /\ \A j \in 1..(i - 1) : before[j] = q[j]
        /\ \A j \in 1..(Len(q) - i) : after[j] = q[i + j]
    BY <2>1, <2>2, <2>3
  <2> HIDE <2>1, <2>2, <2>3
  <2>7. /\ rest \in Seq(Call) /\ Len(rest) = Len(before) + Len(after)
        /\ \A j \in 1..Len(rest) : rest[j] = IF j <= Len(before) THEN before[j]
                                              ELSE after[j - Len(before)]
    <3>1. before \in Seq(Call) /\ after \in Seq(Call)
      BY <2>6
    <3>2. before \o after \in Seq(Call)
      BY <3>1
    <3>3. Len(before \o after) = Len(before) + Len(after)
      BY <3>1
    <3>4. \A j \in 1..(Len(before) + Len(after)) :
              (before \o after)[j] = IF j <= Len(before) THEN before[j]
                                     ELSE after[j - Len(before)]
      BY <3>1
    <3>5. QED
      BY <2>4, <3>2, <3>3, <3>4
  <2>8. Len(rest) = Len(q) - 1
    BY <2>5, <2>6, <2>7
  <2>9. ASSUME NEW j \in 1..Len(rest) PROVE rest[j] = IF j < i THEN q[j] ELSE q[j + 1]
    <3>1. CASE j < i
      <4>1. j \in 1..(i - 1) /\ j <= Len(before)
        BY <2>5, <2>6, <3>1
      <4>2. QED
        BY <2>6, <2>7, <3>1, <4>1
    <3>2. CASE ~(j < i)
      <4>1. /\ j - (i - 1) \in 1..(Len(q) - i) /\ ~(j <= i - 1)
            /\ i + (j - (i - 1)) = j + 1
        BY <2>5, <2>8, <3>2
      <4>2. rest[j] = after[j - (i - 1)]
        BY <2>6, <2>7, <4>1
      <4>3. after[j - (i - 1)] = q[j + 1]
        BY <2>6, <4>1
      <4>4. QED
        BY <3>2, <4>2, <4>3
    <3>3. QED
      BY <3>1, <3>2
  <2>10. DOMAIN rest = 1..Len(rest)
    BY <2>7
  <2>11. QED
    BY <2>7, <2>8, <2>9, <2>10
<1>5. Len(rest) <= Len(mempool[s])
  BY <1>1, <1>4
<1>6. \A j \in DOMAIN rest : \E k \in DOMAIN mempool[s] : rest[j] = mempool[s][k]
  <2>1. ASSUME NEW j \in DOMAIN rest PROVE \E k \in DOMAIN q : rest[j] = q[k]
    <3>1. j \in DOMAIN q /\ j + 1 \in DOMAIN q
      BY <1>4
    <3>2. QED
      BY <1>4, <3>1
  <2>2. QED
    BY <1>1, <2>1
<1>7. mempool' = [mempool EXCEPT ![s] = rest] /\ UNCHANGED <<vars, str, request>>
  BY <1>1, <1>3 DEF Drop
<1>8. MempoolOK'
  BY <1>4, <1>5, <1>6, <1>7, MempoolLoses DEF OraclesInv
<1>9. StrOK' /\ Grow
  BY <1>7, StrStays DEF OraclesInv
<1>10. BondInv' /\ RequestsOK'
  BY <1>7, <1>9, BondStays, RequestsStay DEF OraclesInv
<1>11. QED
  BY <1>8, <1>9, <1>10 DEF OraclesInv, BondInv

-----------------------------------------------------------------------------
(* The transactions that are mined. *)

\* The settlement transactions of an initiation the bond creates: the first,
\* or all those of a redemption.
Created(call) == IF call.type = REDEMPTION THEN DOMAIN call.sts ELSE {1}

\* What an initiation does to the bond, of whatever type it is.
LEMMA InitiationMined ==
    ASSUME OraclesInv, NEW call \in Initiation,
           GeneratedFor(call.type, call.sts, call.positions), Execute(Registrar, call)
    PROVE  /\ OracleNext
           /\ Created(call) \subseteq DOMAIN call.sts
           /\ \A i \in Created(call) :
                 settlementTransactionById'[call.sts[i].txId]
                     = WithStatus(call.sts[i], TOKEN_LOCKED)
           /\ \A t \in TxIds : (\A i \in Created(call) : call.sts[i].txId # t) =>
                 settlementTransactionById'[t] = settlementTransactionById[t]
           /\ SetOperationType(call.sts[1].operationId, call.type)
           /\ bondState # STATE_REDEEMED
           /\ call.type = REDEMPTION => bondState' = STATE_REDEEMED
<1>1. PICK type \in Kinds, sts \in Seq(PartialSettlementTransaction) :
          type = call.type /\ sts = call.sts
  BY DEF Initiation
<1>2. GeneratedFor(type, sts, call.positions) /\ sts # <<>> /\ DOMAIN sts = 1..Len(sts)
  BY <1>1 DEF GeneratedFor
<1>3. Len(sts) \in Nat /\ 1 \in DOMAIN sts /\ sts[1] \in PartialSettlementTransaction
  BY <1>1, <1>2
<1>4. OperationKind[sts[1].operationId] = type /\ sts[1].operationId \in OperationIds
  BY <1>2, <1>3 DEF GeneratedFor, PartialSettlementTransaction
<1>5. UsableFor(sts[1].operationId, type)
  BY <1>4 DEF OraclesInv, KindsOK, UsableFor
<1>6. settlementTransactionById \in [TxIds -> SettlementTransaction \cup {EmptySlot}]
      /\ bondState \in {STATE_CREATED, STATE_RUNNING, STATE_REDEEMED}
  BY DEF OraclesInv, DrivenInv, LedgerInv, TypeOK
<1>7. SUBSCRIPTION # REDEMPTION /\ TRADE # REDEMPTION
  BY DEF SUBSCRIPTION, TRADE, REDEMPTION
<1>8. \/ type = SUBSCRIPTION /\ InitiateSubscription(Registrar, sts[1])
      \/ type = TRADE /\ InitiateTrade(Registrar, sts[1])
      \/ type = REDEMPTION /\ InitiateRedemption(Registrar, sts)
  BY <1>1 DEF Execute, Initiation
<1>9. CASE type # REDEMPTION
  <2>1. OracleNext
    BY <1>3, <1>5, <1>8, <1>9 DEF OracleNext, OracleSubscription, OracleTrade
  <2>2. CreateAndLock(sts[1]) /\ SetOperationType(sts[1].operationId, type) /\ CanInitiate
    BY <1>8, <1>9 DEF InitiateSubscription, InitiateTrade
  <2>3. PICK new : new = WithStatus(sts[1], TOKEN_LOCKED)
    OBVIOUS
  <2>4. PICK t \in TxIds : t = sts[1].txId
    BY <1>3 DEF PartialSettlementTransaction
  <2>5. settlementTransactionById' = [settlementTransactionById EXCEPT ![t] = new]
    BY <2>2, <2>3, <2>4 DEF CreateAndLock
  <2>6. /\ settlementTransactionById'[t] = new
        /\ \A u \in TxIds : u # t =>
               settlementTransactionById'[u] = settlementTransactionById[u]
    BY <1>6, <2>5
  <2>7. Created(call) = {1}
    BY <1>1, <1>9 DEF Created
  <2>8. bondState # STATE_REDEEMED
    BY <2>2 DEF CanInitiate, STATE_REDEEMED
  <2>9. QED
    BY <1>1, <1>3, <1>9, <2>1, <2>2, <2>3, <2>4, <2>6, <2>7, <2>8
<1>10. CASE type = REDEMPTION
  <2>1. InitiateRedemption(Registrar, sts)
    BY <1>7, <1>8, <1>10
  <2>2. /\ Len(sts) <= MaxRedemption
        /\ \A i \in DOMAIN sts : sts[i] \in RedemptionInputs
        /\ \A i \in DOMAIN sts : sts[i].operationId = sts[1].operationId
        /\ \A i, j \in DOMAIN sts : sts[i].sender = sts[j].sender => i = j
    BY <1>2, <1>10 DEF GeneratedFor
  <2>3. PICK n \in 1..MaxRedemption : n = Len(sts)
    <3>1. PICK n : n = Len(sts)
      OBVIOUS
    <3>2. n \in Nat /\ 1 \in 1..n
      BY <1>2, <1>3, <3>1
    <3>3. n <= MaxRedemption
      BY <2>2, <3>1
    <3>4. n \in 1..MaxRedemption
      BY <3>2, <3>3, IdsAssumption
    <3>5. QED
      BY <3>1, <3>4
  <2>4. sts \in [1..n -> RedemptionInputs]
    BY <1>1, <1>2, <2>2, <2>3
  <2>5. OracleRedemption(sts)
    BY <1>5, <1>10, <2>1, <2>2 DEF OracleRedemption
  <2>6. OracleNext
    BY <2>4, <2>5 DEF OracleNext
  <2>7. ASSUME NEW i \in DOMAIN sts
        PROVE  settlementTransactionById'[sts[i].txId] = WithStatus(sts[i], TOKEN_LOCKED)
    <3>1. PICK t \in TxIds : t = sts[i].txId
      BY <2>2 DEF RedemptionInputs, PartialSettlementTransaction
    <3>2. settlementTransactionById'[t]
              = WithStatus(sts[CHOOSE j \in DOMAIN sts : sts[j].txId = t], TOKEN_LOCKED)
      BY <2>1, <3>1 DEF InitiateRedemption
    <3>3. PICK k : k = CHOOSE j \in DOMAIN sts : sts[j].txId = t
      OBVIOUS
    <3>4. k \in DOMAIN sts /\ sts[k].txId = t
      BY <3>1, <3>3
    <3>5. k = i
      BY <2>1, <3>1, <3>4 DEF InitiateRedemption
    <3>6. QED
      BY <3>1, <3>2, <3>3, <3>5
  <2>8. ASSUME NEW t \in TxIds, \A i \in DOMAIN sts : sts[i].txId # t
        PROVE  settlementTransactionById'[t] = settlementTransactionById[t]
    BY <2>1, <2>8 DEF InitiateRedemption
  <2>9. /\ SetOperationType(sts[1].operationId, REDEMPTION)
        /\ CanInitiate /\ bondState' = STATE_REDEEMED
    BY <2>1 DEF InitiateRedemption
  <2>10. bondState # STATE_REDEEMED
    BY <2>9 DEF CanInitiate, STATE_REDEEMED
  <2>11. Created(call) = DOMAIN sts
    BY <1>1, <1>10 DEF Created
  <2>12. QED
    BY <1>1, <1>10, <2>6, <2>7, <2>8, <2>9, <2>10, <2>11
<1>11. QED
  BY <1>9, <1>10

\* What is created is a settlement transaction of the STR, with its terms.
LEMMA CreatedAsSaved ==
    ASSUME OraclesInv, NEW call \in Initiation,
           GeneratedFor(call.type, call.sts, call.positions),
           SavedUpTo(call.sts, Len(call.sts)), Execute(Registrar, call),
           NEW t \in TxIds, Exists(t)', ~(Exists(t) /\ settlementTransactionById'[t]
                                                          = settlementTransactionById[t])
    PROVE  /\ Saved(t) /\ str[t].terms = StoredTerms(t)' /\ str[t].batch = call.sts[1].txId
           /\ KindOf(t)' = call.type
<1>1. PICK i \in Created(call) : call.sts[i].txId = t
  BY InitiationMined DEF Exists
<1>2. PICK sts \in Seq(PartialSettlementTransaction) : sts = call.sts
  BY DEF Initiation
<1>3. i \in DOMAIN sts /\ DOMAIN sts = 1..Len(sts) /\ sts # <<>>
  BY <1>1, <1>2, InitiationMined DEF GeneratedFor
<1>4. PICK p \in PartialSettlementTransaction : p = sts[i]
  BY <1>3
<1>5. PICK now : now = settlementTransactionById'[t]
  OBVIOUS
<1>6. now = WithStatus(p, TOKEN_LOCKED) /\ p.txId = t
  BY <1>1, <1>2, <1>4, <1>5, InitiationMined
<1>7. /\ now.operationId = p.operationId /\ now.sender = p.sender
      /\ now.receiver = p.receiver /\ now.quantity = p.quantity
  BY <1>6, WithStatusFields
<1>8. StoredTerms(t)' = p
  <2>1. StoredTerms(t)' = [txId |-> t, operationId |-> p.operationId, sender |-> p.sender,
                           receiver |-> p.receiver, quantity |-> p.quantity]
    BY <1>5, <1>7 DEF StoredTerms
  <2>2. QED
    BY <1>6, <2>1 DEF PartialSettlementTransaction
<1>9. str[t] = [terms |-> p, batch |-> sts[1].txId]
  BY <1>2, <1>3, <1>4, <1>6 DEF SavedUpTo
<1>10. sts[1].txId \in TxIds
  <2>1. 1 \in DOMAIN sts
    BY <1>3
  <2>2. sts[1] \in PartialSettlementTransaction
    BY <2>1
  <2>3. QED
    BY <2>2 DEF PartialSettlementTransaction
<1>11. Saved(t)
  BY <1>9, <1>10, NotNoRow DEF Saved
<1>12. KindOf(t)' = call.type
  BY <1>2, <1>3, <1>4, <1>5, <1>7 DEF KindOf, GeneratedFor
<1>13. str[t].terms = p /\ str[t].batch = call.sts[1].txId
  BY <1>2, <1>9
<1>14. QED
  BY <1>8, <1>11, <1>12, <1>13

\* An initiation leaves the bond as the oracles know it.
LEMMA InitiationKeeps ==
    ASSUME OraclesInv, UNCHANGED str, NEW call \in Initiation,
           GeneratedFor(call.type, call.sts, call.positions),
           SavedUpTo(call.sts, Len(call.sts)), Execute(Registrar, call)
    PROVE  KindsOK' /\ StrKnowsTheChain' /\ RedeemedOnce'
<1>1. KindsOK'
  <2>1. PICK o \in OperationIds : o = call.sts[1].operationId /\ OperationKind[o] = call.type
    <3>1. call.sts \in Seq(PartialSettlementTransaction) /\ 1 \in DOMAIN call.sts
      BY DEF GeneratedFor
    <3>2. call.sts[1] \in PartialSettlementTransaction
      BY <3>1
    <3>3. OperationKind[call.sts[1].operationId] = call.type
      BY <3>1 DEF GeneratedFor
    <3>4. QED
      BY <3>2, <3>3 DEF PartialSettlementTransaction
  <2>2. operationTypeByOperationId' = [operationTypeByOperationId EXCEPT ![o] = call.type]
    BY <2>1, InitiationMined DEF SetOperationType
  <2>3. operationTypeByOperationId \in [OperationIds -> {NO_TYPE, SUBSCRIPTION, REDEMPTION, TRADE}]
    BY DEF OraclesInv, DrivenInv, LedgerInv, TypeOK
  <2>4. QED
    BY <2>1, <2>2, <2>3 DEF OraclesInv, KindsOK
<1>2. ASSUME NEW t \in TxIds, Exists(t),
             settlementTransactionById'[t] = settlementTransactionById[t]
      PROVE  /\ Saved(t) /\ str[t].terms = StoredTerms(t)'
             /\ KindOf(t)' # REDEMPTION
  <2>1. Saved(t) /\ str[t].terms = StoredTerms(t)
    BY <1>2 DEF OraclesInv, StrKnowsTheChain
  <2>2. KindOf(t) # REDEMPTION
    BY <1>2, InitiationMined DEF OraclesInv, RedeemedOnce
  <2>3. QED
    BY <1>2, <2>1, <2>2 DEF StoredTerms, KindOf
<1>3. StrKnowsTheChain'
  <2>1. ASSUME NEW t \in TxIds, Exists(t)' PROVE Saved(t) /\ str[t].terms = StoredTerms(t)'
    <3>1. CASE Exists(t) /\ settlementTransactionById'[t] = settlementTransactionById[t]
      BY <1>2, <3>1
    <3>2. CASE ~(Exists(t) /\ settlementTransactionById'[t] = settlementTransactionById[t])
      BY <2>1, <3>2, CreatedAsSaved, Zenon
    <3>3. QED
      BY <3>1, <3>2
  <2>2. QED
    BY <2>1 DEF StrKnowsTheChain, Saved
<1>4. ASSUME NEW t \in TxIds, Exists(t)', KindOf(t)' = REDEMPTION
      PROVE  bondState' = STATE_REDEEMED /\ str[t].batch = call.sts[1].txId
  <2>1. ~(Exists(t) /\ settlementTransactionById'[t] = settlementTransactionById[t])
    BY <1>2, <1>4
  <2>2. KindOf(t)' = call.type /\ str[t].batch = call.sts[1].txId
    BY <1>4, <2>1, CreatedAsSaved, Zenon
  <2>3. QED
    BY <1>4, <2>2, InitiationMined
<1>5. RedeemedOnce'
  BY <1>4 DEF RedeemedOnce
<1>6. QED
  BY <1>1, <1>3, <1>5

\* The steps that end a settlement transaction, or tell that its cash was
\* transferred.
StatusStep(t) ==
    \/ OracleCancel(t)
    \/ ConfirmPaymentReceived(Settler, t)
    \/ ConfirmPaymentTransferred(Settler, t)

LEMMA StatusStepKeeps ==
    ASSUME OraclesInv, UNCHANGED str, NEW u \in TxIds, StatusStep(u)
    PROVE  KindsOK' /\ StrKnowsTheChain' /\ RedeemedOnce'
<1>1. /\ UNCHANGED operationTypeByOperationId /\ UNCHANGED bondState
      /\ Exists(u)
  BY StatusSteps DEF OraclesInv, StatusStep, Pending, Exists, TOKEN_LOCKED, CASH_RECEIVED,
                     NOT_CREATED
<1>2. PICK s \in {CASH_RECEIVED, CASH_TRANSFERRED, CANCELLED} : SetStatus(u, s)
  BY StatusSteps DEF OraclesInv, StatusStep
<1>3. /\ settlementTransactionById'[u].status = s
      /\ \A t \in TxIds \ {u} : settlementTransactionById'[t] = settlementTransactionById[t]
      /\ \A t \in TxIds : SameTerms(t)
  BY <1>1, <1>2, StatusOnly DEF OraclesInv, DrivenInv, LedgerInv
<1>4. \A t \in TxIds : Exists(t)' <=> Exists(t)
  BY <1>1, <1>3 DEF Exists, NOT_CREATED, CASH_RECEIVED, CASH_TRANSFERRED, CANCELLED
<1>5. \A t \in TxIds : StoredTerms(t)' = StoredTerms(t) /\ KindOf(t)' = KindOf(t)
  BY <1>3 DEF SameTerms, StoredTerms, KindOf
<1>6. KindsOK'
  BY <1>1 DEF OraclesInv, KindsOK
<1>7. StrKnowsTheChain'
  <2>1. \A t \in TxIds : Exists(t)' => Saved(t) /\ str[t].terms = StoredTerms(t)'
    BY <1>4, <1>5 DEF OraclesInv, StrKnowsTheChain
  <2>2. QED
    BY <2>1 DEF StrKnowsTheChain, Saved
<1>8. RedeemedOnce'
  <2>1. /\ \A t \in TxIds : Exists(t)' /\ KindOf(t)' = REDEMPTION => bondState' = STATE_REDEEMED
        /\ \A t, v \in TxIds : Exists(t)' /\ Exists(v)' /\ KindOf(t)' = REDEMPTION
               /\ KindOf(v)' = REDEMPTION => str[t].batch = str[v].batch
    BY <1>1, <1>4, <1>5 DEF OraclesInv, RedeemedOnce
  <2>2. QED
    BY <2>1 DEF RedeemedOnce
<1>9. QED
  BY <1>6, <1>7, <1>8

\* A cancellation is of what is stored: its row has the terms that were
\* locked.
LEMMA CancellationMined ==
    ASSUME OraclesInv, NEW call \in Cancellation, Saved(call.terms.txId),
           str[call.terms.txId].terms = call.terms, Execute(Registrar, call)
    PROVE  OracleCancel(call.terms.txId) /\ call.terms.txId \in TxIds
<1>1. PICK p \in PartialSettlementTransaction, t \in TxIds : p = call.terms /\ t = p.txId
  BY DEF Cancellation, PartialSettlementTransaction
<1>2. CancelSettlementTransaction(Registrar, p)
  BY <1>1 DEF Execute, Cancellation
<1>3. Exists(t)
  BY <1>1, <1>2 DEF CancelSettlementTransaction, Exists, TOKEN_LOCKED, NOT_CREATED
<1>4. StoredTerms(t) = p
  BY <1>1, <1>3 DEF OraclesInv, StrKnowsTheChain
<1>5. QED
  BY <1>1, <1>2, <1>3, <1>4 DEF OracleCancel

LEMMA ConfirmationMined ==
    ASSUME NEW call \in Confirmation, Execute(Settler, call)
    PROVE  StatusStep(call.txId) /\ call.txId \in TxIds
BY DEF Confirmation, Execute, StatusStep

\* What is mined is a step of the bond the oracles drive, and leaves it as
\* they know it.
LEMMA CallMined ==
    ASSUME OraclesInv, UNCHANGED str, NEW s \in Senders, NEW call,
           CallOK(s, call), Execute(s, call)
    PROVE  OracleNext /\ KindsOK' /\ StrKnowsTheChain' /\ RedeemedOnce'
<1>1. CASE s = Registrar /\ call \in Initiation
           /\ GeneratedFor(call.type, call.sts, call.positions)
           /\ SavedUpTo(call.sts, Len(call.sts))
  BY <1>1, InitiationMined, InitiationKeeps
<1>2. ASSUME NEW t \in TxIds, StatusStep(t)
      PROVE  OracleNext /\ KindsOK' /\ StrKnowsTheChain' /\ RedeemedOnce'
  BY <1>2, StatusStepKeeps DEF OracleNext, StatusStep
<1>3. CASE s = Registrar /\ call \in Cancellation
           /\ Saved(call.terms.txId) /\ str[call.terms.txId].terms = call.terms
  BY <1>2, <1>3, CancellationMined DEF StatusStep
<1>4. CASE s = Settler /\ call \in Confirmation
  BY <1>2, <1>4, ConfirmationMined
<1>5. QED
  BY <1>1, <1>3, <1>4 DEF CallOK

LEMMA MineKeeps ==
    ASSUME OraclesInv, NEW s \in Senders, Mine(s)
    PROVE  OracleNext /\ OraclesInv'
<1>1. PICK q \in Seq(Call) : q = mempool[s]
  BY DEF OraclesInv, MempoolOK
<1>2. /\ q # <<>> /\ Execute(s, Head(q)) /\ UNCHANGED str /\ UNCHANGED request
      /\ mempool' = [mempool EXCEPT ![s] = Tail(q)]
  BY <1>1 DEF Mine
<1>3. 1 \in DOMAIN q /\ Head(q) = q[1]
  BY <1>2
<1>4. CallOK(s, Head(q))
  BY <1>1, <1>3 DEF OraclesInv, MempoolOK
<1>5. OracleNext /\ KindsOK' /\ StrKnowsTheChain' /\ RedeemedOnce'
  BY <1>2, <1>4, CallMined
<1>6. DrivenInv'
  BY <1>5, NextDriven DEF OraclesInv
<1>7. HoldersListedOnce'
  BY <1>5, OracleNextIsNext, NextHolders DEF OraclesInv, DrivenInv, LedgerInv
<1>8. StrOK' /\ Grow
  BY <1>2, StrStays DEF OraclesInv
<1>9. RequestsOK'
  BY <1>2, <1>8, RequestsStay DEF OraclesInv
<1>10. MempoolOK'
  <2>1. PICK rest : rest = Tail(q)
    OBVIOUS
  <2>2. /\ rest \in Seq(Call) /\ Len(rest) = Len(q) - 1 /\ Len(q) \in Nat
        /\ \A j \in DOMAIN rest : rest[j] = q[j + 1] /\ j + 1 \in DOMAIN q
    BY <1>2, <2>1
  <2>3. Len(rest) <= Len(q)
    BY <2>2
  <2>4. QED
    BY <1>1, <1>2, <2>1, <2>2, <2>3, MempoolLoses DEF OraclesInv
<1>11. QED
  BY <1>5, <1>6, <1>7, <1>8, <1>9, <1>10 DEF OraclesInv

-----------------------------------------------------------------------------
(* The invariant. *)

LEMMA InitOracles == FinancialInit => OraclesInv
<1> SUFFICES ASSUME FinancialInit PROVE OraclesInv
  OBVIOUS
<1>1. Init
  BY DEF FinancialInit
<1>2. DrivenInv /\ HoldersListedOnce
  BY <1>1, InitDriven, InitHolders
<1>3. \A t \in TxIds : ~Exists(t)
  BY <1>1 DEF Init, EmptySlot, Exists
<1>4. StrOK
  BY DEF FinancialInit, StrOK, Saved
<1>5. RequestsOK
  BY DEF FinancialInit, RequestsOK, RequestOK
<1>6. MempoolOK
  <2>1. <<>> \in Seq(Call) /\ Len(<<>>) = 0 /\ DOMAIN <<>> = {}
    OBVIOUS
  <2>2. 0 <= MaxSent
    BY ClientsAssumption
  <2>3. QED
    BY <2>1, <2>2 DEF FinancialInit, MempoolOK, Senders
<1>7. KindsOK
  BY <1>1 DEF Init, KindsOK
<1>8. StrKnowsTheChain /\ RedeemedOnce
  BY <1>3 DEF StrKnowsTheChain, RedeemedOnce
<1>9. QED
  BY <1>2, <1>4, <1>5, <1>6, <1>7, <1>8 DEF OraclesInv

\* An oracle's step leaves the bond alone; what is mined is a step of it.
LEMMA NextOracles ==
    ASSUME OraclesInv, [FinancialNext]_<<vars, oracleVars>>
    PROVE  OraclesInv' /\ (UNCHANGED vars \/ OracleNext)
<1>1. CASE UNCHANGED <<vars, oracleVars>>
  <2>1. UNCHANGED vars /\ UNCHANGED str /\ UNCHANGED request /\ UNCHANGED mempool
    BY <1>1 DEF oracleVars
  <2>2. StrOK' /\ Grow
    BY <2>1, StrStays DEF OraclesInv
  <2>3. BondInv' /\ RequestsOK' /\ MempoolOK'
    BY <2>1, <2>2, BondStays, RequestsStay, MempoolStays DEF OraclesInv
  <2>4. QED
    BY <2>1, <2>2, <2>3 DEF OraclesInv, BondInv
<1>2. ASSUME NEW r \in Requests, NEW c \in ClientRequests, NEW t \in TxIds,
             InitiateOperation(r, c, t)
      PROVE  OraclesInv' /\ UNCHANGED vars
  BY <1>2, InitiateOperationKeeps DEF InitiateOperation
<1>3. ASSUME NEW r \in Requests, NEW o \in OperationIds, CheckNotRedeemed(r, o)
      PROVE  OraclesInv' /\ UNCHANGED vars
  BY <1>3, CheckNotRedeemedKeeps DEF CheckNotRedeemed
<1>4. ASSUME NEW r \in Requests, GenerateRedemption(r)
      PROVE  OraclesInv' /\ UNCHANGED vars
  BY <1>4, GenerateRedemptionKeeps DEF GenerateRedemption
<1>5. ASSUME NEW r \in Requests, SaveNext(r)
      PROVE  OraclesInv' /\ UNCHANGED vars
  BY <1>5, SaveNextKeeps DEF SaveNext
<1>6. ASSUME NEW r \in Requests, SendInitiation(r)
      PROVE  OraclesInv' /\ UNCHANGED vars
  BY <1>6, SendInitiationKeeps DEF SendInitiation
<1>7. ASSUME NEW r \in Requests, NEW kind \in {"received", "transferred"}, NEW t \in TxIds,
             LookUpReference(r, kind, t)
      PROVE  OraclesInv' /\ UNCHANGED vars
  BY <1>7, LookUpReferenceKeeps DEF LookUpReference
<1>8. ASSUME NEW r \in Requests, NEW t \in TxIds, SendConfirmation(r, t)
      PROVE  OraclesInv' /\ UNCHANGED vars
  BY <1>8, SendConfirmationKeeps DEF SendConfirmation
<1>9. ASSUME NEW r \in Requests, Fail(r)
      PROVE  OraclesInv' /\ UNCHANGED vars
  BY <1>9, FailKeeps DEF Fail
<1>10. ASSUME NEW t \in TxIds, SendCancel(t)
       PROVE  OraclesInv' /\ UNCHANGED vars
  BY <1>10, SendCancelKeeps DEF SendCancel
<1>11. ASSUME NEW s \in Senders, Mine(s)
       PROVE  OraclesInv' /\ OracleNext
  BY <1>11, MineKeeps
<1>12. ASSUME NEW s \in Senders, NEW i \in 1..MaxSent, Drop(s, i)
       PROVE  OraclesInv' /\ UNCHANGED vars
  BY <1>12, DropKeeps DEF Drop
<1>13. QED
  BY <1>1, <1>2, <1>3, <1>4, <1>5, <1>6, <1>7, <1>8, <1>9, <1>10, <1>11, <1>12
     DEF FinancialNext, Senders

\* However the requests of the oracles interleave, fail half-way and repeat
\* themselves, what is saved, on its way and on the chain agree.
THEOREM OraclesInvariant == FinancialSpec => []OraclesInv
BY InitOracles, NextOracles, PTL DEF FinancialSpec

\* Rows, requests and transactions on their way have their types, and what a
\* request has saved is a prefix of what it generated.
THEOREM OraclesTypeCorrect == FinancialSpec => []OraclesTypeOK
<1>1. OraclesInv => OraclesTypeOK
  <2> SUFFICES ASSUME OraclesInv PROVE OraclesTypeOK
    OBVIOUS
  <2>1. TypeOK /\ str \in [TxIds -> Row \cup {NoRow}]
    BY DEF OraclesInv, DrivenInv, LedgerInv, StrOK
  <2>2. \A s \in Senders : Len(mempool[s]) <= MaxSent
    BY DEF OraclesInv, MempoolOK
  <2>3. ASSUME NEW r \in Requests, request[r].step = "saving"
        PROVE  \A i \in DOMAIN request[r].sts :
                   /\ request[r].sts[i] \in PartialSettlementTransaction
                   /\ i <= request[r].saved => Saved(request[r].sts[i].txId)
    <3>1. PICK sts, saved : sts = request[r].sts /\ saved = request[r].saved
      OBVIOUS
    <3>2. /\ sts \in Seq(PartialSettlementTransaction) /\ sts # <<>>
          /\ saved \in Nat /\ saved <= Len(sts) /\ SavedUpTo(sts, saved)
      BY <2>3, <3>1, SavingHas DEF BeingSaved, GeneratedFor
    <3>3. 1 \in DOMAIN sts /\ \A i \in DOMAIN sts : sts[i] \in PartialSettlementTransaction
      BY <3>2
    <3>4. ASSUME NEW i \in DOMAIN sts, i <= saved PROVE Saved(sts[i].txId)
      <4>1. i \in 1..saved
        BY <3>2, <3>4
      <4>2. str[sts[i].txId] = [terms |-> sts[i], batch |-> sts[1].txId]
        BY <3>2, <4>1 DEF SavedUpTo
      <4>3. sts[1].txId \in TxIds
        BY <3>3 DEF PartialSettlementTransaction
      <4>4. QED
        BY <4>2, <4>3, NotNoRow DEF Saved
    <3>5. QED
      BY <3>1, <3>3, <3>4
  <2>4. ASSUME NEW r \in Requests
        PROVE  \/ request[r] = Idle
               \/ request[r].step = "checked" /\ request[r].operationId \in OperationIds
               \/ request[r].step = "saving"
               \/ request[r].step = "confirming"
                     /\ request[r].todo \in (SUBSET TxIds) \ {{}}
    BY DEF OraclesInv, RequestsOK, RequestOK, Checked, BeingSaved, Confirming
  <2>5. QED
    BY <2>1, <2>2, <2>3, <2>4 DEF OraclesTypeOK, Senders
<1>2. QED
  BY OraclesInvariant, <1>1, PTL

\* The bond never holds a settlement transaction the STR does not know with
\* the same terms.
THEOREM TheStrKnowsTheChain == FinancialSpec => []StrKnowsTheChain
<1>1. OraclesInv => StrKnowsTheChain
  BY DEF OraclesInv
<1>2. QED
  BY OraclesInvariant, <1>1, PTL

\* The settlement transactions of one redemption request at most are accepted.
THEOREM OneRedemptionIsAccepted == FinancialSpec => []OneRedemption
<1>1. OraclesInv => OneRedemption
  <2>1. ASSUME OraclesInv, NEW t \in TxIds, Exists(t), OperationType(t) = REDEMPTION
        PROVE  KindOf(t) = REDEMPTION
    <3>1. PICK o \in OperationIds : o = settlementTransactionById[t].operationId
      BY <2>1, CreatedHasTerms DEF OraclesInv, DrivenInv, LedgerInv, Exists, SettlementTransaction
    <3>2. operationTypeByOperationId[o] = REDEMPTION
      BY <2>1, <3>1 DEF OperationType
    <3>3. QED
      BY <2>1, <3>1, <3>2 DEF OraclesInv, KindsOK, KindOf, NO_TYPE, REDEMPTION
  <2>2. QED
    BY <2>1 DEF OraclesInv, RedeemedOnce, OneRedemption
<1>2. QED
  BY OraclesInvariant, <1>1, PTL

\* Whatever the oracles' requests do, the bond only takes the steps of
\* OracleDrivenBond.
THEOREM TheOraclesDriveTheBond == FinancialSpec => DrivesTheBond
<1>1. FinancialInit => Init
  BY DEF FinancialInit
<1>2. OraclesInv /\ [FinancialNext]_<<vars, oracleVars>>
          => [UNCHANGED vars \/ OracleNext]_vars
  BY NextOracles
<1>3. QED
  BY <1>1, <1>2, OraclesInvariant, PTL DEF FinancialSpec, DrivesTheBond

\* What ForgeBondProofs proves of OracleDrivenBond holds of it under the
\* oracles: the locks are exact, nothing pending is stuck, and the bond is a
\* delivery-versus-payment ledger.
THEOREM TheOraclesDeliverVersusPayment ==
    FinancialSpec => /\ []LocksMatchPending
                     /\ []PendingCanSettle
                     /\ IsDeliveryVersusPayment
<1>1. [UNCHANGED vars \/ OracleNext]_vars => [OracleNext]_vars
  OBVIOUS
<1>2. DrivesTheBond => OracleSpec
  BY <1>1, PTL DEF DrivesTheBond, OracleSpec
<1>3. QED
  BY <1>2, TheOraclesDriveTheBond, LocksAreExact, NothingPendingIsStuck,
     BondIsDeliveryVersusPayment, PTL

\* And what it proves of the contract whoever calls it: under every
\* interleaving of the oracles, their stores and the miners no token appears
\* or disappears but by a delivered redemption, none moves unpaid, and the
\* terms that were agreed are those that are delivered.
THEOREM TheOraclesKeepTheLedger ==
    FinancialSpec => /\ []LockedWithinBalance
                     /\ []SupplyConserved
                     /\ []HoldersListedOnce
                     /\ []BurnedByRedemption
                     /\ NoDeliveryWithoutPayment
                     /\ TermsAreKept
<1>1. [UNCHANGED vars \/ OracleNext]_vars => [OracleNext]_vars
  OBVIOUS
<1>2. DrivesTheBond => OracleSpec
  BY <1>1, PTL DEF DrivesTheBond, OracleSpec
<1>3. QED
  BY <1>2, TheOraclesDriveTheBond, TheOraclesAreCallers, LocksAreCovered, SupplyIsConserved,
     HoldersAreListedOnce, RedemptionsBurn, DeliveryNeedsPayment, TheTermsAreKept, PTL

-----------------------------------------------------------------------------
(* What a redemption takes. *)

\* The locks of a redemption whose positions are still the balances.
LEMMA FreshPositions ==
    ASSUME OraclesInv, OraclesInv', NEW sts \in Seq(PartialSettlementTransaction),
           TakesAll(balance, sts), InitiateRedemption(Registrar, sts),
           NEW a \in Accounts \ {Issuer}
    PROVE  locked'[a] = balance'[a]
<1>1. /\ balance' = balance
      /\ locked'[a] = locked[a] + Cardinality(TokensDeliveredBy(sts, a))
  BY DEF InitiateRedemption
<1>2. PICK has \in Nat : has = balance[a]
  BY SupplyAssumption DEF OraclesInv, DrivenInv, LedgerInv, TypeOK
<1>3. locked[a] \in Nat /\ locked'[a] \in Nat
  BY SupplyAssumption DEF OraclesInv, DrivenInv, LedgerInv, TypeOK
<1>4. locked'[a] <= has
  BY <1>1, <1>2 DEF OraclesInv, DrivenInv, LedgerInv, LockedWithinBalance
<1>5. CASE has = 0
  BY <1>1, <1>2, <1>3, <1>4, <1>5
<1>6. CASE has > 0
  <2>1. PICK i \in DOMAIN sts : sts[i].sender = a /\ sts[i].quantity = has
    BY <1>2, <1>6 DEF TakesAll
  <2>2. PICK t \in TxIds : t = sts[i].txId
    <3>1. sts[i] \in PartialSettlementTransaction
      OBVIOUS
    <3>2. QED
      BY <3>1 DEF PartialSettlementTransaction
  <2>3. has <= MaxUint
    BY <1>2, SupplyAssumption DEF OraclesInv, DrivenInv, LedgerInv, TypeOK
  <2>4. 1..has \subseteq Tokens
    BY <2>3, SupplyAssumption DEF Tokens
  <2>5. {t} \X (1..has) \subseteq TokensDeliveredBy(sts, a)
    BY <2>1, <2>2, <2>4 DEF TokensDeliveredBy
  <2>6. IsFiniteSet(TokensDeliveredBy(sts, a))
    <3>1. IsFiniteSet(Tokens)
      BY SupplyAssumption, FS_Interval DEF Tokens
    <3>2. IsFiniteSet(TxIds \X Tokens)
      BY <3>1, IdsAssumption, FS_Product, Zenon
    <3>3. TokensDeliveredBy(sts, a) \in SUBSET (TxIds \X Tokens)
      BY DEF TokensDeliveredBy
    <3>4. QED
      BY <3>2, <3>3, FS_Subset, Zenon
  <2>7. Cardinality({t} \X (1..has)) = has
    BY CountOfOne
  <2>8. /\ Cardinality({t} \X (1..has)) <= Cardinality(TokensDeliveredBy(sts, a))
        /\ Cardinality(TokensDeliveredBy(sts, a)) \in Nat
    BY <2>5, <2>6, FS_Subset, FS_CardinalityType, Zenon
  <2>9. QED
    BY <1>1, <1>2, <1>3, <1>4, <2>7, <2>8
<1>7. QED
  BY <1>2, <1>5, <1>6

\* A redemption that is mined before any balance it was generated from has
\* changed locks all the tokens of every investor.
THEOREM AFreshRedemptionTakesAll == FinancialSpec => FreshRedemptionTakesAll
<1> DEFINE Takes == bondState # STATE_REDEEMED /\ bondState' = STATE_REDEEMED
                      /\ Head(mempool[Registrar]).positions = balance
                    => \A a \in Accounts \ {Issuer} : locked'[a] = balance'[a]
<1>1. OraclesInv /\ OraclesInv' /\ [FinancialNext]_<<vars, oracleVars>>
          => [Takes]_<<vars, oracleVars>>
  <2> SUFFICES ASSUME OraclesInv, OraclesInv', FinancialNext,
                      bondState # STATE_REDEEMED, bondState' = STATE_REDEEMED,
                      Head(mempool[Registrar]).positions = balance,
                      NEW a \in Accounts \ {Issuer}
               PROVE  locked'[a] = balance'[a]
    OBVIOUS
  <2>1. PICK s \in Senders : Mine(s)
    <3>1. ~ UNCHANGED vars
      BY DEF vars
    <3>2. QED
      BY <3>1 DEF FinancialNext, Senders, InitiateOperation, CheckNotRedeemed,
                  GenerateRedemption, SaveNext, SendInitiation, LookUpReference,
                  SendConfirmation, Fail, SendCancel, Drop
  <2>2. PICK call : call = Head(mempool[s])
    OBVIOUS
  <2>3. mempool[s] \in Seq(Call) /\ mempool[s] # <<>>
    BY <2>1 DEF Mine, OraclesInv, MempoolOK
  <2>4. 1 \in DOMAIN mempool[s] /\ call = mempool[s][1]
    BY <2>2, <2>3
  <2>5. CallOK(s, call) /\ Execute(s, call)
    BY <2>1, <2>2, <2>4 DEF Mine, OraclesInv, MempoolOK
  <2>6. ASSUME NEW t \in TxIds, StatusStep(t) PROVE FALSE
    BY <2>6, StatusSteps DEF OraclesInv, StatusStep
  <2>7. CASE s = Registrar /\ call \in Initiation
             /\ GeneratedFor(call.type, call.sts, call.positions)
    <3>1. PICK type \in Kinds, sts \in Seq(PartialSettlementTransaction) :
              type = call.type /\ sts = call.sts
      BY <2>7 DEF Initiation
    <3>2. \/ type = SUBSCRIPTION /\ InitiateSubscription(Registrar, sts[1])
          \/ type = TRADE /\ InitiateTrade(Registrar, sts[1])
          \/ type = REDEMPTION /\ InitiateRedemption(Registrar, sts)
      BY <2>5, <2>7, <3>1 DEF Execute, Initiation
    <3>3. type = REDEMPTION /\ InitiateRedemption(Registrar, sts)
      BY <3>2 DEF InitiateSubscription, InitiateTrade, STATE_RUNNING, STATE_REDEEMED
    <3>4. TakesAll(balance, sts)
      BY <2>2, <2>7, <3>1, <3>3 DEF GeneratedFor
    <3>5. QED
      BY <3>3, <3>4, FreshPositions
  <2>8. CASE s = Registrar /\ call \in Cancellation
             /\ Saved(call.terms.txId) /\ str[call.terms.txId].terms = call.terms
    BY <2>5, <2>6, <2>8, CancellationMined DEF StatusStep
  <2>9. CASE s = Settler /\ call \in Confirmation
    BY <2>5, <2>6, <2>9, ConfirmationMined
  <2>10. QED
    BY <2>5, <2>7, <2>8, <2>9 DEF CallOK
<1>2. QED
  BY <1>1, OraclesInvariant, PTL DEF FinancialSpec, FreshRedemptionTakesAll

=============================================================================
