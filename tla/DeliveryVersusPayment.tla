----------------------- MODULE DeliveryVersusPayment -----------------------
(***************************************************************************)
(* What a bond promises its holders, with no locks, keys, operation types  *)
(* or callers: deals are agreed, delivered, paid out or called off, and an *)
(* account never promises more than it holds.  OracleDrivenBond implements *)
(* this; `Promised` is what its lock counters have to add up to.           *)
(***************************************************************************)
EXTENDS Integers, FiniteSets

CONSTANTS
    Holders,        \* those who may hold the instrument
    Issuer,         \* the holder of the whole issue at the start
    Issued,         \* the size of the issue
    Deals,          \* names of deals
    None            \* no holder

VARIABLES
    holding,        \* what each holder holds
    deal,           \* the terms and the stage of each deal
    closed          \* no deal can be agreed any more

dvpVars == <<holding, deal, closed>>

Units == 1..Issued

NoDeal ==
    [seller |-> None, buyer |-> None, quantity |-> 0, redeems |-> FALSE, stage |-> "open"]

Terms ==
    [seller : Holders, buyer : Holders, quantity : 0..Issued, redeems : BOOLEAN,
     stage : {"agreed", "delivered", "paid", "off"}]

\* The units holder h owes under the deals of ds that are agreed and not
\* yet delivered.
Promised(ds, h) ==
    {p \in Deals \X Units :
        /\ ds[p[1]].stage = "agreed"
        /\ ds[p[1]].seller = h
        /\ p[2] <= ds[p[1]].quantity}

Covered(ds, h) == Cardinality(Promised(ds, h)) <= holding[h]

-----------------------------------------------------------------------------
Init ==
    /\ holding = [h \in Holders |-> IF h = Issuer THEN Issued ELSE 0]
    /\ deal = [d \in Deals |-> NoDeal]
    /\ closed = FALSE

\* New deals are agreed together, each within what its seller still has free.
Agree(new, redeems) ==
    /\ ~closed
    /\ new # {}
    /\ \A d \in new :
          /\ deal[d] = NoDeal
          /\ deal'[d] \in Terms
          /\ deal'[d].stage = "agreed"
          /\ deal'[d].redeems = redeems
          /\ redeems => deal'[d].buyer = Issuer
          /\ Covered(deal', deal'[d].seller)
    /\ deal' = [d \in Deals |-> IF d \in new THEN deal'[d] ELSE deal[d]]
    /\ closed' = redeems
    /\ UNCHANGED holding

\* The units leave the seller for the buyer, or for good when redeemed.
Deliver(d) ==
    LET taken == [holding EXCEPT ![deal[d].seller] = @ - deal[d].quantity]
    IN  /\ deal[d].stage = "agreed"
        /\ holding' = IF deal[d].redeems
                      THEN taken
                      ELSE [taken EXCEPT ![deal[d].buyer] = @ + deal[d].quantity]
        /\ deal' = [deal EXCEPT ![d].stage = "delivered"]
        /\ UNCHANGED closed

Pay(d) ==
    /\ deal[d].stage = "delivered"
    /\ deal' = [deal EXCEPT ![d].stage = "paid"]
    /\ UNCHANGED <<holding, closed>>

CallOff(d) ==
    /\ deal[d].stage = "agreed"
    /\ deal' = [deal EXCEPT ![d].stage = "off"]
    /\ UNCHANGED <<holding, closed>>

Next ==
    \/ \E d \in Deals : Agree({d}, FALSE)
    \/ \E new \in SUBSET Deals : Agree(new, TRUE)
    \/ \E d \in Deals : Deliver(d) \/ Pay(d) \/ CallOff(d)

Spec == Init /\ [][Next]_dvpVars
=============================================================================
