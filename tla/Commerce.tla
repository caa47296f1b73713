------------------------------ MODULE Commerce ------------------------------
(***************************************************************************)
(* POST receipts/issue of src/src/controllers/finance/FinanceController.ts *)
(* on top of the inventory: it sells what a cart has reserved, waits for   *)
(* the sale's own credential, and then offers a ReceiptVC that lists the   *)
(* lots sold.  It is the only caller of fulfillSale.                       *)
(***************************************************************************)
EXTENDS Inventory

CONSTANT Received    \* quantities of goods receipts

ASSUME CommerceAssumption == Received \subseteq Int

VARIABLES requests,   \* issueReceipt calls that run, by their receiptId
          issued      \* the events each offered ReceiptVC lists

commerceVars == <<vars, requests, issued>>

\* Where a call is: in the loop of fulfillSale, waiting for the offer of the
\* sale, or for the one of the receipt.
Request == [at: {"sale", "anchor", "receipt"}, listed: SUBSET Nat]

CommerceInit == Init /\ requests = EmptyTable /\ issued = EmptyTable

At(r, place, listed) == Put(requests, r, [at |-> place, listed |-> listed])

\* issueReceipt up to fulfillSale, under a fresh receiptId.  Without anything
\* reserved fulfillSale throws; that is logged, and the receipt lists nothing.
IssueReceipt(t, c, r) ==
    /\ r \notin DOMAIN requests \cup DOMAIN issued \cup
                UNION {events[i].receipt : i \in DOMAIN events}
    /\ \/ FulfillSale(t, c, r) /\ requests' = At(r, "sale", {})
       \/ /\ job = Idle /\ CartAllocations(t, c) = {}
          /\ requests' = At(r, "receipt", {})
          /\ UNCHANGED vars
    /\ UNCHANGED issued

\* What a sale that failed in its loop leaves for the receipt; and a slip: the
\* events so far.
ListedOnError_Partial == job.sold
ListedOnError == {}

\* A turn of the loop: the last one goes on to the offer of the sale, and a
\* failed one ends the sale, whose error is logged.
Sell(a, n) ==
    /\ FulfillAllocation(a, n)
    /\ requests' = IF n < 4 THEN At(job.receipt, "receipt", ListedOnError)
                   ELSE IF job.todo = {a}
                   THEN At(job.receipt, "anchor", job.sold \cup {Len(events')})
                   ELSE requests
    /\ UNCHANGED issued

\* The offer of a sale (or of a goods receipt) is answered; fulfillSale returns.
Anchored(o, ok) ==
    /\ OfferAnswered(o, ok)
    /\ requests' = [r \in DOMAIN requests |->
                      IF requests[r].at = "anchor" /\ requests[r].listed = o
                      THEN [requests[r] EXCEPT !.at = "receipt"] ELSE requests[r]]
    /\ UNCHANGED issued

\* The ReceiptVC is offered, or the call answers 500 with the stock sold.
ReceiptAnswered(r, ok) ==
    /\ job = Idle /\ r \in DOMAIN requests /\ requests[r].at = "receipt"
    /\ requests' = Without(requests, {r})
    /\ issued' = IF ok THEN Put(issued, r, requests[r].listed) ELSE issued
    /\ UNCHANGED vars

CrashAll == Crash /\ requests' = EmptyTable /\ UNCHANGED issued

Goods == \E t \in Tenants, k \in Skus, l \in LotIds, q \in Received, c \in Costs,
            given \in ReceiveOptions, at \in 0..MaxTime, vc \in VCChoices, n \in 0..3 :
             ReceiveGoods(t, k, l, q, c, given, at, vc, n)

CommerceNext ==
    \/ (Goods \/ Reserve) /\ UNCHANGED <<requests, issued>>
    \/ \E t \in Tenants, c \in Carts, r \in Receipts : IssueReceipt(t, c, r)
    \/ \E a \in AllocIds, n \in 0..4 : Sell(a, n)
    \/ \E o \in offers, ok \in BOOLEAN : Anchored(o, ok)
    \/ \E r \in Receipts, ok \in BOOLEAN : ReceiptAnswered(r, ok)
    \/ CrashAll

CommerceSpec == CommerceInit /\ [][CommerceNext]_commerceVars

-----------------------------------------------------------------------------
(* Properties *)

\* What the offered receipts list of a lot, each counted for itself.
ListedUnits(l) ==
    Net([r \in DOMAIN issued |->
           Net([i \in {j \in issued[r] : events[j].lot = l} |-> -events[i].qty])])

\* A receipt that was offered lists sales made under its own number, which can
\* be traced: all of them, or, after a failed statement, none; and together the
\* receipts never list more of a lot than has left it, whatever failed, unless a
\* negative quantity was reserved on it.
ReceiptsListSales ==
    /\ ReceiptTraceable
    /\ \A r \in DOMAIN issued :
           issued[r] = Sales(r) \/ (faults > 0 /\ issued[r] = {})
    /\ \A l \in DOMAIN lots :
           Unsigned(l) => ListedUnits(l) <= lots[l].initial - lots[l].onHand
=============================================================================
