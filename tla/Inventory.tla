------------------------------ MODULE Inventory ------------------------------
(***************************************************************************)
(* The stock ledger of src/src/services/InventoryService.ts: lots, the     *)
(* reservations (allocations) taken on them for carts, the append-only     *)
(* event log with one hash chain per tenant, item and location, and the    *)
(* stock-level projection of each of those streams.                        *)
(*                                                                         *)
(* Node runs a handler to completion between two awaits on real I/O, and   *)
(* reserveStock and fulfillSale await only functions that do none until    *)
(* their loop is over; `job' is the handler that holds the thread.  The    *)
(* statements of a loop body are not in a transaction: a statement that    *)
(* throws, or a crash, leaves the ones before it in the database.  That is *)
(* the parameter n of the actions, the number of statements executed.      *)
(***************************************************************************)
EXTENDS Integers, Sequences, FiniteSets, Tables

CONSTANTS Tenants, Skus,        \* an Sku is a (catalogItemId, locationId) pair
          Carts, Receipts,
          LotIds, AllocIds,     \* the ids randomUUID can draw
          Quantities, Costs,    \* what requests carry
          ReceiveOptions,       \* sets of optional fields a receipt may carry
          VCChoices,            \* values of issueVC in receive requests
          MaxLines,             \* lines of one reserve request
          MaxTime,              \* the last time of a receipt; earlier ones are >= 0
          MaxFaults,            \* failed statements and crashes of a behaviour
          ForeignPreference,    \* may preferredLotId name a lot of another stream?
          VerifyLimit           \* events verifyEventChain reads (10000)

ASSUME InventoryAssumption ==
    /\ IsFiniteSet(AllocIds) /\ IsFiniteSet(LotIds)
    /\ Quantities \subseteq Int /\ Costs \subseteq Int     \* neither is checked
    /\ \A given \in ReceiveOptions : given \subseteq {"unitCost", "counterpartyId", "actorId"}
    /\ \A vc \in VCChoices : vc \in BOOLEAN
    /\ MaxLines \in Nat /\ MaxTime \in Nat /\ MaxFaults \in Nat /\ VerifyLimit \in Nat
    /\ ForeignPreference \in BOOLEAN

VARIABLES lots,     \* inventory_lots
          allocs,   \* inventory_allocations
          events,   \* inventory_events, in insertion order
          proj,     \* inventory_projections, by stream
          job,      \* the handler inside its loop
          offers,   \* credential offers being created, each for some events
          faults    \* statements that failed and crashes, so far

vars == <<lots, allocs, events, proj, job, offers, faults>>

Streams == Tenants \X Skus
Idle    == [op |-> "idle"]
NoLot   == {}                       \* preferredLotId as a set of at most one lot
NoHash  == 0                        \* an undefined or NULL hash

\* JSON keys computeEventHash may omit because the value is undefined.
OptionalKeys == {"unitCost", "currency", "counterpartyId", "prevEventHash", "actorId"}

Lot   == [tenant: Tenants, sku: Skus, initial: Int, onHand: Int, reserved: Int,
          cost: Int, at: Nat, status: {"active", "depleted"}, grn: BOOLEAN]
Alloc == [tenant: Tenants, lot: LotIds, cart: Carts, qty: Int,
          status: {"reserved", "fulfilled"}, receipt: SUBSET Receipts]
Event == [type: {"RECEIVE", "RESERVE", "SELL"}, stream: Streams, lot: LotIds,
          qty: Int, seq: Nat, prev: Nat, keys: SUBSET OptionalKeys,
          receipt: SUBSET Receipts, vc: BOOLEAN]
Level == [onHand: Int, reserved: Int, available: Int, total: Int,
          avg: Int \X Int, last: Nat]
Line  == [sku: Skus, qty: Quantities, prefer: SUBSET LotIds]

ReserveJob == [op: {"reserve"}, tenant: Tenants, cart: Carts, todo: Seq(Line)]
FulfilJob  == [op: {"fulfil"}, tenant: Tenants, receipt: Receipts,
               todo: SUBSET AllocIds, sold: SUBSET Nat]

TypeOK ==
    /\ IsTable(lots, LotIds, Lot)
    /\ IsTable(allocs, AllocIds, Alloc)
    /\ events \in Seq(Event)
    /\ IsTable(proj, Streams, Level)
    /\ job \in {Idle} \cup ReserveJob \cup FulfilJob
    /\ offers \in SUBSET SUBSET Nat
    /\ faults \in 0..MaxFaults

Init ==
    /\ lots = EmptyTable /\ allocs = EmptyTable
    /\ events = <<>> /\ proj = EmptyTable
    /\ job = Idle /\ offers = {} /\ faults = 0

-----------------------------------------------------------------------------
(* The event log.  The hash of an event stands for its position in `events': *)
(* ids are unique, so two events never hash alike.                           *)

StreamEvents(s) == {i \in DOMAIN events : events[i].stream = s}

\* A slip of getLastEvent: the WHERE without the item.
LastEvent_OfTenant(s) ==
    LET own == {i \in DOMAIN events : events[i].stream[1] = s[1]}
    IN {i \in own : \A j \in own : events[j].seq <= events[i].seq}

\* getLastEvent: the row with the greatest sequence number of the stream.
LastEvent(s) ==
    {i \in StreamEvents(s) : \A j \in StreamEvents(s) : events[j].seq <= events[i].seq}

LastHash(s) == IF LastEvent(s) = {} THEN NoHash ELSE CHOOSE i \in LastEvent(s) : TRUE
LastSeq(s)  == IF LastEvent(s) = {} THEN 0 ELSE events[LastHash(s)].seq

\* A slip in building an event: the sign of the quantity is lost.
NewEvent_Unsigned(type, s, l, q, keys, receipt) ==
    [type |-> type, stream |-> s, lot |-> l, qty |-> IF q < 0 THEN -q ELSE q,
     seq |-> LastSeq(s) + 1, prev |-> LastHash(s), receipt |-> receipt, vc |-> FALSE,
     keys |-> keys]

\* A new event, and the keys its hash covers: an undefined one is left out.
NewEvent(type, s, l, q, keys, receipt) ==
    [type |-> type, stream |-> s, lot |-> l, qty |-> q, seq |-> LastSeq(s) + 1,
     prev |-> LastHash(s), receipt |-> receipt, vc |-> FALSE,
     keys |-> keys \cup (IF LastHash(s) = NoHash THEN {} ELSE {"prevEventHash"})]

Hash(event) == Len(events) + 1      \* the hash of an event about to be appended

-----------------------------------------------------------------------------
(* The projection.  The right-hand sides of an UPDATE see the old row.       *)

\* updateProjection
ProjectReceive(s, q, cost, hash) ==
    IF s \in DOMAIN proj
    THEN LET old == proj[s]
             qty == old.onHand + q
             sum == old.total + q * cost
         IN Put(proj, s, [onHand |-> qty, reserved |-> old.reserved,
                          available |-> old.onHand - old.reserved, total |-> sum,
                          avg |-> IF qty > 0 THEN <<sum, qty>> ELSE <<0, 1>>,
                          last |-> hash])
    ELSE Put(proj, s, [onHand |-> q, reserved |-> 0, available |-> q,
                       total |-> q * cost, avg |-> <<cost, 1>>, last |-> hash])

\* updateProjectionReserve: no row, no update.
ProjectReserve(s, q, hash) ==
    IF s \in DOMAIN proj
    THEN LET old == proj[s]
         IN Put(proj, s, [old EXCEPT !.reserved = @ + q,
                            !.available = old.onHand - (old.reserved + q), !.last = hash])
    ELSE proj

\* A slip of updateProjectionSell: the reservation is not given back.
ProjectSell_KeepsReserved(s, q, cost, hash) ==
    IF s \in DOMAIN proj
    THEN Put(proj, s, [proj[s] EXCEPT !.onHand = @ - q, !.total = @ - q * cost, !.last = hash])
    ELSE proj

\* updateProjectionSell
ProjectSell(s, q, cost, hash) ==
    IF s \in DOMAIN proj
    THEN LET old == proj[s]
         IN Put(proj, s, [old EXCEPT !.onHand = @ - q, !.reserved = @ - q,
                            !.available = (old.onHand - q) - (old.reserved - q),
                            !.total = @ - q * cost, !.last = hash])
    ELSE proj

-----------------------------------------------------------------------------
(* Whether the last of a handler's statements ran; if not, it failed or the  *)
(* process died there.                                                       *)
Outcome(n, last) ==
    /\ faults' = IF n = last THEN faults ELSE faults + 1
    /\ n < last => faults < MaxFaults

\* receiveGoods: INSERT lot, INSERT event, UPDATE projection.
ReceiveGoods(t, k, l, q, cost, given, at, vc, n) ==
    LET s == <<t, k>>
        c == IF "unitCost" \in given THEN cost ELSE 0
        e == NewEvent("RECEIVE", s, l, q, given \cup {"currency"}, {})
    IN /\ job = Idle
       /\ l \notin DOMAIN lots
       /\ \A m \in DOMAIN lots : lots[m].at <= at
       /\ Outcome(n, 3)
       /\ lots' = IF n >= 1
                  THEN Put(lots, l, [tenant |-> t, sku |-> k, initial |-> q,
                               onHand |-> q, reserved |-> 0, cost |-> c, at |-> at,
                               status |-> "active", grn |-> FALSE])
                  ELSE lots
       /\ events' = IF n >= 2 THEN Append(events, e) ELSE events
       /\ proj' = IF n >= 3 THEN ProjectReceive(s, q, c, Hash(e)) ELSE proj
       /\ offers' = IF n = 3 /\ vc THEN offers \cup {{Hash(e)}} ELSE offers
       /\ UNCHANGED <<allocs, job>>

-----------------------------------------------------------------------------
\* A slip: what is on hand, reserved or not.
Available_Reserved(l) == lots[l].onHand

Available(l) == lots[l].onHand - lots[l].reserved

\* findAvailableLot: FIFO by received_at, one lot that covers the quantity.
Candidates(t, k, q) ==
    {l \in DOMAIN lots : /\ lots[l].tenant = t /\ lots[l].sku = k
                         /\ lots[l].status = "active" /\ Available(l) >= q}
FindAvailableLot(t, k, q) ==
    {l \in Candidates(t, k, q) : \A m \in Candidates(t, k, q) : lots[l].at <= lots[m].at}

\* The lot a line is served from: the preferred one if it has enough.
PreferredLot(line) == {l \in line.prefer \cap DOMAIN lots : Available(l) >= line.qty}
LotFor(t, line) == IF PreferredLot(line) # {} THEN PreferredLot(line)
                   ELSE FindAvailableLot(t, line.sku, line.qty)

\* What preferredLotId may be: absent, or a lot, possibly of another stream.
Preferences(t, k) ==
    {NoLot} \cup {{l} : l \in {m \in DOMAIN lots :
                    ForeignPreference \/ (lots[m].tenant = t /\ lots[m].sku = k)}}

ReserveStock(t, c, lines) ==
    /\ job = Idle
    /\ job' = [op |-> "reserve", tenant |-> t, cart |-> c, todo |-> lines]
    /\ UNCHANGED <<lots, allocs, events, proj, offers, faults>>

\* One turn of the loop: UPDATE lot, INSERT event, INSERT allocation, UPDATE
\* projection.  The stream is the one of the request, not the one of the lot.
ReserveLine(l, a, n) ==
    LET line == Head(job.todo)
        s    == <<job.tenant, line.sku>>
        e    == NewEvent("RESERVE", s, l, -line.qty, {}, {})
    IN /\ job.op = "reserve" /\ l \in LotFor(job.tenant, line)
       /\ a \notin DOMAIN allocs
       /\ Outcome(n, 4)
       /\ lots' = IF n >= 1
                  THEN Put(lots, l, [lots[l] EXCEPT !.reserved = @ + line.qty])
                  ELSE lots
       /\ events' = IF n >= 2 THEN Append(events, e) ELSE events
       /\ allocs' = IF n >= 3
                    THEN Put(allocs, a, [tenant |-> job.tenant, lot |-> l,
                               cart |-> job.cart, qty |-> line.qty,
                               status |-> "reserved", receipt |-> {}])
                    ELSE allocs
       /\ proj' = IF n >= 4 THEN ProjectReserve(s, line.qty, Hash(e)) ELSE proj
       /\ job' = IF n = 4 /\ Len(job.todo) > 1
                 THEN [job EXCEPT !.todo = Tail(@)] ELSE Idle
       /\ UNCHANGED offers

\* throw new Error('Insufficient stock ...'): the lines before it stay reserved.
ReserveRefused ==
    /\ job.op = "reserve"
    /\ LotFor(job.tenant, Head(job.todo)) = {}
    /\ job' = Idle
    /\ UNCHANGED <<lots, allocs, events, proj, offers, faults>>

-----------------------------------------------------------------------------
\* fulfillSale: the reserved allocations of the cart; without one it throws.
CartAllocations(t, c) ==
    {a \in DOMAIN allocs : /\ allocs[a].tenant = t /\ allocs[a].cart = c
                           /\ allocs[a].status = "reserved"}

FulfillSale(t, c, r) ==
    /\ job = Idle
    /\ CartAllocations(t, c) # {}
    /\ job' = [op |-> "fulfil", tenant |-> t, receipt |-> r,
               todo |-> CartAllocations(t, c), sold |-> {}]
    /\ UNCHANGED <<lots, allocs, events, proj, offers, faults>>

\* The status the UPDATE of a sold lot computes, from the old quantity.
StatusAfter(l, q) == IF lots[l].onHand - q <= 0 THEN "depleted" ELSE lots[l].status

\* One turn of the loop: UPDATE lot, INSERT event, UPDATE allocation, UPDATE
\* projection.  The SELECT has no ORDER BY: the rows come in any order.
FulfillAllocation(a, n) ==
    LET l   == allocs[a].lot
        q   == allocs[a].qty
        s   == <<job.tenant, lots[l].sku>>
        e   == NewEvent("SELL", s, l, -q, {"unitCost", "currency", "actorId"}, {job.receipt})
        sum == job.sold \cup {Hash(e)}
    IN /\ job.op = "fulfil" /\ a \in job.todo
       /\ Outcome(n, 4)
       /\ lots' = IF n >= 1
                  THEN Put(lots, l, [lots[l] EXCEPT !.onHand = @ - q, !.reserved = @ - q,
                          !.status = StatusAfter(l, q)])
                  ELSE lots
       /\ events' = IF n >= 2 THEN Append(events, e) ELSE events
       /\ allocs' = IF n >= 3
                    THEN Put(allocs, a, [allocs[a] EXCEPT !.status = "fulfilled",
                                                       !.receipt = {job.receipt}])
                    ELSE allocs
       /\ proj' = IF n >= 4 THEN ProjectSell(s, q, lots[l].cost, Hash(e)) ELSE proj
       /\ job' = IF n = 4 /\ job.todo # {a}
                 THEN [job EXCEPT !.todo = @ \ {a}, !.sold = sum] ELSE Idle
       /\ offers' = IF n = 4 /\ job.todo = {a} THEN offers \cup {sum} ELSE offers

\* createOffer answers: the events (and the lot of a RECEIVE) are anchored, or
\* the error is logged and nothing changes.
OfferAnswered(o, ok) ==
    /\ job = Idle /\ o \in offers
    /\ offers' = offers \ {o}
    /\ events' = IF ok THEN [i \in DOMAIN events |->
                               IF i \in o THEN [events[i] EXCEPT !.vc = TRUE] ELSE events[i]]
                       ELSE events
    /\ lots' = IF ok THEN [l \in DOMAIN lots |-> IF \E i \in o \cap DOMAIN events :
                                                     events[i].type = "RECEIVE" /\ events[i].lot = l
                                                 THEN [lots[l] EXCEPT !.grn = TRUE] ELSE lots[l]]
                     ELSE lots
    /\ UNCHANGED <<allocs, proj, job, faults>>

\* The process dies: the handler in its loop and the pending offers are gone.
Crash ==
    /\ faults < MaxFaults
    /\ faults' = faults + 1
    /\ job' = Idle /\ offers' = {}
    /\ UNCHANGED <<lots, allocs, events, proj>>

-----------------------------------------------------------------------------
Receive == \E t \in Tenants, k \in Skus, l \in LotIds, q \in Quantities, c \in Costs,
              given \in ReceiveOptions, at \in 0..MaxTime, vc \in VCChoices, n \in 0..3 :
               ReceiveGoods(t, k, l, q, c, given, at, vc, n)

Lines(t) == UNION {[sku: {k}, qty: Quantities, prefer: Preferences(t, k)] : k \in Skus}

Reserve ==
    \/ \E t \in Tenants, c \in Carts, m \in 1..MaxLines :
           \E lines \in [1..m -> Lines(t)] : ReserveStock(t, c, lines)
    \/ \E l \in LotIds, a \in AllocIds, n \in 0..4 : ReserveLine(l, a, n)
    \/ ReserveRefused

Fulfil ==
    \/ \E t \in Tenants, c \in Carts, r \in Receipts : FulfillSale(t, c, r)
    \/ \E a \in AllocIds, n \in 0..4 : FulfillAllocation(a, n)

Next == \/ Receive \/ Reserve \/ Fulfil \/ Crash
        \/ \E o \in offers, ok \in BOOLEAN : OfferAnswered(o, ok)

Spec == Init /\ [][Next]_vars

-----------------------------------------------------------------------------
(* verifyEventChain: it reads the newest VerifyLimit events of the stream and  *)
(* checks the hash, the link and the position of each.                         *)

Read(s) ==
    LET own == StreamEvents(s)
    IN {i \in own : Cardinality({j \in own : events[j].seq > events[i].seq}) < VerifyLimit}
Position(read, i) == Cardinality({j \in read : events[j].seq <= events[i].seq})

\* The row has NULL for every key the hash left out, and hashes it as null.
HashErrors(read)     == {i \in read : events[i].keys # OptionalKeys}
LinkErrors(read)     == {i \in read : \E j \in read :
                           Position(read, j) = Position(read, i) - 1 /\ events[i].prev # j}
SequenceErrors(read) == {i \in read : events[i].seq # Position(read, i)}

-----------------------------------------------------------------------------
(* Properties *)

\* The sum of the positive values of f, as the number of its units, and the
\* sum of all its values.
Units(f) == UNION {{x} \X (1..f[x]) : x \in DOMAIN f}
Total(f) == Cardinality(Units(f))
Net(f)   == Total(f) - Total([x \in DOMAIN f |-> -f[x]])

Held(l) == {a \in DOMAIN allocs : allocs[a].lot = l /\ allocs[a].status = "reserved"}

\* No reservation of the lot is of a negative quantity.
Unsigned(l) == \A a \in DOMAIN allocs : allocs[a].lot = l => allocs[a].qty >= 0

\* The quantity a lot counts as reserved is that of the allocations reserved on
\* it, and, unless a negative quantity was received into it or reserved on it,
\* it has every unit they promise: reserveStock promises no unit twice, and
\* fulfillSale finds the stock it sells (no statement failed).
ReservationsBacked ==
    faults = 0 => \A l \in DOMAIN lots :
        LET held == [a \in Held(l) |-> allocs[a].qty]
        IN /\ lots[l].reserved = Net(held)
           /\ lots[l].initial >= 0 /\ Unsigned(l) => Total(held) <= lots[l].onHand

Moves(l) == {i \in DOMAIN events : events[i].lot = l /\ events[i].type # "RESERVE"}

\* What a lot has on hand is what the events of the ledger received, less what
\* they sold.
LedgerExplains(l) == lots[l].onHand = Net([i \in Moves(l) |-> events[i].qty])

\* 013_create_inventory.sql calls the ledger "the source of truth": it explains
\* every lot as long as no statement failed.
LedgerExplainsLots == faults = 0 => \A l \in DOMAIN lots : LedgerExplains(l)

StreamOf(l)   == <<lots[l].tenant, lots[l].sku>>
StreamLots(s) == {l \in DOMAIN lots : StreamOf(l) = s}

ProjectionAgrees(s) ==
    /\ proj[s].onHand = Net([l \in StreamLots(s) |-> lots[l].onHand])
    /\ proj[s].reserved = Net([l \in StreamLots(s) |-> lots[l].reserved])
    /\ proj[s].total = Net([l \in StreamLots(s) |-> lots[l].onHand * lots[l].cost])
    /\ proj[s].last = LastHash(s)

\* Quantity on hand, quantity reserved and value of a stream's projection are
\* those of its lots, and its last_event_hash is the end of the chain, when no
\* statement failed and preferred lots are of the stream they are asked for.
ProjectionMatchesLots ==
    faults = 0 /\ ~ForeignPreference => \A s \in DOMAIN proj : ProjectionAgrees(s)

\* Whatever fails, each stream's chain has no gap, no fork and no wrong link:
\* verifyEventChain finds no link and no sequence error in a chain it reads whole.
ChainLinked ==
    \A s \in Streams : Cardinality(StreamEvents(s)) <= VerifyLimit =>
        LET read == Read(s) IN LinkErrors(read) = {} /\ SequenceErrors(read) = {}

\* tasks.md: "GRN -> Reserve -> Fulfill with valid hash chain": the hash of
\* every event the service wrote is found correct.
ChainHashesVerify == \A s \in Streams : HashErrors(Read(s)) = {}

Sales(r)        == {i \in DOMAIN events : events[i].type = "SELL" /\ events[i].receipt = {r}}
SalesFrom(r, l) == {i \in Sales(r) : events[i].lot = l}
PaidFrom(r, l)  == {a \in DOMAIN allocs : allocs[a].receipt = {r} /\ allocs[a].lot = l}

\* The SELL events of a receipt are, lot by lot, the allocations fulfilled under it.
Settled(r) ==
    \A l \in LotIds : Net([i \in SalesFrom(r, l) |-> -events[i].qty])
                        = Net([a \in PaidFrom(r, l) |-> allocs[a].qty])

\* traceReceipt: when no statement failed, the sales of a receipt are settled,
\* and each leads back to an earlier RECEIVE event of its lot.
ReceiptTraceable ==
    faults = 0 => \A r \in Receipts :
        /\ Settled(r)
        /\ \A i \in Sales(r) : \E j \in 1..(i - 1) :
               events[j].type = "RECEIVE" /\ events[j].lot = events[i].lot
=============================================================================
