------------------------- MODULE CartCheckoutProofs -------------------------
(***************************************************************************)
(* What holds of CartCheckout for every set of carts and references, every *)
(* database and every bound: its type invariant, that money EcoCash took   *)
(* is recorded and announced as it should, that a payment records what     *)
(* EcoCash was asked to take, and that its record follows PaymentLifecycle. *)
(***************************************************************************)
EXTENDS CartCheckout, FiniteSetTheorems, TLAPS

-----------------------------------------------------------------------------
(* Tables *)

\* Put keeps a table a table.
LEMMA PutType ==
    ASSUME NEW Keys, NEW Rows, NEW table, IsTable(table, Keys, Rows),
           NEW key \in Keys, NEW row \in Rows
    PROVE  IsTable(Put(table, key, row), Keys, Rows)
BY DEF IsTable, Put

\* Without keeps a table a table.
LEMMA WithoutType ==
    ASSUME NEW Keys, NEW Rows, NEW table, IsTable(table, Keys, Rows), NEW keys
    PROVE  IsTable(Without(table, keys), Keys, Rows)
BY DEF IsTable, Without

\* A table may be empty.
LEMMA EmptyType ==
    ASSUME NEW Keys, NEW Rows
    PROVE  IsTable(EmptyTable, Keys, Rows) /\ DOMAIN EmptyTable = {}
BY DEF IsTable, EmptyTable

-----------------------------------------------------------------------------
(* The inductive invariant *)

Settled(ref) == ref \in DOMAIN provider /\ "SUCCESS" \in provider[ref].reports

\* What runs, and what is recorded, was asked of EcoCash for a cart that exists;
\* payments are recorded where the table takes them.
Linked ==
    /\ \A ref \in DOMAIN checkouts :
          /\ ref \in DOMAIN provider /\ ref \notin DOMAIN payments
          /\ checkouts[ref].cart \in DOMAIN carts
          /\ checkouts[ref].cart = provider[ref].cart
          /\ checkouts[ref].total = provider[ref].amount
    /\ \A ref \in DOMAIN payments : ref \in DOMAIN provider /\ TakesPayments

\* A running webhook handles a call EcoCash made once it had the money, and
\* for a payment that is recorded if it found one.
Called ==
    \A d \in DOMAIN hooks :
        /\ d \in DOMAIN calls /\ calls[d].ref = hooks[d].ref
        /\ calls[d].found = hooks[d].known
        /\ Settled(hooks[d].ref)
        /\ hooks[d].known => hooks[d].ref \in DOMAIN payments

\* A webhook that is about to announce a payment has offered the receipt, and if it
\* found the payment it has recorded it as paid and stored the receipt.
Emits ==
    /\ \A d \in DOMAIN hooks : hooks[d].at = "emit" =>
          /\ \E o \in offers : o.ref = hooks[d].ref /\ o.call = d
          /\ hooks[d].known =>
                State(hooks[d].ref) = "paid" /\ hooks[d].ref \in receipts /\ TakesReceipts
    /\ completed \subseteq DOMAIN calls

\* Calls for a payment come one after the other.
InSequence(ref) == \A i \in DOMAIN calls : calls[i].ref = ref => calls[i].alone

\* At most one call for a payment is being handled.
OneHook(ref) == \A d, e \in DOMAIN hooks : hooks[d].ref = ref /\ hooks[e].ref = ref => d = e

\* A webhook that found its payment may offer a receipt, until there is an offer;
\* from then on the payment is paid, and a call that runs is past the offer.
OneOffer(ref) ==
    /\ \A o, p \in KnownOffers(ref) : o = p
    /\ KnownOffers(ref) # {} =>
          /\ State(ref) = "paid"
          /\ \A d \in DOMAIN hooks : hooks[d].ref = ref => hooks[d].at = "emit"

Sequential ==
    faults = 0 => \A ref \in Refs : InSequence(ref) => OneHook(ref) /\ OneOffer(ref)

IInv == /\ TypeOK /\ Linked /\ Called /\ Emits
        /\ ChargeIsRecorded /\ AnnouncedIsSettled /\ SuccessIsRecorded /\ Sequential

-----------------------------------------------------------------------------
(* Types *)

\* Setting a field of a row to a value of its type gives a row.
LEMMA CheckoutRows ==
    /\ \A row \in Cart, n \in Int : [row EXCEPT !.total = n] \in Cart
    /\ \A row \in Cart, st \in {"pending", "invoiced", "paid"} :
          [row EXCEPT !.status = st] \in Cart
    /\ \A row \in Payment, st \in {"pending", "failed", "paid"} :
          [row EXCEPT !.state = st] \in Payment
    /\ \A row \in Checkout : [row EXCEPT !.at = "invoice"] \in Checkout
    /\ \A row \in Hook : [row EXCEPT !.at = "emit"] \in Hook
    /\ \A row \in Request, r \in SUBSET {"SUCCESS", "FAILED"} :
          [row EXCEPT !.reports = r] \in Request
<1>1. /\ \A row \in Cart, n \in Int : [row EXCEPT !.total = n] \in Cart
      /\ \A row \in Cart, st \in {"pending", "invoiced", "paid"} :
            [row EXCEPT !.status = st] \in Cart
  BY DEF Cart
<1>2. ASSUME NEW row \in Payment, NEW st \in {"pending", "failed", "paid"}
      PROVE  [row EXCEPT !.state = st] \in Payment
  BY DEF Payment
<1>3. ASSUME NEW row \in Checkout PROVE [row EXCEPT !.at = "invoice"] \in Checkout
  BY DEF Checkout
<1>4. ASSUME NEW row \in Hook PROVE [row EXCEPT !.at = "emit"] \in Hook
  BY DEF Hook
<1>5. ASSUME NEW row \in Request, NEW r \in SUBSET {"SUCCESS", "FAILED"}
      PROVE  [row EXCEPT !.reports = r] \in Request
  BY DEF Request
<1> QED
  BY <1>1, <1>2, <1>3, <1>4, <1>5

\* The rows of a table of its type are rows.
LEMMA RowTypes ==
    ASSUME TypeOK
    PROVE  /\ \A c \in DOMAIN carts : c \in Carts /\ carts[c] \in Cart
           /\ \A ref \in DOMAIN payments : ref \in Refs /\ payments[ref] \in Payment
           /\ \A ref \in DOMAIN checkouts : ref \in Refs /\ checkouts[ref] \in Checkout
           /\ \A d \in DOMAIN hooks : d \in Nat /\ hooks[d] \in Hook
           /\ \A ref \in DOMAIN provider : ref \in Refs /\ provider[ref] \in Request
           /\ \A d \in DOMAIN calls : d \in Nat /\ calls[d] \in Call
BY DEF TypeOK, IsTable

\* The count of faults stays within its bound.
LEMMA FaultyType ==
    ASSUME NEW wrong \in BOOLEAN, faults \in 0..MaxFaults, Faulty(wrong)
    PROVE  faults' \in 0..MaxFaults
BY CheckoutAssumption DEF Faulty

\* Recording an outcome keeps the payments a table, and their keys.
LEMMA RecordType ==
    ASSUME TypeOK, NEW ref \in DOMAIN payments
    PROVE  /\ IsTable(RecordPaid(ref), Refs, Payment)
           /\ IsTable(RecordFailed(ref), Refs, Payment)
BY RowTypes, CheckoutRows, PutType DEF TypeOK, RecordPaid, RecordFailed, WithState

\* Every step keeps the types.
LEMMA TypeStep ==
    ASSUME TypeOK, Linked, Called, [Next]_vars
    PROVE  TypeOK'
<1> USE RowTypes
<1>1. ASSUME NEW c \in Carts, NEW phone \in Buyers, NEW total \in Totals,
             CreateCart(c, phone, total) PROVE TypeOK'
  <2>1. [status |-> "pending", total |-> total, phone |-> phone] \in Cart
    BY CheckoutAssumption DEF Cart
  <2> QED BY <1>1, <2>1, PutType DEF CreateCart, TypeOK
<1>2. ASSUME NEW c \in Carts, NEW total \in Totals, AddItemToCart(c, total) PROVE TypeOK'
  <2>1. [carts[c] EXCEPT !.total = total] \in Cart
    BY <1>2, CheckoutAssumption, CheckoutRows DEF AddItemToCart
  <2> QED BY <1>2, <2>1, PutType DEF AddItemToCart, TypeOK
<1>3. ASSUME NEW c \in Carts, SendReceipt(c) PROVE TypeOK'
  <2>1. [carts[c] EXCEPT !.status = "paid"] \in Cart
    BY <1>3, CheckoutRows DEF SendReceipt
  <2> QED BY <1>3, <2>1, PutType DEF SendReceipt, TypeOK
<1>5. ASSUME NEW c \in Carts, NEW ref \in Refs, CheckoutStart(c, ref) PROVE TypeOK'
  <2>1. carts[c].total \in Int
    BY <1>5 DEF CheckoutStart, Open, Cart
  <2>2. [cart |-> c, total |-> carts[c].total, at |-> "ecocash"] \in Checkout
    BY <2>1 DEF Checkout
  <2>3. [cart |-> c, amount |-> carts[c].total, reports |-> {}] \in Request
    BY <2>1 DEF Request
  <2> QED BY <1>5, <2>2, <2>3, PutType DEF CheckoutStart, TypeOK
<1>6. ASSUME NEW ref \in Refs, EcoCashAnswered(ref) PROVE TypeOK'
  BY <1>6, CheckoutRows, PutType DEF EcoCashAnswered, TypeOK
<1>7. ASSUME NEW ref \in Refs, NEW n \in 0..2, InvoiceAnswered(ref, n) PROVE TypeOK'
  <2> DEFINE c == checkouts[ref].cart
  <2>1. checkouts[ref] \in Checkout /\ c \in DOMAIN carts
    BY <1>7 DEF InvoiceAnswered, Linked
  <2>2. NewPayment(checkouts[ref]) \in Payment
    BY <2>1 DEF NewPayment, Checkout, Payment
  <2>3. [carts[c] EXCEPT !.status = "invoiced"] \in Cart /\ c \in Carts
    BY <2>1, CheckoutRows
  <2>4. IsTable(carts', Carts, Cart)
    BY <1>7, <2>3, PutType DEF InvoiceAnswered, TypeOK
  <2>5. IsTable(payments', Refs, Payment)
    BY <1>7, <2>2, PutType DEF InvoiceAnswered, TypeOK
  <2>6. faults' \in 0..MaxFaults
    BY <1>7, CheckoutAssumption DEF InvoiceAnswered, Faulty, TypeOK
  <2> QED BY <1>7, <2>4, <2>5, <2>6, WithoutType DEF InvoiceAnswered, TypeOK
<1>8. ASSUME NEW ref \in Refs, NEW status \in {"SUCCESS", "FAILED"},
             ProviderReports(ref, status) PROVE TypeOK'
  <2>1. provider[ref].reports \cup {status} \in SUBSET {"SUCCESS", "FAILED"}
    BY <1>8 DEF ProviderReports, Request
  <2>2. [provider[ref] EXCEPT !.reports = @ \cup {status}] \in Request
    BY <1>8, <2>1, CheckoutRows DEF ProviderReports
  <2> QED BY <1>8, <2>2, PutType DEF ProviderReports, TypeOK
<1>9. ASSUME NEW ref \in Refs, NEW status \in {"SUCCESS", "FAILED"},
             EcoCashCalls(ref, status) PROVE TypeOK'
  <2> DEFINE call == [ref |-> ref, status |-> status, found |-> ref \in DOMAIN payments,
                      alone |-> ~Handling(ref)]
             hook == [ref |-> ref, known |-> ref \in DOMAIN payments, at |-> "receipt"]
  <2>1. call \in Call
    BY DEF Call, Handling
  <2>2. Append(calls, call) \in Seq(Call)
    BY <2>1 DEF TypeOK
  <2>4. hook \in Hook
    BY DEF Hook
  <2>5. Len(calls) + 1 \in Nat
    BY DEF TypeOK
  <2>6. IsTable(Put(hooks, Len(calls) + 1, hook), Nat, Hook)
    <3> HIDE DEF hook
    <3> QED BY <2>4, <2>5, PutType DEF TypeOK
  <2>7. IsTable(hooks', Nat, Hook)
    BY <1>9, <2>6 DEF EcoCashCalls, TypeOK
  <2>8. IsTable(payments', Refs, Payment)
    BY <1>9, RecordType DEF EcoCashCalls, TypeOK
  <2>9. calls' \in Seq(Call)
    BY <1>9, <2>2 DEF EcoCashCalls
  <2> QED BY <1>9, <2>7, <2>8, <2>9 DEF EcoCashCalls, TypeOK
<1>10. ASSUME NEW d \in 1..MaxDeliveries, ReceiptRefused(d) PROVE TypeOK'
  <2>1. faults' \in 0..MaxFaults
    BY <1>10, FaultyType DEF ReceiptRefused, TypeOK
  <2> QED BY <1>10, <2>1, WithoutType DEF ReceiptRefused, TypeOK
<1>11. ASSUME NEW d \in 1..MaxDeliveries, NEW n \in 0..2, ReceiptOffered(d, n) PROVE TypeOK'
  <2>1. d \in DOMAIN hooks /\ d \in Nat /\ hooks[d] \in Hook
    BY <1>11 DEF ReceiptOffered
  <2>2. IsTable(Emitting(d), Nat, Hook)
    BY <2>1, CheckoutRows, PutType DEF Emitting, TypeOK
  <2>3. IsTable(hooks', Nat, Hook)
    BY <1>11, <2>2, WithoutType DEF ReceiptOffered, TypeOK
  <2>4. IsTable(payments', Refs, Payment)
    BY <1>11, <2>1, RecordType DEF ReceiptOffered, Called, TypeOK
  <2>5. faults' \in 0..MaxFaults
    BY <1>11, CheckoutAssumption DEF ReceiptOffered, Faulty, TypeOK
  <2>6. [ref |-> hooks[d].ref, call |-> d, known |-> hooks[d].known] \in Offer
    BY <2>1 DEF Hook, Offer
  <2>7. offers' \in SUBSET Offer
    BY <1>11, <2>6 DEF ReceiptOffered, TypeOK
  <2>8. receipts' \in SUBSET Refs
    <3>1. hooks[d].ref \in Refs
      BY <2>1 DEF Hook
    <3> QED BY <1>11, <2>1, <3>1 DEF ReceiptOffered, TypeOK
  <2> QED BY <1>11, <2>3, <2>4, <2>5, <2>7, <2>8 DEF ReceiptOffered, TypeOK
<1>12. ASSUME NEW d \in 1..MaxDeliveries, EmitCompleted(d) PROVE TypeOK'
  BY <1>12, WithoutType DEF EmitCompleted, TypeOK
<1>14. CASE Crash
  <2>1. faults' \in 0..MaxFaults
    BY <1>14, FaultyType DEF Crash, TypeOK
  <2> QED BY <1>14, <2>1, EmptyType DEF Crash, TypeOK
<1>15. CASE UNCHANGED vars
  BY <1>15 DEF vars, TypeOK
<1> QED
  BY <1>1, <1>2, <1>3, <1>5, <1>6, <1>7, <1>8, <1>9, <1>10, <1>11, <1>12, <1>14, <1>15
  DEF Next, Caller, Provider, Answers, CheckoutStep, HookStep

-----------------------------------------------------------------------------
(* What no step undoes *)

\* Rows are not deleted, what they are linked by does not change, a report is
\* not withdrawn, and a paid payment stays paid.
Kept ==
    /\ DOMAIN carts \subseteq DOMAIN carts'
    /\ \A ref \in DOMAIN provider :
          /\ ref \in DOMAIN provider'
          /\ provider'[ref].cart = provider[ref].cart
          /\ provider'[ref].amount = provider[ref].amount
          /\ provider[ref].reports \subseteq provider'[ref].reports
    /\ \A ref \in DOMAIN payments :
          /\ ref \in DOMAIN payments'
          /\ payments'[ref].cart = payments[ref].cart
          /\ payments'[ref].amount = payments[ref].amount
          /\ payments[ref].state = "paid" => payments'[ref].state = "paid"
    /\ \A d \in DOMAIN calls : d \in DOMAIN calls' /\ calls'[d] = calls[d]
    /\ offers \subseteq offers' /\ receipts \subseteq receipts'
    /\ database' = database

\* What is written to the record of a payment.
LEMMA RecordFacts ==
    ASSUME TypeOK, NEW ref \in DOMAIN payments
    PROVE  /\ DOMAIN RecordPaid(ref) = DOMAIN payments
           /\ DOMAIN RecordFailed(ref) = DOMAIN payments
           /\ \A r \in DOMAIN payments :
                 /\ RecordPaid(ref)[r].cart = payments[r].cart
                 /\ RecordFailed(ref)[r].cart = payments[r].cart
                 /\ RecordPaid(ref)[r].amount = payments[r].amount
                 /\ RecordFailed(ref)[r].amount = payments[r].amount
                 /\ r # ref => RecordPaid(ref)[r] = payments[r]
                 /\ r # ref => RecordFailed(ref)[r] = payments[r]
           /\ RecordPaid(ref)[ref].state = "paid"
           /\ RecordFailed(ref)[ref].state = "failed"
<1> DEFINE With(st) == Put(payments, ref, [payments[ref] EXCEPT !.state = st])
<1>1. ASSUME NEW st \in {"paid", "failed"}
      PROVE  /\ DOMAIN With(st) = DOMAIN payments
             /\ \A r \in DOMAIN payments :
                   /\ With(st)[r].cart = payments[r].cart
                   /\ With(st)[r].amount = payments[r].amount
                   /\ r # ref => With(st)[r] = payments[r]
             /\ With(st)[ref].state = st
  <2> DEFINE row == [payments[ref] EXCEPT !.state = st]
  <2>1. row.cart = payments[ref].cart /\ row.amount = payments[ref].amount /\ row.state = st
    BY RowTypes DEF Payment
  <2>2. /\ DOMAIN With(st) = DOMAIN payments \cup {ref}
        /\ With(st)[ref] = row
        /\ \A r \in DOMAIN payments : r # ref => With(st)[r] = payments[r]
    BY DEF Put
  <2> QED BY <2>1, <2>2
<1>2. RecordPaid(ref) = With("paid") /\ RecordFailed(ref) = With("failed")
  BY DEF RecordPaid, RecordFailed, WithState
<1> QED
  BY <1>1, <1>2

\* Which steps write a table, and with what besides the table itself.
LEMMA Writers ==
    ASSUME [Next]_vars
    PROVE  /\ \/ UNCHANGED carts
              \/ \E c \in Carts, phone \in Buyers, total \in Totals :
                    CreateCart(c, phone, total)
              \/ \E c \in Carts, total \in Totals : AddItemToCart(c, total)
              \/ \E c \in Carts : SendReceipt(c)
              \/ \E ref \in Refs, n \in 0..2 : InvoiceAnswered(ref, n)
           /\ \/ UNCHANGED payments
              \/ \E ref \in Refs, n \in 0..2 : InvoiceAnswered(ref, n)
              \/ \E ref \in Refs, status \in {"SUCCESS", "FAILED"} : EcoCashCalls(ref, status)
              \/ \E d \in 1..MaxDeliveries, n \in 0..2 : ReceiptOffered(d, n)
           /\ \/ UNCHANGED provider
              \/ \E c \in Carts, ref \in Refs : CheckoutStart(c, ref)
              \/ \E ref \in Refs, status \in {"SUCCESS", "FAILED"} :
                    ProviderReports(ref, status)
           /\ \/ UNCHANGED calls
              \/ \E ref \in Refs, status \in {"SUCCESS", "FAILED"} : EcoCashCalls(ref, status)
           /\ \/ UNCHANGED checkouts
              \/ \E c \in Carts, ref \in Refs : CheckoutStart(c, ref)
              \/ \E ref \in Refs : EcoCashAnswered(ref)
              \/ \E ref \in Refs, n \in 0..2 : InvoiceAnswered(ref, n)
              \/ Crash
           /\ \/ UNCHANGED hooks
              \/ \E ref \in Refs, status \in {"SUCCESS", "FAILED"} : EcoCashCalls(ref, status)
              \/ \E d \in 1..MaxDeliveries : ReceiptRefused(d) \/ EmitCompleted(d)
              \/ \E d \in 1..MaxDeliveries, n \in 0..2 : ReceiptOffered(d, n)
              \/ Crash
           /\ UNCHANGED completed \/ \E d \in 1..MaxDeliveries : EmitCompleted(d)
           /\ \/ UNCHANGED <<receipts, offers>>
              \/ \E d \in 1..MaxDeliveries, n \in 0..2 : ReceiptOffered(d, n)
           /\ UNCHANGED database
<1>1. CASE Caller
  BY <1>1 DEF Caller, CreateCart, AddItemToCart, SendReceipt, CheckoutStart
<1>2. CASE Provider
  BY <1>2 DEF Provider, ProviderReports, EcoCashCalls
<1>3. CASE Answers
  <2>1. CASE \E ref \in Refs : CheckoutStep(ref)
    BY <2>1 DEF CheckoutStep, EcoCashAnswered, InvoiceAnswered
  <2>2. CASE \E d \in 1..MaxDeliveries : HookStep(d)
    BY <2>2 DEF HookStep, ReceiptRefused, ReceiptOffered, EmitCompleted
  <2> QED BY <1>3, <2>1, <2>2 DEF Answers
<1>4. CASE Crash
  BY <1>4 DEF Crash
<1>5. CASE UNCHANGED vars
  BY <1>5 DEF vars
<1> QED
  BY <1>1, <1>2, <1>3, <1>4, <1>5 DEF Next

\* Every step keeps what Kept lists.
LEMMA StepKeeps ==
    ASSUME TypeOK, Linked, Called, [Next]_vars
    PROVE  Kept
<1> USE RowTypes
<1>1. DOMAIN carts \subseteq DOMAIN carts'
  BY Writers
     DEF CreateCart, AddItemToCart, InvoiceAnswered, SendReceipt, Put
<1>2. ASSUME NEW ref \in DOMAIN provider
      PROVE  /\ ref \in DOMAIN provider'
             /\ provider'[ref].cart = provider[ref].cart
             /\ provider'[ref].amount = provider[ref].amount
             /\ provider[ref].reports \subseteq provider'[ref].reports
  <2>1. ASSUME NEW c \in Carts, NEW r \in Refs, CheckoutStart(c, r)
        PROVE  ref \in DOMAIN provider' /\ provider'[ref] = provider[ref]
    BY <1>2, <2>1 DEF CheckoutStart, Put
  <2>2. ASSUME NEW r \in Refs, NEW status \in {"SUCCESS", "FAILED"},
               ProviderReports(r, status)
        PROVE  /\ ref \in DOMAIN provider'
               /\ provider'[ref].cart = provider[ref].cart
               /\ provider'[ref].amount = provider[ref].amount
               /\ provider[ref].reports \subseteq provider'[ref].reports
    <3> DEFINE row == [provider[r] EXCEPT !.reports = @ \cup {status}]
    <3>1. /\ r \in DOMAIN provider
          /\ row.cart = provider[r].cart /\ row.amount = provider[r].amount
          /\ provider[r].reports \subseteq row.reports
      BY <2>2 DEF ProviderReports, Request
    <3>2. provider' = Put(provider, r, row)
      BY <2>2 DEF ProviderReports
    <3> HIDE DEF row
    <3> QED BY <3>1, <3>2 DEF Put
  <2> QED BY <2>1, <2>2, Writers
<1>3. ASSUME NEW ref \in DOMAIN payments
      PROVE  /\ ref \in DOMAIN payments'
             /\ payments'[ref].cart = payments[ref].cart
             /\ payments'[ref].amount = payments[ref].amount
             /\ payments[ref].state = "paid" => payments'[ref].state = "paid"
  <2>1. ASSUME NEW r \in Refs, NEW n \in 0..2, InvoiceAnswered(r, n)
        PROVE  ref \in DOMAIN payments' /\ payments'[ref] = payments[ref]
    <3>1. r # ref
      BY <2>1 DEF InvoiceAnswered, Linked
    <3> QED BY <2>1, <3>1 DEF InvoiceAnswered, Put
  <2>2. ASSUME NEW r \in Refs, NEW status \in {"SUCCESS", "FAILED"}, EcoCashCalls(r, status)
        PROVE  /\ ref \in DOMAIN payments'
               /\ payments'[ref].cart = payments[ref].cart
               /\ payments'[ref].amount = payments[ref].amount
               /\ payments[ref].state = "paid" => payments'[ref].state = "paid"
    BY <2>2, RecordFacts DEF EcoCashCalls, Processed
  <2>3. ASSUME NEW d \in 1..MaxDeliveries, NEW n \in 0..2, ReceiptOffered(d, n)
        PROVE  /\ ref \in DOMAIN payments'
               /\ payments'[ref].cart = payments[ref].cart
               /\ payments'[ref].amount = payments[ref].amount
               /\ payments[ref].state = "paid" => payments'[ref].state = "paid"
    BY <2>3, RecordFacts DEF ReceiptOffered, Called
  <2> QED BY <2>1, <2>2, <2>3, Writers
<1>4. ASSUME NEW d \in DOMAIN calls
      PROVE  d \in DOMAIN calls' /\ calls'[d] = calls[d]
  <2>1. ASSUME NEW r \in Refs, NEW status \in {"SUCCESS", "FAILED"}, EcoCashCalls(r, status)
        PROVE  d \in DOMAIN calls' /\ calls'[d] = calls[d]
    <3> DEFINE call == [ref |-> r, status |-> status, found |-> r \in DOMAIN payments,
                        alone |-> ~Handling(r)]
    <3>1. calls' = Append(calls, call) /\ call \in Call /\ calls \in Seq(Call)
      BY <2>1 DEF EcoCashCalls, Call, Handling, TypeOK
    <3> HIDE DEF call
    <3> QED BY <3>1
  <2> QED BY <2>1, Writers
<1>5. offers \subseteq offers' /\ receipts \subseteq receipts' /\ database' = database
  BY Writers DEF ReceiptOffered
<1> QED
  BY <1>1, <1>2, <1>3, <1>4, <1>5 DEF Kept

\* Faults are counted, and not forgotten.
LEMMA FaultsGrow ==
    ASSUME TypeOK, [Next]_vars, faults' = 0
    PROVE  faults = 0
<1>1. faults' = faults \/ faults' = faults + 1
  <2>1. ASSUME NEW wrong, Faulty(wrong) PROVE faults' = faults \/ faults' = faults + 1
    BY <2>1 DEF Faulty
  <2>2. CASE Caller \/ Provider
    BY <2>2 DEF Caller, CreateCart, AddItemToCart, SendReceipt, CheckoutStart, Provider,
                ProviderReports, EcoCashCalls
  <2>3. CASE Answers
    BY <2>1, <2>3 DEF Answers, CheckoutStep, EcoCashAnswered, InvoiceAnswered, HookStep,
                      ReceiptRefused, EmitCompleted, ReceiptOffered
  <2>4. CASE Crash
    BY <2>1, <2>4 DEF Crash
  <2>5. CASE UNCHANGED vars
    BY <2>5 DEF vars
  <2> QED BY <2>2, <2>3, <2>4, <2>5 DEF Next
<1> QED
  BY <1>1 DEF TypeOK

-----------------------------------------------------------------------------
(* The links between what runs, what is recorded and what EcoCash was asked *)

\* Only the answer to a checkout adds a payment, the one of the checkout.
LEMMA NewPayments ==
    ASSUME TypeOK, Called, [Next]_vars, NEW ref \in DOMAIN payments', ref \notin DOMAIN payments
    PROVE  /\ \E n \in 0..2 : InvoiceAnswered(ref, n)
           /\ payments'[ref] = NewPayment(checkouts[ref]) /\ TakesPayments
<1>1. ASSUME NEW r \in Refs, NEW n \in 0..2, InvoiceAnswered(r, n)
      PROVE  r = ref /\ payments'[ref] = NewPayment(checkouts[ref]) /\ TakesPayments
  BY <1>1 DEF InvoiceAnswered, Put
<1>2. ASSUME NEW r \in Refs, NEW status \in {"SUCCESS", "FAILED"}, EcoCashCalls(r, status)
      PROVE  DOMAIN payments' = DOMAIN payments
  BY <1>2, RecordFacts DEF EcoCashCalls
<1>3. ASSUME NEW d \in 1..MaxDeliveries, NEW n \in 0..2, ReceiptOffered(d, n)
      PROVE  DOMAIN payments' = DOMAIN payments
  BY <1>3, RecordFacts DEF ReceiptOffered, Called
<1> QED
  BY <1>1, <1>2, <1>3, Writers

\* What runs, and what is recorded, stays linked.
LEMMA LinkedStep ==
    ASSUME TypeOK, Linked, Called, ChargeIsRecorded, [Next]_vars
    PROVE  Linked' /\ ChargeIsRecorded'
<1> USE RowTypes
<1>1. Kept
  BY StepKeeps
<1>2. ASSUME NEW ref \in DOMAIN checkouts'
      PROVE  /\ ref \in DOMAIN provider' /\ ref \notin DOMAIN payments'
             /\ checkouts'[ref].cart \in DOMAIN carts'
             /\ checkouts'[ref].cart = provider'[ref].cart
             /\ checkouts'[ref].total = provider'[ref].amount
  <2>1. ASSUME ref \in DOMAIN checkouts, ref \notin DOMAIN payments',
               checkouts'[ref].cart = checkouts[ref].cart,
               checkouts'[ref].total = checkouts[ref].total
        PROVE  /\ ref \in DOMAIN provider' /\ ref \notin DOMAIN payments'
               /\ checkouts'[ref].cart \in DOMAIN carts'
               /\ checkouts'[ref].cart = provider'[ref].cart
               /\ checkouts'[ref].total = provider'[ref].amount
    BY <1>1, <2>1 DEF Kept, Linked
  <2>2. \/ ref \notin DOMAIN payments' \/ ref \in DOMAIN payments
        \/ \E n \in 0..2 : InvoiceAnswered(ref, n)
    BY NewPayments
  <2>3. ASSUME NEW c \in Carts, NEW r \in Refs, CheckoutStart(c, r)
        PROVE  /\ ref \in DOMAIN provider' /\ ref \notin DOMAIN payments'
               /\ checkouts'[ref].cart \in DOMAIN carts'
               /\ checkouts'[ref].cart = provider'[ref].cart
               /\ checkouts'[ref].total = provider'[ref].amount
    BY <2>3 DEF CheckoutStart, Open, Put, Linked
  <2>4. ASSUME NEW r \in Refs, EcoCashAnswered(r)
        PROVE  /\ ref \in DOMAIN checkouts /\ ref \notin DOMAIN payments'
               /\ checkouts'[ref].cart = checkouts[ref].cart
               /\ checkouts'[ref].total = checkouts[ref].total
    BY <2>4 DEF EcoCashAnswered, Put, Checkout, Linked
  <2>5. ASSUME NEW r \in Refs, NEW n \in 0..2, InvoiceAnswered(r, n)
        PROVE  /\ ref \in DOMAIN checkouts /\ ref \notin DOMAIN payments'
               /\ checkouts'[ref].cart = checkouts[ref].cart
               /\ checkouts'[ref].total = checkouts[ref].total
    BY <2>5 DEF InvoiceAnswered, Put, Without, Linked
  <2>6. ASSUME Crash PROVE FALSE
    BY <1>2, <2>6, EmptyType DEF Crash
  <2>7. ASSUME UNCHANGED checkouts
        PROVE  /\ ref \in DOMAIN checkouts /\ ref \notin DOMAIN payments'
               /\ checkouts'[ref].cart = checkouts[ref].cart
               /\ checkouts'[ref].total = checkouts[ref].total
    <3>1. ref \in DOMAIN checkouts
      BY <1>2, <2>7
    <3>2. ref \notin DOMAIN payments'
      <4>1. ASSUME NEW n \in 0..2, InvoiceAnswered(ref, n) PROVE FALSE
        BY <2>7, <3>1, <4>1 DEF InvoiceAnswered, Without
      <4> QED BY <2>2, <3>1, <4>1 DEF Linked
    <3> QED BY <2>7, <3>1, <3>2
  <2> QED BY <2>1, <2>3, <2>4, <2>5, <2>6, <2>7, Writers
<1>3. ASSUME NEW ref \in DOMAIN payments'
      PROVE  /\ ref \in DOMAIN provider' /\ TakesPayments'
             /\ payments'[ref].amount = provider'[ref].amount
             /\ payments'[ref].cart = provider'[ref].cart
  <2>1. CASE ref \in DOMAIN payments
    BY <1>1, <2>1 DEF Kept, Linked, ChargeIsRecorded, TakesPayments
  <2>2. CASE ref \notin DOMAIN payments
    <3>1. ref \in DOMAIN checkouts /\ TakesPayments
      BY <1>3, <2>2, NewPayments DEF InvoiceAnswered
    <3>2. /\ payments'[ref].cart = checkouts[ref].cart
          /\ payments'[ref].amount = checkouts[ref].total
      BY <1>3, <2>2, NewPayments DEF NewPayment
    <3> QED BY <1>1, <3>1, <3>2 DEF Kept, Linked, TakesPayments
  <2> QED BY <2>1, <2>2
<1>4. ASSUME NEW c \in DOMAIN carts', carts'[c].status = "invoiced"
      PROVE  \E ref \in DOMAIN provider' : provider'[ref].cart = c
  <2> DEFINE Before == c \in DOMAIN carts /\ carts[c].status = "invoiced"
             Asked == \E ref \in DOMAIN provider : provider[ref].cart = c
  <2>1. Before => Asked
    BY DEF ChargeIsRecorded
  <2>2. ASSUME NEW b \in Carts, NEW phone \in Buyers, NEW total \in Totals,
               CreateCart(b, phone, total)
        PROVE  Before
    BY <1>4, <2>2 DEF CreateCart, Put
  <2>3. ASSUME NEW b \in Carts, NEW total \in Totals, AddItemToCart(b, total) PROVE Before
    BY <1>4, <2>3 DEF AddItemToCart, Put, Cart
  <2>4. ASSUME NEW b \in Carts, SendReceipt(b) PROVE Before
    BY <1>4, <2>4 DEF SendReceipt, Put, Cart
  <2>5. ASSUME NEW r \in Refs, NEW n \in 0..2, InvoiceAnswered(r, n) PROVE Before \/ Asked
    BY <1>4, <2>5 DEF InvoiceAnswered, Put, Linked
  <2>6. ASSUME UNCHANGED carts PROVE Before
    BY <1>4, <2>6
  <2>7. Asked
    <3> HIDE DEF Before, Asked
    <3> QED BY <2>1, <2>2, <2>3, <2>4, <2>5, <2>6, Writers
  <2> QED BY <1>1, <2>7 DEF Kept
<1>5. ASSUME faults' = 0, TakesPayments', NEW ref \in DOMAIN provider'
      PROVE  ref \in DOMAIN payments' \/ ref \in DOMAIN checkouts'
  <2>1. faults = 0 /\ TakesPayments
    BY <1>1, <1>5, FaultsGrow DEF Kept, TakesPayments
  <2>2. ASSUME NEW c \in Carts, NEW r \in Refs, CheckoutStart(c, r)
        PROVE  ref \in DOMAIN provider \/ ref \in DOMAIN checkouts'
    BY <1>5, <2>2 DEF CheckoutStart, Put
  <2>3. ASSUME NEW r \in Refs, NEW status \in {"SUCCESS", "FAILED"}, ProviderReports(r, status)
        PROVE  ref \in DOMAIN provider
    BY <1>5, <2>3 DEF ProviderReports, Put
  <2>4. ref \in DOMAIN provider \/ ref \in DOMAIN checkouts'
    BY <1>5, <2>2, <2>3, Writers
  <2>5. ASSUME ref \in DOMAIN checkouts PROVE ref \in DOMAIN payments' \/ ref \in DOMAIN checkouts'
    <3>1. ASSUME NEW r \in Refs, NEW n \in 0..2, InvoiceAnswered(r, n)
          PROVE  ref \in DOMAIN payments' \/ ref \in DOMAIN checkouts'
      <4>1. n = 2
        BY <1>5, <2>1, <3>1 DEF InvoiceAnswered, Faulty
      <4> QED BY <2>1, <2>5, <3>1, <4>1 DEF InvoiceAnswered, Put, Without
    <3>2. ~Crash
      BY <1>5, <2>1 DEF Crash, Faulty
    <3>3. ASSUME NEW c \in Carts, NEW r \in Refs, CheckoutStart(c, r)
          PROVE  ref \in DOMAIN checkouts'
      BY <2>5, <3>3 DEF CheckoutStart, Put
    <3>4. ASSUME NEW r \in Refs, EcoCashAnswered(r) PROVE ref \in DOMAIN checkouts'
      BY <2>5, <3>4 DEF EcoCashAnswered, Put
    <3> QED BY <2>5, <3>1, <3>2, <3>3, <3>4, Writers
  <2> QED BY <1>1, <2>1, <2>4, <2>5 DEF ChargeIsRecorded, Kept
<1>6. Linked'
  BY <1>2, <1>3 DEF Linked
<1>7. ChargeIsRecorded'
  BY <1>3, <1>4, <1>5 DEF ChargeIsRecorded
<1> QED
  BY <1>6, <1>7

-----------------------------------------------------------------------------
(* The webhooks that run *)

\* What a call that is delivered adds to the calls.
LEMMA CallAdds ==
    ASSUME TypeOK, NEW r \in Refs, NEW status \in {"SUCCESS", "FAILED"}, EcoCashCalls(r, status)
    PROVE  /\ DOMAIN calls' = DOMAIN calls \cup {Len(calls) + 1}
           /\ Len(calls) + 1 \notin DOMAIN calls
           /\ calls'[Len(calls) + 1].ref = r
           /\ calls'[Len(calls) + 1].status = status
           /\ calls'[Len(calls) + 1].found = (r \in DOMAIN payments)
           /\ calls'[Len(calls) + 1].alone = ~Handling(r)
<1> DEFINE call == [ref |-> r, status |-> status, found |-> r \in DOMAIN payments,
                    alone |-> ~Handling(r)]
<1>1. calls' = Append(calls, call) /\ call \in Call /\ calls \in Seq(Call)
  BY DEF EcoCashCalls, Call, Handling, TypeOK
<1>3. /\ call.ref = r /\ call.status = status /\ call.found = (r \in DOMAIN payments)
      /\ call.alone = ~Handling(r)
  OBVIOUS
<1> HIDE DEF call
<1>2. /\ DOMAIN calls' = DOMAIN calls \cup {Len(calls) + 1}
      /\ Len(calls) + 1 \notin DOMAIN calls
      /\ calls'[Len(calls) + 1] = call
  BY <1>1
<1> QED
  BY <1>2, <1>3

\* A webhook that runs waits as before, has offered the receipt and goes on to announce
\* it, or was called just now for a payment that was not paid.
LEMMA HookMoves ==
    ASSUME TypeOK, [Next]_vars, NEW d \in DOMAIN hooks'
    PROVE  \/ d \in DOMAIN hooks /\ hooks'[d] = hooks[d]
           \/ /\ d \in DOMAIN hooks /\ hooks'[d] = [hooks[d] EXCEPT !.at = "emit"]
              /\ \E n \in 0..2 : ReceiptOffered(d, n)
              /\ hooks[d].known =>
                    /\ payments' = RecordPaid(hooks[d].ref) /\ TakesReceipts
                    /\ hooks[d].ref \in receipts'
           \/ \E r \in Refs :
                /\ EcoCashCalls(r, "SUCCESS") /\ ~Processed(r) /\ d = Len(calls) + 1
                /\ hooks'[d] = [ref |-> r, known |-> r \in DOMAIN payments, at |-> "receipt"]
<1> USE RowTypes
<1> DEFINE Same == d \in DOMAIN hooks /\ hooks'[d] = hooks[d]
           On == /\ d \in DOMAIN hooks /\ hooks'[d] = [hooks[d] EXCEPT !.at = "emit"]
                 /\ \E n \in 0..2 : ReceiptOffered(d, n)
                 /\ hooks[d].known =>
                       /\ payments' = RecordPaid(hooks[d].ref) /\ TakesReceipts
                       /\ hooks[d].ref \in receipts'
           New == \E r \in Refs :
                    /\ EcoCashCalls(r, "SUCCESS") /\ ~Processed(r) /\ d = Len(calls) + 1
                    /\ hooks'[d] = [ref |-> r, known |-> r \in DOMAIN payments, at |-> "receipt"]
<1>1. ASSUME NEW r \in Refs, NEW status \in {"SUCCESS", "FAILED"}, EcoCashCalls(r, status)
      PROVE  Same \/ New
  <2> DEFINE hook == [ref |-> r, known |-> r \in DOMAIN payments, at |-> "receipt"]
             new == Len(calls) + 1
  <2>1. CASE hooks' = hooks
    BY <2>1
  <2>2. CASE status = "SUCCESS" /\ ~Processed(r) /\ hooks' = Put(hooks, new, hook)
    <3> HIDE DEF hook
    <3>1. CASE d # new
      BY <2>2, <3>1 DEF Put
    <3>2. CASE d = new
      <4>1. hooks'[d] = hook
        BY <2>2, <3>2 DEF Put
      <4> QED BY <1>1, <2>2, <3>2, <4>1 DEF hook
    <3> QED BY <3>1, <3>2
  <2> QED BY <1>1, <2>1, <2>2 DEF EcoCashCalls
<1>2. ASSUME NEW e \in 1..MaxDeliveries, hooks' = Without(hooks, {e}) PROVE Same
  BY <1>2 DEF Without
<1>3. ASSUME NEW e \in 1..MaxDeliveries, NEW n \in 0..2, ReceiptOffered(e, n) PROVE Same \/ On
  <2>1. CASE hooks' = Without(hooks, {e})
    BY <1>2, <2>1
  <2>2. CASE hooks' = Emitting(e) /\ e # d
    BY <2>2 DEF Emitting, Put
  <2>3. CASE hooks' = Emitting(e) /\ e = d
    <3>1. d \in DOMAIN hooks /\ hooks'[d] = [hooks[d] EXCEPT !.at = "emit"]
      BY <1>3, <2>3 DEF ReceiptOffered, Emitting, Put
    <3>2. hooks' # Without(hooks, {d})
      BY DEF Without
    <3>3. hooks[d].known => /\ payments' = RecordPaid(hooks[d].ref) /\ TakesReceipts
                            /\ hooks[d].ref \in receipts'
      BY <1>3, <2>3, <3>2 DEF ReceiptOffered, ReceiptTaken
    <3> QED BY <1>3, <2>3, <3>1, <3>3
  <2> QED BY <1>3, <2>1, <2>2, <2>3 DEF ReceiptOffered
<1>4. ASSUME NEW e \in 1..MaxDeliveries, ReceiptRefused(e) \/ EmitCompleted(e) PROVE Same
  BY <1>2, <1>4 DEF ReceiptRefused, EmitCompleted
<1>5. ASSUME UNCHANGED hooks PROVE Same
  BY <1>5
<1>6. ASSUME Crash PROVE FALSE
  BY <1>6 DEF Crash, EmptyTable
<1>7. Same \/ On \/ New
  <2> HIDE DEF Same, On, New
  <2> QED BY <1>1, <1>3, <1>4, <1>5, <1>6, Writers
<1> QED
  BY <1>7

\* A webhook that runs handles a call EcoCash made once it had the money.
LEMMA CalledStep ==
    ASSUME TypeOK, Linked, Called, [Next]_vars
    PROVE  Called'
<1> USE RowTypes
<1>1. Kept
  BY StepKeeps
<1> SUFFICES ASSUME NEW d \in DOMAIN hooks'
             PROVE  /\ d \in DOMAIN calls' /\ calls'[d].ref = hooks'[d].ref
                    /\ calls'[d].found = hooks'[d].known
                    /\ hooks'[d].ref \in DOMAIN provider'
                    /\ "SUCCESS" \in provider'[hooks'[d].ref].reports
                    /\ hooks'[d].known => hooks'[d].ref \in DOMAIN payments'
  BY DEF Called, Settled
<1>2. CASE /\ d \in DOMAIN hooks /\ hooks'[d].ref = hooks[d].ref
           /\ hooks'[d].known = hooks[d].known
  BY <1>1, <1>2 DEF Kept, Called, Settled
<1>3. ASSUME NEW r \in Refs, EcoCashCalls(r, "SUCCESS"), d = Len(calls) + 1,
             hooks'[d] = [ref |-> r, known |-> r \in DOMAIN payments, at |-> "receipt"]
      PROVE  /\ d \in DOMAIN calls' /\ calls'[d].ref = hooks'[d].ref
             /\ calls'[d].found = hooks'[d].known
             /\ hooks'[d].ref \in DOMAIN provider'
             /\ "SUCCESS" \in provider'[hooks'[d].ref].reports
             /\ hooks'[d].known => hooks'[d].ref \in DOMAIN payments'
  <2>1. d \in DOMAIN calls' /\ calls'[d].ref = r /\ calls'[d].found = (r \in DOMAIN payments)
    BY <1>3, CallAdds
  <2>2. hooks'[d].ref = r /\ hooks'[d].known = (r \in DOMAIN payments)
    BY <1>3
  <2>3. r \in DOMAIN provider /\ "SUCCESS" \in provider[r].reports
    BY <1>3 DEF EcoCashCalls
  <2> QED BY <1>1, <2>1, <2>2, <2>3 DEF Kept
<1>4. ASSUME d \in DOMAIN hooks, hooks'[d] = [hooks[d] EXCEPT !.at = "emit"]
      PROVE  hooks'[d].ref = hooks[d].ref /\ hooks'[d].known = hooks[d].known
  BY <1>4 DEF Hook
<1> QED
  BY <1>2, <1>3, <1>4, HookMoves

-----------------------------------------------------------------------------
(* What is announced, and what is recorded *)

\* Only a webhook that is about to announce a payment does.
LEMMA Completes ==
    ASSUME [Next]_vars, NEW d \in completed', d \notin completed
    PROVE  d \in DOMAIN hooks /\ hooks[d].at = "emit"
BY Writers DEF EmitCompleted

\* What a webhook is about to announce is settled.
LEMMA EmitsStep ==
    ASSUME TypeOK, Linked, Called, Emits, [Next]_vars
    PROVE  Emits'
<1> USE RowTypes
<1>1. Kept
  BY StepKeeps
<1>2. ASSUME NEW d \in DOMAIN hooks', hooks'[d].at = "emit"
      PROVE  /\ \E o \in offers' : o.ref = hooks'[d].ref /\ o.call = d
             /\ hooks'[d].known =>
                   /\ hooks'[d].ref \in DOMAIN payments'
                   /\ payments'[hooks'[d].ref].state = "paid"
                   /\ hooks'[d].ref \in receipts' /\ TakesReceipts'
  <2>1. CASE d \in DOMAIN hooks /\ hooks'[d] = hooks[d]
    BY <1>1, <1>2, <2>1 DEF Kept, Emits, State, TakesReceipts
  <2>2. CASE /\ d \in DOMAIN hooks /\ hooks'[d] = [hooks[d] EXCEPT !.at = "emit"]
             /\ \E n \in 0..2 : ReceiptOffered(d, n)
             /\ hooks[d].known =>
                   /\ payments' = RecordPaid(hooks[d].ref) /\ TakesReceipts
                   /\ hooks[d].ref \in receipts'
    <3>1. hooks'[d].ref = hooks[d].ref /\ hooks'[d].known = hooks[d].known
      BY <2>2 DEF Hook
    <3>2. [ref |-> hooks[d].ref, call |-> d, known |-> hooks[d].known] \in offers'
      BY <2>2 DEF ReceiptOffered
    <3>3. hooks[d].known => /\ hooks[d].ref \in DOMAIN payments'
                            /\ payments'[hooks[d].ref].state = "paid"
      BY <2>2, RecordFacts DEF Called
    <3>4. TakesReceipts' = TakesReceipts
      BY <1>1 DEF Kept, TakesReceipts
    <3> QED BY <2>2, <3>1, <3>2, <3>3, <3>4
  <2>3. ASSUME NEW r, hooks'[d] = [ref |-> r, known |-> r \in DOMAIN payments, at |-> "receipt"]
        PROVE  FALSE
    BY <1>2, <2>3
  <2> QED BY <2>1, <2>2, <2>3, HookMoves
<1>3. completed' \subseteq DOMAIN calls'
  BY <1>1, Completes DEF Emits, Kept, Called
<1> QED
  BY <1>2, <1>3 DEF Emits, State

\* Receipts stay those of paid payments that were offered, and what is announced was
\* about to be.
LEMMA AnnouncedStep ==
    ASSUME TypeOK, Linked, Called, Emits, AnnouncedIsSettled, [Next]_vars
    PROVE  AnnouncedIsSettled'
<1> USE RowTypes
<1>1. Kept
  BY StepKeeps
<1>2. ASSUME NEW ref \in receipts'
      PROVE  /\ ref \in DOMAIN payments' /\ payments'[ref].state = "paid"
             /\ \E o \in offers' : o.ref = ref /\ o.known
  <2>1. CASE ref \in receipts
    BY <1>1, <2>1 DEF Kept, AnnouncedIsSettled, State
  <2>2. CASE ref \notin receipts
    <3>1. PICK d \in 1..MaxDeliveries, n \in 0..2 : ReceiptOffered(d, n)
      BY <1>2, <2>2, Writers
    <3>2. /\ d \in DOMAIN hooks /\ hooks[d].known /\ hooks[d].ref = ref
          /\ payments' = RecordPaid(ref)
      BY <1>2, <2>2, <3>1 DEF ReceiptOffered
    <3>3. ref \in DOMAIN payments
      BY <3>2 DEF Called
    <3>4. [ref |-> ref, call |-> d, known |-> TRUE] \in offers'
      BY <3>1, <3>2 DEF ReceiptOffered
    <3> QED BY <3>2, <3>3, <3>4, RecordFacts
  <2> QED BY <2>1, <2>2
<1>3. ASSUME NEW d \in completed'
      PROVE  /\ calls'[d].ref \in DOMAIN provider'
             /\ "SUCCESS" \in provider'[calls'[d].ref].reports
             /\ \E o \in offers' : o.ref = calls'[d].ref /\ o.call = d
             /\ calls'[d].found =>
                   /\ calls'[d].ref \in DOMAIN payments'
                   /\ payments'[calls'[d].ref].state = "paid"
                   /\ calls'[d].ref \in receipts' /\ TakesReceipts'
  <2>1. d \in DOMAIN calls
    BY Completes DEF Emits, Called
  <2>2. calls'[d] = calls[d] /\ TakesReceipts' = TakesReceipts
    BY <1>1, <2>1 DEF Kept, TakesReceipts
  <2> DEFINE ref == calls[d].ref
  <2>3. /\ ref \in DOMAIN provider /\ "SUCCESS" \in provider[ref].reports
        /\ \E o \in offers : o.ref = ref /\ o.call = d
        /\ calls[d].found => /\ ref \in DOMAIN payments /\ payments[ref].state = "paid"
                             /\ ref \in receipts /\ TakesReceipts
    <3>1. CASE d \in completed
      BY <3>1 DEF AnnouncedIsSettled, Reports, State
    <3>2. CASE d \notin completed
      <4>1. /\ d \in DOMAIN hooks /\ hooks[d].at = "emit" /\ hooks[d].ref = ref
            /\ hooks[d].known = calls[d].found
        BY <1>3, <3>2, Completes DEF Called
      <4> QED BY <4>1 DEF Emits, Called, Settled, State
    <3> QED BY <3>1, <3>2
  <2>4. /\ ref \in DOMAIN provider' /\ "SUCCESS" \in provider'[ref].reports
        /\ \E o \in offers' : o.ref = ref /\ o.call = d
        /\ calls[d].found => /\ ref \in DOMAIN payments' /\ payments'[ref].state = "paid"
                             /\ ref \in receipts' /\ TakesReceipts
    <3> HIDE DEF ref
    <3> QED BY <1>1, <2>3 DEF Kept
  <2> QED BY <2>2, <2>4
<1> QED
  BY <1>2, <1>3 DEF AnnouncedIsSettled, State, Reports

\* What a webhook waits to record is recorded, unless something goes wrong.
LEMMA SuccessStep ==
    ASSUME TypeOK, Linked, Called, SuccessIsRecorded, [Next]_vars
    PROVE  SuccessIsRecorded'
<1> USE RowTypes
<1>1. Kept
  BY StepKeeps
<1> SUFFICES ASSUME faults' = 0, NEW i \in DOMAIN calls',
                    calls'[i].status = "SUCCESS", calls'[i].found
             PROVE  \/ /\ calls'[i].ref \in DOMAIN payments'
                       /\ payments'[calls'[i].ref].state = "paid"
                    \/ \E d \in DOMAIN hooks' : /\ hooks'[d].ref = calls'[i].ref
                                                /\ hooks'[d].known /\ hooks'[d].at = "receipt"
  BY DEF SuccessIsRecorded, State
<1>2. faults = 0
  BY FaultsGrow
<1>3. ASSUME NEW ref, ref \in DOMAIN payments, payments[ref].state = "paid"
      PROVE  ref \in DOMAIN payments' /\ payments'[ref].state = "paid"
  BY <1>1, <1>3 DEF Kept
<1>4. CASE i \in DOMAIN calls
  <2> DEFINE ref == calls[i].ref
  <2>1. calls'[i] = calls[i]
    BY <1>1, <1>4 DEF Kept
  <2>2. CASE State(ref) = "paid"
    BY <1>3, <2>1, <2>2 DEF State
  <2>3. CASE State(ref) # "paid"
    <3>1. PICK d \in DOMAIN hooks : hooks[d].ref = ref /\ hooks[d].known /\ hooks[d].at = "receipt"
      BY <1>2, <1>4, <2>1, <2>3 DEF SuccessIsRecorded
    <3>2. ASSUME NEW e \in 1..MaxDeliveries, NEW n \in 0..2, ReceiptOffered(e, n), e = d
          PROVE  ref \in DOMAIN payments' /\ payments'[ref].state = "paid"
      <4>1. n = 2
        BY <1>2, <3>1, <3>2 DEF ReceiptOffered, Faulty
      <4>2. payments' = RecordPaid(ref) /\ ref \in DOMAIN payments
        BY <3>1, <3>2, <4>1 DEF ReceiptOffered, Called
      <4> HIDE DEF ref
      <4> QED BY <4>2, RecordFacts
    <3>3. ASSUME NEW e \in 1..MaxDeliveries, NEW n \in 0..2, ReceiptOffered(e, n), e # d
          PROVE  d \in DOMAIN hooks' /\ hooks'[d] = hooks[d]
      BY <3>1, <3>3 DEF ReceiptOffered, Emitting, Put, Without
    <3>4. ASSUME NEW e \in 1..MaxDeliveries, ReceiptRefused(e) \/ EmitCompleted(e)
          PROVE  d \in DOMAIN hooks' /\ hooks'[d] = hooks[d]
      BY <1>2, <3>1, <3>4 DEF ReceiptRefused, EmitCompleted, Faulty, Without
    <3>5. ASSUME NEW r \in Refs, NEW status \in {"SUCCESS", "FAILED"}, EcoCashCalls(r, status)
          PROVE  d \in DOMAIN hooks' /\ hooks'[d] = hooks[d]
      <4>1. d # Len(calls) + 1
        BY <3>1, <3>5, CallAdds DEF Called
      <4> QED BY <3>1, <3>5, <4>1 DEF EcoCashCalls, Put
    <3>6. ~Crash
      BY <1>2 DEF Crash, Faulty
    <3>7. \/ ref \in DOMAIN payments' /\ payments'[ref].state = "paid"
          \/ (d \in DOMAIN hooks' /\ hooks'[d] = hooks[d])
      <4> HIDE DEF ref
      <4> QED BY <3>2, <3>3, <3>4, <3>5, <3>6, Writers
    <3> QED BY <2>1, <3>1, <3>7
  <2> QED BY <2>2, <2>3
<1>5. CASE i \notin DOMAIN calls
  <2>1. PICK r \in Refs, status \in {"SUCCESS", "FAILED"} : EcoCashCalls(r, status)
    BY <1>5, Writers
  <2>2. /\ i = Len(calls) + 1 /\ calls'[i].ref = r /\ status = "SUCCESS"
        /\ r \in DOMAIN payments
    BY <1>5, <2>1, CallAdds
  <2>3. CASE Processed(r)
    BY <1>3, <2>2, <2>3 DEF Processed
  <2>4. CASE ~Processed(r)
    <3> DEFINE hook == [ref |-> r, known |-> r \in DOMAIN payments, at |-> "receipt"]
    <3>1. HasTables
      BY <2>2 DEF Linked, TakesPayments, HasTables
    <3>2. hooks' = Put(hooks, i, hook)
      BY <2>1, <2>2, <2>4, <3>1 DEF EcoCashCalls
    <3>3. hook.ref = r /\ hook.known /\ hook.at = "receipt"
      BY <2>2
    <3> HIDE DEF hook
    <3>4. i \in DOMAIN hooks' /\ hooks'[i] = hook
      BY <3>2 DEF Put
    <3> QED BY <2>2, <3>3, <3>4
  <2> QED BY <2>3, <2>4
<1> QED
  BY <1>4, <1>5

\* A payment whose calls come one after the other is offered one receipt.
LEMMA SequentialStep ==
    ASSUME TypeOK, Linked, Called, Sequential, [Next]_vars
    PROVE  Sequential'
<1> USE RowTypes
<1>1. Kept
  BY StepKeeps
<1> SUFFICES ASSUME faults' = 0, NEW ref \in Refs, InSequence(ref)'
             PROVE  OneHook(ref)' /\ OneOffer(ref)'
  BY DEF Sequential
<1>3. faults = 0
  BY FaultsGrow
<1>4. InSequence(ref)
  BY <1>1 DEF Kept, InSequence
<1>5. OneHook(ref) /\ OneOffer(ref)
  BY <1>3, <1>4 DEF Sequential
<1>6. ASSUME EcoCashCalls(ref, "SUCCESS") PROVE ~Handling(ref)
  BY <1>6, CallAdds DEF InSequence
<1>7. ASSUME NEW d \in DOMAIN hooks', hooks'[d].ref = ref
      PROVE  \/ /\ d \in DOMAIN hooks /\ hooks[d].ref = ref
                /\ hooks[d].at = "emit" => hooks'[d].at = "emit"
             \/ EcoCashCalls(ref, "SUCCESS") /\ d = Len(calls) + 1 /\ ~Processed(ref)
  <2>1. ASSUME d \in DOMAIN hooks, hooks'[d] = [hooks[d] EXCEPT !.at = "emit"]
        PROVE  hooks'[d].ref = hooks[d].ref /\ hooks'[d].at = "emit"
    BY <2>1 DEF Hook
  <2>2. ASSUME NEW r \in Refs, EcoCashCalls(r, "SUCCESS"), ~Processed(r), d = Len(calls) + 1,
               hooks'[d] = [ref |-> r, known |-> r \in DOMAIN payments, at |-> "receipt"]
        PROVE  EcoCashCalls(ref, "SUCCESS") /\ d = Len(calls) + 1 /\ ~Processed(ref)
    BY <1>7, <2>2
  <2> QED BY <1>7, <2>1, <2>2, HookMoves
<1>8. OneHook(ref)'
  BY <1>5, <1>6, <1>7 DEF OneHook, Handling
<1>9. ASSUME KnownOffers(ref)' = KnownOffers(ref) PROVE OneOffer(ref)'
  <2> SUFFICES ASSUME KnownOffers(ref) # {}
               PROVE  /\ ref \in DOMAIN payments' /\ payments'[ref].state = "paid"
                      /\ \A d \in DOMAIN hooks' : hooks'[d].ref = ref => hooks'[d].at = "emit"
    BY <1>5, <1>9 DEF OneOffer, State
  <2>1. ref \in DOMAIN payments /\ payments[ref].state = "paid"
    BY <1>5 DEF OneOffer, State
  <2>2. ASSUME NEW d \in DOMAIN hooks', hooks'[d].ref = ref PROVE hooks'[d].at = "emit"
    BY <1>5, <1>7, <2>1, <2>2 DEF OneOffer, Processed
  <2> QED BY <1>1, <2>1, <2>2 DEF Kept
<1>10. ASSUME NEW d \in 1..MaxDeliveries, NEW n \in 0..2, ReceiptOffered(d, n)
       PROVE  OneOffer(ref)'
  <2> DEFINE new == [ref |-> hooks[d].ref, call |-> d, known |-> hooks[d].known]
  <2>1. d \in DOMAIN hooks /\ hooks[d].at = "receipt" /\ offers' = offers \cup {new}
    BY <1>10 DEF ReceiptOffered
  <2>2. new.ref = hooks[d].ref /\ new.known = hooks[d].known
    OBVIOUS
  <2> HIDE DEF new
  <2>3. CASE hooks[d].ref # ref \/ ~hooks[d].known
    <3>1. KnownOffers(ref)' = KnownOffers(ref)
      BY <2>1, <2>2, <2>3 DEF KnownOffers
    <3> QED BY <1>9, <3>1
  <2>4. CASE hooks[d].ref = ref /\ hooks[d].known
    <3>1. KnownOffers(ref) = {}
      BY <1>5, <2>1, <2>4 DEF OneOffer
    <3>2. \A o, p \in KnownOffers(ref)' : o = p
      BY <2>1, <3>1 DEF KnownOffers
    <3>3. payments' = RecordPaid(ref)
      BY <1>3, <1>10, <2>4 DEF ReceiptOffered, Faulty
    <3>4. ref \in DOMAIN payments' /\ payments'[ref].state = "paid"
      BY <2>1, <2>4, <3>3, RecordFacts DEF Called
    <3>5. hooks' = Emitting(d) \/ hooks' = Without(hooks, {d})
      BY <1>10 DEF ReceiptOffered
    <3>6. ASSUME NEW e \in DOMAIN hooks', hooks'[e].ref = ref PROVE hooks'[e].at = "emit"
      <4>1. ~EcoCashCalls(ref, "SUCCESS")
        BY <1>6, <2>1, <2>4 DEF Handling
      <4>2. e \in DOMAIN hooks /\ hooks[e].ref = ref
        BY <1>7, <3>6, <4>1
      <4>3. e = d
        BY <1>5, <2>1, <2>4, <4>2 DEF OneHook
      <4> DEFINE row == [hooks[d] EXCEPT !.at = "emit"]
      <4>4. row.at = "emit"
        BY <2>1 DEF Hook
      <4>5. hooks' = Put(hooks, d, row) \/ hooks' = Without(hooks, {d})
        BY <3>5 DEF Emitting
      <4> HIDE DEF row
      <4> QED BY <3>6, <4>3, <4>4, <4>5 DEF Without, Put
    <3> QED BY <3>2, <3>4, <3>6 DEF OneOffer, State
  <2> QED BY <2>3, <2>4
<1>11. ASSUME UNCHANGED offers PROVE OneOffer(ref)'
  BY <1>9, <1>11 DEF KnownOffers
<1> QED
  BY <1>8, <1>10, <1>11, Writers

\* IInv holds at first, and every step keeps it.
LEMMA Inductive == Spec => []IInv
<1>1. Init => IInv
  <2> SUFFICES ASSUME Init PROVE IInv
    OBVIOUS
  <2>1. TypeOK
    BY CheckoutAssumption, EmptyType DEF Init, TypeOK
  <2>2. Linked /\ Called /\ Emits /\ ChargeIsRecorded
    BY EmptyType DEF Init, Linked, Called, Emits, ChargeIsRecorded
  <2>3. AnnouncedIsSettled /\ SuccessIsRecorded
    BY DEF Init, AnnouncedIsSettled, SuccessIsRecorded
  <2>4. Sequential
    BY EmptyType DEF Init, Sequential, OneHook, OneOffer, KnownOffers
  <2> QED BY <2>1, <2>2, <2>3, <2>4 DEF IInv
<1>2. IInv /\ [Next]_vars => IInv'
  BY TypeStep, LinkedStep, CalledStep, EmitsStep, AnnouncedStep, SuccessStep, SequentialStep
     DEF IInv
<1> QED
  BY <1>1, <1>2, PTL DEF Spec

\* Every row the handlers write is a row of its table.
THEOREM CheckoutTypeCorrect == Spec => []TypeOK
BY Inductive, PTL DEF IInv

\* A receipt row and a payment.completed event are of money EcoCash took, offered, and
\* recorded as paid if the payment was found: on every database, with any number of
\* carts, payments, webhook calls and faults.
THEOREM AnnouncementsAreSettled == Spec => []AnnouncedIsSettled
BY Inductive, PTL DEF IInv

\* While nothing fails, a payment whose webhook found it is paid once the call is over,
\* however calls repeat, overlap or report failures late.
THEOREM SuccessesAreRecorded == Spec => []SuccessIsRecorded
BY Inductive, PTL DEF IInv

\* A payment records the amount EcoCash was asked to take, and the cart; an invoiced cart
\* was charged, and while nothing fails no charge goes without its record where the
\* table takes one.
THEOREM ChargesAreRecorded == Spec => []ChargeIsRecorded
BY Inductive, PTL DEF IInv

\* However often EcoCash calls, and also after an attempt that failed, a payment
\* is offered one receipt, when its calls do not overlap and nothing fails.
THEOREM OneReceiptInOrder == Spec => []OneReceiptInSequence
<1>1. IInv => OneReceiptInSequence
  <2> SUFFICES ASSUME IInv, faults = 0, NEW ref \in Refs, InSequence(ref)
               PROVE  Cardinality(KnownOffers(ref)) <= 1
    BY DEF OneReceiptInSequence, InSequence
  <2>1. \A o, p \in KnownOffers(ref) : o = p
    BY DEF IInv, Sequential, OneOffer
  <2>2. CASE KnownOffers(ref) = {}
    BY <2>2, FS_EmptySet
  <2>3. CASE KnownOffers(ref) # {}
    <3>1. PICK o : KnownOffers(ref) = {o}
      BY <2>1, <2>3
    <3>2. Cardinality({o}) = 1
      BY FS_Singleton
    <3> QED BY <3>1, <3>2
  <2> QED BY <2>2, <2>3
<1> QED
  BY <1>1, Inductive, PTL

-----------------------------------------------------------------------------
(* The record of a payment follows PaymentLifecycle *)

\* One payment changes its state, the others do not.
LEMMA StateMoves ==
    ASSUME NEW r \in Refs, NEW to, State(r)' = to,
           \A x \in Refs : x # r => State(x)' = State(x)
    PROVE  [ref \in Refs |-> State(ref)]' = [[ref \in Refs |-> State(ref)] EXCEPT ![r] = to]
OBVIOUS

\* Every step moves the record as the lifecycle does, or leaves it.
LEMMA LifecycleStep ==
    ASSUME TypeOK, Linked, Called, [Next]_vars
    PROVE  [Lifecycle!Next]_(Lifecycle!vars)
<1> USE RowTypes
<1> DEFINE SameState == \A x \in Refs : State(x)' = State(x)
           SameSettled == {x \in Refs : "SUCCESS" \in Reports(x)}' =
                              {x \in Refs : "SUCCESS" \in Reports(x)}
<1>1. ASSUME SameState, SameSettled PROVE UNCHANGED Lifecycle!vars
  BY <1>1 DEF Lifecycle!vars
<1>2. ASSUME UNCHANGED provider PROVE SameSettled
  BY <1>2 DEF Reports
<1>3. ASSUME UNCHANGED payments PROVE SameState
  BY <1>3 DEF State
<1>4. ASSUME NEW r \in Refs, NEW n \in 0..2, InvoiceAnswered(r, n)
      PROVE  [Lifecycle!Next]_(Lifecycle!vars)
  <2>1. CASE n = 2 /\ TakesPayments
    <3>1. State(r) = "none"
      BY <1>4 DEF InvoiceAnswered, Linked, State
    <3>2. State(r)' = "pending" /\ \A x \in Refs : x # r => State(x)' = State(x)
      BY <1>4, <2>1 DEF InvoiceAnswered, NewPayment, Put, State
    <3>3. SameSettled
      BY <1>2, <1>4 DEF InvoiceAnswered
    <3>4. Lifecycle!Record(r)
      BY <3>1, <3>2, <3>3, StateMoves DEF Lifecycle!Record, Lifecycle!Move
    <3> QED BY <3>4 DEF Lifecycle!Next
  <2>2. CASE ~(n = 2 /\ TakesPayments)
    BY <1>1, <1>2, <1>3, <1>4, <2>2 DEF InvoiceAnswered
  <2> QED BY <2>1, <2>2
<1>5. ASSUME NEW r \in Refs, NEW status \in {"SUCCESS", "FAILED"}, EcoCashCalls(r, status)
      PROVE  [Lifecycle!Next]_(Lifecycle!vars)
  <2>1. SameSettled
    BY <1>2, <1>5 DEF EcoCashCalls
  <2>2. CASE UNCHANGED payments
    BY <1>1, <1>3, <2>1, <2>2
  <2>3. CASE /\ r \in DOMAIN payments /\ payments[r].state # "paid"
             /\ payments' = RecordFailed(r)
    <3>1. State(r) \in {"pending", "failed"}
      BY <2>3 DEF State, Payment
    <3>2. State(r)' = "failed" /\ \A x \in Refs : x # r => State(x)' = State(x)
      BY <2>3, RecordFacts DEF State
    <3>3. CASE State(r) = "pending"
      <4>1. Lifecycle!Fail(r)
        BY <2>1, <3>2, <3>3, StateMoves DEF Lifecycle!Fail, Lifecycle!Move
      <4> QED BY <4>1 DEF Lifecycle!Next
    <3>4. CASE State(r) = "failed"
      BY <1>1, <2>1, <3>2, <3>4
    <3> QED BY <3>1, <3>3, <3>4
  <2> QED BY <1>5, <2>2, <2>3 DEF EcoCashCalls, Processed
<1>6. ASSUME NEW d \in 1..MaxDeliveries, NEW n \in 0..2, ReceiptOffered(d, n)
      PROVE  [Lifecycle!Next]_(Lifecycle!vars)
  <2> PICK r \in Refs : r = hooks[d].ref
    BY <1>6 DEF ReceiptOffered, Hook
  <2>1. SameSettled
    BY <1>2, <1>6 DEF ReceiptOffered
  <2>2. CASE UNCHANGED payments
    BY <1>1, <1>3, <2>1, <2>2
  <2>3. CASE hooks[d].known /\ payments' = RecordPaid(r)
    <3>1. r \in DOMAIN payments /\ "SUCCESS" \in Reports(r)
      BY <1>6, <2>3 DEF ReceiptOffered, Called, Settled, Reports
    <3>2. State(r) \in {"pending", "failed", "paid"}
      BY <3>1 DEF State, Payment
    <3>3. State(r)' = "paid" /\ \A x \in Refs : x # r => State(x)' = State(x)
      BY <2>3, <3>1, RecordFacts DEF State
    <3>4. CASE State(r) \in {"pending", "failed"}
      <4>1. Lifecycle!Pay(r)
        BY <2>1, <3>1, <3>3, <3>4, StateMoves DEF Lifecycle!Pay, Lifecycle!Move
      <4> QED BY <3>1, <4>1 DEF Lifecycle!Next
    <3>5. CASE State(r) = "paid"
      BY <1>1, <2>1, <3>3, <3>5
    <3> QED BY <3>2, <3>4, <3>5
  <2> QED BY <1>6, <2>2, <2>3 DEF ReceiptOffered
<1>7. ASSUME NEW c \in Carts, NEW r \in Refs, CheckoutStart(c, r)
      PROVE  [Lifecycle!Next]_(Lifecycle!vars)
  <2>1. SameState
    BY <1>3, <1>7 DEF CheckoutStart
  <2>2. ASSUME NEW x \in Refs PROVE Reports(x)' = Reports(x)
    BY <1>7 DEF CheckoutStart, Put, Reports
  <2> QED BY <1>1, <2>1, <2>2
<1>8. ASSUME NEW r \in Refs, NEW status \in {"SUCCESS", "FAILED"}, ProviderReports(r, status)
      PROVE  [Lifecycle!Next]_(Lifecycle!vars)
  <2>1. SameState
    BY <1>3, <1>8 DEF ProviderReports
  <2>2. /\ "SUCCESS" \notin Reports(r)
        /\ Reports(r)' = Reports(r) \cup {status}
        /\ \A x \in Refs : x # r => Reports(x)' = Reports(x)
    <3> DEFINE row == [provider[r] EXCEPT !.reports = @ \cup {status}]
    <3>1. /\ r \in DOMAIN provider /\ "SUCCESS" \notin provider[r].reports
          /\ row.reports = provider[r].reports \cup {status}
          /\ provider' = Put(provider, r, row)
      BY <1>8 DEF ProviderReports, Request
    <3> HIDE DEF row
    <3> QED BY <3>1 DEF Put, Reports
  <2>3. CASE status = "SUCCESS"
    <3>1. Lifecycle!Settle(r)
      BY <2>1, <2>2, <2>3 DEF Lifecycle!Settle
    <3> QED BY <3>1 DEF Lifecycle!Next
  <2>4. CASE status = "FAILED"
    BY <1>1, <2>1, <2>2, <2>4
  <2> QED BY <2>3, <2>4
<1> HIDE DEF SameState, SameSettled
<1> QED
  BY <1>1, <1>2, <1>3, <1>4, <1>5, <1>6, <1>7, <1>8, Writers

\* The record of every payment goes none, pending, perhaps failed, paid, and is
\* paid only after EcoCash took the money.
THEOREM CheckoutImplementsLifecycle == Spec => ImplementsLifecycle
<1>1. Init => Lifecycle!Init
  BY EmptyType DEF Init, Lifecycle!Init, Reports, State
<1>2. IInv /\ [Next]_vars => [Lifecycle!Next]_(Lifecycle!vars)
  BY LifecycleStep DEF IInv
<1> QED
  BY <1>1, <1>2, Inductive, PTL DEF Spec, ImplementsLifecycle, Lifecycle!Spec
=============================================================================
