---------------------------- MODULE CartCheckout ----------------------------
(***************************************************************************)
(* A cart from its creation to its receipt: the cart endpoints and the     *)
(* checkout of src/src/controllers/whatsapp/WhatsAppPayloadController.ts,  *)
(* and src/src/controllers/webhooks/EcoCashWebhookController.ts, which     *)
(* EcoCash calls when it has taken the money.                              *)
(*                                                                         *)
(* Handlers interleave where they await an HTTP answer: a running checkout *)
(* is a row of `checkouts', a running webhook a row of `hooks'.  Between   *)
(* two awaits the database statements run in one step, but not in one      *)
(* transaction: n is how many of them ran before something went wrong.     *)
(*                                                                         *)
(* What the statements may do depends on the tables: migration 014, which  *)
(* no start of the server runs, creates ack_payments and                   *)
(* ack_payment_receipts without columns the code writes and with columns   *)
(* it leaves NULL, so that INSERTs into them throw every time.             *)
(***************************************************************************)
EXTENDS Integers, Sequences, FiniteSets, Tables

CONSTANTS Carts, Refs,      \* carts and the source references randomUUID draws
          Buyers,           \* values of body.buyerPhone being present
          Totals,           \* totals that quantities, checked nowhere, bring a cart to
          Databases,        \* databases the program may run on, see Database
          MaxDeliveries,    \* webhook calls EcoCash makes
          MaxFaults         \* refused offers, failed statements, crashes

ASSUME CheckoutAssumption ==
    /\ Buyers \subseteq BOOLEAN /\ Totals \subseteq Int
    /\ Databases \subseteq {"bare", "014", "payments", "receipts"}
    /\ MaxDeliveries \in Nat /\ MaxFaults \in Nat

VARIABLES database,     \* which tables there are, and with which columns
          carts,        \* the table carts
          payments,     \* the table ack_payments, by idempotency_key
          receipts,     \* payment_id of ack_payment_receipts, which is UNIQUE
          checkouts,    \* checkouts that run, by the reference they drew
          hooks,        \* webhook calls that run, by their number
          offers,       \* PaymentReceiptCredential offers made
          completed,    \* payment.completed events emitted
          provider,     \* what EcoCash was asked for, and what it reports
          calls,        \* webhook calls so far
          faults

vars == <<database, carts, payments, receipts, checkouts, hooks, offers, completed,
          provider, calls, faults>>

\* bare: no ack_ tables.  014: those of the migration.  payments: ack_payments with
\* the columns checkout writes.  receipts: both tables with the columns written.
HasTables     == database # "bare"
TakesPayments == database \in {"payments", "receipts"}
TakesReceipts == database = "receipts"

Cart     == [status: {"pending", "invoiced", "paid"}, total: Int, phone: BOOLEAN]
Payment  == [cart: Carts, amount: Int, state: {"pending", "failed", "paid"}]
Checkout == [cart: Carts, total: Int, at: {"ecocash", "invoice"}]
Hook     == [ref: Refs, known: BOOLEAN, at: {"receipt", "emit"}]
Offer    == [ref: Refs, call: Nat, known: BOOLEAN]
Call     == [ref: Refs, status: {"SUCCESS", "FAILED"}, found: BOOLEAN, alone: BOOLEAN]
Request  == [cart: Carts, amount: Int, reports: SUBSET {"SUCCESS", "FAILED"}]

TypeOK ==
    /\ IsTable(carts, Carts, Cart) /\ IsTable(payments, Refs, Payment)
    /\ IsTable(checkouts, Refs, Checkout) /\ IsTable(hooks, Nat, Hook)
    /\ IsTable(provider, Refs, Request)
    /\ receipts \in SUBSET Refs /\ offers \in SUBSET Offer /\ completed \in SUBSET Nat
    /\ calls \in Seq(Call)
    /\ database \in Databases /\ faults \in 0..MaxFaults

Init ==
    /\ database \in Databases
    /\ carts = EmptyTable /\ payments = EmptyTable /\ receipts = {}
    /\ checkouts = EmptyTable /\ hooks = EmptyTable
    /\ offers = {} /\ completed = {}
    /\ provider = EmptyTable /\ calls = <<>> /\ faults = 0

\* Something outside the handler's control went wrong, or nothing did.
Faulty(wrong) == /\ wrong => faults < MaxFaults
                 /\ faults' = IF wrong THEN faults + 1 ELSE faults

-----------------------------------------------------------------------------
(* The cart.  The total stands for the items, which change with it.         *)

\* createCartFromPayload, but for the reservation it asks Inventory for.
CreateCart(c, phone, total) ==
    /\ c \notin DOMAIN carts
    /\ carts' = Put(carts, c, [status |-> "pending", total |-> total, phone |-> phone])
    /\ UNCHANGED <<database, payments, receipts, checkouts, hooks, offers, completed,
                   provider, calls, faults>>

\* addItemToCart looks at no status, and not at the sign of the quantity.
AddItemToCart(c, total) ==
    /\ c \in DOMAIN carts
    /\ carts' = Put(carts, c, [carts[c] EXCEPT !.total = total])
    /\ UNCHANGED <<database, payments, receipts, checkouts, hooks, offers, completed,
                   provider, calls, faults>>

Open(c) == c \in DOMAIN carts /\ carts[c].status = "pending"

\* sendReceiptToWhatsApp, an endpoint open to anyone, for any cart with a phone
\* number: it looks at no payment.  If a message is not sent nothing changes.
SendReceipt(c) ==
    /\ c \in DOMAIN carts /\ carts[c].phone
    /\ carts' = Put(carts, c, [carts[c] EXCEPT !.status = "paid"])
    /\ UNCHANGED <<database, payments, receipts, checkouts, hooks, offers, completed,
                   provider, calls, faults>>

-----------------------------------------------------------------------------
(* checkout *)

\* Up to the request to EcoCash: the cart is read, and never read again.
CheckoutStart(c, ref) ==
    /\ Open(c)
    /\ ref \notin DOMAIN provider
    /\ checkouts' = Put(checkouts, ref, [cart |-> c, total |-> carts[c].total, at |-> "ecocash"])
    /\ provider' = Put(provider, ref, [cart |-> c, amount |-> carts[c].total, reports |-> {}])
    /\ UNCHANGED <<database, carts, payments, receipts, hooks, offers, completed, calls,
                   faults>>

\* EcoCash answers, or the call times out and the checkout simulates it.
EcoCashAnswered(ref) ==
    /\ ref \in DOMAIN checkouts /\ checkouts[ref].at = "ecocash"
    /\ checkouts' = Put(checkouts, ref, [checkouts[ref] EXCEPT !.at = "invoice"])
    /\ UNCHANGED <<database, carts, payments, receipts, hooks, offers, completed, provider,
                   calls, faults>>

\* The row of a payment that waits for its webhook; and a slip: the total as it is
\* by now.
NewPayment_TotalNow(checkout) ==
    [cart |-> checkout.cart, amount |-> carts[checkout.cart].total, state |-> "pending"]
NewPayment(checkout) ==
    [cart |-> checkout.cart, amount |-> checkout.total, state |-> "pending"]

\* The InvoiceVC is offered (n >= 1: UPDATE carts; 2: INSERT payment, which may
\* throw for its columns) or not.  The WhatsApp messages that follow, and are not
\* sent if a statement threw, change no table.
InvoiceAnswered(ref, n) ==
    /\ ref \in DOMAIN checkouts /\ checkouts[ref].at = "invoice"
    /\ Faulty(n < 2)
    /\ LET c == checkouts[ref].cart
       IN carts' = IF n >= 1 THEN Put(carts, c, [carts[c] EXCEPT !.status = "invoiced"])
                   ELSE carts
    /\ payments' = IF n = 2 /\ TakesPayments
                   THEN Put(payments, ref, NewPayment(checkouts[ref])) ELSE payments
    /\ checkouts' = Without(checkouts, {ref})
    /\ UNCHANGED <<database, receipts, hooks, offers, completed, provider, calls>>

-----------------------------------------------------------------------------
(* EcoCash, as the callback lets us see it: an attempt that failed may be    *)
(* repeated with the same reference; a report may be delivered late, twice   *)
(* or not at all.                                                            *)
ProviderReports(ref, status) ==
    /\ ref \in DOMAIN provider /\ "SUCCESS" \notin provider[ref].reports
    /\ provider' = Put(provider, ref, [provider[ref] EXCEPT !.reports = @ \cup {status}])
    /\ UNCHANGED <<database, carts, payments, receipts, checkouts, hooks, offers,
                   completed, calls, faults>>

-----------------------------------------------------------------------------
(* handleEcoCashWebhook *)

\* Slips of the idempotency check: it asks for the receipt, not the state; for
\* a state no payment ever has.
Processed_HasReceipt(ref) == ref \in receipts
Processed_Completed(ref) == ref \in DOMAIN payments /\ payments[ref].state = "completed"

\* The idempotency check.
Processed(ref) == ref \in DOMAIN payments /\ payments[ref].state = "paid"

WithState(ref, state) == Put(payments, ref, [payments[ref] EXCEPT !.state = state])

\* The UPDATE of a paid payment; and a slip, with a WHERE state = 'pending'.
RecordPaid_IfPending(ref) ==
    IF payments[ref].state = "pending" THEN WithState(ref, "paid") ELSE payments
RecordPaid(ref) == WithState(ref, "paid")

\* The UPDATE of a failed payment.
RecordFailed(ref) == WithState(ref, "failed")

\* A call for this payment is being handled.
Handling(ref) == \E d \in DOMAIN hooks : hooks[d].ref = ref

\* Up to the request for the receipt offer, or to the answer; without the tables
\* the lookup throws.
EcoCashCalls(ref, status) ==
    LET found == ref \in DOMAIN payments
        goes  == HasTables /\ ~Processed(ref)
    IN /\ ref \in DOMAIN provider /\ status \in provider[ref].reports
       /\ Len(calls) < MaxDeliveries
       /\ calls' = Append(calls, [ref |-> ref, status |-> status, found |-> found,
                                  alone |-> ~Handling(ref)])
       /\ hooks' = IF goes /\ status = "SUCCESS"
                   THEN Put(hooks, Len(calls) + 1, [ref |-> ref, known |-> found, at |-> "receipt"])
                   ELSE hooks
       /\ payments' = IF goes /\ status = "FAILED" /\ found THEN RecordFailed(ref) ELSE payments
       /\ UNCHANGED <<database, carts, receipts, checkouts, offers, completed, provider,
                      faults>>

\* The receipt is not offered: logged, and acknowledged "to prevent retries".
ReceiptRefused(d) ==
    /\ d \in DOMAIN hooks /\ hooks[d].at = "receipt"
    /\ Faulty(TRUE)
    /\ hooks' = Without(hooks, {d})
    /\ UNCHANGED <<database, carts, payments, receipts, checkouts, offers, completed,
                   provider, calls>>

Emitting(d) == Put(hooks, d, [hooks[d] EXCEPT !.at = "emit"])

\* The INSERT of a receipt throws for its columns or its UNIQUE payment_id.
ReceiptTaken(ref) == TakesReceipts /\ ref \notin receipts

\* The receipt is offered.  For a payment found before the request: UPDATE
\* payment, INSERT receipt; a throw is logged and acknowledged.  The issuer's answer
\* has no offerUrl and no credentialOffer, so receiptOfferUrl is undefined and
\* send-receipt is never called.
ReceiptOffered(d, n) ==
    LET ref == hooks[d].ref
        row == n = 2 /\ ReceiptTaken(ref)
    IN /\ d \in DOMAIN hooks /\ hooks[d].at = "receipt"
       /\ offers' = offers \cup {[ref |-> ref, call |-> d, known |-> hooks[d].known]}
       /\ IF hooks[d].known
          THEN /\ Faulty(n < 2)
               /\ payments' = IF n >= 1 THEN RecordPaid(ref) ELSE payments
               /\ receipts' = IF row THEN receipts \cup {ref} ELSE receipts
               /\ hooks' = IF row THEN Emitting(d) ELSE Without(hooks, {d})
          ELSE /\ n = 2 /\ hooks' = Emitting(d)
               /\ UNCHANGED <<payments, receipts, faults>>
       /\ UNCHANGED <<database, carts, checkouts, completed, provider, calls>>

\* The workflow has run, and payment.completed is emitted.
EmitCompleted(d) ==
    /\ d \in DOMAIN hooks /\ hooks[d].at = "emit"
    /\ completed' = completed \cup {d}
    /\ hooks' = Without(hooks, {d})
    /\ UNCHANGED <<database, carts, payments, receipts, checkouts, offers, provider,
                   calls, faults>>

-----------------------------------------------------------------------------
\* The process dies: what runs is gone, the tables stay.
Crash ==
    /\ Faulty(TRUE)
    /\ checkouts' = EmptyTable /\ hooks' = EmptyTable
    /\ UNCHANGED <<database, carts, payments, receipts, offers, completed, provider, calls>>

\* The endpoints anyone may call, in any order.
Caller == \E c \in Carts :
    \/ \E phone \in Buyers, total \in Totals : CreateCart(c, phone, total)
    \/ \E total \in Totals : AddItemToCart(c, total)
    \/ \E ref \in Refs : CheckoutStart(c, ref)
    \/ SendReceipt(c)

Provider == \E ref \in Refs, status \in {"SUCCESS", "FAILED"} :
    ProviderReports(ref, status) \/ EcoCashCalls(ref, status)

\* The steps of the handlers that run.
CheckoutStep(ref) == EcoCashAnswered(ref) \/ \E n \in 0..2 : InvoiceAnswered(ref, n)

HookStep(d) == \/ ReceiptRefused(d) \/ EmitCompleted(d)
               \/ \E n \in 0..2 : ReceiptOffered(d, n)

Answers == \/ \E ref \in Refs : CheckoutStep(ref)
           \/ \E d \in 1..MaxDeliveries : HookStep(d)

Next == Caller \/ Provider \/ Answers \/ Crash

Spec == Init /\ [][Next]_vars

\* Every request the program makes is answered, one way or another.
FairSpec == /\ Spec
            /\ \A ref \in Refs : WF_vars(CheckoutStep(ref))
            /\ \A d \in 1..MaxDeliveries : WF_vars(HookStep(d))

-----------------------------------------------------------------------------
(* Properties.  None relates the status `paid' of a cart to a payment: the   *)
(* program does not.                                                         *)

Reports(ref) == IF ref \in DOMAIN provider THEN provider[ref].reports ELSE {}
State(ref)   == IF ref \in DOMAIN payments THEN payments[ref].state ELSE "none"

Lifecycle == INSTANCE PaymentLifecycle WITH
    settled <- {ref \in Refs : "SUCCESS" \in Reports(ref)},
    state   <- [ref \in Refs |-> State(ref)]

\* The record of a payment goes none, pending, perhaps failed, paid: it is paid
\* only after EcoCash took the money, and a late FAILED report or a second
\* webhook does not change it again, whatever fails and however handlers mix.
ImplementsLifecycle == Lifecycle!Spec

\* What is announced was settled: payment.completed is emitted by a call that offered
\* a receipt of money EcoCash took, and if the call found the payment, it is
\* recorded as paid, for good, and the receipt in the table is one offered for it.
\* So where INSERT receipt throws, no payment that is found is ever announced.
AnnouncedIsSettled ==
    /\ \A ref \in receipts : State(ref) = "paid" /\ \E o \in offers : o.ref = ref /\ o.known
    /\ \A d \in completed :
           LET ref == calls[d].ref
           IN /\ "SUCCESS" \in Reports(ref) /\ \E o \in offers : o.ref = ref /\ o.call = d
              /\ calls[d].found => State(ref) = "paid" /\ ref \in receipts /\ TakesReceipts

\* The offers of a payment whose row the webhook found.
KnownOffers(ref) == {o \in offers : o.ref = ref /\ o.known}

\* "Validate idempotency via sourceReference": a payment is offered one receipt.
OneReceiptPerPayment == \A ref \in Refs : Cardinality(KnownOffers(ref)) <= 1

\* The idempotency check does so when no two calls for the payment overlap and
\* nothing fails: however often EcoCash calls, also after a failed attempt.
OneReceiptInSequence ==
    faults = 0 => \A ref \in Refs :
        (\A i \in DOMAIN calls : calls[i].ref = ref => calls[i].alone)
          => Cardinality(KnownOffers(ref)) <= 1

\* Money is not forgotten: when EcoCash has delivered a SUCCESS and nothing failed, the
\* payment is recorded as paid or the webhook waits for the receipt offer; what
\* stays pending or failed is a payment every such call of which came before the
\* checkout had written its row.
SuccessIsRecorded ==
    faults = 0 => \A i \in DOMAIN calls :
        calls[i].status = "SUCCESS" /\ calls[i].found =>
            \/ State(calls[i].ref) = "paid"
            \/ \E d \in DOMAIN hooks :
                   hooks[d].ref = calls[i].ref /\ hooks[d].known /\ hooks[d].at = "receipt"

\* When a webhook found its payment, then in the end it is paid if nothing goes wrong,
\* also after an attempt that failed, and when two webhooks race; and where the
\* table takes receipts, it has one and payment.completed was emitted for it.
KnownSuccessIsSettled ==
    \A ref \in Refs :
        (\E d \in DOMAIN hooks : hooks[d].ref = ref /\ hooks[d].known)
          ~> \/ faults > 0
             \/ /\ State(ref) = "paid"
                /\ TakesReceipts => /\ ref \in receipts
                                    /\ \E d \in completed : calls[d].ref = ref

\* A payment records what EcoCash was asked to take, and for which cart, although
\* items may be added while the checkout waits.  EcoCash was asked for a payment of
\* every invoiced cart; and a checkout that is over left the record of it, unless a
\* statement, an offer or the process failed, or the table has other columns.
ChargeIsRecorded ==
    /\ \A ref \in DOMAIN payments :
          /\ payments[ref].amount = provider[ref].amount
          /\ payments[ref].cart = provider[ref].cart
    /\ \A c \in DOMAIN carts : carts[c].status = "invoiced" =>
          \E ref \in DOMAIN provider : provider[ref].cart = c
    /\ faults = 0 /\ TakesPayments =>
          \A ref \in DOMAIN provider : ref \in DOMAIN payments \/ ref \in DOMAIN checkouts
=============================================================================
