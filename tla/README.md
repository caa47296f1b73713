# Credo Controller in TLA+

This directory specifies the parts of Credo Controller that keep business state
of their own: the stock ledger and the receipts issued over it, the cart and its
payment, the workflow engine with its triggers, payroll, onboarding, leave and
expenses, the registry of issued credentials, wallet registration, the sessions
of tenant agents, consent, trust scores and the migration of the database. Each
module is written from the code it names, checked with TLC on small instances,
and proved with TLAPS for instances of any size: every safety property that a run
checks is a theorem, and only liveness is not.

    tlc -config MCCommerce_sales.cfg MCCommerce.tla      # a run
    tlapm CommerceProofs.tla                             # proofs; also of
    tlapm CartCheckoutProofs.tla                         # TenancyProofs,
    tlapm WorkflowEngineProofs.tla                       # RegulationProofs,
    tlapm PeopleProofs.tla                               # WorkflowTriggersProofs and
                                                         # WalletExchangeProofs

`PROJECT.json` maps every definition to its source lines and lists the runs, the
seeded mutants each property must catch, the hazards of the code, the findings
and the theorems.

## 1. The system

Credo Controller is one Node process: an Express server (tsoa controllers) over
one SQLite database (better-sqlite3, synchronous) and the Credo library, which
holds wallets, DIDs and credential exchanges. It calls itself and others over
HTTP. Two rules follow, and every module relies on them:

* one thread: code between two awaits that really wait (HTTP, the wallet,
  timers) is not interleaved with other handlers; `await` on a function that
  does no I/O lets no other request in between;
* no transaction unless the code opens one: a handler of three statements may
  stop after the first, because one threw or because the process died. (The
  migration runner and `calculatePayrollRun` do open one.)

### 1.1 Components

| component | state | operations | talks to |
|---|---|---|---|
| Inventory ledger (`InventoryService`) | lots, allocations, events (hash chain per tenant, item and location), projections | receiveGoods, reserveStock, fulfillSale, verifyEventChain, traceReceipt | cart creation reserves; credential offers anchor events |
| Finance endpoints (`FinanceController`) | none | issueReceipt: sell what a cart reserved, offer a receipt | inventory, issuer |
| Cart and checkout (`WhatsAppPayloadController`) | carts, ack_payments | create cart, add item, checkout, send receipt | inventory, issuer, EcoCash, WhatsApp |
| EcoCash webhook (`EcoCashWebhookController`) | ack_payments, ack_payment_receipts | the callback | issuer, workflow engine, triggers |
| Workflow engine (`WorkflowService`, `WorkflowRunRepository`) | workflows, workflow_runs, workflow_steps; the loop of each run in memory | execute, resume, call a sub-workflow, register, delete | actions |
| Triggers (`TriggerService`) | workflow_triggers; cron jobs and event listeners in memory | initialize, create, switch, delete; webhook, cron and event firings | the engine |
| Payroll and payout (`PayrollService`, `PayoutService`) | employees, payroll_runs, payslips, tax_compliance | calculate a run, issue payslips, file taxes, pay out | issuer |
| Onboarding (`OnboardingService`) | onboarding_requests | create, progress, approve | payroll (employees), issuer |
| Leave and expenses (`OperationsService`, `AuditService`) | leave_requests, expense_claims, audit_logs; audit entries waiting in `setImmediate` | create, set the status | issuer |
| Credential registry (`cliAgent`, `IssuedCredentialRepository`, OIDC controllers) | issued_credentials | offer, issue, revoke, verify a presentation | the Credo library, wallets |
| Registration and tenants (`WalletAuthController`, `MultiTenancyController`, `TenantProvisioningService`) | tenants, wallet_users, login_challenges, the agent's tenants, issuer metadata cache | register, create and delete a tenant, log in by DID | the Credo agent |
| Sessions (`authentication`, `cliAgent`, `ProofEvents`) | open sessions of tenant agents, limited in number | open for a token, for a handler, for a proof event; end with the response | the Credo agent |
| Wallet requests (`WalletController`, `WalletCredentialsController`) | the global `fetch`, metadata cache, wallets | resolve, use and accept offers | sessions, the Credo library |
| Migrations (`DatabaseManager`) | schema_migrations | run at start | all tables |
| Consent (`ConsentRepository`, `ConsentActions`) | consent_records | capture, verify, revoke, expire | workflow actions |
| Trust (`TrustEngine`, `TrustRepository`) | trust_events, trust_scores | record, score, serve from the cache | workflow actions, escalations |
| OIDC metadata, agents, DIDs, AnonCreds, Polygon | kept by the Credo library | wrappers | the library |
| Status lists, catalogue, providers, schemas, reporting, user interfaces | independent rows, or none | create, read, update | |

### 1.2 What is hard about it

* *Read, await, write.* The webhook reads a payment, offers a receipt over HTTP
  and then writes; checkout, onboarding approval, leave and expense
  decisions, payslip issuance and the verification of presentations do the same.
* *Statements without a transaction.* Every loop of the inventory writes four
  tables per turn; registration goes through an agent, a wallet and two tables.
* *Unreliable callers.* EcoCash may repeat a callback, delay it, send FAILED and
  later SUCCESS, or call before checkout has stored the payment. Clients hang up.
* *Memory beside tables.* Cron jobs, listeners and executing runs live in memory;
  the tables outlive them, and `ON DELETE CASCADE` removes rows memory still
  refers to. Sessions and the wrapper around `fetch` outlive their requests.
* *Derived data.* Projections, the hash chain, last-event pointers, payroll totals
  and cached scores repeat what other rows already say.
* *A limited resource taken twice.* A request holds one session of a tenant agent
  and waits for another.

The list with lines is under `hazards` in `PROJECT.json`; a hazard names the
properties that cover it and notes the conditions they carry.

### 1.3 What makes each component correct

* Inventory: no unit is promised twice, and what is promised is on hand; ledger,
  lots and projections agree; the chain has no gap, fork or wrong link; a receipt
  lists the sales made under it and traces back to the goods it sold.
* Cart and payment: a payment is paid only when the provider took the money and
  stays so; what is announced was settled; money EcoCash reports for a payment that
  is there is recorded; a repeated callback does nothing; what is recorded is what was
  charged. Nothing relates the status `paid` of a cart to a payment (section 5).
* Engine: steps are executed in order and once; a record says running exactly
  while the run executes; a parent waits for its sub-workflow; runs end.
* Triggers: memory agrees with the active rows through changes and restarts;
  events reach every listener; nothing inactive fires.
* Payroll, onboarding, operations: a stored credential id is that of an offer made
  for that row; offers are repeated only where calls overlapped or an answer was
  lost; totals, filings and payouts follow from payslips; the audit log ends with
  the decision in the row.
* Registry: a verification that begins after a revocation does not accept the
  credential.
* Registration: a user has a provisioned wallet of their own; what is announced
  of an organisation exists; a refused registration leaves nothing it could remove.
* Sessions and wallet requests: a session that stays open, a wrapper that stays
  around `fetch` and a credential that is nowhere all have a known cause; every
  request ends.
* Migrations: a start that says it is finished has dealt with every version, and
  a start never trips over what an earlier one left half-way.
* Consent and trust: a verification rests on consent in force; a served score
  misses no event older than the age its caller asked for, and events move it the
  right way.

## 2. Modules

| module | models | abstract specification |
|---|---|---|
| `Tables` | a table as a function from keys to rows: `Put`, `Without` | |
| `Inventory` | `InventoryService.ts` | |
| `Commerce` | `FinanceController.issueReceipt` over `Inventory` | |
| `CartCheckout` | `WhatsAppPayloadController.ts`, `EcoCashWebhookController.ts` | `PaymentLifecycle` |
| `WorkflowEngine` | `WorkflowService.ts` and its repositories | `WorkflowRuns` |
| `WorkflowTriggers` | `TriggerService.ts` | |
| `CredentialIssuer` | `CredentialIssuanceService.createOffer`, as its callers see it | |
| `Payroll`, `Statutory` | `PayrollService.ts`, `PayoutService.ts`, the statutory plugins | |
| `Hr` | `OnboardingService.ts`, `OperationsService.ts`, `AuditService.logAction` | |
| `IssuedCredentials` | the registry of issued credentials, revocation, verification | |
| `People` | `Payroll`, `Hr` and `IssuedCredentials` in one process | `OfferLedger` |
| `Tenancy` | registration, tenants and the login by DID | |
| `TenantSessions` | who holds and who waits for a session of a tenant agent | |
| `WalletExchange` | wallet requests over `TenantSessions` | |
| `Migrations` | `DatabaseManager.ts` over `src/migrations` | |
| `Consent`, `Trust`, `TrustScores` | consent records, both trust services, their scores | |
| `Regulation` | `Consent` and `Trust` on one clock | |
| `...Proofs` | theorems, each module with the lemmas it needs | |
| `MC...` | instances for TLC (`Migrations` needs none) | |

Conventions. An operator named `X_Slip` beside `X` is a plausible mistake in
`X`; it is used by no specification and exists so that each property can be
shown to catch one. Identifiers drawn by `randomUUID` are members of a finite
set, or the next number, and are never drawn twice. Counters (`faults`,
`failures`, `started`) bound what a behaviour may contain; `MaxFaults`,
`MaxFailures`, `MaxCalls` and their like name the bounds.

### 2.1 Inventory and Commerce

`lots`, `allocs`, `events` and `proj` are the tables; `events` is in insertion
order. The hash of an event stands for its position in `events`, because ids make
hashed contents distinct; an event also carries the set of JSON keys its hash
covers, which is what verification depends on. `receiveGoods` is one action.
`reserveStock` and `fulfillSale` loop over lines and allocations: `job` is the
handler inside its loop, `ReserveLine` and `FulfillAllocation` one turn of it.
The awaited helpers inside the loop do no I/O, so no other action is enabled
while `job` is set, except a crash. The parameter `n` of these actions is how
many of the turn's statements ran; `n` below the last is a fault, counted in
`faults`. Answers of `createOffer` come later, in any order, or never
(`OfferAnswered`).

Quantities and costs are any integers, for the REAL columns: no controller and no
service checks a sign, so a reservation of -5 takes 5 off `quantity_reserved`. What a
property says of promises that hold is therefore conditional on what was asked for:
`ReservationsBacked` bounds what a lot has promised where the lot came with no less than
nothing and none of its allocations is of a negative quantity (`Unsigned`), and
`ReceiptsListSales` bounds what receipts list of a lot by the same condition. Sums are
`Net`: the total of the positive rows less that of the negative ones.
`avg_unit_cost` is a pair of numerator and
denominator. `received_at` is a small number; receipts arrive in time order,
as the column is the time of the insert. `VerifyLimit` stands for the 10000 events
`verifyEventChain` reads. The tables are those of `013_create_inventory.sql`
(the migration runner does not list that file: the model assumes a database
in which it was applied).

`Commerce` adds `POST receipts/issue`, the only caller of `fulfillSale`. A call is
in the loop of the sale, waiting for the offer of the sale, or waiting for the
offer of the receipt (`requests`); `issued` is what each offered receipt lists. A
sale that fails is logged, and the receipt is offered with nothing on it.

### 2.2 CartCheckout

One cart's life from creation to receipt. A handler is split exactly where it
awaits HTTP: checkout at EcoCash and at the invoice offer, the webhook at the receipt
offer and before the event. `provider` is EcoCash: it has been asked for an
amount and reports FAILED any number of times and SUCCESS once; each report may be
delivered several times, late, or never (`calls`). The PENDING callback changes
nothing and is left out. The charge that times out is simulated by the code and
goes on as if answered, so both answers are one action. The quote endpoint offers a
credential and is left out too: its UPDATE names `quote_offer_url`, a column `carts`
does not have. Totals are any integers, since quantities are.

`SendReceipt` is the endpoint `cart/{id}/send-receipt`. It asks for no token and looks
at no payment: any caller marks any cart with a phone number paid. The webhook would
call it if the issuer's answer had an `offerUrl` or `credentialOffer`
(`controllers/webhooks/EcoCashWebhookController.ts:113`, `:139`); the answer has
`credential_offer_url` and `credential_offer_uri`
(`controllers/oidc/OidcIssuerController.ts:242`), so it never does.

No migration that runs at start creates the two tables of payments, and those of 014 are
not the ones the code writes to. `database` says what the program finds: `bare`, no such
tables, every lookup throws; `014`, the tables of that file, whose columns make each INSERT
of a payment and of a receipt throw; `payments`, a table of payments with the columns
checkout writes beside the receipts of 014; `receipts`, both as the code writes them.

`PaymentLifecycle` is what the record of a payment promises; `ImplementsLifecycle`
is the refinement, with `settled` the references EcoCash reported as successful.

### 2.3 WorkflowEngine

A run whose loop is in memory is a row of `fibers`, with the actions it read when
it started; `runs` and `steps` are what it has written. `StartAction` writes the
step, the index and the status and calls the action; the await ends in
`ActionReturns`, `ActionThrows` or `ActionPauses`. While a loop is between two
awaits no request is handled (`Settled`), but the process may die, also between two of
the statements of one action, each of which commits by itself: `DiesAfterCreateRun`
leaves a run pending, `DiesAfterCreateStep` a pending step, ahead of `current_step` or
not, `DiesAfterFailStep` a failed step of a run that is marked running, and `DiesClean`
nothing half written. These are the only exceptions of `StepLog`, and a run that shows
one never changes again unless it is deleted. `state` is
the set of steps whose output the shared context holds. A workflow action is a
name: plain, unknown, one that throws WORKFLOW_PAUSE (the shipped actions do not,
the registry lets extensions do so), or `workflow.trigger` with the id of
another workflow. A workflow that triggers itself, directly or through others, makes the
code recurse without end; the theorems about safety cover it, the run and `RunsEnd` do
not, as its definitions (`Short`) have none. `WorkflowRuns` is what readers of a run's
record may rely on; `ImplementsWorkflowRuns` is the refinement.

### 2.4 WorkflowTriggers

Rows in `triggers`, cron jobs in `jobs`, listeners in `listeners`. Each operation
of the service touches table and memory between two awaits, so it is one action.
The controllers create triggers active. A trigger with an invalid cron expression
is stored and never armed (`valid`). Deleting a workflow removes the rows of its
triggers by the foreign key and leaves memory alone, as the code does.

### 2.5 People: payroll, onboarding, operations, registry

All four modules extend `CredentialIssuer`: `offers` is every credential offer in
order, `Offered` an answer of `createOffer`, `Refused` an exception, which may come
after the offer was made (the session is closed in a `finally`), so that nobody
knows of it (`lost`). An offer also says how many there were when its caller read
what it acts on (`since`), which is how properties tell calls that overlapped from
calls in sequence.

A handler runs to its next await in one step; what it has read is in its row of
`calls`. `Payroll`: an issuance has the payslips it read (`seen`) and those it has
not come to (`todo`); a payout waits once per payslip; `calculatePayrollRun` is one
transaction and one action. `Statutory` is the deductions in cents, as functions.
`Hr`: an approval waits for its offer and writes status and reference when it
has it; `queue` is the audit entries `setImmediate` will write. `IssuedCredentials`:
a session of offers has one row, however many credentials it offers; the library
calls the mapper when a wallet asks; `checks` is presentations whose verification
awaits the library, and `verdicts` what was answered, with the length of `history`
at which the answer looked.

`People` puts them in one process: they share `employees`, `offers` and crashes.
`OfferLedger` is what rows that carry a credential promise: an offer is made for
one holder, is never undone, and a holder refers only to an offer made for it, from
the step in which it was made. `ImplementsLedger` is the refinement, with the six
kinds of rows as holders.

### 2.6 Tenancy

A registration is a saga: `calls` says which await it is at (create the tenant, its
DID, the issuer and verifier records, closing the session, the user, or the cleanup
in the catch). `agent` is the agent's tenants with the generic records of their
wallets, `rows` and `users` the tables, `cache` the one entry of the metadata
cache, since all tenants share the public base URL. An administrator creates and
deletes tenants meanwhile. The login by DID reads the nonce, awaits the resolution
and the signature, and then looks for the user.

### 2.7 TenantSessions and WalletExchange

Ten kinds of handlers are written as scripts of the awaits that matter: `open` and
`close` a session, `await` something else, and steps with effects of their own
(`metadata`, `override`, `resolve`, `announce`, `redeem`, `store`). A request that
brings a token waits for a session for the whole request (`asking`); one that brings
an API key as well is admitted at once, and the session of its token may come when
it is over. `Throw` ends a handler, or goes on behind the catch it is in (`Caught`),
and `Tidy` are the handlers that end their sessions in any case. `blame` records
what was special about a call or went wrong with it, and never changes what a call
does; the properties use it to name the cause of what is left behind.

`fetch` is the wrappers around the global `fetch`, outermost first; a request
inside `withScopedIssuerFetch` restores what it found (`original`). `redeemed` and
`held` are the offers whose code was used and the wallets their credentials are in; an
offer is of one credential. `useOfferRequest` looks for an issuer record to answer the
metadata from in the wallet of the base agent
(`controllers/wallet/WalletController.ts:647`); provisioning saves such records in the
wallets of tenants, but the branch is kept: `override` is a step of its script as of that
of `resolveCredentialOffer`. `Skipped` are the offers whose credential comes in a form
it does not store (`:788`, `:805`, `:820`): a string, or a record of a JWT that has no
`credential`. It passes over them without an exception and answers success.

### 2.8 Migrations

`run` is the runner: the next of the twelve listed files and the version it read
when it began. A script inserts its own version or does not (`Records`; three do).
Of a script only what makes it, or another one, fail is kept: statements that cannot
run twice, the column added to a table the wallet repository may have created
first, the index on a column that 015 has not. `trust` says which script created the trust
tables; nothing changes that afterwards (`ShapeIsFixed`). A failed script is rolled
back; the runner stops, the server goes on, and the next start begins anew.

### 2.9 Regulation

Times are minutes. `Consent` has the query of `findActiveConsent` with its order,
the revocation and the sweep. `Trust` has both services that call their tables
trust_events and trust_scores: `shape` says whose migration came first, and every
statement of the other one throws. It is a variable no step changes, because the
columns are decided by the first of 007 and 015 that runs (4.4). Scores are exact
fractions, computed by `TrustScores` from a tally of the events; a computation answers
the score rounded to a tenth and caches it unrounded, as the code does. A caller of `GET
{merchantId}` says how old a cached score it takes (`Ages`; 60 minutes if it says
nothing or 0, which is also what the trust card and the evidence package ask for). A
review carries any rating (`Ratings`): a missing one or 0 counts three stars, any other
as it is. Merchants may have a past (`Histories`), and `logged` counts the events
recorded since. `ScoreRead` of the repository works in minutes, so parts of a day count,
and answers 0 for a merchant without events.

## 3. Runs

| run | question | distinct states | result |
|---|---|---|---|
| `MCCommerce_sales` | two carts reserve and are sold under two receipts, two items, two lots, one failed statement, refused offer or crash anywhere: quantities of either sign: do reservations, lots, ledger, chain, projections and receipts agree? | 1.82 M | holds |
| `MCInventory_verify` | does `verifyEventChain` accept what the service wrote? | | violated |
| `MCCartCheckout_flow` | two checkouts of a cart that is still edited, two callbacks, an open send-receipt, four databases, one fault anywhere: lifecycle, amounts, announcements, settlement | 1.12 M | holds |
| `MCCartCheckout_duplicate` | is a payment offered one receipt although callbacks overlap? | | violated |
| `MCWorkflowEngine_runs` | sub-workflows, a pause, an unknown action, changes and a crash between any two statements: step log, records, nesting, shared state, termination | 244 k | holds |
| `MCWorkflowTriggers_armed` | does memory agree with the table through changes and a restart, and do events reach every trigger? | 48 k | holds |
| `MCPeople_work` | five requests to payroll, onboarding, leave, expenses and the registry, one failure: ledger of offers, totals, audit, revocation; do waiting calls settle? | 227 k | holds |
| `MCTenancy_saga` | three registrations, tenants or logins, one failure of each kind: who has which wallet, and what is left? | 2.5 M | holds |
| `MCTenancy_login` | does the DID of a wallet log its owner in? | | violated |
| `Migrations_starts` | starts on what earlier starts left, a missing file, two failing statements, other writers of the schema | 15 k | holds |
| `MCRegulation_records` | consent and scores while time passes over half an hour and a day, on both shapes of the tables, for callers of several ages | 503 k | holds |
| `MCWalletExchange_requests` | two requests of any kinds compete for two sessions, with two failures: what is left open, wrapped or lost, and does every request end? | 320 k | holds |

The properties of a run are in its configuration; each is stated in words above
its definition.

### 3.1 Bounds, and why they are enough

* Sales: two lots are needed for FIFO and for a second-best lot; two carts for a
  unit promised twice; goods of 1, and reservations of 1 and of -1, which free what
  another cart holds; two items have a stream each. Requests have one line; two requests
  of a cart stand for one of two lines. `MaxEvents` cuts logs at five events, which a
  goods receipt, two reservations and two sales fill. One fault reaches every statement
  of every action.
* Checkout: two references give two overlapping checkouts of the cart; two
  deliveries in all give FAILED and SUCCESS, a duplicate, or one of each reference;
  a total of 1 or 2 tells an amount read early from one read late. The buyer has a
  phone number, so that send-receipt can mark the cart at any time. Each of the four
  databases is one the run begins with. One fault reaches every statement and offer.
* Engine: a parent and a child run (`RunIds` allows for two of each); three
  changes register both workflows and change or delete one. One crash, at any point.
* Triggers: two triggers so that one's changes could disturb the other's; five
  changes create, switch and delete; two firings tell the last from an earlier
  one; one restart.
* People: five requests are the longest chain that matters (an employee, a run, two
  issuances or an issuance and a filing, a payout). One salary and one tax type, as
  all rows are alike; operators' offers are for two credentials, so that the second
  can revive a revoked row. One verification, which does not count as a request, is
  enough since verifications write nothing.
* Tenancy: three requests give two registrations that collide and a deletion; each
  kind of fault can happen once, in any call. One nonce, since challenges do not
  meet each other.
* Migrations: two faults, so that a start can fail on what a failed start left; any
  one file may be missing, and be deployed later.
* Regulation: between the times 0, 30 and 1500 lie half an hour and a day, so that a row is
  stale to a caller of 10 minutes, fresh to one of an hour, and after a day fresh to one
  of 2000 minutes alone; two consents, one short and one empty retention, two
  purposes; two events, of a new merchant or of one that was paid six times, for which a
  dispute costs a part of its driver only and a payment moves two drivers at once. Ratings
  of -30, 0 and 2. The repository's discount after 90 days is not reached.
* Wallet exchange: two requests and two sessions are enough for all sessions to be
  held by requests that wait for one more, and for two resolutions to overlap, as
  the metadata may be cached from the start. Of the two offers one is of a credential
  that `useOfferRequest` passes over.
* `CHECK_DEADLOCK FALSE` in every configuration: identifiers, requests, changes and
  faults are bounded, and behaviours end when they are used up.
* Symmetry is used in runs of safety properties only.

### 3.2 Fairness

* `CartCheckout!FairSpec`: every HTTP request the handlers make is answered or fails
  (axios rejects on a closed connection; the long call has a timeout). Nothing is
  assumed of EcoCash or of the buyer. `KnownSuccessIsSettled` is conditional on no
  fault, since a refused offer is acknowledged and dropped by design.
* `WorkflowEngine!FairSpec`: the thread goes on with a loop that is between awaits,
  and an action that was called returns or throws.
* `People!FairSpec`: `createOffer` returns or throws, the waits of the payout end,
  and `setImmediate` calls back. `AwaitedCallsSettle` begins when the last failure is
  over, since a crash takes waiting calls with it.
* `WalletExchange!FairSpec`: a handler whose promise is settled goes on; the library
  answers; a wait for a session ends, by a session or by the acquire timeout. That
  timeout is what ends requests that hold sessions and wait for each other; the
  property says nothing of how long it is (section 5).

## 4. Proofs

Every theorem holds for any values of the constants that satisfy the named
assumptions of its module, which TLC evaluates in the runs. The type invariants of
all components are proved, and six are left out of the runs.

### 4.1 CommerceProofs

* `LedgerInvariant`: the inductive invariant `IInv` of the ledger, of `Inventory` by
  itself (`Spec`) and as the receipts endpoint drives it (`CommerceSpec`); from it
  `TypeCorrect`, `ReservationsAreBacked`, `LedgerIsExplained`, `ProjectionsMatch`,
  `ChainsAreLinked` and `ReceiptsAreTraceable`: `[]` of `TypeOK`, `ReservationsBacked`,
  `LedgerExplainsLots`, `ProjectionMatchesLots`, `ChainLinked` and `ReceiptTraceable`;
* `ReceiptsListTheirSales`: `CommerceSpec => []ReceiptsListSales`.

What hardly any of these is, is inductive by itself. `IInv` adds:

* `Work`: the allocations a handler inside `fulfillSale` has still to turn to are
  reserved ones of its tenant, so that a sale takes only units that are held;
* `Stocked`: a lot never has less available than nothing, unless it was received with
  less; and what the allocations of it that were fulfilled sold has left it, unless a
  negative quantity was reserved on it. This holds whatever fails, because
  `reserveStock` writes its lot before its allocation; `Backed` (without failures
  what a lot counts as reserved is what its reserved allocations hold) gives the other
  half of `ReservationsBacked`;
* `Chained`: sequence numbers count the events of a stream without a gap or a double,
  and an event links to the one numbered before it. `ChainLinked`, which replays
  `verifyEventChain` over the first `VerifyLimit` of them, follows (`ChainVerifies`);
* `Mirrored` and `OwnLots`: a stream of a lot has a projection, and units are
  reserved on lots of the stream asked for; a `preferredLotId` of another stream breaks
  both, which is why `ProjectionMatchesLots` excepts it;
* `Sourced` (every lot has its RECEIVE event) and `ReceiptTraceable` (the SELL events of
  a receipt are, lot by lot, the allocations fulfilled under it).

`CInv` adds what the endpoint's calls may rely on: a sale in its loop belongs to a
call that waits for it and has collected exactly its events so far (`Receipted`), the
receipt an allocation was fulfilled under is on an event (`Witnessed`), and what the
offered receipts list of a lot is no more than their allocations hold (`Allotted`, for the
lots no negative quantity was reserved on), so that `Stocked` bounds it by what has left
the lot, whatever fails.

A sum over rows (`Net` of `Inventory`) is the difference of two cardinalities, those of the
sets of units its positive and its negative rows stand for (`Total`): the lemmas about
it, that come first, say what one more, one fewer or one changed row does to a sum. Then
comes one lemma per action for the types, one per action for each part of the invariant
that it disturbs, and per action of `Commerce` one for `CInv`. An action that runs only
some of its statements makes `faults` positive, which discharges the parts that except
failures and none of the others. Assumptions: `InventoryAssumption` and
`CommerceAssumption` (identifiers of lots and allocations are finite sets, quantities
and costs are integers, bounds are naturals).

### 4.2 CartCheckoutProofs

* `CheckoutTypeCorrect`: `Spec => []TypeOK`;
* `AnnouncementsAreSettled`: `Spec => []AnnouncedIsSettled`;
* `SuccessesAreRecorded`: `Spec => []SuccessIsRecorded`;
* `ChargesAreRecorded`: `Spec => []ChargeIsRecorded`;
* `OneReceiptInOrder`: `Spec => []OneReceiptInSequence`;
* `CheckoutImplementsLifecycle`: `Spec => ImplementsLifecycle`, the refinement of
  `PaymentLifecycle`.

Hardly any of the properties is inductive: what a handler does when an answer comes
back depends on what it read before it asked. `IInv` adds what a running handler
may rely on: `Linked` (a running checkout has a request at EcoCash for the same
cart and amount, and no payment row yet; there are payments only where the table takes
them), `Called` (a running webhook handles a call made once EcoCash had the money, for a
payment that is recorded if the webhook found one), `Emits` (a webhook that is about to
announce has offered the receipt, and if it found the payment it has recorded it paid and
stored the receipt, in a table that takes receipts) and `Sequential` (while the calls for a
payment come one after the other, at most one is being handled, and from the first
receipt on the payment is paid, so that the idempotency check ends the later ones).
They survive the interleavings because of what no step undoes, which is a lemma about
every step (`StepKeeps`): no row is deleted, links and amounts do not change, reports
are not withdrawn, a paid payment stays paid. `Writers` lists the steps that write each
table, so that the later lemmas look at those only. The refinement is then a step
simulation: each step moves the record of at most one payment as the lifecycle allows
(`LifecycleStep`). Assumption: `CheckoutAssumption`.

### 4.3 TenancyProofs

* `TenancyTypeCorrect`, `EveryUserHasAWallet`, `AnnouncementsAreSaved`,
  `RefusalsLeaveNothing`: `Spec => []` of `TypeOK`, `UsersHaveWallets`,
  `AnnouncedIsSaved` and `RefusedLeavesNothing`.

`IInv` adds to the four what a registration may rely on while others run: ids are
those of past requests (`PastIds`), so a new one is fresh; a running call's tenant is
its own, as it made it unless an administrator deleted it, and belongs to no user yet
(`Running`, by `Owns`); and the records its stage implies are saved (`Saving`). A step
of one provisioning writes only its own tenant (`ProvisionWritesOwn`), so the calls of
others keep what they rely on (`OthersKeep`); then there is one lemma for each
property. Assumption: `TenancyAssumption` (the empty label is no name and no e-mail).

### 4.4 RegulationProofs

The database a regulator looks at: how it came about (`Migrations`), and what is
answered from it (`Regulation`).

* `MigrationsTypeCorrect`, `FinishedIsComplete`, `RefusalsHaveCauses`: `Spec => []` of
  `TypeOK`, `CompleteWhenFinished` and `RefusedForCause`;
* `TrustTablesAreTheScripts`: 007 has run on exactly the databases whose trust tables
  are its own;
* `RegulationTypeCorrect`, `ConsentsAreHonoured`, `ServedScoresAreCurrent`,
  `IncentivesAreRight`: `RegulationSpec => []` of `RegulationTypeOK`, `ConsentHonoured`,
  `ServedScoreIsCurrent` and `IncentivesRight`;
* `RevocationsLast`: `RegulationSpec => [][RevokedForGood]_regulationVars`.

*The runner.* `IInv` adds `InOrder` (all versions up to a recorded one, and all before the
one the runner is at, are applied or warned about) and `CurrentIsRecorded` (what the
runner skips by was recorded, and what is recorded since lies behind it). The second is
why a script that cannot run twice never does: if it was applied, it was recorded with it,
so it is at most the version the runner read. Assumption: `MigrationsAssumption`. The lemma
`ShapeIsFixed` is where the two halves meet: once trust tables exist, no start, crash or
script changes their columns, so `Regulation` begins with one of two shapes and keeps it.

*Consents.* `ConsentInv` adds to the property that a record was created in the past, so
that a verification of now finds `created <= now`. A sweep cannot hide a revocation because
it takes active records only, and those show none; `RevocationsLast` says it of every step.

*Served scores.* What a step answers is not inductive without what the cache holds.
`CacheExplained` says that each cached score is that of a prefix of the merchant's events at
the time of the row, and that what the prefix leaves out came no earlier (`Accounts`);
`PastOnly`, that events and rows are of the past. An event that is appended comes at or
after every row, so it lands behind all prefixes (`Appended`); a computation takes the whole
log; and a row that is served is at most as old as its caller takes. `RInv` was checked
by TLC on the instance of `MCRegulation_records` as well.

*Incentives.* `TallyFacts` and `TallyAppend` say what a log tallies up to, and that one more
event adds one in one place. The stars are a difference of two cardinalities
(`UnitsAreFinite`), as ratings may be negative; only for a merchant whose reviews count one
to five stars (`FairlyRated`) are they bounded by the number of reviews (`FairStars`,
`Rated`), and only then is the score between 0 and 100. That events count the right way
needs no such condition. `ScoreBounds` and `ScoreGrows` are the
arithmetic of the quotients, with each product named so that what is left is linear.
`ScoreRises` is the case that made the property worth stating: a payment is also a larger
divisor of the dispute rate, and
`(100a - x) * b <= (100b - x) * a` for payments `a <= b` is what makes that harmless; below
the floor of 0 the left side is 0. An event of now does not change the tenure, also when it
is the first (`WithFacts`).

*The repository's score.* It sums weights with `FoldSeq`, which the library defines by
recursion through `CHOOSE`. `TotalType` shows that there is such a function and that it is
whole for whole weights, by a least counterexample over the sets of indices (as in 4.8);
then `RepositoryScoreType` gives a whole number from 0 to 100 for any configured weights.

Assumptions: `RegulationAssumption`, that is, times and retention periods are naturals, and
ages, weights and ratings are integers.

### 4.5 WorkflowTriggersProofs

* `TriggersTypeCorrect`: `Spec => []TypeOK`;
* `MemoryAgrees`: `Spec => []ArmedIffActive`;
* `OnlyTheActiveFire`: `Spec => OnlyActiveFire`, and `EventsReach`:
  `Spec => EventsReachTriggers`, the two action properties.

`IInv` is `TypeOK`, the foreign key (`Rooted`) and, per row, which job and which
listener it has while the server is up (`Memory`); what is in memory for rows that
are gone is not constrained, as the code does not clean it up. Assumption:
`TriggersAssumption`.

### 4.6 WalletExchangeProofs

* `ExchangeTypeCorrect`: `Spec => []TypeOK`, which includes that no more sessions are
  open than `SessionLimit`, whatever handlers throw, time out or leave behind;
* `ExchangeInvariant`: `Spec => []IInv`, and from it `SessionsAreExplained`,
  `OverridesAreScoped` and `RedeemedAreHeld`: `[]` of `SessionsExplained`,
  `OverrideScoped` and `RedeemedIsHeld`.

The number of sessions is a cardinality, so the first lemmas are about adding one
session when there is room (`OneMore`) and about steps that only end some (`Fewer`);
calls keep inside their scripts because a step is left only to another of the same
script (`GoToType`, `ThrowType`). `IInv` has three more groups. `Holding`, `Admitted`,
`Asked` and `LeftOpen` say for each step of each script which sessions its handler
holds, and of a call that has ended why it left one; a step changes only the sessions
of its own handler, by as much as its script says. `Resolving` and `Restorable` are
about the wrappers around `fetch`: who is inside is at its resolution (`Resolves`), who
was inside never puts a wrapper again (`Overridden`, as handlers only go forward), and
what a request will restore holds the wrappers of all requests that were inside before
it, except of those recorded as overlapped, and this is what `OverrideScoped` lacks to
be inductive. `Underway` and `Fetched` follow the credential of a used offer through the
steps of the call that used it; what `useOfferRequest` passes over is an exception the
property names. Assumptions: `SessionAssumption` and `ExchangeAssumption`.

### 4.7 WorkflowEngineProofs

* `EngineTypeCorrect`, `StepLogs`, `LoopsAgree`: `Spec => []` of `TypeOK`, `StepLog` and
  `LoopsMatchRuns`;
* `EngineImplementsRuns`: `Spec => ImplementsWorkflowRuns`, the refinement of
  `WorkflowRuns`, for as many runs as `RunIds` names.

`IInv` has four parts besides `TypeOK`. `OneThread`: at most one loop is between two
awaits, so whoever moves is alone. `Parented`: who has a parent has one that waits, and
who waits has one child; `Ended` wakes the parent in the same step, which keeps this.
`Counted`: loops and rows count from 1. `Tracked` ties the three records of a run
together: its log is in order, its row agrees with the last step, its loop stands behind
the log or waits for the last step, and what the loop passes on includes the output of
every step since the last pause. Once a process has died (`died` of `Ending` and
`Latest`) a run without a loop may also show what a death between two statements leaves
(lemma `Deaths`); that such a run has no loop, and gets none, is what keeps the log in
order for the others. `StepLog` alone is not inductive, because it says nothing of the
loop that writes the next row, nor that a paused run's last step asked for the pause,
which is why a resumed loop may start with an empty state. A run whose rows were deleted
while it executes keeps its loop and is in no conjunct of `Tracked`. Then come one lemma
per part and, for `Tracked`, one per group of actions. In the refinement the count of
completed steps is a cardinality; each step moves one run, or deletes several, or is a
stutter (`RunsStep`). Assumption: `EngineAssumption`.

### 4.8 PeopleProofs

* `PeopleTypeCorrect`, `PayslipsReoffered`, `RunsAreConsistent`,
  `ContractsNameEmployees`, `TrailIsComplete`, `RevocationsAreHonoured`: `Spec => []` of
  `TypeOK`, `ReofferExplained`, `RunsMatchPayslips`, `ContractNamesEmployee`, `AuditTrail`
  and `RevocationsHonoured`;
* `PeopleImplementLedger`: `Spec => ImplementsLedger`, the refinement of `OfferLedger`;
* `BandsAreMarginal`: the income tax of the plugin is the marginal tax, for every
  income.

Three components share employees, offers and counters, so `IInv` is one part for each,
and each is kept against what a step of any other can do: offers are only added,
employees stay, counters go up (`Shared`, `OthersStep`, `HrWrites`); `StepOfAll` shows that
every step is such a step for the two it does not belong to.

* Payroll. `PayrollRows` has the types, the numbering of rows (a new number is not
  taken), the foreign keys and what a waiting call holds; a payout has sent every
  salary of its run that it does not still have to, which is the `paid` of
  `RunsMatchPayslips`. For the offers, `SlipsPending` (a payslip is pending exactly until
  an offer reached it) and `IssueSees` (what an issuance has still to offer was offered by
  nobody before it read it; what it did not read had been offered by then) are what
  `ReofferExplained` and the totals lack. `TotalsBounded` (totals never exceed the sum over
  the run's payslips) makes the filings inductive.
* Sums. `SumFunction` of the library is defined by recursion through `CHOOSE`. That
  there is such a function, that it is natural, and that a part of the rows sums to no
  more than all of them is shown by a least counterexample over the finite set of rows,
  with the theorem that a set of numbers has a least element (`Least`) and no
  induction rule.
* Hr. A waiting contract is for an employee whose candidate is the request, and
  employees never change: that is what names the right employee, and the right holder
  of the offer in the refinement. `AuditTrail` is about the written log followed by the
  queue; writing moves the border, and a decision appends behind both.
* Registry. `RegistryTold` says that the table is what `history` makes of it: a row is
  there when it was saved, and revoked when a revocation follows the last save.

In the refinement the holders are the rows of six tables. A step writes one table and the
reference of one row at most (`RefsKept`), new rows have none, and the earlier offers keep
their holders because employees keep their candidate (`MadeKept`); then there is one case
per action: it opens rows, makes an offer, or drops a reference (`RejectLeave` alone).
Assumption: `PeopleAssumption` (identifier bounds are naturals, salaries natural, filed
taxes are of the three the plugin has).

### 4.9 What is only model-checked

Liveness (`KnownSuccessIsSettled`, `RunsEnd`, `AwaitedCallsSettle`, `RequestsEnd`), which
is out of the prover's reach: these four need fairness, and so `ENABLED`. Every other
property that a passing run checks is a theorem.

## 5. What the code does not promise

Properties carry conditions, and some behaviours no property excludes. Each item is
what the code does, with the line where that shows best (paths under `src/src`).

*Stock.*
* After a failed statement lots, ledger, allocations and projection may disagree for
  good (`faults = 0` in the properties); the chain survives every failure.
* `updateProjection` computes `quantity_available` from the old `quantity_on_hand`, so
  it is behind after a second receipt, and a sale does not update `avg_unit_cost`
  (`services/InventoryService.ts:785`).
* Nothing checks a quantity. A reservation of a negative one lowers `quantity_reserved`,
  and another cart is then promised more than is on hand
  (`services/InventoryService.ts:391`); a negative receipt makes a lot of less than nothing.
* Reservations end only by a sale: nothing reads `expires_at` (`:408`).
* A preferred lot of another stream makes projections drift (`ForeignPreference`).
* An event is hashed without its undefined keys and verified with NULLs (finding,
  `MCInventory_verify`).

*Cart and payment.*
* Overlapping callbacks offer a receipt each (finding, `MCCartCheckout_duplicate`).
* A callback that comes before checkout has stored the payment is acknowledged, and the
  payment stays pending for ever.
* On the tables of migration 014 the INSERT of a payment throws every time: it names
  `cart_id` and `payer_phone`, which there are not, and leaves out `payment_option_id`,
  `payer_did` and `merchant_did`, which are NOT NULL
  (`controllers/whatsapp/WhatsAppPayloadController.ts:706`). Checkout answers an error after
  it has charged, no webhook finds the payment, and each repeated SUCCESS offers a receipt
  again.
* With a table of payments but the receipts of 014, the INSERT of a receipt throws every
  time (`controllers/webhooks/EcoCashWebhookController.ts:126`), after the payment was
  marked paid: no receipt row, no workflow, no `payment.completed`, and the callbacks that
  follow are taken for duplicates.
* `send-receipt` asks for no token and no payment: anyone marks any cart with a phone number
  paid (`controllers/whatsapp/WhatsAppPayloadController.ts:809`). The webhook never
  calls it, as the issuer's answer has none of the fields its guard reads
  (`controllers/webhooks/EcoCashWebhookController.ts:139`), so no payment marks its
  cart, although the comments at `:33` of that file and at `:805` of the other say it
  does.
* Two overlapping checkouts charge twice; a cart already paid can be set back to
  invoiced; items can be added after payment; a total may be zero or negative.

*Workflows.*
* Runs that execute when the process dies stay running, or pending if it dies between the
  statements that create them; a last step may stay pending. A workflow that triggers itself
  recurses until memory ends (`services/WorkflowService.ts:293`). A resumed run does not
  see what steps before the pause put into the state
  (`services/WorkflowService.ts:168`).
* A cron job of a trigger that went with its workflow runs on, and starts a workflow
  registered under that id again (`services/TriggerService.ts:367`).

*People and credentials.*
* Issuing the payslips of a run again overwrites its statutory totals with those of
  the payslips that were left, zero if none (`services/PayrollService.ts:340`).
* Approvals that overlap or follow a reopening create an employee each, and with a
  refused offer the stored contract may be that of another of them.
* `createOffer` uses the first issuer of the agent it has
  (`services/CredentialIssuanceService.ts:99`).
* The next credential of an offer sets `revoked` back to 0 (`cliAgent.ts:177`); a
  credential whose row was not saved cannot be revoked; `revokeCredential` revokes and
  then answers 500, because the deletion that follows finds no record of that id; the
  lookup of an index beyond the status list answers that it is not revoked.
* `VCVerifierController` reads a column no migration creates and answers `invalid`
  for everything.

*Tenants, sessions and wallets.*
* No user is found by DID (finding, `MCTenancy_login`).
* A registration refused after its tenant has a row leaves both; a deleted tenant keeps
  its row, and its metadata stay cached for all tenants of the host.
* Sessions stay open until the process ends when a client hangs up, when the token of a
  request is accepted after its API key was, at every proof event
  (`events/ProofEvents.ts:14`), and when `getPendingOffers` or `acceptOffer` throw
  between opening and ending one.
* Requests hold the session of their token while they wait for another. With every
  session held so they wait for each other until the acquire timeout, 24 days where
  `SESSION_ACQUIRE_TIMEOUT` is not set (`authentication.ts:151`).
* Resolutions that overlap can leave a wrapper around `fetch`, which then answers with
  the metadata of an earlier request until the process ends, although
  `controllers/wallet/WalletController.ts:36` says "Always restores original fetch".
* A credential that could not be stored is lost: its code is used, the error logged.
  With an API key, `useOfferRequest` stores into the wallet of the base agent. It passes
  over credentials that come as strings or as JWT records without `credential`, and answers
  success (`controllers/wallet/WalletController.ts:788`). It looks for the issuer record
  that is to answer the metadata in the wallet of the base agent, where nothing saves
  one (`:647`). The number of credentials in its answer is always 0.

*Schema.*
* A version passed with a warning is skipped for ever once a later one is recorded,
  and the runner still says that all were applied
  (`persistence/DatabaseManager.ts:153`); versions that do not record themselves are run
  again at each start; a second `initialize` returns the instance of one that failed.
* The files 013 to 015 are not listed; the tables of 007 and 015 have the same names and
  other columns.

*Consent and trust.*
* The newest consent hides an older one that covers the purpose
  (`persistence/ConsentRepository.ts:88`), and nothing calls `expireConsents`.
* The level borders in the header of `TrustRepository` are not those it computes with,
  nor are the weights in the header of `TrustActions`; a badge may change between a
  rounded answer and the cached score behind it.
* Nothing checks a rating, and a rating of 0 counts as 3 (`services/TrustEngine.ts:138`):
  with other ratings a score may leave the range from 0 to 100. A rating that is no number
  is concatenated to the sum, and a review whose `event_data` is null makes every scoring of
  its merchant throw; these two are not modelled.
* `GET {merchantId}` takes any `maxAgeMinutes`
  (`controllers/trust/TrustController.ts:21`): a score that is served may miss events of
  any age.
* An evidence package states a dispute rate of 0 where there are disputes and no
  payments (`controllers/regulator/EscalationController.ts:125`).

## 6. Not modelled

The map covers about six percent of the repository's lines. Most of the others are not
code a model of this kind could stand for: generated files (`routes.ts`, the bundles
under `credo-ui/wallet/.output`), the sources of two web interfaces, seed data,
templates, fixtures and scripts. The server without its routes is 26 600 lines, of which
about a fifth is mapped; the rest is logging, formatting, type and schema declarations,
wrappers and the components and reads listed here. A definition is mapped only to
the lines it translates.

* *OIDC metadata endpoints, the unused OIDC store*: they format what issuers and
  cache hold; the store has no caller.
* *Status list revocation*: the service keeps no state; callers send the list along.
* *Agents, DIDComm, DIDs, AnonCreds, Polygon*: calls to the Credo library, whose
  protocols are not code of this repository.
* *Catalogue, providers, schemas, model registry*: rows that are created, read, updated
  and deleted one at a time, with nothing awaited between a read and a write.
* *AI agents and acknowledged payments*: a repository of agents, and `EcoCashAckPayAdapter`,
  which would write payments with the columns of migration 014; nothing makes an instance
  of either.
* *Workflow actions and templates*: an action is modelled by how it ends and what it
  puts into the state; `Consent` and `Trust` model those of consent and trust.
* *Metrics, reporting, notifications, verifier portal*: reads and messages only.
* *Server, routes and utilities*: they decide which handler runs; what they do with
  sessions and triggers is modelled.
* *Portal and wallet interfaces*: separate programs; every model lets any caller call
  in any order.

Parts of modelled components that are left out:

* *Inventory*: locations (`createLocation`), which nothing else reads, and reports.
* *Payment and receipt lookups*: they only read.
* *Payroll*: employees saved again under an id; no endpoint passes one.
* *Audit log*: the middleware that logs every request the same way, and `getLogs`.
* *Credential issuance*: what an offer contains; the repository of offers, which has no
  caller, and the cleanup job, which does nothing.
* *Registry*: presentation requests and formats, which call the library.
* *Tenants*: the password login and session endpoints, which read; the issuers and
  verifiers made in the library while provisioning, whose failures are logged.
* *Escalations*: statuses that no other operation reads.
* *Finance*: `issueQuote` and `issueInvoice`, which offer credentials and change no
  table.
* *Sessions*: whether a token or key is good; inside the library, the sessions
  themselves.
* *Wallets*: listings, presentations, and the repository of wallet credentials, whose only
  live part is that it creates its table (`Migrations`).
