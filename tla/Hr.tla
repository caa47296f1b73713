--------------------------------- MODULE Hr ---------------------------------
(***************************************************************************)
(* src/src/services/OnboardingService.ts and OperationsService.ts: the     *)
(* onboarding of candidates, leave requests and expense claims, and the    *)
(* audit entries of AuditService.ts that their decisions leave.  An        *)
(* approval awaits a credential offer between reading its row and writing  *)
(* it; a call that waits is in `calls'.  Ids are the next number.  The     *)
(* database has the columns of the migrations 013_add_approval_vc_columns  *)
(* and 014_add_offer_uri_columns.                                          *)
(***************************************************************************)
EXTENDS CredentialIssuer, Tables, FiniteSets

CONSTANTS Tenants,
          MaxCalls      \* requests of a behaviour

HrAssumption == MaxCalls \in Nat /\ MaxFailures \in Nat

VARIABLES employees,    \* the table employees
          requests,     \* onboarding_requests
          leaves,       \* leave_requests
          claims,       \* expense_claims
          queue,        \* audit entries that setImmediate has yet to write
          audit,        \* audit_logs
          calls,        \* the approvals that await their offer
          started       \* requests so far

vars == <<employees, requests, leaves, claims, queue, audit, calls,
          offers, failures, started>>

Ids == 1..MaxCalls

OnboardingRequest == [tenant: Tenants, status: {"invited", "in_progress", "completed"},
                      employee: Nat, contract: Nat]
Leave  == [employee: Ids, status: {"pending", "approved", "rejected"}, vc: Nat]
Claim  == [employee: Ids, status: {"pending", "approved", "rejected", "paid"}, vc: Nat,
           paidAt: BOOLEAN]
Entry  == [of: {"leave", "expense"} \X Ids,
           action: {"created", "approved", "rejected", "paid"}]

ContractCall == [op: {"contract"}, request: Ids, employee: Ids, since: Nat]
LeaveCall    == [op: {"leave"}, leave: Ids, since: Nat]
ClaimCall    == [op: {"expense"}, claim: Ids, since: Nat]

TypeOK ==
    /\ IsTable(requests, Ids, OnboardingRequest)
    /\ IsTable(leaves, Ids, Leave) /\ IsTable(claims, Ids, Claim)
    /\ queue \in Seq(Entry) /\ audit \in Seq(Entry)
    /\ IsTable(calls, 1..started, ContractCall \cup LeaveCall \cup ClaimCall)
    /\ started \in 0..MaxCalls /\ failures \in 0..MaxFailures

Init ==
    /\ employees = EmptyTable /\ requests = EmptyTable
    /\ leaves = EmptyTable /\ claims = EmptyTable
    /\ queue = <<>> /\ audit = <<>> /\ calls = EmptyTable
    /\ offers = <<>> /\ failures = 0 /\ started = 0

-----------------------------------------------------------------------------
Fresh(table) == Cardinality(DOMAIN table) + 1
Request      == started < MaxCalls /\ started' = started + 1
Begin(call)  == calls' = Put(calls, started + 1, call)
Return(c)    == calls' = Without(calls, {c})
Awaiting(c, op) == c \in DOMAIN calls /\ calls[c].op = op

\* A slip: entries written in any order, here the last one first.
Log_Stack(kind, row, action) == queue' = <<[of |-> <<kind, row>>, action |-> action]>> \o queue

\* logAction
Log(kind, row, action) == queue' = Append(queue, [of |-> <<kind, row>>, action |-> action])

\* The callback of setImmediate writes the entry, or fails to and drops it.
WriteAudit ==
    /\ queue # <<>> /\ queue' = Tail(queue)
    /\ \/ audit' = Append(audit, Head(queue)) /\ UNCHANGED failures
       \/ Failure /\ UNCHANGED audit
    /\ UNCHANGED <<employees, requests, leaves, claims, calls, offers, started>>

-----------------------------------------------------------------------------
(* Onboarding                                                                *)

CreateRequest(tenant) ==
    /\ Request
    /\ requests' = Put(requests, Fresh(requests),
                       [tenant |-> tenant, status |-> "invited", employee |-> 0,
                        contract |-> NoOffer])
    /\ UNCHANGED <<employees, leaves, claims, queue, audit, calls, offers, failures>>

\* updateProgress, whatever the status was.
UpdateProgress(q) ==
    /\ Request
    /\ q \in DOMAIN requests
    /\ requests' = Put(requests, q, [requests[q] EXCEPT !.status = "in_progress"])
    /\ UNCHANGED <<employees, leaves, claims, queue, audit, calls, offers, failures>>

\* approveRequest, to the await of the offer; for a completed request it returns.
ApproveRequest(q) ==
    LET e == Fresh(employees)
    IN /\ Request
       /\ q \in DOMAIN requests /\ requests[q].status # "completed"
       /\ employees' = Put(employees, e, [tenant |-> requests[q].tenant, salary |-> 0,
                                          candidate |-> q])
       /\ Begin([op |-> "contract", request |-> q, employee |-> e, since |-> Len(offers)])
       /\ UNCHANGED <<requests, leaves, claims, queue, audit, offers, failures>>

\* A slip: an employee that is there already is kept.
ContractOffered_Keep(c) ==
    LET q == calls[c].request
    IN /\ Awaiting(c, "contract")
       /\ Offered("EmploymentContractVC", calls[c].employee, calls[c].since)
       /\ requests' = Put(requests, q,
              [requests[q] EXCEPT !.status = "completed", !.contract = OfferId,
                   !.employee = IF @ = 0 THEN calls[c].employee ELSE @])
       /\ Return(c)
       /\ UNCHANGED <<employees, leaves, claims, queue, audit, started>>

ContractOffered(c) ==
    /\ Awaiting(c, "contract")
    /\ Offered("EmploymentContractVC", calls[c].employee, calls[c].since)
    /\ requests' = Put(requests, calls[c].request,
                       [requests[calls[c].request] EXCEPT !.status = "completed",
                            !.employee = calls[c].employee, !.contract = OfferId])
    /\ Return(c)
    /\ UNCHANGED <<employees, leaves, claims, queue, audit, started>>

\* The catch of approveRequest, which does not touch the offer of the row.
ContractRefused(c) ==
    /\ Awaiting(c, "contract")
    /\ Refused("EmploymentContractVC", calls[c].employee, calls[c].since)
    /\ requests' = Put(requests, calls[c].request,
                       [requests[calls[c].request] EXCEPT !.status = "completed",
                            !.employee = calls[c].employee])
    /\ Return(c)
    /\ UNCHANGED <<employees, leaves, claims, queue, audit, started>>

-----------------------------------------------------------------------------
(* Leave.  The foreign key wants the employee.                               *)

CreateLeaveRequest(e) ==
    LET l == Fresh(leaves)
    IN /\ Request
       /\ e \in DOMAIN employees
       /\ leaves' = Put(leaves, l, [employee |-> e, status |-> "pending", vc |-> NoOffer])
       /\ Log("leave", l, "created")
       /\ UNCHANGED <<employees, requests, claims, audit, calls, offers, failures>>

\* The UPDATE at the end of updateLeaveStatus writes the status and the offer.
DecideLeave(l, status, vc) ==
    /\ leaves' = Put(leaves, l, [leaves[l] EXCEPT !.status = status, !.vc = vc])
    /\ Log("leave", l, status)

RejectLeave(l) ==
    /\ Request
    /\ l \in DOMAIN leaves
    /\ DecideLeave(l, "rejected", NoOffer)
    /\ UNCHANGED <<employees, requests, claims, audit, calls, offers, failures>>

ApproveLeave(l) ==
    /\ Request
    /\ l \in DOMAIN leaves
    /\ Begin([op |-> "leave", leave |-> l, since |-> Len(offers)])
    /\ UNCHANGED <<employees, requests, leaves, claims, queue, audit, offers, failures>>

LeaveOffered(c) ==
    /\ Awaiting(c, "leave")
    /\ Offered("LeaveApprovalVC", calls[c].leave, calls[c].since)
    /\ DecideLeave(calls[c].leave, "approved", OfferId)
    /\ Return(c)
    /\ UNCHANGED <<employees, requests, claims, audit, started>>

LeaveRefused(c) ==
    /\ Awaiting(c, "leave")
    /\ Refused("LeaveApprovalVC", calls[c].leave, calls[c].since)
    /\ DecideLeave(calls[c].leave, "approved", NoOffer)
    /\ Return(c)
    /\ UNCHANGED <<employees, requests, claims, audit, started>>

-----------------------------------------------------------------------------
(* Expenses                                                                  *)

CreateExpenseClaim(e) ==
    LET x == Fresh(claims)
    IN /\ Request
       /\ e \in DOMAIN employees
       /\ claims' = Put(claims, x, [employee |-> e, status |-> "pending", vc |-> NoOffer,
                                    paidAt |-> FALSE])
       /\ Log("expense", x, "created")
       /\ UNCHANGED <<employees, requests, leaves, audit, calls, offers, failures>>

\* The UPDATE at the end of updateExpenseStatus; without a new offer it keeps the
\* old one.
DecideClaim(x, status, vc) ==
    /\ claims' = Put(claims, x, [claims[x] EXCEPT !.status = status, !.vc = vc,
                                                  !.paidAt = @ \/ status = "paid"])
    /\ Log("expense", x, status)

SettleClaim(x, status) ==
    /\ Request
    /\ x \in DOMAIN claims
    /\ DecideClaim(x, status, claims[x].vc)
    /\ UNCHANGED <<employees, requests, leaves, audit, calls, offers, failures>>

ApproveClaim(x) ==
    /\ Request
    /\ x \in DOMAIN claims
    /\ Begin([op |-> "expense", claim |-> x, since |-> Len(offers)])
    /\ UNCHANGED <<employees, requests, leaves, claims, queue, audit, offers, failures>>

ClaimOffered(c) ==
    /\ Awaiting(c, "expense")
    /\ Offered("ExpenseApprovalVC", calls[c].claim, calls[c].since)
    /\ DecideClaim(calls[c].claim, "approved", OfferId)
    /\ Return(c)
    /\ UNCHANGED <<employees, requests, leaves, audit, started>>

ClaimRefused(c) ==
    /\ Awaiting(c, "expense")
    /\ Refused("ExpenseApprovalVC", calls[c].claim, calls[c].since)
    /\ DecideClaim(calls[c].claim, "approved", claims[calls[c].claim].vc)
    /\ Return(c)
    /\ UNCHANGED <<employees, requests, leaves, audit, started>>

\* The process dies, and with it the calls and the entries not yet written.
Crash ==
    /\ Failure
    /\ calls' = EmptyTable /\ queue' = <<>>
    /\ UNCHANGED <<employees, requests, leaves, claims, audit, offers, started>>

-----------------------------------------------------------------------------
Requests ==
    \/ \E tenant \in Tenants : CreateRequest(tenant)
    \/ \E q \in DOMAIN requests : UpdateProgress(q) \/ ApproveRequest(q)
    \/ \E e \in DOMAIN employees : CreateLeaveRequest(e) \/ CreateExpenseClaim(e)
    \/ \E l \in DOMAIN leaves : RejectLeave(l) \/ ApproveLeave(l)
    \/ \E x \in DOMAIN claims :
          ApproveClaim(x) \/ \E status \in {"rejected", "paid"} : SettleClaim(x, status)

Answer(c) ==
    \/ ContractOffered(c) \/ ContractRefused(c)
    \/ LeaveOffered(c) \/ LeaveRefused(c)
    \/ ClaimOffered(c) \/ ClaimRefused(c)

Answers == \E c \in DOMAIN calls : Answer(c)

Next == Requests \/ Answers \/ WriteAudit \/ Crash
Spec == Init /\ [][Next]_vars
=============================================================================
