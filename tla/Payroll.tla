------------------------------- MODULE Payroll -------------------------------
(***************************************************************************)
(* src/src/services/PayrollService.ts and PayoutService.ts: payroll runs   *)
(* and their payslips, the issuance of their credentials, tax filings and  *)
(* the payout.  A handler runs to its next await of real I/O in one step;  *)
(* a call that waits is in `calls' with what it has read.  Ids are drawn   *)
(* by randomUUID: here the next number, and for the payslip of an employee *)
(* in a run that pair.  The database has the columns of the migrations     *)
(* 013_create_tax_compliance and 014_add_offer_uri_columns.                *)
(***************************************************************************)
EXTENDS CredentialIssuer, Statutory, Tables, FiniteSets, Functions

CONSTANTS Tenants, DefaultTenant,   \* the endpoints of payroll use one tenant
          Salaries, FiledTypes,     \* what requests carry: salaries in cents, taxes
          MaxCalls                  \* requests of a behaviour

PayrollAssumption ==
    /\ DefaultTenant \in Tenants
    /\ Salaries \subseteq Nat /\ FiledTypes \subseteq {"nssa", "paye", "aids_levy"}
    /\ MaxCalls \in Nat /\ MaxFailures \in Nat

VARIABLES employees,    \* the table employees
          runs,         \* payroll_runs
          payslips,     \* payslips, by run and employee
          filings,      \* tax_compliance
          disbursed,    \* payslips whose salary was sent
          calls,        \* the handlers that await
          started       \* requests so far

vars == <<employees, runs, payslips, filings, disbursed, calls, offers, failures, started>>

Ids      == 1..MaxCalls
TaxTypes == {"nssa", "paye", "aids_levy"}
Nothing  == [t \in TaxTypes |-> 0]

Employee == [tenant: Tenants, salary: Nat, candidate: Nat]
Run      == [status: {"draft", "completed", "paid"}, gross: Nat, net: Nat,
             totals: [TaxTypes -> Nat], vc: Nat]
Payslip  == [gross: Nat, status: {"pending", "issued"}, vc: Nat]
Filing   == [run: Ids, type: TaxTypes, amount: Nat, vc: Nat,
             status: {"pending", "filed", "confirmed", "rejected"}]

\* An issuance: the payslips it read, those it has not come to, and the number of
\* offers when it read them.  A payout: the payslips it has not paid.
IssueCall == [op: {"issue"}, run: Ids, seen: SUBSET (Ids \X Ids),
              todo: SUBSET (Ids \X Ids), since: Nat]
PayCall   == [op: {"payout"}, run: Ids, todo: SUBSET (Ids \X Ids)]
FileCall  == [op: {"file"}, filing: Ids, since: Nat]

TypeOK ==
    /\ IsTable(employees, Ids, Employee)
    /\ IsTable(runs, Ids, Run)
    /\ IsTable(payslips, Ids \X Ids, Payslip)
    /\ IsTable(filings, Ids, Filing)
    /\ disbursed \subseteq DOMAIN payslips
    /\ IsTable(calls, 1..started, IssueCall \cup PayCall \cup FileCall)
    /\ started \in 0..MaxCalls /\ failures \in 0..MaxFailures

Init ==
    /\ employees = EmptyTable /\ runs = EmptyTable /\ payslips = EmptyTable
    /\ filings = EmptyTable /\ disbursed = {} /\ calls = EmptyTable
    /\ offers = <<>> /\ failures = 0 /\ started = 0

-----------------------------------------------------------------------------
Fresh(table)    == Cardinality(DOMAIN table) + 1
Request         == started < MaxCalls /\ started' = started + 1
Begin(call)     == calls' = Put(calls, started + 1, call)
Return(c)       == calls' = Without(calls, {c})
Continue(c, s)  == calls' = Put(calls, c, [calls[c] EXCEPT !.todo = @ \ {s}])
SlipsOf(r)      == {s \in DOMAIN payslips : s[1] = r}

Totals(slips)   == [t \in TaxTypes |->
                       SumFunction([s \in slips |-> Deductions(payslips[s].gross)[t]])]

\* saveEmployee without an id, from the payroll endpoint.
SaveEmployee(salary) ==
    /\ Request
    /\ employees' = Put(employees, Fresh(employees),
                        [tenant |-> DefaultTenant, salary |-> salary, candidate |-> 0])
    /\ UNCHANGED <<runs, payslips, filings, disbursed, calls, offers, failures>>

\* calculatePayrollRun, one transaction.
CalculatePayrollRun ==
    LET r     == Fresh(runs)
        paid  == {e \in DOMAIN employees : employees[e].tenant = DefaultTenant}
        slips == {r} \X paid
    IN /\ Request
       /\ payslips' = [s \in DOMAIN payslips \cup slips |->
                          IF s \in slips
                          THEN [gross |-> employees[s[2]].salary, status |-> "pending",
                                vc |-> NoOffer]
                          ELSE payslips[s]]
       /\ runs' = Put(runs, r,
                      [status |-> "draft", totals |-> Nothing, vc |-> NoOffer,
                       gross |-> SumFunction([e \in paid |-> employees[e].salary]),
                       net   |-> SumFunction([e \in paid |-> Net(employees[e].salary)])])
       /\ UNCHANGED <<employees, filings, disbursed, calls, offers, failures>>

-----------------------------------------------------------------------------
(* issuePayslips: an offer for every pending payslip, then one for the run.  *)

\* A slip: the WHERE without the status.
Pending_All(r) == SlipsOf(r)

Pending(r) == {s \in SlipsOf(r) : payslips[s].status = "pending"}

IssuePayslips(r) ==
    /\ Request
    /\ r \in DOMAIN runs
    /\ Begin([op |-> "issue", run |-> r, seen |-> Pending(r), todo |-> Pending(r),
              since |-> Len(offers)])
    /\ UNCHANGED <<employees, runs, payslips, filings, disbursed, offers, failures>>

Issuing(c, s) == c \in DOMAIN calls /\ calls[c].op = "issue" /\ s \in calls[c].todo

SlipOffered(c, s) ==
    /\ Issuing(c, s)
    /\ Offered("PayslipVC", s, calls[c].since)
    /\ payslips' = Put(payslips, s, [payslips[s] EXCEPT !.status = "issued", !.vc = OfferId])
    /\ Continue(c, s)
    /\ UNCHANGED <<employees, runs, filings, disbursed, started>>

\* A slip: the amounts of the payslip are added after the offer is there.
SlipRefused_NotCounted(c, s) ==
    /\ Issuing(c, s)
    /\ Refused("PayslipVC", s, calls[c].since)
    /\ calls' = Put(calls, c, [calls[c] EXCEPT !.todo = @ \ {s}, !.seen = @ \ {s}])
    /\ UNCHANGED <<employees, runs, payslips, filings, disbursed, started>>

\* A failure is logged, and the payslip stays as it was; its amounts are counted.
SlipRefused(c, s) ==
    /\ Issuing(c, s)
    /\ Refused("PayslipVC", s, calls[c].since)
    /\ Continue(c, s)
    /\ UNCHANGED <<employees, runs, payslips, filings, disbursed, started>>

Summing(c) == c \in DOMAIN calls /\ calls[c].op = "issue" /\ calls[c].todo = {}

\* A slip: an early return when no payslip was pending.
RunOffered_Pending(c) ==
    /\ Summing(c)
    /\ IF calls[c].seen = {} THEN UNCHANGED <<runs, offers, failures>>
       ELSE /\ Offered("PayrollRunVC", calls[c].run, calls[c].since)
            /\ runs' = Put(runs, calls[c].run,
                           [runs[calls[c].run] EXCEPT !.status = "completed", !.vc = OfferId,
                                                      !.totals = Totals(calls[c].seen)])
    /\ Return(c)
    /\ UNCHANGED <<employees, payslips, filings, disbursed, started>>

RunOffered(c) ==
    /\ Summing(c)
    /\ Offered("PayrollRunVC", calls[c].run, calls[c].since)
    /\ runs' = Put(runs, calls[c].run,
                   [runs[calls[c].run] EXCEPT !.status = "completed", !.vc = OfferId,
                                              !.totals = Totals(calls[c].seen)])
    /\ Return(c)
    /\ UNCHANGED <<employees, payslips, filings, disbursed, started>>

RunRefused(c) ==
    /\ Summing(c)
    /\ Refused("PayrollRunVC", calls[c].run, calls[c].since)
    /\ runs' = Put(runs, calls[c].run, [runs[calls[c].run] EXCEPT !.status = "completed"])
    /\ Return(c)
    /\ UNCHANGED <<employees, payslips, filings, disbursed, started>>

-----------------------------------------------------------------------------
(* issueTaxComplianceVC and updateTaxComplianceStatus                        *)

IssueTaxComplianceVC(r, type) ==
    LET f == Fresh(filings)
    IN /\ Request
       /\ r \in DOMAIN runs
       /\ filings' = Put(filings, f, [run |-> r, type |-> type, status |-> "pending",
                                      amount |-> runs[r].totals[type], vc |-> NoOffer])
       /\ Begin([op |-> "file", filing |-> f, since |-> Len(offers)])
       /\ UNCHANGED <<employees, runs, payslips, disbursed, offers, failures>>

Filed(c) == c \in DOMAIN calls /\ calls[c].op = "file"

FilingOffered(c) ==
    /\ Filed(c)
    /\ Offered("TaxComplianceVC", calls[c].filing, calls[c].since)
    /\ filings' = Put(filings, calls[c].filing,
                      [filings[calls[c].filing] EXCEPT !.vc = OfferId])
    /\ Return(c)
    /\ UNCHANGED <<employees, runs, payslips, disbursed, started>>

\* The call throws, and its row stays.
FilingRefused(c) ==
    /\ Filed(c)
    /\ Refused("TaxComplianceVC", calls[c].filing, calls[c].since)
    /\ Return(c)
    /\ UNCHANGED <<employees, runs, payslips, filings, disbursed, started>>

\* A slip: INSERT OR REPLACE of the id and the status.
UpdateTaxComplianceStatus_Replace(f, status) ==
    /\ Request
    /\ f \in DOMAIN filings
    /\ filings' = Put(filings, f, [status |-> status])
    /\ UNCHANGED <<employees, runs, payslips, disbursed, calls, offers, failures>>

UpdateTaxComplianceStatus(f, status) ==
    /\ Request
    /\ f \in DOMAIN filings
    /\ filings' = Put(filings, f, [filings[f] EXCEPT !.status = status])
    /\ UNCHANGED <<employees, runs, payslips, disbursed, calls, offers, failures>>

-----------------------------------------------------------------------------
(* processRunPayout: every payslip of the run after a wait, then the status. *)

ProcessRunPayout(r) ==
    /\ Request
    /\ r \in DOMAIN runs
    /\ Begin([op |-> "payout", run |-> r, todo |-> SlipsOf(r)])
    /\ UNCHANGED <<employees, runs, payslips, filings, disbursed, offers, failures>>

Paying(c) == c \in DOMAIN calls /\ calls[c].op = "payout"

Disburse(c, s) ==
    /\ Paying(c) /\ s \in calls[c].todo
    /\ disbursed' = disbursed \cup {s}
    /\ Continue(c, s)
    /\ UNCHANGED <<employees, runs, payslips, filings, offers, failures, started>>

\* Every payslip is disbursed.
PayoutEnds(c) ==
    /\ Paying(c) /\ calls[c].todo = {}
    /\ runs' = Put(runs, calls[c].run, [runs[calls[c].run] EXCEPT !.status = "paid"])
    /\ Return(c)
    /\ UNCHANGED <<employees, payslips, filings, disbursed, offers, failures, started>>

\* The process dies, and the calls with it.
Crash ==
    /\ Failure
    /\ calls' = EmptyTable
    /\ UNCHANGED <<employees, runs, payslips, filings, disbursed, offers, started>>

-----------------------------------------------------------------------------
Requests ==
    \/ \E salary \in Salaries : SaveEmployee(salary)
    \/ CalculatePayrollRun
    \/ \E r \in DOMAIN runs :
          \/ IssuePayslips(r) \/ ProcessRunPayout(r)
          \/ \E type \in FiledTypes : IssueTaxComplianceVC(r, type)
    \/ \E f \in DOMAIN filings, status \in {"filed", "confirmed", "rejected"} :
          UpdateTaxComplianceStatus(f, status)

Answer(c) ==
    \/ \E s \in DOMAIN payslips : SlipOffered(c, s) \/ SlipRefused(c, s) \/ Disburse(c, s)
    \/ RunOffered(c) \/ RunRefused(c) \/ FilingOffered(c) \/ FilingRefused(c) \/ PayoutEnds(c)

Answers == \E c \in DOMAIN calls : Answer(c)

Next == Requests \/ Answers \/ Crash
Spec == Init /\ [][Next]_vars
==============================================================================
