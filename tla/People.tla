------------------------------- MODULE People -------------------------------
(***************************************************************************)
(* Payroll, Hr and the registry of credentials in one process.  Payroll    *)
(* and Hr share the table employees, to which the approval of a candidate  *)
(* adds; wallets ask for the credentials whose offers both make, and       *)
(* operators revoke them.  A crash is one of all three.                    *)
(***************************************************************************)
EXTENDS Integers, Sequences, FiniteSets

CONSTANTS Tenants, DefaultTenant, Salaries, FiledTypes, OfferSizes, MaxChecks,
          MaxCalls, MaxFailures

VARIABLES employees, offers, failures, started,
          runs, payslips, filings, disbursed, payCalls,
          requests, leaves, claims, queue, audit, hrCalls,
          portal, registry, history, checks, verdicts

P == INSTANCE Payroll WITH calls <- payCalls
H == INSTANCE Hr WITH calls <- hrCalls
C == INSTANCE IssuedCredentials

ASSUME PeopleAssumption ==
    P!PayrollAssumption /\ H!HrAssumption /\ C!CredentialAssumption

payrollVars == <<runs, payslips, filings, disbursed, payCalls>>
hrVars      == <<requests, leaves, claims, queue, audit, hrCalls>>
registryVars == <<portal, registry, history, checks, verdicts>>
vars == <<employees, offers, failures, started, payrollVars, hrVars, registryVars>>

TypeOK == P!TypeOK /\ H!TypeOK /\ C!CredentialTypeOK
Init   == P!Init /\ H!Init /\ C!CredentialInit

\* All components die with the process.
Crash == P!Crash /\ H!Crash /\ C!CredentialCrash

OnlyPayroll == UNCHANGED hrVars /\ UNCHANGED registryVars
OnlyHr      == UNCHANGED payrollVars /\ UNCHANGED registryVars
OnlyRegistry == UNCHANGED employees /\ UNCHANGED payrollVars /\ UNCHANGED hrVars

PayrollStep == (P!Requests \/ P!Answers) /\ OnlyPayroll
HrStep      == (H!Requests \/ H!Answers \/ H!WriteAudit) /\ OnlyHr
RegistryStep == C!CredentialNext /\ OnlyRegistry

Next == PayrollStep \/ HrStep \/ RegistryStep \/ Crash

Spec == Init /\ [][Next]_vars

\* createOffer returns or throws, a wait of the payout ends, and setImmediate
\* calls back: Node never forgets a promise or a callback.
FairSpec ==
    /\ Spec
    /\ \A c \in 1..MaxCalls :
          /\ WF_vars(P!Answer(c) /\ OnlyPayroll)
          /\ WF_vars(H!Answer(c) /\ OnlyHr)
    /\ WF_vars(H!WriteAudit /\ OnlyHr)

-----------------------------------------------------------------------------
(* Properties *)

\* That of the registry, in the whole.
RevocationsHonoured == C!RevocationsHonoured

\* The row an offer is made for; a contract is for the candidate's request.
Holder(type, of) ==
    <<type, IF type = "EmploymentContractVC" THEN employees[of].candidate ELSE of>>

Rows == ({"PayslipVC"} \X DOMAIN payslips) \cup ({"PayrollRunVC"} \X DOMAIN runs)
        \cup ({"TaxComplianceVC"} \X DOMAIN filings)
        \cup ({"EmploymentContractVC"} \X DOMAIN requests)
        \cup ({"LeaveApprovalVC"} \X DOMAIN leaves)
        \cup ({"ExpenseApprovalVC"} \X DOMAIN claims)

Reference(row) ==
    CASE row[1] = "PayslipVC"            -> payslips[row[2]].vc
      [] row[1] = "PayrollRunVC"         -> runs[row[2]].vc
      [] row[1] = "TaxComplianceVC"      -> filings[row[2]].vc
      [] row[1] = "EmploymentContractVC" -> requests[row[2]].contract
      [] row[1] = "LeaveApprovalVC"      -> leaves[row[2]].vc
      [] row[1] = "ExpenseApprovalVC"    -> claims[row[2]].vc

Ledger == INSTANCE OfferLedger WITH
    made <- [i \in DOMAIN offers |-> Holder(offers[i].type, offers[i].of)],
    held <- [row \in Rows |-> Reference(row)]

\* Every stored credential id is that of an offer made for its own row, stored when
\* it was made, whatever handlers interleave, fail or die; offers are never undone.
ImplementsLedger == Ledger!Spec

\* A payslip is offered again only by a call that read the payslips before the
\* first offer was made, or because the first one was lost on its way.
ReofferExplained ==
    \A i, j \in DOMAIN offers :
        i < j /\ offers[i].type = "PayslipVC" /\ offers[j] = [offers[i] EXCEPT
            !.since = offers[j].since, !.lost = offers[j].lost]
        => offers[i].lost \/ offers[j].since < i

OfferedIn(r) ==
    {i \in DOMAIN offers : offers[i].type = "PayslipVC" /\ offers[i].of[1] = r}

\* The statutory totals of a run are those of all its payslips when the issuance
\* that wrote them read the payslips before any was offered; no filing ever claims
\* more than the payslips of its run come to; and a run is marked paid only when
\* all its salaries were sent, also when a payout dies half-way and others run.
RunsMatchPayslips ==
    /\ \A r \in DOMAIN runs :
          /\ runs[r].vc # 0 /\ (\A i \in OfferedIn(r) : offers[runs[r].vc].since < i)
             => runs[r].totals = P!Totals(P!SlipsOf(r))
          /\ runs[r].status = "paid" => P!SlipsOf(r) \subseteq disbursed
    /\ \A f \in DOMAIN filings :
          filings[f].amount <= P!Totals(P!SlipsOf(filings[f].run))[filings[f].type]

\* The contract a candidate is offered again names the employee of the request,
\* whatever approvals overlap or follow a reopening, as long as no offer fails.
ContractNamesEmployee ==
    failures = 0 => \A q \in DOMAIN requests :
        requests[q].contract # 0 =>
            offers[requests[q].contract].of = requests[q].employee

\* The entry that a row of that status leaves, and: the last one of a row is that.
Decision(status) == IF status = "pending" THEN "created" ELSE status

LastEntry(row, action) ==
    LET log == audit \o queue
    IN \E i \in DOMAIN log :
          /\ log[i] = [of |-> row, action |-> action]
          /\ \A k \in DOMAIN log : log[k].of = row => k <= i

\* As long as nothing fails, the last entry on a leave request or an expense claim,
\* written or waiting, is the decision in its row.
AuditTrail ==
    failures = 0 =>
        /\ \A l \in DOMAIN leaves : LastEntry(<<"leave", l>>, Decision(leaves[l].status))
        /\ \A x \in DOMAIN claims : LastEntry(<<"expense", x>>, Decision(claims[x].status))

\* Once nothing fails any more, a run being issued leaves the draft state, a leave
\* request or claim being approved is decided, and audit entries are written (rows are
\* alike, so the first of each table stands for all).
AwaitedCallsSettle ==
    LET Calm == failures = MaxFailures
        IssuingRun(r) == \E c \in DOMAIN payCalls :
                            payCalls[c].op = "issue" /\ payCalls[c].run = r
        Approving(l)  == \E c \in DOMAIN hrCalls :
                            hrCalls[c].op = "leave" /\ hrCalls[c].leave = l
        Onboarding(q) == \E c \in DOMAIN hrCalls :
                            hrCalls[c].op = "contract" /\ hrCalls[c].request = q
    IN /\ Calm /\ IssuingRun(1) ~> 1 \in DOMAIN runs /\ runs[1].status # "draft"
       /\ Calm /\ Approving(1) ~> 1 \in DOMAIN leaves /\ leaves[1].status # "pending"
       /\ Calm /\ Onboarding(1) ~> 1 \in DOMAIN requests /\ requests[1].status = "completed"
       /\ Calm /\ queue # <<>> ~> queue = <<>>
=============================================================================
