------------------------------ MODULE Statutory ------------------------------
(***************************************************************************)
(* The statutory deductions of src/src/services/payroll/plugins/           *)
(* StatutoryPlugins.ts, as calculatePayrollRun applies them to a gross     *)
(* salary.  Amounts are integers, in cents.  The code computes with        *)
(* doubles and Math.round, which rounds halves up; what doubles add to     *)
(* that near an exact half is left out.                                    *)
(***************************************************************************)
EXTENDS Naturals

Least(a, b) == IF a < b THEN a ELSE b
Above(a, b) == IF a > b THEN a - b ELSE 0

\* Math.round(n / d)
RoundDiv(n, d) == (2 * n + d) \div (2 * d)

\* 4.5 % of the salary up to 700 dollars.
NSSA(gross) == RoundDiv(45 * Least(gross, 70000), 1000)

\* The bands of PAYECalculator.calculate, in hundredths of a cent.
BandTax(taxable) ==
    IF taxable > 100000 THEN 30 * (taxable - 100000) + 25 * 70000 + 20 * 20000
    ELSE IF taxable > 30000 THEN 25 * (taxable - 30000) + 20 * 20000
    ELSE IF taxable > 10000 THEN 20 * (taxable - 10000)
    ELSE 0

PAYE(taxable)   == RoundDiv(BandTax(taxable), 100)
AidsLevy(paye)  == RoundDiv(3 * paye, 100)

Deductions(gross) ==
    LET nssa == NSSA(gross)
        paye == PAYE(gross - nssa)
    IN [nssa |-> nssa, paye |-> paye, aids_levy |-> AidsLevy(paye)]

Net(gross) ==
    gross - (Deductions(gross).nssa + Deductions(gross).paye + Deductions(gross).aids_levy)

\* What bands of 20, 25 and 30 % above 100, 300 and 1000 dollars come to when each
\* rate is applied to the income inside its band: the definition of a marginal tax.
MarginalTax(taxable) ==
    20 * Above(Least(taxable, 30000), 10000)
    + 25 * Above(Least(taxable, 100000), 30000)
    + 30 * Above(taxable, 100000)
==============================================================================
