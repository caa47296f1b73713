SPECIFICATION FairSpec
CONSTANTS
  t1 = t1
  t2 = t2
  Tenants = {t1}
  DefaultTenant = t1
  Salaries = {50000}
  FiledTypes = {"nssa"}
  OfferSizes = {2}
  MaxChecks = 1
  MaxCalls = 5
  MaxFailures = 1
INVARIANT TypeOK
INVARIANT ReofferExplained
INVARIANT RunsMatchPayslips
INVARIANT ContractNamesEmployee
INVARIANT AuditTrail
INVARIANT RevocationsHonoured
CHECK_DEADLOCK FALSE
PROPERTY ImplementsLedger
PROPERTY AwaitedCallsSettle
