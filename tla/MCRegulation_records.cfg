SPECIFICATION RegulationSpec
CONSTANTS
  s1 = s1
  s2 = s2
  t1 = t1
  p1 = p1
  p2 = p2
  c1 = c1
  c2 = c2
  m1 = m1
  m2 = m2
  Times = {0, 30, 1500}
  Subjects = {s1}
  Tenants = {t1}
  Purposes = {p1,p2}
  ConsentIds = {c1,c2}
  Retentions = {0, 1440}
  Merchants = {m1}
  Ratings <- SomeRatings
  Histories <- SomeHistories
  Ages = {0, 10, 2000}
  Weights <- SomeWeights
  MaxEvents = 2
SYMMETRY Symmetry
INVARIANT RegulationTypeOK
INVARIANT ConsentHonoured
INVARIANT ServedScoreIsCurrent
INVARIANT IncentivesRight
CHECK_DEADLOCK FALSE
