SPECIFICATION Spec
CONSTANTS
  w1 = w1
  w2 = w2
  t1 = t1
  t2 = t2
  e1 = e1
  s1 = s1
  Workflows = {w1}
  Triggers = {t1, t2}
  Events = {e1}
  Sources = {s1}
  MaxFirings = 2
  MaxChanges = 5
  MaxCrashes = 1
INVARIANT ArmedIffActive
PROPERTY OnlyActiveFire
PROPERTY EventsReachTriggers
CHECK_DEADLOCK FALSE
