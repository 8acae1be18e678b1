SPECIFICATION Spec
CONSTANTS
  u1 = u1  u2 = u2  a = a  b = b  x = x  y = y
  t1 = t1  t2 = t2  i1 = i1  i2 = i2  good = good  bad = bad
  Users = {u1, u2}
  Labels = {a, b}
  Paths = {x, y}
  Templates = {t1, t2}
  Ids = {i1, i2}
  Pubs = {good, bad}
  Malformed = {bad}
  Starts <- MCStarts
  None = None
  MaxEdits = 3
  MaxFaults = 1
  MaxKills = 1
INVARIANT EveryoneResolves
PROPERTY NewPointsAreClosed FileIsServed DeletedOnesGo
