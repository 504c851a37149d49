CONSTANTS
  i1 = i1
  r1 = r1
  r2 = r2
  ev1 = ev1
  d1 = d1
  k1 = k1
  k2 = k2
  k3 = k3
  k4 = k4
  k5 = k5
  c1 = c1
  v1 = v1
  w1 = w1
  a1 = a1
  b1 = b1
  u1 = u1
  p1 = p1
  n1 = n1
  m1 = m1
  l1 = l1
  l2 = l2
  o1 = o1
  s1 = s1
  s2 = s2
  t1 = t1
  Unreadable = Unreadable
  Id <- MCId
  Requests <- MCBoth
  Intents <- MCIntents
  Autonomy = "Autonomous"
  Faults = {"crash", "write", "remove"}
  MaxBoots = 2
SPECIFICATION Spec
ACTION_CONSTRAINT OneOfTheTwo
CHECK_DEADLOCK FALSE
INVARIANTS
  TypeOK
  CacheIsFile
  LiveReferences
  ReplayReferences
  PersistedBeforeObserved
  LiveConsistent
