SPECIFICATION FairSpec
CONSTANTS
  r1 = r1
  r2 = r2
  r3 = r3
  r4 = r4
  w1 = w1
  d1 = d1
  x1 = x1
  m1 = m1
  m2 = m2
  None = None
  Runs = {r1, r2, r3}
  Commands = {r3}
  Warmups = {w1}
  Compactions = {}
  Closers = {x1}
  Old = {m1, m2}
INVARIANTS
  TypeOK
  Stoppable
  NoResidue
  NobodyAwaitsTheGone
PROPERTIES
  CallsReturn
