SPECIFICATION Spec
CONSTANTS
  r1 = r1
  r2 = r2
  r3 = r3
  r4 = r4
  w1 = w1
  d1 = d1
  x1 = x1
  m1 = m1
  m2 = m2
  None = None
  Runs = {r1, r2, r3, r4}
  Commands = {}
  Warmups = {}
  Compactions = {}
  Closers = {}
  Old = {m1, m2}
SYMMETRY MCSymmetry
INVARIANTS
  OneRunAtATime
