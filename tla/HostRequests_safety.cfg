\* Three connections for two permits, two requests.
CONSTANTS
  Connections = {c1, c2, c3}
  Ids = {i1, i2}
  Args = {s1, s2}
  Nonces = {n1, n2}
  FirstSize = s1
  MaxConnections = 2
  MaxRequests = 2
  MaxFaults = 0
  MaxOutcomes = 2
  None = None
SPECIFICATION Spec
INVARIANTS WriterTypes ToldHolds EndedReturnsAll AppliedOnce AnsweredWasDone NonceOnce
SYMMETRY Symmetric
