\* Two connections under the fairness of the handlers and their clients.
CONSTANTS
  Connections = {c1, c2}
  Ids = {i1, i2}
  Args = {s1}
  Nonces = {n1}
  FirstSize = s1
  MaxConnections = 2
  MaxRequests = 2
  MaxFaults = 1
  MaxOutcomes = 1
  None = None
SPECIFICATION FairSpec
INVARIANT RequestsInv
PROPERTY RequestsEnd
