\* Two routes, so that the state file is written for one after the other was revoked, with
\* failed commits, crashes and power cuts, on file systems that sync directories and on ones
\* that do not; two connections, one handshake at a time.  No envelope fits the byte quota.
CONSTANTS
  Routes = {r1, r2}
  Conns = {c1, c2}
  Sources = {a1}
  Sizes = {2}
  MaxRoutes = 2
  MaxPairs = 1
  MaxHandshakes = 1
  MaxChallenges = 1
  MaxFailures = 1
  QueueMessages = 1
  QueueBytes = 1
  ChannelSize = 2
  MaxSequence = 0
  MaxEpoch = 1
  Outages = TRUE
  None = None
SPECIFICATION Spec
INVARIANTS RevokedForGood
SYMMETRY Symmetric
