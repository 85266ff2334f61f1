\* Three connections, so that a route's pair is replaced while an earlier endpoint lingers.
\* A queue takes two envelopes, so that they wait in an order; the third is one too many.
CONSTANTS
  Routes = {r1}
  Conns = {c1, c2, c3}
  Sources = {a1}
  Sizes = {1}
  MaxRoutes = 1
  MaxPairs = 1
  MaxHandshakes = 1
  MaxChallenges = 1
  MaxFailures = 1
  QueueMessages = 2
  QueueBytes = 2
  ChannelSize = 2
  MaxSequence = 2
  MaxEpoch = 0
  Outages = FALSE
  None = None
SPECIFICATION Spec
INVARIANTS RelayInv EvictedIsCancelled OnePeerInOrder QueueAccounted
PROPERTIES EvictedForCause
SYMMETRY Symmetric
