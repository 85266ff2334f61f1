\* The exit: output, a heartbeat, one request, and one call that may fail.
CONSTANTS
  Clients = {c1}
  Ids = {i1}
  Asks <- Anything
  ChannelFrames = 1
  MaxOutput = 1
  MaxSends = 1
  MaxTicks = 1
  MaxFaults = 1
  MaxOutcomes = 1
  None = None
SPECIFICATION Spec
INVARIANTS HostInv ExitIsTrue Drained
