\* The end of a Host with more output than the channel holds, one request and a
\* cancellation, under the fairness of the tasks.
CONSTANTS
  Clients = {c1}
  Ids = {i1}
  Asks <- Anything
  ChannelFrames = 1
  MaxOutput = 2
  MaxSends = 1
  MaxTicks = 0
  MaxFaults = 0
  MaxOutcomes = 1
  None = None
SPECIFICATION FairSpec
PROPERTIES HostEnds
