\* Two connections that contend for the mutex with stops and with input, under the
\* fairness of the tasks.
CONSTANTS
  Clients = {c1, c2}
  Ids = {i1}
  Asks <- StopsContend
  ChannelFrames = 1
  MaxOutput = 0
  MaxSends = 2
  MaxTicks = 0
  MaxFaults = 0
  MaxOutcomes = 1
  None = None
SPECIFICATION FairSpec
INVARIANTS OneStopAtATime
PROPERTIES StopEnds
