\* Two phones and three Hosts: one that exits, its replacement, and one after a restart.
CONSTANTS
  Phones = {p1, p2}
  NoPhone = NoPhone
  MaxHosts = 3
  MaxPending = 2
SPECIFICATION FairSpec
INVARIANTS KeptForUsers FencedWithinListener
PROPERTY TornDown
