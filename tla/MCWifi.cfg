\* Two calls that overlap, or follow one another over what the first has left.
SPECIFICATION FairSpec
CONSTANTS
  Calls = {c1, c2}
  Ssids = {home, cafe}
  MaxConcurrent = 2
  MaxPolls = 3
  MaxNetworks = 2
INVARIANTS TypeOK
PROPERTIES LastSelectedIsAsAsked ConnectEnds
CHECK_DEADLOCK FALSE
