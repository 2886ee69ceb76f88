\* Two calls for two networks: one of them goes on with the other's link.
SPECIFICATION FairSpec
CONSTANTS
  Calls = {c1, c2}
  Ssids = {home, cafe}
  MaxConcurrent = 2
  MaxPolls = 2
  MaxNetworks = 2
PROPERTIES AssociatedAsAsked
CHECK_DEADLOCK FALSE
