\* Two acquisitions, so that packets of the first one are still under way.
SPECIFICATION FairSpec
CONSTANTS
  s1 = s1  s2 = s2  a1 = a1  a2 = a2
  Servers = {s1, s2}
  Addrs = {a1, a2}
  None = None
  Named = {s1}
  Routers = {s1}
  Resolvers = {s1}
  Attempts = 2
  MaxAcquires = 2
INVARIANTS TypeOK LeaseGranted RouteHasAddress
PROPERTIES AcquireEnds
CHECK_DEADLOCK FALSE
