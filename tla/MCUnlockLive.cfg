SPECIFICATION FairSpec
CONSTANTS
  r1 = r1  r2 = r2  alice = alice  bob = bob  own = own  other = other
  Requests = {r1, r2}
  NoReq = NoReq
  Owners = {alice}
  NoOwner = NoOwner
  Volumes = {own, other}
  OwnVolume = own
  MaxFaults = 2
  MaxUnlocks = 1
PROPERTIES CleanupRetries LockReleased ResumeCompletes
