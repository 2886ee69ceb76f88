SPECIFICATION Spec
CONSTANTS
  r1 = r1  r2 = r2  alice = alice  bob = bob  own = own  other = other
  Requests = {r1, r2}
  NoReq = NoReq
  Owners = {alice, bob}
  NoOwner = NoOwner
  Volumes = {own, other}
  OwnVolume = own
  MaxFaults = 3
  MaxUnlocks = 2
SYMMETRY Symmetry
INVARIANTS TypeOK ConsentBacked ErasedOnlyTwiceProven WipeIsRecorded RetryFindsVolume UnlockIsCounted
PROPERTIES LockBitLast ForeignUntouched DurableCountMonotonic TransactionKept ImplementsTx
