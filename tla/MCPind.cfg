SPECIFICATION FairSpec
CONSTANTS
  c1 = c1  c2 = c2  alice = alice  bob = bob  fresh = fresh  short = short
  Conns = {c1, c2}
  Users = {alice, bob}
  PINs = {alice, bob, fresh, short}
  LongPINs = {alice, bob, fresh}
  MaxCrashes = 1
INVARIANTS TypeOK PINChain AnswersAreTrue
PROPERTIES ConnectionEnds
CHECK_DEADLOCK FALSE
