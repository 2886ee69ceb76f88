\* Every key on every screen against an agent that fails, restarts and loses
\* its flag.
SPECIFICATION FairSpec
CONSTANTS
  Nets = {home, work, cafe}
  NoNet = none
  Secure = {home, work}
  WordLen = 1
  MinPin = 1
  MaxTyped = 1
  MaxJobs = 2
INVARIANTS TypeOK SecretsInPlace PasswordStays
PROPERTIES UnlockAsked ProgressEnds
CHECK_DEADLOCK FALSE
