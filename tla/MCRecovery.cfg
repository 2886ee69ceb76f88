SPECIFICATION FairRecoverySpec
CONSTANTS
  r1 = r1  r2 = r2  alice = alice
  Requests = {r1, r2}
  Console = Console
  Callers = {r1, r2, Console}
  Verbs = {"fetch", "repair", "rollback", "loader"}
  NoVerb = "none"
  MaxEnds = 2
  Owners = {alice}
  NoOwner = NoOwner
  Private = {"home", "keys"}
INVARIANTS RecoveryTypeOK BusyIsTrue BootsWhole BootFollowsWal CancelledForGood
PROPERTIES ErasedAsTyped BusyEnds RestartServes SessionEnds
