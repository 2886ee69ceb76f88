SPECIFICATION RecoverySpec
CONSTANTS
  r1 = r1  r2 = r2  alice = alice
  Requests = {r1, r2}
  Console = Console
  Callers = {r1, r2, Console}
  Verbs = {"fetch", "repair", "rollback", "loader"}
  NoVerb = "none"
  MaxEnds = 1
  Owners = {alice}
  NoOwner = NoOwner
  Private = {"home", "keys"}
INVARIANTS StatusTracks
