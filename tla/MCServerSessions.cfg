CONSTANTS
  c1 = c1
  None = None
  Calls = {c1}
  NumSessions = 2
  Capacity = 2
  MaxSnapshots = 2
SPECIFICATION FairSpec
INVARIANTS OnlyAuthorisedClients NeverThrown BroadcastReachesAll
PROPERTY EverySnapshotHandled
