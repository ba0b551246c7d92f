\* Two files; a change, a deletion of cloud paths, a failure or restart, a lost
\* index, and backup runs beside syncs, again and again.
SPECIFICATION FairSpec
CONSTANTS
  f1 = f1  f2 = f2
  Files = {f1, f2}  NumZips = 3  None = None
  Large <- MCLarge  Prefixed = FALSE
  MaxChanges = 1  MaxDeletes = 1  MaxOverlaps = 1  MaxFaults = 1
INVARIANTS TypeOK
PROPERTIES SyncMatchesBucket UntargetedSurvives  BackedUpInTheEnd
CHECK_DEADLOCK FALSE
