\* Two changes leave a path in two archives; then another path is deleted.
SPECIFICATION Spec
CONSTANTS
  f1 = f1  f2 = f2
  Files = {f1, f2}  NumZips = 3  None = None
  Large <- MCLarge  Prefixed = FALSE
  MaxChanges = 2  MaxDeletes = 1  MaxOverlaps = 0  MaxFaults = 1
PROPERTIES OnlyTargetedDeleted
CHECK_DEADLOCK FALSE
