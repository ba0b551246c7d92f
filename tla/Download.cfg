\* One file: a restore download beside mirror jobs, with a change and a
\* disturbance (a cancel, a failure or a kill).
SPECIFICATION Spec
CONSTANTS
  f1 = f1  f2 = f2
  Files = {f2}  Zips = {z1}  Dirs = {d1}  None = None
  Large <- MCLarge  SameSize = {}
  MaxRestores = 1  MaxChanges = 1  MaxDisturbances = 1
INVARIANTS TypeOK 
PROPERTIES CancelIsNoFailure
CHECK_DEADLOCK FALSE
