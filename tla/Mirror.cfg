\* The mirror alone, over and over: a file of its own and one in a zip, two
\* directories, two changes by backup runs, and a disturbance (a move, a
\* cancel, a failure or a kill).
SPECIFICATION FairSpec
CONSTANTS
  f1 = f1  f2 = f2
  Files = {f1, f2}  Zips = {z1, z2}  Dirs = {d1, d2}  None = None
  Large <- MCMirror  SameSize = {}
  MaxRestores = 0  MaxChanges = 2  MaxDisturbances = 1
PROPERTIES CleanMeansAll MirrorCatchesUp
CHECK_DEADLOCK FALSE
