\* Two profiles, two overlapping uploads, a switch, an exit, a kill, a failure.
SPECIFICATION FairSpec
CONSTANTS
  p1 = p1  p2 = p2
  Profiles = {p1, p2}  Jobs = {1, 2}  None = None
  MaxCommits = 1  MaxSwitches = 1  MaxEnds = 2  MaxFaults = 1
INVARIANTS TypeOK WholeUnlessKilled CleanRestartsKeepCommits
PROPERTIES CopyCatchesUp
CHECK_DEADLOCK FALSE
