\* Two files in one zip; a request, a scan of
\* all, a failure, an expiry and a change.
SPECIFICATION FairSpec
CONSTANTS
  f1 = f1  f2 = f2
  Files = {f1, f2}  Zips = {z1, z2}  None = None
  Large <- MCLarge
  MaxRequests = 1  MaxScans = 1  MaxFaults = 1
  MaxExpiries = 1  MaxChanges = 1
INVARIANTS TypeOK UnchangedRestoredWasThawed
PROPERTIES RestoredStays InProgressEnds ThawsAreNoticed 
CHECK_DEADLOCK FALSE
