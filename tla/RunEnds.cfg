\* One run with paused batches and failures, under fairness.
SPECIFICATION FairSpec
CONSTANTS
  a = a  b = b  r = r  D = D
  Files = {a, b, r}  Folders = {D}  Root = Root
  FolderOf <- MCFolderOf  Walk <- FolderFirst  SizeOf <- Alike
  Backdated = {2}  ZipThresh = 2
  RetryFailed = TRUE  ScanPauses = TRUE  Flaky = TRUE  UserStops = FALSE
  Modes = {"full"}
  MaxVer = 2  MaxSlots = 2  MaxChanges = 1  MaxRuns = 1
  MaxCrashes = 1  MaxLosses = 0  MaxRetries = 0
PROPERTY RunsEnd
