\* Paused batches, stops, continues and cancels, over two runs.
SPECIFICATION Spec
CONSTANTS
  a = a  b = b  r = r  D = D
  Files = {a, b, r}  Folders = {D}  Root = Root
  FolderOf <- MCFolderOf  Walk <- FolderFirst  SizeOf <- Alike
  Backdated = {2}  ZipThresh = 2
  RetryFailed = TRUE  ScanPauses = TRUE  Flaky = FALSE  UserStops = TRUE
  Modes = {"full", "upload"}
  MaxVer = 2  MaxSlots = 3  MaxChanges = 2  MaxRuns = 2
  MaxCrashes = 0  MaxLosses = 0  MaxRetries = 0
PROPERTIES PendingIsPlanned CompletedLeavesNothingPending BatchesProgress
