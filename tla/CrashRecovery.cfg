\* Failures, a kill, a lost index and a retry, over two runs.
SPECIFICATION Spec
CONSTANTS
  a = a  b = b  r = r  D = D
  Files = {a, b, r}  Folders = {D}  Root = Root
  FolderOf <- MCFolderOf  Walk <- FolderFirst  SizeOf <- Distinct
  Backdated = {}  ZipThresh = 2
  RetryFailed = FALSE  ScanPauses = FALSE  Flaky = TRUE  UserStops = FALSE
  Modes = {"full"}
  MaxVer = 2  MaxSlots = 2  MaxChanges = 1  MaxRuns = 2
  MaxCrashes = 1  MaxLosses = 1  MaxRetries = 1
INVARIANTS TypeOK UploadedIsBacked StagedIsCurrent SidecarDescribesZip
PROPERTY KeepsPromise
