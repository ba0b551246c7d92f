\* Failures, kills, forgotten uploads and changes between attempts.
SPECIFICATION FairSpec
CONSTANTS
  Versions = {1, 2}  SizeOf <- MCSizes  PartSizes = {2, 3}
  Workers = {1, 2}  S3Limit = 3
  MaxUploads = 5  MaxChanges = 1  MaxFaults = 2  MaxCrashes = 1
  MaxExpiries = 1
INVARIANT TypeOK
PROPERTIES KeepsPutPromise PartsGoToTheRecordedUpload UploadsUnlessBlocked
CHECK_DEADLOCK FALSE
