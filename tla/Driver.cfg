CONSTANTS
  MaxCores = 2
  number = 3
  NumItems = 2
  NumServers = 2
  Senders = {"peer"}
  Recorders = {1, 2}
  MaxRequests = 2
  MaxReports = 1
  MaxRecords = 2
CHECK_DEADLOCK FALSE
SPECIFICATION DriverSpec
INVARIANTS ListedOnce LoneUploadExact CountsRealUploads ReportsAddUp
PROPERTY UploadReturns
