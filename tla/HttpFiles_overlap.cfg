CONSTANTS
  clientA = clientA
  clientB = clientB
  Clients = {clientA, clientB}
  server = server
  filenumber = 1
  Size = 2
  Gets = 1
  MaxRestarts = 1
CHECK_DEADLOCK FALSE
SPECIFICATION HttpSpec
INVARIANTS CreatorPrevails DownloadedAsStored
PROPERTIES ClientsEnd
