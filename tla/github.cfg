CONSTANTS
  Handlers = {h1, h2}
  Keys = {k1, k2}
  None = None
  PageSize = 1
  MaxPages = 2
  MaxRetries = 1
  MaxDocs = 6
  MaxFaults = 2
  MaxActs = 2
SPECIFICATION FairSpec
INVARIANTS TypeOK OneDocument SuccessIsTrue ClonesRemoved
PROPERTIES OthersUntouched DeliveriesEnd
CHECK_DEADLOCK FALSE
