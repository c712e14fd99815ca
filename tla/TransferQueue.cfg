SPECIFICATION TransferFairSpec
CONSTANTS
  Jobs <- MCTwo
  Permits = 1
  MaxRetries = 2
  Capacity = 1
INVARIANTS TransferInv CancelIsObeyed
PROPERTIES KeepsPromise TransfersEnd
CHECK_DEADLOCK FALSE
