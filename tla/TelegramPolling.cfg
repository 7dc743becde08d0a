SPECIFICATION FairSpec
CONSTANTS
  MaxUpdateId = 2
  MaxAttempts = 2
  BatchLimit = 2
  Malformed <- OneMalformed
  MaxMalformedBatches = 2
  MaxFaults = 2
  MaxExpired = 1
  MaxForced = 1
INVARIANTS
  NoLoss
  IndInv
PROPERTIES
  InOrder
  PromiseKept
  EveryUpdateFinishes
  CursorAdvances
