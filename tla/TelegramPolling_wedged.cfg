SPECIFICATION FairSpec
CONSTANTS
  MaxUpdateId = 2
  MaxAttempts = 2
  BatchLimit = 1
  Malformed = {}
  MaxMalformedBatches = 1
  MaxFaults = 1
  MaxExpired = 1
  MaxForced = 0
PROPERTIES
  CursorNeverWedged
