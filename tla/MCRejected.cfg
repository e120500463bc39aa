CONSTANTS
  ann = ann
  nobody = nobody
  w1 = w1
  w2 = w2
  w3 = w3
  w4 = w4
  SignedOut <- nobody
  User <- MCUser
  Write <- MCWriteAnn
  Author <- MCAuthorAnn
  MaxPendingWrites = 3
  MaxFaults = 0
SPECIFICATION CredSpec
INVARIANT RejectedWasRefused
CHECK_DEADLOCK FALSE
