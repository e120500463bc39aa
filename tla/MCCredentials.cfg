CONSTANTS
  ann = ann
  nobody = nobody
  w1 = w1
  w2 = w2
  w3 = w3
  w4 = w4
  SignedOut <- nobody
  User <- MCUser
  Write <- MCWrite
  Author <- MCAuthor
  MaxPendingWrites = 2
  MaxFaults = 2
SPECIFICATION FairSpec
CONSTRAINT OneThird
INVARIANTS PipelineInv ResultIsOfFirst NoAssertFails AcknowledgedIsCommitted CommittedAsAuthor
PROPERTIES ImplementsPipeline ImplementsWriteQueue WritesAreAnswered
CHECK_DEADLOCK FALSE
