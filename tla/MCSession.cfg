CONSTANTS
  ann = ann
  bob = bob
  gus = gus
  NoUser = NoUser
  Account <- MCAccount
  GoogleAccount <- MCGoogle
  Account0 <- MCAnn
  Document0 <- MCAnn
  Task = {t1, t2}
  MaxDepth = 3
SPECIFICATION Spec
SYMMETRY Symmetry
INVARIANTS UserHasDocument SignedOutIsClean SignInAgrees TypeOK
CHECK_DEADLOCK FALSE
