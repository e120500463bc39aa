CONSTANTS
  ann = ann
  bob = bob
  gus = gus
  NoUser = NoUser
  Account <- MCAccount
  GoogleAccount <- MCGoogle
  Account0 <- MCAnn
  Document0 <- MCAnn
  Task = {t1}
  MaxDepth = 3
SPECIFICATION Spec
INVARIANTS SplashKnowsUser
CHECK_DEADLOCK FALSE
