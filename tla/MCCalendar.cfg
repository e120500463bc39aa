CONSTANTS
  Pages = 3
  Day <- MCDay
  Today <- MCToday
  MaxInputs = 4
SPECIFICATION FairSpec
INVARIANTS TypeOK TabsAgree HeaderFollows AskedIsSelected
PROPERTIES HomeSettles NextUserSeesToday
CHECK_DEADLOCK FALSE
