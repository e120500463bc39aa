CONSTANTS
  Day <- MCDay
  Clock <- MCClock
  Years = {4, 5}
  Months = {0, 1}
  Dates = {30}
  Hours = {11}
  Minutes = {0}
SPECIFICATION Spec
CONSTRAINT Bounded
INVARIANTS TypeOK
PROPERTIES TriggerOrders TurnsInStep OpensInStep
CHECK_DEADLOCK FALSE
