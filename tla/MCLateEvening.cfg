CONSTANTS
  Day <- MCDay
  Clock <- MCLateClock
  Years = {4}
  Months = {0, 1}
  Dates = {0}
  Hours = {0}
  Minutes = {0}
SPECIFICATION Spec
CONSTRAINT Bounded
INVARIANTS AddedDatesInOrder
CHECK_DEADLOCK FALSE
