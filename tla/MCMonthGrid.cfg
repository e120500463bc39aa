CONSTANTS
  Zone <- MCZone
  Today <- MCToday
  MaxLength = 2
SPECIFICATION Spec
INVARIANTS GridShowsWeeks EventOnItsDays
PROPERTY GreyDaysLeadNextDoor
CHECK_DEADLOCK FALSE
