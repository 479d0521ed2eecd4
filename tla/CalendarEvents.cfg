SPECIFICATION CalendarSpec
CONSTANTS
  SlotsPerDay = 4
  DaysPerWeek = 3
  MonthsPerYear = 2
  MonthOf <- MCMonthOf
  Zones <- MCZones
  MaxOccurrences = 6
  Null = Null
  r1 = r1  r2 = r2
  EventRequests = {r1, r2}
  Plans <- MCPlans
  NewRules <- MCNewRules
  Shifts <- MCShifts
  Ranges <- MCRanges
  Named <- MCNamed
  LeftOut = LeftOut
INVARIANTS CalendarInv ListsTheSeries EditsStand
SYMMETRY Symmetry
CHECK_DEADLOCK FALSE
