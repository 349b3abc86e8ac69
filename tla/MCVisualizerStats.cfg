SPECIFICATION Spec
CONSTANTS
  Workers = 3
  MaxName = 3
  Files <- FourDataSets
  Jobs <- PlainStats
PROPERTIES
  StatsEnd
CHECK_DEADLOCK FALSE
