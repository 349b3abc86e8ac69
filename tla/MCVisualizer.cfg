SPECIFICATION Spec
CONSTANTS
  Workers = 3
  MaxName = 5
  Files <- SomeFiles
  Jobs <- AllJobs
INVARIANTS
  TypeOK
  CountedOnce
  PlayedInOrder
  SlidingVideo
  
PROPERTIES
  PoolEnds
CHECK_DEADLOCK FALSE
