SPECIFICATION FairSpec
CONSTANTS
  MaxItems = 3
  MaxActive = 2
  EmitEvery = 2
  PipeCap = 1
  MaxRead = 1
  MaxReport = 2
  MaxCrashes = 1
  NProcs = 1
  Fifo = TRUE
  ErrorFatal = TRUE
INVARIANTS
  TypeOK SlotsMatchChildren ForkFindsSlot ReadNeverBlocks EofMeansEnded
  ProgramOrder ReportsIntact FinishedIsComplete TokenConservation
PROPERTIES
  RefinesOrderedReport EveryoneEnds
