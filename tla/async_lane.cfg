SPECIFICATION FairSpec
CONSTANTS
  Recordings <- MCRecordings
  PageLimit = 2
  LogLength = 3
  Arrivals = 1
  Tagged = {1}
  Names <- MCNames
  MaxTraces = 4
INVARIANT TypeOK
INVARIANT SpansAccounted
INVARIANT PagesComplete
INVARIANT CacheIsOwn
INVARIANT NothingOutlives
INVARIANT OutcomeTellsWhat
INVARIANT EveryTraceCounts
PROPERTY Delivers
PROPERTY RunEnds
