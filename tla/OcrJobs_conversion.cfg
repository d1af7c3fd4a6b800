CONSTANTS
  b1 = b1
  b2 = b2
  b3 = b3
  Contents = {b1, b2, b3}
  Document = Document
  Images <- MCImages
  PageLists <- MCPageLists
  Concurrency = 2
  Retries = 2
  Budget = 4
  ImageTimeout = 3
  PerRequest = 2
  PollInterval = 1
  Backoff = 2
SPECIFICATION FairSpec
CHECK_DEADLOCK FALSE
INVARIANTS TypeOK InFlightBounded JobsPerContent NothingIsSkipped RangesDenotePages
PROPERTY ConversionEnds
