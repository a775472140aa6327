SPECIFICATION MailSpec
CONSTANTS
  MaxJobs = 1
  MaxBatch = 1
  Attempts = 3
  Concurrency = 1
  MaxStalls = 1
  MaxCrashes = 2
  MaxCopies = 1
  MaxResends = 2
INVARIANTS
  MailTypeOK
  CopiesAreKnown
PROPERTIES
  SentStays
  Delivers
  EveryMailSettles
