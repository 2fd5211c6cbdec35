SPECIFICATION Spec
CONSTANTS
  Tasks = {t1, t2}
  Locations = {a1, a2}
  AnyPage = AnyPage
  NoAction = NoAction
  NoDocument = NoDocument
  MaxDocuments = 1
  MaxChanges = 2
  Wanted = {"save", "saveas"}
  MaxElements = 2
  Nobody = Nobody
  MaxOperations = 1
  MaxJobs = 1
  MaxRebinds = 1
INVARIANTS
  TypeOK
  FailuresAreTrue
  
  NothingUnsupervised
  CallsKeepTheirLimits
PROPERTIES
  EverythingEnds
CHECK_DEADLOCK FALSE
