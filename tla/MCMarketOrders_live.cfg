SPECIFICATION LiveSpec
CONSTANTS
  r1 = r1
  r2 = r2
  o1 = o1
  o2 = o2
  o3 = o3
  o4 = o4
  o5 = o5
  o6 = o6
  f1 = f1
  f2 = f2
  w1 = w1
  w2 = w2
  u1 = u1
  u2 = u2
  Markets = {r1}
  Regions = {r1, r2}
  Runs = {u1, u2}
  Orders = {o1, o2}
  FetchWorkers = {f1, f2}
  WriteWorkers = {w1}
  PageSize = 1
  ChunkSize = 1
  FetchPrefetch = 5
  WritePrefetch = 2
  UniqueIndex = TRUE
  MaxFaults = 2
  MaxChanges = 0
  Book0 <- TwoRegionBook
PROPERTIES
  DispatchedIsAcked
  CapturedIsStored
  ImplementsLedger
  EveryHourIsScraped
CHECK_DEADLOCK FALSE
