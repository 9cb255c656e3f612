SPECIFICATION StartupSpec
CONSTANTS
  Replicas = {r1, r2}
  NumBatches = 2
  MaxStarting = 1
  MaxCrashes = 1
  IndexNames <- Names
  IndexSpecs <- Specs
  ProductIndex = "product_type_id_1"
  ProductSpec <- ByProduct
  InitialIndexes <- ByHand
  Releases <- ThreeReleases
  Shipped <- ThreeShipped
CONSTANTS
  r1 = r1
  r2 = r2
CHECK_DEADLOCK FALSE
INVARIANTS StartupTypeOK ServesItsRelease UpHasItsIndexes
PROPERTIES UnmanagedKept EventuallyUp
