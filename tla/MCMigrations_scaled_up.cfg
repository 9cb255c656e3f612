SPECIFICATION Spec
CONSTANTS
  Replicas = {r1, r2}
  NumBatches = 2
  MaxStarting = 2
  MaxCrashes = 0
  IndexNames <- OneName
  IndexSpecs <- OneSpec
  ProductIndex = "by_product"
  ProductSpec <- ByProduct
  InitialIndexes <- NoIndexes
CONSTANTS
  r1 = r1
  r2 = r2
CHECK_DEADLOCK FALSE
INVARIANT ServingIsComplete
