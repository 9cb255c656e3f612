SPECIFICATION StartupSpec
CONSTANTS
  Replicas = {r1, r2}
  NumBatches = 2
  MaxStarting = 1
  MaxCrashes = 0
  IndexNames <- Names
  IndexSpecs <- Specs
  ProductIndex = "product_type_id_1"
  ProductSpec <- ByProduct
  InitialIndexes <- ByHand
  Releases <- ShippedRelease
  Shipped <- AllShipped
CONSTANTS
  r1 = r1
  r2 = r2
PROPERTY EventuallyUp
