SPECIFICATION PagesSpec
CONSTANTS
  Types <- Four
  Catalogs <- SmallCatalogs
  Reactions = {3}
  MaxWanted = 2
  MaxDepth = 3
  Goods = {plex, ore}
  Refreshes = {r1, r2}
  PriceLists <- SmallLists
  MaxFailures = 2
  Commodities = {raw1, raw2, basic, refined, special}
  SchematicSets <- SmallSchematics
  Tiers <- SmallTiers
  Scale = 8
  Resources = {raw1, basic, refined}
  NoResource = none
  Schemas <- SmallSchemas
  UnknownSchema = lost
  Outputs = {0, 5}
  MaxPins = 3
CONSTANTS
  raw1 = raw1
  raw2 = raw2
  basic = basic
  refined = refined
  special = special
  none = none
  lost = lost
  plex = plex
  ore = ore
  r1 = r1
  r2 = r2
CHECK_DEADLOCK FALSE
INVARIANTS TypeOK DemandConserved BuiltOrBought ComponentsFirst
INVARIANTS AnsweredPricesAreStored QuietPricesStay FloorsAgree ColonyPagesAgree
PROPERTY PricesCatchUp
