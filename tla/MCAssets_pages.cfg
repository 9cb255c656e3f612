SPECIFICATION FairSpec
CONSTANTS
  Items <- Three
  Stations <- Two
  Blueprints = {1}
  Hangars <- SmallHangars
  PageSize = 1
  MaxMoves = 2
CONSTANTS
  jita = jita
  amarr = amarr
INVARIANTS TypeOK StillAssetsInPlace EachMoveCostsOne
PROPERTY PagesAreAnswered
