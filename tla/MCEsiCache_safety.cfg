SPECIFICATION CacheSpec
CONSTANTS
  Personal <- OneList
  Corp <- OneCorpList
  Requests = {q1, q2}
  EmptyVersions = {1}
  MaxVersion = 1
  MaxErrors = 1
CONSTANTS
  assets = assets
  corpAssets = corpAssets
  q1 = q1
  q2 = q2
INVARIANTS TypeOK CopiesBounded RefreshIsSeenUnlessMissed ClearedIsGoneUnlessCrossed
PROPERTIES StaleGoes ClearedIsForgotten
