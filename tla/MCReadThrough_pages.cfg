SPECIFICATION FairSpec
CONSTANTS
  Locations = {station}
  Systems = {system}
  Docs = {type}
  SystemOf <- SystemOfStation
  NoSystem = none
  Pages = {p1, p2}
  MaxVersion = 1
CONSTANTS
  station = station
  system = system
  type = type
  none = none
  p1 = p1
  p2 = p2
INVARIANTS TypeOK StoredIsShown
PROPERTY EventuallyAgree
