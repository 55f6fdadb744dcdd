CONSTANTS
  i1 = i1
  e1 = e1
  e2 = e2
  f1 = f1
  f2 = f2
  u1 = u1
  u2 = u2
  None = None
  Dangling = Dangling
  Blank = Blank
  Unset = Unset
  NoFilter = NoFilter
  EmptyId = EmptyId
  CallIds = {i1, e1, e2}
  CallStates = {2}
  SipFields = {u1, u2}
  Media = {0}
  Counts = {0}
  Class4Fields = {f1, f2}
  Lines <- OneCallLines
  SideFilters <- SomeSideFilters
  UnclassifiedLifetime = 1
  ClassifiedLifetime = 2
  TelnetLifetime = 1
  MaxTime = 3
SPECIFICATION Spec
INVARIANTS DataTracked CallAsFreshAsItsLegs
PROPERTIES NotPublishedTwice
SYMMETRY LegSymmetry
