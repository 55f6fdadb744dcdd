CONSTANTS
  A = A
  B = B
  None = None
  Calls = {A, B}
  Parent <- MCParent
  Messages <- MCMessages
  StreamList <- MCStreamList
  Ips <- MCIps
  Groups <- MCGroups
  StartSettings <- MCStartSettings
  FlowHeight = 4
  ScrollStep = 2
  Precedes <- MCPrecedes
  TimesOf <- MCTimesOf
  MaxToggles = 1
SPECIFICATION Spec
INVARIANTS ColumnsFound DrawEnds
PROPERTIES ArrowsKeepTheirOrder CursorInView
