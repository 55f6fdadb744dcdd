SPECIFICATION Spec
CONSTANTS
  Keys <- MCKeys
  InitialCalls <- MCInitialCalls
  Arrivals <- MCArrivals
  Frames <- MCFrames
  LineText <- MCLineText
  Layouts <- MCLayouts
  Methods <- MCMethods
  Matched <- MCMatched
  Texts <- MCTexts
  Names <- MCNames
  Disk <- MCDisk
  ReadOnly <- MCReadOnly
  Unreadable <- MCUnreadable
  Setups <- MCSetups
  NoInfo = NoInfo
  MaxChanges = 3
INVARIANTS
  PanelsHoldLiveCalls
  VerdictsOfFilters
  SavedAsReported
  PausedForAReason
PROPERTY OverwrittenWhenAsked
CHECK_DEADLOCK FALSE
