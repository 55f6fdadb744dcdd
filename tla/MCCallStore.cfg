SPECIFICATION Spec
CONSTANTS
  a = a
  b = b
  c = c
  None = None
  CallIds = {a, b, c}
  XCallId <- MCXCallId
  Hidden = {c}
  Packets <- SomePackets
  Threads = {t1}
  Limit = 2
  Options <- SomeOptions
  MaxCalls = 3
  MaxMsgs <- MCMaxMsgs
INVARIANTS
  HashMatchesList
  UiTouchesLiveCalls
CHECK_DEADLOCK FALSE
