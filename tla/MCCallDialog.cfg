SPECIFICATION DialogSpec
CONSTANTS
  DialogPackets <- MCPackets
  MaxDialogMsgs = 5
CHECK_DEADLOCK FALSE
INVARIANT InCallAcknowledged
INVARIANT CompletedSpan
INVARIANT SetupPending
