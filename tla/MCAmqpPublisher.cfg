CONSTANTS
  Capacity = 2
  MaxMessages = 5
  MaxFailures = 2
  Cancelled = Cancelled
  NoMessage = NoMessage
SPECIFICATION FairPublisherSpec
PROPERTIES ImplementsLossyFifo Flushed StopJoinsWhenDisconnected
