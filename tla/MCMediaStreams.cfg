CONSTANTS
  CallIds = {"c1", "c2"}
  Hosts = {"", "a", "b", "n", "x"}
  MediaMessages <- MCMessages
  Packets <- MCPackets
  IgnoreIncomplete = FALSE
  MaxMessages = 3
  MaxPackets = 4
SPECIFICATION MediaSpec
INVARIANTS StreamsAreUniform AnnouncedHasStream SplitOnlyByReverse
PROPERTIES CountedForGood
