CONSTANTS
  None = None
  Crash = Crash
  Settings <- MCSettings
  CommandLines <- MCCommandLines
  Packets <- MCPackets
  Passwords <- MCPasswords
  Datagrams <- MCDatagrams
  ListenPassword <- MCPassword
  MaxPackets = 2
  MaxRotations = 1
SPECIFICATION Spec
INVARIANTS RelayedAsCaptured StoredIsWritten
PROPERTIES OutputOnlyGrows CloseEnds
