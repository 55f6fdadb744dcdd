SPECIFICATION Spec
CONSTANTS
  t1 = t1
  t2 = t2
  t3 = t3
  t4 = t4
  t6 = t6
  u4 = u4
  v4 = v4
  u6 = u6
  m1 = m1
  m2 = m2
  m3 = m3
  conn = conn
  Messages = {m1, m2, m3}
  Parts <- MCParts
  Crlf = {m1, m2}
  Zero = Zero
  Junk = Junk
  None = None
  MaxSipPayload = 9
  MaxCaptureLen = 10
  Datagrams = {t1, t2, t3, t4, t6, u4, v4, u6}
  Content <- MCContent
  Key <- MCKey
  V6 = {u6}
  Frames <- UdpFragments
  Streams = {conn, NoPorts}
  NoPorts = NoPorts
  SeqNumbers = {0, 1, 4, 5, 7}
  Transport <- MCTransport
  Header <- MCHeader
  MaxFrames = 5
INVARIANTS
  NothingWithheld
  AssembledAsSent
  StreamConserved
  OneMessageEach
CHECK_DEADLOCK FALSE
