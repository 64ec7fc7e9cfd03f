\* Sessions come and go: three connections over two descriptors, no data.
\* Numbers wrap at three.
SPECIFICATION Spec
CONSTANTS
  c1 = c1
  c2 = c2
  c3 = c3
  o1 = o1
  o2 = o2
  o3 = o3
  Conn = {c1, c2, c3}
  NoConn = NoConn
  Obj = {o1, o2, o3}
  NULL = NULL
  Fd = {5, 6}
  m_sock = 3
  MAX_EVENTS = 2
  MAX_BUFFER = 2
  MaxTime = 3
  IdRange = 3
  m_nAuthenicationTimeout = 1
  AddMayFail = TRUE
  AcceptMayFail = TRUE
  Scripts <- Quiet
  Byte <- MCByte
  HEADER_SIZE = 2
  PACKET_PREFIX = 9
  m_functions = {1, 2}
SYMMETRY Symmetry
INVARIANTS
  ClientTable
  PoolDiscipline
  PoolBound
  NoStaleEvent
  NoEarlyTimeout
  ShutdownComplete
PROPERTIES
  ImplementsSessions
