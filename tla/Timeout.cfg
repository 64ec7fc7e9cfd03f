\* Time allowed: none. Sessions follow each other on one descriptor, on either platform.
SPECIFICATION BuildSpec
CONSTANTS
  c1 = c1
  c2 = c2
  c3 = c3
  o1 = o1
  o2 = o2
  o3 = o3
  Conn = {c1, c2}
  NoConn = NoConn
  Obj = {o1, o2}
  NULL = NULL
  Fd = {5}
  m_sock = 3
  MAX_EVENTS = 2
  MAX_BUFFER = 2
  MaxTime = 1
  IdRange = 100
  m_nAuthenicationTimeout = 0
  AddMayFail = FALSE
  AcceptMayFail = TRUE
  Scripts <- OneBare
  Byte <- MCByte
  HEADER_SIZE = 2
  PACKET_PREFIX = 9
  m_functions = {1, 2}
INVARIANTS
  StreamOnce
PROPERTIES
  OverdueMarked
  OverdueEnds
  QueueServed
  MarkedLeftAlone
