\* Two sessions at once, every kind of packet, cut anywhere.
SPECIFICATION Spec
CONSTANTS
  c1 = c1
  c2 = c2
  c3 = c3
  o1 = o1
  o2 = o2
  o3 = o3
  Conn = {c1, c2}
  NoConn = NoConn
  Obj = {o1, o2, o3}
  NULL = NULL
  Fd = {5, 6}
  m_sock = 3
  MAX_EVENTS = 3
  MAX_BUFFER = 2
  MaxTime = 0
  IdRange = 100
  m_nAuthenicationTimeout = 1
  AddMayFail = FALSE
  AcceptMayFail = FALSE
  Scripts <- Protocol
  Byte <- MCByte
  HEADER_SIZE = 2
  PACKET_PREFIX = 9
  m_functions = {1, 2}
SYMMETRY Symmetry
INVARIANTS
  TypeOK
  NoLostEdge
  ByteStream
  NoCrossTalk
PROPERTIES
  SessionRounds
