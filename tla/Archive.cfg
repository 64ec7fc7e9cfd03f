\* Every operation on an archive of at most four bytes, and the packet loop
\* on streams of up to fourteen.
SPECIFICATION LoopSpec
CONSTANTS
  BUFFER_SIZE = 3
  Cell <- MCCell
  Garbage <- MCGarbage
  Input <- MCInput
  Size = {0, 1, 2, 3}
  MaxLength = 14
  Copies <- MCCopies
  Byte <- MCByte
  HEADER_SIZE = 2
  PACKET_PREFIX = 9
  m_functions = {1, 2}
  Script <- MCScript
  PACKETTYPE_CERTIFY = 1
  MAX_STRING = 2
  MAX_PASSWORD = 1
  MaxAny = 4
INVARIANTS
  InBounds
  HeapIsKnown
  
PROPERTIES
  ImplementsArchive
  ImplementsRounds
