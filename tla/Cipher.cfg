\* A peer encrypts, decrypts and sets keys; the server decrypts.
SPECIFICATION Spec
CONSTANTS
  peer = peer
  server = server
  Object = {peer, server}
  Key <- MCKey
  Block <- MCBlock
  DefaultKey = 1
  sm_chain0 = 0
  BlockXor <- MCXor
  Encipher <- MCEncryptBlock
  Decipher <- MCDecryptBlock
  MaxCall = 2
  Peer = {peer}
  MaxBlocks = 3
INVARIANTS
  ModesAsDescribed
  RoundTrip
  BlocksAsPublished
