\* Two sessions; a send buffer with room for a packet and a cell.
SPECIFICATION FairSpec
CONSTANTS
  Session = {1, 2}
  Block = {0, 1}
  Chain0 = 0
  Xor <- MCXor
  EncryptBlock <- MCCipher
  DecryptBlock <- MCCipher
  Password <- MCPassword
  Room = 5
  MaxCertify <- MCMaxCertify
INVARIANTS
  RepliesInOrder
  PasswordAsSent
PROPERTIES
  SendReturns
\* a broken pipe ends the process
CHECK_DEADLOCK FALSE
