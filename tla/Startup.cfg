\* Two processes one after the other over two files.
SPECIFICATION Spec
CONSTANTS
  Word <- MCWord
  Digits <- MCDigits
  Lower <- MCLower
  NumberOf <- MCNumberOf
  atoi <- MCatoi
  FileName = {"certifier.conf", "other"}
  Disk <- MCDisk
  CutTo <- MCCutTo
  Line <- MCLine
  CommandLine <- MCCommandLine
  MaxRuns = 2
  PortRange = 65536
  Ephemeral = {50000}
  MaxKeys = 2
  Keys = {"escape", "enter"}
INVARIANTS
  FileUnderstood
  PortFromArguments
  PortFromFile
  DefaultAsAnnounced
  SocketClosedOnce
  EchoRestored
PROPERTIES
  EscapeHeard
