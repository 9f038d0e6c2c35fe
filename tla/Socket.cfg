\* Three sockets, two dynamic ports, three draws.
CONSTANTS
  NULL = NULL
  Sock = {s1, s2, s3}
  ByteSize = 2
  FirstPort = 2
  Word = 65536
  Kinds <- MCKinds
  SockAddr <- MCSockAddr
  Message <- MCMessage
  MaxDraws = 3
SYMMETRY Symmetry
SPECIFICATION Spec
INVARIANTS TypeOK ListSound AutoPortsDistinct DatagramsRight
PROPERTIES KeepsSocketTable
\* After a wild jump nothing is known.
CHECK_DEADLOCK FALSE
