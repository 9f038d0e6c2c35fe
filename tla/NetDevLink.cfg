\* link_status follows the link while netdev_open() sets up_state: it does not.
SPECIFICATION Spec
CONSTANTS
  Buf = {b1, b2, b3}
  NoBuf = NoBuf
  MaxList = 1
  MaxRx = 2
  MaxPhy = 2
  MaxCalls = 3
INVARIANTS LinkHonest
\* The application may stop calling.
CHECK_DEADLOCK FALSE
