\* Two calls, a refusing DHCP server and a BOOTP server, frames duplicated and reordered.
CONSTANTS
  NONE = NONE
  NULL = NULL
  s1 = s1
  s2 = s2
  a1 = a1
  a2 = a2
  m1 = m1
  m2 = m2
  g1 = g1
  g2 = g2
  mc = mc
  Server = {s1, s2}
  Addr = {a1, a2}
  Val <- MCVal
  XID = {x1, x2}
  Pool <- MCPool
  Opts <- MCOpts
  SrvIdOpt <- MCSrvIdOpt
  Relay <- MCRelay
  Reserved <- MCReserved
  ClassMask <- MCClassMask
  CallIps = {NULL, a1}
  CallCfgs <- MCCallCfgs
  ReplyKinds <- Mixed
  StrayXids = {}
  Dup = TRUE
  Timely = FALSE
  MaxRetries = 2
  MaxCalls = 2
  MaxLosses = 0
SYMMETRY XidSymmetry
SPECIFICATION Spec
INVARIANTS TypeOK LeaseSound ConfigOfLessor
PROPERTIES LatchHeld KeepsAddrService
\* The application may stop calling.
CHECK_DEADLOCK FALSE
