\* A server whose replies carry no DHCP options.
CONSTANTS
  NONE = NONE
  NULL = NULL
  s1 = s1
  s2 = s2
  a1 = a1
  a2 = a2
  m1 = m1
  m2 = m2
  g1 = g1
  g2 = g2
  mc = mc
  Server = {s1, s2}
  Addr = {a1, a2}
  Val <- MCVal
  XID = {x1, x2}
  Pool <- MCPool
  Opts <- MCOpts
  SrvIdOpt <- MCSrvIdOpt
  Relay <- MCRelay
  Reserved <- MCReserved
  ClassMask <- MCClassMask
  CallIps = {NULL}
  CallCfgs <- MCCallCfgs
  ReplyKinds <- BootpOnly
  StrayXids = {}
  Dup = FALSE
  Timely = FALSE
  MaxRetries = 2
  MaxCalls = 1
  MaxLosses = 0
SPECIFICATION CpuSpec
PROPERTIES DhcpReturns
\* The application may stop calling.
CHECK_DEADLOCK FALSE
