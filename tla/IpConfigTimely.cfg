\* The six attempts of dhcp() against five faults of a network that answers in time
\* and offers meant for other clients.
CONSTANTS
  NONE = NONE
  NULL = NULL
  s1 = s1
  s2 = s2
  a1 = a1
  a2 = a2
  m1 = m1
  m2 = m2
  g1 = g1
  g2 = g2
  mc = mc
  Server = {s1, s2}
  Addr = {a1, a2}
  Val <- MCVal
  XID = {x1, x2}
  Pool <- MCPool
  Opts <- MCOpts
  SrvIdOpt <- MCSrvIdOpt
  Relay <- MCRelay
  Reserved <- MCReserved
  ClassMask <- MCClassMask
  CallIps = {NULL}
  CallCfgs <- MCCallCfgsMask
  ReplyKinds <- TwoDhcp
  StrayXids = {x1, x2}
  Dup = FALSE
  Timely = TRUE
  MaxRetries = 6
  MaxCalls = 1
  MaxLosses = 5
SPECIFICATION NetSpec
INVARIANTS RequestCoherent
PROPERTIES LeaseObtained
\* The application may stop calling.
CHECK_DEADLOCK FALSE
