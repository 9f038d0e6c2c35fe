\* Every received buffer is freed or sent: not the one of a foreign echo request.
SPECIFICATION Spec
CONSTANTS
  m1 = m1
  m2 = m2
  bc = bc
  mc = mc
  i1 = i1
  i2 = i2
  g1 = g1
  Mac = {me, m1, m2, bc, mc}
  Me = me
  Broadcast = bc
  GroupMac = {bc, mc}
  Ip = {i1, i2, g1}
  Multicast = {g1}
  NONE = NONE
  ZERO = ZERO
  Frame <- MCFrame
  MaxConfig = 2
INVARIANTS DisposedAtLeastOnce
\* The application may stop calling and the network may fall silent.
CHECK_DEADLOCK FALSE
