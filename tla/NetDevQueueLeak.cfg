\* The buffers stay accounted for while netdev_queue_xmit() runs: they do not.
SPECIFICATION Spec
CONSTANTS
  Buf = {b1, b2, b3}
  NoBuf = NoBuf
  MaxList = 1
  MaxRx = 2
  MaxPhy = 2
  MaxCalls = 3
INVARIANTS QueueKeepsBuffers
\* The application may stop calling.
CHECK_DEADLOCK FALSE
