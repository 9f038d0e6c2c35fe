\* Transmission from both contexts with the device opened, closed and its link
\* lost and found.
SPECIFICATION FairSpec
CONSTANTS
  Buf = {b1, b2, b3}
  NoBuf = NoBuf
  MaxList = 2
  MaxRx = 2
  MaxPhy = 2
  MaxCalls = 4
INVARIANTS TypeOK OneOwner
PROPERTIES ListKeepsBuffers SilentWhenClosed XmitReturns
\* The application may stop calling.
CHECK_DEADLOCK FALSE
