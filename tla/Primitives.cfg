\* Four buffers in two queues, whose length wraps at three; messages of up to six
\* bytes; octets with one to three digits at the borders of the classes.
CONSTANTS
  NULL = NULL
  Buf = {b1, b2, b3, b4}
  Queue = {q1, q2}
  Width = 3
  Bytes = {0, 1, 128, 255}
  MaxBytes = 6
  Octets = {0, 10, 127, 128, 192, 224, 239, 255}
SPECIFICATION MCSpec
INVARIANTS TypeOK RingSound ChecksumRight AddrRight LengthTests
PROPERTIES KeepsFifo ClearEnds
