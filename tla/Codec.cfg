CONSTANTS
  Base = 12
  W16 = 1
  W32 = 2
  W64 = 3
  MAGIC <- MCMagic
  MaxAppMessage = 17
  BadByte = 10
  Replacement = 99
  Packets <- MCPackets
  Pads = {0, 16, 30}
SPECIFICATION Spec
INVARIANT RoundTrip
INVARIANT CutIsDropped
INVARIANT DecodedIsThere
CHECK_DEADLOCK FALSE
