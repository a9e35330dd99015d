\* A ring of ten bytes and packets of two, four or six.
CONSTANTS
  RXSTOP = 9
  MEM = 16
  Sizes = {2, 4, 6}
  MAX_COUNT = 6
SPECIFICATION Spec
INVARIANTS UnreadIntact
