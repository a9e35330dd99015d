\* A ring of ten bytes and packets of two, four or six; a frame below and one
\* above 255 bytes, so that both bytes of ETXND change.
CONSTANTS
  RXSTOP = 9
  MEM = 16
  Sizes = {2, 4, 6}
  MAX_COUNT = 6
  Frames = {42, 590}
  MAX_RESTARTS = 1
  MAX_PACKETS = 1
SPECIFICATION MCSpec
INVARIANTS FlowControl RoomReturns FrameAsGiven PhyExchangesApart
PROPERTIES ReachesRegister CallsReturn
\* After a read pointer outside the ring the driver may lose the chain for good.
CHECK_DEADLOCK FALSE
