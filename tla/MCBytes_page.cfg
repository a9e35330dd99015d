\* Records of five bytes, so that a sentence holds at most four.
\* Every packet of up to six bytes of four values: up to two folds.
CONSTANTS
  Parts = {"line", "sum"}
  LAST = 4
  Bytes = {"$", "A", "x", "NL", "0"}
  BYTE = 4
  MAX_LEN = 6
  STARTS = {0, 25}
  ECHOREQUEST = 2
  Peers = {1, 2}
  Sizes = {1, 300, 700}
  Words = {0, 65023}
  BUFFER_SIZE = 650
  MAX_PASSES = 0
  Names <- LongNames
  AddressOf <- FirstCharacter
  Forms = {"pointer", "full"}
  Extras = {0, 1}
  TID = 2
  INDEX = 64
  MaxRequests = 0
SPECIFICATION MCSpec
INVARIANTS StaysInside TerminatorAhead RecordAsReceived ReceiverAccepts EchoReplyValid
\* checksum() returns.
CHECK_DEADLOCK FALSE
