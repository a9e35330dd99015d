\* A server answers with no record, as it may for a name that has no address.
CONSTANTS
  Parts = {"names"}
  Names <- LongNames
  AddressOf <- FirstCharacter
  Forms = {"pointer", "full"}
  Extras = {0, 1}
  TID = 2
  INDEX = 64
  MaxRequests = 3
  Peers = {1, 2}
  Sizes = {1, 300, 700}
  Words = {0, 65023}
  BUFFER_SIZE = 650
  MAX_PASSES = 0
  LAST = 4
  Bytes = {"$", "A", "x", "NL", "0"}
  BYTE = 4
  MAX_LEN = 0
  STARTS = {0}
  ECHOREQUEST = 2
SPECIFICATION MCSpec
INVARIANTS EmptyNotAccepted
CHECK_DEADLOCK FALSE
