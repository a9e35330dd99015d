\* Three passes: an address, what a request left behind, and what is sent then;
\* 65023 makes the low byte of a request's checksum wrap.
\* Three questions and ids of one bit; an answer may be longer than the index reaches.
CONSTANTS
  Parts = {"frames", "names"}
  Peers = {1, 2}
  Sizes = {1, 300, 700}
  Words = {0, 65023}
  BUFFER_SIZE = 650
  MAX_PASSES = 3
  Names <- LongNames
  AddressOf <- FirstCharacter
  Forms = {"pointer", "full"}
  Extras = {0, 1}
  TID = 2
  INDEX = 64
  MaxRequests = 3
  LAST = 4
  Bytes = {"$", "A", "x", "NL", "0"}
  BYTE = 4
  MAX_LEN = 0
  STARTS = {0}
  ECHOREQUEST = 2
SPECIFICATION MCSpec
INVARIANTS FramesSound ReplyGoesBack OnlyOwnBytes AnswerIsForQuestion
PROPERTIES AnswerIsRead
\* The passes are bounded.
CHECK_DEADLOCK FALSE
