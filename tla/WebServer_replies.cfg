\* Two connections; one segment lost, any but the page, and any one duplicated.
CONSTANTS
  Conns = {c1, c2}
  BYTE = 16
  STEP = 3
  SEQ = 1024
  CLIENT_ISN = 1020
  GET_LEN = 8
  PageLens = {20, 46}
  Lossy = {"syn", "get", "ack", "fin", "synack", "sack"}
  MaxLosses = 1
  MaxDups = 1
SPECIFICATION FairSpec
INVARIANTS PageInOrder NeverAcksUnsent SessionsApart
PROPERTIES EveryFetchEnds
\* The system stops once every connection has been used.
CHECK_DEADLOCK FALSE
