\* The intervals of the code and leases around the renewal threshold; any one
\* message lost, one duplicated, one refused, one link failure,
\* one restart.
CONSTANTS
  Boards = {b1}
  Servers = {s1}
  None = None
  INIT_DELAY = 3
  RETRY_TICKS = 5
  MINUTE_TICKS = 8
  CNT_WRAP = 16
  TID_WRAP = 3
  TICK_SECONDS = 6
  Leases = {168, 390}
  Infinite = Infinite
  Lossy = {"discover", "offer", "request", "ack", "renewal"}
  MaxLosses = 1
  MaxDups = 1
  MaxFlaps = 1
  MaxRestarts = 1
  MaxNaks = 1
  AGE_CAP = 66
  PROMPT = TRUE
SPECIFICATION FairSpec
INVARIANTS RenewedInTime
PROPERTIES KeptAlive BoundOrStranded
