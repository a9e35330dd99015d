\* One board, one server: losses, duplicates, delays and link failures.
CONSTANTS
  Boards = {b1}
  Servers = {s1}
  None = None
  INIT_DELAY = 3
  RETRY_TICKS = 1
  MINUTE_TICKS = 2
  CNT_WRAP = 4
  TID_WRAP = 3
  TICK_SECONDS = 6
  Leases = {Infinite}
  Infinite = Infinite
  Lossy = {"discover", "offer", "request", "ack", "nak"}
  MaxLosses = 1
  MaxDups = 1
  MaxFlaps = 1
  MaxRestarts = 0
  MaxNaks = 1
  AGE_CAP = 1
  PROMPT = FALSE
SPECIFICATION Spec
INVARIANTS AddressWasGranted
