\* One other host; two losses, two link failures, two frames nobody asked for.
\* Requests to two servers of which one refuses; three requests and duplicates
\* with two descriptors, so that a descriptor comes back.
CONSTANTS
  Gateway = gw
  Others = {h1}
  Me = me
  CNT_HALF = 3
  MaxLosses = 2
  MaxFlaps = 2
  MaxAsks = 2
  Servers = {"s1", "s2"}
  Refusing = {"s2"}
  FDS = 2
  Contents = {"page", "short"}
  MaxFetches = 3
SPECIFICATION MCSpec
INVARIANTS GatewayIsGateway DataIsOwn DataOnce
PROPERTIES GatewayFound 
\* The requests to servers are bounded.
CHECK_DEADLOCK FALSE
