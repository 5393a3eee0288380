\* One window with its heartbeat, one call, a channel of one line.
SPECIFICATION FairSpec
CONSTANTS
  Clients = {c1}
  Calls = {q}
  Methods = {m}
  Silenced = {}
  Offers = {{m}}
  PingIds = {1, 2}
  WriterCap = 1
  MaxMisses = 2
  NoClient = NoClient
CHECK_DEADLOCK FALSE
INVARIANTS NoneWaitsInVain
PROPERTIES WedgedIsDropped GoneIsCut ImplementsContract
