\* Two windows that register, serve, stall and leave while one call is served.
SPECIFICATION Spec
CONSTANTS
  Clients = {client1, client2}
  Calls = {caller}
  Methods = {"a"}
  Silenced = {}
  Offers = {{"a"}}
  PingIds = {}
  WriterCap = 1
  MaxMisses = 2
  NoClient = NoClient
SYMMETRY Symmetry
CHECK_DEADLOCK FALSE
INVARIANTS WindowsAreServed
