\* Two publishers and a listener, four events of two panels, three starts of two daemons, two questions of each of two clients, two calls of one
\* page whose deadline is the last moment, three lines of a connection.
SPECIFICATION Spec
CONSTANTS
  Nil = Nil
  Broken = Broken
  Foreign = Foreign
  Publishers = {"p1", "p2"}
  Followers = {"c1"}
  Wishes <- TwoKinds
  Subjects = {"l1"}
  MaxPublished = 2
  BusBuffer = 1
  Recalled = 2
  LineCap = 1
  Viewed = {"l1", "l2"}
  MaxShown = 4
  ShownCap = 2
  Daemons = {"d1", "d2"}
  MaxStarts = 3
  MaxEdits = 1
  Connections = {1, 2}
  Doors <- TwoDoors
  Questions <- TwoClients
  MaxRequests = 2
  MaxHops = 5
  Workers = 1
  Waiting = 1
  Calls = {"q1", "q2"}
  Panels = {"p"}
  ActionTimeout = 2
  BridgeTimeout = 3
  Horizon = 3
  MaxLines = 3
  MaxEvents = 1
  WriterCap = 1
CHECK_DEADLOCK FALSE
INVARIANTS StreamsAreFaithful OneServes OwnAnswers
PROPERTIES OneDispatcher NoneWaitsForEver
