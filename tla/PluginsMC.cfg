\* One todo and one envelope, two branches, two events of the gateway, a chain of calls
\* that comes back to its first service, and a command that fills a pipe;
\* two processes on a document, a page and a log, a ticket, an appointment, two accounts.
SPECIFICATION Spec
CONSTANTS
  Nil = Nil
  Todos = {"t1"}
  Tags = {}
  MaxWrites = 2
  MaxCrashes = 1
  TodoFaults = 1
  Branches = {"main", "b1"}
  Main = "main"
  MaxChanges = 2
  MaxAdds = 2
  Envelopes = {"e1"}
  MaxSends = 2
  MaxDrops = 3
  SlackBackoff = 4
  MaxDispatches = 2
  GatewayFaults = 2
  GatewayBackoff = 2
  Plugins = {"echo", "kb", "discord", "todo"}
  MaxCalls = 2
  MaxEvents = 2
  Services = {"A", "B"}
  Chains <- TwoChains
  Odd <- OddLines
  WaiterMax = 3
  CallFaults = 1
  PipeCap = 1
  OutputCap = 1
  MaxBytes = 2
  Processes = {"p1", "p2"}
  Documents = {"d1"}
  KbCalls = 1
  MaxFiles = 4
  Pages = {"g1"}
  Titles = {"t1"}
  LastMonth = 2
  BookmarkAdds = 2
  Foreign = Foreign
  LlmCalls = 1
  MaxShorts = 1
  Tickets = {"t1"}
  TicketStates = {"open", "done"}
  MaxComments = 2
  TicketChanges = 2
  Inline = 2
  MaxPages = 1
  Appointments = {"e1"}
  Leads = {4, 5}
  Poll = 1
  Minimum = 4
  MaxTick = 1
  MaxFailed = 1
  Lookahead = 8
  Horizon = 9
  MaxRestarts = 1
  Clients = {"slack", "discord", "jira", "llm", "calendar"}
  MaxAuths = 2
  MaxRefreshes = 1
  MaxLocks = 1
  Torn = Torn
  Accounts = {"a1", "a2"}
  Cap = 9
  MaxMoves = 1
CHECK_DEADLOCK FALSE
INVARIANTS EachOnce PipesKeepOrder TimeoutHitsSleepers RecordsAreTrue
PROPERTIES LiveWorktree KbKeepsContract NoneIsLeftBehind
