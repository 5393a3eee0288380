\* A service that dies while it is called: its callers, its restart, and shutdown,
\* while events keep flowing.
SPECIFICATION TrafficSpec
CONSTANTS
  MaxInstances = 1
  Invocations = {v1}
  Actions = {a}
  Offers = {{a}}
  Activation = "onAction"
  Activating = {a}
  Subscribes = TRUE
  Restart = "on-crash"
  MaxPending = 1
  WaiterMax = 1
  MaxRequests = 1
  MaxShutdowns = 1
  Nobody = Nobody
CHECK_DEADLOCK FALSE
PROPERTIES DeathIsReported RunningCrashIsRetried ShutdownEnds
