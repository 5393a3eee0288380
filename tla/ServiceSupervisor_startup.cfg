\* A service that only the supervisor itself starts again, and shutdown at any
\* moment of it.
SPECIFICATION Spec
CONSTANTS
  MaxInstances = 2
  Invocations = {v1}
  Actions = {a}
  Offers = {{a}}
  Activation = "onStartup"
  Activating = {}
  Subscribes = FALSE
  Restart = "on-crash"
  MaxPending = 1
  WaiterMax = 1
  MaxRequests = 1
  MaxShutdowns = 1
  Nobody = Nobody
CHECK_DEADLOCK FALSE
INVARIANTS OneChildAtMost NoneWaitsForTheDead RunningIsWired
PROPERTIES ReplacementUntouched
