\* Two callers over one place for a waiter and one in the startup buffer of a service
\* that events start; shutdown is in the other runs.
SPECIFICATION Spec
CONSTANTS
  MaxInstances = 1
  Invocations = {call1, call2}
  Actions = {"a"}
  Offers = {{"a"}}
  Activation = "onEvent"
  Activating = {}
  Subscribes = FALSE
  Restart = "on-crash"
  MaxPending = 1
  WaiterMax = 1
  MaxRequests = 1
  MaxShutdowns = 0
  Nobody = Nobody
SYMMETRY Symmetry
CHECK_DEADLOCK FALSE
INVARIANTS NoneIsForgotten
