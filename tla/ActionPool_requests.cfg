\* Two requests, two workers and a channel of one place: both workers can be
\* busy, or one request be queued and the other refused; with a pool, without
\* one, and while the registration changes.
SPECIFICATION FairSpec
CONSTANTS
  Requests = {r1, r2}
  Workers = {w1, w2}
  Actions = {a1}
  QueueCap = 1
  NoEntry = NoEntry
  NoRequest = NoRequest
  Owner = Owner
CHECK_DEADLOCK FALSE
INVARIANTS AnnouncedExactlyOnce OneHolder DropDrains
PROPERTIES DropEnds ImplementsContract
