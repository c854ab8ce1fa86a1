CONSTANTS
  wait = wait
  run = run
  dead = dead
  unknown = unknown
  go = go
  back = back
  fail = fail
  NoState = NoState
  States = {wait, run, dead}
  Initials = {run, unknown}
  Signals = {go, back, fail}
  Transitions <- Moves
  Errors <- OnError
  Actions <- WithAction
  TTL <- Waits
  Visit <- Visits
  Flaps <- Flapping
  BufferSize = 3
  MaxAdds = 2
  MaxTicks = 2
  MaxInputs = 4
SPECIFICATION FairSpec
INVARIANT IndexAgrees
INVARIANT NoDeadlineForgotten
PROPERTY ImplementsMachines
PROPERTY AllHandled
CHECK_DEADLOCK FALSE
