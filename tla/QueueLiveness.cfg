\* No error, no deletion; two requests deliver at once; limits above the backlog.
CONSTANTS
  Wills = {w1, w2}
  Leavers = {}
  Editors = {}
  Trustees = {}
  Owner = owner
  Handlers = {h1, h2}
  Worker = worker
  WorkerLimit = 2
  RequestLimit = 2
  Faults = FALSE
  None = None
  MaxNews = 1
  MaxMail = 3
SPECIFICATION FairQueue
PROPERTIES
  QueuedIsDispatched
CHECK_DEADLOCK FALSE
