\* Errors, crashes and deletions at any step; limits below the backlog.
CONSTANTS
  Wills = {w1, w2}
  Leavers = {w2}
  Editors = {w2}
  Trustees = {t1}
  Owner = owner
  Handlers = {h1}
  Worker = worker
  WorkerLimit = 2
  RequestLimit = 1
  Faults = TRUE
  None = None
  MaxNews = 1
  MaxMail = 2
SPECIFICATION Spec
INVARIANTS
  QueueTypeOK
  RecordedBeforeMailed
  SentMeansMailed
CHECK_DEADLOCK FALSE
