\* No error, no deletion; worker and a request interleave.
CONSTANTS
  Wills = {w1}
  Leavers = {}
  Editors = {}
  Trustees = {t1}
  Owner = owner
  Handlers = {h1}
  Worker = worker
  WorkerLimit = 2
  RequestLimit = 1
  Faults = FALSE
  None = None
  MaxNews = 3
  MaxMail = 3
SPECIFICATION Spec
INVARIANTS
  TransitionsAreAnnounced
  MailedIsMarked
  DuplicatesNeedRace
CHECK_DEADLOCK FALSE
