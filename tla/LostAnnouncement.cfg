\* No error and no crash: owners delete their wills while the worker sweeps.
CONSTANTS
  Wills = {w1, w2}
  Leavers = {w1, w2}
  Editors = {}
  Trustees = {t1}
  Owner = owner
  Handlers = {h1}
  Worker = worker
  WorkerLimit = 2
  RequestLimit = 1
  Faults = FALSE
  None = None
  MaxNews = 1
  MaxMail = 2
SPECIFICATION Spec
INVARIANTS
  TransitionsAreAnnounced
SYMMETRY Symmetry
CHECK_DEADLOCK FALSE
