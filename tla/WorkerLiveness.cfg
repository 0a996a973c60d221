\* Calls and sweeps interleave; one will, one trustee, two rounds.
CONSTANTS
  u1 = u1
  own = own
  Users = {u1}
  Wills = {w1}
  Trustees = {t1}
  Emails = {e1, own}
  Requests = {r1, r2}
  Decisions = {"approve", "reject"}
  DormancyDays = {1}
  GraceDays = {1}
  MaxTime = 2
  MaxLag = 1
  MaxVersion = 2
  Callers = {p1}
  OwnerEmail <- OwnAddress
  Overlap = TRUE
SPECIFICATION FairService
PROPERTIES
  DormantWillsAreVerified
  GraceEventuallyEnds
CHECK_DEADLOCK FALSE
