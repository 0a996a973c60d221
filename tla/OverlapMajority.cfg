\* Calls and responses interleave: is grace a majority's decision (API_SPEC.md:163)?
CONSTANTS
  u1 = u1
  own = own
  Users = {u1}
  Wills = {w1, w2}
  Trustees = {t1, t2}
  Emails = {e1, e2, own}
  Requests = {r1}
  Decisions = {"approve", "reject"}
  DormancyDays = {1}
  GraceDays = {1}
  MaxTime = 2
  MaxLag = 0
  MaxVersion = 2
  Callers = {p1, p2}
  OwnerEmail <- OwnAddress
  Overlap = TRUE
SPECIFICATION ServiceSpec
SYMMETRY Symmetry
PROPERTY MajorityOfCurrentTrustees
CHECK_DEADLOCK FALSE
