\* Two calls interleave: does a published will keep a trustee (API_SPEC.md:153)?
CONSTANTS
  u1 = u1
  own = own
  Users = {u1}
  Wills = {w1, w2}
  Trustees = {t1, t2}
  Emails = {e1, e2, own}
  Requests = {r1}
  Decisions = {"approve", "reject"}
  DormancyDays = {1}
  GraceDays = {1}
  MaxTime = 2
  MaxLag = 0
  MaxVersion = 2
  Callers = {p1, p2}
  OwnerEmail <- OwnAddress
  Overlap = TRUE
SPECIFICATION ServiceSpec
SYMMETRY Symmetry
INVARIANT PublishedWillsKeepATrustee
CHECK_DEADLOCK FALSE
