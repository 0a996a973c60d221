\* One call or sweep at a time: one will with up to three trustees, two rounds and
\* three versions, so that a published will still has an edit to refuse.
CONSTANTS
  u1 = u1
  own = own
  Users = {u1}
  Wills = {w1}
  Trustees = {t1, t2, t3}
  Emails = {e1, e2, e3, own}
  Requests = {r1, r2}
  Decisions = {"approve", "reject"}
  DormancyDays = {1}
  GraceDays = {1}
  MaxTime = 2
  MaxLag = 0
  MaxVersion = 3
  Callers = {p1}
  OwnerEmail <- OwnAddress
  Overlap = FALSE
SPECIFICATION ServiceSpec
SYMMETRY Symmetry
INVARIANTS
  ServiceTypeOK
  PublishedWillsKeepATrustee
  OnlyPublishedWillsLeaveActive
  RoundsStayWinnable
  ReadyWaitedOutGrace
PROPERTIES
  ClosedRoundsStayClosed
  GraceNeedsApprovals
  ConfigLockedOutsideActive
  MajorityOfCurrentTrustees
  ImplementsContract
CHECK_DEADLOCK FALSE
