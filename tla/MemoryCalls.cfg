\* Two owners, whose wills a sweep may find due at once; either may delete the will
\* and create another; two trustees between the two wills, and a round for each.
CONSTANTS
  Users = {u1, u2}
  Wills = {w1, w2}
  Trustees = {t1, t2}
  Emails = {e1, e2}
  Requests = {r1, r2}
  Decisions = {"approve", "reject"}
  DormancyDays = {1}
  GraceDays = {1}
  MaxTime = 2
  MaxVersion = 2
SPECIFICATION MemorySpec
SYMMETRY Symmetry
INVARIANTS
  MemoryTypeOK
  VotesHaveTrustee
  OneRoundWhileWaiting
PROPERTIES
  KeepsContractUntilCrossed
CHECK_DEADLOCK FALSE
