\* One owner, two wills in turn, two trustees, one round.  MaxLag = 0: responses
\* given on the same day already come in both orders; the proofs cover every lag.
CONSTANTS
  Users = {u1}
  Wills = {w1, w2}
  Trustees = {t1, t2}
  Emails = {e1, e2}
  Requests = {r1}
  Decisions = {"approve", "reject"}
  DormancyDays = {1}
  GraceDays = {1}
  MaxTime = 2
  MaxLag = 0
  MaxVersion = 2
SPECIFICATION Spec
SYMMETRY Symmetry
INVARIANTS
  TypeOK
  RoundMatchesLifecycle
  TimestampsMatchLifecycle
  VersionMatchesHistory
  ResponsesComeFromTrustees
PROPERTIES
  DeletedWillsKeepTheirConfig
CHECK_DEADLOCK FALSE
