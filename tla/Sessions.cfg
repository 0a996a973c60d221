\* Two tabs of one browser; an address used by two accounts in turn; three tokens.
CONSTANTS
  Accounts = {u1, u2}
  Emails = {e1}
  Tokens = {k1, k2, k3}
  Callers = {tab1, tab2}
  None = None
  Demo = Demo
SPECIFICATION DashboardSpec
SYMMETRY Symmetry
INVARIANTS
  DashboardTypeOK
  OneCurrentTokenPerSession
  TokensNeedAccount
  SessionsAreHeld
  StoredTokenWorks
PROPERTIES
  EndedSessionsStayEnded
